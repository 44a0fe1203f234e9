--------------------------- MODULE RecordsProofs ---------------------------
(***************************************************************************)
(* Theorems about HWInventory, CompEthInterfaces and Groups, for every set *)
(* of locations, FRUs, interfaces, addresses, components, groups and       *)
(* calls.  In the first two a call reads in one transaction and writes in  *)
(* another, so what it read may be out of date; the invariants say what it *)
(* can still rely on.  In Groups no lock keeps the calls apart: that no    *)
(* component ends up in two partitions rests on the namespace of the rows, *)
(* on the two keys of their table, and on a PUT waiting for the rows that  *)
(* others delete.                                                          *)
(***************************************************************************)
EXTENDS HWInventory, CompEthInterfaces, Groups, FiniteSetTheorems, FunctionTheorems, TLAPS

-----------------------------------------------------------------------------
(* Sequences                                                               *)

IsSeq(s) == s \in Seq({s[i] : i \in DOMAIN s})

\* A function on 1..n is a sequence.
LEMMA FunctionIsSeq ==
    ASSUME NEW n \in Nat, NEW S, NEW t,
           t = [j \in 1..n |-> t[j]], \A j \in 1..n : t[j] \in S
    PROVE  t \in Seq(S)
    OBVIOUS

LEMMA SeqIsSeq ==
    ASSUME NEW S, NEW t \in Seq(S)
    PROVE  IsSeq(t)
<1> DEFINE n == Len(t)
           R == {t[i] : i \in DOMAIN t}
<1>1. n \in Nat /\ t = [i \in 1..n |-> t[i]] /\ DOMAIN t = 1..n
    OBVIOUS
<1>2. \A i \in 1..n : t[i] \in R
    BY <1>1
<1> HIDE DEF n, R
<1>3. t \in Seq(R)
    BY <1>1, <1>2, FunctionIsSeq
<1> QED
    BY <1>3 DEF R, IsSeq

\* What is appended is the last element.
LEMMA LastOfAppend ==
    ASSUME NEW s, IsSeq(s), NEW e
    PROVE  /\ IsSeq(Append(s, e))
           /\ Append(s, e) # <<>>
           /\ Last(Append(s, e)) = e
<1> DEFINE S == {s[i] : i \in DOMAIN s} \cup {e}
           n == Len(s)
<1>1. s = [i \in 1..n |-> s[i]] /\ n \in Nat /\ DOMAIN s = 1..n
    BY DEF IsSeq
<1>2. e \in S /\ \A i \in 1..n : s[i] \in S
    BY <1>1
<1> HIDE DEF S, n
<1>3. s \in Seq(S)
    BY <1>1, <1>2, FunctionIsSeq
<1>4. Append(s, e) \in Seq(S)
    BY <1>2, <1>3
<1>5. IsSeq(Append(s, e))
    BY <1>4, SeqIsSeq
<1>6. Append(s, e) # <<>> /\ Append(s, e)[Len(Append(s, e))] = e
    BY <1>2, <1>3
<1> QED
    BY <1>5, <1>6 DEF Last

\* What is left of a sequence is one.
LEMMA WithoutIsSeq ==
    ASSUME NEW s, IsSeq(s), NEW f
    PROVE  IsSeq(Without(s, f))
<1> DEFINE kept == {i \in DOMAIN s : s[i].fru # f}
           n    == Cardinality(kept)
           t    == Without(s, f)
<1>1. n \in Nat
    <2>1. DOMAIN s = 1..Len(s) /\ Len(s) \in Nat
        BY DEF IsSeq
    <2>2. IsFiniteSet(1..Len(s))
        BY <2>1, FS_Interval
    <2>3. kept \subseteq 1..Len(s)
        BY <2>1
    <2>4. IsFiniteSet(kept)
        BY <2>2, <2>3, FS_Subset
    <2> QED
        BY <2>4, FS_CardinalityType
<1>2. DOMAIN t = 1..n /\ t = [j \in 1..n |-> t[j]]
    BY DEF Without
<1> HIDE DEF t, n
<1>3. \A j \in 1..n : t[j] \in {t[i] : i \in DOMAIN t}
    BY <1>2
<1>4. IsSeq(t)
    BY <1>1, <1>2, <1>3, FunctionIsSeq DEF IsSeq
<1> QED
    BY <1>4 DEF t

\* Fewer events are left than there were.
LEMMA WithoutIsShorter ==
    ASSUME NEW s, IsSeq(s), NEW f
    PROVE  Len(Without(s, f)) \in Nat /\ Len(Without(s, f)) <= Len(s)
<1> DEFINE kept == {i \in DOMAIN s : s[i].fru # f}
           n    == Cardinality(kept)
           t    == Without(s, f)
<1>1. DOMAIN s = 1..Len(s) /\ Len(s) \in Nat
    BY DEF IsSeq
<1>2. IsFiniteSet(1..Len(s)) /\ Cardinality(1..Len(s)) = Len(s)
    <2>1. \A m \in Nat : IsFiniteSet(1..m) /\ Cardinality(1..m) = IF 1 > m THEN 0 ELSE m - 1 + 1
        BY FS_Interval
    <2>2. \A m \in Nat : (IF 1 > m THEN 0 ELSE m - 1 + 1) = m
        OBVIOUS
    <2> QED
        BY <1>1, <2>1, <2>2
<1>3. kept \subseteq 1..Len(s)
    BY <1>1
<1>4. IsFiniteSet(kept) /\ n <= Len(s)
    BY <1>2, <1>3, FS_Subset
<1>5. n \in Nat
    BY <1>4, FS_CardinalityType
<1>6. DOMAIN t = 1..n
    BY DEF Without
<1>7. IsSeq(t)
    BY WithoutIsSeq
<1> HIDE DEF t, n
<1>8. Len(t) = n
    BY <1>5, <1>6, <1>7 DEF IsSeq
<1> QED
    BY <1>4, <1>5, <1>8 DEF t

LEMMA AppendIsLonger ==
    ASSUME NEW s, IsSeq(s), NEW e
    PROVE  Len(s) \in Nat /\ Len(Append(s, e)) = Len(s) + 1
<1> DEFINE S == {s[i] : i \in DOMAIN s} \cup {e}
           n == Len(s)
<1>1. s = [i \in 1..n |-> s[i]] /\ n \in Nat /\ DOMAIN s = 1..n
    BY DEF IsSeq
<1>2. e \in S /\ \A i \in 1..n : s[i] \in S
    BY <1>1
<1> HIDE DEF S, n
<1>3. s \in Seq(S)
    BY <1>1, <1>2, FunctionIsSeq
<1> QED
    BY <1>2, <1>3

-----------------------------------------------------------------------------
(* Hardware history                                                        *)

HwTables ==
    /\ locs = [l \in Locs |-> locs[l]]
    /\ owes = [l \in Locs |-> owes[l]]
    /\ hwCalls = [k \in HwCallers |-> hwCalls[k]]
    /\ hist = [l \in Locs |-> hist[l]]

\* Events are in sequences, and calls have these fields.
HasFields(c) == {"op", "body", "events"} \subseteq DOMAIN c
HwFields ==
    /\ \A l \in Locs : IsSeq(hist[l])
    /\ \A k \in HwCallers : HasFields(hwCalls[k])

Said(l) == hist[l] # <<>> /\ Last(hist[l]) = Detected(locs[l])

\* A call that owes a location its event knows what is there; once it has read the
\* last events, the one that it will append is news and one that it will not is there.
Owes(l, c) ==
    /\ c.op \in {"read", "append"}
    /\ c.op = "read" => l \in DOMAIN c.body
    /\ c.op = "append" => l \in c.events
    /\ l \in DOMAIN c.body /\ Populated(l) => c.body[l] = locs[l]
    /\ c.op = "append" /\ l \in DOMAIN c.body => hist[l] = <<>> \/ Last(hist[l]) # Detected(c.body[l])
    /\ c.op = "append" /\ l \notin DOMAIN c.body /\ Populated(l) => Said(l)

Debts == \A l \in Locs, k \in HwCallers : owes[l] = k => Owes(l, hwCalls[k])

Told == \A l \in Locs : Populated(l) /\ owes[l] = "none" => Said(l)

HwInv == HwTables /\ HwFields /\ Debts /\ Told

LEMMA IdleHasFields == HasFields(HwIdle) /\ HwIdle.op = "idle"
    BY DEF HasFields, HwIdle

LEMMA HwInitInv == HwInit => HwInv
<1> SUFFICES ASSUME HwInit PROVE HwInv
    OBVIOUS
<1>1. HwTables
    BY DEF HwInit, HwTables
<1>2. HwFields
    <2>1. ASSUME NEW l \in Locs PROVE IsSeq(hist[l])
        BY DEF HwInit, IsSeq
    <2> QED
        BY <2>1, IdleHasFields DEF HwInit, HwFields
<1>3. Debts
    BY HwCallersAssumption DEF HwInit, Debts
<1>4. Told
    BY DEF HwInit, Told, Populated
<1> QED
    BY <1>1, <1>2, <1>3, <1>4 DEF HwInv

\* A location that nothing happens to keeps what was true of it.
LEMMA Untouched ==
    ASSUME NEW l \in Locs, NEW k \in HwCallers, Debts,
           hist'[l] = hist[l], hwCalls'[k] = hwCalls[k], owes[l] = k,
           locs'[l] = locs[l] \/ locs'[l] \in {Empty, NoLoc}
    PROVE  Owes(l, hwCalls[k])'
BY DEF Debts, Owes, Populated, Said, Empty, NoLoc, Fru

LEMMA UntouchedTold ==
    ASSUME NEW l \in Locs, Told,
           hist'[l] = hist[l], owes'[l] = owes[l],
           locs'[l] = locs[l] \/ locs'[l] \in {Empty, NoLoc}
    PROVE  (Populated(l) /\ owes[l] = "none" => Said(l))'
BY DEF Told, Populated, Said, Empty, NoLoc, Fru

\* A call after some of its fields were set.
LEMMA ReadsNow ==
    ASSUME NEW c, NEW body, HasFields(c)
    PROVE  LET new == [c EXCEPT !.op = "read", !.body = body]
           IN HasFields(new) /\ new.op = "read" /\ new.body = body
    BY DEF HasFields

Appends(new, c, body, events) == new = [c EXCEPT !.op = "append", !.body = body, !.events = events]

LEMMA AppendsNext ==
    ASSUME NEW c, NEW body, NEW events, NEW new, HasFields(c), Appends(new, c, body, events)
    PROVE  HasFields(new) /\ new.op = "append" /\ new.body = body /\ new.events = events
    BY DEF HasFields, Appends

LEMMA StoreKeeps ==
    ASSUME HwInv, NEW k \in HwCallers, NEW body, Store(k, body)
    PROVE  HwInv'
<1> DEFINE new == [HwIdle EXCEPT !.op = "read", !.body = body]
<1>1. /\ hwCalls[k] = HwIdle
      /\ locs' = [l \in Locs |-> IF l \in DOMAIN body THEN body[l] ELSE locs[l]]
      /\ hwCalls' = [hwCalls EXCEPT ![k] = new]
      /\ owes' = [l \in Locs |-> IF l \in DOMAIN body THEN k ELSE owes[l]]
      /\ hist' = hist
    BY Zenon DEF Store, InsertHWInvByLocs, BulkInsertHWInvByLocTx
<1>2. HasFields(new) /\ new.op = "read" /\ new.body = body
    BY IdleHasFields, ReadsNow
<1> HIDE DEF new
<1>3. HwTables' /\ hwCalls'[k] = new /\ \A j \in HwCallers \ {k} : hwCalls'[j] = hwCalls[j]
    BY <1>1 DEF HwInv, HwTables
<1>4. HwFields'
    BY <1>1, <1>2, <1>3 DEF HwInv, HwFields
<1>5. ASSUME NEW l \in Locs, NEW j \in HwCallers, owes'[l] = j
      PROVE  Owes(l, hwCalls[j])'
    <2>1. CASE l \in DOMAIN body
        <3>1. j = k /\ locs'[l] = body[l]
            BY <1>1, <1>5, <2>1
        <3> QED
            BY <1>2, <1>3, <2>1, <3>1 DEF Owes
    <2>2. CASE l \notin DOMAIN body
        <3>1. owes[l] = j /\ locs'[l] = locs[l] /\ hist'[l] = hist[l]
            BY <1>1, <1>5, <2>2
        <3>2. j # k
            BY <1>1, <3>1, IdleHasFields DEF HwInv, Debts, Owes
        <3> QED
            BY <1>3, <3>1, <3>2, Untouched DEF HwInv
    <2> QED
        BY <2>1, <2>2
<1>6. ASSUME NEW l \in Locs, Populated(l)', owes'[l] = "none"
      PROVE  Said(l)'
    <2>1. l \notin DOMAIN body
        BY <1>1, <1>6, HwCallersAssumption
    <2>2. owes'[l] = owes[l] /\ locs'[l] = locs[l] /\ hist'[l] = hist[l]
        BY <1>1, <2>1
    <2> QED
        BY <1>6, <2>2, UntouchedTold DEF HwInv
<1>7. Debts' /\ Told'
    BY <1>5, <1>6 DEF Debts, Told
<1> QED
    BY <1>3, <1>4, <1>7 DEF HwInv

\* A call about what could not be stored owes nothing.
LEMMA EventKeeps ==
    ASSUME HwInv, NEW k \in HwCallers, doUpdateCompHWInv(k)
    PROVE  HwInv'
<1>1. PICK part :
        \/ Store(k, part)
        \/ /\ hwCalls[k] = HwIdle
           /\ hwCalls' = [hwCalls EXCEPT ![k] = [HwIdle EXCEPT !.op = "read", !.body = part]]
           /\ owes' = [l \in Locs |-> IF l \in DOMAIN part THEN "some" ELSE owes[l]]
           /\ UNCHANGED <<locs, frus, hist>>
    BY DEF doUpdateCompHWInv
<1>2. CASE Store(k, part)
    BY <1>2, StoreKeeps
<1>3. CASE /\ hwCalls[k] = HwIdle
           /\ hwCalls' = [hwCalls EXCEPT ![k] = [HwIdle EXCEPT !.op = "read", !.body = part]]
           /\ owes' = [l \in Locs |-> IF l \in DOMAIN part THEN "some" ELSE owes[l]]
           /\ UNCHANGED <<locs, frus, hist>>
    <2> DEFINE new == [HwIdle EXCEPT !.op = "read", !.body = part]
    <2>1. HasFields(new)
        BY IdleHasFields, ReadsNow
    <2> HIDE DEF new
    <2>2. HwTables' /\ hwCalls'[k] = new /\ \A j \in HwCallers \ {k} : hwCalls'[j] = hwCalls[j]
        BY <1>3 DEF HwInv, HwTables, new
    <2>3. HwFields'
        BY <1>3, <2>1, <2>2 DEF HwInv, HwFields
    <2>4. ASSUME NEW l \in Locs, NEW j \in HwCallers, owes'[l] = j
          PROVE  Owes(l, hwCalls[j])'
        <3>1. owes[l] = j
            BY <1>3, <2>4, HwCallersAssumption
        <3>2. j # k
            BY <1>3, <3>1, IdleHasFields DEF HwInv, Debts, Owes
        <3> QED
            BY <1>3, <2>2, <3>1, <3>2, Untouched DEF HwInv
    <2>5. ASSUME NEW l \in Locs, Populated(l)', owes'[l] = "none"
          PROVE  Said(l)'
        <3>1. owes'[l] = owes[l]
            BY <1>3, <2>5
        <3> QED
            BY <1>3, <2>5, <3>1, UntouchedTold DEF HwInv
    <2>6. Debts' /\ Told'
        BY <2>4, <2>5 DEF Debts, Told
    <2> QED
        BY <2>2, <2>3, <2>6 DEF HwInv
<1> QED
    BY <1>1, <1>2, <1>3

LEMMA GenerateKeeps ==
    ASSUME HwInv, NEW k \in HwCallers, GenerateHWInvHist(k)
    PROVE  HwInv'
<1> DEFINE c == hwCalls[k]
           news == NewEvents(c.body)
           body == [l \in news |-> c.body[l]]
           new == [c EXCEPT !.op = "append", !.body = body, !.events = DOMAIN c.body]
<1>1. /\ c.op = "read"
      /\ hwCalls' = [hwCalls EXCEPT ![k] = new]
      /\ locs' = locs /\ hist' = hist /\ owes' = owes
    BY DEF GenerateHWInvHist
<1>2. HasFields(new) /\ new.op = "append" /\ new.body = body /\ new.events = DOMAIN c.body
    <2>1. HasFields(c)
        BY DEF HwInv, HwFields
    <2>2. Appends(new, c, body, DOMAIN c.body)
        BY DEF Appends
    <2> HIDE DEF body, new, c
    <2> QED
        BY <2>1, <2>2, AppendsNext
<1> HIDE DEF new
<1>3. /\ HwTables' /\ HwFields' /\ hwCalls'[k] = new
      /\ \A j \in HwCallers \ {k} : hwCalls'[j] = hwCalls[j]
    BY <1>1, <1>2 DEF HwInv, HwTables, HwFields
<1>4. ASSUME NEW l \in Locs, NEW j \in HwCallers, owes'[l] = j
      PROVE  Owes(l, hwCalls[j])'
    <2>1. CASE j # k
        BY <1>1, <1>3, <1>4, <2>1, Untouched DEF HwInv
    <2>2. CASE j = k
        <3>1. l \in DOMAIN c.body /\ (Populated(l) => c.body[l] = locs[l])
            BY <1>1, <1>4, <2>2 DEF HwInv, Debts, Owes
        <3>2. CASE l \in news
            <4>1. hist[l] = <<>> \/ Last(hist[l]) # Detected(c.body[l])
                BY <3>2 DEF NewEvents
            <4>2. l \in DOMAIN new.body /\ new.body[l] = c.body[l]
                BY <1>2, <3>2
            <4> HIDE DEF news
            <4> QED
                BY <1>1, <1>2, <1>3, <2>2, <3>1, <4>1, <4>2 DEF Owes, Populated
        <3>3. CASE l \notin news
            <4>1. Populated(l) => Said(l)
                BY <3>1, <3>3 DEF NewEvents, Populated, Said
            <4>2. l \notin DOMAIN new.body
                BY <1>2, <3>3
            <4> HIDE DEF news
            <4> QED
                BY <1>1, <1>2, <1>3, <2>2, <3>1, <4>1, <4>2 DEF Owes, Populated, Said
        <3> QED
            BY <3>2, <3>3
    <2> QED
        BY <2>1, <2>2
<1>5. Debts'
    BY <1>4 DEF Debts
<1>6. Told'
    BY <1>1 DEF HwInv, Told, Populated, Said
<1> QED
    BY <1>3, <1>5, <1>6 DEF HwInv

\* What a call appends settles what it owed, and disturbs what others owe.
LEMMA InsertKeeps ==
    ASSUME HwInv, NEW k \in HwCallers, InsertHWInvHists(k)
    PROVE  HwInv'
<1> DEFINE c == hwCalls[k]
<1>1. /\ c.op = "append"
      /\ hist' = [l \in Locs |-> IF l \in DOMAIN c.body THEN Append(hist[l], Detected(c.body[l])) ELSE hist[l]]
      /\ hwCalls' = [hwCalls EXCEPT ![k] = HwIdle]
      /\ owes' = [l \in Locs |-> IF l \in c.events /\ owes[l] = k THEN "none"
                                 ELSE IF l \in DOMAIN c.body THEN "some" ELSE owes[l]]
      /\ locs' = locs
    BY DEF InsertHWInvHists
<1>2. hwCalls'[k] = HwIdle /\ \A j \in HwCallers \ {k} : hwCalls'[j] = hwCalls[j]
    BY <1>1 DEF HwInv, HwTables
<1>3. HwTables'
    BY <1>1 DEF HwInv, HwTables
<1>4. ASSUME NEW l \in Locs, l \in DOMAIN c.body
      PROVE  IsSeq(hist'[l]) /\ hist'[l] # <<>> /\ Last(hist'[l]) = Detected(c.body[l])
    <2>1. hist'[l] = Append(hist[l], Detected(c.body[l]))
        BY <1>1, <1>4
    <2>2. IsSeq(hist[l])
        BY DEF HwInv, HwFields
    <2> QED
        BY <2>1, <2>2, LastOfAppend
<1>5. HwFields'
    <2>1. ASSUME NEW l \in Locs PROVE IsSeq(hist'[l])
        <3>1. CASE l \in DOMAIN c.body
            BY <1>4, <3>1
        <3>2. CASE l \notin DOMAIN c.body
            <4>1. hist'[l] = hist[l]
                BY <1>1, <3>2
            <4> QED
                BY <4>1 DEF HwInv, HwFields
        <3> QED
            BY <3>1, <3>2
    <2>2. \A j \in HwCallers : HasFields(hwCalls'[j])
        BY <1>2, IdleHasFields DEF HwInv, HwFields
    <2> QED
        BY <2>1, <2>2 DEF HwFields
<1>6. ASSUME NEW l \in Locs, owes[l] = k
      PROVE  l \in c.events
    BY <1>1, <1>6 DEF HwInv, Debts, Owes
<1>7. ASSUME NEW l \in Locs, NEW j \in HwCallers, owes'[l] = j
      PROVE  Owes(l, hwCalls[j])'
    <2>1. owes[l] = j /\ j # k /\ l \notin DOMAIN c.body
        BY <1>1, <1>6, <1>7, HwCallersAssumption
    <2>2. hist'[l] = hist[l] /\ locs'[l] = locs[l] /\ hwCalls'[j] = hwCalls[j]
        BY <1>1, <1>2, <2>1
    <2> QED
        BY <2>1, <2>2, Untouched DEF HwInv
<1>8. ASSUME NEW l \in Locs, Populated(l)', owes'[l] = "none"
      PROVE  Said(l)'
    <2>1. Populated(l)
        BY <1>1, <1>8 DEF Populated
    <2>2. CASE owes[l] = k
        <3>1. Owes(l, c)
            BY <2>2 DEF HwInv, Debts
        <3>2. CASE l \in DOMAIN c.body
            BY <1>1, <1>4, <2>1, <3>1, <3>2 DEF Owes, Said, Populated
        <3>3. CASE l \notin DOMAIN c.body
            <4>1. hist'[l] = hist[l] /\ Said(l)
                BY <1>1, <2>1, <3>1, <3>3 DEF Owes
            <4> QED
                BY <1>1, <4>1 DEF Said
        <3> QED
            BY <3>2, <3>3
    <2>3. CASE owes[l] # k
        <3>1. l \notin DOMAIN c.body /\ owes[l] = "none"
            BY <1>1, <1>8, <2>3
        <3>2. hist'[l] = hist[l]
            BY <1>1, <3>1
        <3> QED
            BY <1>1, <2>1, <3>1, <3>2 DEF HwInv, Told, Said
    <2> QED
        BY <2>2, <2>3
<1>9. Debts' /\ Told'
    BY <1>7, <1>8 DEF Debts, Told
<1> QED
    BY <1>3, <1>5, <1>9 DEF HwInv

LEMMA HistoryFailsKeeps ==
    ASSUME HwInv, NEW k \in HwCallers, HistoryFails(k)
    PROVE  HwInv'
<1>1. /\ hwCalls' = [hwCalls EXCEPT ![k] = HwIdle]
      /\ owes' = [l \in Locs |-> IF owes[l] = k THEN "some" ELSE owes[l]]
      /\ locs' = locs /\ hist' = hist
    BY DEF HistoryFails
<1>2. hwCalls'[k] = HwIdle /\ \A j \in HwCallers \ {k} : hwCalls'[j] = hwCalls[j]
    BY <1>1 DEF HwInv, HwTables
<1>3. HwTables' /\ HwFields'
    BY <1>1, <1>2, IdleHasFields DEF HwInv, HwTables, HwFields
<1>4. ASSUME NEW l \in Locs, NEW j \in HwCallers, owes'[l] = j
      PROVE  Owes(l, hwCalls[j])'
    <2>1. owes[l] = j /\ j # k
        BY <1>1, <1>4, HwCallersAssumption
    <2> QED
        BY <1>1, <1>2, <2>1, Untouched DEF HwInv
<1>5. Told'
    BY <1>1 DEF HwInv, Told, Populated, Said
<1>6. Debts'
    BY <1>4 DEF Debts
<1> QED
    BY <1>3, <1>5, <1>6 DEF HwInv

\* Locations go, and no event says so.
LEMMA LocationsGone ==
    ASSUME HwInv, hist' = hist, hwCalls' = hwCalls, owes' = owes,
           locs' = [l \in Locs |-> locs'[l]],
           \A l \in Locs : locs'[l] \in {locs[l], NoLoc}
    PROVE  HwInv'
<1>1. HwTables' /\ HwFields'
    BY DEF HwInv, HwTables, HwFields
<1>2. ASSUME NEW l \in Locs, NEW j \in HwCallers, owes'[l] = j
      PROVE  Owes(l, hwCalls[j])'
    BY <1>2, Untouched DEF HwInv
<1>3. ASSUME NEW l \in Locs, Populated(l)', owes'[l] = "none"
      PROVE  Said(l)'
    BY <1>3, UntouchedTold DEF HwInv
<1>4. Debts' /\ Told'
    BY <1>2, <1>3 DEF Debts, Told
<1> QED
    BY <1>1, <1>4 DEF HwInv

\* An endpoint's locations go, those with a FRU with an event that says so.
LEMMA DetachKeeps ==
    ASSUME HwInv, SetChildCompStatesRFEndpointsTx
    PROVE  HwInv'
<1>1. PICK gone \in SUBSET Locs :
        /\ locs' = [l \in Locs |-> IF l \in gone THEN NoLoc ELSE locs[l]]
        /\ hist' = [l \in Locs |-> IF l \in gone /\ Populated(l) THEN Append(hist[l], Event(locs[l], "Removed"))
                                   ELSE hist[l]]
        /\ owes' = [l \in Locs |-> IF l \in gone /\ Populated(l) THEN "none" ELSE owes[l]]
        /\ hwCalls' = hwCalls
    BY DEF SetChildCompStatesRFEndpointsTx
<1>2. HwTables'
    BY <1>1 DEF HwInv, HwTables
<1>3. HwFields'
    <2>1. ASSUME NEW l \in Locs PROVE IsSeq(hist'[l])
        <3>1. IsSeq(hist[l])
            BY DEF HwInv, HwFields
        <3>2. hist'[l] = hist[l] \/ \E e : hist'[l] = Append(hist[l], e)
            BY <1>1
        <3> QED
            BY <3>1, <3>2, LastOfAppend
    <2> QED
        BY <1>1, <2>1 DEF HwInv, HwFields
<1>4. ASSUME NEW l \in Locs, NEW j \in HwCallers, owes'[l] = j
      PROVE  Owes(l, hwCalls[j])'
    <2>1. owes[l] = j /\ hist'[l] = hist[l] /\ locs'[l] \in {locs[l], NoLoc}
        BY <1>1, <1>4, HwCallersAssumption
    <2> QED
        BY <1>1, <2>1, Untouched DEF HwInv
<1>5. ASSUME NEW l \in Locs, Populated(l)', owes'[l] = "none"
      PROVE  Said(l)'
    <2>1. l \notin gone
        BY <1>1, <1>5 DEF Populated
    <2>2. owes'[l] = owes[l] /\ hist'[l] = hist[l] /\ locs'[l] = locs[l]
        BY <1>1, <2>1
    <2> QED
        BY <1>5, <2>2, UntouchedTold DEF HwInv
<1>6. Debts' /\ Told'
    BY <1>4, <1>5 DEF Debts, Told
<1> QED
    BY <1>2, <1>3, <1>6 DEF HwInv

\* Events are deleted: of the locations that had them nothing is claimed.
LEMMA HistoryDeleted ==
    ASSUME HwInv, locs' = locs, hwCalls' = hwCalls,
           hist' = [l \in Locs |-> hist'[l]], owes' = [l \in Locs |-> owes'[l]],
           \A l \in Locs : \/ hist'[l] = hist[l] /\ owes'[l] = owes[l]
                           \/ IsSeq(hist'[l]) /\ owes'[l] = "some"
    PROVE  HwInv'
<1>1. HwTables' /\ HwFields'
    BY DEF HwInv, HwTables, HwFields
<1>2. ASSUME NEW l \in Locs, NEW j \in HwCallers, owes'[l] = j
      PROVE  Owes(l, hwCalls[j])'
    <2>1. hist'[l] = hist[l] /\ owes[l] = j
        BY <1>2, HwCallersAssumption
    <2> QED
        BY <2>1, Untouched DEF HwInv
<1>3. ASSUME NEW l \in Locs, Populated(l)', owes'[l] = "none"
      PROVE  Said(l)'
    <2>1. hist'[l] = hist[l] /\ owes'[l] = owes[l]
        BY <1>3
    <2> QED
        BY <1>3, <2>1, UntouchedTold DEF HwInv
<1>4. Debts' /\ Told'
    BY <1>2, <1>3 DEF Debts, Told
<1> QED
    BY <1>1, <1>4 DEF HwInv

LEMMA NoEventsIsSeq == IsSeq(<<>>)
<1>1. <<>> \in Seq({})
    OBVIOUS
<1> QED
    BY <1>1, SeqIsSeq

LEMMA HistoryByLocKeeps ==
    ASSUME HwInv, NEW l \in Locs, DeleteHWInvHistByLocID(l)
    PROVE  HwInv'
BY HistoryDeleted, NoEventsIsSeq DEF DeleteHWInvHistByLocID, Forget, HwInv, HwTables

LEMMA HistoryByFRUKeeps ==
    ASSUME HwInv, NEW f \in frus, DeleteHWInvHistByFRUID(f)
    PROVE  HwInv'
<1> DEFINE had == {l \in Locs : \E i \in DOMAIN hist[l] : hist[l][i].fru = f}
<1>1. /\ hist' = [l \in Locs |-> IF l \in had THEN Without(hist[l], f) ELSE hist[l]]
      /\ owes' = [l \in Locs |-> IF l \in had THEN "some" ELSE owes[l]]
      /\ locs' = locs /\ hwCalls' = hwCalls
    BY DEF DeleteHWInvHistByFRUID
<1> HIDE DEF had
<1>2. \A l \in Locs : IsSeq(Without(hist[l], f))
    BY WithoutIsSeq DEF HwInv, HwFields
<1>3. \A l \in Locs : \/ hist'[l] = hist[l] /\ owes'[l] = owes[l]
                      \/ IsSeq(hist'[l]) /\ owes'[l] = "some"
    BY <1>1, <1>2
<1> QED
    BY <1>1, <1>3, HistoryDeleted

LEMMA HistoryAllKeeps ==
    ASSUME HwInv, DeleteHWInvHistAll
    PROVE  HwInv'
<1>1. /\ hist' = [l \in Locs |-> <<>>]
      /\ owes' = [l \in Locs |-> IF hist[l] # <<>> THEN "some" ELSE owes[l]]
      /\ locs' = locs /\ hwCalls' = hwCalls
    BY DEF DeleteHWInvHistAll
<1>2. \A l \in Locs : \/ hist'[l] = hist[l] /\ owes'[l] = owes[l]
                      \/ IsSeq(hist'[l]) /\ owes'[l] = "some"
    BY <1>1, NoEventsIsSeq
<1> QED
    BY <1>1, <1>2, HistoryDeleted

LEMMA HwNextKeeps ==
    ASSUME HwInv, [HwNext]_hwVars
    PROVE  HwInv'
<1>1. ASSUME NEW k \in HwCallers, doHWInvByLocationPost(k) PROVE HwInv'
    BY <1>1, StoreKeeps DEF doHWInvByLocationPost
<1>2. ASSUME NEW k \in HwCallers, updateFromRfEndpoint(k) PROVE HwInv'
    BY <1>2, StoreKeeps DEF updateFromRfEndpoint
<1>3. CASE doHWInvByLocationDelete
    <2>1. PICK l \in Locs : locs' = [locs EXCEPT ![l] = NoLoc]
        BY <1>3 DEF doHWInvByLocationDelete, DeleteHWInvByLocID
    <2>2. locs' = [x \in Locs |-> locs'[x]] /\ \A x \in Locs : locs'[x] \in {locs[x], NoLoc}
        BY <2>1 DEF HwInv, HwTables
    <2> QED
        BY <1>3, <2>2, LocationsGone DEF doHWInvByLocationDelete, HwUnchanged
<1>4. CASE doHWInvByLocationDeleteAll
    BY <1>4, LocationsGone DEF doHWInvByLocationDeleteAll, DeleteHWInvByLocsAll, HwUnchanged
<1>5. CASE UNCHANGED <<locs, hist, hwCalls, owes>>
    BY <1>5, LocationsGone DEF HwInv, HwTables
<1>6. CASE doHWInvByFRUDelete \/ doHWInvByFRUDeleteAll \/ UNCHANGED hwVars
    BY <1>5, <1>6 DEF doHWInvByFRUDelete, doHWInvByFRUDeleteAll, hwVars
<1>7. CASE doHWInvHistByLocationDelete \/ doHWInvHistByFRUDelete \/ doHWInvHistDeleteAll
    BY <1>7, HistoryByLocKeeps, HistoryByFRUKeeps, HistoryAllKeeps
       DEF doHWInvHistByLocationDelete, doHWInvHistByFRUDelete, doHWInvHistDeleteAll
<1> QED
    BY <1>1, <1>2, <1>3, <1>4, <1>6, <1>7, EventKeeps, GenerateKeeps, InsertKeeps, HistoryFailsKeeps,
       DetachKeeps DEF HwNext

\* What is in a location is what its last event says was detected there, unless the
\* call that stored it has still to say so, or could not, or its event was disturbed.
\* A call that read the last event in one transaction may still trust in the next that
\* it is the last, as long as the location is its own (discover.go:865-909,
\* smd-api.go:1519).
THEOREM HistoryTellsHolds == HwSpec => []HistoryTells
<1>1. HwInv => HistoryTells
    BY DEF HwInv, Told, Said, HistoryTells
<1> QED
    BY <1>1, HwInitInv, HwNextKeeps, PTL DEF HwSpec

\* A call whose debt nobody has disturbed appends no event that repeats the last one,
\* although it compared with a history that others may have added to since
\* (discover.go:895-901).
THEOREM NewsIsNewHolds == HwSpec => NewsIsNew
<1> DEFINE News == \A k \in HwCallers : hwCalls[k].op = "append" /\ hwCalls'[k] = HwIdle =>
                     \A l \in Locs : owes[l] = k /\ hist'[l] # hist[l] =>
                         hist[l] = <<>> \/ Last(hist[l]) # Last(hist'[l])
<1>1. ASSUME HwInv, [HwNext]_hwVars PROVE [News]_hwVars
    <2> SUFFICES ASSUME NEW k \in HwCallers, hwCalls[k].op = "append", hwCalls'[k] = HwIdle,
                        NEW l \in Locs, owes[l] = k, hist'[l] # hist[l]
                 PROVE  hist[l] = <<>> \/ Last(hist[l]) # Last(hist'[l])
        OBVIOUS
    <2>1. hwCalls' # hwCalls
        BY IdleHasFields
    <2>2. PICK j \in HwCallers : InsertHWInvHists(j)
        BY <1>1, <2>1
        DEF HwNext, hwVars, doHWInvByLocationPost, updateFromRfEndpoint, doUpdateCompHWInv, Store,
            GenerateHWInvHist, HistoryFails, doHWInvByLocationDelete, doHWInvByLocationDeleteAll, HwUnchanged,
            doHWInvByFRUDelete, doHWInvByFRUDeleteAll, SetChildCompStatesRFEndpointsTx,
            doHWInvHistByLocationDelete, DeleteHWInvHistByLocID, Forget, doHWInvHistByFRUDelete,
            DeleteHWInvHistByFRUID, doHWInvHistDeleteAll, DeleteHWInvHistAll
    <2>3. hwCalls' = [hwCalls EXCEPT ![j] = HwIdle]
        BY <2>2 DEF InsertHWInvHists
    <2>4. j = k
        BY <2>3, IdleHasFields DEF HwInv, HwTables
    <2>5. l \in DOMAIN hwCalls[k].body /\ hist'[l] = Append(hist[l], Detected(hwCalls[k].body[l]))
        BY <2>2, <2>4 DEF InsertHWInvHists
    <2>6. IsSeq(hist[l]) /\ Owes(l, hwCalls[k])
        BY <1>1 DEF HwInv, HwFields, Debts
    <2>7. Last(hist'[l]) = Detected(hwCalls[k].body[l])
        BY <2>5, <2>6, LastOfAppend
    <2> QED
        BY <2>5, <2>6, <2>7 DEF Owes
<1>2. HwInv /\ [HwNext]_hwVars => [News]_hwVars
    BY <1>1
<1> QED
    BY <1>2, HwInitInv, HwNextKeeps, PTL DEF HwSpec, NewsIsNew

-----------------------------------------------------------------------------
(* Locations and FRUs                                                      *)

HwTypeInv == HwInv /\ HwTypeOK

LEMMA StoreTyped ==
    ASSUME HwTypeInv, NEW k \in HwCallers, NEW body, Store(k, body)
    PROVE  HwTypeOK'
<1>1. /\ locs' = [l \in Locs |-> IF l \in DOMAIN body THEN body[l] ELSE locs[l]]
      /\ frus' = frus \cup ({body[l] : l \in DOMAIN body} \ {Empty})
      /\ owes' = [l \in Locs |-> IF l \in DOMAIN body THEN k ELSE owes[l]]
      /\ hist' = hist
    BY Zenon DEF Store, InsertHWInvByLocs, BulkInsertHWInvByLocTx, BulkInsertHWInvByFRUTx
<1>2. ASSUME NEW l \in Locs PROVE locs'[l] \in frus' \cup {Empty, NoLoc}
    <2>1. CASE l \in DOMAIN body
        BY <1>1, <2>1
    <2>2. CASE l \notin DOMAIN body
        BY <1>1, <2>2 DEF HwTypeInv, HwTypeOK
    <2> QED
        BY <2>1, <2>2
<1> QED
    BY <1>1, <1>2 DEF HwTypeInv, HwTypeOK

LEMMA HwNextTyped ==
    ASSUME HwTypeInv, [HwNext]_hwVars
    PROVE  HwTypeOK'
<1> USE DEF HwTypeInv, HwTypeOK
<1>1. ASSUME NEW k \in HwCallers, doHWInvByLocationPost(k) PROVE HwTypeOK'
    BY <1>1, StoreTyped DEF doHWInvByLocationPost
<1>2. ASSUME NEW k \in HwCallers, updateFromRfEndpoint(k) PROVE HwTypeOK'
    BY <1>2, StoreTyped DEF updateFromRfEndpoint
<1>3. ASSUME NEW k \in HwCallers, doUpdateCompHWInv(k) PROVE HwTypeOK'
    <2>1. PICK part :
            \/ Store(k, part)
            \/ /\ owes' = [l \in Locs |-> IF l \in DOMAIN part THEN "some" ELSE owes[l]]
               /\ UNCHANGED <<locs, frus, hist>>
        BY <1>3 DEF doUpdateCompHWInv
    <2> QED
        BY <2>1, StoreTyped
<1>4. ASSUME NEW k \in HwCallers, GenerateHWInvHist(k) PROVE HwTypeOK'
    BY <1>4 DEF GenerateHWInvHist
<1>5. ASSUME NEW k \in HwCallers, InsertHWInvHists(k) PROVE HwTypeOK'
    <2> DEFINE body == hwCalls[k].body
    <2>1. /\ Room(DOMAIN body)
          /\ hist' = [l \in Locs |-> IF l \in DOMAIN body THEN Append(hist[l], Detected(body[l])) ELSE hist[l]]
          /\ owes' = [l \in Locs |-> IF l \in hwCalls[k].events /\ owes[l] = k THEN "none"
                                     ELSE IF l \in DOMAIN body THEN "some" ELSE owes[l]]
          /\ locs' = locs /\ frus' = frus
        BY <1>5 DEF InsertHWInvHists
    <2>2. ASSUME NEW l \in Locs PROVE Len(hist'[l]) <= MaxHist(l)
        <3>1. IsSeq(hist[l])
            BY DEF HwInv, HwFields
        <3>2. CASE l \in DOMAIN body
            <4>1. Len(hist[l]) < MaxHist(l) /\ hist'[l] = Append(hist[l], Detected(body[l]))
                BY <2>1, <3>2 DEF Room
            <4> QED
                BY <3>1, <4>1, AppendIsLonger, MaxHistAssumption
        <3>3. CASE l \notin DOMAIN body
            BY <2>1, <3>3
        <3> QED
            BY <3>2, <3>3
    <2> QED
        BY <2>1, <2>2
<1>6. ASSUME NEW k \in HwCallers, HistoryFails(k) PROVE HwTypeOK'
    BY <1>6 DEF HistoryFails
<1>7. CASE doHWInvByLocationDelete \/ doHWInvByLocationDeleteAll
    <2>1. UNCHANGED <<frus, hist, owes>> /\ \A l \in Locs : locs'[l] \in {locs[l], NoLoc}
        BY <1>7 DEF doHWInvByLocationDelete, doHWInvByLocationDeleteAll, DeleteHWInvByLocID,
                    DeleteHWInvByLocsAll, HwUnchanged, HwInv, HwTables
    <2> QED
        BY <2>1
<1>8. CASE doHWInvByFRUDelete \/ doHWInvByFRUDeleteAll
    BY <1>8 DEF doHWInvByFRUDelete, doHWInvByFRUDeleteAll, DeleteHWInvByFRUID, DeleteHWInvByFRUsAll, Located
<1>9. CASE SetChildCompStatesRFEndpointsTx
    <2>1. PICK gone \in SUBSET Locs :
            /\ Room(gone)
            /\ locs' = [l \in Locs |-> IF l \in gone THEN NoLoc ELSE locs[l]]
            /\ hist' = [l \in Locs |-> IF l \in gone /\ Populated(l) THEN Append(hist[l], Event(locs[l], "Removed"))
                                       ELSE hist[l]]
            /\ owes' = [l \in Locs |-> IF l \in gone /\ Populated(l) THEN "none" ELSE owes[l]]
            /\ frus' = frus
        BY <1>9 DEF SetChildCompStatesRFEndpointsTx
    <2>2. ASSUME NEW l \in Locs PROVE Len(hist'[l]) <= MaxHist(l)
        <3>1. IsSeq(hist[l])
            BY DEF HwInv, HwFields
        <3>2. CASE l \in gone
            <4>1. Len(hist[l]) < MaxHist(l)
                BY <2>1, <3>2 DEF Room
            <4>2. hist'[l] = hist[l] \/ \E e : hist'[l] = Append(hist[l], e)
                BY <2>1
            <4> QED
                BY <3>1, <4>1, <4>2, AppendIsLonger, MaxHistAssumption
        <3>3. CASE l \notin gone
            BY <2>1, <3>3
        <3> QED
            BY <3>2, <3>3
    <2> QED
        BY <2>1, <2>2
<1>10. CASE doHWInvHistByLocationDelete
    <2>1. PICK l \in Locs : Forget(l, <<>>)
        BY <1>10 DEF doHWInvHistByLocationDelete, DeleteHWInvHistByLocID
    <2> QED
        BY <2>1, MaxHistAssumption DEF Forget, HwInv, HwTables
<1>11. CASE doHWInvHistByFRUDelete
    <2>1. PICK f \in frus, had \in SUBSET Locs :
            /\ hist' = [l \in Locs |-> IF l \in had THEN Without(hist[l], f) ELSE hist[l]]
            /\ owes' = [l \in Locs |-> IF l \in had THEN "some" ELSE owes[l]]
            /\ locs' = locs /\ frus' = frus
        BY <1>11 DEF doHWInvHistByFRUDelete, DeleteHWInvHistByFRUID
    <2>2. ASSUME NEW l \in Locs PROVE Len(hist'[l]) <= MaxHist(l)
        <3>1. IsSeq(hist[l]) /\ Len(hist[l]) <= MaxHist(l) /\ Len(hist[l]) \in Nat
            BY AppendIsLonger DEF HwInv, HwFields
        <3>2. hist'[l] = hist[l] \/ hist'[l] = Without(hist[l], f)
            BY <2>1
        <3> QED
            BY <3>1, <3>2, WithoutIsShorter, MaxHistAssumption
    <2> QED
        BY <2>1, <2>2
<1>12. CASE doHWInvHistDeleteAll
    BY <1>12, MaxHistAssumption DEF doHWInvHistDeleteAll, DeleteHWInvHistAll
<1>13. CASE UNCHANGED hwVars
    BY <1>13 DEF hwVars
<1> QED
    BY <1>1, <1>2, <1>3, <1>4, <1>5, <1>6, <1>7, <1>8, <1>9, <1>10, <1>11, <1>12, <1>13 DEF HwNext

\* A FRU that is in a location has a row, whatever is stored, deleted or detached
\* meanwhile, and a location owes its events to one call, to none or to none that is
\* known
\* (migrations/postgres/3_create_version1.up.sql:185; hmsds-postgres.go:1669, 1734).
THEOREM HwTypeOKHolds == HwSpec => []HwTypeOK
<1>1. HwInit => HwTypeOK
    BY MaxHistAssumption DEF HwInit, HwTypeOK
<1>2. HwTypeInv /\ [HwNext]_hwVars => HwTypeInv'
    BY HwNextKeeps, HwNextTyped DEF HwTypeInv
<1> QED
    BY <1>1, <1>2, HwInitInv, PTL DEF HwSpec, HwTypeInv

\* The nodes are those of one controller, which have numbers of their own.
NodesNumbered ==
    \A l, m \in {x \in Locs : Kind(x) = "node"} :
        Ordinal(l) \in Nat /\ (l # m => Ordinal(l) # Ordinal(m))

\* A FRU has a name of its own, as callers send it and Redfish reports it.
FrusNamed ==
    /\ \A body \in Bodies : \A l \in DOMAIN body : body[l] = Empty \/ body[l].name # "empty"

NamedInv == \A f \in frus : f.name # "empty"

LEMMA ReportsNamed ==
    ASSUME NEW find, NEW body \in Reports(find)
    PROVE  /\ DOMAIN body = DOMAIN find
           /\ \A l \in DOMAIN body : body[l] = Empty \/ body[l].name # "empty"
BY DEF Reports, DiscoverHWInvByLocArray, Fru

LEMMA StoreNamed ==
    ASSUME NamedInv, NEW k, NEW body, Store(k, body),
           \A l \in DOMAIN body : body[l] = Empty \/ body[l].name # "empty"
    PROVE  NamedInv'
BY DEF NamedInv, Store, InsertHWInvByLocs, BulkInsertHWInvByFRUTx

LEMMA NamedKept == FrusNamed /\ NamedInv /\ [HwNext]_hwVars => NamedInv'
<1> SUFFICES ASSUME FrusNamed, NamedInv, [HwNext]_hwVars PROVE NamedInv'
    OBVIOUS
<1>1. CASE UNCHANGED hwVars
    BY <1>1 DEF NamedInv, hwVars
<1>2. ASSUME NEW k \in HwCallers, doHWInvByLocationPost(k) PROVE NamedInv'
    BY <1>2, StoreNamed DEF doHWInvByLocationPost, FrusNamed
<1>3. ASSUME NEW k \in HwCallers, updateFromRfEndpoint(k) PROVE NamedInv'
    <2>1. PICK find \in Finds : \E body \in Reports(find) : Store(k, body)
        BY <1>3 DEF updateFromRfEndpoint
    <2>2. PICK body \in Reports(find) : Store(k, body)
        BY <2>1
    <2> QED
        BY <2>2, ReportsNamed, StoreNamed
<1>4. ASSUME NEW k \in HwCallers, doUpdateCompHWInv(k) PROVE NamedInv'
    <2>1. PICK find \in Finds : \E body \in Reports(find), n \in {l \in DOMAIN find : Kind(l) = "node"} :
              LET part == [l \in {x \in DOMAIN find : n \in Above(x)} |-> body[l]]
              IN  Store(k, part) \/ frus' = frus
        BY <1>4 DEF doUpdateCompHWInv
    <2>2. PICK body \in Reports(find), n \in {l \in DOMAIN find : Kind(l) = "node"} :
              LET part == [l \in {x \in DOMAIN find : n \in Above(x)} |-> body[l]]
              IN  Store(k, part) \/ frus' = frus
        BY <2>1
    <2> DEFINE part == [l \in {x \in DOMAIN find : n \in Above(x)} |-> body[l]]
    <2>3. \A l \in DOMAIN part : part[l] = Empty \/ part[l].name # "empty"
        <3>1. \A l \in DOMAIN part : l \in DOMAIN find /\ part[l] = body[l]
            OBVIOUS
        <3> HIDE DEF part
        <3> QED
            BY <3>1, ReportsNamed
    <2>4. Store(k, part) \/ frus' = frus
        BY <2>2
    <2> HIDE DEF part
    <2> QED
        BY <2>3, <2>4, StoreNamed DEF NamedInv
<1>5. ASSUME frus' \subseteq frus PROVE NamedInv'
    BY <1>5 DEF NamedInv
<1>6. ASSUME NEW k \in HwCallers, GenerateHWInvHist(k) \/ InsertHWInvHists(k) \/ HistoryFails(k)
      PROVE  frus' \subseteq frus
    BY <1>6 DEF GenerateHWInvHist, InsertHWInvHists, HistoryFails
<1>7. doHWInvByLocationDelete \/ doHWInvByLocationDeleteAll \/ doHWInvByFRUDelete
      \/ doHWInvByFRUDeleteAll \/ SetChildCompStatesRFEndpointsTx => frus' \subseteq frus
    BY DEF doHWInvByLocationDelete, doHWInvByLocationDeleteAll, doHWInvByFRUDelete, DeleteHWInvByFRUID,
           doHWInvByFRUDeleteAll, DeleteHWInvByFRUsAll, SetChildCompStatesRFEndpointsTx, HwUnchanged
<1>8. doHWInvHistByLocationDelete \/ doHWInvHistByFRUDelete \/ doHWInvHistDeleteAll => frus' \subseteq frus
    BY DEF doHWInvHistByLocationDelete, DeleteHWInvHistByLocID, Forget, doHWInvHistByFRUDelete,
           DeleteHWInvHistByFRUID, doHWInvHistDeleteAll, DeleteHWInvHistAll
<1> QED
    BY <1>1, <1>2, <1>3, <1>4, <1>5, <1>6, <1>7, <1>8 DEF HwNext

\* Of nodes that report one FRU each gets an id of its own, and the same one whichever
\* of them is looked at first.
ToldApart(name) ==
    LET find  == [l \in {x \in Locs : Kind(x) = "node"} |-> name]
        named == {DiscoverHWInvByLocArray(find, first) : first \in DOMAIN find}
    IN \A ids \in named :
          /\ named = {ids}
          /\ \A l, m \in DOMAIN ids : l # m => ids[l] # ids[m]

LEMMA AlikeToldApart ==
    ASSUME NodesNumbered, NEW name, name # "empty"
    PROVE  ToldApart(name)
<1> DEFINE nodes == {x \in Locs : Kind(x) = "node"}
           find  == [l \in nodes |-> name]
           ids   == [l \in nodes |-> Fru(name, IF \E m \in nodes : m # l THEN Ordinal(l) + 1 ELSE 0)]
<1>1. ASSUME NEW first \in nodes PROVE DiscoverHWInvByLocArray(find, first) = ids
    <2>1. {l \in DOMAIN find : Kind(l) = "node" /\ find[l] = find[first]} = nodes
        OBVIOUS
    <2>2. ASSUME NEW l \in nodes PROVE (nodes # {first} /\ l \in nodes) <=> \E m \in nodes : m # l
        OBVIOUS
    <2>3. DiscoverHWInvByLocArray(find, first)
             = [l \in nodes |-> Fru(name, IF nodes # {first} /\ l \in nodes THEN Ordinal(l) + 1 ELSE 0)]
        BY <2>1 DEF DiscoverHWInvByLocArray
    <2> HIDE DEF nodes
    <2> QED
        BY <2>2, <2>3
<1>2. ASSUME NEW l \in nodes, NEW m \in nodes, l # m PROVE ids[l] # ids[m]
    <2>1. Ordinal(l) \in Nat /\ Ordinal(m) \in Nat /\ Ordinal(l) # Ordinal(m)
        BY <1>2 DEF NodesNumbered
    <2>2. ids[l] = Fru(name, Ordinal(l) + 1) /\ ids[m] = Fru(name, Ordinal(m) + 1)
        BY <1>2
    <2> QED
        BY <2>1, <2>2 DEF Fru
<1>3. DOMAIN ids = nodes /\ DOMAIN find = nodes
    OBVIOUS
<1> DEFINE named == {DiscoverHWInvByLocArray(find, first) : first \in DOMAIN find}
<1>4. \A other \in named : other = ids /\ named = {other}
    <2> HIDE DEF nodes, ids
    <2> QED
        BY <1>1, <1>3
<1> HIDE DEF nodes, ids, named
<1>5. \A other \in named : /\ named = {other}
                           /\ \A l, m \in DOMAIN other : l # m => other[l] # other[m]
    BY <1>2, <1>3, <1>4
<1> QED
    BY <1>5 DEF ToldApart, named, nodes

\* Nodes of one controller that have one FRU id in Redfish are told apart, whatever
\* FRU it is, any number of them, in whatever order the map of nodes is ranged over
\* (discover.go:675-693).
THEOREM NodesToldApartHolds == ASSUME NodesNumbered, FrusNamed PROVE HwSpec => []NodesToldApart
<1>1. HwInit => NamedInv
    BY DEF HwInit, NamedInv
<1>2. NamedInv /\ [HwNext]_hwVars => NamedInv'
    BY NamedKept
<1>3. NamedInv => NodesToldApart
    <2>1. ASSUME NamedInv, NEW f \in frus PROVE ToldApart(f.name)
        BY <2>1, AlikeToldApart DEF NamedInv
    <2> QED
        BY <2>1 DEF ToldApart, NodesToldApart
<1> QED
    BY <1>1, <1>2, <1>3, PTL DEF HwSpec

\* A query for the parts of a location answers with all of them and with nothing else,
\* and lists each once, on its own or nested, for any hierarchy of locations, whether or
\* not it is a tree (query-shared-sq.go:1265-1269, hwinv.go:326-489).
THEOREM ListedOnceHolds == HwSpec => []ListedOnce
<1>1. ListedOnce
    <2> SUFFICES ASSUME NEW id \in Locs, NEW kinds \in {{Kind(l)} : l \in Locs}, NEW flat \in BOOLEAN,
                        NEW tops, tops = {l \in There : id \in Above(l) /\ Kind(l) \in kinds}, tops # {},
                        NEW r, r = doHWInvByLocationQueryGet(id, kinds, TRUE, FALSE, flat),
                        NEW l \in {x \in There : Kind(x) # "outlet"}
                 PROVE  LET own == l \in r.own  nested == \E p \in DOMAIN r.under : l \in r.under[p]
                        IN IF Above(l) \cap tops # {} THEN own # nested ELSE ~own /\ ~nested
        BY DEF ListedOnce
    <2> DEFINE ls == {x \in There : Above(x) \cap tops # {}}
               inside(x) == ~flat /\ Kind(x) \in {"inner", "outlet"} /\ Parent(x) \in ls
    <2>1. getHWInvByLocQuery(id, kinds, TRUE, FALSE) = ls
        <3>1. kinds # {} /\ id # "all"
            BY LocsAssumption
        <3> DEFINE asked == {x \in There : Above(x) \cap {id} # {}}
                   kept  == {x \in asked : kinds = {} \/ Kind(x) \in kinds}
        <3>2. kept = tops
            BY <3>1
        <3>3. getHWInvByLocQuery(id, kinds, TRUE, FALSE)
                 = (IF kept = {} THEN There ELSE {x \in There : Above(x) \cap kept # {}}) \cup {}
            BY <3>1 DEF getHWInvByLocQuery
        <3> HIDE DEF kept
        <3> QED
            BY <3>2, <3>3
    <2>2. /\ r.own = {x \in ls : ~inside(x) /\ (flat \/ Kind(x) # "outlet")}
          /\ r.under = [p \in ls |-> {x \in ls : inside(x) /\ Parent(x) = p}]
        BY <2>1 DEF doHWInvByLocationQueryGet, NewSystemHWInventory
    <2>3. l \in r.own <=> l \in ls /\ ~inside(l)
        BY <2>2
    <2>4. (\E p \in DOMAIN r.under : l \in r.under[p]) <=> l \in ls /\ inside(l)
        <3>1. \A p \in ls : r.under[p] = {x \in ls : inside(x) /\ Parent(x) = p}
            BY <2>2
        <3>2. DOMAIN r.under = ls
            BY <2>2
        <3>3. inside(l) => Parent(l) \in ls
            OBVIOUS
        <3> HIDE DEF ls, inside
        <3> QED
            BY <3>1, <3>2, <3>3
    <2>5. l \in ls <=> Above(l) \cap tops # {}
        OBVIOUS
    <2> HIDE DEF ls, inside
    <2> QED
        BY <2>3, <2>4, <2>5
<1> QED
    BY <1>1, PTL

-----------------------------------------------------------------------------
(* Ethernet interfaces                                                     *)

HasColumns(row) == {"owner", "type", "desc", "ips"} \subseteq DOMAIN row

\* Rows have these columns, and so has the one that a call is to insert.
EthRows ==
    /\ ifs = [i \in Macs |-> ifs[i]]
    /\ \A i \in Macs : HasColumns(ifs[i])
EthCallsOK ==
    /\ ethCalls = [k \in EthCallers |-> ethCalls[k]]
    /\ \A k \in EthCallers : ethCalls[k].op \in {"replace", "reinsert"} =>
           {"op", "id", "read", "arg"} \subseteq DOMAIN ethCalls[k] /\ HasColumns(ethCalls[k].read)

EthInv == EthRows /\ EthCallsOK

LEMMA EthInitInv == EthInit => EthInv
BY DEF EthInit, EthInv, EthRows, EthCallsOK, NoIf, EthIdle, HasColumns

LEMMA InterfaceHasColumns ==
    ASSUME NEW o, NEW d, NEW ips
    PROVE  HasColumns(CompEthInterface(o, d, ips))
BY DEF CompEthInterface, HasColumns

LEMMA InsertableHasColumns ==
    ASSUME NEW row \in Insertable
    PROVE  HasColumns(row)
BY InterfaceHasColumns DEF Insertable

LEMMA NoIfHasColumns == HasColumns(NoIf) /\ AddressesOf(NoIf.ips) = {}
BY DEF NoIf, HasColumns, AddressesOf

\* An update leaves other rows, and writes the list of addresses it was given if any.
LEMMA UpdateWrites ==
    ASSUME EthRows, NEW i, NEW read, NEW patch, UpdateCompEthInterfaceTx(i, read, patch)
    PROVE  /\ EthRows'
           /\ \A x \in Macs \ {i} : ifs'[x] = ifs[x]
           /\ i \in Macs => \/ ifs'[i].ips = ifs[i].ips
                            \/ patch.ips # KeepList /\ ifs'[i].ips = patch.ips
<1>1. CASE UNCHANGED ifs
    BY <1>1 DEF EthRows
<1>2. CASE ifs' = [ifs EXCEPT
           ![i].desc  = IF patch.desc \in {Keep, read.desc} THEN @ ELSE patch.desc,
           ![i].ips   = IF patch.ips = KeepList THEN @ ELSE patch.ips,
           ![i].owner = IF patch.owner = Keep THEN @ ELSE patch.owner,
           ![i].type  = IF patch.owner = Keep THEN @ ELSE TypeOf(patch.owner)]
    BY <1>2 DEF EthRows, HasColumns
<1> QED
    BY <1>1, <1>2 DEF UpdateCompEthInterfaceTx

\* An insert leaves the rows that are there.
LEMMA InsertWrites ==
    ASSUME EthRows, NEW i, NEW row, HasColumns(row), InsertCompEthInterfaceTx(i, row)
    PROVE  EthRows' /\ \A x \in Macs : ifs[x] # NoIf => ifs'[x] = ifs[x]
BY DEF EthRows, InsertCompEthInterfaceTx, InsertCompEthInterfacesTx

LEMMA DeleteWrites ==
    ASSUME EthRows, NEW i, DeleteCompEthInterfaceByIDTx(i)
    PROVE  EthRows' /\ \A x \in Macs : ifs'[x] \in {NoIf, ifs[x]}
BY NoIfHasColumns DEF EthRows, DeleteCompEthInterfaceByIDTx

LEMMA CallEnds ==
    ASSUME EthCallsOK, NEW k \in EthCallers, EthEnd(k)
    PROVE  EthCallsOK' /\ ethCalls'[k] = EthIdle
BY DEF EthCallsOK, EthEnd, EthIdle

LEMMA CallBegins ==
    ASSUME EthInv, NEW k \in EthCallers, NEW op \in {"patch", "add", "network", "remove"}, NEW i, NEW arg,
           EthBegin(k, op, i, arg)
    PROVE  EthInv' /\ ifs' = ifs
BY DEF EthInv, EthRows, EthCallsOK, EthBegin

-----------------------------------------------------------------------------
(* Addresses that leave an interface                                       *)

Cause(i, a) ==
    \E k \in EthCallers :
        /\ ethCalls'[k] = EthIdle
        /\ \/ AsksToRemove(ethCalls[k], i, a)
           \/ ethCalls[k].op # "idle" /\ ethCalls[k].id = i /\ ethCalls[k].read # ifs[i]

Justified ==
    \A i \in Macs : \A a \in AddressesOf(ifs[i].ips) \ AddressesOf(ifs'[i].ips) :
        ifs'[i] # NoIf => Cause(i, a)

\* Rows that come, go or keep their addresses need no cause.
LEMMA NothingLost ==
    ASSUME \A i \in Macs : ifs'[i] = NoIf \/ ifs[i] = NoIf \/ ifs'[i].ips = ifs[i].ips
    PROVE  Justified
BY NoIfHasColumns DEF Justified

\* Does list ips keep address a of the row that call c read, or did it ask for that?
Respects(c, ips) ==
    \A a \in AddressesOf(c.read.ips) : a \in AddressesOf(ips) \/ AsksToRemove(c, c.id, a)

\* A call that has read the row as it is writes a list that respects what it asked.
LEMMA UpdateJustified ==
    ASSUME EthInv, NEW k \in EthCallers, ethCalls[k].op # "idle", EthEnd(k), NEW patch,
           patch.ips # KeepList => Respects(ethCalls[k], patch.ips),
           UpdateCompEthInterfaceTx(ethCalls[k].id, ethCalls[k].read, patch)
    PROVE  EthInv' /\ Justified
<1> DEFINE c == ethCalls[k]
<1>1. EthCallsOK' /\ ethCalls'[k] = EthIdle
    BY CallEnds DEF EthInv
<1>2. /\ EthRows'
      /\ \A x \in Macs \ {c.id} : ifs'[x] = ifs[x]
      /\ c.id \in Macs => \/ ifs'[c.id].ips = ifs[c.id].ips
                          \/ patch.ips # KeepList /\ ifs'[c.id].ips = patch.ips
    BY UpdateWrites DEF EthInv
<1>3. ASSUME NEW i \in Macs, NEW a \in AddressesOf(ifs[i].ips) \ AddressesOf(ifs'[i].ips)
      PROVE  Cause(i, a)
    <2>1. i = c.id /\ patch.ips # KeepList /\ ifs'[i].ips = patch.ips
        BY <1>2, <1>3
    <2>2. CASE c.read # ifs[i]
        BY <1>1, <2>1, <2>2 DEF Cause
    <2>3. CASE c.read = ifs[i]
        <3>1. AsksToRemove(c, i, a)
            BY <1>3, <2>1, <2>3 DEF Respects
        <3> QED
            BY <1>1, <3>1 DEF Cause
    <2> QED
        BY <2>2, <2>3
<1> QED
    BY <1>1, <1>2, <1>3 DEF EthInv, Justified

\* A call that ends without a change.
LEMMA NoUpdateJustified ==
    ASSUME EthInv, NEW k \in EthCallers, EthEnd(k), UNCHANGED ifs
    PROVE  EthInv' /\ Justified
BY CallEnds, NothingLost DEF EthInv, EthRows

LEMMA ListPatchIs == ASSUME NEW ips PROVE ListPatch(ips).ips = ips
BY DEF ListPatch, NoPatch

LEMMA PatchJustified ==
    ASSUME EthInv, NEW k \in EthCallers, UpdateCompEthInterface(k)
    PROVE  EthInv' /\ Justified
<1> DEFINE c == ethCalls[k]
<1>1. c.op = "patch" /\ c.op # "idle" /\ EthEnd(k) /\ UpdateCompEthInterfaceTx(c.id, c.read, c.arg)
    BY DEF UpdateCompEthInterface
<1>2. c.arg.ips # KeepList => Respects(c, c.arg.ips)
    BY <1>1 DEF Respects, AsksToRemove
<1> QED
    BY <1>1, <1>2, UpdateJustified

LEMMA AddJustified ==
    ASSUME EthInv, NEW k \in EthCallers, AddCompEthInterfaceIPAddress(k)
    PROVE  EthInv' /\ Justified
<1> DEFINE c == ethCalls[k]
           list == c.read.ips \cup {c.arg}
<1>1. c.op # "idle" /\ EthEnd(k)
    BY DEF AddCompEthInterfaceIPAddress
<1>2. CASE UNCHANGED ifs
    BY <1>1, <1>2, NoUpdateJustified
<1>3. CASE UpdateCompEthInterfaceTx(c.id, c.read, ListPatch(list))
    <2>1. Respects(c, list)
        BY DEF Respects, AddressesOf
    <2> HIDE DEF list
    <2> QED
        BY <1>1, <1>3, <2>1, ListPatchIs, UpdateJustified
<1> QED
    BY <1>2, <1>3 DEF AddCompEthInterfaceIPAddress

LEMMA NetworkJustified ==
    ASSUME EthInv, NEW k \in EthCallers, UpdateCompEthInterfaceIPAddress(k)
    PROVE  EthInv' /\ Justified
<1> DEFINE c == ethCalls[k]
           list == {IF m.ip = c.arg.ip THEN c.arg ELSE m : m \in c.read.ips}
<1>1. c.op = "network" /\ c.op # "idle" /\ EthEnd(k)
    BY DEF UpdateCompEthInterfaceIPAddress
<1>2. CASE UNCHANGED ifs
    BY <1>1, <1>2, NoUpdateJustified
<1>3. CASE c.arg.net = Keep /\ UpdateCompEthInterfaceTx(c.id, c.read, ListPatch({}))
    <2>1. Respects(c, {})
        BY <1>1, <1>3 DEF Respects, AsksToRemove
    <2> QED
        BY <1>1, <1>3, <2>1, ListPatchIs, UpdateJustified
<1>4. CASE UpdateCompEthInterfaceTx(c.id, c.read, ListPatch(list))
    <2>1. Respects(c, list)
        <3> SUFFICES ASSUME NEW m \in c.read.ips PROVE m.ip \in AddressesOf(list)
            BY DEF Respects, AddressesOf
        <3>1. \E x \in list : x.ip = m.ip
            OBVIOUS
        <3> HIDE DEF list
        <3> QED
            BY <3>1 DEF AddressesOf
    <2> HIDE DEF list
    <2> QED
        BY <1>1, <1>4, <2>1, ListPatchIs, UpdateJustified
<1> QED
    BY <1>2, <1>3, <1>4 DEF UpdateCompEthInterfaceIPAddress

LEMMA RemoveJustified ==
    ASSUME EthInv, NEW k \in EthCallers, DeleteCompEthInterfaceIPAddress(k)
    PROVE  EthInv' /\ Justified
<1> DEFINE c == ethCalls[k]
           list == {m \in c.read.ips : m.ip # c.arg}
<1>1. c.op = "remove" /\ c.op # "idle" /\ EthEnd(k)
    BY DEF DeleteCompEthInterfaceIPAddress
<1>2. CASE UNCHANGED ifs
    BY <1>1, <1>2, NoUpdateJustified
<1>3. CASE UpdateCompEthInterfaceTx(c.id, c.read, ListPatch(list))
    <2>1. Respects(c, list)
        BY <1>1 DEF Respects, AddressesOf, AsksToRemove
    <2> HIDE DEF list
    <2> QED
        BY <1>1, <1>3, <2>1, ListPatchIs, UpdateJustified
<1> QED
    BY <1>2, <1>3 DEF DeleteCompEthInterfaceIPAddress

\* An endpoint's interface is inserted, or its row found and to be replaced.
LEMMA CreateJustified ==
    ASSUME EthInv, NEW k \in EthCallers, createCompEthInterfacesV2(k)
    PROVE  EthInv' /\ Justified
<1>1. PICK i \in Macs, row \in Insertable :
          \/ InsertCompEthInterfaceTx(i, row) /\ UNCHANGED ethCalls
          \/ /\ ethCalls' = [ethCalls EXCEPT ![k] = [op |-> "replace", id |-> i, read |-> row, arg |-> Keep]]
             /\ UNCHANGED ifs
    BY DEF createCompEthInterfacesV2
<1>2. HasColumns(row)
    BY InsertableHasColumns
<1>3. CASE InsertCompEthInterfaceTx(i, row) /\ UNCHANGED ethCalls
    <2>1. EthRows' /\ \A x \in Macs : ifs[x] # NoIf => ifs'[x] = ifs[x]
        BY <1>2, <1>3, InsertWrites DEF EthInv
    <2> QED
        BY <1>3, <2>1, NothingLost DEF EthInv, EthCallsOK
<1>4. CASE /\ ethCalls' = [ethCalls EXCEPT ![k] = [op |-> "replace", id |-> i, read |-> row, arg |-> Keep]]
           /\ UNCHANGED ifs
    <2>1. EthCallsOK'
        BY <1>2, <1>4 DEF EthInv, EthCallsOK
    <2> QED
        BY <1>4, <2>1, NothingLost DEF EthInv, EthRows
<1> QED
    BY <1>1, <1>3, <1>4

LEMMA ReplaceJustified ==
    ASSUME EthInv, NEW k \in EthCallers, ReplaceDeletes(k)
    PROVE  EthInv' /\ Justified
<1>1. CASE UNCHANGED ifs /\ EthEnd(k)
    BY <1>1, NoUpdateJustified
<1>2. CASE /\ DeleteCompEthInterfaceByIDTx(ethCalls[k].id)
           /\ ethCalls' = [ethCalls EXCEPT ![k].op = "reinsert"]
    <2>1. ethCalls[k].op = "replace"
        BY DEF ReplaceDeletes
    <2>2. EthRows' /\ Justified
        BY <1>2, DeleteWrites, NothingLost DEF EthInv
    <2>3. EthCallsOK'
        BY <1>2, <2>1 DEF EthInv, EthCallsOK
    <2> QED
        BY <2>2, <2>3 DEF EthInv
<1> QED
    BY <1>1, <1>2 DEF ReplaceDeletes

LEMMA ReinsertJustified ==
    ASSUME EthInv, NEW k \in EthCallers, ReplaceInserts(k)
    PROVE  EthInv' /\ Justified
<1>1. ethCalls[k].op = "reinsert" /\ EthEnd(k)
    BY DEF ReplaceInserts
<1>2. CASE InsertCompEthInterfaceTx(ethCalls[k].id, ethCalls[k].read)
    <2>1. HasColumns(ethCalls[k].read)
        BY <1>1 DEF EthInv, EthCallsOK
    <2>2. EthRows' /\ \A x \in Macs : ifs[x] # NoIf => ifs'[x] = ifs[x]
        BY <1>2, <2>1, InsertWrites DEF EthInv
    <2> QED
        BY <1>1, <2>2, CallEnds, NothingLost DEF EthInv
<1>3. CASE UNCHANGED ifs
    BY <1>1, <1>3, NoUpdateJustified
<1> QED
    BY <1>2, <1>3 DEF ReplaceInserts

\* Discovery changes the component of an interface that is there, not its addresses.
LEMMA DiscoveryJustified ==
    ASSUME EthInv, InsertCompEthInterfacesCompInfo
    PROVE  EthInv' /\ Justified
<1>1. PICK found \in SUBSET Macs, ips \in Lists, o \in Owners \ {""}, d \in Descs :
          InsertCompEthInterfacesCompInfoTx([i \in found |-> CompEthInterface(o, d, ips)])
    BY DEF InsertCompEthInterfacesCompInfo
<1> DEFINE row == CompEthInterface(o, d, ips)
<1>2. HasColumns(row)
    BY InterfaceHasColumns
<1> HIDE DEF row
<1>3. ifs' = [i \in Macs |-> IF i \notin found THEN ifs[i]
                             ELSE IF ifs[i] = NoIf THEN row
                             ELSE [ifs[i] EXCEPT !.owner = row.owner, !.type = row.type]]
    BY <1>1 DEF InsertCompEthInterfacesCompInfoTx, row
<1>4. ASSUME NEW i \in Macs
      PROVE  HasColumns(ifs'[i]) /\ (ifs[i] = NoIf \/ ifs'[i].ips = ifs[i].ips)
    <2>1. HasColumns(ifs[i])
        BY DEF EthInv, EthRows
    <2> QED
        BY <1>2, <1>3, <2>1 DEF HasColumns
<1>5. EthRows' /\ Justified
    BY <1>3, <1>4, NothingLost DEF EthRows
<1> QED
    BY <1>5 DEF InsertCompEthInterfacesCompInfo, EthInv, EthCallsOK

LEMMA EthNextKeeps ==
    ASSUME EthInv, [EthNext]_ethVars
    PROVE  EthInv' /\ Justified
<1>1. CASE doCompEthInterfacePostV2
    <2>1. PICK i \in Macs, row \in Insertable : InsertCompEthInterfaceTx(i, row) /\ UNCHANGED ethCalls
        BY <1>1 DEF doCompEthInterfacePostV2, InsertCompEthInterface
    <2>2. EthRows' /\ \A x \in Macs : ifs[x] # NoIf => ifs'[x] = ifs[x]
        BY <2>1, InsertableHasColumns, InsertWrites DEF EthInv
    <2> QED
        BY <2>1, <2>2, NothingLost DEF EthInv, EthCallsOK
<1>2. CASE doCompEthInterfaceDelete
    <2>1. PICK i \in Macs : DeleteCompEthInterfaceByIDTx(i) /\ UNCHANGED ethCalls
        BY <1>2 DEF doCompEthInterfaceDelete, DeleteCompEthInterfaceByID
    <2>2. EthRows' /\ Justified
        BY <2>1, DeleteWrites, NothingLost DEF EthInv
    <2> QED
        BY <2>1, <2>2 DEF EthInv, EthCallsOK
<1>3. CASE doCompEthInterfaceDeleteAll
    <2>1. ifs' = [i \in Macs |-> NoIf] /\ UNCHANGED ethCalls
        BY <1>3 DEF doCompEthInterfaceDeleteAll, DeleteCompEthInterfacesAll, DeleteCompEthInterfacesAllTx
    <2> QED
        BY <2>1, NoIfHasColumns, NothingLost DEF EthInv, EthRows, EthCallsOK
<1>4. ASSUME NEW k \in EthCallers,
             \/ doCompEthInterfacePatchV2(k) \/ doCompEthInterfaceIPAddressPostV2(k)
             \/ doCompEthInterfaceIPAddressPatchV2(k) \/ doCompEthInterfaceIPAddressDeleteV2(k)
      PROVE  EthInv' /\ Justified
    <2>1. PICK op \in {"patch", "add", "network", "remove"}, i \in Macs : \E arg : EthBegin(k, op, i, arg)
        BY <1>4 DEF doCompEthInterfacePatchV2, doCompEthInterfaceIPAddressPostV2,
                    doCompEthInterfaceIPAddressPatchV2, doCompEthInterfaceIPAddressDeleteV2
    <2> QED
        BY <2>1, CallBegins, NothingLost
<1>5. CASE UNCHANGED ethVars
    BY <1>5, NothingLost DEF ethVars, EthInv, EthRows, EthCallsOK
<1> QED
    BY <1>1, <1>2, <1>3, <1>4, <1>5, DiscoveryJustified, PatchJustified, AddJustified, NetworkJustified,
       RemoveJustified, CreateJustified, ReplaceJustified, ReinsertJustified DEF EthNext

\* An address leaves an interface that stays only when a call that ends in that step
\* asked for it, or had read the row before another call changed it
\* (hmsds-postgres.go:3100, 3151, 3215).
THEOREM AddressesKeptHolds == EthSpec => AddressesKept
<1>1. EthInv /\ [EthNext]_ethVars => EthInv'
    BY EthNextKeeps
<1>2. EthInv /\ [EthNext]_ethVars => [Justified]_ethVars
    BY EthNextKeeps
<1>3. EthSpec => [][Justified]_ethVars
    BY <1>1, <1>2, EthInitInv, PTL DEF EthSpec
<1> QED
    BY <1>3, PTL DEF AddressesKept, Justified, Cause

-----------------------------------------------------------------------------
(* What an interface says                                                  *)

Distinct(ips) == IsFiniteSet(ips) /\ \A m, n \in ips : m.ip = n.ip => m = n

\* No call gives an address twice.
ListsDistinct == \A ips \in Lists : Distinct(ips)

Consistent(row) ==
    /\ HasColumns(row)
    /\ row.owner \in {"", "none"} \/ row.type = TypeOf(row.owner)
    /\ Distinct(row.ips)

\* What a call has read or is to write is as consistent as the rows.
CallConsistent(c) ==
    /\ c.op \in {"patch", "add", "network", "remove", "replace", "reinsert"} => Consistent(c.read)
    /\ c.op = "patch" => Distinct(c.arg.ips)

RowsConsistent  == \A i \in Macs : Consistent(ifs[i])
CallsConsistent == \A k \in EthCallers : CallConsistent(ethCalls[k])

EthTypeInv == EthInv /\ RowsConsistent /\ CallsConsistent

LEMMA SmallListsDistinct == Distinct({}) /\ \A m : Distinct({m})
<1>1. IsFiniteSet({}) /\ \A m : IsFiniteSet({m})
    BY FS_EmptySet, FS_Singleton
<1> QED
    BY <1>1 DEF Distinct

LEMMA NoIfConsistent == Consistent(NoIf)
BY SmallListsDistinct DEF Consistent, NoIf, HasColumns

LEMMA InterfaceConsistent ==
    ASSUME NEW o, NEW d, NEW ips, Distinct(ips)
    PROVE  Consistent(CompEthInterface(o, d, ips))
BY DEF Consistent, CompEthInterface, HasColumns

LEMMA InsertableConsistent ==
    ASSUME ListsDistinct, NEW row \in Insertable
    PROVE  Consistent(row)
BY InterfaceConsistent DEF Insertable, ListsDistinct

\* Addresses added, changed or removed leave the list without a repetition.
LEMMA AddDistinct ==
    ASSUME NEW ips, Distinct(ips), NEW m, m.ip \notin AddressesOf(ips)
    PROVE  Distinct(ips \cup {m})
<1>1. IsFiniteSet(ips \cup {m})
    BY FS_AddElement DEF Distinct
<1>2. \A x \in ips : x.ip # m.ip
    BY DEF AddressesOf
<1> QED
    BY <1>1, <1>2 DEF Distinct

LEMMA ChangeDistinct ==
    ASSUME NEW ips, Distinct(ips), NEW new
    PROVE  Distinct({IF m.ip = new.ip THEN new ELSE m : m \in ips})
<1> DEFINE others == {m \in ips : m.ip # new.ip}
           list   == {IF m.ip = new.ip THEN new ELSE m : m \in ips}
<1>1. IsFiniteSet(others)
    BY FS_Subset DEF Distinct
<1>2. IsFiniteSet(others \cup {new})
    BY <1>1, FS_AddElement
<1>3. list \subseteq others \cup {new}
    OBVIOUS
<1>4. IsFiniteSet(list)
    BY <1>2, <1>3, FS_Subset
<1>5. \A m, n \in list : m.ip = n.ip => m = n
    BY <1>3 DEF Distinct
<1> QED
    BY <1>4, <1>5 DEF Distinct

LEMMA PartDistinct ==
    ASSUME NEW ips, Distinct(ips), NEW part \in SUBSET ips
    PROVE  Distinct(part)
<1>1. IsFiniteSet(part)
    BY FS_Subset DEF Distinct
<1> QED
    BY <1>1 DEF Distinct

LEMMA UpdateConsistent ==
    ASSUME EthTypeInv, NEW i, NEW read, NEW patch, Distinct(patch.ips),
           UpdateCompEthInterfaceTx(i, read, patch)
    PROVE  RowsConsistent'
<1>1. CASE UNCHANGED ifs
    BY <1>1 DEF EthTypeInv, RowsConsistent
<1>2. CASE ifs' = [ifs EXCEPT
           ![i].desc  = IF patch.desc \in {Keep, read.desc} THEN @ ELSE patch.desc,
           ![i].ips   = IF patch.ips = KeepList THEN @ ELSE patch.ips,
           ![i].owner = IF patch.owner = Keep THEN @ ELSE patch.owner,
           ![i].type  = IF patch.owner = Keep THEN @ ELSE TypeOf(patch.owner)]
    BY <1>2 DEF EthTypeInv, EthInv, EthRows, RowsConsistent, Consistent, HasColumns
<1> QED
    BY <1>1, <1>2 DEF UpdateCompEthInterfaceTx

LEMMA EndConsistent ==
    ASSUME EthTypeInv, NEW k \in EthCallers, EthEnd(k)
    PROVE  CallsConsistent'
BY DEF EthTypeInv, EthInv, EthCallsOK, CallsConsistent, CallConsistent, EthEnd, EthIdle

LEMMA BeginConsistent ==
    ASSUME EthTypeInv, NEW k \in EthCallers, NEW op \in {"patch", "add", "network", "remove"}, NEW i \in Macs,
           NEW arg, op = "patch" => Distinct(arg.ips), EthBegin(k, op, i, arg)
    PROVE  RowsConsistent' /\ CallsConsistent'
<1>1. Consistent(ifs[i]) /\ ifs' = ifs
    BY DEF EthTypeInv, RowsConsistent, EthBegin
<1>2. ethCalls' = [ethCalls EXCEPT ![k] = [op |-> op, id |-> i, read |-> ifs[i], arg |-> arg]]
    BY DEF EthBegin, GetCompEthInterfaceByIDTx
<1> QED
    BY <1>1, <1>2 DEF EthTypeInv, EthInv, EthCallsOK, RowsConsistent, CallsConsistent, CallConsistent

LEMMA InsertConsistent ==
    ASSUME EthTypeInv, NEW i, NEW row, Consistent(row), InsertCompEthInterfaceTx(i, row)
    PROVE  RowsConsistent'
BY DEF EthTypeInv, RowsConsistent, InsertCompEthInterfaceTx, InsertCompEthInterfacesTx

LEMMA DeleteConsistent ==
    ASSUME EthTypeInv, NEW i, DeleteCompEthInterfaceByIDTx(i)
    PROVE  RowsConsistent'
BY DeleteWrites, NoIfConsistent DEF EthTypeInv, EthInv, RowsConsistent

\* A call that ends writes a list as consistent as the one it had read.
LEMMA EndsConsistent ==
    ASSUME EthTypeInv, NEW k \in EthCallers,
           \/ UpdateCompEthInterface(k) \/ AddCompEthInterfaceIPAddress(k)
           \/ UpdateCompEthInterfaceIPAddress(k) \/ DeleteCompEthInterfaceIPAddress(k)
    PROVE  RowsConsistent' /\ CallsConsistent'
<1> DEFINE c == ethCalls[k]
           ips == c.read.ips
<1>1. CallConsistent(c)
    BY DEF EthTypeInv, CallsConsistent
<1>2. EthEnd(k) /\ CallsConsistent'
    BY EndConsistent DEF UpdateCompEthInterface, AddCompEthInterfaceIPAddress,
                         UpdateCompEthInterfaceIPAddress, DeleteCompEthInterfaceIPAddress
<1>3. CASE UNCHANGED ifs
    BY <1>2, <1>3 DEF EthTypeInv, RowsConsistent
<1>4. ASSUME NEW list, Distinct(list), UpdateCompEthInterfaceTx(c.id, c.read, ListPatch(list))
      PROVE  RowsConsistent'
    BY <1>4, ListPatchIs, UpdateConsistent
<1>5. CASE UpdateCompEthInterface(k)
    <2>1. Distinct(c.arg.ips) /\ UpdateCompEthInterfaceTx(c.id, c.read, c.arg)
        BY <1>1, <1>5 DEF UpdateCompEthInterface, CallConsistent
    <2> QED
        BY <1>2, <2>1, UpdateConsistent
<1>6. c.op \in {"add", "network", "remove"} => Distinct(ips)
    BY <1>1 DEF CallConsistent, Consistent
<1>7. CASE AddCompEthInterfaceIPAddress(k)
    <2>1. CASE c.arg.ip \notin AddressesOf(ips) /\ UpdateCompEthInterfaceTx(c.id, c.read, ListPatch(ips \cup {c.arg}))
        <3>1. Distinct(ips \cup {c.arg})
            BY <1>6, <1>7, <2>1, AddDistinct DEF AddCompEthInterfaceIPAddress
        <3> QED
            BY <1>2, <1>4, <2>1, <3>1
    <2> QED
        BY <1>2, <1>3, <1>7, <2>1 DEF AddCompEthInterfaceIPAddress
<1>8. CASE UpdateCompEthInterfaceIPAddress(k)
    <2> DEFINE list == {IF m.ip = c.arg.ip THEN c.arg ELSE m : m \in ips}
    <2>1. Distinct(list)
        BY <1>6, <1>8, ChangeDistinct DEF UpdateCompEthInterfaceIPAddress
    <2>2. \/ UNCHANGED ifs
          \/ UpdateCompEthInterfaceTx(c.id, c.read, ListPatch({}))
          \/ UpdateCompEthInterfaceTx(c.id, c.read, ListPatch(list))
        BY <1>8 DEF UpdateCompEthInterfaceIPAddress
    <2> HIDE DEF list
    <2> QED
        BY <1>2, <1>3, <1>4, <2>1, <2>2, SmallListsDistinct
<1>9. CASE DeleteCompEthInterfaceIPAddress(k)
    <2> DEFINE list == {m \in ips : m.ip # c.arg}
    <2>1. Distinct(list)
        BY <1>6, <1>9, PartDistinct DEF DeleteCompEthInterfaceIPAddress
    <2>2. UNCHANGED ifs \/ UpdateCompEthInterfaceTx(c.id, c.read, ListPatch(list))
        BY <1>9 DEF DeleteCompEthInterfaceIPAddress
    <2> HIDE DEF list
    <2> QED
        BY <1>2, <1>3, <1>4, <2>1, <2>2
<1> QED
    BY <1>5, <1>7, <1>8, <1>9

LEMMA BeginsConsistent ==
    ASSUME EthTypeInv, ListsDistinct, NEW k \in EthCallers,
           \/ doCompEthInterfacePatchV2(k) \/ doCompEthInterfaceIPAddressPostV2(k)
           \/ doCompEthInterfaceIPAddressPatchV2(k) \/ doCompEthInterfaceIPAddressDeleteV2(k)
    PROVE  RowsConsistent' /\ CallsConsistent'
<1>1. \A p \in Patches : Distinct(p.ips)
    BY SmallListsDistinct DEF Patches, KeepList, ListsDistinct
<1> QED
    BY <1>1, BeginConsistent DEF doCompEthInterfacePatchV2, doCompEthInterfaceIPAddressPostV2,
           doCompEthInterfaceIPAddressPatchV2, doCompEthInterfaceIPAddressDeleteV2

\* An endpoint's interface is posted, replaced or put back.
LEMMA ReplaceConsistent ==
    ASSUME EthTypeInv, ListsDistinct, NEW k \in EthCallers,
           createCompEthInterfacesV2(k) \/ ReplaceDeletes(k) \/ ReplaceInserts(k)
    PROVE  RowsConsistent' /\ CallsConsistent'
<1>1. CASE createCompEthInterfacesV2(k)
    <2>1. PICK i \in Macs, row \in Insertable :
              \/ InsertCompEthInterfaceTx(i, row) /\ UNCHANGED ethCalls
              \/ /\ ethCalls' = [ethCalls EXCEPT ![k] = [op |-> "replace", id |-> i, read |-> row, arg |-> Keep]]
                 /\ UNCHANGED ifs
        BY <1>1 DEF createCompEthInterfacesV2
    <2>2. Consistent(row)
        BY InsertableConsistent
    <2>3. CASE InsertCompEthInterfaceTx(i, row) /\ UNCHANGED ethCalls
        BY <2>2, <2>3, InsertConsistent DEF EthTypeInv, CallsConsistent
    <2>4. CASE /\ ethCalls' = [ethCalls EXCEPT ![k] = [op |-> "replace", id |-> i, read |-> row, arg |-> Keep]]
               /\ UNCHANGED ifs
        BY <2>2, <2>4 DEF EthTypeInv, EthInv, EthCallsOK, RowsConsistent, CallsConsistent, CallConsistent
    <2> QED
        BY <2>1, <2>3, <2>4
<1>2. CASE ReplaceDeletes(k)
    <2>1. CASE UNCHANGED ifs /\ EthEnd(k)
        BY <2>1, EndConsistent DEF EthTypeInv, RowsConsistent
    <2>2. CASE /\ DeleteCompEthInterfaceByIDTx(ethCalls[k].id)
               /\ ethCalls' = [ethCalls EXCEPT ![k].op = "reinsert"]
        <3>1. ethCalls[k].op = "replace"
            BY <1>2 DEF ReplaceDeletes
        <3>2. CallsConsistent'
            BY <2>2, <3>1 DEF EthTypeInv, EthInv, EthCallsOK, CallsConsistent, CallConsistent
        <3> QED
            BY <2>2, <3>2, DeleteConsistent
    <2> QED
        BY <1>2, <2>1, <2>2 DEF ReplaceDeletes
<1>3. CASE ReplaceInserts(k)
    <2>1. Consistent(ethCalls[k].read) /\ EthEnd(k)
        BY <1>3 DEF ReplaceInserts, EthTypeInv, CallsConsistent, CallConsistent
    <2>2. CallsConsistent'
        BY <2>1, EndConsistent
    <2> QED
        BY <1>3, <2>1, <2>2, InsertConsistent DEF ReplaceInserts, EthTypeInv, RowsConsistent
<1> QED
    BY <1>1, <1>2, <1>3

LEMMA DiscoveryConsistent ==
    ASSUME EthTypeInv, ListsDistinct, InsertCompEthInterfacesCompInfo
    PROVE  RowsConsistent' /\ CallsConsistent'
<1>1. PICK found \in SUBSET Macs, ips \in Lists, o \in Owners \ {""}, d \in Descs :
          InsertCompEthInterfacesCompInfoTx([i \in found |-> CompEthInterface(o, d, ips)])
    BY DEF InsertCompEthInterfacesCompInfo
<1> DEFINE row == CompEthInterface(o, d, ips)
<1>2. Consistent(row) /\ row.owner = o /\ row.type = TypeOf(o)
    BY InterfaceConsistent DEF ListsDistinct, CompEthInterface
<1> HIDE DEF row
<1>3. ifs' = [i \in Macs |-> IF i \notin found THEN ifs[i]
                             ELSE IF ifs[i] = NoIf THEN row
                             ELSE [ifs[i] EXCEPT !.owner = row.owner, !.type = row.type]]
    BY <1>1 DEF InsertCompEthInterfacesCompInfoTx, row
<1>4. ASSUME NEW i \in Macs
      PROVE  Consistent(ifs'[i])
    <2>1. Consistent(ifs[i])
        BY DEF EthTypeInv, RowsConsistent
    <2> QED
        BY <1>2, <1>3, <2>1 DEF Consistent, HasColumns
<1> QED
    BY <1>4 DEF InsertCompEthInterfacesCompInfo, EthTypeInv, RowsConsistent, CallsConsistent

LEMMA EthTypeKeeps ==
    ASSUME ListsDistinct, EthTypeInv, [EthNext]_ethVars
    PROVE  EthTypeInv'
<1>1. CASE doCompEthInterfacePostV2
    <2>1. PICK i \in Macs, row \in Insertable : InsertCompEthInterfaceTx(i, row) /\ UNCHANGED ethCalls
        BY <1>1 DEF doCompEthInterfacePostV2, InsertCompEthInterface
    <2> QED
        BY <2>1, InsertableConsistent, InsertConsistent, EthNextKeeps DEF EthTypeInv, CallsConsistent
<1>2. CASE doCompEthInterfaceDelete
    BY <1>2, DeleteConsistent, EthNextKeeps
       DEF doCompEthInterfaceDelete, DeleteCompEthInterfaceByID, EthTypeInv, CallsConsistent
<1>3. CASE doCompEthInterfaceDeleteAll
    BY <1>3, NoIfConsistent, EthNextKeeps
       DEF doCompEthInterfaceDeleteAll, DeleteCompEthInterfacesAll, DeleteCompEthInterfacesAllTx,
           EthTypeInv, RowsConsistent, CallsConsistent
<1>4. CASE UNCHANGED ethVars
    BY <1>4, EthNextKeeps DEF ethVars, EthTypeInv, RowsConsistent, CallsConsistent
<1>5. ASSUME RowsConsistent' /\ CallsConsistent' PROVE EthTypeInv'
    BY <1>5, EthNextKeeps DEF EthTypeInv
<1> QED
    BY <1>1, <1>2, <1>3, <1>4, <1>5, BeginsConsistent, EndsConsistent, ReplaceConsistent, DiscoveryConsistent
       DEF EthNext

\* A list without a repetition has as many addresses as mappings.
LEMMA DistinctCount ==
    ASSUME NEW ips, Distinct(ips)
    PROVE  Cardinality(AddressesOf(ips)) = Cardinality(ips)
<1> DEFINE f == [m \in ips |-> m.ip]
           T == AddressesOf(ips)
<1>1. f \in [ips -> T] /\ (\A a, b \in ips : f[a] = f[b] => a = b)
    BY DEF AddressesOf, Distinct
<1>2. \A t \in T : \E m \in ips : f[m] = t
    BY DEF AddressesOf
<1> HIDE DEF f, T
<1>3. f \in Bijection(ips, T)
    BY <1>1, <1>2, Fun_IsBij
<1>4. ExistsBijection(ips, T)
    BY <1>3, Fun_ExistsBij
<1> QED
    BY <1>4, FS_Bijection DEF Distinct, T

\* If no call gives an address twice, no interface ever lists one twice, although
\* each call writes the list that it read and others may have written in between;
\* and an interface says of its component the type that the component's id has
\* (hmsds-postgres.go:3109-3127).
THEOREM EthTypeOKHolds == ASSUME ListsDistinct PROVE EthSpec => []EthTypeOK
<1>1. EthInit => EthTypeInv
    <2> SUFFICES ASSUME EthInit PROVE EthTypeInv
        OBVIOUS
    <2>1. RowsConsistent
        BY NoIfConsistent DEF EthInit, RowsConsistent
    <2>2. CallsConsistent
        BY DEF EthInit, CallsConsistent, CallConsistent, EthIdle
    <2> QED
        BY <2>1, <2>2, EthInitInv DEF EthTypeInv
<1>2. EthTypeInv => EthTypeOK
    <2> SUFFICES ASSUME EthTypeInv, NEW i \in Macs
                 PROVE  /\ ifs[i].owner \in {"", "none"} \/ ifs[i].type = TypeOf(ifs[i].owner)
                        /\ Cardinality(AddressesOf(doCompEthInterfaceIPAddressesGetV2(i))) = Cardinality(ifs[i].ips)
        BY DEF EthTypeOK
    <2>1. Consistent(ifs[i])
        BY DEF EthTypeInv, RowsConsistent
    <2>2. {i} # AnyFilter
        BY MacsAssumption DEF AnyFilter
    <2>3. GetCompEthInterfaceFilter({i}, AnyFilter, AnyFilter, AnyFilter) = IF ifs[i] = NoIf THEN {} ELSE {i}
        BY <2>2 DEF GetCompEthInterfaceFilter
    <2>4. doCompEthInterfaceIPAddressesGetV2(i) = ifs[i].ips
        BY <2>3 DEF doCompEthInterfaceIPAddressesGetV2, NoIf
    <2> QED
        BY <2>1, <2>4, DistinctCount DEF Consistent
<1>3. EthTypeInv /\ [EthNext]_ethVars => EthTypeInv'
    BY EthTypeKeeps
<1> QED
    BY <1>1, <1>2, <1>3, PTL DEF EthSpec

-----------------------------------------------------------------------------
(* Groups and partitions                                                  *)

IsGroup(g) == /\ g = [kind |-> g.kind, name |-> g.name, excl |-> g.excl, tag |-> g.tag]
              /\ g.kind \in {"group", "partition"}
IsCall(x)  == x = [pc |-> x.pc, id |-> x.id, ns |-> x.ns, tag |-> x.tag, ids |-> x.ids,
                   targets |-> x.targets, dels |-> x.dels, fresh |-> x.fresh]

\* Groups and calls are records with these fields.
GroupsOK ==
    /\ mix \in Mixes
    /\ groups = [i \in Ids |-> groups[i]]
    /\ \A i \in Live : IsGroup(groups[i]) /\ groups[i].tag \in mix.tags

\* A call remembers the namespace that its group has, while the group exists.
CallsOK ==
    /\ tx = [k \in Callers |-> tx[k]]
    /\ \A k \in Callers : tx[k] # Idle =>
           /\ IsCall(tx[k]) /\ tx[k].pc # "idle"
           /\ tx[k].id \in Live => tx[k].ns = Namespace(groups[tx[k].id])

\* A member row is of a component and a group that exist, and no two rows
\* violate a key.
MembersOK ==
    /\ comps \subseteq Comps
    /\ \A r \in members : r.comp \in comps /\ r.id \in Live /\ r.ns = Namespace(groups[r.id])
NoClash == \A r, s \in members : r # s => ~Clash(r, s)

\* Rows that are being deleted are there, each for one transaction.
HeldOK == /\ \A k \in Callers : Held(k) \subseteq members
          /\ \A j, k \in Callers : j # k => Held(j) \cap Held(k) = {}

GroupsInv == GroupsOK /\ CallsOK /\ MembersOK /\ NoClash /\ HeldOK

-----------------------------------------------------------------------------
(* Lemmas about the helpers                                                *)

\* Rows becoming visible to a call change nothing of it but what it has not seen.
LEMMA UnseenKeeps ==
    ASSUME CallsOK, NEW rows, NEW k \in Callers
    PROVE  /\ Unseen(rows)[k] = Idle <=> tx[k] = Idle
           /\ tx[k] # Idle => /\ IsCall(Unseen(rows)[k])
                              /\ Unseen(rows)[k].pc = tx[k].pc
                              /\ Unseen(rows)[k].id = tx[k].id
                              /\ Unseen(rows)[k].ns = tx[k].ns
                              /\ Unseen(rows)[k].dels = tx[k].dels
<1>1. CASE tx[k] = Idle
    BY <1>1 DEF Unseen, Idle
<1>2. CASE tx[k] # Idle
    <2>1. IsCall(tx[k]) /\ tx[k].pc # "idle"
        BY <1>2 DEF CallsOK
    <2>2. CASE tx[k].pc \in {"delete", "insert"}
        <3> DEFINE more == tx[k].fresh \cup {r \in rows : r.id = tx[k].id}
        <3>1. Unseen(rows)[k] = [tx[k] EXCEPT !.fresh = more]
            BY <2>2 DEF Unseen
        <3> HIDE DEF more
        <3>2. Unseen(rows)[k] = [pc |-> tx[k].pc, id |-> tx[k].id, ns |-> tx[k].ns, tag |-> tx[k].tag,
                                 ids |-> tx[k].ids, targets |-> tx[k].targets, dels |-> tx[k].dels,
                                 fresh |-> more]
            BY <2>1, <3>1 DEF IsCall
        <3>3. Unseen(rows)[k].pc # Idle.pc
            BY <2>1, <3>2 DEF Idle
        <3> QED BY <1>2, <3>2, <3>3 DEF IsCall
    <2>3. CASE tx[k].pc \notin {"delete", "insert"}
        BY <1>2, <2>1, <2>3 DEF Unseen
    <2> QED BY <2>2, <2>3
<1> QED BY <1>1, <1>2

\* Rows of different components in one group do not clash.
LEMMA RowsDoNotClash ==
    ASSUME NEW kept, NEW id, NEW ns, NEW ids,
           \A r, s \in kept : r # s => ~Clash(r, s),
           \A r \in InsertMembersTx(id, ns, ids), s \in kept : ~Clash(r, s)
    PROVE  \A r, s \in kept \cup InsertMembersTx(id, ns, ids) : r # s => ~Clash(r, s)
<1> DEFINE rows == InsertMembersTx(id, ns, ids)
<1>1. \A r, s \in rows : r # s => ~Clash(r, s)
    BY DEF InsertMembersTx, Clash
<1>2. \A r, s : Clash(r, s) <=> Clash(s, r)
    BY DEF Clash
<1> HIDE DEF rows
<1> QED BY <1>1, <1>2 DEF rows

\* Calls that end, or keep what they remember, are as good as before when the
\* groups they remember keep their namespaces.
Keeps(k) == tx'[k] # Idle => /\ tx[k] # Idle /\ IsCall(tx[k])' /\ tx'[k].pc # "idle"
                             /\ tx'[k].id = tx[k].id /\ tx'[k].ns = tx[k].ns

LEMMA CallsStay ==
    ASSUME CallsOK, tx' = [k \in Callers |-> tx'[k]], \A k \in Callers : Keeps(k),
           \A k \in Callers : tx[k] # Idle /\ tx[k].id \in Live' =>
               tx[k].id \in Live /\ Namespace(groups'[tx[k].id]) = Namespace(groups[tx[k].id])
    PROVE  CallsOK'
BY DEF CallsOK, Keeps, Idle

\* A step of one call that ends it.
LEMMA EndKeeps ==
    ASSUME CallsOK, NEW k \in Callers, End(k, tx)
    PROVE  /\ tx' = [j \in Callers |-> tx'[j]]
           /\ \A j \in Callers : Keeps(j)
           /\ \A j \in Callers : Held(j)' = IF j = k THEN {} ELSE Held(j)
BY DEF CallsOK, End, Keeps, Idle, Held, IsCall

\* and one that also shows its rows to the others.
LEMMA EndUnseenKeeps ==
    ASSUME CallsOK, NEW k \in Callers, NEW rows, End(k, Unseen(rows))
    PROVE  /\ tx' = [j \in Callers |-> tx'[j]]
           /\ \A j \in Callers : Keeps(j)
           /\ \A j \in Callers : Held(j)' = IF j = k THEN {} ELSE Held(j)
<1>1. tx' = [Unseen(rows) EXCEPT ![k] = Idle] /\ Unseen(rows) = [j \in Callers |-> Unseen(rows)[j]]
    BY DEF End, Unseen
<1>2. tx' = [j \in Callers |-> IF j = k THEN Idle ELSE Unseen(rows)[j]]
    BY <1>1
<1>3. ASSUME NEW j \in Callers
      PROVE  Keeps(j) /\ Held(j)' = IF j = k THEN {} ELSE Held(j)
    <2>1. CASE j = k
        BY <1>2, <2>1 DEF Keeps, Held, Idle
    <2>2. CASE j # k
        <3>1. tx'[j] = Unseen(rows)[j]
            BY <1>2, <2>2
        <3>2. CASE tx[j] = Idle
            BY <2>2, <3>1, <3>2, UnseenKeeps DEF Keeps, Held, Idle
        <3>3. CASE tx[j] # Idle
            BY <2>2, <3>1, <3>3, UnseenKeeps DEF CallsOK, Keeps, Held, IsCall
        <3> QED BY <3>2, <3>3
    <2> QED BY <2>1, <2>2
<1> QED BY <1>2, <1>3

-----------------------------------------------------------------------------
(* Each operation keeps the invariant                                      *)

LEMMA InsertInv ==
    ASSUME GroupsInv, NEW g \in mix.groups, NEW ids, Insert(g, ids)
    PROVE  GroupsInv'
<1>1. PICK id \in NewIds :
          LET rows == InsertMembersTx(id, Namespace(g), ids) IN
          /\ \A r \in rows : r.comp \in comps /\ \A s \in members : ~Clash(r, s)
          /\ groups' = [groups EXCEPT ![id] = g]
          /\ members' = members \cup rows
          /\ tx' = Unseen(rows)
    BY DEF Insert, InsertEmptyGroupTx, InsertEmptyPartitionTx
<1> DEFINE rows == InsertMembersTx(id, Namespace(g), ids)
<1>2. UNCHANGED <<comps, mix>>
    BY DEF Insert
<1>3. id \in Ids /\ id \notin Live /\ \A k \in Callers : tx[k] = Idle \/ tx[k].id # id
    BY DEF NewIds
<1>4. IsGroup(g) /\ g.tag \in mix.tags /\ g # NoGroup
    BY MixesAssumption DEF GroupsInv, GroupsOK, IsGroup, NoGroup, None
<1>5. groups' = [i \in Ids |-> IF i = id THEN g ELSE groups[i]]
    BY <1>1, <1>3 DEF GroupsInv, GroupsOK
<1>6. Live' = Live \cup {id}
    BY <1>3, <1>4, <1>5 DEF Live
<1>7. GroupsOK'
    <2>1. groups' = [i \in Ids |-> groups'[i]]
        BY <1>5
    <2>2. \A i \in Live' : IsGroup(groups'[i]) /\ groups'[i].tag \in mix.tags
        BY <1>3, <1>4, <1>5, <1>6 DEF GroupsInv, GroupsOK, Live
    <2> QED BY <1>2, <2>1, <2>2 DEF GroupsInv, GroupsOK, IsGroup
<1>8. tx' = [k \in Callers |-> tx'[k]] /\ \A k \in Callers : Keeps(k) /\ Held(k)' = Held(k)
    <2>1. tx' = Unseen(rows) /\ tx' = [k \in Callers |-> tx'[k]]
        BY <1>1 DEF Unseen
    <2> HIDE DEF rows
    <2>2. ASSUME NEW k \in Callers
          PROVE  Keeps(k) /\ Held(k)' = Held(k)
        <3>1. CASE tx[k] = Idle
            BY <2>1, <3>1, UnseenKeeps DEF GroupsInv, Keeps, Held, Idle
        <3>2. CASE tx[k] # Idle
            BY <2>1, <3>2, UnseenKeeps DEF GroupsInv, CallsOK, Keeps, Held, IsCall
        <3> QED BY <3>1, <3>2
    <2> QED BY <2>1, <2>2
<1>9. CallsOK'
    <2>1. \A k \in Callers : tx[k] # Idle /\ tx[k].id \in Live' =>
              tx[k].id \in Live /\ Namespace(groups'[tx[k].id]) = Namespace(groups[tx[k].id])
        BY <1>3, <1>5, <1>6 DEF Live
    <2> QED BY <1>8, <2>1, CallsStay DEF GroupsInv
<1>10. MembersOK'
    <2>1. \A r \in members : r.id # id
        BY <1>3 DEF GroupsInv, MembersOK
    <2>2. \A r \in rows : r.id = id /\ r.ns = Namespace(g)
        BY DEF InsertMembersTx
    <2>3. Namespace(groups[id])' = Namespace(g) /\ \A i \in Live : Namespace(groups[i])' = Namespace(groups[i])
        BY <1>3, <1>5 DEF Live, Namespace
    <2> QED BY <1>1, <1>2, <1>6, <2>1, <2>2, <2>3 DEF GroupsInv, MembersOK
<1>11. NoClash'
    <2>1. \A r, s \in members \cup rows : r # s => ~Clash(r, s)
        <3>1. \A r \in rows, s \in members : ~Clash(r, s)
            BY <1>1
        <3> QED BY <3>1, RowsDoNotClash DEF GroupsInv, NoClash
    <2> HIDE DEF rows
    <2>2. members' = members \cup rows
        BY <1>1 DEF rows
    <2> QED BY <2>1, <2>2 DEF NoClash, Clash
<1>12. HeldOK'
    BY <1>1, <1>8 DEF GroupsInv, HeldOK
<1> QED BY <1>7, <1>9, <1>10, <1>11, <1>12 DEF GroupsInv

LEMMA DeleteInv ==
    ASSUME GroupsInv, NEW id \in Ids, Delete(id)
    PROVE  GroupsInv'
<1>1. groups' = [i \in Ids |-> IF i = id THEN NoGroup ELSE groups[i]]
    BY DEF Delete, GroupsInv, GroupsOK
<1>2. Live' = Live \ {id}
    BY <1>1 DEF Live
<1>3. \A i \in Live' : groups'[i] = groups[i]
    BY <1>1, <1>2 DEF Live
<1>4. UNCHANGED <<comps, tx, mix>> /\ \A k : Held(k)' = Held(k)
    BY DEF Delete, Held
<1>5. GroupsOK'
    BY <1>1, <1>2, <1>3, <1>4 DEF GroupsInv, GroupsOK
<1>6. CallsOK'
    BY <1>2, <1>3, <1>4 DEF GroupsInv, CallsOK, Namespace
<1>7. MembersOK'
    BY <1>2, <1>3, <1>4 DEF GroupsInv, MembersOK, Delete, DeleteMembersAllTx, Namespace
<1>8. NoClash'
    BY DEF GroupsInv, NoClash, Delete
<1>9. HeldOK'
    <2>1. \A k \in Callers : Held(k) \cap DeleteMembersAllTx(id) = {}
        BY DEF Delete
    <2> QED BY <1>4, <2>1 DEF GroupsInv, HeldOK, Delete
<1> QED BY <1>5, <1>6, <1>7, <1>8, <1>9 DEF GroupsInv

LEMMA ComponentsInv ==
    ASSUME GroupsInv, NEW c \in Comps, DeleteComponent(c) \/ InsertComponent(c)
    PROVE  GroupsInv'
<1>1. UNCHANGED <<groups, tx, mix>> /\ members' \subseteq members
    BY DEF DeleteComponent, InsertComponent
<1>2. Live' = Live /\ (\A k : Held(k)' = Held(k)) /\ (\A i : Namespace(groups[i])' = Namespace(groups[i]))
    BY <1>1 DEF Live, Held, Namespace
<1>3. GroupsOK' /\ CallsOK' /\ NoClash'
    BY <1>1, <1>2 DEF GroupsInv, GroupsOK, CallsOK, NoClash
<1>4. MembersOK'
    BY <1>1, <1>2 DEF GroupsInv, MembersOK, DeleteComponent, InsertComponent
<1>5. HeldOK'
    BY <1>1, <1>2 DEF GroupsInv, HeldOK, DeleteComponent, InsertComponent
<1> QED BY <1>3, <1>4, <1>5 DEF GroupsInv

LEMMA BeginInv ==
    ASSUME GroupsInv, NEW k \in Callers, NEW g, NEW op, NEW ids,
           op \in {"add", "remove", "put", "patch"}, Begin(k, g, op, ids)
    PROVE  GroupsInv'
<1>1. UNCHANGED <<comps, groups, members, mix>> /\ tx[k] = Idle
    BY DEF Begin
<1>2. PICK id \in Lookup(g) :
          tx' = [tx EXCEPT ![k] = [pc |-> op, id |-> id, ns |-> Namespace(groups[id]),
                                   tag |-> IF op = "patch" THEN groups[id].tag ELSE None, ids |-> ids,
                                   targets |-> {}, dels |-> {}, fresh |-> {}]]
    BY DEF Begin
<1>3. tx' = [j \in Callers |-> tx'[j]] /\ \A j \in Callers : j # k => tx'[j] = tx[j]
    BY <1>2 DEF GroupsInv, CallsOK
<1>4. /\ IsCall(tx'[k]) /\ tx'[k].pc = op
      /\ tx'[k].ns = Namespace(groups[tx'[k].id])
    BY <1>2 DEF GroupsInv, CallsOK, IsCall
<1>5. Live' = Live /\ (\A i : Namespace(groups[i])' = Namespace(groups[i]))
    BY <1>1 DEF Live, Namespace
<1>6. \A j \in Callers : Held(j)' = Held(j)
    BY <1>1, <1>3, <1>4 DEF Held, Idle
<1>7. GroupsOK' /\ MembersOK' /\ NoClash' /\ HeldOK'
    BY <1>1, <1>5, <1>6 DEF GroupsInv, GroupsOK, MembersOK, NoClash, HeldOK
<1>8. CallsOK'
    BY <1>1, <1>3, <1>4, <1>5 DEF GroupsInv, CallsOK, IsCall
<1> QED BY <1>7, <1>8 DEF GroupsInv

\* Calls that change no group, and with members only delete some that no other
\* call is deleting, or insert what does not clash.
LEMMA MembersChange ==
    ASSUME GroupsInv, UNCHANGED <<comps, groups, mix>>,
           tx' = [j \in Callers |-> tx'[j]], \A j \in Callers : Keeps(j),
           \A r \in members' : r \in members \/
               (r.comp \in comps /\ r.id \in Live /\ r.ns = Namespace(groups[r.id]))
    PROVE  GroupsOK' /\ CallsOK' /\ MembersOK'
<1>1. Live' = Live /\ (\A i : Namespace(groups'[i]) = Namespace(groups[i]))
    BY DEF Live, Namespace
<1>2. (\A i : Namespace(groups[i])' = Namespace(groups[i]))
    BY DEF Namespace
<1>3. GroupsOK' /\ MembersOK'
    BY <1>1, <1>2 DEF GroupsInv, GroupsOK, MembersOK
<1>4. CallsOK'
    BY <1>1, CallsStay DEF GroupsInv
<1> QED BY <1>3, <1>4

LEMMA DeleteMemberInv ==
    ASSUME GroupsInv, NEW k \in Callers, tx[k].pc = "remove", DeleteMember(k)
    PROVE  GroupsInv'
<1>1. End(k, tx) /\ UNCHANGED <<comps, groups, mix>> /\ members' \subseteq members
    BY DEF DeleteMember
<1>2. /\ tx' = [j \in Callers |-> tx'[j]] /\ \A j \in Callers : Keeps(j)
      /\ \A j \in Callers : Held(j)' = IF j = k THEN {} ELSE Held(j)
    BY <1>1, EndKeeps DEF GroupsInv
<1>3. \A j \in Callers \ {k} : Held(j) \cap (members \ members') = {}
    BY DEF DeleteMember, Others
<1>4. GroupsOK' /\ CallsOK' /\ MembersOK'
    BY <1>1, <1>2, MembersChange
<1>5. NoClash' /\ HeldOK'
    BY <1>1, <1>2, <1>3 DEF GroupsInv, NoClash, HeldOK, Clash
<1> QED BY <1>4, <1>5 DEF GroupsInv

\* An insertion that ends a call, which may have deleted rows before.
LEMMA InsertMembersInv ==
    ASSUME GroupsInv, NEW k \in Callers, tx[k] # Idle, UNCHANGED <<comps, groups, mix>>,
           LET rows == InsertMembersTx(tx[k].id, tx[k].ns, tx[k].ids) IN
           /\ ~Blocked(k, rows)
           /\ IF Refused(k, rows) THEN End(k, tx) /\ UNCHANGED members
              ELSE End(k, Unseen(rows)) /\ members' = (members \ Held(k)) \cup rows
    PROVE  GroupsInv'
<1> DEFINE rows == InsertMembersTx(tx[k].id, tx[k].ns, tx[k].ids)
<1>1. CASE Refused(k, rows)
    <2>1. End(k, tx) /\ UNCHANGED members
        BY <1>1
    <2>2. /\ tx' = [j \in Callers |-> tx'[j]] /\ \A j \in Callers : Keeps(j)
          /\ \A j \in Callers : Held(j)' = IF j = k THEN {} ELSE Held(j)
        BY <2>1, EndKeeps DEF GroupsInv
    <2>3. GroupsOK' /\ CallsOK' /\ MembersOK'
        BY <2>1, <2>2, MembersChange
    <2>4. NoClash' /\ HeldOK'
        BY <2>1, <2>2 DEF GroupsInv, NoClash, HeldOK, Clash
    <2> QED BY <2>3, <2>4 DEF GroupsInv
<1>2. CASE ~Refused(k, rows)
    <2>1. End(k, Unseen(rows)) /\ members' = (members \ Held(k)) \cup rows /\ ~Blocked(k, rows)
        BY <1>2
    <2>2. /\ tx' = [j \in Callers |-> tx'[j]] /\ \A j \in Callers : Keeps(j)
          /\ \A j \in Callers : Held(j)' = IF j = k THEN {} ELSE Held(j)
        BY <2>1, EndUnseenKeeps DEF GroupsInv
    <2>3. \A r \in rows : r.comp \in comps /\ r.id \in Live
        BY <1>2 DEF Refused
    <2>4. \A r \in rows : r.id = tx[k].id /\ r.ns = tx[k].ns
        BY DEF InsertMembersTx
    <2>5. \A r \in rows, s \in members \ Held(k) : ~Clash(r, s)
        BY <1>2, <2>1 DEF Refused, Blocked
    <2>6. \A r, s \in (members \ Held(k)) \cup rows : r # s => ~Clash(r, s)
        <3>1. \A r, s \in members \ Held(k) : r # s => ~Clash(r, s)
            BY DEF GroupsInv, NoClash
        <3> QED BY <2>5, <3>1, RowsDoNotClash
    <2> HIDE DEF rows
    <2>7. NoClash'
        BY <2>1, <2>6 DEF NoClash, Clash
    <2>8. \A r \in rows : r.ns = Namespace(groups[r.id])
        BY <2>3, <2>4 DEF GroupsInv, CallsOK
    <2>9. GroupsOK' /\ CallsOK' /\ MembersOK'
        BY <2>1, <2>2, <2>3, <2>8, MembersChange
    <2>10. HeldOK'
        BY <2>1, <2>2 DEF GroupsInv, HeldOK
    <2> QED BY <2>7, <2>9, <2>10 DEF GroupsInv
<1> QED BY <1>1, <1>2

LEMMA AddMemberInv ==
    ASSUME GroupsInv, NEW k \in Callers, tx[k].pc = "add", AddMember(k)
    PROVE  GroupsInv'
<1>1. Held(k) = {} /\ tx[k] # Idle /\ members \ {} = members
    BY DEF Held, Idle
<1>2. UNCHANGED <<comps, groups, mix>>
    BY DEF AddMember
<1> QED BY <1>1, <1>2, InsertMembersInv DEF AddMember

LEMMA SetGroupMembersInv ==
    ASSUME GroupsInv, NEW k \in Callers, SetGroupMembers(k)
    PROVE  GroupsInv'
<1>1. Held(k) = tx[k].dels /\ tx[k] # Idle
    BY DEF SetGroupMembers, Held, Idle
<1>2. UNCHANGED <<comps, groups, mix>>
    BY DEF SetGroupMembers
<1> QED BY <1>1, <1>2, InsertMembersInv DEF SetGroupMembers

LEMMA PutDeleteInv ==
    ASSUME GroupsInv, NEW k \in Callers, PutDelete(k) \/ PutDeleted(k)
    PROVE  GroupsInv'
<1>1. UNCHANGED <<comps, groups, members, mix>> /\ tx[k].pc \in {"put", "delete"}
    BY DEF PutDelete, PutDeleted
<1>2. tx[k] # Idle /\ IsCall(tx[k])
    BY <1>1 DEF GroupsInv, CallsOK, Idle
<1>3. tx' = [j \in Callers |-> tx'[j]] /\ \A j \in Callers : j # k => tx'[j] = tx[j]
    BY DEF GroupsInv, CallsOK, PutDelete, PutDeleted
<1>4. PICK new : /\ new.pc \in {"delete", "insert"}
                 /\ new.pc = "insert" => new.dels = (tx[k].targets \cap members) \ tx[k].fresh
                 /\ new.pc = "insert" => tx[k].targets \cap Others(k) = {}
                 /\ IsCall(new) /\ new.id = tx[k].id /\ new.ns = tx[k].ns
                 /\ tx'[k] = new
    <2>1. CASE PutDelete(k)
        <3> DEFINE all == DeleteMembersAllTx(tx[k].id)
        <3>1. tx'[k] = [tx[k] EXCEPT !.pc = "delete", !.targets = all]
            BY <2>1 DEF PutDelete, GroupsInv, CallsOK
        <3> HIDE DEF all
        <3>2. tx'[k].pc = "delete" /\ IsCall(tx'[k]) /\ tx'[k].id = tx[k].id /\ tx'[k].ns = tx[k].ns
            BY <1>2, <3>1 DEF IsCall
        <3> QED BY <3>2
    <2>2. CASE PutDeleted(k)
        <3> DEFINE seen == (tx[k].targets \cap members) \ tx[k].fresh
        <3>1. tx'[k] = [tx[k] EXCEPT !.pc = "insert", !.targets = {}, !.dels = seen]
            BY <2>2 DEF PutDeleted, GroupsInv, CallsOK
        <3> HIDE DEF seen
        <3>2. /\ tx'[k].pc = "insert" /\ tx'[k].dels = seen
              /\ IsCall(tx'[k]) /\ tx'[k].id = tx[k].id /\ tx'[k].ns = tx[k].ns
            BY <1>2, <3>1 DEF IsCall
        <3>3. tx[k].targets \cap Others(k) = {}
            BY <2>2 DEF PutDeleted
        <3> QED BY <3>2, <3>3 DEF seen
    <2> QED BY <2>1, <2>2
<1>5. \A j \in Callers : j # k => Held(j)' = Held(j)
    BY <1>1, <1>3 DEF Held
<1>6. Held(k)' \subseteq members /\ Held(k)' \cap Others(k) = {}
    BY <1>4 DEF Held
<1>7. \A j \in Callers : Keeps(j)
    BY <1>2, <1>3, <1>4 DEF GroupsInv, CallsOK, Keeps, IsCall
<1>8. GroupsOK' /\ CallsOK' /\ MembersOK'
    BY <1>1, <1>3, <1>7, MembersChange
<1>9. HeldOK'
    BY <1>1, <1>5, <1>6 DEF GroupsInv, HeldOK, Others
<1> QED BY <1>1, <1>8, <1>9 DEF GroupsInv, NoClash, Clash

LEMMA AbortDeadlockInv ==
    ASSUME GroupsInv, NEW k \in Callers, AbortDeadlock(k)
    PROVE  GroupsInv'
<1>1. End(k, tx) /\ UNCHANGED <<comps, groups, members, mix>>
    BY DEF AbortDeadlock
<1>2. /\ tx' = [j \in Callers |-> tx'[j]] /\ \A j \in Callers : Keeps(j)
      /\ \A j \in Callers : Held(j)' = IF j = k THEN {} ELSE Held(j)
    BY <1>1, EndKeeps DEF GroupsInv
<1>3. GroupsOK' /\ CallsOK' /\ MembersOK'
    BY <1>1, <1>2, MembersChange
<1> QED BY <1>1, <1>2, <1>3 DEF GroupsInv, NoClash, HeldOK, Clash

LEMMA PatchInv ==
    ASSUME GroupsInv, NEW k \in Callers, UpdateGroup(k) \/ UpdatePartition(k)
    PROVE  GroupsInv'
<1>1. End(k, tx) /\ UNCHANGED <<comps, members, mix>>
    BY DEF UpdateGroup, UpdatePartition
<1>2. PICK tag \in mix.tags :
          groups' = groups \/ (tx[k].id \in Live /\ groups' = [groups EXCEPT ![tx[k].id].tag = tag])
    BY DEF UpdateGroup, UpdatePartition, UpdateEmptyGroupTx, UpdateEmptyPartitionTx
<1>3. groups' = [i \in Ids |-> groups'[i]]
    BY <1>2 DEF GroupsInv, GroupsOK, Live
<1>4. ASSUME NEW i \in Ids
      PROVE  \/ groups'[i] = groups[i]
             \/ i \in Live /\ groups'[i] = [kind |-> groups[i].kind, name |-> groups[i].name,
                                            excl |-> groups[i].excl, tag |-> tag]
    BY <1>2 DEF GroupsInv, GroupsOK, IsGroup, Live
<1> DEFINE Tagged(g) == [kind |-> g.kind, name |-> g.name, excl |-> g.excl, tag |-> tag]
<1>t. ASSUME NEW g, IsGroup(g)
      PROVE  /\ IsGroup(Tagged(g)) /\ Tagged(g).tag = tag
             /\ Namespace(Tagged(g)) = Namespace(g) /\ Tagged(g) # NoGroup
    BY <1>t DEF IsGroup, Namespace, NoGroup, None
<1>l. \A i \in Live : IsGroup(groups[i]) /\ groups[i].tag \in mix.tags
    BY DEF GroupsInv, GroupsOK
<1>g. \A i \in Ids : groups'[i] = groups[i] \/ (i \in Live /\ groups'[i] = Tagged(groups[i]))
    BY <1>4
<1> HIDE DEF Tagged
<1>5. Live' = Live
    BY <1>g, <1>l, <1>t DEF Live
<1>6. \A i \in Live : /\ IsGroup(groups'[i]) /\ groups'[i].tag \in mix.tags
                      /\ Namespace(groups'[i]) = Namespace(groups[i])
    BY <1>g, <1>l, <1>t DEF Live
<1>7. GroupsOK'
    BY <1>1, <1>3, <1>5, <1>6 DEF GroupsInv, GroupsOK, IsGroup
<1>8. /\ tx' = [j \in Callers |-> tx'[j]] /\ \A j \in Callers : Keeps(j)
      /\ \A j \in Callers : Held(j)' = IF j = k THEN {} ELSE Held(j)
    BY <1>1, EndKeeps DEF GroupsInv
<1>9. CallsOK'
    BY <1>5, <1>6, <1>8, CallsStay DEF GroupsInv
<1>10. MembersOK'
    <2>1. \A r \in members : Namespace(groups'[r.id]) = Namespace(groups[r.id])
        BY <1>6 DEF GroupsInv, MembersOK
    <2> QED BY <1>1, <1>5, <2>1 DEF GroupsInv, MembersOK, Namespace
<1>11. NoClash' /\ HeldOK'
    BY <1>1, <1>8 DEF GroupsInv, NoClash, HeldOK, Clash
<1> QED BY <1>7, <1>9, <1>10, <1>11 DEF GroupsInv

\* The calls that look a group up first.
Begins(k) == \/ doGroupMembersPost(k) \/ doPartitionMembersPost(k)
             \/ doGroupMemberDelete(k) \/ doPartitionMemberDelete(k)
             \/ doGroupMembersPut(k) \/ doGroupPatch(k) \/ doPartitionPatch(k)

LEMMA CallsBegin ==
    ASSUME NEW k \in Callers, Begins(k)
    PROVE  \E g, op, ids : op \in {"add", "remove", "put", "patch"} /\ Begin(k, g, op, ids)
<1>1. CASE doGroupMembersPost(k) \/ doPartitionMembersPost(k)
    <2>1. PICK g, c : Begin(k, g, "add", {c})
        BY <1>1 DEF doGroupMembersPost, doPartitionMembersPost
    <2> WITNESS g, "add", {c}
    <2> QED BY <2>1
<1>2. CASE doGroupMemberDelete(k) \/ doPartitionMemberDelete(k)
    <2>1. PICK g, c : Begin(k, g, "remove", {c})
        BY <1>2 DEF doGroupMemberDelete, doPartitionMemberDelete
    <2> WITNESS g, "remove", {c}
    <2> QED BY <2>1
<1>3. CASE doGroupMembersPut(k) \/ doGroupPatch(k) \/ doPartitionPatch(k)
    BY <1>3 DEF doGroupMembersPut, doGroupPatch, doPartitionPatch
<1> QED BY <1>1, <1>2, <1>3 DEF Begins

-----------------------------------------------------------------------------
(* The invariant, and what it says                                         *)

LEMMA GroupsInvHolds == Spec => []GroupsInv
<1>1. Init => GroupsInv
    BY DEF Init, GroupsInv, GroupsOK, CallsOK, MembersOK, NoClash, HeldOK, Live, Held, Idle
<1>2. GroupsInv /\ [Next]_vars => GroupsInv'
    <2> SUFFICES ASSUME GroupsInv, [Next]_vars
                 PROVE  GroupsInv'
        OBVIOUS
    <2>1. CASE doGroupsPost \/ doPartitionsPost
        BY <2>1, InsertInv DEF doGroupsPost, doPartitionsPost, InsertGroup, InsertPartition
    <2>2. CASE doGroupDelete \/ doPartitionDelete
        BY <2>2, DeleteInv
           DEF doGroupDelete, doPartitionDelete, DeleteGroup, DeletePartition,
               GetEmptyGroupTx, GetEmptyPartitionTx, Live
    <2>3. CASE \E c \in Comps : DeleteComponent(c) \/ InsertComponent(c)
        BY <2>3, ComponentsInv
    <2>4. ASSUME NEW k \in Callers, Begins(k)
          PROVE  GroupsInv'
        <3>1. PICK g, op, ids : op \in {"add", "remove", "put", "patch"} /\ Begin(k, g, op, ids)
            BY <2>4, CallsBegin
        <3> QED BY <3>1, BeginInv
    <2>5. ASSUME NEW k \in Callers, AddGroupMember(k) \/ AddPartitionMember(k)
          PROVE  GroupsInv'
        BY <2>5, AddMemberInv DEF AddGroupMember, AddPartitionMember
    <2>6. ASSUME NEW k \in Callers, DeleteGroupMember(k) \/ DeletePartitionMember(k)
          PROVE  GroupsInv'
        BY <2>6, DeleteMemberInv DEF DeleteGroupMember, DeletePartitionMember
    <2>7. ASSUME NEW k \in Callers,
                 \/ PutDelete(k) \/ PutDeleted(k) \/ SetGroupMembers(k)
                 \/ AbortDeadlock(k) \/ UpdateGroup(k) \/ UpdatePartition(k)
          PROVE  GroupsInv'
        BY <2>7, PutDeleteInv, SetGroupMembersInv, AbortDeadlockInv, PatchInv
    <2>8. CASE UNCHANGED vars
        BY <2>8 DEF vars, GroupsInv, GroupsOK, CallsOK, MembersOK, NoClash, HeldOK, Live, Held,
                    Clash, IsGroup, IsCall, Namespace
    <2> QED BY <2>1, <2>2, <2>3, <2>4, <2>5, <2>6, <2>7, <2>8 DEF Next, Begins
<1> QED BY <1>1, <1>2, PTL DEF Spec

\* Member rows are of components and groups that exist and have the namespace of
\* their group; a transaction deletes rows that are there (hmsds-postgres.go:3829).
THEOREM GroupsTypeCorrect == Spec => []GTypeOK
<1>1. GroupsInv => GTypeOK
    BY DEF GroupsInv, GroupsOK, MembersOK, HeldOK, GTypeOK
<1> QED BY <1>1, GroupsInvHolds, PTL

\* However calls overlap, a component is in one partition at most and in one group
\* at most of each exclusive group (hmsds-postgres.go:3645, 3784, 3845).
THEOREM OneOfEachHolds == Spec => []OneOfEach
<1>1. GroupsInv => OneOfEach
    <2> SUFFICES ASSUME GroupsInv, NEW r \in members, NEW s \in members,
                        r.comp = s.comp, r.id # s.id
                 PROVE  /\ ~(groups[r.id].kind = "partition" /\ groups[s.id].kind = "partition")
                        /\ groups[r.id].kind = "group" /\ groups[s.id].kind = "group"
                              /\ groups[r.id].excl # "" => groups[r.id].excl # groups[s.id].excl
        BY DEF OneOfEach
    <2>1. r.ns # s.ns
        BY DEF GroupsInv, NoClash, Clash
    <2>2. Namespace(groups[r.id]) # Namespace(groups[s.id])
        BY <2>1 DEF GroupsInv, MembersOK
    <2> QED BY <2>2 DEF Namespace
<1> QED BY <1>1, GroupsInvHolds, PTL

-----------------------------------------------------------------------------
(* What a PUT leaves behind                                                *)

\* The rows that a PUT does not delete are those inserted since it began.
Seen(k) ==
    \A r \in members : r.id = tx[k].id =>
        /\ tx[k].pc = "delete" => r \in tx[k].targets \cup tx[k].fresh
        /\ tx[k].pc = "insert" => r \in tx[k].dels \cup tx[k].fresh
PutInv == \A k \in Callers : Seen(k)

\* A call that does not move keeps sight of them when others delete rows,
LEMMA ShrinkSeen ==
    ASSUME NEW k \in Callers, Seen(k), members' \subseteq members, tx'[k] = tx[k] \/ tx'[k] = Idle
    PROVE  Seen(k)'
BY DEF Seen, Idle

\* and when they insert some.
LEMMA UnseenSeen ==
    ASSUME CallsOK, NEW rows, NEW k \in Callers, Seen(k), members' \subseteq members \cup rows,
           tx'[k] = Unseen(rows)[k] \/ tx'[k] = Idle
    PROVE  Seen(k)'
<1>1. CASE tx[k] # Idle /\ tx[k].pc \in {"delete", "insert"} /\ tx'[k] = Unseen(rows)[k]
    <2> DEFINE more == tx[k].fresh \cup {r \in rows : r.id = tx[k].id}
    <2>1. tx'[k] = [tx[k] EXCEPT !.fresh = more]
        BY <1>1 DEF Unseen
    <2>2. \A r \in members' : r.id = tx[k].id => r \in members \cup more
        OBVIOUS
    <2>3. tx[k].fresh \subseteq more
        OBVIOUS
    <2> HIDE DEF more
    <2>4. IsCall(tx[k])
        BY <1>1 DEF CallsOK
    <2>5. /\ tx'[k].pc = tx[k].pc /\ tx'[k].id = tx[k].id /\ tx'[k].targets = tx[k].targets
          /\ tx'[k].dels = tx[k].dels /\ tx'[k].fresh = more
        BY <2>1, <2>4 DEF IsCall
    <2> QED BY <2>2, <2>3, <2>5 DEF Seen
<1>2. CASE tx'[k].pc \notin {"delete", "insert"}
    BY <1>2 DEF Seen
<1>3. CASE tx[k] = Idle /\ tx'[k] = Unseen(rows)[k]
    BY <1>3, UnseenKeeps DEF Seen, Idle
<1>4. CASE tx[k] # Idle /\ tx[k].pc \notin {"delete", "insert"} /\ tx'[k] = Unseen(rows)[k]
    BY <1>2, <1>4, UnseenKeeps
<1> QED BY <1>1, <1>2, <1>3, <1>4 DEF Idle

LEMMA PutInvHolds == Spec => []PutInv
<1>1. Init => PutInv
    BY DEF Init, PutInv, Seen, Idle
<1>2. GroupsInv /\ PutInv /\ [Next]_vars => PutInv'
    <2> SUFFICES ASSUME GroupsInv, PutInv, [Next]_vars
                 PROVE  PutInv'
        OBVIOUS
    <2>1. CASE doGroupsPost \/ doPartitionsPost
        <3>1. PICK rows : members' = members \cup rows /\ tx' = Unseen(rows)
            BY <2>1 DEF doGroupsPost, doPartitionsPost, InsertGroup, InsertPartition, Insert
        <3> QED BY <3>1, UnseenSeen DEF GroupsInv, PutInv
    <2>2. CASE doGroupDelete \/ doPartitionDelete
        <3>1. members' \subseteq members /\ tx' = tx
            BY <2>2 DEF doGroupDelete, doPartitionDelete, DeleteGroup, DeletePartition, Delete
        <3> QED BY <3>1, ShrinkSeen DEF PutInv
    <2>3. CASE \E c \in Comps : DeleteComponent(c) \/ InsertComponent(c)
        <3>1. members' \subseteq members /\ tx' = tx
            BY <2>3 DEF DeleteComponent, InsertComponent
        <3> QED BY <3>1, ShrinkSeen DEF PutInv
    <2>4. ASSUME NEW k \in Callers, Begins(k)
          PROVE  PutInv'
        <3>1. PICK g, op, ids : op \in {"add", "remove", "put", "patch"} /\ Begin(k, g, op, ids)
            BY <2>4, CallsBegin
        <3>2. members' = members /\ tx'[k].pc \notin {"delete", "insert"}
            BY <3>1 DEF Begin, GroupsInv, CallsOK
        <3>3. \A j \in Callers : j # k => tx'[j] = tx[j]
            BY <3>1 DEF Begin, GroupsInv, CallsOK
        <3>4. Seen(k)'
            BY <3>2 DEF Seen
        <3> QED BY <3>2, <3>3, <3>4, ShrinkSeen DEF PutInv
    <2>5. ASSUME NEW k \in Callers, NEW rows, members' \subseteq members \cup rows,
                 End(k, Unseen(rows))
          PROVE  PutInv'
        <3>1. Unseen(rows) = [j \in Callers |-> Unseen(rows)[j]]
            BY DEF Unseen
        <3>2. tx' = [j \in Callers |-> IF j = k THEN Idle ELSE Unseen(rows)[j]]
            BY <2>5, <3>1 DEF End
        <3>3. \A j \in Callers : tx'[j] = Unseen(rows)[j] \/ tx'[j] = Idle
            BY <3>2
        <3> QED BY <2>5, <3>3, UnseenSeen DEF GroupsInv, PutInv
    <2>6. ASSUME NEW k \in Callers, members' \subseteq members, End(k, tx)
          PROVE  PutInv'
        <3>1. \A j \in Callers : tx'[j] = tx[j] \/ tx'[j] = Idle
            BY <2>6 DEF End, GroupsInv, CallsOK
        <3> QED BY <2>6, <3>1, ShrinkSeen DEF PutInv
    <2>7. ASSUME NEW k \in Callers, PutDelete(k) \/ PutDeleted(k)
          PROVE  PutInv'
        <3>1. members' = members /\ \A j \in Callers : j # k => tx'[j] = tx[j]
            BY <2>7 DEF PutDelete, PutDeleted, GroupsInv, CallsOK
        <3>2. IsCall(tx[k])
            BY <2>7 DEF PutDelete, PutDeleted, GroupsInv, CallsOK, Idle
        <3>3. ASSUME PutDelete(k) PROVE Seen(k)'
            <4> DEFINE all == DeleteMembersAllTx(tx[k].id)
            <4>1. tx'[k] = [tx[k] EXCEPT !.pc = "delete", !.targets = all]
                BY <3>3 DEF PutDelete, GroupsInv, CallsOK
            <4>2. \A r \in members : r.id = tx[k].id => r \in all
                BY DEF DeleteMembersAllTx
            <4> HIDE DEF all
            <4>3. tx'[k].pc = "delete" /\ tx'[k].id = tx[k].id /\ tx'[k].targets = all
                BY <3>2, <4>1 DEF IsCall
            <4> QED BY <3>1, <4>2, <4>3 DEF Seen
        <3>4. ASSUME PutDeleted(k) PROVE Seen(k)'
            <4> DEFINE old == (tx[k].targets \cap members) \ tx[k].fresh
            <4>1. tx'[k] = [tx[k] EXCEPT !.pc = "insert", !.targets = {}, !.dels = old]
                BY <3>4 DEF PutDeleted, GroupsInv, CallsOK
            <4>2. \A r \in members : r.id = tx[k].id => r \in old \cup tx[k].fresh
                BY <3>4 DEF PutDeleted, PutInv, Seen
            <4> HIDE DEF old
            <4>4. /\ tx'[k].pc = "insert" /\ tx'[k].id = tx[k].id
                  /\ tx'[k].dels = old /\ tx'[k].fresh = tx[k].fresh
                BY <3>2, <4>1 DEF IsCall
            <4> QED BY <3>1, <4>2, <4>4 DEF Seen
        <3>5. Seen(k)'
            BY <2>7, <3>3, <3>4
        <3> QED BY <3>1, <3>5, ShrinkSeen DEF PutInv
    <2>8. ASSUME NEW k \in Callers,
                 \/ AddGroupMember(k) \/ AddPartitionMember(k) \/ SetGroupMembers(k)
          PROVE  PutInv'
        <3>1. PICK rows : \/ members' = members /\ End(k, tx)
                          \/ members' \subseteq members \cup rows /\ End(k, Unseen(rows))
            BY <2>8 DEF AddGroupMember, AddPartitionMember, AddMember, SetGroupMembers
        <3> QED BY <2>5, <2>6, <3>1
    <2>9. ASSUME NEW k \in Callers,
                 \/ DeleteGroupMember(k) \/ DeletePartitionMember(k)
                 \/ AbortDeadlock(k) \/ UpdateGroup(k) \/ UpdatePartition(k)
          PROVE  PutInv'
        <3>1. members' \subseteq members /\ End(k, tx)
            BY <2>9 DEF DeleteGroupMember, DeletePartitionMember, DeleteMember, AbortDeadlock,
                        UpdateGroup, UpdatePartition
        <3> QED BY <2>6, <3>1
    <2>10. CASE UNCHANGED vars
        BY <2>10, ShrinkSeen DEF vars, PutInv
    <2> QED BY <2>1, <2>2, <2>3, <2>4, <2>7, <2>8, <2>9, <2>10 DEF Next, Begins
<1> QED BY <1>1, <1>2, GroupsInvHolds, PTL DEF Spec

\* After a PUT of members the group has the members it asked for, or the PUT has
\* changed nothing; others stay only if a call inserted them since the PUT's DELETE
\* began (hmsds-postgres.go:3829-3873).
THEOREM PutReplacesHolds == Spec => PutReplaces
<1> DEFINE Replaced(k) ==
        \/ members' = members
        \/ LET now == {r \in members' : r.id = tx[k].id} IN
           /\ tx[k].ids \subseteq {r.comp : r \in now}
           /\ \A r \in now : r.comp \in tx[k].ids \/ r \in tx[k].fresh
<1>1. ASSUME PutInv, NEW k \in Callers, SetGroupMembers(k)
      PROVE  Replaced(k)
    <2> DEFINE rows == InsertMembersTx(tx[k].id, tx[k].ns, tx[k].ids)
    <2>1. CASE members' = (members \ tx[k].dels) \cup rows
        <3>1. \A r \in rows : r.comp \in tx[k].ids
            BY DEF InsertMembersTx
        <3>2. \A c \in tx[k].ids : \E r \in rows : r.comp = c /\ r.id = tx[k].id
            <4> TAKE c \in tx[k].ids
            <4> DEFINE row == [comp |-> c, id |-> tx[k].id, ns |-> tx[k].ns]
            <4>1. row \in rows /\ row.comp = c /\ row.id = tx[k].id
                BY DEF InsertMembersTx
            <4> HIDE DEF row, rows
            <4> QED BY <4>1
        <3>3. \A r \in members \ tx[k].dels : r.id = tx[k].id => r \in tx[k].fresh
            BY <1>1 DEF SetGroupMembers, PutInv, Seen
        <3> HIDE DEF rows
        <3> QED BY <2>1, <3>1, <3>2, <3>3
    <2>2. CASE members' = members
        BY <2>2
    <2> QED BY <1>1, <2>1, <2>2 DEF SetGroupMembers
<1>2. PutInv /\ [Next]_vars => [\A k \in Callers : SetGroupMembers(k) => Replaced(k)]_vars
    BY <1>1
<1> QED BY <1>2, PutInvHolds, PTL DEF Spec, PutReplaces

-----------------------------------------------------------------------------
(* Memberships                                                             *)

PartitionNs == <<"partition", "">>

\* A row is in the namespace of partitions if and only if its group is one.
LEMMA PartitionRow ==
    ASSUME GroupsInv, NEW r \in members
    PROVE  /\ r.id \in GetGroupLabels \/ r.id \in GetPartitionNames
           /\ r.ns = PartitionNs <=> r.id \in GetPartitionNames
<1>1. r.id \in Live /\ r.ns = Namespace(groups[r.id]) /\ groups[r.id].kind \in {"group", "partition"}
    BY DEF GroupsInv, MembersOK, GroupsOK, IsGroup
<1>2. CASE groups[r.id].kind = "partition"
    <2>1. Namespace(groups[r.id]) = PartitionNs
        BY Zenon, <1>2 DEF Namespace, PartitionNs
    <2> QED
        BY <1>1, <1>2, <2>1 DEF GetPartitionNames
<1>3. CASE groups[r.id].kind = "group"
    <2> DEFINE g == groups[r.id]
    <2>1. g.kind # "partition"
        BY <1>3
    <2>2. Namespace(g) = IF g.excl # "" THEN <<"exclusive", g.excl>> ELSE <<"shared", g.name>>
        BY Zenon, <2>1 DEF Namespace
    <2>3. Namespace(g) # PartitionNs
        <3>1. \A x : <<"exclusive", x>> # PartitionNs /\ <<"shared", x>> # PartitionNs
            BY DEF PartitionNs
        <3> QED
            BY Zenon, <2>2, <3>1
    <2> QED
        BY <1>1, <1>3, <2>3 DEF GetGroupLabels, GetPartitionNames
<1> QED
    BY <1>1, <1>2, <1>3

LEMMA OneAndTwo ==
    ASSUME NEW r, NEW s
    PROVE  Cardinality({r}) = 1 /\ (r # s => Cardinality({r, s}) = 2)
<1>1. IsFiniteSet({r}) /\ Cardinality({r}) = 1
    BY FS_Singleton
<1>2. ASSUME r # s PROVE Cardinality({r} \cup {s}) = 2
    BY <1>1, <1>2, FS_AddElement
<1>3. {r} \cup {s} = {r, s}
    OBVIOUS
<1> QED
    BY <1>1, <1>2, <1>3

\* The rows that the statement joins to a member's are its own, and at most one
\* other: that of its partition.
LEMMA FilterFinds ==
    ASSUME GroupsInv, NEW id \in GetGroupLabels, NEW c, NEW part,
           part = None \/ part \in GetPartitionNames
    PROVE  c \in GetMembersFilterTx(id, part) <=>
             /\ c \in GetMembersTx(id)
             /\ IF part = None THEN \A p \in GetPartitionNames : c \notin GetMembersTx(p)
                ELSE c \in GetMembersTx(part)
<1> DEFINE joined == {s \in members : s.comp = c /\
                        IF part = None THEN s.id = id \/ s.ns = PartitionNs
                        ELSE s.id \in {id, part}}
           other(s)  == s \in members /\ s.comp = c /\ (IF part = None THEN s.ns = PartitionNs ELSE s.id = part)
<1>1. c \in GetMembersFilterTx(id, part) <=>
          c \in GetMembersTx(id) /\ Cardinality(joined) = IF part = None THEN 1 ELSE 2
    BY DEF GetMembersFilterTx, PartitionNs
<1> SUFFICES ASSUME c \in GetMembersTx(id)
             PROVE  Cardinality(joined) = (IF part = None THEN 1 ELSE 2) <=>
                      IF part = None THEN \A p \in GetPartitionNames : c \notin GetMembersTx(p)
                      ELSE c \in GetMembersTx(part)
    BY <1>1
<1>2. PICK r \in members : r.comp = c /\ r.id = id
    BY DEF GetMembersTx
<1>3. id \notin GetPartitionNames /\ id \in Live
    BY DEF GetGroupLabels, GetPartitionNames
<1>4. None \notin GetPartitionNames
    BY IdsAssumption DEF GetPartitionNames, Live
<1>5. r.ns # PartitionNs
    BY <1>2, <1>3, PartitionRow
<1>6. \A s \in members : s.comp = c /\ s.id = id => s = r
    BY <1>2 DEF GroupsInv, NoClash, Clash
<1>7. \A s, t : other(s) /\ other(t) => s = t
    BY DEF GroupsInv, NoClash, Clash
<1>8. \A s : other(s) => s # r
    BY <1>2, <1>3, <1>4, <1>5
<1>9. joined = {r} \cup {s \in members : other(s)}
    BY <1>2, <1>6
<1>10. (\E s : other(s)) <=> IF part = None THEN \E p \in GetPartitionNames : c \in GetMembersTx(p)
                             ELSE c \in GetMembersTx(part)
    BY PartitionRow DEF GetMembersTx
<1> HIDE DEF joined, other
<1>11. CASE \E s : other(s)
    <2>1. PICK s : other(s)
        BY <1>11
    <2>2. s \in members /\ joined = {r, s} /\ r # s
        BY <1>7, <1>8, <1>9, <2>1 DEF other
    <2>3. Cardinality(joined) = 2
        BY <2>2, OneAndTwo
    <2> QED
        BY <1>10, <1>11, <2>3
<1>12. CASE ~\E s : other(s)
    <2>1. joined = {r}
        BY <1>9, <1>12
    <2>2. Cardinality(joined) = 1
        BY <2>1, OneAndTwo
    <2> QED
        BY <1>10, <1>12, <2>2
<1> QED
    BY <1>11, <1>12

\* A group's members split into those of each partition and those of none, and what
\* is said of a component is what is said of its groups: the statement that counts
\* the rows it joined is right because a component has one row in each group and one
\* in all partitions (hmsds-tx-postgres.go:5099; hmsds-postgres.go:4164).
THEOREM ViewsAgreeHolds == Spec => []ViewsAgree
<1>1. ASSUME GroupsInv, NEW id \in GetGroupLabels
      PROVE  /\ doGroupsGet(None)[id] = doGroupsGet("NULL")[id] \cup
                    UNION {doGroupsGet(p)[id] : p \in GetPartitionNames}
             /\ \A p \in GetPartitionNames :
                    doGroupsGet(p)[id] = doGroupsGet(None)[id] \cap doPartitionsGet[p]
    <2>1. doGroupsGet(None)[id] = GetMembersTx(id)
        BY DEF doGroupsGet, GetGroup
    <2>2. doGroupsGet("NULL")[id] = GetMembersFilterTx(id, None)
        BY DEF doGroupsGet, GetGroup, None
    <2>3. ASSUME NEW p \in GetPartitionNames
          PROVE  doGroupsGet(p)[id] = GetMembersFilterTx(id, p) /\ doPartitionsGet[p] = GetMembersTx(p)
        <3>1. p # None /\ p # "NULL"
            BY IdsAssumption DEF GetPartitionNames, Live
        <3> QED
            BY <3>1 DEF doGroupsGet, GetGroup, doPartitionsGet, GetPartition
    <2>4. \A c : c \in GetMembersFilterTx(id, None) <=>
                   c \in GetMembersTx(id) /\ \A p \in GetPartitionNames : c \notin GetMembersTx(p)
        BY <1>1, FilterFinds
    <2>5. ASSUME NEW p \in GetPartitionNames
          PROVE  GetMembersFilterTx(id, p) = GetMembersTx(id) \cap GetMembersTx(p)
        <3>1. p # None
            BY IdsAssumption DEF GetPartitionNames, Live
        <3>2. \A c : c \in GetMembersFilterTx(id, p) <=> c \in GetMembersTx(id) /\ c \in GetMembersTx(p)
            BY <1>1, <3>1, FilterFinds
        <3> QED
            BY <3>2
    <2>6. UNION {doGroupsGet(p)[id] : p \in GetPartitionNames} =
              {c \in GetMembersTx(id) : \E p \in GetPartitionNames : c \in GetMembersTx(p)}
        BY <2>3, <2>5
    <2>7. GetMembersFilterTx(id, None) =
              {c \in GetMembersTx(id) : \A p \in GetPartitionNames : c \notin GetMembersTx(p)}
        BY <2>4
    <2>8. doGroupsGet(None)[id] = doGroupsGet("NULL")[id] \cup
              UNION {doGroupsGet(p)[id] : p \in GetPartitionNames}
        BY <2>1, <2>2, <2>6, <2>7
    <2> QED
        BY <2>1, <2>3, <2>5, <2>8
<1>2. ASSUME GroupsInv, NEW c \in comps
      PROVE  /\ doMembershipsGet({c})[c].groups = {i \in GetGroupLabels : c \in doGroupMembersGet(i, None)}
             /\ \A p \in GetPartitionNames :
                    c \in doPartitionMembersGet(p) <=> doMembershipsGet({c})[c].part = p
    <2> DEFINE mine == {r.id : r \in {s \in members : s.comp = c}}
               parts == mine \cap GetPartitionNames
    <2>1. /\ doMembershipsGet({c})[c].groups = mine \cap GetGroupLabels
          /\ doMembershipsGet({c})[c].part = IF parts = {} THEN None ELSE CHOOSE i \in parts : TRUE
        BY <1>2 DEF doMembershipsGet, GetMemberships
    <2>2. \A i : i \in mine <=> c \in GetMembersTx(i)
        BY DEF GetMembersTx
    <2>3. \A i, j \in parts : i = j
        BY <1>2, PartitionRow DEF GroupsInv, NoClash, Clash
    <2>4. None \notin GetPartitionNames
        BY IdsAssumption DEF GetPartitionNames, Live
    <2> HIDE DEF mine
    <2>5. mine \cap GetGroupLabels = {i \in GetGroupLabels : c \in doGroupMembersGet(i, None)}
        BY <2>2 DEF doGroupMembersGet, GetGroup
    <2>6. ASSUME NEW p \in GetPartitionNames
          PROVE  c \in GetMembersTx(p) <=> (IF parts = {} THEN None ELSE CHOOSE i \in parts : TRUE) = p
        <3>1. c \in GetMembersTx(p) <=> p \in parts
            BY <2>2
        <3> HIDE DEF parts
        <3> QED
            BY <2>3, <2>4, <3>1
    <2> QED
        BY <2>1, <2>5, <2>6 DEF doPartitionMembersGet, GetPartition
<1>3. GroupsInv => ViewsAgree
    BY <1>1, <1>2 DEF ViewsAgree
<1> QED
    BY <1>3, GroupsInvHolds, PTL

=============================================================================
