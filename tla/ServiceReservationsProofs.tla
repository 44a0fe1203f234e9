--------------------- MODULE ServiceReservationsProofs ---------------------
(***************************************************************************)
(* Theorems about ServiceReservations, for every set of components and     *)
(* clients, every term and window, and whatever is lost, late, repeated or *)
(* restarted.  What a client does with an answer that no longer fits its   *)
(* map rests on the order in which generations are handed out: a client    *)
(* learns of them in that order, and the table never goes back to an older *)
(* one.  That nothing held expires when calls are prompt is a second       *)
(* invariant, on top of the first: what is known of a row is not later     *)
(* than the row, and after its round a loop has what lasts or has asked.   *)
(***************************************************************************)
EXTENDS ServiceReservations, TLAPS

Entries == [gen : Nat, exp : Nat]

-----------------------------------------------------------------------------
(* The invariant                                                           *)

\* The server: the rows, and that nothing lasts longer than the term.
ServerInv ==
    /\ nextGen \in Nat \ {0} /\ now \in Nat /\ present \subseteq Comps
    /\ resv \in [Comps -> Entries]
    /\ \A c \in Comps : /\ resv[c].gen < nextGen /\ resv[c].exp <= now + Term
                        /\ resv[c].gen = 0 => resv[c] = NoResv

\* A value that a client has for c, in its map, a request or an answer.
Fits(c, v) ==
    /\ v \in Entries
    /\ v.gen = 0 => v = NoResv
    /\ v.gen < nextGen /\ v.exp <= now + Term
    /\ Reserved(c) => v.gen <= resv[c].gen
    /\ v.gen # 0 /\ now < v.exp /\ <<c, v.gen>> \notin revoked =>
          resv[c].gen = v.gen /\ v.exp <= resv[c].exp

\* A release is never rigid.
Modes(op) == IF op = "release" THEN {FALSE} ELSE Rigid \cup {FALSE}
Flexible(r) == r.rigid \in Modes(r.op)
IsCall(r) ==
    /\ r = [at |-> r.at, op |-> r.op, rigid |-> r.rigid, comps |-> r.comps,
            entries |-> r.entries, reply |-> r.reply]
    /\ Flexible(r)
    /\ \A c \in Comps : r.entries[c] \in Entries /\ r.reply[c] \in Entries

Shape ==
    /\ map = [a \in Clients |-> [c \in Comps |-> map[a][c]]]
    /\ saved = [a \in Clients |-> saved[a]]
    /\ call = [a \in Clients |-> [th \in Threads |-> call[a][th]]]
    /\ \A a \in Clients, th \in Threads : IsCall(call[a][th])
    /\ \A r \in late : Flexible(r)

AllFit ==
    \A a \in Clients, c \in Comps :
        /\ Fits(c, map[a][c]) /\ Fits(c, saved[a][c])
        /\ \A th \in Threads : Fits(c, call[a][th].entries[c]) /\ Fits(c, call[a][th].reply[c])

\* The answer that the application will put into the map of a for c.
Gets(a, c) ==
    /\ call[a]["app"].at = "replied" /\ call[a]["app"].op \in {"acquire", "renew"}
    /\ call[a]["app"].reply[c].gen # 0
\* The loop has an answer to its check of c.
Checked(a, c) ==
    /\ call[a]["loop"].at = "replied" /\ call[a]["loop"].op = "check"
    /\ call[a]["loop"].reply[c].gen # 0

\* What a client has kept is the oldest, and what it is about to get the newest.
Ordered(a, c) ==
    LET m == map[a][c]
        s == saved[a][c]
        app == call[a]["app"]
        loop == call[a]["loop"]
    IN  /\ m.gen # 0 => s.gen <= m.gen
        /\ loop.entries[c].gen # 0 => s.gen <= loop.entries[c].gen
        /\ Gets(a, c) => /\ s.gen <= app.reply[c].gen
                         /\ m.gen <= app.reply[c].gen
                         /\ loop.entries[c].gen <= app.reply[c].gen
        /\ loop.op = "check" /\ m.gen # 0 => loop.entries[c].gen <= m.gen
        /\ app.at \in {"sent", "replied"} => app.op \in {"acquire", "release", "renew"}
        /\ loop.at \in {"sent", "replied"} => loop.op \in {"check", "renew"}
        /\ app.op = "renew" => app.entries[c].gen \in {0, s.gen}
        /\ Gets(a, c) /\ app.op = "renew" => app.reply[c].gen = app.entries[c].gen
        /\ Checked(a, c) => loop.reply[c].gen = loop.entries[c].gen
        /\ Checked(a, c) /\ m.gen > loop.reply[c].gen => loop.reply[c].exp <= m.exp
        /\ Checked(a, c) /\ Gets(a, c) /\ app.op = "acquire"
              /\ app.reply[c].gen > loop.reply[c].gen =>
                 loop.reply[c].exp <= app.reply[c].exp

AllOrdered == \A a \in Clients, c \in Comps : Ordered(a, c)

\* The generations of c that a client has: no two clients have one.
Has(a, c, g) ==
    \/ map[a][c].gen = g \/ saved[a][c].gen = g
    \/ \E th \in Threads : call[a][th].entries[c].gen = g \/ call[a][th].reply[c].gen = g
Apart ==
    \A a, b \in Clients, c \in Comps, g \in Nat :
        a # b /\ g # 0 => ~(Has(a, c, g) /\ Has(b, c, g))

SRInv == ServerInv /\ Shape /\ AllFit /\ AllOrdered /\ Apart

-----------------------------------------------------------------------------
(* The server                                                              *)

\* What a step of the server may do.
Moves ==
    /\ nextGen <= nextGen' /\ now <= now' /\ revoked \subseteq revoked'
    /\ \A c \in Comps :
        \/ resv'[c].gen = resv[c].gen /\ resv[c].exp <= resv'[c].exp
        \/ ~Reserved(c) /\ resv'[c].gen = nextGen
        \/ /\ resv'[c] = NoResv
           /\ resv[c].exp <= now' \/ <<c, resv[c].gen>> \in revoked'

\* Fits in the next state.
FitsNext(c, v) ==
    /\ v \in Entries
    /\ v.gen = 0 => v = NoResv
    /\ v.gen < nextGen' /\ v.exp <= now' + Term
    /\ Reserved(c)' => v.gen <= resv'[c].gen
    /\ v.gen # 0 /\ now' < v.exp /\ <<c, v.gen>> \notin revoked' =>
          resv'[c].gen = v.gen /\ v.exp <= resv'[c].exp

LEMMA FitsKept ==
    ASSUME ServerInv, ServerInv', Moves, NEW c \in Comps, NEW v, Fits(c, v)
    PROVE  FitsNext(c, v)
<1>1. v \in Entries /\ (v.gen = 0 => v = NoResv) /\ v.gen < nextGen' /\ v.exp <= now' + Term
  BY TermAssumption DEF Fits, ServerInv, Moves, Entries
<1>2. Reserved(c)' => v.gen <= resv'[c].gen
  <2>1. v.gen \in Nat /\ v.gen < nextGen /\ nextGen \in Nat
    BY DEF Fits, ServerInv, Entries
  <2>2. CASE resv'[c].gen = resv[c].gen
    BY <2>2 DEF Fits, Reserved
  <2>3. CASE resv'[c].gen = nextGen
    BY <2>1, <2>3
  <2>4. CASE resv'[c] = NoResv
    BY <2>4 DEF Reserved, NoResv
  <2> QED
    BY <2>2, <2>3, <2>4 DEF Moves
<1>3. ASSUME v.gen # 0, now' < v.exp, <<c, v.gen>> \notin revoked'
      PROVE  resv'[c].gen = v.gen /\ v.exp <= resv'[c].exp
  <2>1. now < v.exp /\ <<c, v.gen>> \notin revoked
    BY <1>3 DEF Fits, ServerInv, Moves, Entries
  <2>2. resv[c].gen = v.gen /\ v.exp <= resv[c].exp
    BY <1>3, <2>1 DEF Fits
  <2>3. resv'[c].gen = resv[c].gen /\ resv[c].exp <= resv'[c].exp
    BY <1>3, <2>2 DEF Fits, ServerInv, Moves, Entries, Reserved
  <2> QED
    BY <2>2, <2>3 DEF ServerInv, Fits, Entries
<1> QED
  BY <1>1, <1>2, <1>3 DEF FitsNext

LEMMA NothingFits ==
    ASSUME ServerInv, NEW c \in Comps
    PROVE  Fits(c, NoResv)
  BY TermAssumption DEF ServerInv, Fits, NoResv, Entries, Reserved

\* What the table has fits.
LEMMA RowFits ==
    ASSUME ServerInv, NEW c \in Comps
    PROVE  Fits(c, resv[c])
  BY DEF ServerInv, Fits, Entries

\* Dropping rows whose time has come or whose keys are revoked.
LEMMA DropMoves ==
    ASSUME ServerInv, NEW ids \in SUBSET Comps, Drop(ids), UNCHANGED <<rows, nextGen, now>>,
           revoked \subseteq revoked',
           \A c \in ids : resv[c].exp <= now \/ <<c, resv[c].gen>> \in revoked'
    PROVE  ServerInv' /\ Moves
<1>1. \A c \in Comps : resv'[c] = IF c \in ids THEN NoResv ELSE resv[c]
  BY DEF Drop
<1>2. NoResv \in Entries /\ NoResv.gen = 0 /\ NoResv.exp = 0
  BY DEF NoResv, Entries
<1>3. ServerInv'
  <2>1. resv' \in [Comps -> Entries]
    BY <1>2 DEF Drop, ServerInv
  <2>2. \A c \in Comps : /\ resv'[c].gen < nextGen /\ resv'[c].exp <= now + Term
                         /\ resv'[c].gen = 0 => resv'[c] = NoResv
    BY <1>1, <1>2, TermAssumption DEF ServerInv
  <2> QED
    BY <2>1, <2>2 DEF ServerInv, rows
<1>4. Moves
  <2>1. \A c \in Comps : resv[c].exp \in Nat
    BY DEF ServerInv, Entries
  <2> QED
    BY <1>1, <2>1 DEF Moves, ServerInv
<1> QED
  BY <1>3, <1>4

LEMMA StayMoves ==
    ASSUME ServerInv, UNCHANGED server, revoked \subseteq revoked'
    PROVE  ServerInv' /\ Moves
<1>1. ServerInv'
  BY DEF ServerInv, server, vars
<1>2. \A c \in Comps : resv[c].exp \in Nat
  BY DEF ServerInv, Entries
<1>3. Moves
  BY <1>2 DEF Moves, ServerInv, server, vars
<1> QED
  BY <1>1, <1>3

LEMMA OwnedIs ==
    ASSUME NEW r, NEW c \in Owned(KeysOf(r))
    PROVE  c \in Comps /\ c \in r.comps /\ Reserved(c) /\ r.entries[c].gen = resv[c].gen
  BY DEF Owned, KeysOf

LEMMA ExecuteMoves ==
    ASSUME ServerInv, NEW r, Flexible(r), Execute(r)
    PROVE  ServerInv' /\ Moves
<1>0. revoked \subseteq revoked'
  BY DEF Execute
<1>1. CASE UNCHANGED server
  BY <1>0, <1>1, StayMoves
<1>2. CASE InsertCompReservations(r.comps, Term, r.rigid)
  <2> DEFINE granted == Granted(r.comps, Term, r.rigid)
  <2>1. granted \subseteq {c \in Comps : ~Reserved(c)}
    BY DEF Granted, ServerInv
  <2>2. Expiry(Term) \in Nat /\ Expiry(Term) <= now + Term
    BY TermAssumption DEF Expiry, Never, ServerInv
  <2>3. /\ \A c \in Comps : resv'[c] = IF c \in granted THEN [gen |-> nextGen, exp |-> Expiry(Term)] ELSE resv[c]
        /\ resv' = [c \in Comps |-> resv'[c]]
        /\ nextGen' = nextGen + 1 /\ UNCHANGED <<rows, now>>
    BY <1>2 DEF InsertCompReservations, Install
  <2> HIDE DEF granted
  <2>4. ServerInv'
    <3>1. \A c \in Comps : /\ resv'[c] \in Entries
                           /\ resv'[c].gen < nextGen' /\ resv'[c].exp <= now' + Term
                           /\ resv'[c].gen = 0 => resv'[c] = NoResv
      BY <2>2, <2>3 DEF ServerInv, Entries
    <3> QED
      BY <2>3, <3>1 DEF ServerInv, rows
  <2>5. Moves
    <3>1. \A c \in Comps : resv[c].exp \in Nat
      BY DEF ServerInv, Entries
    <3>2. \A c \in Comps : c \in granted => ~Reserved(c) /\ resv'[c].gen = nextGen
      BY <2>1, <2>3
    <3>3. \A c \in Comps : c \notin granted => resv'[c].gen = resv[c].gen /\ resv[c].exp <= resv'[c].exp
      BY <2>3, <3>1
    <3> QED
      BY <1>0, <2>3, <3>2, <3>3 DEF Moves, ServerInv
  <2> QED
    BY <2>4, <2>5
<1>3. CASE r.op = "release" /\ DeleteCompReservations(KeysOf(r), FALSE)
  <2> DEFINE ids == Owned(KeysOf(r))
  <2>1. Drop(ids) /\ UNCHANGED <<rows, nextGen, now>>
    BY <1>3 DEF DeleteCompReservations
  <2>2. Found(r) = ids
    BY <1>3 DEF Found, Flexible, Modes
  <2>3. \A c \in ids : c \in Comps /\ <<c, resv[c].gen>> \in revoked'
    <3>1. revoked' = revoked \cup {<<c, resv[c].gen>> : c \in ids}
      BY <1>3, <2>2 DEF Execute
    <3> QED
      BY <3>1, OwnedIs
  <2> QED
    BY <1>0, <2>1, <2>3, DropMoves
<1>4. CASE UpdateCompReservations(KeysOf(r), Term, r.rigid)
  <2> DEFINE renewed == {c \in Owned(KeysOf(r)) : resv[c].exp # Never}
  <2>1. /\ \A c \in Comps : resv'[c] = IF c \in renewed THEN [gen |-> resv[c].gen, exp |-> now + Term] ELSE resv[c]
        /\ resv' = [c \in Comps |-> resv'[c]]
        /\ UNCHANGED <<rows, nextGen, now>>
    BY <1>4 DEF UpdateCompReservations
  <2>2. \A c \in renewed : resv[c].gen # 0
    BY DEF Owned, Reserved
  <2> HIDE DEF renewed
  <2>3. \A c \in Comps : /\ resv'[c] \in Entries
                         /\ resv'[c].gen = resv[c].gen /\ resv[c].exp <= resv'[c].exp
                         /\ resv'[c].exp <= now + Term
                         /\ resv'[c].gen = 0 => resv'[c] = NoResv
    BY <2>1, <2>2, TermAssumption DEF ServerInv, Entries
  <2>4. ServerInv'
    BY <2>1, <2>3 DEF ServerInv, rows
  <2>5. Moves
    BY <1>0, <2>1, <2>3 DEF Moves, ServerInv
  <2> QED
    BY <2>4, <2>5
<1> QED
  BY <1>1, <1>2, <1>3, <1>4 DEF Execute

LEMMA PutIs ==
    ASSUME Shape, NEW a \in Clients, NEW th \in Threads, NEW r, Put(a, th, r)
    PROVE  /\ call' = [x \in Clients |-> [t \in Threads |-> call'[x][t]]]
           /\ \A x \in Clients, t \in Threads :
                 call'[x][t] = IF x = a /\ t = th THEN r ELSE call[x][t]
  BY DEF Shape, Put

-----------------------------------------------------------------------------
(* Frames                                                                  *)

\* A step of the server that answers nobody.
LEMMA ServerKeeps ==
    ASSUME SRInv, ServerInv', Moves, UNCHANGED <<map, saved, call>>,
           \A r \in late' : Flexible(r)
    PROVE  SRInv'
<1>1. Shape'
  BY DEF SRInv, Shape, IsCall, Flexible
<1>2. AllFit'
  <2>1. \A a \in Clients, c \in Comps :
           /\ FitsNext(c, map[a][c]) /\ FitsNext(c, saved[a][c])
           /\ \A th \in Threads : FitsNext(c, call[a][th].entries[c]) /\ FitsNext(c, call[a][th].reply[c])
    BY FitsKept DEF SRInv, AllFit
  <2> QED
    BY <2>1 DEF AllFit, Fits, FitsNext
<1>3. AllOrdered'
  BY DEF SRInv, AllOrdered, Ordered, Gets, Checked
<1>4. Apart'
  BY DEF SRInv, Apart, Has
<1> QED
  BY <1>1, <1>2, <1>3, <1>4 DEF SRInv

\* A step for one client.
OthersSame(a) ==
    /\ map' = [b \in Clients |-> [c \in Comps |-> map'[b][c]]]
    /\ saved' = [b \in Clients |-> saved'[b]]
    /\ call' = [b \in Clients |-> [th \in Threads |-> call'[b][th]]]
    /\ \A b \in Clients \ {a} : /\ \A c \in Comps : map'[b][c] = map[b][c]
                                /\ saved'[b] = saved[b]
                                /\ \A th \in Threads : call'[b][th] = call[b][th]
AllFitNext(a) ==
    \A c \in Comps :
        /\ FitsNext(c, map'[a][c]) /\ FitsNext(c, saved'[a][c])
        /\ \A th \in Threads : FitsNext(c, call'[a][th].entries[c]) /\ FitsNext(c, call'[a][th].reply[c])

LEMMA ActorKeeps ==
    ASSUME SRInv, ServerInv', Moves, NEW a \in Clients, OthersSame(a),
           \A th \in Threads : IsCall(call'[a][th]),
           \A r \in late' : Flexible(r),
           AllFitNext(a),
           \A c \in Comps : Ordered(a, c)',
           \A c \in Comps, g \in Nat : Has(a, c, g)' => g = 0 \/ Has(a, c, g) \/ nextGen <= g
    PROVE  SRInv'
<1>1. Shape'
  <2>1. \A b \in Clients, th \in Threads : IsCall(call'[b][th])
    BY DEF SRInv, Shape, OthersSame
  <2> QED
    BY <2>1 DEF Shape, OthersSame, IsCall, Flexible
<1>2. AllFit'
  <2>1. ASSUME NEW b \in Clients, b # a
        PROVE  AllFitNext(b)
    <3>1. \A c \in Comps :
             /\ FitsNext(c, map[b][c]) /\ FitsNext(c, saved[b][c])
             /\ \A th \in Threads : FitsNext(c, call[b][th].entries[c]) /\ FitsNext(c, call[b][th].reply[c])
      BY FitsKept DEF SRInv, AllFit
    <3> QED
      BY <2>1, <3>1 DEF OthersSame, AllFitNext
  <2>2. \A b \in Clients : AllFitNext(b)
    BY <2>1
  <2> QED
    BY <2>2 DEF AllFitNext, AllFit, Fits, FitsNext
<1>3. AllOrdered'
  <2>1. ASSUME NEW b \in Clients, b # a, NEW c \in Comps
        PROVE  Ordered(b, c)'
    <3>1. "app" \in Threads /\ "loop" \in Threads
      BY DEF Threads
    <3> QED
      <4>1. /\ map'[b][c] = map[b][c] /\ saved'[b][c] = saved[b][c]
            /\ call'[b]["app"] = call[b]["app"] /\ call'[b]["loop"] = call[b]["loop"]
        BY <2>1, <3>1 DEF OthersSame
      <4>2. Ordered(b, c)
        BY DEF SRInv, AllOrdered
      <4> QED
        BY <4>1, <4>2 DEF Ordered, Gets, Checked
  <2> QED
    BY <2>1 DEF AllOrdered
<1>4. Apart'
  <2> SUFFICES ASSUME NEW x \in Clients, NEW y \in Clients, NEW c \in Comps, NEW g \in Nat,
                      x # y, g # 0, Has(x, c, g)', Has(y, c, g)'
               PROVE  FALSE
    BY DEF Apart
  <2>1. ASSUME NEW b \in Clients, b # a, Has(b, c, g)'
        PROVE  Has(b, c, g) /\ g < nextGen
    <3>1. Has(b, c, g)
      BY <2>1 DEF Has, OthersSame
    <3> QED
      BY <3>1 DEF SRInv, AllFit, Fits, Has
  <2>2. nextGen \in Nat
    BY DEF SRInv, ServerInv
  <2>3. CASE x = a
    BY <2>1, <2>2, <2>3 DEF SRInv, Apart
  <2>4. CASE y = a
    BY <2>1, <2>2, <2>4 DEF SRInv, Apart
  <2>5. CASE x # a /\ y # a
    BY <2>1, <2>5 DEF SRInv, Apart
  <2> QED
    BY <2>3, <2>4, <2>5
<1> QED
  BY <1>1, <1>2, <1>3, <1>4 DEF SRInv

\* What is in the map, kept, asked and answered has the fields of an entry.
LEMMA Types ==
    ASSUME SRInv, NEW a \in Clients, NEW c \in Comps
    PROVE  /\ map[a][c] \in Entries /\ saved[a][c] \in Entries
           /\ \A th \in Threads : call[a][th].entries[c] \in Entries /\ call[a][th].reply[c] \in Entries
           /\ Ordered(a, c)
           /\ "app" \in Threads /\ "loop" \in Threads
  BY DEF SRInv, AllFit, Fits, AllOrdered, Threads

LEMMA NothingIs == NoResv \in Entries /\ NoResv.gen = 0 /\ NoResv.exp = 0
  BY DEF NoResv, Entries

LEMMA RequestIs ==
    ASSUME NEW op, NEW rigid, NEW S, NEW es, NEW r, r = Request(op, rigid, S, es),
           rigid \in Modes(op), \A c \in Comps : es[c] \in Entries
    PROVE  /\ IsCall(r) /\ r.at = "sent" /\ r.op = op
           /\ \A c \in Comps : /\ r.entries[c] = IF c \in S THEN es[c] ELSE NoResv
                               /\ r.reply[c] = NoResv
  BY NothingIs DEF Request, IsCall, Flexible, NoEntries

LEMMA IdleIs ==
    /\ IsCall(NoCall) /\ NoCall.at = "idle" /\ NoCall.op = "none"
    /\ \A c \in Comps : NoCall.entries[c] = NoResv /\ NoCall.reply[c] = NoResv
  BY NothingIs DEF NoCall, IsCall, Flexible, Modes, NoEntries

LEMMA AtIs ==
    ASSUME NEW r, IsCall(r), NEW at
    PROVE  /\ IsCall([r EXCEPT !.at = at])
           /\ [r EXCEPT !.at = at] =
                [at |-> at, op |-> r.op, rigid |-> r.rigid, comps |-> r.comps,
                 entries |-> r.entries, reply |-> r.reply]
  BY DEF IsCall, Flexible

LEMMA AnsweredIs ==
    ASSUME NEW r, IsCall(r), NEW at, NEW reply
    PROVE  [r EXCEPT !.at = at, !.reply = reply] =
              [at |-> at, op |-> r.op, rigid |-> r.rigid, comps |-> r.comps,
               entries |-> r.entries, reply |-> reply]
<1>1. PICK q : q = [at |-> at, op |-> r.op, rigid |-> r.rigid, comps |-> r.comps,
                    entries |-> r.entries, reply |-> r.reply]
  OBVIOUS
<1>2. [r EXCEPT !.at = at] = q
  BY <1>1, AtIs
<1>3. [q EXCEPT !.reply = reply] =
         [at |-> at, op |-> r.op, rigid |-> r.rigid, comps |-> r.comps,
          entries |-> r.entries, reply |-> reply]
  BY <1>1
<1>4. [r EXCEPT !.at = at, !.reply = reply] = [[r EXCEPT !.at = at] EXCEPT !.reply = reply]
  OBVIOUS
<1> QED
  BY <1>2, <1>3, <1>4

\* A call of a changes, and maybe its map.
LEMMA PutSame ==
    ASSUME SRInv, NEW a \in Clients, NEW th \in Threads, NEW r, Put(a, th, r), IsCall(r),
           saved' = saved, \/ map' = map
                           \/ \E f : map' = [map EXCEPT ![a] = f] /\ f = [c \in Comps |-> f[c]]
    PROVE  /\ OthersSame(a)
           /\ \A t \in Threads : IsCall(call'[a][t]) /\ (t # th => call'[a][t] = call[a][t])
           /\ call'[a][th] = r
<1>1. /\ call' = [x \in Clients |-> [t \in Threads |-> call'[x][t]]]
      /\ \A x \in Clients, t \in Threads :
            call'[x][t] = IF x = a /\ t = th THEN r ELSE call[x][t]
  BY PutIs DEF SRInv
<1>2. \A t \in Threads : IsCall(call'[a][t]) /\ (t # th => call'[a][t] = call[a][t])
  BY <1>1 DEF SRInv, Shape
<1>3. /\ map' = [b \in Clients |-> [c \in Comps |-> map'[b][c]]]
      /\ \A b \in Clients \ {a}, c \in Comps : map'[b][c] = map[b][c]
  <2>1. CASE map' = map
    BY <2>1 DEF SRInv, Shape
  <2>2. CASE map' # map
    <3>1. PICK f : map' = [map EXCEPT ![a] = f] /\ f = [c \in Comps |-> f[c]]
      BY <2>2
    <3>2. map' = [b \in Clients |-> IF b = a THEN f ELSE map[b]]
      BY <3>1 DEF SRInv, Shape
    <3>3. \A b \in Clients : map'[b] = [c \in Comps |-> map'[b][c]]
      BY <3>1, <3>2 DEF SRInv, Shape
    <3> QED
      BY <3>2, <3>3
  <2> QED
    BY <2>1, <2>2
<1>4. saved' = [b \in Clients |-> saved'[b]]
  BY DEF SRInv, Shape
<1> QED
  BY <1>1, <1>2, <1>3, <1>4 DEF OthersSame

\* The values of a that a step leaves alone fit.
LEMMA OldFit ==
    ASSUME SRInv, ServerInv', Moves, NEW a \in Clients, NEW c \in Comps
    PROVE  /\ FitsNext(c, map[a][c]) /\ FitsNext(c, saved[a][c]) /\ FitsNext(c, NoResv)
           /\ FitsNext(c, resv[c])
           /\ \A th \in Threads : FitsNext(c, call[a][th].entries[c]) /\ FitsNext(c, call[a][th].reply[c])
<1>1. Fits(c, NoResv) /\ Fits(c, resv[c])
  BY NothingFits, RowFits DEF SRInv
<1> QED
  BY <1>1, FitsKept DEF SRInv, AllFit

-----------------------------------------------------------------------------
(* Requests                                                                *)

LEMMA SendKeeps ==
    ASSUME SRInv, NEW a \in Clients, NEW op \in {"acquire", "release", "renew"}, NEW rigid,
           NEW S, NEW es, rigid \in Modes(op),
           \A c \in Comps : \/ es[c] = NoResv \/ es[c] = saved[a][c]
                            \/ es[c] = map[a][c] /\ op # "renew",
           Send(a, Request(op, rigid, S, es))
    PROVE  SRInv'
<1>0. PICK r : r = Request(op, rigid, S, es)
  OBVIOUS
<1>1. UNCHANGED <<server, map, saved, late, revoked>> /\ Put(a, "app", r)
  BY <1>0 DEF Send, client
<1>2. \A c \in Comps : es[c] \in Entries
  BY Types, NothingIs
<1>3. /\ IsCall(r) /\ r.at = "sent" /\ r.op = op
      /\ \A c \in Comps : /\ r.entries[c] = IF c \in S THEN es[c] ELSE NoResv
                          /\ r.reply[c] = NoResv
  BY <1>0, <1>2, RequestIs
<1>4. ServerInv' /\ Moves
  BY <1>1, StayMoves DEF SRInv
<1>5. /\ OthersSame(a) /\ call'[a]["app"] = r
      /\ \A t \in Threads : IsCall(call'[a][t]) /\ (t # "app" => call'[a][t] = call[a][t])
  BY <1>1, <1>3, PutSame DEF Threads
<1>6. AllFitNext(a)
  BY <1>1, <1>3, <1>4, <1>5, OldFit DEF AllFitNext
<1>7. ASSUME NEW c \in Comps
      PROVE  Ordered(a, c)'
  <2>1. call'[a]["loop"] = call[a]["loop"]
    BY <1>5 DEF Threads
  <2>2. /\ map'[a][c] = map[a][c] /\ saved'[a][c] = saved[a][c]
        /\ r.op # "check" /\ (r.op = "renew" => r.entries[c] \in {NoResv, saved[a][c]})
    BY <1>1, <1>3
  <2> QED
    BY <1>3, <1>5, <2>1, <2>2, Types, NothingIs DEF Ordered, Gets, Checked
<1>8. ASSUME NEW c \in Comps, NEW g \in Nat, Has(a, c, g)'
      PROVE  g = 0 \/ Has(a, c, g)
  BY <1>1, <1>3, <1>5, <1>8, NothingIs DEF Has
<1>9. \A x \in late' : Flexible(x)
  BY <1>1 DEF SRInv, Shape
<1> QED
  BY <1>4, <1>5, <1>6, <1>7, <1>8, <1>9, ActorKeeps

LEMMA AppCallKeeps ==
    ASSUME SRInv, NEW a \in Clients, AppCall(a)
    PROVE  SRInv'
<1>1. ASSUME NEW S \in SUBSET Comps, NEW rigid \in Rigid, Aquire(a, S, rigid)
      PROVE  SRInv'
  <2>1. rigid \in Modes("acquire") /\ \A c \in Comps : NoEntries[c] = NoResv
    BY DEF NoEntries, Modes
  <2>2. Send(a, Request("acquire", rigid, S, NoEntries))
    BY <1>1 DEF Aquire
  <2> QED
    BY <2>1, <2>2, SendKeeps
<1>2. ASSUME NEW S \in SUBSET Comps, Release(a, S)
      PROVE  SRInv'
  <2>1. FALSE \in Modes("release")
    BY DEF Modes
  <2> QED
    BY <1>2, <2>1, SendKeeps DEF Release
<1>3. ASSUME NEW rigid \in Rigid, Reacquire(a, rigid)
      PROVE  SRInv'
  <2>1. rigid \in Modes("renew")
    BY DEF Modes
  <2> QED
    BY <1>3, <2>1, SendKeeps DEF Reacquire
<1> QED
  BY <1>1, <1>2, <1>3 DEF AppCall

\* The loop goes on: it may drop entries, and asks about those it has.
LEMMA LoopKeeps ==
    ASSUME SRInv, NEW a \in Clients, NEW r, Put(a, "loop", r), IsCall(r),
           UNCHANGED <<server, saved, late, revoked>>,
           \/ map' = map
           \/ \E f : map' = [map EXCEPT ![a] = f] /\ f = [c \in Comps |-> f[c]],
           \A c \in Comps : map'[a][c] \in {NoResv, map[a][c]},
           r.at # "replied", r.at = "sent" => r.op \in {"check", "renew"},
           \A c \in Comps : r.entries[c] \in {NoResv, map[a][c]} /\ r.reply[c] = NoResv
    PROVE  SRInv'
<1>1. ServerInv' /\ Moves
  BY StayMoves DEF SRInv
<1>2. /\ OthersSame(a) /\ call'[a]["loop"] = r /\ call'[a]["app"] = call[a]["app"]
      /\ \A t \in Threads : IsCall(call'[a][t]) /\ (t # "loop" => call'[a][t] = call[a][t])
  BY PutSame DEF Threads
<1>3. AllFitNext(a)
  BY <1>1, <1>2, OldFit DEF AllFitNext
<1>4. ASSUME NEW c \in Comps
      PROVE  Ordered(a, c)'
  <2>1. map'[a][c] \in {NoResv, map[a][c]} /\ saved'[a][c] = saved[a][c]
        /\ r.entries[c] \in {NoResv, map[a][c]}
    OBVIOUS
  <2> QED
    BY <1>2, <2>1, Types, NothingIs DEF Ordered, Gets, Checked, Entries
<1>5. ASSUME NEW c \in Comps, NEW g \in Nat, Has(a, c, g)'
      PROVE  g = 0 \/ Has(a, c, g)
  BY <1>2, <1>5, NothingIs DEF Has
<1>6. \A x \in late' : Flexible(x)
  BY DEF SRInv, Shape
<1> QED
  BY <1>1, <1>2, <1>3, <1>4, <1>5, <1>6, ActorKeeps

LEMMA LoopStepKeeps ==
    ASSUME SRInv, NEW a \in Clients, Loop(a)
    PROVE  SRInv'
<1>0. PICK no : no = FALSE
  OBVIOUS
<1> no \in Modes("check") /\ no \in Modes("renew") /\ \A c \in Comps : map[a][c] \in Entries
  BY <1>0, Types DEF Modes
<1>1. CASE LoopCheck(a)
  <2>1. PICK r : r = Request("check", no, Known(map[a]), map[a])
    OBVIOUS
  <2>2. UNCHANGED <<server, map, saved, late, revoked>> /\ Put(a, "loop", r)
    BY <1>0, <1>1, <2>1 DEF LoopCheck, client
  <2>3. /\ IsCall(r) /\ r.at = "sent" /\ r.op = "check"
        /\ \A c \in Comps : r.entries[c] \in {NoResv, map[a][c]} /\ r.reply[c] = NoResv
    BY <2>1, RequestIs
  <2> QED
    BY <2>2, <2>3, LoopKeeps
<1>2. CASE LoopNothing(a)
  <2>1. ServerInv' /\ Moves
    BY <1>2, StayMoves DEF SRInv, LoopNothing
  <2>2. UNCHANGED <<map, saved, call, late>>
    BY <1>2 DEF LoopNothing
  <2> QED
    BY <2>1, <2>2, ServerKeeps DEF SRInv, Shape
<1>3. CASE LoopScan(a)
  <2> DEFINE expired    == {c \in Known(map[a]) : map[a][c].exp < now}
             candidates == {c \in Known(map[a]) \ expired : Due(map[a][c])}
             f == [c \in Comps |-> IF c \in expired THEN NoResv ELSE map[a][c]]
  <2>1. PICK r : r = IF candidates = {} THEN NoCall ELSE Request("renew", no, candidates, map[a])
    OBVIOUS
  <2>2. UNCHANGED <<server, saved, late, revoked>> /\ Put(a, "loop", r) /\ map' = [map EXCEPT ![a] = f]
    BY <1>0, <1>3, <2>1 DEF LoopScan
  <2>3. map'[a] = f
    BY <2>2 DEF SRInv, Shape
  <2>4. /\ IsCall(r) /\ r.at # "replied" /\ (r.at = "sent" => r.op = "renew")
        /\ \A c \in Comps : r.entries[c] \in {NoResv, map[a][c]} /\ r.reply[c] = NoResv
    <3>1. CASE r = NoCall
      BY <3>1, IdleIs
    <3>2. CASE r = Request("renew", no, candidates, map[a])
      <4> HIDE DEF candidates
      <4> QED
        BY <3>2, RequestIs
    <3> QED
      BY <2>1, <3>1, <3>2
  <2>5. \A c \in Comps : map'[a][c] \in {NoResv, map[a][c]}
    BY <2>3
  <2>6. f = [c \in Comps |-> f[c]]
    OBVIOUS
  <2> HIDE DEF f
  <2> QED
    BY <2>2, <2>4, <2>5, <2>6, LoopKeeps
<1> QED
  BY <1>1, <1>2, <1>3 DEF Loop

\* An answer or a call is given up.
LEMMA ForgetKeeps ==
    ASSUME SRInv, NEW a \in Clients, NEW th \in Threads, NEW r, Put(a, th, r), IsCall(r),
           UNCHANGED <<server, map, saved, revoked>>, \A x \in late' : Flexible(x),
           r.at # "replied",
           \/ r.at # "sent" /\ r.op = "none"
           \/ r.op = call[a][th].op /\ call[a][th].at \in {"sent", "replied"},
           \A c \in Comps : r.entries[c] \in {NoResv, call[a][th].entries[c]} /\ r.reply[c] = NoResv
    PROVE  SRInv'
<1>1. ServerInv' /\ Moves
  BY StayMoves DEF SRInv
<1>2. /\ OthersSame(a) /\ call'[a][th] = r
      /\ \A t \in Threads : IsCall(call'[a][t]) /\ (t # th => call'[a][t] = call[a][t])
  BY PutSame
<1>3. AllFitNext(a)
  BY <1>1, <1>2, OldFit DEF AllFitNext
<1>4. ASSUME NEW c \in Comps
      PROVE  Ordered(a, c)'
  <2>1. map'[a][c] = map[a][c] /\ saved'[a][c] = saved[a][c]
    OBVIOUS
  <2>2. CASE th = "app"
    <3>1. call'[a]["app"] = r /\ call'[a]["loop"] = call[a]["loop"]
      BY <1>2, <2>2 DEF Threads
    <3> QED
      BY <2>1, <2>2, <3>1, Types, NothingIs DEF Ordered, Gets, Checked, Entries
  <2>3. CASE th = "loop"
    <3>1. call'[a]["loop"] = r /\ call'[a]["app"] = call[a]["app"]
      BY <1>2, <2>3 DEF Threads
    <3> QED
      BY <2>1, <2>3, <3>1, Types, NothingIs DEF Ordered, Gets, Checked, Entries
  <2> QED
    BY <2>2, <2>3 DEF Threads
<1>5. ASSUME NEW c \in Comps, NEW g \in Nat, Has(a, c, g)'
      PROVE  g = 0 \/ Has(a, c, g)
  BY <1>2, <1>5, NothingIs DEF Has
<1> QED
  BY <1>1, <1>2, <1>3, <1>4, <1>5, ActorKeeps

\* What a call is when it has returned.
LEMMA ReturnIs ==
    ASSUME NEW a \in Clients, NEW th \in Threads, Return(a, th)
    PROVE  \E r : /\ Put(a, th, r) /\ IsCall(r) /\ r.at \in {"idle", "scan"} /\ r.op = "none"
                  /\ \A c \in Comps : r.entries[c] = NoResv /\ r.reply[c] = NoResv
<1>1. CASE Put(a, th, NoCall)
  BY <1>1, IdleIs
<1>2. CASE Put(a, th, [NoCall EXCEPT !.at = "scan"])
  <2>1. PICK r : r = [NoCall EXCEPT !.at = "scan"]
    OBVIOUS
  <2>2. /\ IsCall(r) /\ r.at = "scan" /\ r.op = "none"
        /\ \A c \in Comps : r.entries[c] = NoResv /\ r.reply[c] = NoResv
    <3>1. IsCall(r)
      BY <2>1, AtIs, IdleIs
    <3>2. r = [at |-> "scan", op |-> NoCall.op, rigid |-> NoCall.rigid, comps |-> NoCall.comps,
               entries |-> NoCall.entries, reply |-> NoCall.reply]
      BY <2>1, AtIs, IdleIs
    <3> QED
      BY <3>1, <3>2, IdleIs
  <2> QED
    BY <1>2, <2>1, <2>2
<1> QED
  BY <1>1, <1>2 DEF Return

LEMMA TimeOutKeeps ==
    ASSUME SRInv, NEW a \in Clients, NEW th \in Threads, TimeOut(a, th)
    PROVE  SRInv'
<1>1. PICK r : /\ Put(a, th, r) /\ IsCall(r) /\ r.at \in {"idle", "scan"} /\ r.op = "none"
               /\ \A c \in Comps : r.entries[c] = NoResv /\ r.reply[c] = NoResv
  BY ReturnIs DEF TimeOut
<1>2. UNCHANGED <<server, map, saved, revoked>>
  BY DEF TimeOut, client
<1>3. \A x \in late' : Flexible(x)
  <2>1. Flexible(call[a][th]) /\ \A x \in late : Flexible(x)
    BY DEF SRInv, Shape, IsCall
  <2>2. late' \subseteq late \cup {call[a][th]}
    BY DEF TimeOut
  <2> QED
    BY <2>1, <2>2
<1> QED
  BY <1>1, <1>2, <1>3, ForgetKeeps

LEMMA RetryKeeps ==
    ASSUME SRInv, NEW a \in Clients, NEW th \in Threads, Retry(a, th)
    PROVE  SRInv'
<1>1. PICK r : r = [call[a][th] EXCEPT !.at = "sent", !.reply = NoEntries]
  OBVIOUS
<1>2. Put(a, th, r) /\ UNCHANGED <<server, map, saved, late, revoked>> /\ call[a][th].at = "replied"
  BY <1>1 DEF Retry, client
<1>3. /\ IsCall(r) /\ r.at = "sent" /\ r.op = call[a][th].op
      /\ \A c \in Comps : r.entries[c] = call[a][th].entries[c] /\ r.reply[c] = NoResv
  <2>1. IsCall(call[a][th]) /\ \A c \in Comps : NoEntries[c] = NoResv
    BY DEF SRInv, Shape, NoEntries
  <2>2. r = [at |-> "sent", op |-> call[a][th].op, rigid |-> call[a][th].rigid,
             comps |-> call[a][th].comps, entries |-> call[a][th].entries, reply |-> NoEntries]
    BY <1>1, <2>1, AnsweredIs
  <2> QED
    BY <2>1, <2>2, NothingIs DEF IsCall, Flexible
<1>4. \A x \in late' : Flexible(x)
  BY <1>2 DEF SRInv, Shape
<1> QED
  BY <1>2, <1>3, <1>4, ForgetKeeps

LEMMA RestartKeeps ==
    ASSUME SRInv, NEW a \in Clients, Restart(a)
    PROVE  SRInv'
<1>1. ServerInv' /\ Moves
  BY StayMoves DEF SRInv, Restart
<1>2. /\ map' = [map EXCEPT ![a] = NoEntries] /\ saved' = [saved EXCEPT ![a] = map[a]]
      /\ call' = [call EXCEPT ![a] = [th \in Threads |-> NoCall]] /\ late' = late
  BY DEF Restart
<1>3. NoEntries = [c \in Comps |-> NoEntries[c]] /\ \A c \in Comps : NoEntries[c] = NoResv
  BY DEF NoEntries
<1>4. /\ map'[a] = NoEntries /\ saved'[a] = map[a]
      /\ \A th \in Threads : call'[a][th] = NoCall
  BY <1>2 DEF SRInv, Shape
<1>5. OthersSame(a)
  <2>1. /\ saved' = [b \in Clients |-> saved'[b]]
        /\ map' = [b \in Clients |-> IF b = a THEN NoEntries ELSE map[b]]
        /\ call' = [b \in Clients |-> IF b = a THEN [th \in Threads |-> NoCall] ELSE call[b]]
        /\ \A b \in Clients \ {a} : saved'[b] = saved[b]
    BY <1>2 DEF SRInv, Shape
  <2>2. \A b \in Clients : /\ map'[b] = [c \in Comps |-> map'[b][c]]
                           /\ call'[b] = [th \in Threads |-> call'[b][th]]
    BY <1>3, <2>1 DEF SRInv, Shape
  <2> QED
    BY <2>1, <2>2 DEF OthersSame
<1>6. AllFitNext(a)
  BY <1>1, <1>3, <1>4, IdleIs, OldFit DEF AllFitNext
<1>7. ASSUME NEW c \in Comps
      PROVE  Ordered(a, c)'
  BY <1>3, <1>4, IdleIs, NothingIs, Types DEF Ordered, Gets, Checked, Entries
<1>8. ASSUME NEW c \in Comps, NEW g \in Nat, Has(a, c, g)'
      PROVE  g = 0 \/ Has(a, c, g)
  BY <1>3, <1>4, <1>8, IdleIs, NothingIs DEF Has
<1>9. (\A th \in Threads : IsCall(call'[a][th])) /\ \A x \in late' : Flexible(x)
  BY <1>2, <1>4, IdleIs DEF SRInv, Shape
<1> QED
  BY <1>1, <1>5, <1>6, <1>7, <1>8, <1>9, ActorKeeps

-----------------------------------------------------------------------------
(* Answers                                                                 *)

\* The application puts into the map what it gets: never older than what is there, or
\* than what the loop asks about.
LEMMA AppApplies ==
    ASSUME SRInv, NEW a \in Clients, NEW c \in Comps,
           NEW new, new = AppliedTo(a, call[a]["app"], "app", c),
           call[a]["app"].at = "replied"
    PROVE  \/ new \in {NoResv, map[a][c]}
           \/ /\ Gets(a, c)
              /\ \/ call[a]["app"].op = "acquire" /\ new = call[a]["app"].reply[c]
                 \/ call[a]["app"].op = "renew" /\ new = call[a]["app"].entries[c]
<1> DEFINE r == call[a]["app"]
<1>1. r.op \in {"acquire", "release", "renew"} /\ (r.reply[c] # NoResv => r.reply[c].gen # 0)
  BY Types DEF SRInv, AllFit, Fits, Ordered
<1>2. CASE c \notin r.comps
  BY <1>2 DEF AppliedTo
<1>3. CASE c \in r.comps /\ r.op = "acquire"
  <2>1. new \in {map[a][c], r.reply[c]} /\ (r.reply[c] = NoResv => new = map[a][c])
    BY <1>3 DEF AppliedTo
  <2> QED
    BY <1>1, <1>3, <2>1 DEF Gets
<1>4. CASE c \in r.comps /\ r.op = "release"
  BY <1>4 DEF AppliedTo
<1>5. CASE c \in r.comps /\ r.op = "renew"
  <2>1. new = IF r.reply[c] = NoResv THEN map[a][c] ELSE r.entries[c]
    BY <1>5 DEF AppliedTo
  <2> QED
    BY <1>1, <1>5, <2>1 DEF Gets
<1> QED
  BY <1>1, <1>2, <1>3, <1>4, <1>5

\* The loop drops entries, or takes over the expiration of its answer, which is of the
\* key in the map or ends before that one does.
LEMMA LoopApplies ==
    ASSUME SRInv, NEW a \in Clients, NEW c \in Comps,
           NEW new, new = AppliedTo(a, call[a]["loop"], "loop", c),
           call[a]["loop"].at = "replied"
    PROVE  /\ Fits(c, new) /\ new.gen \in {0, map[a][c].gen}
           /\ new.gen # 0 /\ ~Checked(a, c) => new = map[a][c]
<1> DEFINE r == call[a]["loop"]
           m == map[a][c]
<1>1. /\ r.op \in {"check", "renew"} /\ (r.reply[c] # NoResv => r.reply[c].gen # 0)
      /\ (m # NoResv => m.gen # 0)
      /\ Fits(c, m) /\ Fits(c, r.reply[c]) /\ Fits(c, NoResv)
      /\ m \in Entries /\ r.reply[c] \in Entries
  BY Types, NothingFits DEF SRInv, AllFit, Fits, Ordered
<1>2. CASE c \notin r.comps
  BY <1>1, <1>2 DEF AppliedTo
<1>3. CASE c \in r.comps /\ r.op = "renew"
  <2>1. new = IF r.reply[c] = NoResv THEN NoResv ELSE m
    BY <1>3 DEF AppliedTo
  <2> QED
    BY <1>1, <2>1, NothingIs
<1>4. CASE c \in r.comps /\ r.op = "check"
  <2>1. new = IF r.reply[c] = NoResv \/ m = NoResv THEN NoResv ELSE [m EXCEPT !.exp = r.reply[c].exp]
    BY <1>4 DEF AppliedTo
  <2>2. CASE r.reply[c] = NoResv \/ m = NoResv
    BY <1>1, <2>1, <2>2, NothingIs
  <2>3. CASE r.reply[c] # NoResv /\ m # NoResv
    <3>1. new = [gen |-> m.gen, exp |-> r.reply[c].exp]
      BY <1>1, <2>1, <2>3 DEF Entries
    <3>2. Checked(a, c) /\ r.reply[c].gen <= m.gen
      BY <1>1, <1>4, <2>3, Types DEF Checked, Ordered
    <3>3. CASE r.reply[c].gen = m.gen
      <4>1. new = r.reply[c]
        BY <1>1, <3>1, <3>3 DEF Entries
      <4> QED
        BY <1>1, <3>2, <3>3, <4>1
    <3>4. CASE r.reply[c].gen < m.gen
      <4>1. r.reply[c].exp <= m.exp
        BY <1>1, <3>2, <3>4, Types DEF Ordered, Entries
      <4>2. new \in Entries /\ new.gen = m.gen /\ new.gen # 0 /\ new.exp <= m.exp
        BY <1>1, <2>3, <3>1, <4>1 DEF Entries
      <4>3. new.exp <= now + Term
        BY <1>1 , <3>1 DEF Fits
      <4>4. \A k \in Comps : resv[k].exp \in Nat
        BY DEF SRInv, ServerInv, Entries
      <4>5. Fits(c, new)
        BY <1>1, <4>2, <4>3, <4>4 DEF Fits, Entries, SRInv, ServerInv
      <4> QED
        BY <3>2, <4>2, <4>5
    <3> QED
      BY <1>1, <3>2, <3>3, <3>4 DEF Entries
  <2> QED
    BY <2>2, <2>3
<1> QED
  BY <1>1, <1>2, <1>3, <1>4

LEMMA AppReceiveKeeps ==
    ASSUME SRInv, NEW a \in Clients, Receive(a, "app")
    PROVE  SRInv'
<1> DEFINE f == Applied(a, call[a]["app"], "app")
<1>1. PICK r : /\ Put(a, "app", r) /\ IsCall(r) /\ r.at \in {"idle", "scan"} /\ r.op = "none"
               /\ \A c \in Comps : r.entries[c] = NoResv /\ r.reply[c] = NoResv
  BY ReturnIs DEF Receive, Threads
<1>2. /\ UNCHANGED <<server, saved, late, revoked>> /\ map' = [map EXCEPT ![a] = f]
      /\ call[a]["app"].at = "replied" /\ f = [c \in Comps |-> f[c]]
  BY DEF Receive, Applied
<1>3. map'[a] = f
  BY <1>2 DEF SRInv, Shape
<1> HIDE DEF f
<1>4. ServerInv' /\ Moves
  BY <1>2, StayMoves DEF SRInv
<1>5. /\ OthersSame(a) /\ call'[a]["app"] = r /\ call'[a]["loop"] = call[a]["loop"]
      /\ \A t \in Threads : IsCall(call'[a][t]) /\ (t # "app" => call'[a][t] = call[a][t])
  BY <1>1, <1>2, PutSame DEF Threads
<1>6. \A c \in Comps :
         \/ map'[a][c] \in {NoResv, map[a][c]}
         \/ /\ Gets(a, c)
            /\ \/ call[a]["app"].op = "acquire" /\ map'[a][c] = call[a]["app"].reply[c]
               \/ call[a]["app"].op = "renew" /\ map'[a][c] = call[a]["app"].entries[c]
  BY <1>2, <1>3, AppApplies DEF f, Applied
<1>7. AllFitNext(a)
  BY <1>1, <1>2, <1>4, <1>5, <1>6, OldFit DEF AllFitNext, Threads
<1>8. ASSUME NEW c \in Comps
      PROVE  Ordered(a, c)'
  <2>1. saved'[a][c] = saved[a][c] /\ ~Gets(a, c)' /\ (Checked(a, c)' <=> Checked(a, c))
    BY <1>1, <1>2, <1>5 DEF Gets, Checked
  <2>2. CASE map'[a][c] \in {NoResv, map[a][c]}
    BY <1>1, <1>5, <2>1, <2>2, Types, NothingIs DEF Ordered, Entries
  <2>3. CASE Gets(a, c) /\ call[a]["app"].op = "acquire" /\ map'[a][c] = call[a]["app"].reply[c]
    BY <1>1, <1>5, <2>1, <2>3, Types, NothingIs DEF Ordered, Entries
  <2>4. CASE Gets(a, c) /\ call[a]["app"].op = "renew" /\ map'[a][c] = call[a]["app"].entries[c]
    <3>1. /\ map'[a][c].gen = saved[a][c].gen /\ map'[a][c].gen = call[a]["app"].reply[c].gen
          /\ map'[a][c].gen # 0
      BY <2>4, Types DEF Ordered, Gets
    <3>2. Checked(a, c) => call[a]["loop"].reply[c].gen = call[a]["loop"].entries[c].gen
                           /\ call[a]["loop"].entries[c].gen # 0
      BY Types DEF Ordered, Checked
    <3>3. /\ call[a]["loop"].entries[c].gen <= map'[a][c].gen
          /\ Checked(a, c) => map'[a][c].gen <= call[a]["loop"].reply[c].gen
      BY <2>4, <3>1, <3>2, Types DEF Ordered
    <3>4. /\ map'[a][c].gen \in Nat /\ call[a]["loop"].reply[c].gen \in Nat
          /\ saved[a][c].gen <= map'[a][c].gen
      BY <3>1, Types DEF Entries
    <3>5. ~(Checked(a, c) /\ map'[a][c].gen > call[a]["loop"].reply[c].gen)
      BY <3>3, <3>4
    <3> QED
      BY <1>1, <1>5, <2>1, <3>1, <3>3, <3>4, <3>5, Types, NothingIs DEF Ordered
  <2> QED
    BY <1>6, <2>2, <2>3, <2>4
<1>9. ASSUME NEW c \in Comps, NEW g \in Nat, Has(a, c, g)'
      PROVE  g = 0 \/ Has(a, c, g)
  BY <1>1, <1>2, <1>5, <1>6, <1>9, NothingIs DEF Has, Threads
<1>10. \A x \in late' : Flexible(x)
  BY <1>2 DEF SRInv, Shape
<1> QED
  BY <1>4, <1>5, <1>7, <1>8, <1>9, <1>10, ActorKeeps

LEMMA LoopReceiveKeeps ==
    ASSUME SRInv, NEW a \in Clients, Receive(a, "loop")
    PROVE  SRInv'
<1> DEFINE f == Applied(a, call[a]["loop"], "loop")
<1>1. PICK r : /\ Put(a, "loop", r) /\ IsCall(r) /\ r.at \in {"idle", "scan"} /\ r.op = "none"
               /\ \A c \in Comps : r.entries[c] = NoResv /\ r.reply[c] = NoResv
  BY ReturnIs DEF Receive, Threads
<1>2. /\ UNCHANGED <<server, saved, late, revoked>> /\ map' = [map EXCEPT ![a] = f]
      /\ call[a]["loop"].at = "replied" /\ f = [c \in Comps |-> f[c]]
  BY DEF Receive, Applied
<1>3. map'[a] = f
  BY <1>2 DEF SRInv, Shape
<1> HIDE DEF f
<1>4. ServerInv' /\ Moves
  BY <1>2, StayMoves DEF SRInv
<1>5. /\ OthersSame(a) /\ call'[a]["loop"] = r /\ call'[a]["app"] = call[a]["app"]
      /\ \A t \in Threads : IsCall(call'[a][t]) /\ (t # "loop" => call'[a][t] = call[a][t])
  BY <1>1, <1>2, PutSame DEF Threads
<1>6. \A c \in Comps : Fits(c, f[c]) /\ f[c].gen \in {0, map[a][c].gen}
  BY <1>2, LoopApplies DEF f, Applied
<1>7. AllFitNext(a)
  <2>1. \A c \in Comps : FitsNext(c, f[c])
    BY <1>4, <1>6, FitsKept DEF SRInv
  <2> QED
    BY <1>1, <1>2, <1>3, <1>4, <1>5, <2>1, OldFit DEF AllFitNext, Threads
<1>8. ASSUME NEW c \in Comps
      PROVE  Ordered(a, c)'
  <2>1. /\ saved'[a][c] = saved[a][c] /\ map'[a][c].gen \in {0, map[a][c].gen}
        /\ ~Checked(a, c)' /\ (Gets(a, c)' <=> Gets(a, c))
    BY <1>1, <1>2, <1>3, <1>5, <1>6 DEF Gets, Checked
  <2> QED
    BY <1>1, <1>5, <2>1, Types, NothingIs DEF Ordered, Entries
<1>9. ASSUME NEW c \in Comps, NEW g \in Nat, Has(a, c, g)'
      PROVE  g = 0 \/ Has(a, c, g)
  BY <1>1, <1>2, <1>3, <1>5, <1>6, <1>9, NothingIs DEF Has, Threads
<1>10. \A x \in late' : Flexible(x)
  BY <1>2 DEF SRInv, Shape
<1> QED
  BY <1>4, <1>5, <1>7, <1>8, <1>9, <1>10, ActorKeeps

-----------------------------------------------------------------------------
(* Service                                                                 *)

LEMMA AnswerIs ==
    ASSUME NEW r, NEW c \in Comps, NEW v, v = Answer(r)[c]
    PROVE  \/ v = NoResv
           \/ /\ r.op = "acquire" /\ c \in Granted(r.comps, Term, r.rigid)
              /\ v = [gen |-> nextGen, exp |-> now + Term]
           \/ /\ r.op # "acquire" /\ c \in Owned(KeysOf(r)) /\ v = resv[c]
  BY DEF Answer, Found

\* What is granted is in the table, under a new generation.
LEMMA GrantFits ==
    ASSUME ServerInv, ServerInv', NEW r, r.op = "acquire", Execute(r), NEW c \in Comps,
           c \in Granted(r.comps, Term, r.rigid)
    PROVE  FitsNext(c, [gen |-> nextGen, exp |-> now + Term])
<1>1. Answer(r)[c].gen = nextGen /\ nextGen # 0
  BY DEF Answer, ServerInv
<1>2. Known(Answer(r)) # {}
  BY <1>1 DEF Known
<1>3. InsertCompReservations(r.comps, Term, r.rigid)
  BY <1>2 DEF Execute
<1>4. /\ resv'[c] = [gen |-> nextGen, exp |-> Expiry(Term)]
      /\ nextGen' = nextGen + 1 /\ now' = now
  BY <1>3 DEF InsertCompReservations, Install
<1>5. now + Term \in Nat /\ nextGen \in Nat \ {0} /\ now \in Nat
  BY TermAssumption DEF ServerInv
<1>6. now < now + Term => Expiry(Term) = now + Term
  BY <1>5, TermAssumption DEF Expiry
<1> QED
  BY <1>4, <1>5, <1>6 DEF FitsNext, Entries, Reserved

LEMMA ServeKeeps ==
    ASSUME SRInv, NEW a \in Clients, NEW th \in Threads, Serve(a, th)
    PROVE  SRInv'
<1>1. PICK q : q = call[a][th]
  OBVIOUS
<1>2. PICK r : r = [q EXCEPT !.at = "replied", !.reply = Answer(q)]
  OBVIOUS
<1>3. /\ Put(a, th, r) /\ q.at = "sent" /\ Execute(q)
      /\ UNCHANGED <<map, saved, late>>
  BY <1>1, <1>2 DEF Serve, client
<1>4. IsCall(q) /\ Flexible(q)
  BY <1>1 DEF SRInv, Shape, IsCall
<1>5. ServerInv' /\ Moves
  BY <1>3, <1>4, ExecuteMoves DEF SRInv
<1>6. /\ r = [at |-> "replied", op |-> q.op, rigid |-> q.rigid, comps |-> q.comps,
              entries |-> q.entries, reply |-> Answer(q)]
  BY <1>2, <1>4, AnsweredIs
<1>7. \A c \in Comps :
         \/ r.reply[c] = NoResv
         \/ /\ q.op = "acquire" /\ c \in Granted(q.comps, Term, q.rigid)
            /\ r.reply[c] = [gen |-> nextGen, exp |-> now + Term]
         \/ /\ q.op # "acquire" /\ c \in Owned(KeysOf(q)) /\ r.reply[c] = resv[c]
  BY <1>6, AnswerIs
<1>8. nextGen \in Nat /\ now + Term \in Nat /\ \A c \in Comps : resv[c] \in Entries
  BY TermAssumption DEF SRInv, ServerInv
<1>9. IsCall(r)
  BY <1>4, <1>6, <1>7, <1>8, NothingIs DEF IsCall, Flexible, Entries
<1>10. /\ OthersSame(a) /\ call'[a][th] = r
       /\ \A t \in Threads : IsCall(call'[a][t]) /\ (t # th => call'[a][t] = call[a][t])
  BY <1>3, <1>9, PutSame
<1>11. AllFitNext(a)
  <2>1. \A c \in Comps : FitsNext(c, r.reply[c])
    BY <1>3, <1>5, <1>7, OldFit, GrantFits DEF SRInv
  <2> QED
    BY <1>1, <1>3, <1>5, <1>6, <1>10, <2>1, OldFit DEF AllFitNext
<1>12. ASSUME NEW c \in Comps, c \in Owned(KeysOf(q))
       PROVE  /\ Reserved(c) /\ resv[c].gen = q.entries[c].gen
              /\ map[a][c].gen <= resv[c].gen /\ saved[a][c].gen <= resv[c].gen
              /\ \A t \in Threads : /\ call[a][t].entries[c].gen <= resv[c].gen
                                    /\ call[a][t].reply[c].gen <= resv[c].gen
  BY <1>12, OwnedIs DEF SRInv, AllFit, Fits
<1>13. ASSUME NEW c \in Comps
       PROVE  /\ map[a][c].gen <= nextGen /\ saved[a][c].gen <= nextGen
              /\ \A t \in Threads : /\ call[a][t].entries[c].gen <= nextGen
                                    /\ call[a][t].reply[c].exp <= now + Term
  <2>1. /\ Fits(c, map[a][c]) /\ Fits(c, saved[a][c])
        /\ \A t \in Threads : Fits(c, call[a][t].entries[c]) /\ Fits(c, call[a][t].reply[c])
    BY DEF SRInv, AllFit
  <2>2. ASSUME NEW v, Fits(c, v)
        PROVE  v.gen <= nextGen /\ v.exp <= now + Term
    BY <1>8, <2>2 DEF Fits, Entries
  <2> QED
    BY <2>1, <2>2
<1>14. ASSUME NEW c \in Comps
       PROVE  Ordered(a, c)'
  <2>0. map'[a][c] = map[a][c] /\ saved'[a][c] = saved[a][c]
    BY <1>3
  <2>1. CASE th = "app"
    <3>1. call'[a]["app"] = r /\ call'[a]["loop"] = call[a]["loop"] /\ q = call[a]["app"]
      BY <1>1, <1>10, <2>1 DEF Threads
    <3>2. Checked(a, c)' <=> Checked(a, c)
      BY <3>1 DEF Checked
    <3>3. CASE r.reply[c] = NoResv
      BY <1>3, <1>6, <2>0, <3>1, <3>2, <3>3, Types, NothingIs DEF Ordered, Gets
    <3>4. CASE q.op = "acquire" /\ r.reply[c] = [gen |-> nextGen, exp |-> now + Term]
      BY <1>3, <1>6, <1>13, <2>0, <3>1, <3>2, <3>4, Types, NothingIs DEF Ordered, Gets
    <3>5. CASE q.op # "acquire" /\ c \in Owned(KeysOf(q)) /\ r.reply[c] = resv[c]
      BY <1>3, <1>6, <1>12, <2>0, <3>1, <3>2, <3>5, Types, NothingIs DEF Ordered, Gets
    <3> QED
      BY <1>7, <3>3, <3>4, <3>5
  <2>2. CASE th = "loop"
    <3>1. call'[a]["loop"] = r /\ call'[a]["app"] = call[a]["app"] /\ q = call[a]["loop"]
      BY <1>1, <1>10, <2>2 DEF Threads
    <3>2. (Gets(a, c)' <=> Gets(a, c)) /\ q.op # "acquire"
      BY <1>3, <3>1, Types DEF Gets, Ordered
    <3>3. CASE r.reply[c] = NoResv
      BY <1>3, <1>6, <2>0, <3>1, <3>2, <3>3, Types, NothingIs DEF Ordered, Checked
    <3>4. CASE c \in Owned(KeysOf(q)) /\ r.reply[c] = resv[c]
      <4>1. /\ r.reply[c].gen = q.entries[c].gen
            /\ ~(map[a][c].gen > r.reply[c].gen)
            /\ ~(call[a]["app"].reply[c].gen > r.reply[c].gen)
        BY <1>8, <1>12, <3>4, Types DEF Entries
      <4>2. r.entries = q.entries /\ r.op = q.op /\ r.at = "replied" /\ q.at = "sent"
        BY <1>3, <1>6
      <4>3. Ordered(a, c)
        BY Types
      <4> QED
        BY <2>0, <3>1, <3>2, <4>1, <4>2, <4>3 DEF Ordered, Checked
    <3> QED
      BY <1>7, <3>2, <3>3, <3>4
  <2> QED
    BY <2>1, <2>2 DEF Threads
<1>15. ASSUME NEW c \in Comps, NEW g \in Nat, Has(a, c, g)'
       PROVE  g = 0 \/ Has(a, c, g) \/ nextGen <= g
  <2>1. r.reply[c].gen \in {0, nextGen, q.entries[c].gen}
    BY <1>7, <1>12, NothingIs
  <2> QED
    BY <1>1, <1>3, <1>6, <1>8, <1>10, <1>15, <2>1 DEF Has
<1>16. \A x \in late' : Flexible(x)
  BY <1>3 DEF SRInv, Shape
<1> QED
  BY <1>5, <1>10, <1>11, <1>14, <1>15, <1>16, ActorKeeps

\* A late request, the clean-up, an administrator and the clock answer nobody.
LEMMA UnaskedKeeps ==
    ASSUME SRInv, \/ \E r \in late : Arrive(r)
                  \/ \E c \in Comps : AdminRemove(c)
                  \/ Reap \/ Clock
    PROVE  SRInv'
<1>1. ASSUME NEW r \in late, Arrive(r)
      PROVE  SRInv'
  <2>1. ServerInv' /\ Moves
    BY <1>1, ExecuteMoves DEF Arrive, SRInv, Shape
  <2> QED
    BY <1>1, <2>1, ServerKeeps DEF Arrive, client, SRInv, Shape
<1>2. ASSUME NEW c \in Comps, AdminRemove(c)
      PROVE  SRInv'
  <2> DEFINE removed == {x \in {c} \cap present : Reserved(x)}
  <2>1. /\ Drop(removed) /\ UNCHANGED <<rows, nextGen, now, map, saved, call, late>>
        /\ revoked' = revoked \cup {<<c, resv[c].gen>>}
    BY <1>2 DEF AdminRemove, DeleteCompReservationsForce, client
  <2>2. ServerInv' /\ Moves
    BY <2>1, DropMoves DEF SRInv
  <2> QED
    BY <2>1, <2>2, ServerKeeps DEF SRInv, Shape
<1>3. CASE Reap
  <2> DEFINE expired == {c \in Comps : Expired(c)}
  <2>1. Drop(expired) /\ UNCHANGED <<rows, nextGen, now, map, saved, call, late, revoked>>
    BY <1>3 DEF Reap, DeleteCompReservationsExpired, client
  <2>2. \A c \in expired : resv[c].exp <= now
    BY DEF Expired, SRInv, ServerInv, Entries
  <2>3. ServerInv' /\ Moves
    BY <2>1, <2>2, DropMoves DEF SRInv
  <2> QED
    BY <2>1, <2>3, ServerKeeps DEF SRInv, Shape
<1>4. CASE Clock
  <2>1. UNCHANGED <<rows, resv, nextGen, map, saved, call, late, revoked>> /\ now' = now + 1
    BY <1>4 DEF Clock, Tick
  <2>2. \A c \in Comps : resv[c].exp \in Nat
    BY DEF SRInv, ServerInv, Entries
  <2>3. ServerInv'
    BY <2>1, <2>2, TermAssumption DEF SRInv, ServerInv, rows
  <2>4. Moves
    BY <2>1, <2>2 DEF Moves, SRInv, ServerInv
  <2> QED
    BY <2>1, <2>3, <2>4, ServerKeeps DEF SRInv, Shape
<1> QED
  BY <1>1, <1>2, <1>3, <1>4

-----------------------------------------------------------------------------
(* The theorems                                                            *)

LEMMA InitSRInv == SRInit => SRInv
<1> SUFFICES ASSUME SRInit PROVE SRInv
  OBVIOUS
<1>1. ServerInv
  BY NothingIs, TermAssumption DEF SRInit, Init, ServerInv
<1>2. /\ \A c \in Comps : NoEntries[c] = NoResv
      /\ NoEntries = [c \in Comps |-> NoEntries[c]]
  BY DEF NoEntries
<1>3. \A a \in Clients : /\ map[a] = NoEntries /\ saved[a] = NoEntries
                         /\ \A th \in Threads : call[a][th] = NoCall
  BY DEF SRInit
<1>4. Shape
  <2>1. /\ map = [a \in Clients |-> map[a]] /\ saved = [a \in Clients |-> saved[a]]
        /\ call = [a \in Clients |-> [th \in Threads |-> call[a][th]]] /\ late = {}
    BY DEF SRInit
  <2>2. map = [a \in Clients |-> [c \in Comps |-> map[a][c]]]
    BY <1>2, <1>3, <2>1
  <2> QED
    BY <1>3, <2>1, <2>2, IdleIs DEF Shape
<1>5. AllFit
  BY <1>1, <1>2, <1>3, IdleIs, NothingFits DEF AllFit
<1>6. AllOrdered
  BY <1>2, <1>3, IdleIs, NothingIs DEF AllOrdered, Ordered, Gets, Checked, Threads
<1>7. Apart
  BY <1>2, <1>3, IdleIs, NothingIs DEF Apart, Has
<1> QED
  BY <1>1, <1>4, <1>5, <1>6, <1>7 DEF SRInv

LEMMA StepSRInv == SRInv /\ [SRNext]_srVars => SRInv'
<1> SUFFICES ASSUME SRInv, [SRNext]_srVars PROVE SRInv'
  OBVIOUS
<1>1. CASE \E a \in Clients : AppCall(a) \/ Loop(a) \/ Restart(a)
  BY <1>1, AppCallKeeps, LoopStepKeeps, RestartKeeps
<1>2. ASSUME NEW a \in Clients, NEW th \in Threads, Receive(a, th)
      PROVE  SRInv'
  BY <1>2, AppReceiveKeeps, LoopReceiveKeeps DEF Threads
<1>3. CASE \E a \in Clients, th \in Threads : Serve(a, th) \/ Retry(a, th) \/ TimeOut(a, th)
  BY <1>3, ServeKeeps, RetryKeeps, TimeOutKeeps
<1>4. CASE \/ \E r \in late : Arrive(r)
           \/ \E c \in Comps : AdminRemove(c)
           \/ Reap \/ Clock
  BY <1>4, UnaskedKeeps
<1>5. CASE UNCHANGED srVars
  <2>1. UNCHANGED server /\ UNCHANGED <<map, saved, call, late, revoked>>
    BY <1>5 DEF srVars
  <2>2. ServerInv' /\ Moves
    BY <2>1, StayMoves DEF SRInv
  <2> QED
    BY <2>1, <2>2, ServerKeeps DEF SRInv, Shape
<1> QED
  BY <1>1, <1>2, <1>3, <1>4, <1>5 DEF SRNext

LEMMA Backed == SRInv => UnexpiredEntryIsBacked
  BY DEF SRInv, AllFit, Fits, UnexpiredEntryIsBacked, Holds

\* Two clients that are backed by one row have one key, and no key has two clients.
LEMMA Exclusive == SRInv => MutualExclusion
<1> SUFFICES ASSUME SRInv, NEW a \in Clients, NEW b \in Clients, NEW c \in Comps, a # b,
                    Holds(a, c), Holds(b, c), now < map[a][c].exp, now < map[b][c].exp,
                    <<c, map[a][c].gen>> \notin revoked, <<c, map[b][c].gen>> \notin revoked
             PROVE  FALSE
  BY DEF MutualExclusion
<1>1. resv[c].gen = map[a][c].gen /\ resv[c].gen = map[b][c].gen
  BY Backed DEF UnexpiredEntryIsBacked
<1>2. map[a][c].gen \in Nat /\ map[a][c].gen # 0
  BY Types DEF Entries, Holds
<1> QED
  BY <1>1, <1>2 DEF SRInv, Apart, Has

\* An entry of reservedMap that has neither expired nor been given up is backed by the
\* server's row for as long, for all clients, terms and windows, although answers are
\* lost, late, repeated and applied by xname (interface.go:206-260).
THEOREM UnexpiredEntryIsBackedHolds == SRSpec => []UnexpiredEntryIsBacked
  BY InitSRInv, StepSRInv, Backed, PTL DEF SRSpec

\* What the reservations are for: no two users of the library hold one component at a
\* time, however many there are and whatever gets lost.
THEOREM MutualExclusionHolds == SRSpec => []MutualExclusion
  BY InitSRInv, StepSRInv, Exclusive, PTL DEF SRSpec

-----------------------------------------------------------------------------
(* Prompt calls                                                            *)

\* Nothing is lost, and calls and a round of the renewal fit between two ticks; the
\* window and the term are longer than that.
InTime == Prompt /\ ~Lossy /\ Window \in Nat /\ Window > 1 /\ Term > 1

\* Of its row a client knows no later expiration than the row has.
Outlasted(c, v) == v.gen # 0 /\ resv[c].gen = v.gen => v.exp <= resv[c].exp
AllOutlasted(a, c) ==
    /\ Outlasted(c, map[a][c]) /\ Outlasted(c, saved[a][c])
    /\ \A th \in Threads : /\ Outlasted(c, call[a][th].entries[c])
                           /\ Outlasted(c, call[a][th].reply[c])

\* The loop has asked to renew what the map has for c.
Renewing(a, c) ==
    LET r == call[a]["loop"] IN
    /\ r.at = "sent" /\ r.op = "renew" /\ r.rigid = FALSE
    /\ c \in r.comps /\ r.entries[c].gen = map[a][c].gen

\* What is held lasts, and from the round of the loop on it outlasts the next tick.
HeldLasts(a, c) ==
    Holds(a, c) /\ resv[c].gen = map[a][c].gen =>
        /\ now < resv[c].exp
        /\ ran[a] => now + 1 < resv[c].exp \/ Renewing(a, c)

\* So does what the application is about to get.
AnswersLast(a, c) ==
    Gets(a, c) /\ resv[c].gen = call[a]["app"].reply[c].gen => now + 1 < resv[c].exp

InHand(a) == \A c \in Comps : AllOutlasted(a, c) /\ HeldLasts(a, c) /\ AnswersLast(a, c)

RowsExpire == \A c \in Comps : resv[c].gen # 0 => resv[c].exp # Never

HoldInv ==
    /\ late = {} /\ ran = [a \in Clients |-> ran[a]]
    /\ RowsExpire
    /\ \A a \in Clients : InHand(a)

\* Arithmetic of rows, the clock, and entries.
LEMMA Numbers ==
    ASSUME SRInv, InTime
    PROVE  /\ now \in Nat /\ Term \in Nat /\ Term > 1 /\ nextGen \in Nat \ {0}
           /\ \A c \in Comps : resv[c].gen \in Nat /\ resv[c].exp \in Nat
BY TermAssumption DEF SRInv, ServerInv, Entries, InTime

\* The row of a key that is known is no new one.
LEMMA RowKept ==
    ASSUME SRInv, Moves, NEW c \in Comps, NEW v, Fits(c, v), v.gen # 0, resv'[c].gen = v.gen
    PROVE  resv[c].gen = v.gen /\ resv[c].exp <= resv'[c].exp
<1>1. v.gen \in Nat /\ v.gen < nextGen /\ nextGen \in Nat
    BY DEF Fits, Entries, SRInv, ServerInv
<1>2. resv'[c].gen # nextGen /\ resv'[c] # NoResv
    BY <1>1, NothingIs
<1> QED
    BY <1>2 DEF Moves

LEMMA OutlastedKept ==
    ASSUME SRInv, InTime, Moves, NEW c \in Comps, resv'[c].exp \in Nat,
           NEW v, Fits(c, v), Outlasted(c, v), v.gen # 0, resv'[c].gen = v.gen
    PROVE  v.exp <= resv'[c].exp
<1>1. v.exp <= resv[c].exp /\ resv[c].exp <= resv'[c].exp /\ resv[c].exp \in Nat /\ v.exp \in Nat
    BY RowKept, Numbers DEF Outlasted, Fits, Entries
<1> QED
    BY <1>1

\* A step of others does not harm what a has.
LEMMA OtherHolds ==
    ASSUME SRInv, SRInv', InTime, HoldInv, Moves, now' = now, NEW a \in Clients,
           \A c \in Comps : map'[a][c] = map[a][c],
           saved'[a] = saved[a], ran'[a] = ran[a],
           \A th \in Threads : call'[a][th] = call[a][th]
    PROVE  InHand(a)'
<1> SUFFICES ASSUME NEW c \in Comps
             PROVE  AllOutlasted(a, c)' /\ HeldLasts(a, c)' /\ AnswersLast(a, c)'
    BY DEF InHand
<1>1. /\ AllOutlasted(a, c) /\ HeldLasts(a, c) /\ AnswersLast(a, c)
      /\ resv[c].exp \in Nat /\ resv'[c].exp \in Nat /\ now \in Nat
      /\ "app" \in Threads /\ "loop" \in Threads
    BY Numbers DEF HoldInv, InHand, SRInv, ServerInv, Entries, Threads
<1>2. /\ Fits(c, map[a][c]) /\ Fits(c, saved[a][c])
      /\ \A th \in Threads : Fits(c, call[a][th].entries[c]) /\ Fits(c, call[a][th].reply[c])
    BY DEF SRInv, AllFit
<1>3. AllOutlasted(a, c)'
    <2>1. ASSUME NEW v, Fits(c, v), Outlasted(c, v)
          PROVE  v.gen # 0 /\ resv'[c].gen = v.gen => v.exp <= resv'[c].exp
        BY <1>1, <2>1, OutlastedKept
    <2> QED
        BY <1>1, <1>2, <2>1 DEF AllOutlasted, Outlasted
<1>4. HeldLasts(a, c)'
    <2> SUFFICES ASSUME map[a][c].gen # 0, resv'[c].gen = map[a][c].gen
                 PROVE  now < resv'[c].exp /\ (ran[a] => now + 1 < resv'[c].exp \/ Renewing(a, c)')
        BY DEF HeldLasts, Holds
    <2>1. resv[c].gen = map[a][c].gen /\ resv[c].exp <= resv'[c].exp
        BY <1>2, RowKept
    <2>2. Renewing(a, c) => Renewing(a, c)'
        BY <1>1 DEF Renewing
    <2> QED
        BY <1>1, <2>1, <2>2 DEF HeldLasts, Holds
<1>5. AnswersLast(a, c)'
    <2> SUFFICES ASSUME Gets(a, c), resv'[c].gen = call[a]["app"].reply[c].gen
                 PROVE  now + 1 < resv'[c].exp
        BY <1>1 DEF AnswersLast, Gets
    <2>1. resv[c].gen = call[a]["app"].reply[c].gen /\ resv[c].exp <= resv'[c].exp
        BY <1>1, <1>2, RowKept DEF Gets
    <2> QED
        BY <1>1, <2>1 DEF AnswersLast
<1> QED
    BY <1>3, <1>4, <1>5

\* A step of a that does not concern the server.
LEMMA OwnStepHolds ==
    ASSUME SRInv, SRInv', InTime, HoldInv, UNCHANGED <<server, revoked>>, late' = late,
           NEW a \in Clients, OthersSame(a),
           ran' = [b \in Clients |-> ran'[b]], \A b \in Clients \ {a} : ran'[b] = ran[b],
           InHand(a)'
    PROVE  HoldInv'
<1>1. now' = now /\ resv' = resv /\ Moves
    BY StayMoves DEF server, vars, SRInv
<1>2. ASSUME NEW b \in Clients \ {a} PROVE InHand(b)'
    BY <1>1, OtherHolds DEF OthersSame
<1> QED
    BY <1>1, <1>2 DEF HoldInv, RowsExpire

LEMMA RanSame ==
    ASSUME HoldInv, NEW a \in Clients, NEW x
    PROVE  LET f == [ran EXCEPT ![a] = x] IN
           /\ f = [b \in Clients |-> f[b]] /\ f[a] = x /\ \A b \in Clients \ {a} : f[b] = ran[b]
BY DEF HoldInv

\* What a has now, if the server stays as it is.
LEMMA InHandNow ==
    ASSUME HoldInv, NEW a \in Clients, NEW c \in Comps
    PROVE  /\ AllOutlasted(a, c) /\ HeldLasts(a, c) /\ AnswersLast(a, c)
           /\ Outlasted(c, NoResv) /\ "app" \in Threads /\ "loop" \in Threads
BY NothingIs DEF HoldInv, InHand, Outlasted, Threads

-----------------------------------------------------------------------------
LEMMA SendHolds ==
    ASSUME SRInv, SRInv', InTime, HoldInv, NEW a \in Clients, AppCall(a)
    PROVE  HoldInv'
<1>1. \E op, rigid, S, es :
          /\ rigid \in Modes(op) /\ Send(a, Request(op, rigid, S, es))
          /\ \A c \in Comps : es[c] = NoResv \/ es[c] = saved[a][c] \/ es[c] = map[a][c]
    <2>1. ASSUME NEW S \in SUBSET Comps, NEW rigid \in Rigid, Aquire(a, S, rigid)
          PROVE  /\ rigid \in Modes("acquire") /\ Send(a, Request("acquire", rigid, S, NoEntries))
                 /\ \A c \in Comps : NoEntries[c] = NoResv
        BY <2>1 DEF Aquire, NoEntries, Modes
    <2>2. ASSUME NEW S \in SUBSET Comps, Release(a, S)
          PROVE  FALSE \in Modes("release") /\ Send(a, Request("release", FALSE, S, map[a]))
        BY <2>2 DEF Release, Modes
    <2>3. ASSUME NEW rigid \in Rigid, Reacquire(a, rigid)
          PROVE  rigid \in Modes("renew") /\ Send(a, Request("renew", rigid, Known(saved[a]), saved[a]))
        BY <2>3 DEF Reacquire, Modes
    <2>4. CASE \E S \in SUBSET Comps, rigid \in Rigid : Aquire(a, S, rigid)
        BY <2>1, <2>4
    <2>5. CASE \E S \in SUBSET Comps : Release(a, S)
        BY <2>2, <2>5
    <2>6. CASE \E rigid \in Rigid : Reacquire(a, rigid)
        BY <2>3, <2>6
    <2> QED
        BY <2>4, <2>5, <2>6 DEF AppCall
<1>2. PICK op, rigid, S, es :
          /\ rigid \in Modes(op) /\ Send(a, Request(op, rigid, S, es))
          /\ \A c \in Comps : es[c] = NoResv \/ es[c] = saved[a][c] \/ es[c] = map[a][c]
    BY <1>1
<1>3. PICK r : r = Request(op, rigid, S, es)
    OBVIOUS
<1>4. UNCHANGED <<server, map, saved, ran, late, revoked>> /\ Put(a, "app", r)
    BY <1>2, <1>3 DEF Send, client
<1>5. /\ IsCall(r) /\ r.at = "sent"
      /\ \A c \in Comps : r.entries[c] \in {es[c], NoResv} /\ r.reply[c] = NoResv
    <2>1. \A c \in Comps : es[c] \in Entries
        BY <1>2, Types, NothingIs
    <2> QED
        BY <1>2, <1>3, <2>1, RequestIs
<1>6. OthersSame(a) /\ call'[a]["app"] = r /\ call'[a]["loop"] = call[a]["loop"]
    BY <1>4, <1>5, PutSame DEF Threads
<1>7. ASSUME NEW c \in Comps PROVE AllOutlasted(a, c)' /\ HeldLasts(a, c)' /\ AnswersLast(a, c)'
    <2>1. map' = map /\ saved' = saved /\ ran' = ran /\ resv' = resv /\ now' = now
        BY <1>4 DEF server, vars
    <2>2. Outlasted(c, r.entries[c]) /\ Outlasted(c, r.reply[c])
        BY <1>2, <1>5, InHandNow DEF AllOutlasted
    <2>3. AllOutlasted(a, c)'
        BY <1>6, <2>1, <2>2, InHandNow DEF AllOutlasted, Outlasted, Threads
    <2>4. HeldLasts(a, c)'
        BY <1>6, <2>1, InHandNow DEF HeldLasts, Holds, Renewing
    <2>5. AnswersLast(a, c)'
        BY <1>5, <1>6 DEF AnswersLast, Gets
    <2> QED
        BY <2>3, <2>4, <2>5
<1> QED
    BY <1>4, <1>6, <1>7, OwnStepHolds DEF InHand, HoldInv

LEMMA LoopCheckHolds ==
    ASSUME SRInv, SRInv', InTime, HoldInv, NEW a \in Clients, LoopCheck(a)
    PROVE  HoldInv'
<1>0. PICK no : no = FALSE
    OBVIOUS
<1>1. PICK r : r = Request("check", no, Known(map[a]), map[a])
    OBVIOUS
<1>2. UNCHANGED <<server, map, saved, ran, late, revoked>> /\ Put(a, "loop", r) /\ ~ran[a]
    BY <1>0, <1>1 DEF LoopCheck, client, InTime
<1>3. /\ IsCall(r) /\ r.op = "check"
      /\ \A c \in Comps : r.entries[c] \in {map[a][c], NoResv} /\ r.reply[c] = NoResv
    <2>1. no \in Modes("check") /\ \A c \in Comps : map[a][c] \in Entries
        BY <1>0, Types DEF Modes
    <2> QED
        BY <1>1, <2>1, RequestIs
<1>4. OthersSame(a) /\ call'[a]["loop"] = r /\ call'[a]["app"] = call[a]["app"]
    BY <1>2, <1>3, PutSame DEF Threads
<1>5. ASSUME NEW c \in Comps PROVE AllOutlasted(a, c)' /\ HeldLasts(a, c)' /\ AnswersLast(a, c)'
    <2>1. map' = map /\ saved' = saved /\ ran' = ran /\ resv' = resv /\ now' = now
        BY <1>2 DEF server, vars
    <2>2. Outlasted(c, r.entries[c]) /\ Outlasted(c, r.reply[c])
        BY <1>3, InHandNow DEF AllOutlasted
    <2>3. AllOutlasted(a, c)'
        BY <1>4, <2>1, <2>2, InHandNow DEF AllOutlasted, Outlasted, Threads
    <2>4. HeldLasts(a, c)'
        BY <1>2, <2>1, InHandNow DEF HeldLasts, Holds
    <2>5. AnswersLast(a, c)'
        BY <1>4, <2>1, InHandNow DEF AnswersLast, Gets
    <2> QED
        BY <2>3, <2>4, <2>5
<1> QED
    BY <1>2, <1>4, <1>5, OwnStepHolds DEF InHand, HoldInv

LEMMA LoopNothingHolds ==
    ASSUME SRInv, SRInv', InTime, HoldInv, NEW a \in Clients, LoopNothing(a)
    PROVE  HoldInv'
<1>1. UNCHANGED <<server, map, saved, call, late, revoked>> /\ ran' = [ran EXCEPT ![a] = TRUE]
    BY DEF LoopNothing
<1>2. \A c \in Comps : ~Holds(a, c)
    BY DEF LoopNothing, Known, Holds
<1>3. OthersSame(a)
    BY <1>1 DEF OthersSame, SRInv, Shape
<1>4. ASSUME NEW c \in Comps PROVE AllOutlasted(a, c)' /\ HeldLasts(a, c)' /\ AnswersLast(a, c)'
    <2>1. map' = map /\ saved' = saved /\ call' = call /\ resv' = resv /\ now' = now
        BY <1>1 DEF server, vars
    <2> QED
        BY <1>2, <2>1, InHandNow DEF AllOutlasted, Outlasted, HeldLasts, Holds, AnswersLast, Gets
<1>5. InHand(a)'
    BY <1>4 DEF InHand
<1> QED
    BY <1>1, <1>3, <1>5, RanSame, OwnStepHolds

\* What expires within the window is renewed, and the rest outlasts the next tick.
LEMMA LoopScanHolds ==
    ASSUME SRInv, SRInv', InTime, HoldInv, NEW a \in Clients, LoopScan(a)
    PROVE  HoldInv'
<1> DEFINE expired    == {c \in Known(map[a]) : map[a][c].exp < now}
           candidates == {c \in Known(map[a]) \ expired : Due(map[a][c])}
           kept == [c \in Comps |-> IF c \in expired THEN NoResv ELSE map[a][c]]
<1>0. PICK no : no = FALSE
    OBVIOUS
<1>1. /\ UNCHANGED <<server, saved, late, revoked>>
      /\ map' = [map EXCEPT ![a] = kept] /\ ran' = [ran EXCEPT ![a] = TRUE]
      /\ Put(a, "loop", IF candidates = {} THEN NoCall ELSE Request("renew", no, candidates, map[a]))
    BY <1>0 DEF LoopScan, InTime
<1>2. PICK r : r = IF candidates = {} THEN NoCall ELSE Request("renew", no, candidates, map[a])
    OBVIOUS
<1>3. /\ IsCall(r)
      /\ \A c \in Comps : r.entries[c] \in {map[a][c], NoResv} /\ r.reply[c] = NoResv
      /\ \A c \in candidates : /\ r.at = "sent" /\ r.op = "renew" /\ r.rigid = FALSE
                               /\ c \in r.comps /\ r.entries[c] = map[a][c]
    <2>1. no \in Modes("renew") /\ \A c \in Comps : map[a][c] \in Entries
        BY <1>0, Types DEF Modes
    <2>2. CASE candidates = {}
        BY <1>2, <2>2, IdleIs
    <2>3. CASE candidates # {}
        <3>1. r = Request("renew", no, candidates, map[a])
            BY <1>2, <2>3
        <3>2. r.rigid = no /\ r.comps = candidates
            BY <3>1 DEF Request
        <3>3. candidates \subseteq Comps
            BY DEF Known
        <3>4. r.at = "sent" /\ r.op = "renew"
            BY <3>1 DEF Request
        <3> HIDE DEF candidates
        <3>5. /\ IsCall(r)
              /\ \A c \in Comps : /\ r.entries[c] = IF c \in candidates THEN map[a][c] ELSE NoResv
                                  /\ r.reply[c] = NoResv
            BY <2>1, <3>1, RequestIs
        <3> QED
            BY <1>0, <3>2, <3>3, <3>4, <3>5
    <2> QED
        BY <2>2, <2>3
<1>4. kept = [c \in Comps |-> kept[c]] /\ Put(a, "loop", r)
    BY <1>1, <1>2
<1>5. OthersSame(a) /\ call'[a]["loop"] = r /\ call'[a]["app"] = call[a]["app"]
    <2> HIDE DEF kept
    <2> QED
        BY <1>1, <1>3, <1>4, PutSame DEF Threads
<1>6. \A c \in Comps : map'[a][c] = kept[c]
    <2>1. map'[a] = kept
        BY <1>1 DEF SRInv, Shape
    <2> QED
        BY <2>1
<1>7. ASSUME NEW c \in Comps PROVE AllOutlasted(a, c)' /\ HeldLasts(a, c)' /\ AnswersLast(a, c)'
    <2>1. saved' = saved /\ ran'[a] = TRUE /\ resv' = resv /\ now' = now
        BY <1>1, RanSame DEF server, vars
    <2>2. Outlasted(c, r.entries[c]) /\ Outlasted(c, r.reply[c]) /\ Outlasted(c, map'[a][c])
        BY <1>3, <1>6, InHandNow DEF AllOutlasted
    <2>3. AllOutlasted(a, c)'
        BY <1>5, <2>1, <2>2, InHandNow DEF AllOutlasted, Outlasted, Threads
    <2>4. HeldLasts(a, c)'
        <3> SUFFICES ASSUME map'[a][c].gen # 0, resv[c].gen = map'[a][c].gen
                     PROVE  now < resv[c].exp /\ (now + 1 < resv[c].exp \/ Renewing(a, c)')
            BY <2>1 DEF HeldLasts, Holds
        <3>1. c \notin expired /\ map'[a][c] = map[a][c] /\ c \in Known(map[a])
            BY <1>6, NothingIs DEF Known
        <3>2. now < resv[c].exp /\ map[a][c].exp <= resv[c].exp
            BY <3>1, InHandNow DEF HeldLasts, Holds, AllOutlasted, Outlasted
        <3>3. CASE c \in candidates
            <4>1. Renewing(a, c)'
                BY <1>3, <1>5, <3>1, <3>3 DEF Renewing
            <4> QED
                BY <3>2, <4>1
        <3>4. CASE c \notin candidates
            <4>1. ~(map[a][c].exp < now + Window)
                BY <3>1, <3>4 DEF Due
            <4>2. map[a][c].exp \in Nat /\ resv[c].exp \in Nat /\ now \in Nat
                BY Types, Numbers DEF Entries
            <4> QED
                BY <3>2, <4>1, <4>2 DEF InTime
        <3> QED
            BY <3>3, <3>4
    <2>5. AnswersLast(a, c)'
        BY <1>5, <2>1, InHandNow DEF AnswersLast, Gets
    <2> QED
        BY <2>3, <2>4, <2>5
<1>8. InHand(a)'
    BY <1>7 DEF InHand
<1>9. ran' = [b \in Clients |-> ran'[b]] /\ \A b \in Clients \ {a} : ran'[b] = ran[b]
    BY <1>1, RanSame
<1> QED
    BY <1>1, <1>5, <1>8, <1>9, OwnStepHolds

LEMMA RestartHolds ==
    ASSUME SRInv, SRInv', InTime, HoldInv, NEW a \in Clients, Restart(a)
    PROVE  HoldInv'
<1>1. /\ UNCHANGED <<server, late, ran, revoked>>
      /\ saved' = [saved EXCEPT ![a] = map[a]] /\ map' = [map EXCEPT ![a] = NoEntries]
      /\ call' = [call EXCEPT ![a] = [th \in Threads |-> NoCall]]
    BY DEF Restart
<1>2. /\ \A c \in Comps : map'[a][c] = NoResv
      /\ saved'[a] = map[a] /\ \A th \in Threads : call'[a][th] = NoCall
    BY <1>1 DEF SRInv, Shape, NoEntries
<1>3. OthersSame(a)
    <2>1. map' = [b \in Clients |-> IF b = a THEN NoEntries ELSE map[b]]
        BY <1>1 DEF SRInv, Shape
    <2>2. \A b \in Clients : map'[b] = [c \in Comps |-> map'[b][c]]
        BY <2>1 DEF SRInv, Shape, NoEntries
    <2>3. /\ saved' = [b \in Clients |-> saved'[b]] /\ \A b \in Clients \ {a} : saved'[b] = saved[b]
        BY <1>1 DEF SRInv, Shape
    <2>4. call' = [b \in Clients |-> IF b = a THEN [th \in Threads |-> NoCall] ELSE call[b]]
        BY <1>1 DEF SRInv, Shape
    <2>5. \A b \in Clients : call'[b] = [th \in Threads |-> call'[b][th]]
        BY <2>4 DEF SRInv, Shape
    <2> QED
        BY <2>1, <2>2, <2>3, <2>4, <2>5 DEF OthersSame
<1>4. ASSUME NEW c \in Comps PROVE AllOutlasted(a, c)' /\ HeldLasts(a, c)' /\ AnswersLast(a, c)'
    <2>1. resv' = resv /\ now' = now
        BY <1>1 DEF server, vars
    <2> QED
        BY <1>2, <2>1, InHandNow, NothingIs, IdleIs
           DEF AllOutlasted, Outlasted, HeldLasts, Holds, AnswersLast, Gets
<1>5. InHand(a)'
    BY <1>4 DEF InHand
<1> QED
    BY <1>1, <1>3, <1>5, OwnStepHolds DEF HoldInv


-----------------------------------------------------------------------------
(* Answers, service and the clock                                          *)

LEMMA AppReceiveHolds ==
    ASSUME SRInv, SRInv', InTime, HoldInv, NEW a \in Clients, Receive(a, "app")
    PROVE  HoldInv'
<1> DEFINE f == Applied(a, call[a]["app"], "app")
<1>1. PICK r : /\ Put(a, "app", r) /\ IsCall(r) /\ r.at \in {"idle", "scan"} /\ r.op = "none"
               /\ \A c \in Comps : r.entries[c] = NoResv /\ r.reply[c] = NoResv
    BY ReturnIs DEF Receive, Threads
<1>2. /\ UNCHANGED <<server, saved, late, ran, revoked>> /\ map' = [map EXCEPT ![a] = f]
      /\ call[a]["app"].at = "replied" /\ f = [c \in Comps |-> f[c]]
    BY DEF Receive, Applied
<1>3. map'[a] = f
    BY <1>2 DEF SRInv, Shape
<1> HIDE DEF f
<1>4. OthersSame(a) /\ call'[a]["app"] = r /\ call'[a]["loop"] = call[a]["loop"]
    BY <1>1, <1>2, PutSame DEF Threads
<1>5. ASSUME NEW c \in Comps PROVE AllOutlasted(a, c)' /\ HeldLasts(a, c)' /\ AnswersLast(a, c)'
    <2>1. saved' = saved /\ ran' = ran /\ resv' = resv /\ now' = now
        BY <1>2 DEF server, vars
    <2>2. \/ map'[a][c] \in {NoResv, map[a][c]}
          \/ /\ Gets(a, c)
             /\ \/ call[a]["app"].op = "acquire" /\ map'[a][c] = call[a]["app"].reply[c]
                \/ call[a]["app"].op = "renew" /\ map'[a][c] = call[a]["app"].entries[c]
        BY <1>2, <1>3, AppApplies DEF f, Applied
    <2>3. Outlasted(c, map'[a][c])
        BY <2>2, InHandNow DEF AllOutlasted
    <2>4. AllOutlasted(a, c)'
        BY <1>1, <1>4, <2>1, <2>3, InHandNow DEF AllOutlasted, Outlasted, Threads
    <2>5. HeldLasts(a, c)'
        <3>1. CASE map'[a][c] = map[a][c]
            BY <1>4, <2>1, <3>1, InHandNow DEF HeldLasts, Holds, Renewing
        <3>2. CASE map'[a][c] = NoResv
            BY <3>2, NothingIs DEF HeldLasts, Holds
        <3>3. CASE Gets(a, c) /\ map'[a][c].gen = call[a]["app"].reply[c].gen
            <4>1. resv[c].gen = map'[a][c].gen => now + 1 < resv[c].exp
                BY <3>3, InHandNow DEF AnswersLast
            <4>2. now \in Nat /\ resv[c].exp \in Nat
                BY Numbers
            <4> QED
                BY <2>1, <4>1, <4>2 DEF HeldLasts
        <3>4. Gets(a, c) /\ call[a]["app"].op = "renew" =>
                 call[a]["app"].entries[c].gen = call[a]["app"].reply[c].gen
            BY Types DEF Ordered
        <3> QED
            BY <2>2, <3>1, <3>2, <3>3, <3>4
    <2>6. AnswersLast(a, c)'
        BY <1>1, <1>4 DEF AnswersLast, Gets
    <2> QED
        BY <2>4, <2>5, <2>6
<1> QED
    BY <1>2, <1>4, <1>5, OwnStepHolds DEF InHand, HoldInv

LEMMA LoopReceiveHolds ==
    ASSUME SRInv, SRInv', InTime, HoldInv, NEW a \in Clients, Receive(a, "loop")
    PROVE  HoldInv'
<1> DEFINE f == Applied(a, call[a]["loop"], "loop")
<1>1. PICK r : /\ Put(a, "loop", r) /\ IsCall(r) /\ r.at \in {"idle", "scan"} /\ r.op = "none"
               /\ \A c \in Comps : r.entries[c] = NoResv /\ r.reply[c] = NoResv
    BY ReturnIs DEF Receive, Threads
<1>2. /\ UNCHANGED <<server, saved, late, ran, revoked>> /\ map' = [map EXCEPT ![a] = f]
      /\ call[a]["loop"].at = "replied" /\ f = [c \in Comps |-> f[c]]
    BY DEF Receive, Applied
<1>3. map'[a] = f
    BY <1>2 DEF SRInv, Shape
<1> HIDE DEF f
<1>4. OthersSame(a) /\ call'[a]["loop"] = r /\ call'[a]["app"] = call[a]["app"]
    BY <1>1, <1>2, PutSame DEF Threads
<1>5. ASSUME NEW c \in Comps PROVE AllOutlasted(a, c)' /\ HeldLasts(a, c)' /\ AnswersLast(a, c)'
    <2>1. saved' = saved /\ ran' = ran /\ resv' = resv /\ now' = now
        BY <1>2 DEF server, vars
    <2>2. /\ f[c].gen \in {0, map[a][c].gen}
          /\ f[c].gen # 0 => \/ f[c] = map[a][c]
                             \/ Checked(a, c) /\ f[c].exp = call[a]["loop"].reply[c].exp
        <3>1. f[c] = AppliedTo(a, call[a]["loop"], "loop", c)
            BY DEF f, Applied
        <3>2. /\ f[c].gen \in {0, map[a][c].gen}
              /\ f[c].gen # 0 /\ ~Checked(a, c) => f[c] = map[a][c]
            BY <1>2, <3>1, LoopApplies
        <3>3. ASSUME Checked(a, c), f[c].gen # 0
              PROVE  f[c] = map[a][c] \/ f[c].exp = call[a]["loop"].reply[c].exp
            <4>1. call[a]["loop"].op = "check" /\ map[a][c] \in Entries
                BY <3>3, Types DEF Checked
            <4>2. CASE c \notin call[a]["loop"].comps
                BY <3>1, <4>2 DEF AppliedTo
            <4>3. CASE c \in call[a]["loop"].comps
                <5>1. f[c] = IF call[a]["loop"].reply[c] = NoResv \/ map[a][c] = NoResv
                             THEN NoResv ELSE [map[a][c] EXCEPT !.exp = call[a]["loop"].reply[c].exp]
                    BY <3>1, <4>1, <4>3 DEF AppliedTo
                <5> QED
                    BY <3>3, <4>1, <5>1, NothingIs DEF Entries
            <4> QED
                BY <4>2, <4>3
        <3>4. CASE Checked(a, c)
            BY <3>2, <3>3, <3>4
        <3>5. CASE ~Checked(a, c)
            BY <3>2, <3>5
        <3> QED
            BY <3>4, <3>5
    <2>3. Outlasted(c, f[c])
        <3> SUFFICES ASSUME f[c].gen # 0, resv[c].gen = f[c].gen
                     PROVE  f[c].exp <= resv[c].exp
            BY DEF Outlasted
        <3>1. resv[c].gen = map[a][c].gen /\ map[a][c].gen # 0 /\ map[a][c].exp <= resv[c].exp
            BY <2>2, InHandNow DEF AllOutlasted, Outlasted
        <3>2. CASE f[c] = map[a][c]
            BY <3>1, <3>2
        <3>3. CASE Checked(a, c) /\ f[c].exp = call[a]["loop"].reply[c].exp
            <4> DEFINE v == call[a]["loop"].reply[c]
            <4>1. /\ v.gen # 0 /\ v.gen <= map[a][c].gen
                  /\ v.gen < map[a][c].gen => v.exp <= map[a][c].exp
                BY <3>1, <3>3, Types DEF Checked, Ordered, Entries
            <4>2. v.gen = resv[c].gen => v.exp <= resv[c].exp
                BY <4>1, InHandNow DEF AllOutlasted, Outlasted
            <4>3. v \in Entries /\ map[a][c] \in Entries /\ resv[c].exp \in Nat
                BY Types, Numbers
            <4> QED
                BY <3>1, <3>3, <4>1, <4>2, <4>3 DEF Entries
        <3> QED
            BY <2>2, <3>2, <3>3
    <2>4. AllOutlasted(a, c)'
        BY <1>1, <1>3, <1>4, <2>1, <2>3, InHandNow DEF AllOutlasted, Outlasted, Threads
    <2>5. HeldLasts(a, c)'
        <3> SUFFICES ASSUME f[c].gen # 0, resv[c].gen = f[c].gen
                     PROVE  now < resv[c].exp /\ (ran[a] => now + 1 < resv[c].exp)
            BY <1>3, <2>1 DEF HeldLasts, Holds
        <3>1. map[a][c].gen # 0 /\ resv[c].gen = map[a][c].gen
            BY <2>2
        <3>2. ~Renewing(a, c)
            BY <1>2 DEF Renewing
        <3> QED
            BY <3>1, <3>2, InHandNow DEF HeldLasts, Holds
    <2>6. AnswersLast(a, c)'
        BY <1>4, <2>1, InHandNow DEF AnswersLast, Gets
    <2> QED
        BY <2>4, <2>5, <2>6
<1> QED
    BY <1>2, <1>4, <1>5, OwnStepHolds DEF InHand, HoldInv

\* What executing a request does to the rows: what is renewed is so for the term.
LEMMA ExecuteRows ==
    ASSUME SRInv, InTime, RowsExpire, NEW r, Execute(r), NEW c \in Comps
    PROVE  /\ now' = now
           /\ resv'[c] = NoResv \/ resv'[c] = resv[c] \/ resv'[c].exp = now + Term
           /\ r.op = "renew" /\ c \in Found(r) => resv'[c].exp = now + Term
<1> DEFINE renews == r.op = "renew" /\ c \in Found(r)
<1>0. Term # 0 /\ Expiry(Term) = now + Term
    BY DEF Expiry, InTime
<1>1. renews => /\ Known(Answer(r)) # {} /\ r.op = "renew"
                /\ c \in Owned(KeysOf(r)) /\ resv[c].exp # Never
    <2> SUFFICES ASSUME r.op = "renew", c \in Found(r)
                 PROVE  Known(Answer(r)) # {} /\ c \in Owned(KeysOf(r)) /\ resv[c].exp # Never
        OBVIOUS
    <2>1. c \in Owned(KeysOf(r)) /\ Answer(r)[c] = resv[c]
        BY DEF Found, Answer
    <2>2. resv[c].gen # 0
        BY <2>1, OwnedIs DEF Reserved
    <2> QED
        BY <2>1, <2>2 DEF Known, RowsExpire
<1>2. CASE UNCHANGED server /\ ~renews
    BY <1>2 DEF server, vars
<1>3. CASE r.op = "acquire" /\ InsertCompReservations(r.comps, Term, r.rigid)
    <2>1. /\ resv'[c] = IF c \in Granted(r.comps, Term, r.rigid)
                        THEN [gen |-> nextGen, exp |-> Expiry(Term)] ELSE resv[c]
          /\ now' = now
        BY <1>3 DEF InsertCompReservations, Install
    <2> QED
        BY <1>0, <1>3, <2>1
<1>4. CASE r.op = "release" /\ DeleteCompReservations(KeysOf(r), FALSE)
    <2>1. resv'[c] \in {NoResv, resv[c]} /\ now' = now
        BY <1>4 DEF DeleteCompReservations, Drop
    <2> QED
        BY <1>4, <2>1
<1>5. CASE UpdateCompReservations(KeysOf(r), Term, r.rigid)
    <2>1. /\ resv'[c] = IF c \in Owned(KeysOf(r)) /\ resv[c].exp # Never
                        THEN [gen |-> resv[c].gen, exp |-> now + Term] ELSE resv[c]
          /\ now' = now
        BY <1>5 DEF UpdateCompReservations
    <2> QED
        BY <1>1, <2>1
<1>6. renews => r.op # "check" /\ ~(Known(Answer(r)) = {})
    BY <1>1
<1> HIDE DEF renews
<1>7. \/ UNCHANGED server /\ ~renews
      \/ r.op = "acquire" /\ InsertCompReservations(r.comps, Term, r.rigid)
      \/ r.op = "release" /\ DeleteCompReservations(KeysOf(r), FALSE)
      \/ UpdateCompReservations(KeysOf(r), Term, r.rigid)
    BY <1>6 DEF Execute
<1> QED
    BY <1>2, <1>3, <1>4, <1>5, <1>7

\* A row is still one that expires.
LEMMA StillExpire ==
    ASSUME SRInv, InTime, RowsExpire,
           \A c \in Comps : \/ resv'[c] = NoResv \/ resv'[c] = resv[c]
                            \/ resv'[c].exp = now + Term
    PROVE  RowsExpire'
<1> now \in Nat /\ Term \in Nat /\ Term > 1
    BY Numbers
<1> SUFFICES ASSUME NEW c \in Comps, resv'[c].gen # 0
             PROVE  resv'[c].exp # Never
    BY DEF RowsExpire
<1> QED
    BY NothingIs DEF RowsExpire, Never

\* A row that a client knew lasts as long as before, or has been renewed.
LEMMA ServeHolds ==
    ASSUME SRInv, SRInv', InTime, HoldInv, NEW a \in Clients, NEW th \in Threads, Serve(a, th)
    PROVE  HoldInv'
<1>1. PICK q : q = call[a][th]
    OBVIOUS
<1>2. PICK r : r = [q EXCEPT !.at = "replied", !.reply = Answer(q)]
    OBVIOUS
<1>3. /\ Put(a, th, r) /\ q.at = "sent" /\ Execute(q)
      /\ UNCHANGED <<map, saved, late, ran>>
    BY <1>1, <1>2 DEF Serve, client
<1>4. IsCall(q) /\ Flexible(q)
    BY <1>1 DEF SRInv, Shape, IsCall
<1>5. Moves
    BY <1>3, <1>4, ExecuteMoves DEF SRInv
<1>6. r = [at |-> "replied", op |-> q.op, rigid |-> q.rigid, comps |-> q.comps,
           entries |-> q.entries, reply |-> Answer(q)]
    BY <1>2, <1>4, AnsweredIs
<1>7. /\ OthersSame(a) /\ call'[a][th] = r
      /\ \A t \in Threads : t # th => call'[a][t] = call[a][t]
    <2>1. IsCall(r)
        <3>1. IsCall(call'[a][th])
            BY DEF SRInv, Shape
        <3>2. call'[a][th] = r
            BY <1>3, PutIs DEF SRInv
        <3> QED
            BY <3>1, <3>2
    <2> QED
        BY <1>3, <2>1, PutSame
<1>8. /\ late' = {} /\ ran' = [b \in Clients |-> ran'[b]] /\ RowsExpire
      /\ now' = now
      /\ \A c \in Comps : \/ resv'[c] = NoResv \/ resv'[c] = resv[c]
                          \/ resv'[c].exp = now + Term
    <2>1. RowsExpire
        BY DEF HoldInv
    <2>2. now' = now
        BY <1>3 DEF Execute, server, vars, InsertCompReservations,
                    DeleteCompReservations, UpdateCompReservations
    <2> QED
        BY <1>3, <2>1, <2>2, ExecuteRows DEF HoldInv
<1>9. RowsExpire'
    BY <1>8, StillExpire
<1>10. ASSUME NEW b \in Clients \ {a} PROVE InHand(b)'
    BY <1>3, <1>5, <1>7, <1>8, OtherHolds DEF OthersSame
<1>11. ASSUME NEW c \in Comps PROVE AllOutlasted(a, c)' /\ HeldLasts(a, c)' /\ AnswersLast(a, c)'
    <2>0. /\ now \in Nat /\ Term \in Nat /\ Term > 1 /\ nextGen \in Nat \ {0}
          /\ resv[c].gen \in Nat /\ resv[c].exp \in Nat /\ resv'[c].exp \in Nat
          /\ resv[c].gen < nextGen
        <3>1. resv'[c].exp \in Nat /\ resv[c].gen < nextGen
            BY DEF SRInv, ServerInv, Entries
        <3> QED
            BY <3>1, Numbers
    <2>1. ASSUME NEW v, Fits(c, v), v.gen # 0, resv'[c].gen = v.gen
          PROVE  /\ resv[c].gen = v.gen /\ resv[c].exp <= resv'[c].exp
                 /\ Outlasted(c, v) => v.exp <= resv'[c].exp
        BY <1>5, <2>0, <2>1, RowKept, OutlastedKept
    <2>2. \/ r.reply[c] = NoResv
          \/ /\ q.op = "acquire" /\ c \in Granted(q.comps, Term, q.rigid)
             /\ r.reply[c] = [gen |-> nextGen, exp |-> now + Term]
          \/ q.op # "acquire" /\ c \in Found(q) /\ r.reply[c] = resv[c]
        BY <1>6 DEF Answer
    <2>3. Fits(c, resv[c]) /\ Outlasted(c, resv[c])
        BY <2>0, RowFits DEF SRInv, Outlasted
    <2>4. resv'[c].gen = nextGen => resv'[c].exp = now + Term
        BY <1>8, <2>0, NothingIs
    <2>5. ~(r.reply[c].gen # 0 /\ resv'[c].gen = r.reply[c].gen) \/ r.reply[c].exp <= resv'[c].exp
        <3>1. CASE r.reply[c] = NoResv
            BY <3>1, NothingIs
        <3>2. CASE r.reply[c] = [gen |-> nextGen, exp |-> now + Term]
            BY <2>0, <2>4, <3>2
        <3>3. CASE r.reply[c] = resv[c]
            BY <2>1, <2>3, <3>3
        <3> QED
            BY <2>2, <3>1, <3>2, <3>3
    <2>6. AllOutlasted(a, c)'
        <3>1. /\ Fits(c, map[a][c]) /\ Fits(c, saved[a][c])
              /\ \A t \in Threads : Fits(c, call[a][t].entries[c]) /\ Fits(c, call[a][t].reply[c])
            BY DEF SRInv, AllFit
        <3>2. AllOutlasted(a, c)
            BY InHandNow
        <3>3. /\ map'[a][c].gen # 0 /\ resv'[c].gen = map'[a][c].gen => map'[a][c].exp <= resv'[c].exp
              /\ saved'[a][c].gen # 0 /\ resv'[c].gen = saved'[a][c].gen => saved'[a][c].exp <= resv'[c].exp
            BY <1>3, <2>1, <3>1, <3>2 DEF AllOutlasted
        <3>4. ASSUME NEW t \in Threads
              PROVE  /\ call[a][t].entries[c].gen # 0 /\ resv'[c].gen = call[a][t].entries[c].gen =>
                           call[a][t].entries[c].exp <= resv'[c].exp
                     /\ call[a][t].reply[c].gen # 0 /\ resv'[c].gen = call[a][t].reply[c].gen =>
                           call[a][t].reply[c].exp <= resv'[c].exp
            BY <2>1, <3>1, <3>2 DEF AllOutlasted
        <3>5. ASSUME NEW t \in Threads
              PROVE  Outlasted(c, call[a][t].entries[c])' /\ Outlasted(c, call[a][t].reply[c])'
            <4>1. CASE t = th
                BY <1>1, <1>6, <1>7, <2>5, <3>4, <4>1 DEF Outlasted
            <4>2. CASE t # th
                BY <1>7, <3>4, <4>2 DEF Outlasted
            <4> QED
                BY <4>1, <4>2
        <3> QED
            BY <3>3, <3>5 DEF AllOutlasted, Outlasted
    <2>7. q.op = "renew" /\ c \in Found(q) => resv'[c].exp = now + Term
        BY <1>3, <1>8, ExecuteRows
    <2>8. HeldLasts(a, c)'
        <3> SUFFICES ASSUME map[a][c].gen # 0, resv'[c].gen = map[a][c].gen
                     PROVE  now < resv'[c].exp /\ (ran[a] => now + 1 < resv'[c].exp \/ Renewing(a, c)')
            BY <1>3, <1>8 DEF HeldLasts, Holds
        <3>1. Fits(c, map[a][c])
            BY DEF SRInv, AllFit
        <3>2. resv[c].gen = map[a][c].gen /\ resv[c].exp <= resv'[c].exp
            BY <2>1, <3>1
        <3>3. now < resv[c].exp /\ (ran[a] => now + 1 < resv[c].exp \/ Renewing(a, c))
            BY <3>2, InHandNow DEF HeldLasts, Holds
        <3>4. CASE Renewing(a, c)
            <4>1. CASE th = "loop"
                <5>1. /\ q.op = "renew" /\ q.rigid = FALSE /\ c \in q.comps
                      /\ q.entries[c].gen = resv[c].gen
                    BY <1>1, <3>2, <3>4, <4>1 DEF Renewing
                <5>2. c \in Found(q)
                    BY <3>2, <5>1 DEF Found, Owned, KeysOf, Reserved
                <5> QED
                    BY <2>0, <2>7, <5>1, <5>2
            <4>2. CASE th # "loop"
                <5>1. call'[a]["loop"] = call[a]["loop"] /\ map' = map
                    BY <1>3, <1>7, <4>2 DEF Threads
                <5>2. Renewing(a, c)'
                    BY <3>4, <5>1 DEF Renewing
                <5> QED
                    BY <2>0, <3>2, <3>3, <5>2
            <4> QED
                BY <4>1, <4>2
        <3>5. CASE ~Renewing(a, c)
            BY <2>0, <3>2, <3>3, <3>5
        <3> QED
            BY <3>4, <3>5
    <2>9. AnswersLast(a, c)'
        <3> SUFFICES ASSUME Gets(a, c)', resv'[c].gen = call'[a]["app"].reply[c].gen
                     PROVE  now + 1 < resv'[c].exp
            BY <1>8 DEF AnswersLast
        <3>1. CASE th = "app"
            <4>1. q.op \in {"acquire", "renew"} /\ r.reply[c].gen # 0 /\ resv'[c].gen = r.reply[c].gen
                BY <1>6, <1>7, <3>1 DEF Gets
            <4>2. CASE r.reply[c] = [gen |-> nextGen, exp |-> now + Term]
                BY <2>0, <2>4, <4>1, <4>2
            <4>3. CASE q.op # "acquire" /\ c \in Found(q)
                BY <2>0, <2>7, <4>1, <4>3
            <4> QED
                BY <2>2, <4>1, <4>2, <4>3, NothingIs
        <3>2. CASE th # "app"
            <4>1. call'[a]["app"] = call[a]["app"]
                BY <1>7, <3>2 DEF Threads
            <4>2. Gets(a, c) /\ Fits(c, call[a]["app"].reply[c]) /\ call[a]["app"].reply[c].gen # 0
                BY <4>1 DEF Gets, SRInv, AllFit, Threads
            <4>3. resv[c].gen = call[a]["app"].reply[c].gen /\ resv[c].exp <= resv'[c].exp
                BY <2>1, <4>1, <4>2
            <4>4. now + 1 < resv[c].exp
                BY <4>2, <4>3, InHandNow DEF AnswersLast
            <4> QED
                BY <2>0, <4>3, <4>4
        <3> QED
            BY <3>1, <3>2
    <2> QED
        BY <2>6, <2>8, <2>9
<1>12. InHand(a)'
    BY <1>11 DEF InHand
<1> QED
    BY <1>8, <1>9, <1>10, <1>12 DEF HoldInv

\* The clean-up and an administrator take rows away.
LEMMA DropHolds ==
    ASSUME SRInv, SRInv', InTime, HoldInv, NEW ids \in SUBSET Comps, Drop(ids), Moves,
           UNCHANGED <<now, map, saved, call, ran, late>>
    PROVE  HoldInv'
<1>1. \A c \in Comps : resv'[c] = NoResv \/ resv'[c] = resv[c]
    BY DEF Drop
<1>2. RowsExpire'
    BY <1>1, StillExpire DEF HoldInv
<1>3. ASSUME NEW b \in Clients PROVE InHand(b)'
    BY OtherHolds
<1> QED
    BY <1>2, <1>3 DEF HoldInv

LEMMA UnaskedHolds ==
    ASSUME SRInv, SRInv', InTime, HoldInv, Reap \/ \E c \in Comps : AdminRemove(c)
    PROVE  HoldInv'
<1>1. ASSUME NEW c \in Comps, AdminRemove(c)
      PROVE  HoldInv'
    <2> DEFINE removed == {x \in {c} \cap present : Reserved(x)}
    <2>1. /\ Drop(removed) /\ UNCHANGED <<rows, nextGen, now, map, saved, ran, call, late>>
          /\ revoked' = revoked \cup {<<c, resv[c].gen>>}
        BY <1>1 DEF AdminRemove, DeleteCompReservationsForce, client
    <2>2. Moves
        BY <2>1, DropMoves DEF SRInv
    <2> QED
        BY <2>1, <2>2, DropHolds
<1>2. CASE Reap
    <2> DEFINE expired == {c \in Comps : Expired(c)}
    <2>1. Drop(expired) /\ UNCHANGED <<rows, nextGen, now, map, saved, ran, call, late, revoked>>
        BY <1>2 DEF Reap, DeleteCompReservationsExpired, client
    <2>2. \A c \in expired : resv[c].exp <= now
        BY DEF Expired, SRInv, ServerInv, Entries
    <2>3. Moves
        BY <2>1, <2>2, DropMoves DEF SRInv
    <2> QED
        BY <2>1, <2>3, DropHolds
<1> QED
    BY <1>1, <1>2

\* The loop of every client went round, and nothing is on its way.
LEMMA ClockHolds ==
    ASSUME SRInv, InTime, HoldInv, Clock
    PROVE  HoldInv'
<1>1. /\ UNCHANGED <<resv, map, saved, call, late>> /\ now' = now + 1
      /\ ran' = [a \in Clients |-> FALSE]
      /\ \A a \in Clients : ran[a] /\ \A th \in Threads : call[a][th].at = "idle"
    BY DEF Clock, Tick, InTime, Idling
<1>2. ASSUME NEW a \in Clients, NEW c \in Comps
      PROVE  AllOutlasted(a, c)' /\ HeldLasts(a, c)' /\ AnswersLast(a, c)'
    <2>1. ran[a] /\ ~ran'[a] /\ call[a]["app"].at = "idle" /\ call[a]["loop"].at = "idle"
        BY <1>1 DEF Threads
    <2>2. AllOutlasted(a, c)'
        BY <1>1, InHandNow DEF AllOutlasted, Outlasted
    <2>3. HeldLasts(a, c)'
        BY <1>1, <2>1, InHandNow DEF HeldLasts, Holds, Renewing
    <2>4. AnswersLast(a, c)'
        BY <1>1, <2>1 DEF AnswersLast, Gets
    <2> QED
        BY <2>2, <2>3, <2>4
<1> QED
    BY <1>1, <1>2 DEF HoldInv, RowsExpire, InHand

LEMMA InitHoldInv == SRInit => HoldInv
<1> SUFFICES ASSUME SRInit PROVE HoldInv
    OBVIOUS
<1>1. /\ late = {} /\ ran = [a \in Clients |-> FALSE] /\ \A c \in Comps : resv[c].gen = 0
      /\ \A a \in Clients : /\ \A c \in Comps : map[a][c].gen = 0 /\ saved[a][c].gen = 0
                            /\ \A th \in Threads : call[a][th] = NoCall
    BY NothingIs DEF SRInit, Init, NoEntries
<1>2. \A a \in Clients, c \in Comps :
         AllOutlasted(a, c) /\ HeldLasts(a, c) /\ AnswersLast(a, c)
    BY <1>1, IdleIs, NothingIs DEF AllOutlasted, Outlasted, HeldLasts, Holds, AnswersLast, Gets, Threads
<1> QED
    BY <1>1, <1>2 DEF HoldInv, RowsExpire, InHand

LEMMA StepHoldInv ==
    ASSUME SRInv, SRInv', InTime, HoldInv, [SRNext]_srVars
    PROVE  HoldInv'
<1>1. CASE \E a \in Clients : AppCall(a) \/ Loop(a) \/ Restart(a)
    BY <1>1, SendHolds, LoopCheckHolds, LoopNothingHolds, LoopScanHolds, RestartHolds DEF Loop
<1>2. ASSUME NEW a \in Clients, NEW th \in Threads, Receive(a, th)
      PROVE  HoldInv'
    BY <1>2, AppReceiveHolds, LoopReceiveHolds DEF Threads
<1>3. CASE \E a \in Clients, th \in Threads : Serve(a, th)
    BY <1>3, ServeHolds
<1>4. /\ \A a \in Clients, th \in Threads : ~Retry(a, th) /\ ~TimeOut(a, th)
      /\ \A r \in late : ~Arrive(r)
    <2>1. ~Lossy /\ late = {}
        BY DEF InTime, HoldInv
    <2>2. \A a \in Clients, th \in Threads : ~Retry(a, th) /\ ~TimeOut(a, th)
        BY <2>1 DEF Retry, TimeOut
    <2> QED
        BY <2>1, <2>2
<1>5. CASE Reap \/ \E c \in Comps : AdminRemove(c)
    BY <1>5, UnaskedHolds
<1>6. CASE Clock
    BY <1>6, ClockHolds
<1>7. CASE UNCHANGED srVars
    <2>1. UNCHANGED <<resv, now, map, saved, call, ran, late>>
        BY <1>7 DEF srVars, server, vars
    <2> QED
        BY <2>1 DEF HoldInv, RowsExpire, InHand, AllOutlasted, Outlasted,
                    HeldLasts, Holds, Renewing, AnswersLast, Gets
<1> QED
    BY <1>1, <1>2, <1>3, <1>4, <1>5, <1>6, <1>7 DEF SRNext

LEMMA HeldLastsIs == SRInv /\ HoldInv => HeldDoesNotExpire
<1> SUFFICES ASSUME SRInv, HoldInv, NEW a \in Clients, NEW c \in Comps,
                    Holds(a, c), resv[c].gen = map[a][c].gen
             PROVE  ~Expired(c)
    BY DEF HeldDoesNotExpire
<1>1. now < resv[c].exp /\ now \in Nat /\ resv[c].exp \in Nat
    BY InHandNow DEF HeldLasts, SRInv, ServerInv, Entries
<1> QED
    BY <1>1 DEF Expired

\* A reservation that a client has in its map does not expire at the server, whatever its
\* application asks for meanwhile, as long as calls are prompt: the loop (interface.go:125-161,
\* every 10 s) renews what expires within the window, of the new expiration its check has
\* fetched, and whatever the application gets is longer than a tick.
THEOREM HeldDoesNotExpireHolds ==
    ASSUME InTime
    PROVE  SRSpec => []HeldDoesNotExpire
<1>1. SRInit => HoldInv
    BY InitHoldInv
<1>2. SRInv /\ SRInv' /\ HoldInv /\ [SRNext]_srVars => HoldInv'
    BY StepHoldInv
<1> QED
    BY <1>1, <1>2, InitSRInv, StepSRInv, HeldLastsIs, PTL DEF SRSpec

=============================================================================
