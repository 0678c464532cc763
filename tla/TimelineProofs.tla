--------------------------- MODULE TimelineProofs ---------------------------
(***************************************************************************)
(* The board shows a timeline as it is (TimelineView): its rows are the    *)
(* events, grouped by runs, each under an id of its own; its cards show    *)
(* their rows; and every row in sight has a card.  And the lanes that the  *)
(* server puts turns in (SessionTimeline) are conversations, and what it   *)
(* answers, from its caches or not, has every turn that is whole on disk;  *)
(* and the statistics beside a board count what is on it (StatsDialog).    *)
(* For all logs and lengths.                                               *)
(*                                                                         *)
(* groupToolEvents and the matching of turns to lanes are folds.  What a   *)
(* fold has made of the first i elements is proved of all i with the least *)
(* i that it does not hold of; of all sequences by Append.                 *)
(***************************************************************************)
EXTENDS TimelineView, StatsDialog, SequenceTheorems, FiniteSetTheorems, WellFoundedInduction, TLAPS

-----------------------------------------------------------------------------
(* Recursion and induction over the numbers up to n. *)

LessThan == {p \in Nat \X Nat : p[1] < p[2]}

LEMMA LeastExists ==
    ASSUME NEW S, S \subseteq Nat, S # {}
    PROVE  \E n \in S : n \in Nat /\ \A m \in S : n <= m
<1>1. LessThan = OpToRel(<, Nat)
  BY DEF OpToRel, LessThan
<1>2. IsWellFoundedOn(LessThan, Nat)
  BY <1>1, NatLessThanWellFounded
<1>3. PICK n \in S : \A m \in S : ~(<<m, n>> \in LessThan)
  BY <1>2, WFMin
<1>4. n \in Nat /\ \A m \in S : m \in Nat /\ ~(m < n)
  BY <1>3 DEF LessThan
<1>5. \A m \in S : n <= m
  BY <1>4
<1>6. QED
  BY <1>4, <1>5

(* G goes from each number to the next. *)
Climbs(G, n) == 0 \in G /\ \A i \in 1..n : i - 1 \in G => i \in G

LEMMA Climbing ==
    ASSUME NEW n \in Nat, NEW G, Climbs(G, n)
    PROVE  \A i \in 0..n : i \in G
<1> DEFINE S == {i \in 0..n : i \notin G}
<1>1. SUFFICES ASSUME S # {} PROVE FALSE
  OBVIOUS
<1>2. S \subseteq Nat
  OBVIOUS
<1>3. PICK m \in S : m \in Nat /\ \A l \in S : m <= l
  BY <1>1, <1>2, LeastExists
<1>4. m \in 1..n /\ m \notin G
  BY <1>3 DEF Climbs
<1>5. m - 1 \in 0..n /\ m - 1 \notin S
  BY <1>3, <1>4
<1>6. m - 1 \in G
  BY <1>5
<1>7. QED
  BY <1>4, <1>6 DEF Climbs

(* f begins with a and goes on by F. *)
Unrolls(f, n, a, F) == f[0] = a /\ \A i \in 1..n : f[i] = F[<<f[i - 1], i>>]

LEMMA RecursionExists ==
    ASSUME NEW S, NEW a \in S, NEW n \in Nat, NEW F \in [S \X (1..n) -> S]
    PROVE  \E f \in [0..n -> S] : Unrolls(f, n, a, F)
<1> DEFINE G == {m \in 0..n : \E f \in [0..m -> S] : Unrolls(f, m, a, F)}
<1>1. 0 \in G
  <2>1. [i \in 0..0 |-> a] \in [0..0 -> S] /\ Unrolls([i \in 0..0 |-> a], 0, a, F)
    BY DEF Unrolls
  <2>2. QED
    BY <2>1
<1>2. ASSUME NEW m \in 1..n, m - 1 \in G
      PROVE  m \in G
  <2>1. PICK f \in [0..(m - 1) -> S] : Unrolls(f, m - 1, a, F)
    BY <1>2
  <2> DEFINE x == F[<<f[m - 1], m>>]
             g == [i \in 0..m |-> IF i = m THEN x ELSE f[i]]
  <2>2. f[m - 1] \in S /\ x \in S
    BY <2>1
  <2>3. g \in [0..m -> S]
    BY <2>2
  <2>4. g[0] = a
    BY <2>1 DEF Unrolls
  <2>5. ASSUME NEW i \in 1..m
        PROVE  g[i] = F[<<g[i - 1], i>>]
    <3>1. CASE i = m
      <4>1. g[m] = x /\ g[m - 1] = f[m - 1]
        OBVIOUS
      <4>2. QED
        BY <3>1, <4>1
    <3>2. CASE i # m
      <4>1. i \in 1..(m - 1) /\ g[i] = f[i] /\ g[i - 1] = f[i - 1]
        BY <3>2
      <4>2. QED
        BY <2>1, <4>1 DEF Unrolls
    <3>3. QED
      BY <3>1, <3>2
  <2>6. Unrolls(g, m, a, F)
    BY <2>4, <2>5 DEF Unrolls
  <2>7. QED
    BY <2>3, <2>6
<1>3. Climbs(G, n)
  BY <1>1, <1>2 DEF Climbs
<1>4. n \in G
  <2> HIDE DEF G
  <2>1. n \in 0..n
    OBVIOUS
  <2>2. QED
    BY <1>3, <2>1, Climbing
<1>5. QED
  BY <1>4

-----------------------------------------------------------------------------
(* Sequences that grow, and their flattening. *)

LEMMA AppendIs ==
    ASSUME NEW S, NEW s \in Seq(S), NEW x \in S
    PROVE  /\ Append(s, x) \in Seq(S) /\ Len(s) \in Nat
           /\ DOMAIN s = 1..Len(s) /\ Len(Append(s, x)) = Len(s) + 1
           /\ DOMAIN Append(s, x) = 1..Len(s) + 1
           /\ \A k \in 1..Len(s) : Append(s, x)[k] = s[k]
           /\ Append(s, x)[Len(s) + 1] = x /\ Append(s, x) # <<>>
<1>1. /\ Append(s, x) \in Seq(S) /\ Len(Append(s, x)) = Len(s) + 1
      /\ \A k \in 1..Len(s) : Append(s, x)[k] = s[k]
      /\ Append(s, x)[Len(s) + 1] = x
  BY AppendProperties
<1>2. /\ Len(s) \in Nat /\ DOMAIN s = 1..Len(s)
      /\ DOMAIN Append(s, x) = 1..Len(Append(s, x))
  BY <1>1, LenProperties
<1>3. Append(s, x) # <<>>
  BY <1>1, <1>2, EmptySeq
<1>4. QED
  BY <1>1, <1>2, <1>3

(* One after the other. *)
Glued(g, ss) == g[0] = <<>> /\ \A i \in 1..Len(ss) : g[i] = g[i - 1] \o ss[i]

LEMMA FlattenIs ==
    ASSUME NEW E, NEW ss \in Seq(Seq(E))
    PROVE  \E g \in [0..Len(ss) -> Seq(E)] : Glued(g, ss) /\ FlattenSeq(ss) = g[Len(ss)]
<1> DEFINE n == Len(ss)
           F == [p \in Seq(E) \X (1..n) |-> p[1] \o ss[p[2]]]
           Flat(f) == f = [i \in 1..n |-> IF i = 1 THEN ss[i] ELSE f[i - 1] \o ss[i]]
<1>1. n \in Nat /\ \A i \in 1..n : ss[i] \in Seq(E)
  BY LenProperties, ElementOfSeq
<1>2. F \in [Seq(E) \X (1..n) -> Seq(E)]
  <2>1. \A s \in Seq(E), i \in 1..n : s \o ss[i] \in Seq(E)
    BY <1>1, ConcatProperties
  <2>2. QED
    BY <2>1
<1>3. <<>> \in Seq(E)
  BY EmptySeq
<1>4. PICK g \in [0..n -> Seq(E)] : Unrolls(g, n, <<>>, F)
  <2> HIDE DEF n, F
  <2>1. QED
    BY <1>1, <1>2, <1>3, RecursionExists
<1>5. Glued(g, ss)
  <2>1. ASSUME NEW i \in 1..n PROVE g[i] = g[i - 1] \o ss[i]
    <3>1. i - 1 \in 0..n
      BY <1>1
    <3>2. g[i - 1] \in Seq(E)
      BY <1>4, <3>1
    <3>3. F[<<g[i - 1], i>>] = g[i - 1] \o ss[i]
      BY <3>2
    <3>4. QED
      BY <1>4, <3>3 DEF Unrolls
  <2>2. QED
    BY <1>4, <2>1 DEF Unrolls, Glued
<1>6. \A i \in 1..n : g[i] = IF i = 1 THEN ss[i] ELSE g[i - 1] \o ss[i]
  <2>1. ASSUME NEW i \in 1..n PROVE g[i] = IF i = 1 THEN ss[i] ELSE g[i - 1] \o ss[i]
    <3>1. g[i] = g[i - 1] \o ss[i] /\ g[0] = <<>>
      BY <1>5 DEF Glued
    <3>2. CASE i = 1
      <4>0. i - 1 = 0 /\ ss[i] \in Seq(E)
        BY <1>1, <3>2
      <4>1. g[1] = <<>> \o ss[1] /\ ss[1] \in Seq(E)
        BY <3>1, <3>2, <4>0
      <4>2. g[1] = ss[1]
        BY <4>1, ConcatEmptySeq
      <4>3. QED
        BY <3>2, <4>2
    <3>3. QED
      BY <3>1, <3>2
  <2>2. QED
    BY <2>1
<1>7. \E f : Flat(f)
  <2> DEFINE f == [i \in 1..n |-> g[i]]
  <2>1. \A i \in 1..n : f[i] = IF i = 1 THEN ss[i] ELSE f[i - 1] \o ss[i]
    BY <1>1, <1>6
  <2>2. f = [i \in 1..n |-> f[i]]
    OBVIOUS
  <2> HIDE DEF f
  <2>3. Flat(f)
    BY <2>1, <2>2
  <2>4. QED
    BY <2>3
<1> DEFINE flatten == CHOOSE f : Flat(f)
<1>8. Flat(flatten)
  <2> HIDE DEF Flat
  <2>1. QED
    BY <1>7
<1>9. FlattenSeq(ss) = IF n = 0 THEN ss ELSE flatten[n]
  BY DEF FlattenSeq
<1> HIDE DEF flatten
<1>10. \A i \in 1..n : flatten[i] = IF i = 1 THEN ss[i] ELSE flatten[i - 1] \o ss[i]
  BY <1>8
<1> DEFINE G == {i \in 0..n : i # 0 => flatten[i] = g[i]}
<1>11. Climbs(G, n)
  BY <1>1, <1>6, <1>10 DEF Climbs
<1>12. CASE n = 0
  <2>1. ss = <<>>
    BY <1>12, EmptySeq
  <2>2. QED
    BY <1>5, <1>9, <1>12, <2>1 DEF Glued
<1>13. CASE n # 0
  <2>1. n \in 0..n
    BY <1>1
  <2>2. n \in G
    <3> HIDE DEF G
    <3>1. QED
      BY <1>1, <1>11, <2>1, Climbing
  <2>3. QED
    BY <1>5, <1>9, <1>13, <2>2
<1>14. QED
  BY <1>12, <1>13

LEMMA FlattenGrows ==
    ASSUME NEW E, NEW ss \in Seq(Seq(E)), NEW s \in Seq(E)
    PROVE  /\ FlattenSeq(ss) \in Seq(E)
           /\ FlattenSeq(Append(ss, s)) = FlattenSeq(ss) \o s
<1> DEFINE n == Len(ss)
           tt == Append(ss, s)
<1>1. /\ tt \in Seq(Seq(E)) /\ n \in Nat /\ Len(tt) = n + 1
      /\ \A k \in 1..n : tt[k] = ss[k]
      /\ tt[n + 1] = s
  BY AppendIs
<1>2. PICK g \in [0..n -> Seq(E)] : Glued(g, ss) /\ FlattenSeq(ss) = g[n]
  BY FlattenIs
<1> HIDE DEF tt
<1>3. PICK h \in [0..Len(tt) -> Seq(E)] : Glued(h, tt) /\ FlattenSeq(tt) = h[Len(tt)]
  BY <1>1, FlattenIs
<1> HIDE DEF n
<1> DEFINE G == {i \in 0..n : h[i] = g[i]}
<1>4. Climbs(G, n)
  <2>1. n = Len(ss)
    BY DEF n
  <2>2. h[0] = g[0]
    BY <1>2, <1>3 DEF Glued
  <2>3. ASSUME NEW i \in 1..n, h[i - 1] = g[i - 1] PROVE h[i] = g[i]
    <3>1. g[i] = g[i - 1] \o ss[i]
      BY <1>2, <2>1 DEF Glued
    <3>2. i \in 1..Len(tt) /\ tt[i] = ss[i]
      BY <1>1
    <3>3. h[i] = h[i - 1] \o tt[i]
      BY <1>3, <3>2 DEF Glued
    <3>4. QED
      BY <2>3, <3>1, <3>2, <3>3
  <2>4. 0 \in G
    BY <1>1, <2>2
  <2>5. \A i \in 1..n : i - 1 \in G => i \in G
    BY <1>1, <2>3
  <2>6. QED
    BY <2>4, <2>5 DEF Climbs
<1>5. n \in G
  <2>1. n \in 0..n
    BY <1>1
  <2> HIDE DEF G
  <2>2. QED
    BY <1>1, <1>4, <2>1, Climbing
<1>6. h[n + 1] = h[n] \o s
  <2>1. n + 1 \in 1..Len(tt) /\ (n + 1) - 1 = n
    <3>1. n \in Nat /\ Len(tt) = n + 1
      BY <1>1
    <3>2. QED
      BY <3>1
  <2>2. h[n + 1] = h[(n + 1) - 1] \o tt[n + 1]
    BY <1>3, <2>1 DEF Glued
  <2>3. QED
    BY <1>1, <2>1, <2>2
<1>7. QED
  BY <1>1, <1>2, <1>3, <1>5, <1>6 DEF tt

-----------------------------------------------------------------------------
(* What groupToolEvents makes: rows, the current group, and the number of  *)
(* groups so far.                                                          *)

GroupId == [turn : Nat, group : Tool \cup {"message"}, index : Nat]
Row == [id : Event \cup GroupId, events : Seq(Event)]
Acc == [rows : Seq(Row), current : Seq(Event), index : Nat]

Distinct(events) == \A i, j \in DOMAIN events : events[i] = events[j] => i = j

EventsOf(rows) == [k \in DOMAIN rows |-> rows[k].events]
Placed(rows) == UNION {Range(rows[k].events) : k \in DOMAIN rows}
Seen(events, i) == {events[p] : p \in 1..i}

IsRun(s) ==
    /\ s # <<>> /\ (Len(s) # 1 => Head(s).kind \in Tool)
    /\ \A p \in DOMAIN s : s[p].kind = Head(s).kind /\ s[p].turn = Head(s).turn

LastOf(rows) == Head(rows[Len(rows)].events)

(* A row that begins with e would be the next one. *)
Ends(rows, e) == rows # <<>> => ~SameRun(LastOf(rows), e)

Runs(rows) ==
    /\ \A k \in DOMAIN rows : IsRun(rows[k].events)
    /\ \A k \in 1..Len(rows) - 1 : ~SameRun(Head(rows[k].events), Head(rows[k + 1].events))

(* A row is named after one of its events, or has a number of its own. *)
Named(rows, index) ==
    /\ \A k \in DOMAIN rows :
          IF rows[k].id \in Event THEN rows[k].id \in Range(rows[k].events)
                                  ELSE rows[k].id.index < index
    /\ \A k, l \in DOMAIN rows : rows[k].id = rows[l].id => k = l

(* The rows and the current group are the first i events. *)
Covers(rows, current, events, i) ==
    /\ FlattenSeq(EventsOf(rows)) \o current = SubSeq(events, 1, i)
    /\ Placed(rows) \cup Range(current) = Seen(events, i)
    /\ Placed(rows) \cap Range(current) = {}

Sound(rows, current, index, events, i) ==
    Runs(rows) /\ Named(rows, index) /\ Covers(rows, current, events, i)

Good(acc, events, i) ==
    /\ acc \in Acc /\ Sound(acc.rows, acc.current, acc.index, events, i)
    /\ IF acc.current = <<>>
       THEN acc.rows # <<>> => LastOf(acc.rows).kind \notin Tool
       ELSE /\ IsRun(acc.current) /\ Head(acc.current).kind \in Tool
            /\ Ends(acc.rows, Head(acc.current))

LEMMA HeadIs ==
    ASSUME NEW S, NEW s \in Seq(S), s # <<>>
    PROVE  Head(s) = s[1] /\ s[1] \in S /\ Len(s) \in Nat \ {0} /\ DOMAIN s = 1..Len(s)
<1>1. Len(s) \in Nat \ {0} /\ DOMAIN s = 1..Len(s)
  BY EmptySeq, LenProperties
<1>2. s[1] \in S
  BY <1>1, ElementOfSeq
<1>3. Head(s) = s[1]
  OBVIOUS
<1>4. QED
  BY <1>1, <1>2, <1>3

LEMMA OneIs ==
    ASSUME NEW S, NEW e \in S
    PROVE  /\ <<e>> \in Seq(S) /\ <<e>> # <<>> /\ Len(<<e>>) = 1 /\ <<e>>[1] = e
           /\ Head(<<e>>) = e /\ Range(<<e>>) = {e} /\ DOMAIN <<e>> = 1..1
<1>1. /\ <<e>> \in Seq(S) /\ Len(<<e>>) = 1 /\ <<e>>[1] = e /\ DOMAIN <<e>> = 1..1
  OBVIOUS
<1>2. <<e>> # <<>>
  BY <1>1, EmptySeq
<1>3. Head(<<e>>) = e
  BY <1>1, <1>2, HeadIs
<1>4. Range(<<e>>) = {e}
  BY <1>1 DEF Range
<1>5. QED
  BY <1>1, <1>2, <1>3, <1>4

LEMMA AppendGlues ==
    ASSUME NEW S, NEW s \in Seq(S), NEW e \in S
    PROVE  Append(s, e) = s \o <<e>> /\ Range(Append(s, e)) = Range(s) \cup {e}
<1> DEFINE a == Append(s, e)
           b == s \o <<e>>
<1>1. /\ a \in Seq(S) /\ Len(s) \in Nat
      /\ DOMAIN s = 1..Len(s) /\ Len(a) = Len(s) + 1
      /\ DOMAIN a = 1..Len(s) + 1
      /\ \A k \in 1..Len(s) : a[k] = s[k]
      /\ a[Len(s) + 1] = e
  BY AppendIs
<1>2. <<e>> \in Seq(S) /\ Len(<<e>>) = 1 /\ <<e>>[1] = e
  BY OneIs
<1>3. /\ b \in Seq(S) /\ Len(b) = Len(s) + 1
      /\ \A i \in 1..Len(s) + 1 : b[i] = IF i <= Len(s) THEN s[i] ELSE <<e>>[i - Len(s)]
  BY <1>2, ConcatProperties
<1> HIDE DEF a, b
<1>4. ASSUME NEW i \in 1..Len(a) PROVE a[i] = b[i]
  <2>1. CASE i <= Len(s)
    BY <1>1, <1>3, <2>1
  <2>2. CASE i = Len(s) + 1
    <3>1. i - Len(s) = 1 /\ ~(i <= Len(s))
      BY <1>1, <2>2
    <3>2. QED
      BY <1>1, <1>2, <1>3, <2>2, <3>1
  <2>3. QED
    BY <1>1, <2>1, <2>2
<1>5. a = b
  BY <1>1, <1>3, <1>4, SeqEqual
<1>6. Range(a) = Range(s) \cup {e}
  <2>1. \A i \in 1..Len(s) + 1 : i \in 1..Len(s) \/ i = Len(s) + 1
    BY <1>1
  <2>2. \A x \in Range(a) : x \in Range(s) \cup {e}
    BY <1>1, <2>1 DEF Range
  <2>3. \A i \in 1..Len(s) : i \in 1..Len(s) + 1
    BY <1>1
  <2>4. Len(s) + 1 \in 1..Len(s) + 1
    BY <1>1
  <2>5. \A x \in Range(s) \cup {e} : x \in Range(a)
    BY <1>1, <2>3, <2>4 DEF Range
  <2>6. QED
    BY <2>2, <2>5
<1>7. QED
  BY <1>5, <1>6 DEF a, b

LEMMA EventsOfIs ==
    ASSUME NEW rows \in Seq(Row), NEW row \in Row
    PROVE  /\ EventsOf(rows) \in Seq(Seq(Event)) /\ row.events \in Seq(Event)
           /\ EventsOf(Append(rows, row)) = Append(EventsOf(rows), row.events)
           /\ FlattenSeq(EventsOf(rows)) \in Seq(Event)
           /\ FlattenSeq(EventsOf(Append(rows, row))) = FlattenSeq(EventsOf(rows)) \o row.events
<1> DEFINE n == Len(rows)
           es == EventsOf(rows)
           more == Append(rows, row)
<1>1. /\ more \in Seq(Row) /\ n \in Nat /\ DOMAIN rows = 1..n /\ DOMAIN more = 1..n + 1
      /\ \A k \in 1..n : more[k] = rows[k]
      /\ more[n + 1] = row
  BY AppendIs
<1>2. row.events \in Seq(Event) /\ \A k \in 1..n : rows[k].events \in Seq(Event)
  <2>1. \A k \in 1..n : rows[k] \in Row
    BY ElementOfSeq
  <2>2. QED
    BY <2>1 DEF Row
<1>3. es = [k \in 1..n |-> rows[k].events]
  BY <1>1 DEF EventsOf
<1>4. es \in [1..n -> Seq(Event)]
  BY <1>2, <1>3
<1>5. es \in Seq(Seq(Event)) /\ Len(es) = n
  BY <1>1, <1>4
<1> HIDE DEF es
<1>6. /\ Append(es, row.events) \in Seq(Seq(Event))
      /\ DOMAIN Append(es, row.events) = 1..n + 1
      /\ Len(Append(es, row.events)) = n + 1
      /\ \A k \in 1..n : Append(es, row.events)[k] = es[k]
      /\ Append(es, row.events)[n + 1] = row.events
  <2> HIDE DEF n
  <2>1. QED
    BY <1>2, <1>5, AppendIs
<1>7. EventsOf(more) = [k \in 1..n + 1 |-> more[k].events]
  BY <1>1 DEF EventsOf
<1>8. EventsOf(more) \in Seq(Seq(Event)) /\ Len(EventsOf(more)) = n + 1
  <2>1. \A k \in 1..n + 1 : more[k].events \in Seq(Event)
    <3>1. \A k \in 1..n + 1 : k \in 1..n \/ k = n + 1
      BY <1>1
    <3>2. QED
      BY <1>1, <1>2, <3>1
  <2>2. EventsOf(more) \in [1..n + 1 -> Seq(Event)]
    BY <1>7, <2>1
  <2>3. n + 1 \in Nat
    BY <1>1
  <2>4. QED
    BY <2>2, <2>3
<1>9. \A k \in 1..n + 1 : EventsOf(more)[k] = Append(es, row.events)[k]
  <2>1. \A k \in 1..n + 1 : k \in 1..n \/ k = n + 1
    BY <1>1
  <2>2. \A k \in 1..n + 1 : EventsOf(more)[k] = more[k].events
    BY <1>7
  <2>3. \A k \in 1..n : es[k] = rows[k].events
    BY <1>3
  <2>4. QED
    BY <1>1, <1>6, <2>1, <2>2, <2>3
<1>10. EventsOf(more) = Append(es, row.events)
  <2> HIDE DEF more, n
  <2>1. QED
    BY <1>6, <1>8, <1>9, SeqEqual
<1>11. /\ FlattenSeq(es) \in Seq(Event)
       /\ FlattenSeq(Append(es, row.events)) = FlattenSeq(es) \o row.events
  BY <1>2, <1>5, FlattenGrows
<1>12. QED
  BY <1>2, <1>5, <1>10, <1>11 DEF es, more

-----------------------------------------------------------------------------
(* A row is added to the rows. *)

LEMMA RowAdded ==
    ASSUME NEW rows \in Seq(Row), NEW row \in Row, NEW index \in Nat, NEW next \in Nat,
           Runs(rows), Named(rows, index), index <= next,
           IsRun(row.events), Ends(rows, Head(row.events)),
           Range(row.events) \cap Placed(rows) = {},
           IF row.id \in Event THEN row.id \in Range(row.events)
                               ELSE row.id.index = index /\ next = index + 1
    PROVE  /\ Append(rows, row) \in Seq(Row) /\ Append(rows, row) # <<>>
           /\ Runs(Append(rows, row)) /\ Named(Append(rows, row), next)
           /\ Placed(Append(rows, row)) = Placed(rows) \cup Range(row.events)
           /\ LastOf(Append(rows, row)) = Head(row.events)
<1> DEFINE n == Len(rows)
           more == Append(rows, row)
<1>1. /\ more \in Seq(Row) /\ n \in Nat /\ DOMAIN rows = 1..n /\ DOMAIN more = 1..n + 1
      /\ Len(more) = n + 1 /\ more # <<>>
      /\ \A k \in 1..n : more[k] = rows[k]
      /\ more[n + 1] = row
  BY AppendIs
<1> HIDE DEF more
<1>2. LastOf(more) = Head(row.events)
  BY <1>1 DEF LastOf
<1>3. rows # <<>> => n # 0
  BY <1>1, EmptySeq
<1> HIDE DEF n
<1>4. \A k \in 1..n + 1 : k \in 1..n \/ k = n + 1
  BY <1>1
<1>5. n + 1 \in 1..n + 1 /\ \A k \in 1..n : k \in 1..n + 1
  BY <1>1
<1>6. Placed(more) = Placed(rows) \cup Range(row.events)
  <2>1. \A x \in Placed(more) : x \in Placed(rows) \cup Range(row.events)
    BY <1>1, <1>4 DEF Placed
  <2>2. \A x \in Placed(rows) \cup Range(row.events) : x \in Placed(more)
    BY <1>1, <1>5 DEF Placed
  <2>3. QED
    BY <2>1, <2>2
<1>7. Runs(more)
  <2>1. \A k \in DOMAIN more : IsRun(more[k].events)
    BY <1>1, <1>4 DEF Runs
  <2>2. ASSUME NEW k \in 1..Len(more) - 1
        PROVE  ~SameRun(Head(more[k].events), Head(more[k + 1].events))
    <3>1. CASE k \in 1..n - 1
      <4>1. k \in 1..n /\ k + 1 \in 1..n /\ n = Len(rows)
        BY <1>1, <3>1 DEF n
      <4>2. QED
        BY <1>1, <3>1, <4>1 DEF Runs
    <3>2. CASE k = n
      <4>1. n \in 1..n /\ n # 0 /\ n = Len(rows)
        BY <1>1, <2>2, <3>2 DEF n
      <4>2. rows # <<>>
        BY <4>1, EmptySeq
      <4>3. more[k] = rows[Len(rows)] /\ more[k + 1] = row
        BY <1>1, <3>2, <4>1
      <4>4. QED
        BY <4>2, <4>3 DEF Ends, LastOf
    <3>3. QED
      BY <1>1, <2>2, <3>1, <3>2
  <2>3. QED
    BY <2>1, <2>2 DEF Runs
<1>8. Named(more, next)
  <2>1. ASSUME NEW k \in 1..n
        PROVE  /\ rows[k].id \in Event => rows[k].id \in Placed(rows)
               /\ rows[k].id \notin Event => rows[k].id.index < index /\ rows[k].id.index \in Nat
    <3>1. IF rows[k].id \in Event THEN rows[k].id \in Range(rows[k].events)
                                  ELSE rows[k].id.index < index
      BY <1>1 DEF Named
    <3>2. rows[k] \in Row
      BY <1>1, ElementOfSeq DEF n
    <3>3. rows[k].id \notin Event => rows[k].id.index \in Nat
      BY <3>2 DEF Row, GroupId
    <3>4. QED
      BY <1>1, <3>1, <3>3 DEF Placed
  <2>2. ASSUME NEW k \in DOMAIN more
        PROVE  IF more[k].id \in Event THEN more[k].id \in Range(more[k].events)
                                       ELSE more[k].id.index < next
    <3>1. CASE k \in 1..n
      <4>1. more[k] = rows[k] /\ k \in DOMAIN rows
        BY <1>1, <3>1
      <4>2. rows[k].id \in Event => rows[k].id \in Range(rows[k].events)
        BY <4>1 DEF Named
      <4>3. rows[k].id \notin Event => rows[k].id.index < next
        BY <2>1, <3>1
      <4>4. QED
        BY <4>1, <4>2, <4>3
    <3>2. CASE k = n + 1
      BY <1>1, <3>2
    <3>3. QED
      BY <1>1, <1>4, <3>1, <3>2
  <2>3. ASSUME NEW k \in 1..n PROVE rows[k].id # row.id
    <3>1. CASE row.id \in Event
      BY <2>1, <3>1
    <3>2. CASE row.id \notin Event
      BY <2>1, <3>2
    <3>3. QED
      BY <3>1, <3>2
  <2>4. ASSUME NEW k \in DOMAIN more, NEW l \in DOMAIN more, more[k].id = more[l].id
        PROVE  k = l
    <3>1. CASE k \in 1..n /\ l \in 1..n
      BY <1>1, <2>4, <3>1 DEF Named
    <3>2. CASE k = n + 1 \/ l = n + 1
      BY <1>1, <1>4, <2>3, <2>4, <3>2
    <3>3. QED
      BY <1>1, <1>4, <3>1, <3>2
  <2>5. QED
    BY <2>2, <2>4 DEF Named
<1>9. QED
  BY <1>1, <1>2, <1>6, <1>7, <1>8 DEF more

(* The current group, if there is one, becomes a row. *)
LEMMA FlushedGood ==
    ASSUME NEW acc, NEW events \in Seq(Event), NEW i \in 0..Len(events), Good(acc, events, i)
    PROVE  /\ Flushed(acc) \in Acc /\ Flushed(acc).current = <<>>
           /\ Sound(Flushed(acc).rows, <<>>, Flushed(acc).index, events, i)
           /\ \A e \in Event : ~CanJoin(acc.current, e) => Ends(Flushed(acc).rows, e)
<1> DEFINE rows == acc.rows
           cur == acc.current
<1>1. /\ acc \in Acc /\ rows \in Seq(Row) /\ cur \in Seq(Event) /\ acc.index \in Nat
      /\ acc = [rows |-> rows, current |-> cur, index |-> acc.index]
      /\ Runs(rows) /\ Named(rows, acc.index) /\ Covers(rows, cur, events, i)
  BY DEF Good, Acc, Sound
<1>2. CASE cur = <<>>
  <2>1. Flushed(acc) = acc
    BY <1>2 DEF Flushed, FlushedAs
  <2>2. ASSUME NEW e \in Event, ~CanJoin(cur, e) PROVE Ends(rows, e)
    <3>1. e.kind \notin Tool
      BY <1>2, <2>2 DEF CanJoin
    <3>2. QED
      BY <3>1 DEF Ends, SameRun
  <2>3. QED
    BY <1>1, <1>2, <2>1, <2>2 DEF Sound
<1>3. CASE cur # <<>>
  <2>1. /\ IsRun(cur) /\ Head(cur).kind \in Tool /\ Ends(rows, Head(cur))
        /\ Head(cur) = cur[1] /\ Head(cur) \in Event /\ Len(cur) \in Nat \ {0}
        /\ DOMAIN cur = 1..Len(cur)
    BY <1>1, <1>3, HeadIs DEF Good
  <2>2. \E row \in Row, next \in Nat :
          /\ row.events = cur /\ acc.index <= next
          /\ IF row.id \in Event THEN row.id \in Range(row.events)
                                 ELSE row.id.index = acc.index /\ next = acc.index + 1
          /\ Flushed(acc) = [rows |-> Append(rows, row), current |-> <<>>, index |-> next]
    <3>1. CASE Len(cur) = 1
      <4> DEFINE row == Single(Head(cur))
      <4>1. row = [id |-> Head(cur), events |-> <<Head(cur)>>]
        BY DEF Single
      <4>2. <<Head(cur)>> = cur
        <5>1. /\ <<Head(cur)>> \in Seq(Event) /\ Len(<<Head(cur)>>) = 1
              /\ <<Head(cur)>>[1] = Head(cur)
          BY <2>1, OneIs
        <5>2. \A k \in 1..Len(cur) : cur[k] = <<Head(cur)>>[k]
          BY <2>1, <3>1, <5>1
        <5>3. QED
          BY <1>1, <3>1, <5>1, <5>2, SeqEqual
      <4>3. row \in Row /\ row.events = cur /\ row.id = Head(cur)
        BY <1>1, <2>1, <4>1, <4>2 DEF Row
      <4>4. Head(cur) \in Range(cur)
        BY <2>1 DEF Range
      <4>5. Flushed(acc) = [rows |-> Append(rows, row), current |-> <<>>, index |-> acc.index]
        <5>1. Flushed(acc) = [acc EXCEPT !.rows = Append(rows, row), !.current = <<>>]
          BY <1>3, <3>1 DEF Flushed, FlushedAs
        <5> HIDE DEF row, rows, cur
        <5>2. QED
          BY <1>1, <5>1
      <4> HIDE DEF row
      <4>6. acc.index \in Nat /\ acc.index <= acc.index
        BY <1>1
      <4>7. row.id \in Event /\ row.id \in Range(row.events)
        BY <2>1, <4>3, <4>4
      <4>8. QED
        BY <4>3, <4>5, <4>6, <4>7
    <3>2. CASE Len(cur) # 1
      <4> DEFINE row == Group(cur, acc.index)
                 id == [turn |-> Head(cur).turn, group |-> Head(cur).kind, index |-> acc.index]
      <4>1. row = [id |-> id, events |-> cur]
        BY DEF Group
      <4>2. id \in GroupId /\ id.index = acc.index
        BY <1>1, <2>1 DEF GroupId, Event
      <4>3. id \notin Event
        <5>1. DOMAIN id = {"turn", "group", "index"}
          OBVIOUS
        <5>2. \A e \in Event : DOMAIN e = {"turn", "kind", "index"}
          BY DEF Event
        <5>3. "group" \notin {"turn", "kind", "index"}
          OBVIOUS
        <5>4. QED
          BY <5>1, <5>2, <5>3
      <4> HIDE DEF id
      <4>4. row \in Row /\ row.events = cur /\ row.id = id
        BY <1>1, <4>1, <4>2 DEF Row
      <4>5. Flushed(acc) = [rows |-> Append(rows, row), current |-> <<>>, index |-> acc.index + 1]
        BY <1>3, <3>2 DEF Flushed, FlushedAs
      <4> HIDE DEF row
      <4>6. acc.index + 1 \in Nat /\ acc.index <= acc.index + 1
        BY <1>1
      <4>7. QED
        BY <4>2, <4>3, <4>4, <4>5, <4>6
    <3>3. QED
      BY <3>1, <3>2
  <2>3. PICK row \in Row, next \in Nat :
          /\ row.events = cur /\ acc.index <= next
          /\ IF row.id \in Event THEN row.id \in Range(row.events)
                                 ELSE row.id.index = acc.index /\ next = acc.index + 1
          /\ Flushed(acc) = [rows |-> Append(rows, row), current |-> <<>>, index |-> next]
    BY <2>2
  <2> DEFINE more == Append(rows, row)
             f == Flushed(acc)
  <2> HIDE DEF rows, cur
  <2>4. Range(row.events) \cap Placed(rows) = {}
    BY <1>1, <2>3 DEF Covers
  <2>5. /\ more \in Seq(Row) /\ more # <<>>
        /\ Runs(more) /\ Named(more, next)
        /\ Placed(more) = Placed(rows) \cup Range(cur)
        /\ LastOf(more) = Head(cur)
    BY <1>1, <2>1, <2>3, <2>4, RowAdded
  <2>6. /\ FlattenSeq(EventsOf(more)) = FlattenSeq(EventsOf(rows)) \o cur
        /\ FlattenSeq(EventsOf(rows)) \in Seq(Event)
    BY <1>1, <2>3, EventsOfIs
  <2> HIDE DEF more
  <2>7. f.rows = more /\ f.current = <<>> /\ f.index = next /\ f \in Acc
    <3>1. f = [rows |-> more, current |-> <<>>, index |-> next]
      BY <2>3 DEF more
    <3>2. <<>> \in Seq(Event)
      BY EmptySeq
    <3>3. QED
      BY <2>5, <3>1, <3>2 DEF Acc
  <2> HIDE DEF f
  <2>8. Covers(more, <<>>, events, i)
    <3>1. (FlattenSeq(EventsOf(rows)) \o cur) \in Seq(Event)
      BY <1>1, <2>6, ConcatProperties
    <3>2. FlattenSeq(EventsOf(more)) \o <<>> = FlattenSeq(EventsOf(rows)) \o cur
      BY <2>6, <3>1, ConcatEmptySeq
    <3>3. Range(<<>>) = {}
      BY DEF Range
    <3>4. QED
      BY <1>1, <2>5, <3>2, <3>3 DEF Covers
  <2>9. Sound(f.rows, <<>>, f.index, events, i)
    BY <2>5, <2>7, <2>8 DEF Sound
  <2>10. ASSUME NEW e \in Event, ~CanJoin(cur, e) PROVE Ends(more, e)
    <3>1. SameRun(Head(cur), e) => CanJoin(cur, e)
      BY <2>1 DEF SameRun, CanJoin
    <3>2. QED
      BY <2>5, <2>10, <3>1 DEF Ends
  <2>11. QED
    BY <2>7, <2>9, <2>10 DEF f, cur
<1>4. QED
  BY <1>2, <1>3

(* The next event joins the current group, or comes after it. *)
LEMMA JoinedGood ==
    ASSUME NEW acc, NEW events \in Seq(Event), Distinct(events),
           NEW i \in 1..Len(events), Good(acc, events, i - 1)
    PROVE  Good(Joined(acc, events[i]), events, i)
<1> DEFINE e == events[i]
           rows == acc.rows
           cur == acc.current
           fl == Flushed(acc)
<1>1. e \in Event /\ Len(events) \in Nat /\ DOMAIN events = 1..Len(events)
  BY LenProperties, ElementOfSeq
<1>2. /\ Seen(events, i) = Seen(events, i - 1) \cup {e} /\ e \notin Seen(events, i - 1)
  <2>1. \A p \in 1..i - 1 : p \in 1..i /\ p \in DOMAIN events /\ p # i
    BY <1>1
  <2>2. \A p \in 1..i : p \in 1..i - 1 \/ p = i
    BY <1>1
  <2>3. i \in 1..i /\ i \in DOMAIN events
    BY <1>1
  <2>4. QED
    BY <2>1, <2>2, <2>3 DEF Seen, Distinct
<1>3. SubSeq(events, 1, i) = SubSeq(events, 1, i - 1) \o <<e>>
  <2>1. 1 \in 1..Len(events) /\ i \in 1..Len(events)
    BY <1>1
  <2>2. QED
    BY <2>1, SubSeqRecursiveSecond
<1>4. i - 1 \in 0..Len(events)
  BY <1>1
<1>5. /\ acc \in Acc /\ rows \in Seq(Row) /\ cur \in Seq(Event) /\ acc.index \in Nat
      /\ acc = [rows |-> rows, current |-> cur, index |-> acc.index]
      /\ Runs(rows) /\ Named(rows, acc.index) /\ Covers(rows, cur, events, i - 1)
  BY DEF Good, Acc, Sound
<1>6. /\ fl \in Acc /\ fl.current = <<>>
      /\ Sound(fl.rows, <<>>, fl.index, events, i - 1)
      /\ ~CanJoin(cur, e) => Ends(fl.rows, e)
  BY <1>1, <1>4, FlushedGood
<1>7. \A s : s \in Seq(Row) => EventsOf(s) \in Seq(Seq(Event)) /\ FlattenSeq(EventsOf(s)) \in Seq(Event)
  <2>1. [id |-> e, events |-> <<e>>] \in Row
    BY <1>1, OneIs DEF Row
  <2>2. QED
    BY <2>1, EventsOfIs
<1>8. /\ <<e>> \in Seq(Event) /\ <<e>> # <<>> /\ Head(<<e>>) = e /\ Range(<<e>>) = {e}
      /\ IsRun(<<e>>)
  <2>1. /\ <<e>> \in Seq(Event) /\ <<e>> # <<>> /\ Len(<<e>>) = 1 /\ <<e>>[1] = e
        /\ Head(<<e>>) = e /\ Range(<<e>>) = {e} /\ DOMAIN <<e>> = 1..1
    BY <1>1, OneIs
  <2>2. IsRun(<<e>>)
    BY <2>1 DEF IsRun
  <2>3. QED
    BY <2>1, <2>2
<1> HIDE DEF e
<1>9. CASE CanJoin(cur, e)
  <2> DEFINE more == Append(cur, e)
  <2>1. /\ more \in Seq(Event) /\ more # <<>> /\ more = cur \o <<e>>
        /\ Range(more) = Range(cur) \cup {e}
        /\ Len(cur) \in Nat /\ DOMAIN more = 1..Len(cur) + 1 /\ Len(more) = Len(cur) + 1
        /\ \A k \in 1..Len(cur) : more[k] = cur[k]
        /\ more[Len(cur) + 1] = e
    BY <1>1, <1>5, AppendIs, AppendGlues DEF e
  <2>2. Joined(acc, events[i]) = [rows |-> rows, current |-> more, index |-> acc.index]
    <3>1. Joined(acc, e) = [acc EXCEPT !.current = Append(acc.current, e)]
      BY <1>9 DEF Joined
    <3>2. QED
      BY <1>5, <3>1 DEF e
  <2>3. Head(more) = more[1]
    BY <2>1, HeadIs
  <2> HIDE DEF rows, cur, more
  <2>4. e.kind \in Tool /\ (cur = <<>> \/ (e.kind = Head(cur).kind /\ e.turn = Head(cur).turn))
    BY <1>9 DEF CanJoin
  <2>5. cur = <<>> => Len(cur) = 0
    BY EmptySeq
  <2>6. cur # <<>> => /\ Head(cur) = cur[1] /\ Len(cur) \in Nat \ {0} /\ DOMAIN cur = 1..Len(cur)
                      /\ IsRun(cur) /\ Ends(rows, Head(cur))
    BY <1>5, HeadIs DEF Good, rows, cur
  <2>7. cur = <<>> => Head(more) = e
    BY <2>1, <2>3, <2>5
  <2>8. cur # <<>> => Head(more) = Head(cur)
    BY <2>1, <2>3, <2>6
  <2>9. Head(more).kind = e.kind /\ Head(more).turn = e.turn
    BY <2>4, <2>7, <2>8
  <2>10. IsRun(more)
    <3>1. ASSUME NEW p \in DOMAIN more
          PROVE  more[p].kind = Head(more).kind /\ more[p].turn = Head(more).turn
      <4>1. CASE p = Len(cur) + 1
        BY <2>1, <2>9, <4>1
      <4>2. CASE p # Len(cur) + 1
        <5>1. p \in 1..Len(cur) /\ cur # <<>>
          BY <2>1, <2>5, <4>2
        <5>2. cur[p].kind = Head(cur).kind /\ cur[p].turn = Head(cur).turn
          BY <2>6, <5>1 DEF IsRun
        <5>3. QED
          BY <2>1, <2>8, <5>1, <5>2
      <4>3. QED
        BY <4>1, <4>2
    <3>2. QED
      BY <2>1, <2>4, <2>9, <3>1 DEF IsRun
  <2>11. Ends(rows, Head(more))
    <3>1. CASE cur = <<>>
      <4>1. rows # <<>> => LastOf(rows).kind \notin Tool
        BY <3>1 DEF Good, rows, cur
      <4>2. QED
        BY <4>1 DEF Ends, SameRun
    <3>2. CASE cur # <<>>
      BY <2>6, <2>8, <3>2
    <3>3. QED
      BY <3>1, <3>2
  <2>12. Covers(rows, more, events, i)
    <3>1. FlattenSeq(EventsOf(rows)) \in Seq(Event)
      BY <1>5, <1>7 DEF rows
    <3>2. FlattenSeq(EventsOf(rows)) \o (cur \o <<e>>) = (FlattenSeq(EventsOf(rows)) \o cur) \o <<e>>
      BY <1>5, <1>8, <3>1, ConcatAssociative DEF cur
    <3>3. FlattenSeq(EventsOf(rows)) \o cur = SubSeq(events, 1, i - 1)
      BY <1>5 DEF Covers, rows, cur
    <3>4. FlattenSeq(EventsOf(rows)) \o more = SubSeq(events, 1, i)
      BY <1>3, <2>1, <3>2, <3>3
    <3>5. Placed(rows) \cup Range(cur) = Seen(events, i - 1) /\ Placed(rows) \cap Range(cur) = {}
      BY <1>5 DEF Covers, rows, cur
    <3>6. QED
      BY <1>2, <2>1, <3>4, <3>5 DEF Covers
  <2> DEFINE j == [rows |-> rows, current |-> more, index |-> acc.index]
  <2>13. j \in Acc /\ j.rows = rows /\ j.current = more /\ j.index = acc.index
    BY <1>5, <2>1 DEF Acc, rows
  <2> HIDE DEF j
  <2>14. Good(j, events, i)
    BY <1>5, <2>1, <2>4, <2>9, <2>10, <2>11, <2>12, <2>13 DEF Good, Sound, rows
  <2>15. QED
    BY <2>2, <2>14 DEF j
<1>10. /\ fl.rows \in Seq(Row) /\ fl.index \in Nat
       /\ fl = [rows |-> fl.rows, current |-> <<>>, index |-> fl.index]
       /\ Runs(fl.rows) /\ Named(fl.rows, fl.index) /\ Covers(fl.rows, <<>>, events, i - 1)
  <2> HIDE DEF fl
  <2>1. QED
    BY <1>6 DEF Acc, Sound
<1> DEFINE old == fl.rows
<1> HIDE DEF fl, rows, cur
<1>11. FlattenSeq(EventsOf(old)) = SubSeq(events, 1, i - 1)
  <2>1. FlattenSeq(EventsOf(old)) \o <<>> = FlattenSeq(EventsOf(old))
    BY <1>7, <1>10, ConcatEmptySeq
  <2>2. QED
    BY <1>10, <2>1 DEF Covers
<1>12. Placed(old) = Seen(events, i - 1)
  <2>1. Range(<<>>) = {}
    BY DEF Range
  <2>2. QED
    BY <1>10, <2>1 DEF Covers
<1>13. CASE ~CanJoin(cur, e) /\ e.kind \in Tool
  <2> DEFINE j == [rows |-> old, current |-> <<e>>, index |-> fl.index]
  <2>1. Joined(acc, events[i]) = j
    <3>1. Joined(acc, e) = [fl EXCEPT !.current = <<e>>]
      BY <1>13 DEF Joined, fl, cur
    <3>2. QED
      BY <1>10, <3>1 DEF e
  <2>2. j \in Acc /\ j.rows = old /\ j.current = <<e>> /\ j.index = fl.index
    BY <1>8, <1>10 DEF Acc
  <2> HIDE DEF j
  <2>3. Covers(old, <<e>>, events, i)
    BY <1>2, <1>3, <1>8, <1>11, <1>12 DEF Covers, e
  <2>4. Ends(old, e)
    BY <1>6, <1>13 DEF fl, cur
  <2>5. Good(j, events, i)
    BY <1>8, <1>10, <1>13, <2>2, <2>3, <2>4 DEF Good, Sound
  <2>6. QED
    BY <2>1, <2>5
<1>14. CASE ~CanJoin(cur, e) /\ e.kind \notin Tool
  <2> DEFINE row == Single(e)
             more == Append(old, row)
             j == [rows |-> more, current |-> <<>>, index |-> fl.index]
  <2>1. row = [id |-> e, events |-> <<e>>]
    BY DEF Single
  <2>2. row \in Row /\ row.id = e /\ row.events = <<e>> /\ e \in Event
    BY <1>1, <1>8, <2>1 DEF Row, e
  <2> HIDE DEF row
  <2>3. Ends(old, e)
    BY <1>14 DEF Ends, SameRun
  <2>4. e \in Range(row.events) /\ Range(row.events) \cap Placed(old) = {}
    BY <1>2, <1>8, <1>12, <2>2 DEF e
  <2>5. fl.index <= fl.index
    BY <1>10
  <2>6. /\ more \in Seq(Row) /\ more # <<>>
        /\ Runs(more) /\ Named(more, fl.index)
        /\ Placed(more) = Placed(old) \cup Range(row.events)
        /\ LastOf(more) = Head(row.events)
    BY <1>8, <1>10, <2>2, <2>3, <2>4, <2>5, RowAdded
  <2>7. FlattenSeq(EventsOf(more)) = FlattenSeq(EventsOf(old)) \o <<e>>
    BY <1>10, <2>2, EventsOfIs
  <2> HIDE DEF more
  <2>8. Joined(acc, events[i]) = j
    <3>1. Joined(acc, e) = [fl EXCEPT !.rows = more]
      BY <1>14 DEF Joined, fl, cur, more, row
    <3>2. QED
      BY <1>10, <3>1 DEF e
  <2>9. <<>> \in Seq(Event) /\ Range(<<>>) = {}
    BY EmptySeq DEF Range
  <2>10. j \in Acc /\ j.rows = more /\ j.current = <<>> /\ j.index = fl.index
    BY <1>10, <2>6, <2>9 DEF Acc
  <2> HIDE DEF j
  <2>11. Covers(more, <<>>, events, i)
    <3>1. FlattenSeq(EventsOf(more)) = SubSeq(events, 1, i)
      BY <1>3, <1>11, <2>7 DEF e
    <3>2. FlattenSeq(EventsOf(more)) \o <<>> = FlattenSeq(EventsOf(more))
      BY <1>7, <2>6, ConcatEmptySeq
    <3>3. Placed(more) = Seen(events, i)
      BY <1>2, <1>8, <1>12, <2>2, <2>6 DEF e
    <3>4. QED
      BY <2>9, <3>1, <3>2, <3>3 DEF Covers
  <2>12. LastOf(more).kind \notin Tool
    BY <1>8, <1>14, <2>2, <2>6
  <2>13. Good(j, events, i)
    BY <2>6, <2>10, <2>11, <2>12 DEF Good, Sound
  <2>14. QED
    BY <2>8, <2>13
<1>15. QED
  BY <1>9, <1>13, <1>14

-----------------------------------------------------------------------------
(* The rows of a timeline. *)

LEMMA GroupsHold ==
    ASSUME NEW events \in Seq(Event), Distinct(events)
    PROVE  LET rows == groupToolEvents(events)
           IN  /\ rows \in Seq(Row) /\ Runs(rows)
               /\ \E index : Named(rows, index)
               /\ Covers(rows, <<>>, events, Len(events))
<1> DEFINE n == Len(events)
           none == [rows |-> <<>>, current |-> <<>>, index |-> 0]
           Folds(f) == f = [i \in 0..n |-> IF i = 0 THEN none ELSE Joined(f[i - 1], events[i])]
           F == [p \in Acc \X (1..n) |-> IF Joined(p[1], events[p[2]]) \in Acc
                                         THEN Joined(p[1], events[p[2]]) ELSE p[1]]
<1>1. n \in Nat /\ DOMAIN events = 1..n
  BY LenProperties
<1>2. none \in Acc /\ Good(none, events, 0)
  <2>1. <<>> \in Seq(Row) /\ <<>> \in Seq(Event) /\ <<>> \in Seq(Seq(Event)) /\ Len(<<>>) = 0
    BY EmptySeq
  <2>2. DOMAIN <<>> = {} /\ Range(<<>>) = {}
    <3>1. DOMAIN <<>> = 1..0 /\ 1..0 = {}
      BY <2>1, LenProperties
    <3>2. QED
      BY <3>1 DEF Range
  <2>3. none \in Acc
    BY <2>1 DEF Acc
  <2>4. EventsOf(<<>>) = <<>>
    <3>1. EventsOf(<<>>) = [k \in 1..0 |-> <<>>[k].events]
      BY <2>2 DEF EventsOf
    <3>2. EventsOf(<<>>) \in [1..0 -> Seq(Event)]
      <4>1. \A k \in 1..0 : <<>>[k].events \in Seq(Event)
        OBVIOUS
      <4> HIDE DEF none
      <4>2. QED
        BY <3>1, <4>1
    <3> HIDE DEF none
    <3>3. EventsOf(<<>>) \in Seq(Seq(Event)) /\ Len(EventsOf(<<>>)) = 0
      BY <3>2
    <3>4. QED
      BY <3>3, EmptySeq
  <2>5. FlattenSeq(<<>>) = <<>>
    BY <2>1 DEF FlattenSeq
  <2>6. <<>> \o <<>> = <<>> /\ SubSeq(events, 1, 0) = <<>>
    BY <2>1, ConcatEmptySeq, SubSeqEmpty
  <2>7. Placed(<<>>) = {} /\ Seen(events, 0) = {}
    BY <2>2 DEF Placed, Seen
  <2>8. Covers(<<>>, <<>>, events, 0)
    BY <2>2, <2>4, <2>5, <2>6, <2>7 DEF Covers
  <2>9. Runs(<<>>) /\ Named(<<>>, 0)
    BY <2>1, <2>2 DEF Runs, Named
  <2>10. none.rows = <<>> /\ none.current = <<>> /\ none.index = 0
    OBVIOUS
  <2> HIDE DEF none
  <2>11. QED
    BY <2>3, <2>8, <2>9, <2>10 DEF Good, Sound
<1> HIDE DEF none
<1>3. F \in [Acc \X (1..n) -> Acc]
  OBVIOUS
<1>4. PICK g \in [0..n -> Acc] : Unrolls(g, n, none, F)
  <2> HIDE DEF n, F
  <2>1. QED
    BY <1>1, <1>2, <1>3, RecursionExists
<1>5. ASSUME NEW f, f[0] = none,
             \A i \in 1..n : Good(f[i - 1], events, i - 1) => f[i] = Joined(f[i - 1], events[i])
      PROVE  \A i \in 0..n : Good(f[i], events, i)
  <2> DEFINE G == {i \in 0..n : Good(f[i], events, i)}
  <2>1. 0 \in G
    BY <1>1, <1>2, <1>5
  <2>2. ASSUME NEW i \in 1..n, i - 1 \in G PROVE i \in G
    <3>1. f[i] = Joined(f[i - 1], events[i]) /\ Good(f[i - 1], events, i - 1)
      BY <1>5, <2>2
    <3>2. Good(f[i], events, i)
      BY <3>1, JoinedGood
    <3>3. QED
      BY <1>1, <3>2
  <2>3. Climbs(G, n)
    BY <2>1, <2>2 DEF Climbs
  <2>4. \A i \in 0..n : i \in G
    <3> HIDE DEF G, n
    <3>1. QED
      BY <1>1, <2>3, Climbing
  <2>5. QED
    BY <2>4
<1>6. \A i \in 0..n : Good(g[i], events, i)
  <2>1. g[0] = none
    BY <1>4 DEF Unrolls
  <2>2. ASSUME NEW i \in 1..n, Good(g[i - 1], events, i - 1)
        PROVE  g[i] = Joined(g[i - 1], events[i])
    <3>1. g[i] = F[<<g[i - 1], i>>]
      BY <1>4 DEF Unrolls
    <3>2. Good(Joined(g[i - 1], events[i]), events, i)
      BY <2>2, JoinedGood
    <3>3. Joined(g[i - 1], events[i]) \in Acc /\ g[i - 1] \in Acc
      BY <2>2, <3>2 DEF Good
    <3>4. QED
      BY <3>1, <3>3
  <2>3. QED
    BY <1>5, <2>1, <2>2
<1>7. \E f : Folds(f)
  <2>1. ASSUME NEW i \in 0..n
        PROVE  g[i] = IF i = 0 THEN none ELSE Joined(g[i - 1], events[i])
    <3>1. CASE i = 0
      BY <1>4, <3>1 DEF Unrolls
    <3>2. CASE i # 0
      <4>1. i \in 1..n /\ i - 1 \in 0..n
        BY <1>1, <3>2
      <4>2. g[i] = F[<<g[i - 1], i>>] /\ g[i - 1] \in Acc
        BY <1>4, <4>1 DEF Unrolls
      <4>3. Good(g[i - 1], events, i - 1)
        BY <1>6, <4>1
      <4>4. Good(Joined(g[i - 1], events[i]), events, i)
        BY <4>1, <4>3, JoinedGood
      <4>5. Joined(g[i - 1], events[i]) \in Acc
        BY <4>4 DEF Good
      <4>6. QED
        BY <3>2, <4>1, <4>2, <4>5
    <3>3. QED
      BY <3>1, <3>2
  <2>2. g = [i \in 0..n |-> g[i]]
    BY <1>4
  <2>3. Folds(g)
    BY <2>1, <2>2
  <2>4. QED
    BY <2>3
<1> DEFINE acc == CHOOSE f : Folds(f)
<1>8. Folds(acc)
  <2> HIDE DEF Folds
  <2>1. QED
    BY <1>7
<1>9. groupToolEvents(events) = Flushed(acc[n]).rows
  BY DEF groupToolEvents, none
<1> HIDE DEF acc
<1>10. Good(acc[n], events, n)
  <2>1. \A i \in 0..n : acc[i] = IF i = 0 THEN none ELSE Joined(acc[i - 1], events[i])
    BY <1>8
  <2>2. acc[0] = none /\ \A i \in 1..n : acc[i] = Joined(acc[i - 1], events[i])
    BY <1>1, <2>1
  <2>3. n \in 0..n
    BY <1>1
  <2>4. QED
    BY <1>5, <2>2, <2>3
<1>11. n \in 0..Len(events)
  BY <1>1
<1>12. /\ Flushed(acc[n]) \in Acc
       /\ Sound(Flushed(acc[n]).rows, <<>>, Flushed(acc[n]).index, events, n)
  BY <1>10, <1>11, FlushedGood
<1>13. QED
  BY <1>9, <1>12 DEF Acc, Sound

RowsAre(rows, events) ==
    /\ rows \in Seq(Row) /\ Len(rows) \in Nat /\ DOMAIN rows = 1..Len(rows)
    /\ \A k \in DOMAIN rows : IsRun(rows[k].events)
    /\ \A k, l \in DOMAIN rows : rows[k].id = rows[l].id => k = l
    /\ Placed(rows) = Range(events)

LEMMA RowsHold ==
    ASSUME NEW events \in Seq(Event), Distinct(events), NEW expand \in BOOLEAN
    PROVE  RowsAre(RowsOf(events, expand), events)
<1>1. Len(events) \in Nat /\ DOMAIN events = 1..Len(events)
  BY LenProperties
<1>2. CASE expand
  <2> DEFINE rows == [i \in 1..Len(events) |-> [id |-> events[i], events |-> <<events[i]>>]]
  <2>1. RowsOf(events, expand) = rows
    BY <1>1, <1>2 DEF RowsOf, Single
  <2>2. \A i \in 1..Len(events) :
           /\ events[i] \in Event /\ <<events[i]>> \in Seq(Event)
           /\ IsRun(<<events[i]>>) /\ Range(<<events[i]>>) = {events[i]}
    <3>1. ASSUME NEW e \in Event
          PROVE  <<e>> \in Seq(Event) /\ IsRun(<<e>>) /\ Range(<<e>>) = {e}
      BY OneIs DEF IsRun
    <3>2. QED
      BY <3>1, ElementOfSeq
  <2>3. \A i \in 1..Len(events) : rows[i] \in Row /\ rows[i].id = events[i]
                                  /\ rows[i].events = <<events[i]>>
    BY <2>2 DEF Row
  <2>4. rows \in [1..Len(events) -> Row] /\ DOMAIN rows = 1..Len(events)
    BY <2>3
  <2> HIDE DEF rows
  <2>5. rows \in Seq(Row) /\ Len(rows) = Len(events)
    BY <1>1, <2>4
  <2>6. Placed(rows) = Range(events)
    BY <1>1, <2>2, <2>3, <2>4 DEF Placed, Range
  <2>7. \A k, l \in DOMAIN rows : rows[k].id = rows[l].id => k = l
    BY <1>1, <2>3, <2>4 DEF Distinct
  <2>8. RowsAre(rows, events)
    BY <1>1, <2>2, <2>3, <2>4, <2>5, <2>6, <2>7 DEF RowsAre
  <2>9. QED
    BY <2>1, <2>8
<1>3. CASE ~expand
  <2> DEFINE rows == groupToolEvents(events)
  <2>1. RowsOf(events, expand) = rows
    BY <1>3 DEF RowsOf
  <2>2. /\ rows \in Seq(Row) /\ Runs(rows)
        /\ \E index : Named(rows, index)
        /\ Covers(rows, <<>>, events, Len(events))
    BY GroupsHold
  <2> HIDE DEF rows
  <2>3. Placed(rows) = Seen(events, Len(events))
    <3>1. Range(<<>>) = {}
      BY DEF Range
    <3>2. QED
      BY <2>2, <3>1 DEF Covers
  <2>4. Seen(events, Len(events)) = Range(events)
    BY <1>1 DEF Seen, Range
  <2>5. Len(rows) \in Nat /\ DOMAIN rows = 1..Len(rows)
    BY <2>2, LenProperties
  <2>6. RowsAre(rows, events)
    BY <2>2, <2>3, <2>4, <2>5 DEF RowsAre, Runs, Named
  <2>7. QED
    BY <2>1, <2>6
<1>4. QED
  BY <1>2, <1>3

(* The tool calls of a log, in order: none of them twice. *)
LEMMA ToolCallsHold ==
    ASSUME NEW events \in Seq(Event), Distinct(events)
    PROVE  ToolCallsOf(events) \in Seq(Event) /\ Distinct(ToolCallsOf(events))
<1> DEFINE n == Len(events)
           Step(s, i) == IF events[i].kind = "tool_call" THEN Append(s, events[i]) ELSE s
           Folds(f) == f = [i \in 0..n |-> IF i = 0 THEN <<>> ELSE Step(f[i - 1], i)]
           F == [p \in Seq(Event) \X (1..n) |-> Step(p[1], p[2])]
<1>1. n \in Nat /\ DOMAIN events = 1..n /\ \A i \in 1..n : events[i] \in Event
  BY LenProperties, ElementOfSeq
<1>2. \A s \in Seq(Event), i \in 1..n : Step(s, i) \in Seq(Event)
  BY <1>1, AppendIs
<1>3. F \in [Seq(Event) \X (1..n) -> Seq(Event)]
  BY <1>2
<1>4. <<>> \in Seq(Event) /\ Len(<<>>) = 0 /\ DOMAIN <<>> = {}
  <2>1. <<>> \in Seq(Event) /\ Len(<<>>) = 0
    BY EmptySeq
  <2>2. DOMAIN <<>> = 1..0 /\ 1..0 = {}
    BY <2>1, LenProperties
  <2>3. QED
    BY <2>1, <2>2
<1>5. PICK g \in [0..n -> Seq(Event)] : Unrolls(g, n, <<>>, F)
  <2> HIDE DEF n, F
  <2>1. QED
    BY <1>1, <1>3, <1>4, RecursionExists
<1>6. \E f : Folds(f)
  <2>1. ASSUME NEW i \in 0..n
        PROVE  g[i] = IF i = 0 THEN <<>> ELSE Step(g[i - 1], i)
    <3>1. CASE i = 0
      BY <1>5, <3>1 DEF Unrolls
    <3>2. CASE i # 0
      <4>1. i \in 1..n /\ i - 1 \in 0..n
        BY <1>1, <3>2
      <4>2. g[i] = F[<<g[i - 1], i>>] /\ g[i - 1] \in Seq(Event)
        BY <1>5, <4>1 DEF Unrolls
      <4>3. QED
        BY <3>2, <4>1, <4>2
    <3>3. QED
      BY <3>1, <3>2
  <2>2. g = [i \in 0..n |-> g[i]]
    BY <1>5
  <2> HIDE DEF Step
  <2>3. Folds(g)
    BY <2>1, <2>2
  <2>4. QED
    BY <2>3
<1> DEFINE kept == CHOOSE f : Folds(f)
<1>7. Folds(kept)
  <2> HIDE DEF Folds
  <2>1. QED
    BY <1>6
<1>8. ToolCallsOf(events) = kept[n]
  BY DEF ToolCallsOf
<1> HIDE DEF kept
<1> DEFINE Fine(s, i) == s \in Seq(Event) /\ Distinct(s) /\ Range(s) \subseteq Seen(events, i)
           G == {i \in 0..n : Fine(kept[i], i)}
<1>9. 0 \in G
  <2>1. kept[0] = <<>>
    BY <1>1, <1>7
  <2>2. Fine(<<>>, 0)
    BY <1>4 DEF Distinct, Range
  <2> HIDE DEF Fine
  <2>3. QED
    BY <1>1, <2>1, <2>2
<1>10. ASSUME NEW i \in 1..n, i - 1 \in G PROVE i \in G
  <2> DEFINE s == kept[i - 1]
             e == events[i]
  <2>1. kept[i] = Step(s, i) /\ Fine(s, i - 1)
    <3>1. i \in 0..n /\ i # 0
      BY <1>1
    <3>2. kept[i] = Step(s, i)
      <4> HIDE DEF Step
      <4>1. QED
        BY <1>7, <3>1
    <3>3. QED
      BY <1>10, <3>2
  <2>2. Seen(events, i) = Seen(events, i - 1) \cup {e} /\ e \notin Seen(events, i - 1) /\ e \in Event
    <3>1. \A p \in 1..i - 1 : p \in 1..i /\ p \in DOMAIN events /\ p # i
      BY <1>1
    <3>2. \A p \in 1..i : p \in 1..i - 1 \/ p = i
      BY <1>1
    <3>3. i \in 1..i /\ i \in DOMAIN events
      BY <1>1
    <3>4. QED
      BY <1>1, <3>1, <3>2, <3>3 DEF Seen, Distinct
  <2> HIDE DEF s
  <2>3. Fine(s, i)
    BY <2>1, <2>2
  <2>4. Fine(Append(s, e), i)
    <3>1. /\ Append(s, e) \in Seq(Event) /\ Len(s) \in Nat
          /\ DOMAIN s = 1..Len(s) /\ DOMAIN Append(s, e) = 1..Len(s) + 1
          /\ \A k \in 1..Len(s) : Append(s, e)[k] = s[k]
          /\ Append(s, e)[Len(s) + 1] = e
          /\ Range(Append(s, e)) = Range(s) \cup {e}
      <4>1. s \in Seq(Event)
        BY <2>1
      <4>2. e \in Event
        BY <2>2
      <4> HIDE DEF e
      <4>3. Append(s, e) = s \o <<e>> /\ Range(Append(s, e)) = Range(s) \cup {e}
        BY <4>1, <4>2, AppendGlues
      <4>4. QED
        BY <4>1, <4>2, <4>3, AppendIs
    <3> DEFINE a == Append(s, e)
    <3> HIDE DEF a, e
    <3>2. \A k \in 1..Len(s) : s[k] # e
      BY <2>1, <2>2, <3>1 DEF Range
    <3>3. Distinct(a)
      <4>1. \A k \in 1..Len(s) + 1 : k \in 1..Len(s) \/ k = Len(s) + 1
        BY <3>1
      <4>2. \A k, l \in 1..Len(s) : s[k] = s[l] => k = l
        BY <2>1, <3>1 DEF Distinct
      <4>3. \A k, l \in 1..Len(s) + 1 : a[k] = a[l] => k = l
        BY <3>1, <3>2, <4>1, <4>2 DEF a
      <4>4. QED
        BY <3>1, <4>3 DEF Distinct, a
    <3>4. QED
      BY <2>1, <2>2, <3>1, <3>3 DEF a
  <2>5. Fine(kept[i], i)
    BY <2>1, <2>3, <2>4
  <2>6. QED
    BY <1>1, <2>5
<1>11. n \in G
  <2> HIDE DEF G, n
  <2>1. Climbs(G, n) /\ n \in 0..n
    BY <1>1, <1>9, <1>10 DEF Climbs
  <2>2. QED
    BY <1>1, <2>1, Climbing
<1>12. QED
  BY <1>8, <1>11

-----------------------------------------------------------------------------
(* The virtual window. *)

LEMMA Quotient ==
    ASSUME NEW a \in Nat, NEW r \in Nat \ {0}
    PROVE  /\ a \div r \in Nat
           /\ (a \div r) * r <= a /\ a < (a \div r) * r + r
OBVIOUS

LEMMA Factor ==
    ASSUME NEW a \in Int, NEW b \in Int, NEW r \in Nat \ {0}, a * r < b * r
    PROVE  a < b
OBVIOUS

LEMMA RangeWithin ==
    ASSUME NEW rows \in Seq(Row), Len(rows) \in Nat, NEW y \in Nat, NEW h \in Nat
    PROVE  \A i \in VisibleRange(rows, y, h) : i \in 0..Len(rows) - 1
<1> DEFINE q == y \div RowHeight
           c == Ceil(h, RowHeight)
<1>1. RowHeight \in Nat \ {0} /\ Overscan \in Nat
  BY LengthsAssumption
<1>2. q \in Nat
  BY <1>1, Quotient
<1>3. c \in Nat
  <2>1. h + RowHeight - 1 \in Nat
    BY <1>1
  <2>2. QED
    BY <1>1, <2>1, Quotient DEF Ceil
<1> HIDE DEF q, c
<1>4. VisibleRange(rows, y, h) =
        Larger(0, q - Overscan) ..
        Smaller(Len(rows), Larger(0, q - Overscan) + Larger(1, c) + 2 * Overscan) - 1
  BY DEF VisibleRange, q, c
<1>5. QED
  BY <1>1, <1>2, <1>3, <1>4 DEF Larger, Smaller

(* A row in sight is in the window, although the component lags behind and *)
(* takes the rows to begin at the top.                                     *)
LEMMA SightWithin ==
    ASSUME NEW rows \in Seq(Row), Len(rows) \in Nat,
           NEW y \in Nat, NEW t \in Nat, NEW h \in Nat \ {0}, NEW a \in Nat,
           t - a - y \in -(Overscan * RowHeight)..(Overscan - 1) * RowHeight,
           NEW i \in 0..Len(rows) - 1,
           a + i * RowHeight < t + h, a + (i + 1) * RowHeight > t
    PROVE  i \in VisibleRange(rows, y, h)
<1> DEFINE R == RowHeight
           O == Overscan
           q == y \div RowHeight
           c == Ceil(h, RowHeight)
<1>1. R \in Nat \ {0} /\ O \in Nat \ {0}
  BY LengthsAssumption
<1>2. q \in Nat /\ q * R <= y /\ y < q * R + R
  BY <1>1, Quotient
<1>3. c \in Nat /\ h <= c * R
  <2>1. h + R - 1 \in Nat
    BY <1>1
  <2>2. /\ (h + R - 1) \div R \in Nat
        /\ h + R - 1 < ((h + R - 1) \div R) * R + R
    BY <1>1, <2>1, Quotient
  <2>3. c = (h + R - 1) \div R
    BY DEF Ceil
  <2> HIDE DEF c, R
  <2>4. h + R - 1 < c * R + R /\ c \in Nat
    BY <2>2, <2>3
  <2>5. c * R \in Int
    BY <1>1, <2>4
  <2>6. QED
    BY <1>1, <2>4, <2>5
<1>4. VisibleRange(rows, y, h) =
        Larger(0, q - O) .. Smaller(Len(rows), Larger(0, q - O) + Larger(1, c) + 2 * O) - 1
  BY DEF VisibleRange
<1> DEFINE d == (O - 1) * R
<1>5. /\ t - a - y \in -(O * R)..d /\ d \in Int
      /\ a + i * R < t + h /\ a + (i + 1) * R > t
  BY <1>1
<1> HIDE DEF R, O, q, c, d
<1>6. /\ i \in Int /\ i * R \in Int /\ (i + 1) * R = i * R + R
      /\ q * R \in Int /\ c * R \in Int /\ O * R \in Int /\ d = O * R - R
  BY <1>1, <1>2, <1>3 DEF d
<1>7. q - O <= i
  <2>1. (q - O) * R = q * R - O * R
    BY <1>1, <1>2, <1>6
  <2>2. (q - O) * R < (i + 1) * R
    BY <1>1, <1>2, <1>5, <1>6, <2>1
  <2>3. q - O < i + 1
    BY <1>1, <1>2, <1>6, <2>2, Factor
  <2>4. QED
    BY <1>1, <1>2, <1>6, <2>3
<1>8. i < q + O + c
  <2>1. (q + O + c) * R = q * R + O * R + c * R
    BY <1>1, <1>2, <1>3, <1>6
  <2>2. i * R < (q + O + c) * R
    BY <1>1, <1>2, <1>3, <1>5, <1>6, <2>1
  <2>3. QED
    BY <1>1, <1>2, <1>3, <1>6, <2>2, Factor
<1>9. QED
  BY <1>1, <1>2, <1>3, <1>4, <1>7, <1>8 DEF Larger, Smaller

-----------------------------------------------------------------------------
(* The cards. *)

CardsOf(rows, y, h) == {rows[i + 1] : i \in VisibleRange(rows, y, h)}

(* A card that is kept is the card of its row. *)
LEMMA DrawnIs ==
    ASSUME NEW events, NEW rows, RowsAre(rows, events), NEW y \in Nat, NEW h \in Nat, NEW old,
           \A c \in old : \E k \in DOMAIN rows : c = rows[k]
    PROVE  Drawn(old, rows, y, h) = CardsOf(rows, y, h)
<1> DEFINE Same(i) == {c \in old : c.id = rows[i + 1].id}
           Card(i) == IF Same(i) = {} THEN rows[i + 1] ELSE CHOOSE c \in Same(i) : TRUE
<1>1. /\ rows \in Seq(Row) /\ Len(rows) \in Nat /\ DOMAIN rows = 1..Len(rows)
      /\ \A k, l \in DOMAIN rows : rows[k].id = rows[l].id => k = l
  BY DEF RowsAre
<1>2. ASSUME NEW i \in VisibleRange(rows, y, h) PROVE Card(i) = rows[i + 1]
  <2>1. i + 1 \in DOMAIN rows
    BY <1>1, RangeWithin
  <2>2. \A c \in Same(i) : c = rows[i + 1]
    BY <1>1, <2>1
  <2>3. QED
    BY <2>2
<1>3. Drawn(old, rows, y, h) = {Card(i) : i \in VisibleRange(rows, y, h)}
  BY DEF Drawn
<1> HIDE DEF Card
<1>4. QED
  BY <1>2, <1>3 DEF CardsOf

IInv ==
    /\ log \in Logs /\ timeline \in Seq(Event) /\ Distinct(timeline)
    /\ filters \in [nonTool : BOOLEAN, expand : BOOLEAN]
    /\ top \in Nat /\ above \in Nat /\ scrollTop \in Nat /\ height \in Heights /\ viewportHeight \in Heights
    /\ loading => cards = {}
    /\ CardsFresh

LEMMA LogIs == \A l \in Logs : l \in Seq(Event) /\ Distinct(l)
BY LengthsAssumption, NumberedAssumption DEF Distinct

LEMMA HeightIs == \A h \in Heights : h \in Nat /\ h \in Nat \ {0}
BY LengthsAssumption

LEMMA RowsNow ==
    ASSUME IInv
    PROVE  RowsAre(Rows, timeline)
<1>1. timeline \in Seq(Event) /\ Distinct(timeline) /\ filters.expand \in BOOLEAN
  BY DEF IInv
<1>2. QED
  BY <1>1, RowsHold DEF Rows

LEMMA TopIs ==
    ASSUME IInv, NEW y \in Nat, NEW h \in Heights, NEW a \in Nat
    PROVE  Smaller(y, MaxTop(Rows, h, a)) \in Nat
<1>1. Len(Rows) \in Nat
  BY RowsNow DEF RowsAre
<1>2. RowHeight \in Nat /\ h \in Nat
  BY LengthsAssumption
<1> DEFINE n == Len(Rows)
<1> HIDE DEF n
<1>3. n * RowHeight \in Int
  BY <1>1, <1>2 DEF n
<1>4. MaxTop(Rows, h, a) = Larger(0, a + n * RowHeight - h)
  BY DEF MaxTop, n
<1>5. QED
  BY <1>2, <1>3, <1>4 DEF Larger, Smaller

LEMMA InitHolds == Init => IInv
<1> SUFFICES ASSUME Init PROVE IInv
  OBVIOUS
<1>1. <<>> \in Seq(Event) /\ DOMAIN <<>> = {}
  <2>1. <<>> \in Seq(Event) /\ Len(<<>>) = 0
    BY EmptySeq
  <2>2. DOMAIN <<>> = 1..0 /\ 1..0 = {}
    BY <2>1, LenProperties
  <2>3. QED
    BY <2>1, <2>2
<1>2. Distinct(<<>>)
  BY <1>1 DEF Distinct
<1>3. QED
  BY <1>1, <1>2 DEF Init, IInv, CardsFresh

LEMMA LoadedHolds ==
    ASSUME IInv, Loaded
    PROVE  IInv'
<1>1. /\ cards = {} /\ loading' = FALSE /\ timeline' = Served(filters.nonTool)
      /\ cards' = Drawn(cards, RowsOf(timeline', filters.expand), scrollTop, viewportHeight)
      /\ log' = log /\ filters' = filters /\ top' = top /\ height' = height
      /\ scrollTop' = scrollTop /\ viewportHeight' = viewportHeight
      /\ above' \in Nat
  BY LengthsAssumption DEF IInv, Loaded
<1>2. log \in Seq(Event) /\ Distinct(log)
  BY LogIs DEF IInv
<1>3. timeline' \in Seq(Event) /\ Distinct(timeline')
  BY <1>1, <1>2, ToolCallsHold DEF Served
<1>4. RowsAre(RowsOf(timeline', filters.expand), timeline')
  <2>1. filters.expand \in BOOLEAN
    BY DEF IInv
  <2>2. QED
    BY <1>3, <2>1, RowsHold
<1>5. scrollTop \in Nat /\ viewportHeight \in Nat
  BY HeightIs DEF IInv
<1>6. cards' = CardsOf(RowsOf(timeline', filters.expand), scrollTop, viewportHeight)
  BY <1>1, <1>4, <1>5, DrawnIs
<1>7. Rows' = RowsOf(timeline', filters.expand)
  BY <1>1 DEF Rows
<1>8. CardsFresh'
  BY <1>1, <1>6, <1>7 DEF CardsFresh, CardsOf
<1>9. Distinct(timeline)'
  BY <1>3 DEF Distinct
<1>10. QED
  BY <1>1, <1>3, <1>8, <1>9 DEF IInv

LEMMA RedrawHolds ==
    ASSUME IInv, NEW y \in Nat, NEW h \in Heights, Redraw(y, h)
    PROVE  IInv'
<1>1. /\ scrollTop' = y /\ viewportHeight' = h
      /\ cards' = IF loading THEN cards ELSE Drawn(cards, Rows, y, h)
      /\ log' = log /\ filters' = filters /\ loading' = loading /\ timeline' = timeline
      /\ top' = top /\ height' = height /\ above' = above
  BY DEF Redraw, Measured
<1>2. Rows' = Rows
  BY <1>1 DEF Rows
<1>3. Distinct(timeline)'
  BY <1>1 DEF IInv, Distinct
<1>4. CASE loading
  BY <1>1, <1>3, <1>4 DEF IInv, CardsFresh
<1>5. CASE ~loading
  <2>1. RowsAre(Rows, timeline)
    BY RowsNow
  <2>2. h \in Nat /\ scrollTop \in Nat /\ viewportHeight \in Nat
    BY HeightIs DEF IInv
  <2>3. \A c \in cards : \E k \in DOMAIN Rows : c = Rows[k]
    <3>1. cards = {Rows[i + 1] : i \in VisibleRange(Rows, scrollTop, viewportHeight)}
      BY <1>5 DEF IInv, CardsFresh
    <3>2. Rows \in Seq(Row) /\ Len(Rows) \in Nat /\ DOMAIN Rows = 1..Len(Rows)
      BY <2>1 DEF RowsAre
    <3>3. \A i \in VisibleRange(Rows, scrollTop, viewportHeight) : i \in 0..Len(Rows) - 1
      BY <2>2, <3>2, RangeWithin
    <3>4. \A i \in VisibleRange(Rows, scrollTop, viewportHeight) : i + 1 \in DOMAIN Rows
      BY <3>2, <3>3
    <3>5. QED
      BY <3>1, <3>4
  <2>4. cards' = CardsOf(Rows, y, h)
    BY <1>1, <1>5, <2>1, <2>2, <2>3, DrawnIs
  <2>5. CardsFresh'
    BY <1>1, <1>2, <2>4 DEF CardsFresh, CardsOf
  <2>6. QED
    BY <1>1, <1>3, <1>5, <2>5 DEF IInv
<1>6. QED
  BY <1>4, <1>5

LEMMA StepHolds == IInv /\ [Next]_vars => IInv'
<1> SUFFICES ASSUME IInv, [Next]_vars PROVE IInv'
  OBVIOUS
<1>1. ASSUME NEW n \in BOOLEAN, NEW x \in BOOLEAN, NEW l \in {log} \cup OtherLogs,
             Reload([nonTool |-> n, expand |-> x], l)
      PROVE  IInv'
  <2>1. /\ filters' = [nonTool |-> n, expand |-> x] /\ loading' = TRUE /\ cards' = {} /\ top' = 0
        /\ log' \in Logs /\ timeline' = timeline /\ height' = height
        /\ scrollTop' = scrollTop /\ viewportHeight' = viewportHeight /\ above' = above
    BY <1>1, LengthsAssumption DEF Reload, CardsWhileLoading, IInv
  <2>2. CardsFresh' /\ Distinct(timeline)'
    BY <2>1 DEF CardsFresh, IInv, Distinct
  <2>3. QED
    BY <2>1, <2>2 DEF IInv
<1>2. ASSUME NEW y \in Tops, Scroll(y) PROVE IInv'
  <2>1. y \in Nat /\ height \in Heights /\ above \in Nat
    BY LengthsAssumption DEF IInv
  <2>2. /\ top' \in Nat
        /\ UNCHANGED <<log, filters, loading, timeline, cards, height, above, scrollTop, viewportHeight>>
    BY <1>2, <2>1, TopIs DEF Scroll
  <2>3. CardsFresh' /\ Distinct(timeline)'
    BY <2>2 DEF CardsFresh, Rows, IInv, Distinct
  <2>4. QED
    BY <2>2, <2>3 DEF IInv
<1>3. ASSUME NEW h \in Heights, Resize(h) PROVE IInv'
  <2>1. top \in Nat
    BY DEF IInv
  <2>4. above \in Nat /\ \A a \in Above : a \in Nat
    BY LengthsAssumption DEF IInv
  <2>2. /\ top' \in Nat /\ above' \in Nat /\ height' = h
        /\ UNCHANGED <<log, filters, loading, timeline, cards, scrollTop, viewportHeight>>
    BY <1>3, <2>1, <2>4, TopIs DEF Resize
  <2>3. CardsFresh' /\ Distinct(timeline)'
    BY <2>2 DEF CardsFresh, Rows, IInv, Distinct
  <2>5. QED
    BY <2>2, <2>3 DEF IInv
<1>4. ASSUME OnScroll \/ UpdateViewport PROVE IInv'
  BY <1>4, RedrawHolds DEF IInv, OnScroll, UpdateViewport
<1>5. CASE UNCHANGED vars
  <2>1. CardsFresh' /\ Distinct(timeline)'
    BY <1>5 DEF vars, CardsFresh, Rows, IInv, Distinct
  <2>2. QED
    BY <1>5, <2>1 DEF vars, IInv
<1>6. QED
  BY <1>1, <1>2, <1>3, <1>4, <1>5, LoadedHolds DEF Next

-----------------------------------------------------------------------------
THEOREM Invariant == Spec => []IInv
<1>1. Init => IInv
  BY InitHolds
<1>2. IInv /\ [Next]_vars => IInv'
  BY StepHolds
<1>3. QED
  BY <1>1, <1>2, PTL DEF Spec

(* parseTimelineResponse loses, repeats and reorders nothing: the rows are *)
(* the maximal runs of the timeline's tool events and its other events,    *)
(* have ids of their own, and the filter offers the tools of all calls.    *)
THEOREM RowsAreTimeline == Spec => []RowsOfTimeline
<1>1. IInv => RowsOfTimeline
  <2> SUFFICES ASSUME IInv PROVE RowsOfTimeline
    OBVIOUS
  <2>1. timeline \in Seq(Event) /\ Distinct(timeline)
    BY DEF IInv
  <2>2. ASSUME NEW expand \in BOOLEAN PROVE RowsAre(RowsOf(timeline, expand), timeline)
    BY <2>1, RowsHold
  <2>3. GroupsAreRuns
    <3> DEFINE rows == groupToolEvents(timeline)
    <3>1. /\ rows \in Seq(Row) /\ Runs(rows)
          /\ Covers(rows, <<>>, timeline, Len(timeline))
      BY <2>1, GroupsHold
    <3> HIDE DEF rows
    <3>2. FlattenSeq(EventsOf(rows)) = timeline
      <4>1. FlattenSeq(EventsOf(rows)) \o <<>> = SubSeq(timeline, 1, Len(timeline))
        BY <3>1 DEF Covers
      <4>2. SubSeq(timeline, 1, Len(timeline)) = timeline
        BY <2>1, SubSeqFull
      <4>3. FlattenSeq(EventsOf(rows)) \in Seq(Event)
        <5>1. ASSUME NEW e \in Event PROVE [id |-> e, events |-> <<e>>] \in Row
          BY OneIs DEF Row
        <5>2. [turn |-> 0, kind |-> "message", index |-> 0] \in Event
          BY DEF Event
        <5>3. \E row : row \in Row
          BY <5>1, <5>2
        <5>4. QED
          BY <3>1, <5>3, EventsOfIs
      <4>4. QED
        BY <4>1, <4>2, <4>3, ConcatEmptySeq
    <3>3. ASSUME NEW i \in DOMAIN rows, NEW j \in 1..Len(rows[i].events) - 1
          PROVE  SameRun(rows[i].events[j], rows[i].events[j + 1])
      <4> DEFINE s == rows[i].events
      <4>1. IsRun(s)
        BY <3>1 DEF Runs
      <4>2. s \in Seq(Event)
        <5>1. rows[i] \in Row
          BY <3>1, LenProperties, ElementOfSeq
        <5>2. QED
          BY <5>1 DEF Row
      <4> HIDE DEF s
      <4>3. Len(s) \in Nat /\ DOMAIN s = 1..Len(s)
        BY <4>2, LenProperties
      <4>4. j \in 1..Len(s) - 1
        BY <3>3 DEF s
      <4>5. j \in DOMAIN s /\ j + 1 \in DOMAIN s /\ Len(s) # 1
        BY <4>3, <4>4
      <4>6. SameRun(s[j], s[j + 1])
        BY <4>1, <4>5 DEF IsRun, SameRun
      <4>7. QED
        BY <4>6 DEF s
    <3>4. \A i \in 1..Len(rows) - 1 :
             ~SameRun(Head(rows[i].events), Head(rows[i + 1].events))
      BY <3>1 DEF Runs
    <3>5. QED
      BY <3>2, <3>3, <3>4 DEF GroupsAreRuns, EventsOf, rows
  <2>4. RowIdsUnique
    BY <2>2 DEF RowIdsUnique, RowsAre
  <2>5. ASSUME NEW expand \in BOOLEAN
        PROVE  ToolOptions(RowsOf(timeline, expand))
               = {e \in Range(timeline) : e.kind = "tool_call"}
    <3> DEFINE rows == RowsOf(timeline, expand)
    <3>1. RowsAre(rows, timeline)
      BY <2>2
    <3> HIDE DEF rows
    <3>2. \A k \in DOMAIN rows : \A e \in Range(rows[k].events) : e.kind = Head(rows[k].events).kind
      BY <3>1 DEF RowsAre, IsRun, Range
    <3>3. \A e : e \in ToolOptions(rows) <=>
             \E k \in DOMAIN rows : e \in Range(rows[k].events)
                                    /\ Head(rows[k].events).kind = "tool_call"
      BY DEF ToolOptions, Range
    <3>4. \A e : e \in Range(timeline) <=> \E k \in DOMAIN rows : e \in Range(rows[k].events)
      BY <3>1 DEF RowsAre, Placed
    <3>5. ToolOptions(rows) = {e \in Range(timeline) : e.kind = "tool_call"}
      BY <3>2, <3>3, <3>4
    <3>6. QED
      BY <3>5 DEF rows
  <2>6. QED
    BY <2>3, <2>4, <2>5 DEF RowsOfTimeline, OptionsComplete
<1>2. QED
  BY <1>1, Invariant, PTL

(* A memoized EventCard shows its row, although it is compared by id only. *)
THEOREM CardsAreFresh == Spec => []CardsFresh
<1>1. IInv => CardsFresh
  BY DEF IInv
<1>2. QED
  BY <1>1, Invariant, PTL

(* The overscan of TimelineLanes hides how far its window lags behind and  *)
(* that it takes the rows to begin at the top, while the two together are  *)
(* no more than the rows it has over.                                      *)
THEOREM WindowCoversSight == Spec => []WindowCovers
<1>1. IInv => WindowCovers
  <2> SUFFICES ASSUME IInv, ~loading, viewportHeight = height,
                      top - above - scrollTop
                          \in -(Overscan * RowHeight)..(Overscan - 1) * RowHeight,
                      NEW i \in 0..Len(Rows) - 1, InSight(i)
               PROVE  \E c \in cards : c.id = Rows[i + 1].id
    BY DEF WindowCovers
  <2>1. Rows \in Seq(Row) /\ Len(Rows) \in Nat
    BY RowsNow DEF RowsAre
  <2>2. top \in Nat /\ above \in Nat /\ scrollTop \in Nat /\ height \in Nat \ {0}
    BY HeightIs DEF IInv
  <2>3. above + i * RowHeight < top + height /\ above + (i + 1) * RowHeight > top
    BY DEF InSight
  <2>4. i \in VisibleRange(Rows, scrollTop, height)
    BY <2>1, <2>2, <2>3, SightWithin
  <2>5. cards = {Rows[k + 1] : k \in VisibleRange(Rows, scrollTop, viewportHeight)}
    BY DEF IInv, CardsFresh
  <2>6. QED
    BY <2>4, <2>5
<1>2. QED
  BY <1>1, Invariant, PTL

-----------------------------------------------------------------------------
(* Prefixes. *)

LEMMA PrefixIs ==
    ASSUME NEW S, NEW s \in Seq(S), NEW t \in Seq(S)
    PROVE  IsPrefix(s, t) <=> Len(s) <= Len(t) /\ \A k \in 1..Len(s) : s[k] = t[k]
<1>1. /\ Len(s) \in Nat /\ Len(t) \in Nat
      /\ \A k \in 1..Len(s) : s[k] \in S
      /\ \A k \in 1..Len(t) : t[k] \in S
  BY LenProperties, ElementOfSeq
<1> DEFINE n == Len(s)
           a == SubSeq(s, 1, n)
           b == SubSeq(t, 1, n)
<1>2. /\ a \in Seq(S) /\ Len(a) = n /\ \A k \in 1..n : a[k] = s[k]
  <2>1. /\ a \in Seq(S) /\ Len(a) = (IF 1 <= n THEN n - 1 + 1 ELSE 0)
        /\ \A k \in 1..n - 1 + 1 : a[k] = s[1 + k - 1]
    BY <1>1, SubSeqProperties
  <2> HIDE DEF a
  <2>2. QED
    BY <1>1, <2>1
<1>3. ASSUME n <= Len(t)
      PROVE  b \in Seq(S) /\ Len(b) = n /\ \A k \in 1..n : b[k] = t[k]
  <2>1. \A k \in 1..n : t[k] \in S
    BY <1>1, <1>3
  <2>2. /\ b \in Seq(S) /\ Len(b) = (IF 1 <= n THEN n - 1 + 1 ELSE 0)
        /\ \A k \in 1..n - 1 + 1 : b[k] = t[1 + k - 1]
    BY <1>1, <2>1, SubSeqProperties
  <2> HIDE DEF b
  <2>3. QED
    BY <1>1, <2>2
<1> HIDE DEF a, b
<1>4. ASSUME n <= Len(t)
      PROVE  a = b <=> \A k \in 1..n : s[k] = t[k]
  <2>1. b \in Seq(S) /\ Len(b) = n /\ \A k \in 1..n : b[k] = t[k]
    BY <1>3, <1>4
  <2>2. (\A k \in 1..n : s[k] = t[k]) => \A k \in 1..Len(a) : a[k] = b[k]
    BY <1>2, <2>1
  <2>3. (\A k \in 1..Len(a) : a[k] = b[k]) => a = b
    BY <1>2, <2>1, SeqEqual
  <2>4. QED
    BY <1>2, <2>1, <2>2, <2>3
<1>5. IsPrefix(s, t) <=> n <= Len(t) /\ a = b
  BY DEF IsPrefix, a, b
<1>6. QED
  BY <1>4, <1>5

LEMMA PrefixOrder ==
    ASSUME NEW S, NEW s \in Seq(S), NEW t \in Seq(S), NEW u \in Seq(S)
    PROVE  /\ Len(s) \in Nat
           /\ IsPrefix(s, s)
           /\ IsPrefix(s, t) => Len(s) <= Len(t)
           /\ IsPrefix(s, t) /\ IsPrefix(t, u) => IsPrefix(s, u)
<1>1. Len(s) \in Nat /\ Len(t) \in Nat /\ Len(u) \in Nat
  BY LenProperties
<1>2. /\ IsPrefix(s, s) <=> Len(s) <= Len(s) /\ \A k \in 1..Len(s) : s[k] = s[k]
      /\ IsPrefix(s, t) <=> Len(s) <= Len(t) /\ \A k \in 1..Len(s) : s[k] = t[k]
      /\ IsPrefix(t, u) <=> Len(t) <= Len(u) /\ \A k \in 1..Len(t) : t[k] = u[k]
      /\ IsPrefix(s, u) <=> Len(s) <= Len(u) /\ \A k \in 1..Len(s) : s[k] = u[k]
  BY PrefixIs
<1>3. IsPrefix(s, s)
  BY <1>1, <1>2
<1>4. IsPrefix(s, t) /\ IsPrefix(t, u) => IsPrefix(s, u)
  BY <1>1, <1>2
<1>5. QED
  BY <1>1, <1>2, <1>3, <1>4

LEMMA MaxIs ==
    ASSUME NEW S, S \subseteq Nat, NEW m \in S, \A x \in S : x <= m
    PROVE  Max(S) = m
<1> DEFINE P(x) == x \in S /\ \A y \in S : x >= y
<1>1. P(m)
  OBVIOUS
<1>2. \A x : P(x) => x = m
  OBVIOUS
<1>3. Max(S) = CHOOSE x : P(x)
  BY DEF Max
<1> HIDE DEF P
<1>4. QED
  BY <1>1, <1>2, <1>3

LEMMA MinIn ==
    ASSUME NEW S, S \subseteq Nat, S # {}
    PROVE  Min(S) \in S
<1>1. PICK n \in S : n \in Nat /\ \A m \in S : n <= m
  BY LeastExists
<1>2. QED
  BY <1>1 DEF Min

-----------------------------------------------------------------------------
(* What can be in a log, and what is read of it. *)

File == Response \cup {"req"}
TurnType == [request : Asked, tools : Calls \cup {<<>>}, open : BOOLEAN, written : SUBSET File]

(* What can be read of the first n turns. *)
RecordOf(n) == {r \in Record : r.turn \in 1..n}

LogInv ==
  /\ turns \in Seq(TurnType) /\ files \in Seq(SUBSET File) /\ Len(files) = Len(turns)
  /\ build \in [step : {"none", "listed", "requests", "responses"},
                filters : Filters \cup {NoFilters}, records : Seq(RecordOf(Len(turns)))]
  /\ build.step = "none" => build.records = <<>>
  /\ bundle # NoBundle => bundle.records \in Seq(Record)

-----------------------------------------------------------------------------
(* The matching of turns to lanes. *)

Lane == [static : Static, last : Seq(Item)]
LaneId == Static \X Nat
Matching == [lanes : Seq(Lane), of : Seq(LaneId)]

(* A turn is in a lane of its static part that begins like it, or in the lane of what no context can be made of. *)
Assigned(acc, r, id) ==
  /\ id[1] = r.static
  /\ IF r.static \in Fallback THEN id[2] = 0
     ELSE /\ id[2] \in 1..Len(acc.lanes)
          /\ acc.lanes[id[2]].static = r.static
          /\ IsPrefix(r.prefix, acc.lanes[id[2]].last)

(* A lane ends with the prefix of one of its turns. *)
EndsWith(acc, rs, i, m) ==
  /\ acc.lanes[m].static \notin Fallback
  /\ \E k \in 1..i : acc.of[k] = <<acc.lanes[m].static, m>> /\ rs[k].prefix = acc.lanes[m].last

Chained(acc, rs, i) ==
  /\ acc \in Matching /\ Len(acc.of) = i
  /\ \A k \in 1..i : Assigned(acc, rs[k], acc.of[k])
  /\ \A m \in 1..Len(acc.lanes) : EndsWith(acc, rs, i, m)
  /\ \A j \in 1..i : rs[j].static \notin Fallback => InChain(rs, acc.of, j)

LEMMA RecordIs ==
    ASSUME NEW rs \in Seq(Record), NEW k \in DOMAIN rs
    PROVE  /\ Len(rs) \in Nat /\ DOMAIN rs = 1..Len(rs)
           /\ rs[k] \in Record /\ rs[k].static \in Static /\ rs[k].prefix \in Seq(Item)
<1>1. Len(rs) \in Nat /\ DOMAIN rs = 1..Len(rs)
  BY LenProperties
<1>2. rs[k] \in Record
  BY <1>1, ElementOfSeq
<1>3. QED
  BY <1>1, <1>2 DEF Record

LEMMA LaneIs ==
    ASSUME NEW ls \in Seq(Lane), NEW m \in 1..Len(ls)
    PROVE  /\ Len(ls) \in Nat /\ DOMAIN ls = 1..Len(ls)
           /\ ls[m] \in Lane /\ ls[m].static \in Static /\ ls[m].last \in Seq(Item)
           /\ Len(ls[m].last) \in Nat
<1>1. Len(ls) \in Nat /\ DOMAIN ls = 1..Len(ls)
  BY LenProperties
<1>2. ls[m] \in Lane
  BY <1>1, ElementOfSeq
<1>3. ls[m].static \in Static /\ ls[m].last \in Seq(Item)
  BY <1>2 DEF Lane
<1>4. QED
  BY <1>1, <1>2, <1>3, LenProperties

(* The best lane fits, and none that fits shares more. *)
LEMMA BestLaneIs ==
    ASSUME NEW ls \in Seq(Lane), NEW r \in Record
    PROVE  LET best == BestLane(ls, r)
           IN  IF \A m \in 1..Len(ls) : ~Extends(ls[m], r) THEN best = 0
               ELSE /\ best \in 1..Len(ls) /\ Extends(ls[best], r)
                    /\ \A m \in 1..Len(ls) : Extends(ls[m], r) => Len(ls[m].last) <= Len(ls[best].last)
<1> DEFINE fits == {i \in DOMAIN ls : Extends(ls[i], r)}
           longest == {i \in fits : \A j \in fits : Len(ls[j].last) <= Len(ls[i].last)}
           more == {Len(r.prefix) - Len(ls[i].last) : i \in fits}
<1>1. Len(ls) \in Nat /\ DOMAIN ls = 1..Len(ls)
  BY LenProperties
<1>2. BestLane(ls, r) = IF fits = {} THEN 0 ELSE Min(longest)
  BY DEF BestLane
<1>3. CASE fits = {}
  BY <1>1, <1>2, <1>3
<1>4. CASE fits # {}
  <2>1. r.prefix \in Seq(Item) /\ Len(r.prefix) \in Nat
    BY LenProperties DEF Record
  <2>2. \A i \in fits : Len(ls[i].last) \in Nat /\ Len(ls[i].last) <= Len(r.prefix)
    <3>1. TAKE i \in fits
    <3>2. ls[i].last \in Seq(Item) /\ Len(ls[i].last) \in Nat
      BY <1>1, LaneIs
    <3>3. IsPrefix(ls[i].last, r.prefix)
      BY DEF Extends
    <3>4. QED
      BY <2>1, <3>2, <3>3, PrefixOrder
  <2>3. more \subseteq Nat /\ more # {}
    <3> HIDE DEF fits
    <3>1. \A i \in fits : Len(r.prefix) - Len(ls[i].last) \in Nat
      BY <2>1, <2>2
    <3>2. QED
      BY <1>4, <3>1
  <2>4. PICK n \in more : n \in Nat /\ \A x \in more : n <= x
    <3> HIDE DEF more
    <3>1. QED
      BY <2>3, LeastExists
  <2>5. PICK b \in fits : n = Len(r.prefix) - Len(ls[b].last)
    BY <2>4
  <2>6. \A j \in fits : Len(ls[j].last) <= Len(ls[b].last)
    <3>1. TAKE j \in fits
    <3>2. n <= Len(r.prefix) - Len(ls[j].last)
      BY <2>4
    <3> HIDE DEF fits
    <3>3. QED
      BY <2>1, <2>2, <2>5, <3>2
  <2>7. longest # {} /\ longest \subseteq Nat
    BY <1>1, <2>6
  <2>8. Min(longest) \in longest
    <3> HIDE DEF longest
    <3>1. QED
      BY <2>7, MinIn
  <2>9. QED
    BY <1>1, <1>2, <1>4, <2>8
<1>5. QED
  BY <1>3, <1>4

LEMMA InChainSame ==
    ASSUME NEW rs, NEW of, NEW more, NEW j \in Nat, j > 0,
           \A k \in 1..j : more[k] = of[k], InChain(rs, of, j)
    PROVE  InChain(rs, more, j)
<1>1. \A k \in 1..j - 1 : more[k] = of[k]
  OBVIOUS
<1>2. more[j] = of[j]
  OBVIOUS
<1>3. \A lane : Earlier(more, j, lane) = Earlier(of, j, lane)
  BY <1>1 DEF Earlier
<1>4. {more[i] : i \in 1..j - 1} = {of[i] : i \in 1..j - 1}
  BY <1>1
<1>5. \A lane : /\ Continues(rs, more, j, lane) <=> Continues(rs, of, j, lane)
                /\ SharedWith(rs, more, j, lane) = SharedWith(rs, of, j, lane)
  BY <1>3 DEF Continues, SharedWith
<1>6. QED
  BY <1>2, <1>3, <1>4, <1>5 DEF InChain

(* A lane as the turns before turn i left it: what it says of them all is  *)
(* what its last prefix says.                                              *)
LEMMA LaneSays ==
    ASSUME NEW rs \in Seq(Record), NEW i \in 1..Len(rs), NEW acc, Chained(acc, rs, i - 1),
           NEW of, \A k \in 1..i - 1 : of[k] = acc.of[k],
           NEW m \in 1..Len(acc.lanes)
    PROVE  LET id == <<acc.lanes[m].static, m>>
           IN  /\ Earlier(of, i, id) # {}
               /\ SharedWith(rs, of, i, id) = Len(acc.lanes[m].last)
               /\ Continues(rs, of, i, id) <=> Extends(acc.lanes[m], rs[i])
<1> DEFINE lane == acc.lanes[m]
           id == <<lane.static, m>>
           lens == {Len(rs[k].prefix) : k \in Earlier(of, i, id)}
<1>1. /\ acc \in Matching /\ Len(acc.of) = i - 1
      /\ \A k \in 1..i - 1 : Assigned(acc, rs[k], acc.of[k])
      /\ EndsWith(acc, rs, i - 1, m)
  BY DEF Chained
<1>2. acc.lanes \in Seq(Lane)
  BY <1>1 DEF Matching
<1>3. lane.static \in Static /\ lane.last \in Seq(Item) /\ Len(lane.last) \in Nat
  BY <1>2, LaneIs
<1>4. DOMAIN rs = 1..Len(rs) /\ Len(rs) \in Nat
  BY LenProperties
<1>5. \A k \in 1..i : rs[k].prefix \in Seq(Item) /\ Len(rs[k].prefix) \in Nat
  <2>1. TAKE k \in 1..i
  <2>2. k \in DOMAIN rs
    BY <1>4
  <2>3. rs[k].prefix \in Seq(Item)
    BY <2>2, RecordIs
  <2>4. QED
    BY <2>3, LenProperties
<1>6. PICK e \in 1..i - 1 : acc.of[e] = id /\ rs[e].prefix = lane.last
  BY <1>1 DEF EndsWith
<1>7. e \in Earlier(of, i, id)
  BY <1>6 DEF Earlier
<1>8. \A k \in Earlier(of, i, id) : k \in 1..i - 1 /\ rs[k].static = lane.static /\ IsPrefix(rs[k].prefix, lane.last)
  <2>1. TAKE k \in Earlier(of, i, id)
  <2>2. k \in 1..i - 1 /\ acc.of[k] = id
    BY DEF Earlier
  <2>3. Assigned(acc, rs[k], id)
    BY <1>1, <2>2
  <2>4. id[1] = lane.static /\ id[2] = m
    OBVIOUS
  <2>5. lane.static \notin Fallback
    BY <1>1 DEF EndsWith
  <2>6. QED
    BY <2>2, <2>3, <2>4, <2>5 DEF Assigned
<1>9. \A k \in Earlier(of, i, id) : k \in 1..i /\ Len(rs[k].prefix) <= Len(lane.last)
  <2>1. TAKE k \in Earlier(of, i, id)
  <2>2. k \in 1..i /\ IsPrefix(rs[k].prefix, lane.last)
    BY <1>8
  <2>3. rs[k].prefix \in Seq(Item)
    BY <1>5, <2>2
  <2>4. QED
    BY <1>3, <2>2, <2>3, PrefixOrder
<1>10. SharedWith(rs, of, i, id) = Len(lane.last)
  <2>1. lens \subseteq Nat /\ Len(lane.last) \in lens /\ \A x \in lens : x <= Len(lane.last)
    BY <1>3, <1>5, <1>6, <1>7, <1>9
  <2>2. Max(lens) = Len(lane.last)
    <3> HIDE DEF lens, lane
    <3>1. QED
      BY <2>1, MaxIs
  <2>3. QED
    BY <2>2 DEF SharedWith
<1>11. Continues(rs, of, i, id) => Extends(lane, rs[i])
  BY <1>6, <1>7, <1>8 DEF Continues, Extends
<1>12. ASSUME Extends(lane, rs[i]) PROVE Continues(rs, of, i, id)
  <2>1. lane.static = rs[i].static /\ IsPrefix(lane.last, rs[i].prefix)
    BY <1>12 DEF Extends
  <2>2. ASSUME NEW k \in Earlier(of, i, id)
        PROVE  rs[k].static = rs[i].static /\ IsPrefix(rs[k].prefix, rs[i].prefix)
    <3>1. k \in 1..i /\ i \in 1..i /\ rs[k].static = lane.static /\ IsPrefix(rs[k].prefix, lane.last)
      BY <1>8, <1>9
    <3>2. QED
      BY <1>3, <1>5, <2>1, <3>1, PrefixOrder
  <2>3. QED
    BY <2>2 DEF Continues
<1>13. QED
  BY <1>7, <1>10, <1>11, <1>12

(* The next turn is in a chain, in the best lane or in one of its own. *)
LEMMA NextInChain ==
    ASSUME NEW rs \in Seq(Record), NEW i \in 1..Len(rs), NEW acc, Chained(acc, rs, i - 1),
           rs[i].static \notin Fallback,
           NEW of, \A k \in 1..i - 1 : of[k] = acc.of[k],
           LET best == BestLane(acc.lanes, rs[i])
           IN  of[i] = <<rs[i].static, IF best # 0 THEN best ELSE Len(acc.lanes) + 1>>
    PROVE  InChain(rs, of, i)
<1> DEFINE r == rs[i]
           best == BestLane(acc.lanes, r)
           Id(m) == <<acc.lanes[m].static, m>>
<1>1. /\ acc \in Matching /\ acc.lanes \in Seq(Lane)
      /\ \A k \in 1..i - 1 : Assigned(acc, rs[k], acc.of[k]) /\ acc.of[k] \in LaneId
  <2>1. acc \in Matching /\ Len(acc.of) = i - 1 /\ \A k \in 1..i - 1 : Assigned(acc, rs[k], acc.of[k])
    BY DEF Chained
  <2>2. acc.lanes \in Seq(Lane) /\ acc.of \in Seq(LaneId)
    BY <2>1 DEF Matching
  <2>3. QED
    BY <2>1, <2>2, ElementOfSeq
<1>2. /\ Len(rs) \in Nat /\ DOMAIN rs = 1..Len(rs) /\ r \in Record
      /\ Len(acc.lanes) \in Nat
  BY <1>1, RecordIs, LenProperties
<1>3. \A m \in 1..Len(acc.lanes) :
         /\ Earlier(of, i, Id(m)) # {}
         /\ SharedWith(rs, of, i, Id(m)) = Len(acc.lanes[m].last)
         /\ Continues(rs, of, i, Id(m)) <=> Extends(acc.lanes[m], r)
  BY LaneSays
(* Only lanes can be continued. *)
<1>4. ASSUME NEW k \in 1..i - 1, Continues(rs, of, i, of[k])
      PROVE  \E m \in 1..Len(acc.lanes) : of[k] = Id(m)
  <2>1. k \in Earlier(of, i, of[k])
    BY DEF Earlier
  <2>2. rs[k].static = r.static
    BY <1>4, <2>1 DEF Continues
  <2>3. /\ of[k] = acc.of[k] /\ acc.of[k] \in Static \X Nat /\ acc.of[k][1] = rs[k].static
        /\ acc.of[k][2] \in 1..Len(acc.lanes) /\ acc.lanes[acc.of[k][2]].static = rs[k].static
    BY <1>1, <2>2 DEF Assigned, LaneId
  <2>4. acc.of[k] = <<acc.of[k][1], acc.of[k][2]>>
    BY <2>3
  <2>5. QED
    BY <2>3, <2>4
<1>5. IF \A m \in 1..Len(acc.lanes) : ~Extends(acc.lanes[m], r) THEN best = 0
      ELSE /\ best \in 1..Len(acc.lanes) /\ Extends(acc.lanes[best], r)
           /\ \A m \in 1..Len(acc.lanes) : Extends(acc.lanes[m], r) => Len(acc.lanes[m].last) <= Len(acc.lanes[best].last)
  BY <1>1, <1>2, BestLaneIs
<1> HIDE DEF best
<1>6. of[i] = <<r.static, IF best # 0 THEN best ELSE Len(acc.lanes) + 1>>
  BY DEF best
<1>7. CASE \A m \in 1..Len(acc.lanes) : ~Extends(acc.lanes[m], r)
  <2>1. of[i] = <<r.static, Len(acc.lanes) + 1>>
    BY <1>5, <1>6, <1>7
  <2>2. Earlier(of, i, of[i]) = {}
    <3>1. SUFFICES ASSUME NEW k \in 1..i - 1, of[k] = of[i] PROVE FALSE
      BY DEF Earlier
    <3>2. acc.of[k][1] = r.static /\ acc.of[k][2] = Len(acc.lanes) + 1
      BY <2>1, <3>1
    <3>3. QED
      BY <1>1, <1>2, <3>2 DEF Assigned
  <2>3. Continues(rs, of, i, of[i])
    BY <2>2 DEF Continues
  <2>4. \A k \in 1..i - 1 : ~Continues(rs, of, i, of[k])
    BY <1>3, <1>4, <1>7
  <2>5. QED
    BY <2>3, <2>4 DEF InChain
<1>8. CASE ~\A m \in 1..Len(acc.lanes) : ~Extends(acc.lanes[m], r)
  <2>1. /\ best \in 1..Len(acc.lanes) /\ Extends(acc.lanes[best], r)
        /\ \A m \in 1..Len(acc.lanes) : Extends(acc.lanes[m], r) => Len(acc.lanes[m].last) <= Len(acc.lanes[best].last)
    BY <1>5, <1>8
  <2>2. of[i] = Id(best)
    BY <1>2, <1>6, <2>1 DEF Extends
  <2>3. ASSUME NEW k \in 1..i - 1, Continues(rs, of, i, of[k])
        PROVE  Earlier(of, i, of[i]) # {} /\ SharedWith(rs, of, i, of[k]) <= SharedWith(rs, of, i, of[i])
    <3>1. PICK m \in 1..Len(acc.lanes) : of[k] = Id(m)
      BY <1>4, <2>3
    <3>2. Extends(acc.lanes[m], r)
      BY <1>3, <2>3, <3>1
    <3>3. Len(acc.lanes[m].last) <= Len(acc.lanes[best].last)
      BY <2>1, <3>2
    <3> HIDE DEF Id
    <3>4. QED
      BY <1>3, <2>1, <2>2, <3>1, <3>3
  <2>4. Continues(rs, of, i, of[i])
    <3> HIDE DEF Id
    <3>1. QED
      BY <1>3, <2>1, <2>2
  <2>5. QED
    BY <2>3, <2>4 DEF InChain
<1>9. QED
  BY <1>7, <1>8

(* The lanes may grow, one of them on its own prefix; then turns stay in them. *)
LEMMA AssignedStays ==
    ASSUME NEW rs \in Seq(Record), NEW i \in 1..Len(rs), NEW acc, Chained(acc, rs, i - 1),
           NEW ls \in Seq(Lane), Len(acc.lanes) <= Len(ls),
           \A m \in 1..Len(acc.lanes) :
              ls[m].static = acc.lanes[m].static /\ IsPrefix(acc.lanes[m].last, ls[m].last),
           NEW of, NEW k \in 1..i - 1
    PROVE  Assigned([lanes |-> ls, of |-> of], rs[k], acc.of[k])
<1>1. acc \in Matching /\ Assigned(acc, rs[k], acc.of[k])
  BY DEF Chained
<1>2. acc.lanes \in Seq(Lane) /\ Len(acc.lanes) \in Nat /\ Len(ls) \in Nat
  BY <1>1, LenProperties DEF Matching
<1>3. rs[k].prefix \in Seq(Item)
  <2>1. k \in DOMAIN rs
    BY LenProperties
  <2>2. QED
    BY <2>1, RecordIs
<1>4. CASE rs[k].static \in Fallback
  BY <1>1, <1>4 DEF Assigned
<1>5. CASE rs[k].static \notin Fallback
  <2> DEFINE m == acc.of[k][2]
  <2>1. /\ acc.of[k][1] = rs[k].static /\ m \in 1..Len(acc.lanes)
        /\ acc.lanes[m].static = rs[k].static /\ IsPrefix(rs[k].prefix, acc.lanes[m].last)
    BY <1>1, <1>5 DEF Assigned
  <2> HIDE DEF m
  <2>2. m \in 1..Len(ls) /\ ls[m].static = rs[k].static
    BY <1>2, <2>1
  <2>3. acc.lanes[m].last \in Seq(Item) /\ ls[m].last \in Seq(Item)
    BY <1>2, <2>1, <2>2, LaneIs
  <2>4. IsPrefix(acc.lanes[m].last, ls[m].last)
    BY <2>1
  <2>5. IsPrefix(rs[k].prefix, ls[m].last)
    BY <1>3, <2>1, <2>3, <2>4, PrefixOrder
  <2>6. QED
    BY <1>5, <2>1, <2>2, <2>5 DEF Assigned, m
<1>6. QED
  BY <1>4, <1>5

LEMMA MatchedHolds ==
    ASSUME NEW rs \in Seq(Record), NEW i \in 1..Len(rs), NEW acc, Chained(acc, rs, i - 1)
    PROVE  Chained(Matched(acc, rs[i]), rs, i)
<1> DEFINE r == rs[i]
           best == BestLane(acc.lanes, r)
           new == Len(acc.lanes) + 1
           n == IF r.static \in Fallback THEN 0 ELSE IF best # 0 THEN best ELSE new
           id == <<r.static, n>>
           of == Append(acc.of, id)
           lane == [static |-> r.static, last |-> r.prefix]
           ls == IF r.static \in Fallback THEN acc.lanes
                 ELSE IF best # 0 THEN [acc.lanes EXCEPT ![best].last = r.prefix]
                 ELSE Append(acc.lanes, lane)
           next == [lanes |-> ls, of |-> of]
<1>1. /\ acc \in Matching /\ Len(acc.of) = i - 1
      /\ \A k \in 1..i - 1 : Assigned(acc, rs[k], acc.of[k])
      /\ \A m \in 1..Len(acc.lanes) : EndsWith(acc, rs, i - 1, m)
      /\ \A j \in 1..i - 1 : rs[j].static \notin Fallback => InChain(rs, acc.of, j)
  BY DEF Chained
<1>2. acc.lanes \in Seq(Lane) /\ acc.of \in Seq(LaneId) /\ Len(acc.lanes) \in Nat /\ DOMAIN acc.lanes = 1..Len(acc.lanes)
  BY <1>1, LenProperties DEF Matching
<1>3. /\ i \in DOMAIN rs /\ r \in Record /\ r.static \in Static /\ r.prefix \in Seq(Item)
      /\ lane \in Lane
  <2>1. i \in DOMAIN rs
    BY LenProperties
  <2>2. r.static \in Static /\ r.prefix \in Seq(Item) /\ r \in Record
    BY <2>1, RecordIs
  <2>3. QED
    BY <2>1, <2>2 DEF Lane
<1>4. IF \A m \in 1..Len(acc.lanes) : ~Extends(acc.lanes[m], r) THEN best = 0
      ELSE /\ best \in 1..Len(acc.lanes) /\ Extends(acc.lanes[best], r)
           /\ \A m \in 1..Len(acc.lanes) : Extends(acc.lanes[m], r) => Len(acc.lanes[m].last) <= Len(acc.lanes[best].last)
  BY <1>2, <1>3, BestLaneIs
<1>5. best # 0 => best \in 1..Len(acc.lanes) /\ Extends(acc.lanes[best], r)
  BY <1>4
<1>6. Matched(acc, r) = next
  <2>1. acc = [lanes |-> acc.lanes, of |-> acc.of]
    BY <1>1 DEF Matching
  <2>2. CASE r.static \in Fallback
    <3>1. Matched(acc, r) = [acc EXCEPT !.of = Append(@, <<r.static, 0>>)]
      BY <2>2 DEF Matched
    <3>2. QED
      BY <2>1, <2>2, <3>1
  <2>3. CASE r.static \notin Fallback
    BY <2>3 DEF Matched, LaneJoined
  <2>4. QED
    BY <2>2, <2>3
<1>7. /\ id \in LaneId /\ of \in Seq(LaneId) /\ Len(of) = i /\ of[i] = id
      /\ \A k \in 1..i - 1 : of[k] = acc.of[k]
  <2>1. n \in Nat
    BY <1>2, <1>5
  <2>2. id \in LaneId
    BY <1>3, <2>1 DEF LaneId
  <2> HIDE DEF id
  <2>3. QED
    BY <1>1, <1>2, <2>2, AppendIs
<1> HIDE DEF best, of
(* How the lanes change. *)
<1>8. /\ ls \in Seq(Lane) /\ Len(acc.lanes) <= Len(ls) /\ Len(ls) \in Nat
      /\ \A m \in 1..Len(acc.lanes) :
            ls[m].static = acc.lanes[m].static /\ IsPrefix(acc.lanes[m].last, ls[m].last)
      /\ \A m \in 1..Len(ls) : m # n => m \in 1..Len(acc.lanes) /\ ls[m] = acc.lanes[m]
      /\ r.static \notin Fallback => n \in 1..Len(ls) /\ ls[n] = lane
  <2>1. \A m \in 1..Len(acc.lanes) : IsPrefix(acc.lanes[m].last, acc.lanes[m].last)
    <3>1. TAKE m \in 1..Len(acc.lanes)
    <3>2. acc.lanes[m].last \in Seq(Item)
      BY <1>2, LaneIs
    <3>3. QED
      BY <3>2, PrefixOrder
  <2>2. CASE r.static \in Fallback
    BY <1>2, <2>1, <2>2
  <2>3. CASE r.static \notin Fallback /\ best # 0
    <3> DEFINE joined == [acc.lanes EXCEPT ![best].last = r.prefix]
    <3>1. best \in 1..Len(acc.lanes) /\ acc.lanes[best].static = r.static /\ IsPrefix(acc.lanes[best].last, r.prefix)
      BY <1>5, <2>3 DEF Extends
    <3>2. acc.lanes[best] \in Lane
      BY <1>2, <3>1, LaneIs
    <3>3. [acc.lanes[best] EXCEPT !.last = r.prefix] = lane
      BY <3>1, <3>2 DEF Lane
    <3>4. joined = [acc.lanes EXCEPT ![best] = lane]
      BY <3>3
    <3>5. ls = [acc.lanes EXCEPT ![best] = lane] /\ n = best
      BY <2>3, <3>4
    <3>6. /\ ls \in Seq(Lane) /\ Len(ls) = Len(acc.lanes)
          /\ \A m \in 1..Len(acc.lanes) : ls[m] = IF m = best THEN lane ELSE acc.lanes[m]
      <4> HIDE DEF lane, ls
      <4>1. QED
        BY <1>2, <1>3, <3>1, <3>5, ExceptSeq
    <3>7. lane.static = r.static /\ lane.last = r.prefix
      OBVIOUS
    <3> HIDE DEF ls, n, lane
    <3>8. QED
      BY <1>2, <2>1, <2>3, <3>1, <3>5, <3>6, <3>7
  <2>4. CASE r.static \notin Fallback /\ best = 0
    <3>1. ls = Append(acc.lanes, lane) /\ n = new
      BY <2>4
    <3>2. /\ ls \in Seq(Lane) /\ Len(ls) = Len(acc.lanes) + 1
          /\ \A m \in 1..Len(acc.lanes) : ls[m] = acc.lanes[m]
          /\ ls[new] = lane
      <4> HIDE DEF lane, ls
      <4>1. QED
        BY <1>2, <1>3, <3>1, AppendIs
    <3> HIDE DEF ls, n, lane
    <3>3. QED
      BY <1>2, <2>1, <2>4, <3>1, <3>2
  <2>5. QED
    BY <2>2, <2>3, <2>4
<1>9. next \in Matching
  BY <1>7, <1>8 DEF Matching
<1>10. \A k \in 1..i : Assigned(next, rs[k], of[k])
  <2>1. ASSUME NEW k \in 1..i - 1 PROVE Assigned(next, rs[k], of[k])
    <3> HIDE DEF ls
    <3>1. Assigned(next, rs[k], acc.of[k])
      BY <1>8, AssignedStays
    <3>2. QED
      BY <1>7, <3>1
  <2>2. Assigned(next, r, id)
    <3>1. IsPrefix(r.prefix, r.prefix)
      BY <1>3, PrefixOrder
    <3>2. next.lanes = ls /\ id[1] = r.static /\ id[2] = n
      OBVIOUS
    <3>3. lane.static = r.static /\ lane.last = r.prefix
      OBVIOUS
    <3>4. CASE r.static \in Fallback
      BY <3>2, <3>4 DEF Assigned
    <3>5. CASE r.static \notin Fallback
      <4> HIDE DEF ls, n, lane, next
      <4>1. QED
        BY <1>8, <3>1, <3>2, <3>3, <3>5 DEF Assigned
    <3>6. QED
      BY <3>4, <3>5
  <2>3. \A k \in 1..i : k \in 1..i - 1 \/ k = i
    OBVIOUS
  <2> HIDE DEF next, id
  <2>4. QED
    BY <1>7, <2>1, <2>2, <2>3
<1>11. \A m \in 1..Len(ls) : EndsWith(next, rs, i, m)
  <2>1. TAKE m \in 1..Len(ls)
  <2>2. next.lanes = ls /\ next.of = of
    OBVIOUS
  <2>3. CASE m = n
    <3>1. r.static \notin Fallback
      BY <2>3
    <3>2. ls[m] = lane
      BY <1>8, <2>3, <3>1
    <3>3. lane.static = r.static /\ lane.last = r.prefix
      OBVIOUS
    <3>4. i \in 1..i /\ of[i] = <<r.static, m>>
      BY <1>7, <2>3
    <3> HIDE DEF ls, n, lane, next
    <3>5. QED
      BY <2>2, <3>1, <3>2, <3>3, <3>4 DEF EndsWith
  <2>4. CASE m # n
    <3>1. m \in 1..Len(acc.lanes) /\ ls[m] = acc.lanes[m]
      BY <1>8, <2>4
    <3>2. EndsWith(acc, rs, i - 1, m)
      BY <1>1, <3>1
    <3>3. PICK k \in 1..i - 1 : acc.of[k] = <<acc.lanes[m].static, m>> /\ rs[k].prefix = acc.lanes[m].last
      BY <3>2 DEF EndsWith
    <3>4. k \in 1..i /\ of[k] = acc.of[k]
      BY <1>7
    <3>5. acc.lanes[m].static \notin Fallback
      BY <3>2 DEF EndsWith
    <3> HIDE DEF ls, n, next
    <3>6. QED
      BY <2>2, <3>1, <3>3, <3>4, <3>5 DEF EndsWith
  <2>5. QED
    BY <2>3, <2>4
<1>12. \A j \in 1..i : rs[j].static \notin Fallback => InChain(rs, of, j)
  <2>1. ASSUME NEW j \in 1..i - 1, rs[j].static \notin Fallback PROVE InChain(rs, of, j)
    <3>1. InChain(rs, acc.of, j)
      BY <1>1, <2>1
    <3>2. \A k \in 1..j : of[k] = acc.of[k]
      BY <1>7
    <3>3. QED
      BY <3>1, <3>2, InChainSame
  <2>2. ASSUME r.static \notin Fallback PROVE InChain(rs, of, i)
    <3>1. of[i] = <<r.static, IF BestLane(acc.lanes, r) # 0 THEN BestLane(acc.lanes, r) ELSE Len(acc.lanes) + 1>>
      BY <1>7, <2>2 DEF best
    <3>2. \A k \in 1..i - 1 : of[k] = acc.of[k]
      BY <1>7
    <3>3. QED
      BY <2>2, <3>1, <3>2, NextInChain
  <2>3. \A j \in 1..i : j \in 1..i - 1 \/ j = i
    OBVIOUS
  <2>4. QED
    BY <2>1, <2>2, <2>3
<1>13. next.lanes = ls /\ next.of = of
  OBVIOUS
<1> HIDE DEF next, ls
<1>14. QED
  BY <1>6, <1>7, <1>9, <1>10, <1>11, <1>12, <1>13 DEF Chained

(* A fold exists, and stays in what its step leads on in: T has pairs of a *)
(* value and a number, F goes from such a pair to the next value.          *)
FoldsIn(f, n, a, F, T) ==
  /\ f = [i \in 0..n |-> f[i]]
  /\ f[0] = a /\ \A i \in 1..n : f[i] = F[<<f[i - 1], i - 1>>]
  /\ \A i \in 0..n : <<f[i], i>> \in T

LEMMA FoldExists ==
    ASSUME NEW n \in Nat, NEW T, NEW a, <<a, 0>> \in T, NEW F,
           \A x : \A i \in 1..n : <<x, i - 1>> \in T => <<F[<<x, i - 1>>], i>> \in T
    PROVE  \E f : FoldsIn(f, n, a, F, T)
<1> DEFINE S == {p[1] : p \in T} \cup {a}
           N == [p \in S \X (1..n) |-> IF <<p[1], p[2] - 1>> \in T THEN F[<<p[1], p[2] - 1>>] ELSE a]
<1>1. N \in [S \X (1..n) -> S]
  <2>1. ASSUME NEW x \in S, NEW i \in 1..n, <<x, i - 1>> \in T
        PROVE  F[<<x, i - 1>>] \in S
    <3>1. <<F[<<x, i - 1>>], i>> \in T
      BY <2>1
    <3>2. <<F[<<x, i - 1>>], i>>[1] = F[<<x, i - 1>>]
      OBVIOUS
    <3>3. QED
      BY <3>1, <3>2
  <2>2. \A p \in S \X (1..n) : p[1] \in S /\ p[2] \in 1..n
    OBVIOUS
  <2>3. a \in S
    OBVIOUS
  <2> HIDE DEF S
  <2>4. QED
    BY <2>1, <2>2, <2>3
<1>2. a \in S
  OBVIOUS
<1> HIDE DEF S
<1>3. PICK f \in [0..n -> S] : Unrolls(f, n, a, N)
  <2> HIDE DEF N
  <2>1. QED
    BY <1>1, <1>2, RecursionExists
<1> DEFINE G == {i \in 0..n : <<f[i], i>> \in T}
<1>4. f[0] = a
  <2> HIDE DEF N
  <2>1. QED
    BY <1>3 DEF Unrolls
<1>5. ASSUME NEW i \in 1..n, <<f[i - 1], i - 1>> \in T
      PROVE  f[i] = F[<<f[i - 1], i - 1>>] /\ <<f[i], i>> \in T
  <2>1. f[i] = N[<<f[i - 1], i>>] /\ f[i - 1] \in S
    <3> HIDE DEF N
    <3>1. i - 1 \in 0..n
      OBVIOUS
    <3>2. QED
      BY <1>3, <3>1 DEF Unrolls
  <2>2. f[i] = F[<<f[i - 1], i - 1>>]
    BY <1>5, <2>1
  <2>3. <<F[<<f[i - 1], i - 1>>], i>> \in T
    BY <1>5
  <2>4. QED
    BY <2>2, <2>3
<1>6. Climbs(G, n)
  <2>1. 0 \in G
    BY <1>4
  <2>2. \A i \in 1..n : i - 1 \in G => i \in G
    BY <1>5
  <2> HIDE DEF G
  <2>3. QED
    BY <2>1, <2>2 DEF Climbs
<1>7. \A i \in 0..n : <<f[i], i>> \in T
  <2>1. \A i \in 0..n : i \in G
    <3> HIDE DEF G
    <3>1. QED
      BY <1>6, Climbing
  <2>2. QED
    BY <2>1
<1>8. \A i \in 1..n : f[i] = F[<<f[i - 1], i - 1>>]
  <2>1. TAKE i \in 1..n
  <2>2. i - 1 \in 0..n
    OBVIOUS
  <2>3. QED
    BY <1>5, <1>7, <2>2
<1>9. f = [i \in 0..n |-> f[i]]
  BY <1>3
<1>10. QED
  BY <1>4, <1>7, <1>8, <1>9 DEF FoldsIn

(* Every turn of a log is in a chain. *)
LEMMA LanesOfIs ==
    ASSUME NEW rs \in Seq(Record)
    PROVE  \E acc : Chained(acc, rs, Len(rs)) /\ LanesOf(rs) = acc.of
<1> DEFINE n == Len(rs)
           none == [lanes |-> <<>>, of |-> <<>>]
           Folds(f) == f = [i \in 0..n |-> IF i = 0 THEN none ELSE Matched(f[i - 1], rs[i])]
           T == {p \in Matching \X (0..n) : Chained(p[1], rs, p[2])}
           F == [p \in T |-> Matched(p[1], rs[p[2] + 1])]
<1>1. n \in Nat /\ DOMAIN rs = 1..n
  BY LenProperties
<1>2. \A x : \A i \in 0..n : Chained(x, rs, i) <=> <<x, i>> \in T
  BY DEF Chained
<1>3. Chained(none, rs, 0)
  <2>1. <<>> \in Seq(Lane) /\ <<>> \in Seq(LaneId) /\ Len(<<>>) = 0
    BY EmptySeq
  <2>2. none \in Matching /\ Len(none.of) = 0 /\ Len(none.lanes) = 0
    BY <2>1 DEF Matching
  <2> HIDE DEF none
  <2>3. QED
    BY <2>2 DEF Chained
<1>4. <<none, 0>> \in T
  <2> HIDE DEF T, none
  <2>1. QED
    BY <1>1, <1>2, <1>3
<1>5. ASSUME NEW x, NEW i \in 1..n, <<x, i - 1>> \in T
      PROVE  F[<<x, i - 1>>] = Matched(x, rs[i]) /\ <<F[<<x, i - 1>>], i>> \in T
  <2>1. i - 1 \in 0..n /\ i \in 0..n /\ (i - 1) + 1 = i
    BY <1>1
  <2>2. F[<<x, i - 1>>] = Matched(x, rs[(i - 1) + 1])
    BY <1>5
  <2>3. Chained(x, rs, i - 1)
    BY <1>2, <1>5, <2>1
  <2>4. Chained(Matched(x, rs[i]), rs, i)
    BY <2>3, MatchedHolds
  <2> HIDE DEF F, T
  <2>5. QED
    BY <1>2, <2>1, <2>2, <2>4
<1>6. \E f : Folds(f)
  <2>1. PICK f : FoldsIn(f, n, none, F, T)
    <3>1. \A x : \A i \in 1..n : <<x, i - 1>> \in T => <<F[<<x, i - 1>>], i>> \in T
      <4> HIDE DEF F, T, n
      <4>1. QED
        BY <1>5
    <3> HIDE DEF F, T, none, n
    <3>2. QED
      BY <1>1, <1>4, <3>1, FoldExists
  <2>2. \A i \in 1..n : f[i] = Matched(f[i - 1], rs[i])
    <3>1. TAKE i \in 1..n
    <3>2. i - 1 \in 0..n
      BY <1>1
    <3> HIDE DEF F, T, none
    <3>3. f[i] = F[<<f[i - 1], i - 1>>] /\ <<f[i - 1], i - 1>> \in T
      BY <2>1, <3>2 DEF FoldsIn
    <3>4. QED
      BY <1>5, <3>3
  <2>3. f = [i \in 0..n |-> f[i]] /\ f[0] = none
    <3> HIDE DEF F, T, none
    <3>1. QED
      BY <2>1 DEF FoldsIn
  <2>4. \A i \in 0..n : f[i] = IF i = 0 THEN none ELSE Matched(f[i - 1], rs[i])
    <3>1. \A i \in 0..n : i # 0 => i \in 1..n
      BY <1>1
    <3>2. QED
      BY <2>2, <2>3, <3>1
  <2>5. Folds(f)
    BY <2>3, <2>4
  <2> HIDE DEF Folds
  <2>6. QED
    BY <2>5
<1> DEFINE acc == CHOOSE f : Folds(f)
<1>7. Folds(acc)
  <2> HIDE DEF Folds
  <2>1. QED
    BY <1>6
<1>8. LanesOf(rs) = acc[n].of
  BY DEF LanesOf
<1> HIDE DEF acc
<1> DEFINE G == {i \in 0..n : Chained(acc[i], rs, i)}
<1>9. Climbs(G, n)
  <2>1. acc[0] = none /\ \A i \in 1..n : acc[i] = Matched(acc[i - 1], rs[i])
    <3>1. \A i \in 0..n : acc[i] = IF i = 0 THEN none ELSE Matched(acc[i - 1], rs[i])
      BY <1>7
    <3>2. QED
      BY <1>1, <3>1
  <2>2. 0 \in G
    BY <1>1, <1>3, <2>1
  <2>3. \A i \in 1..n : i - 1 \in G => i \in G
    BY <1>1, <2>1, MatchedHolds
  <2> HIDE DEF G
  <2>4. QED
    BY <2>2, <2>3 DEF Climbs
<1>10. n \in G
  <2>1. n \in 0..n
    BY <1>1
  <2> HIDE DEF G
  <2>2. QED
    BY <1>1, <1>9, <2>1, Climbing
<1>11. Chained(acc[n], rs, n)
  BY <1>10
<1>12. QED
  BY <1>8, <1>11

LEMMA LanesHold ==
    ASSUME NEW rs \in Seq(Record)
    PROVE  /\ LanesOf(rs) \in Seq(LaneId) /\ Len(LanesOf(rs)) = Len(rs)
           /\ \A j \in DOMAIN rs : rs[j].static \notin Fallback => InChain(rs, LanesOf(rs), j)
<1>1. Len(rs) \in Nat /\ DOMAIN rs = 1..Len(rs)
  BY LenProperties
<1>2. PICK acc : Chained(acc, rs, Len(rs)) /\ LanesOf(rs) = acc.of
  BY LanesOfIs
<1>3. acc.of \in Seq(LaneId)
  BY <1>2 DEF Chained, Matching
<1>4. QED
  BY <1>1, <1>2, <1>3 DEF Chained

-----------------------------------------------------------------------------
(* The log and its readers. *)

LEMMA SeqGrows ==
    ASSUME NEW S, NEW T, S \subseteq T, NEW s \in Seq(S)
    PROVE  s \in Seq(T) /\ Len(s) \in Nat /\ DOMAIN s = 1..Len(s) /\ \A i \in DOMAIN s : s[i] \in S
<1>1. Len(s) \in Nat /\ DOMAIN s = 1..Len(s) /\ \A i \in 1..Len(s) : s[i] \in S
  BY LenProperties, ElementOfSeq
<1>2. s \in [1..Len(s) -> S]
  BY LenProperties
<1>3. s \in [1..Len(s) -> T]
  BY <1>1, <1>2
<1>4. QED
  BY <1>1, <1>3

LEMMA MappedIs ==
    ASSUME NEW S, NEW T, NEW s \in Seq(S), NEW t, DOMAIN t = DOMAIN s,
           t = [i \in DOMAIN t |-> t[i]], \A i \in DOMAIN s : t[i] \in T
    PROVE  t \in Seq(T) /\ Len(t) = Len(s)
<1>1. Len(s) \in Nat /\ DOMAIN s = 1..Len(s)
  BY LenProperties
<1>2. t \in [1..Len(s) -> T]
  BY <1>1
<1>3. QED
  BY <1>1, <1>2

LEMMA TurnIs ==
    ASSUME LogInv, NEW t \in DOMAIN turns
    PROVE  /\ Len(turns) \in Nat /\ DOMAIN turns = 1..Len(turns) /\ DOMAIN files = 1..Len(turns)
           /\ turns[t] \in TurnType /\ files[t] \subseteq File
<1>1. /\ Len(turns) \in Nat /\ DOMAIN turns = 1..Len(turns) /\ DOMAIN files = 1..Len(turns)
  BY LenProperties DEF LogInv
<1>2. turns[t] \in TurnType /\ files[t] \in SUBSET File
  BY <1>1, ElementOfSeq DEF LogInv
<1>3. QED
  BY <1>1, <1>2

LEMMA AskedIs ==
    ASSUME NEW r \in Asked
    PROVE  r.static \in Static /\ r.prefix \in Seq(Item)
<1>1. r.prefix \in Seq(Range(r.prefix))
  BY RequestsAssumption DEF Asked
<1>2. Range(r.prefix) \subseteq Item
  BY DEF Item
<1>3. r.prefix \in Seq(Item)
  BY <1>1, <1>2, SeqGrows
<1>4. QED
  BY <1>3 DEF Static

(* A turn has at most one record. *)
OneEach(rs) == \A i, j \in DOMAIN rs : rs[i].turn = rs[j].turn => i = j

ListedAs(t) ==
  [turn |-> t, tools |-> turns[t].tools,
   static |-> NoStatic, prefix |-> <<>>, word |-> NoWord,
   non_stream |-> ListedFile(t, "non_stream"),
   downstream |-> ListedFile(t, "downstream")]

(* The listing of the first n turns: those with a request, each once. *)
Lists(s, n) ==
  /\ s \in Seq(RecordOf(Len(turns))) /\ OneEach(s)
  /\ \A i \in DOMAIN s : s[i].turn \in 1..n
  /\ \A t \in 1..n : "req" \in files[t] => \E k \in DOMAIN s : s[k] = ListedAs(t)

LEMMA NextListed ==
    ASSUME LogInv, NEW t \in 1..Len(turns), NEW s, Lists(s, t - 1)
    PROVE  Lists(IF "req" \notin files[t] THEN s ELSE Append(s, ListedAs(t)), t)
<1> DEFINE n == Len(turns)
           R == RecordOf(n)
<1>1. n \in Nat /\ DOMAIN turns = 1..n /\ t \in Nat
  BY LenProperties DEF LogInv
<1>2. ListedAs(t) \in R /\ ListedAs(t).turn = t
  <2>1. turns[t].tools \in Calls \cup {<<>>}
    BY <1>1, TurnIs DEF TurnType
  <2>2. <<>> \in Seq(Item)
    BY EmptySeq
  <2>3. \A k \in {"non_stream", "downstream"} : ListedFile(t, k) \in ReadState
    BY DEF ListedFile, ReadState
  <2>4. NoStatic \in Static
    BY DEF Static
  <2>5. ListedAs(t) \in Record
    BY <1>1, <2>1, <2>2, <2>3, <2>4 DEF Record, ListedAs
  <2>6. ListedAs(t).turn = t
    BY DEF ListedAs
  <2>7. QED
    BY <2>5, <2>6 DEF RecordOf
<1>3. CASE "req" \notin files[t]
  <2>1. \A i \in 1..t : i # t => i \in 1..t - 1
    BY <1>1
  <2>2. \A i \in 1..t - 1 : i \in 1..t
    BY <1>1
  <2>3. QED
    BY <1>3, <2>1, <2>2 DEF Lists
<1>4. CASE "req" \in files[t]
  <2> DEFINE r == ListedAs(t)
             u == Append(s, r)
             m == Len(s)
  <2>1. s \in Seq(R) /\ OneEach(s) /\ \A i \in DOMAIN s : s[i].turn \in 1..t - 1
    BY DEF Lists
  <2> HIDE DEF R, r
  <2>2. /\ u \in Seq(R) /\ m \in Nat /\ DOMAIN s = 1..m /\ DOMAIN u = 1..m + 1
        /\ \A k \in 1..m : u[k] = s[k]
        /\ u[m + 1] = r
    BY <1>2, <2>1, AppendIs DEF r
  <2> HIDE DEF u, m
  <2>3. /\ r.turn = t /\ m + 1 \in DOMAIN u
        /\ \A i \in DOMAIN u : i # m + 1 => i \in DOMAIN s /\ u[i] = s[i] /\ u[i].turn \in 1..t - 1
        /\ \A i \in DOMAIN s : i \in DOMAIN u
    BY <1>2, <2>1, <2>2 DEF r
  <2>4. \A i \in DOMAIN u : u[i].turn \in 1..t
    BY <1>1, <2>2, <2>3
  <2>5. OneEach(u)
    <3>1. SUFFICES ASSUME NEW i \in DOMAIN u, NEW j \in DOMAIN u, u[i].turn = u[j].turn PROVE i = j
      BY DEF OneEach
    <3>2. \A k \in 1..t - 1 : k # t
      BY <1>1
    <3>3. CASE i # m + 1 /\ j # m + 1
      BY <2>1, <2>3, <3>1, <3>3 DEF OneEach
    <3>4. CASE i = m + 1 \/ j = m + 1
      BY <2>2, <2>3, <3>1, <3>2, <3>4
    <3>5. QED
      BY <3>3, <3>4
  <2>6. \A k \in 1..t : "req" \in files[k] => \E i \in DOMAIN u : u[i] = ListedAs(k)
    <3>1. TAKE k \in 1..t
    <3>2. CASE k = t
      BY <2>2, <2>3, <3>2 DEF r
    <3>3. CASE k # t
      <4>1. k \in 1..t - 1
        BY <1>1, <3>3
      <4>2. "req" \in files[k] => \E i \in DOMAIN s : s[i] = ListedAs(k)
        BY <4>1 DEF Lists
      <4>3. QED
        BY <2>2, <2>3, <4>2
    <3>4. QED
      BY <3>2, <3>3
  <2>7. Lists(u, t)
    BY <2>2, <2>4, <2>5, <2>6 DEF Lists, R
  <2>8. QED
    BY <1>4, <2>7 DEF u, r
<1>5. QED
  BY <1>3, <1>4

LEMMA ListingHolds ==
    ASSUME LogInv
    PROVE  Lists(Listing, Len(turns))
<1> DEFINE n == Len(files)
           Step(s, t) == IF "req" \notin files[t] THEN s ELSE Append(s, ListedAs(t))
           Folds(f) == f = [t \in 0..n |-> IF t = 0 THEN <<>> ELSE Step(f[t - 1], t)]
           T == {p \in Seq(RecordOf(Len(turns))) \X (0..n) : Lists(p[1], p[2])}
           F == [p \in T |-> Step(p[1], p[2] + 1)]
<1>1. n \in Nat /\ Len(turns) = n
  BY LenProperties DEF LogInv
<1>2. \A s : \A t \in 0..n : Lists(s, t) <=> <<s, t>> \in T
  BY DEF Lists
<1>3. Lists(<<>>, 0)
  <2>1. <<>> \in Seq(RecordOf(Len(turns))) /\ DOMAIN <<>> = {}
    BY EmptySeq
  <2>2. QED
    BY <2>1 DEF Lists, OneEach
<1>4. \A s : \A t \in 1..n : Lists(s, t - 1) => Lists(Step(s, t), t)
  BY <1>1, NextListed
<1> HIDE DEF Step
<1>5. <<<<>>, 0>> \in T
  <2>1. 0 \in 0..n
    BY <1>1
  <2> HIDE DEF T
  <2>2. QED
    BY <1>2, <1>3, <2>1
<1>6. ASSUME NEW x, NEW t \in 1..n, <<x, t - 1>> \in T
      PROVE  F[<<x, t - 1>>] = Step(x, t) /\ <<F[<<x, t - 1>>], t>> \in T
  <2>1. t - 1 \in 0..n /\ t \in 0..n /\ (t - 1) + 1 = t
    BY <1>1
  <2>2. F[<<x, t - 1>>] = Step(x, (t - 1) + 1)
    BY <1>6
  <2>3. Lists(x, t - 1)
    BY <1>2, <1>6, <2>1
  <2>4. Lists(Step(x, t), t)
    BY <1>4, <2>3
  <2> HIDE DEF F, T
  <2>5. QED
    BY <1>2, <2>1, <2>2, <2>4
<1>7. \E f : Folds(f)
  <2>1. PICK f : FoldsIn(f, n, <<>>, F, T)
    <3>1. \A x : \A t \in 1..n : <<x, t - 1>> \in T => <<F[<<x, t - 1>>], t>> \in T
      <4> HIDE DEF F, T, n
      <4>1. QED
        BY <1>6
    <3> HIDE DEF F, T, n
    <3>2. QED
      BY <1>1, <1>5, <3>1, FoldExists
  <2>2. \A t \in 1..n : f[t] = Step(f[t - 1], t)
    <3>1. TAKE t \in 1..n
    <3>2. t - 1 \in 0..n
      BY <1>1
    <3> HIDE DEF F, T
    <3>3. f[t] = F[<<f[t - 1], t - 1>>] /\ <<f[t - 1], t - 1>> \in T
      BY <2>1, <3>2 DEF FoldsIn
    <3>4. QED
      BY <1>6, <3>3
  <2>3. f = [t \in 0..n |-> f[t]] /\ f[0] = <<>>
    <3> HIDE DEF F, T, n
    <3>1. QED
      BY <2>1 DEF FoldsIn
  <2>4. \A t \in 0..n : f[t] = IF t = 0 THEN <<>> ELSE Step(f[t - 1], t)
    <3>1. \A t \in 0..n : t # 0 => t \in 1..n
      BY <1>1
    <3>2. QED
      BY <2>2, <2>3, <3>1
  <2>5. Folds(f)
    BY <2>3, <2>4
  <2> HIDE DEF Folds
  <2>6. QED
    BY <2>5
<1> DEFINE listed == CHOOSE f : Folds(f)
<1>8. Folds(listed)
  <2> HIDE DEF Folds
  <2>1. QED
    BY <1>7
<1>9. Listing = listed[n]
  BY DEF Listing, Step, ListedAs
<1> HIDE DEF listed
<1> DEFINE G == {t \in 0..n : Lists(listed[t], t)}
<1>10. Climbs(G, n)
  <2>1. listed[0] = <<>> /\ \A t \in 1..n : listed[t] = Step(listed[t - 1], t)
    <3>1. \A t \in 0..n : listed[t] = IF t = 0 THEN <<>> ELSE Step(listed[t - 1], t)
      BY <1>8
    <3>2. QED
      BY <1>1, <3>1
  <2>2. 0 \in G
    BY <1>1, <1>3, <2>1
  <2>3. \A t \in 1..n : t - 1 \in G => t \in G
    BY <1>1, <1>4, <2>1
  <2> HIDE DEF G
  <2>4. QED
    BY <2>2, <2>3 DEF Climbs
<1>11. n \in G
  <2>1. n \in 0..n
    BY <1>1
  <2> HIDE DEF G
  <2>2. QED
    BY <1>1, <1>10, <2>1, Climbing
<1>12. QED
  BY <1>1, <1>9, <1>11

LEMMA ServerInitHolds == ServerInit => LogInv
<1> SUFFICES ASSUME ServerInit PROVE LogInv
  OBVIOUS
<1>1. /\ turns = <<>> /\ files = <<>> /\ bundle = NoBundle
      /\ build = [step |-> "none", filters |-> NoFilters, records |-> <<>>]
  BY DEF ServerInit
<1>2. /\ turns \in Seq(TurnType) /\ files \in Seq(SUBSET File) /\ Len(files) = Len(turns)
      /\ build.records \in Seq(RecordOf(Len(turns)))
  BY <1>1, EmptySeq
<1>3. QED
  BY <1>1, <1>2 DEF LogInv

LEMMA BuildIs ==
    ASSUME LogInv
    PROVE  /\ build = [step |-> build.step, filters |-> build.filters, records |-> build.records]
           /\ build.step \in {"none", "listed", "requests", "responses"}
           /\ build.filters \in Filters \cup {NoFilters}
           /\ build.records \in Seq(RecordOf(Len(turns)))
           /\ DOMAIN build.records = 1..Len(build.records)
           /\ \A i \in DOMAIN build.records :
                 build.records[i] \in RecordOf(Len(turns)) /\ build.records[i].turn \in DOMAIN turns
<1>1. /\ build.records \in Seq(RecordOf(Len(turns)))
      /\ build \in [step : {"none", "listed", "requests", "responses"},
                    filters : Filters \cup {NoFilters}, records : Seq(RecordOf(Len(turns)))]
  BY DEF LogInv
<1>2. \A i \in DOMAIN build.records : build.records[i] \in RecordOf(Len(turns))
  BY <1>1, SeqGrows
<1>3. \A i \in DOMAIN build.records : build.records[i].turn \in DOMAIN turns
  BY <1>2, LenProperties DEF LogInv, RecordOf
<1>4. DOMAIN build.records = 1..Len(build.records)
  BY <1>1, LenProperties
<1>5. QED
  BY <1>1, <1>2, <1>3, <1>4

(* While no timeline is built, turns and files may change within their types. *)
LEMMA LogChanges ==
    ASSUME LogInv, Idle, UNCHANGED <<bundle, build>>,
           turns' \in Seq(TurnType), files' \in Seq(SUBSET File), Len(files') = Len(turns')
    PROVE  LogInv'
<1>1. build.records = <<>> /\ build'.records = <<>>
  BY DEF LogInv, Idle
<1>2. build'.records \in Seq(RecordOf(Len(turns')))
  BY <1>1, EmptySeq
<1>3. build' \in [step : {"none", "listed", "requests", "responses"},
                  filters : Filters \cup {NoFilters}, records : Seq(RecordOf(Len(turns')))]
  <2>1. build' = [step |-> build.step, filters |-> build.filters, records |-> build'.records]
    BY BuildIs
  <2>2. build.step \in {"none", "listed", "requests", "responses"} /\ build.filters \in Filters \cup {NoFilters}
    BY BuildIs
  <2>3. QED
    BY <1>2, <2>1, <2>2
<1>4. QED
  BY <1>1, <1>2, <1>3 DEF LogInv

LEMMA BeginHolds ==
    ASSUME LogInv, Len(turns) < Len(Requests), NEW r \in Requests[Len(turns) + 1], BeginTurn(r)
    PROVE  LogInv'
<1> DEFINE turn == [request |-> r, tools |-> <<>>, open |-> TRUE, written |-> {"req"}]
<1>1. r \in Asked
  <2>1. Len(turns) \in Nat /\ Len(Requests) \in Nat /\ DOMAIN Requests = 1..Len(Requests)
    BY RequestsAssumption, LenProperties DEF LogInv
  <2>2. Len(turns) + 1 \in DOMAIN Requests
    BY <2>1
  <2>3. Requests[Len(turns) + 1] \in Range(Requests)
    BY <2>2 DEF Range
  <2>4. QED
    BY <2>3 DEF Asked
<1>2. turn \in TurnType
  BY <1>1 DEF TurnType, File
<1>3. turns' = Append(turns, turn) /\ files' = Append(files, {"req"})
  BY DEF BeginTurn
<1>4. {"req"} \in SUBSET File
  BY DEF File
<1> HIDE DEF turn
<1>5. turns' \in Seq(TurnType) /\ files' \in Seq(SUBSET File) /\ Len(files') = Len(turns')
  BY <1>2, <1>3, <1>4, AppendIs DEF LogInv
<1>6. QED
  BY <1>5, LogChanges DEF BeginTurn, cacheVars

LEMMA RespondHolds ==
    ASSUME LogInv, NEW t \in DOMAIN turns, NEW c \in Calls, NEW kinds \in Writes, Respond(t, c, kinds)
    PROVE  LogInv'
<1> DEFINE turn == [turns[t] EXCEPT !.tools = c, !.open = FALSE, !.written = @ \cup kinds]
<1>1. /\ DOMAIN turns = 1..Len(turns) /\ Len(files) = Len(turns) /\ t \in 1..Len(turns)
      /\ turns[t] \in TurnType /\ files[t] \subseteq File
  BY TurnIs DEF LogInv
<1>2. kinds \subseteq File
  BY WritesAssumption DEF File
<1>3. turn \in TurnType
  BY <1>1, <1>2 DEF TurnType
<1>4. turns' = [turns EXCEPT ![t] = turn] /\ files' = [files EXCEPT ![t] = files[t] \cup kinds]
  BY <1>1 DEF Respond
<1> HIDE DEF turn
<1>5. turns' \in Seq(TurnType) /\ Len(turns') = Len(turns)
  BY <1>1, <1>3, <1>4, ExceptSeq DEF LogInv
<1>6. files' \in Seq(SUBSET File) /\ Len(files') = Len(files)
  <2>1. files[t] \cup kinds \in SUBSET File /\ t \in 1..Len(files) /\ files \in Seq(SUBSET File)
    BY <1>1, <1>2 DEF LogInv
  <2>2. QED
    BY <1>4, <2>1, ExceptSeq
<1>7. QED
  BY <1>1, <1>5, <1>6, LogChanges DEF Respond, cacheVars

LEMMA DiscardHolds ==
    ASSUME LogInv, NEW t \in DOMAIN turns, Discard(t)
    PROVE  LogInv'
<1> DEFINE turn == [turns[t] EXCEPT !.open = FALSE, !.written = {}]
<1>1. /\ DOMAIN turns = 1..Len(turns) /\ Len(files) = Len(turns) /\ t \in 1..Len(turns)
      /\ turns[t] \in TurnType
  BY TurnIs DEF LogInv
<1>2. turn \in TurnType
  BY <1>1 DEF TurnType
<1>3. turns' = [turns EXCEPT ![t] = turn] /\ files' = [files EXCEPT ![t] = {}]
  BY <1>1 DEF Discard
<1> HIDE DEF turn
<1>4. turns' \in Seq(TurnType) /\ Len(turns') = Len(turns)
  BY <1>1, <1>2, <1>3, ExceptSeq DEF LogInv
<1>5. files' \in Seq(SUBSET File) /\ Len(files') = Len(files)
  <2>1. {} \in SUBSET File /\ t \in 1..Len(files) /\ files \in Seq(SUBSET File)
    BY <1>1 DEF LogInv
  <2>2. QED
    BY <1>3, <2>1, ExceptSeq
<1>6. QED
  BY <1>1, <1>4, <1>5, LogChanges DEF Discard, cacheVars

LEMMA RemoveHolds ==
    ASSUME LogInv, NEW t \in DOMAIN turns, NEW f, RemoveFile(t, f)
    PROVE  LogInv'
<1>1. /\ DOMAIN turns = 1..Len(turns) /\ Len(files) = Len(turns) /\ t \in 1..Len(turns)
      /\ files[t] \subseteq File
  BY TurnIs DEF LogInv
<1>2. files' = [files EXCEPT ![t] = files[t] \ {f}] /\ UNCHANGED <<turns, bundle, build>>
  BY DEF RemoveFile, cacheVars
<1>3. files' \in Seq(SUBSET File) /\ Len(files') = Len(files)
  <2>1. files[t] \ {f} \in SUBSET File /\ t \in 1..Len(files) /\ files \in Seq(SUBSET File)
    BY <1>1 DEF LogInv
  <2>2. QED
    BY <1>2, <2>1, ExceptSeq
<1>4. QED
  BY <1>1, <1>2, <1>3 DEF LogInv

LEMMA AskHolds == ASSUME LogInv, NEW f \in Filters, Ask(f) PROVE LogInv'
<1>1. CASE UNCHANGED <<logVars, bundle, build>>
  BY <1>1 DEF LogInv, logVars
<1>2. CASE /\ build' = [step |-> "listed", filters |-> f, records |-> Listing]
           /\ UNCHANGED <<logVars, cacheVars>>
  <2>1. UNCHANGED <<turns, files, bundle>>
    BY <1>2 DEF logVars, cacheVars
  <2>2. Listing \in Seq(RecordOf(Len(turns)))
    BY ListingHolds DEF Lists
  <2>3. build' \in [step : {"none", "listed", "requests", "responses"},
                    filters : Filters \cup {NoFilters}, records : Seq(RecordOf(Len(turns)))]
    BY <1>2, <2>2
  <2>4. QED
    BY <1>2, <2>1, <2>3 DEF LogInv
<1>3. QED
  BY <1>1, <1>2 DEF Ask

(* The records of a build may be changed within their type. *)
LEMMA ReadChanges ==
    ASSUME LogInv, UNCHANGED <<logVars, cacheVars>>, NEW step \in {"requests", "responses"},
           NEW rs, rs = [i \in DOMAIN build.records |-> rs[i]],
           \A i \in DOMAIN build.records : rs[i] \in RecordOf(Len(turns)),
           build' = [build EXCEPT !.step = step, !.records = rs]
    PROVE  LogInv'
<1>1. UNCHANGED <<turns, files, bundle>>
  BY DEF logVars, cacheVars
<1>2. rs \in Seq(RecordOf(Len(turns)))
  <2>1. build.records \in Seq(RecordOf(Len(turns))) /\ DOMAIN rs = DOMAIN build.records
    BY BuildIs
  <2>2. QED
    BY <2>1, MappedIs
<1>3. build' = [step |-> step, filters |-> build.filters, records |-> rs]
  BY BuildIs
<1>4. build' \in [step : {"none", "listed", "requests", "responses"},
                  filters : Filters \cup {NoFilters}, records : Seq(RecordOf(Len(turns)))]
  BY <1>2, <1>3, BuildIs
<1>5. build'.step # "none"
  BY <1>3
<1>6. QED
  BY <1>1, <1>4, <1>5 DEF LogInv

LEMMA ReadRequestsHolds == ASSUME LogInv, ReadRequests PROVE LogInv'
<1> DEFINE Read(r) == IF "req" \in files[r.turn]
                      THEN [r EXCEPT !.static = turns[r.turn].request.static,
                                     !.prefix = turns[r.turn].request.prefix,
                                     !.word = turns[r.turn].request.word]
                      ELSE r
           rs == [i \in DOMAIN build.records |-> Read(build.records[i])]
<1>1. \A i \in DOMAIN build.records : Read(build.records[i]) \in RecordOf(Len(turns))
  <2>1. TAKE i \in DOMAIN build.records
  <2> DEFINE r == build.records[i]
             request == turns[r.turn].request
  <2>2. r \in Record /\ r.turn \in 1..Len(turns) /\ r.turn \in DOMAIN turns /\ r \in RecordOf(Len(turns))
    BY BuildIs DEF RecordOf
  <2>3. request \in Asked
    BY <2>2, TurnIs DEF TurnType
  <2>4. request.static \in Static /\ request.prefix \in Seq(Item) /\ request.word \in {q.word : q \in Asked}
    BY <2>3, AskedIs
  <2> HIDE DEF request
  <2>5. [r EXCEPT !.static = request.static, !.prefix = request.prefix, !.word = request.word] \in Record
    BY <2>2, <2>4 DEF Record
  <2>6. [r EXCEPT !.static = request.static, !.prefix = request.prefix, !.word = request.word].turn = r.turn
    BY <2>2 DEF Record
  <2>7. QED
    BY <2>2, <2>5, <2>6 DEF RecordOf, request
<1>2. build' = [build EXCEPT !.step = "requests", !.records = rs] /\ UNCHANGED <<logVars, cacheVars>>
  BY DEF ReadRequests
<1>3. rs = [i \in DOMAIN build.records |-> rs[i]] /\ \A i \in DOMAIN build.records : rs[i] \in RecordOf(Len(turns))
  BY <1>1
<1> HIDE DEF rs
<1>4. QED
  BY <1>2, <1>3, ReadChanges

LEMMA ReadResponsesHolds == ASSUME LogInv, ReadResponses PROVE LogInv'
<1> DEFINE Read(r) == [r EXCEPT !.non_stream = ReadFile(@, "non_stream" \in files[r.turn]),
                                !.downstream = ReadFile(@, "downstream" \in files[r.turn])]
           rs == [i \in DOMAIN build.records |-> Read(build.records[i])]
<1>1. \A i \in DOMAIN build.records : Read(build.records[i]) \in RecordOf(Len(turns))
  <2>1. TAKE i \in DOMAIN build.records
  <2> DEFINE r == build.records[i]
  <2>2. r \in Record /\ r.turn \in 1..Len(turns)
    BY BuildIs DEF RecordOf
  <2>3. \A state, there : ReadFile(state, there) \in ReadState
    BY DEF ReadFile, ReadState
  <2>4. Read(r) \in Record /\ Read(r).turn = r.turn
    BY <2>2, <2>3 DEF Record
  <2>5. QED
    BY <2>2, <2>4 DEF RecordOf
<1>2. build' = [build EXCEPT !.step = "responses", !.records = rs] /\ UNCHANGED <<logVars, cacheVars>>
  BY DEF ReadResponses
<1>3. rs = [i \in DOMAIN build.records |-> rs[i]] /\ \A i \in DOMAIN build.records : rs[i] \in RecordOf(Len(turns))
  BY <1>1
<1> HIDE DEF rs
<1>4. QED
  BY <1>2, <1>3, ReadChanges

LEMMA FinishHolds == ASSUME LogInv, Finish PROVE LogInv'
<1>1. /\ UNCHANGED <<turns, files>> /\ bundle' = [signature |-> version, records |-> build.records]
      /\ build' = [build EXCEPT !.step = "none", !.filters = NoFilters, !.records = <<>>]
  BY DEF Finish, logVars
<1>2. build.records \in Seq(Record)
  <2>1. RecordOf(Len(turns)) \subseteq Record
    BY DEF RecordOf
  <2>2. QED
    BY <2>1, BuildIs, SeqGrows
<1>3. build' = [step |-> "none", filters |-> NoFilters, records |-> <<>>]
  BY <1>1, BuildIs
<1>4. <<>> \in Seq(RecordOf(Len(turns)))
  BY EmptySeq
<1>5. build' \in [step : {"none", "listed", "requests", "responses"},
                  filters : Filters \cup {NoFilters}, records : Seq(RecordOf(Len(turns)))]
  BY <1>3, <1>4
<1>6. QED
  BY <1>1, <1>2, <1>3, <1>5 DEF LogInv

LEMMA DialogStepHolds == LogInv /\ [DialogNext]_pageVars => LogInv'
<1> SUFFICES ASSUME LogInv, [DialogNext]_pageVars PROVE LogInv'
  OBVIOUS
<1>1. CASE LogStep
  BY <1>1, BeginHolds, RespondHolds, DiscardHolds, RemoveHolds DEF LogStep
<1>2. CASE TimelineStep
  BY <1>2, AskHolds, ReadRequestsHolds, ReadResponsesHolds, FinishHolds DEF TimelineStep
<1>3. CASE UNCHANGED serverVars
  BY <1>3 DEF serverVars, LogInv
<1>4. CASE LoadFails
  BY <1>4 DEF LoadFails, logVars, LogInv
<1>5. QED
  BY <1>1, <1>2, <1>3, <1>4
  DEF DialogNext, pageVars, Click, openStatsModal, openStatsModalForLane, PickAgent, CloseDialog

(* What is logged, read and kept of it is what a log may hold. *)
THEOREM LogIsTyped == DialogSpec => []LogInv
<1>1. DialogInit => LogInv
  BY ServerInitHolds DEF DialogInit
<1>2. QED
  BY <1>1, DialogStepHolds, PTL DEF DialogSpec

(* In every lane of the board a turn extends all turns before it, and no   *)
(* other lane it extends shares more with it.  Conversations that begin    *)
(* alike may share a lane until they differ.                               *)
THEOREM LanesChain == DialogSpec => []LanesAreChains
<1>1. LogInv => LanesAreChains
  BY LanesHold DEF LogInv, LanesAreChains
<1>2. QED
  BY <1>1, LogIsTyped, PTL


-----------------------------------------------------------------------------
(* Parts of sequences. *)

(* What holds of the empty sequence and is kept by Append holds of all. *)
LEMMA SeqInduction ==
    ASSUME NEW E, NEW G, <<>> \in G,
           \A s \in Seq(E) : \A x \in E : s \in G => Append(s, x) \in G
    PROVE  \A s \in Seq(E) : s \in G
<1> SUFFICES ASSUME NEW s \in Seq(E) PROVE s \in G
  OBVIOUS
<1> DEFINE n == Len(s)
           H == {k \in 0..n : SubSeq(s, 1, k) \in Seq(E) /\ SubSeq(s, 1, k) \in G}
<1>1. n \in Nat /\ \A i \in 1..n : s[i] \in E
  BY LenProperties, ElementOfSeq
<1>2. 0 \in H
  <2>1. SubSeq(s, 1, 0) = <<>>
    BY SubSeqEmpty
  <2>2. <<>> \in Seq(E) /\ 0 \in 0..n
    BY <1>1, EmptySeq
  <2>3. QED
    BY <2>1, <2>2
<1>3. ASSUME NEW k \in 1..n, k - 1 \in H PROVE k \in H
  <2> DEFINE t == SubSeq(s, 1, k - 1)
  <2>1. t \in Seq(E) /\ t \in G /\ s[k] \in E /\ k \in Nat
    BY <1>1, <1>3
  <2>2. SubSeq(s, 1, k) = t \o <<s[k]>>
    <3>1. 1 \in 1..Len(s) /\ k \in 1..Len(s) /\ 1 <= k
      BY <1>1
    <3>2. QED
      BY <3>1, SubSeqRecursiveSecond
  <2> HIDE DEF t
  <2>3. Append(t, s[k]) = t \o <<s[k]>>
    BY <2>1, AppendGlues
  <2>4. Append(t, s[k]) \in G /\ Append(t, s[k]) \in Seq(E)
    BY <2>1, AppendIs
  <2>5. k \in 0..n
    BY <1>1
  <2>6. QED
    BY <2>2, <2>3, <2>4, <2>5
<1>4. Climbs(H, n)
  <2> HIDE DEF H
  <2>1. QED
    BY <1>2, <1>3 DEF Climbs
<1>5. n \in H
  <2>1. n \in 0..n
    BY <1>1
  <2> HIDE DEF H
  <2>2. QED
    BY <1>1, <1>4, <2>1, Climbing
<1>6. SubSeq(s, 1, n) = s
  BY SubSeqFull
<1>7. QED
  BY <1>5, <1>6

Picks(g, s, S) ==
  /\ g[0] = <<>>
  /\ \A i \in 1..Len(s) : g[i] = IF s[i] \in S THEN Append(g[i - 1], s[i]) ELSE g[i - 1]

LEMMA AmongIs ==
    ASSUME NEW E, NEW s \in Seq(E), NEW S
    PROVE  \E g \in [0..Len(s) -> Seq(E)] : Picks(g, s, S) /\ Among(s, S) = g[Len(s)]
<1> DEFINE n == Len(s)
           Step(x, i) == IF s[i] \in S THEN Append(x, s[i]) ELSE x
           Folds(f) == f = [i \in 0..n |-> IF i = 0 THEN <<>> ELSE Step(f[i - 1], i)]
           T == Seq(E) \X (0..n)
           F == [p \in T |-> Step(p[1], p[2] + 1)]
<1>1. n \in Nat /\ \A i \in 1..n : s[i] \in E
  BY LenProperties, ElementOfSeq
<1>2. \A x \in Seq(E), i \in 1..n : Step(x, i) \in Seq(E)
  BY <1>1, AppendIs
<1>3. <<<<>>, 0>> \in T
  <2>1. <<>> \in Seq(E) /\ 0 \in 0..n
    BY <1>1, EmptySeq
  <2> HIDE DEF n
  <2>2. QED
    BY <2>1
<1> HIDE DEF Step
<1>4. ASSUME NEW x, NEW i \in 1..n, <<x, i - 1>> \in T
      PROVE  F[<<x, i - 1>>] = Step(x, i) /\ <<F[<<x, i - 1>>], i>> \in T
  <2>1. x \in Seq(E) /\ i \in 0..n /\ (i - 1) + 1 = i
    BY <1>1, <1>4
  <2>2. F[<<x, i - 1>>] = Step(x, (i - 1) + 1)
    BY <1>4
  <2>3. Step(x, i) \in Seq(E)
    BY <1>2, <2>1
  <2> HIDE DEF F
  <2>4. QED
    BY <2>1, <2>2, <2>3
<1>5. \E f : Folds(f)
  <2>1. PICK f : FoldsIn(f, n, <<>>, F, T)
    <3>1. \A x : \A i \in 1..n : <<x, i - 1>> \in T => <<F[<<x, i - 1>>], i>> \in T
      <4> HIDE DEF F, T, n
      <4>1. QED
        BY <1>4
    <3> HIDE DEF F, T, n
    <3>2. QED
      BY <1>1, <1>3, <3>1, FoldExists
  <2>2. \A i \in 1..n : f[i] = Step(f[i - 1], i)
    <3>1. TAKE i \in 1..n
    <3>2. i - 1 \in 0..n
      BY <1>1
    <3> HIDE DEF F, T
    <3>3. f[i] = F[<<f[i - 1], i - 1>>] /\ <<f[i - 1], i - 1>> \in T
      BY <2>1, <3>2 DEF FoldsIn
    <3>4. QED
      BY <1>4, <3>3
  <2>3. f = [i \in 0..n |-> f[i]] /\ f[0] = <<>>
    <3> HIDE DEF F, T, n
    <3>1. QED
      BY <2>1 DEF FoldsIn
  <2>4. \A i \in 0..n : f[i] = IF i = 0 THEN <<>> ELSE Step(f[i - 1], i)
    <3>1. \A i \in 0..n : i # 0 => i \in 1..n
      BY <1>1
    <3>2. QED
      BY <2>2, <2>3, <3>1
  <2>5. Folds(f)
    BY <2>3, <2>4
  <2> HIDE DEF Folds
  <2>6. QED
    BY <2>5
<1> DEFINE g == CHOOSE f : Folds(f)
<1>6. Folds(g)
  <2> HIDE DEF Folds
  <2>1. QED
    BY <1>5
<1>7. Among(s, S) = g[n]
  BY DEF Among, Step
<1> HIDE DEF g
<1>8. g[0] = <<>> /\ \A i \in 1..n : g[i] = Step(g[i - 1], i)
  <2>1. \A i \in 0..n : g[i] = IF i = 0 THEN <<>> ELSE Step(g[i - 1], i)
    BY <1>6
  <2>2. QED
    BY <1>1, <2>1
<1> DEFINE G == {i \in 0..n : g[i] \in Seq(E)}
<1>9. Climbs(G, n)
  <2>1. <<>> \in Seq(E) /\ 0 \in 0..n
    BY <1>1, EmptySeq
  <2>2. 0 \in G
    <3> HIDE DEF n
    <3>1. QED
      BY <1>8, <2>1
  <2>3. \A i \in 1..n : i - 1 \in G => i \in G
    <3>1. ASSUME NEW i \in 1..n, g[i - 1] \in Seq(E) PROVE g[i] \in Seq(E)
      BY <1>2, <1>8, <3>1
    <3>2. \A i \in 1..n : i \in 0..n
      BY <1>1
    <3> HIDE DEF n
    <3>3. QED
      BY <3>1, <3>2
  <2> HIDE DEF G
  <2>4. QED
    BY <2>2, <2>3 DEF Climbs
<1>10. \A i \in 0..n : g[i] \in Seq(E)
  <2>1. \A i \in 0..n : i \in G
    <3> HIDE DEF G
    <3>1. QED
      BY <1>1, <1>9, Climbing
  <2>2. QED
    BY <2>1
<1>11. g \in [0..n -> Seq(E)]
  <2>1. g = [i \in 0..n |-> g[i]]
    BY <1>6
  <2>2. QED
    BY <1>10, <2>1
<1>12. Picks(g, s, S)
  BY <1>8 DEF Picks, Step
<1>13. QED
  BY <1>7, <1>11, <1>12

LEMMA AmongNone == ASSUME NEW S PROVE Among(<<>>, S) = <<>>
<1>1. <<>> \in Seq({}) /\ Len(<<>>) = 0
  BY EmptySeq
<1>2. PICK f \in [0..Len(<<>>) -> Seq({})] : Picks(f, <<>>, S) /\ Among(<<>>, S) = f[Len(<<>>)]
  BY <1>1, AmongIs
<1>3. QED
  BY <1>1, <1>2 DEF Picks

LEMMA AmongGrows ==
    ASSUME NEW E, NEW s \in Seq(E), NEW x \in E, NEW S
    PROVE  /\ Among(s, S) \in Seq(E) /\ Append(s, x) \in Seq(E)
           /\ Among(Append(s, x), S) = IF x \in S THEN Append(Among(s, S), x) ELSE Among(s, S)
<1> DEFINE n == Len(s)
           t == Append(s, x)
<1>1. /\ t \in Seq(E) /\ n \in Nat /\ Len(t) = n + 1
      /\ \A k \in 1..n : t[k] = s[k]
      /\ t[n + 1] = x
  BY AppendIs
<1>2. PICK g \in [0..n -> Seq(E)] : Picks(g, s, S) /\ Among(s, S) = g[n]
  BY AmongIs
<1> HIDE DEF t
<1>3. PICK h \in [0..Len(t) -> Seq(E)] : Picks(h, t, S) /\ Among(t, S) = h[Len(t)]
  BY <1>1, AmongIs
<1>4. g[0] = <<>> /\ \A i \in 1..n : g[i] = IF s[i] \in S THEN Append(g[i - 1], s[i]) ELSE g[i - 1]
  BY <1>2 DEF Picks
<1>5. h[0] = <<>> /\ \A i \in 1..n + 1 : h[i] = IF t[i] \in S THEN Append(h[i - 1], t[i]) ELSE h[i - 1]
  BY <1>1, <1>3 DEF Picks
<1> HIDE DEF n
<1> DEFINE G == {i \in 0..n : h[i] = g[i]}
<1>6. Climbs(G, n)
  <2>1. ASSUME NEW i \in 1..n, h[i - 1] = g[i - 1] PROVE h[i] = g[i]
    <3>1. i \in 1..n + 1 /\ t[i] = s[i]
      BY <1>1
    <3>2. h[i] = IF s[i] \in S THEN Append(h[i - 1], s[i]) ELSE h[i - 1]
      BY <1>5, <3>1
    <3>3. g[i] = IF s[i] \in S THEN Append(g[i - 1], s[i]) ELSE g[i - 1]
      BY <1>4
    <3>4. QED
      BY <2>1, <3>2, <3>3
  <2>2. 0 \in G
    BY <1>1, <1>4, <1>5
  <2>3. \A i \in 1..n : i - 1 \in G => i \in G
    <3>1. \A i \in 1..n : i \in 0..n
      BY <1>1
    <3>2. QED
      BY <2>1, <3>1
  <2> HIDE DEF G
  <2>4. QED
    BY <2>2, <2>3 DEF Climbs
<1>7. h[n] = g[n] /\ g[n] \in Seq(E)
  <2>1. n \in 0..n
    BY <1>1
  <2>2. n \in G
    <3> HIDE DEF G
    <3>1. QED
      BY <1>1, <1>6, <2>1, Climbing
  <2>3. QED
    BY <1>2, <2>1, <2>2
<1>8. h[n + 1] = IF x \in S THEN Append(h[n], x) ELSE h[n]
  <2>1. n + 1 \in 1..n + 1 /\ (n + 1) - 1 = n
    BY <1>1
  <2>2. h[n + 1] = IF t[n + 1] \in S THEN Append(h[(n + 1) - 1], t[n + 1]) ELSE h[(n + 1) - 1]
    BY <1>5, <2>1
  <2>3. QED
    BY <1>1, <2>1, <2>2
<1>9. QED
  BY <1>1, <1>2, <1>3, <1>7, <1>8 DEF t

LEMMA AmongTakes ==
    ASSUME NEW E, NEW S
    PROVE  \A s \in Seq(E) : \A x \in E :
             /\ Among(s, S) \in Seq(E) /\ Append(s, x) \in Seq(E)
             /\ x \in S => Among(Append(s, x), S) = Append(Among(s, S), x)
             /\ x \notin S => Among(Append(s, x), S) = Among(s, S)
<1> SUFFICES ASSUME NEW s \in Seq(E), NEW x \in E
             PROVE  /\ Among(s, S) \in Seq(E) /\ Append(s, x) \in Seq(E)
                    /\ Among(Append(s, x), S) = IF x \in S THEN Append(Among(s, S), x) ELSE Among(s, S)
  OBVIOUS
<1> QED
  BY AmongGrows

LEMMA RangeGrows ==
    ASSUME NEW E
    PROVE  \A s \in Seq(E) : \A x \in E : Range(Append(s, x)) = Range(s) \cup {x}
<1> SUFFICES ASSUME NEW s \in Seq(E), NEW x \in E PROVE Range(Append(s, x)) = Range(s) \cup {x}
  OBVIOUS
<1>1. Append(s, x) = s \o <<x>> /\ Range(Append(s, x)) = Range(s) \cup {x}
  BY AppendGlues
<1>2. QED
  BY <1>1

(* Taking parts of parts, of what is all or nothing, and of a sum. *)
LEMMA AmongRange ==
    ASSUME NEW E, NEW S
    PROVE  \A s \in Seq(E) : Among(s, S) \in Seq(E) /\ Range(Among(s, S)) = Range(s) \cap S
<1> DEFINE G == {t \in Seq(E) : Range(Among(t, S)) = Range(t) \cap S}
<1>1. <<>> \in G
  <2>1. <<>> \in Seq(E) /\ Range(<<>>) = {}
    BY EmptySeq DEF Range
  <2>2. QED
    BY <2>1, AmongNone
<1> HIDE DEF G
<1>2. ASSUME NEW t \in Seq(E), NEW x \in E, t \in G PROVE Append(t, x) \in G
  <2>1. /\ Among(t, S) \in Seq(E) /\ Append(t, x) \in Seq(E)
        /\ Among(Append(t, x), S) = IF x \in S THEN Append(Among(t, S), x) ELSE Among(t, S)
    BY AmongGrows
  <2>2. Range(Append(t, x)) = Range(t) \cup {x}
    BY RangeGrows
  <2>3. Range(Append(Among(t, S), x)) = Range(Among(t, S)) \cup {x}
    BY <2>1, RangeGrows
  <2>4. Range(Among(t, S)) = Range(t) \cap S
    BY <1>2 DEF G
  <2>5. CASE x \in S
    <3>1. Range(Among(Append(t, x), S)) = Range(Append(t, x)) \cap S
      BY <2>1, <2>2, <2>3, <2>4, <2>5
    <3>2. QED
      BY <2>1, <3>1 DEF G
  <2>6. CASE x \notin S
    <3>1. Range(Among(Append(t, x), S)) = Range(Append(t, x)) \cap S
      BY <2>1, <2>2, <2>4, <2>6
    <3>2. QED
      BY <2>1, <3>1 DEF G
  <2>7. QED
    BY <2>5, <2>6
<1>3. \A s \in Seq(E) : s \in G
  BY <1>1, <1>2, SeqInduction
<1>4. \A s \in Seq(E) : Among(s, S) \in Seq(E)
  <2>1. TAKE s \in Seq(E)
  <2>2. PICK g \in [0..Len(s) -> Seq(E)] : Among(s, S) = g[Len(s)]
    BY AmongIs
  <2>3. QED
    BY <2>2, LenProperties
<1>5. QED
  BY <1>3, <1>4 DEF G

(* Taking parts of parts. *)
LEMMA AmongAmong ==
    ASSUME NEW E, NEW S, NEW T
    PROVE  \A s \in Seq(E) : Among(Among(s, S), T) = Among(s, S \cap T)
<1> DEFINE G == {t \in Seq(E) : Among(Among(t, S), T) = Among(t, S \cap T)}
<1>1. <<>> \in G
  BY EmptySeq, AmongNone
<1> HIDE DEF G
<1>2. ASSUME NEW t \in Seq(E), NEW x \in E, t \in G PROVE Append(t, x) \in G
  <2>1. /\ Among(t, S) \in Seq(E) /\ Append(t, x) \in Seq(E)
        /\ x \in S => Among(Append(t, x), S) = Append(Among(t, S), x)
        /\ x \notin S => Among(Append(t, x), S) = Among(t, S)
    BY AmongTakes
  <2>2. /\ x \in S \cap T => Among(Append(t, x), S \cap T) = Append(Among(t, S \cap T), x)
        /\ x \notin S \cap T => Among(Append(t, x), S \cap T) = Among(t, S \cap T)
    BY AmongTakes
  <2>3. /\ x \in T => Among(Append(Among(t, S), x), T) = Append(Among(Among(t, S), T), x)
        /\ x \notin T => Among(Append(Among(t, S), x), T) = Among(Among(t, S), T)
    BY <2>1, AmongTakes
  <2>4. Among(Among(t, S), T) = Among(t, S \cap T)
    BY <1>2 DEF G
  <2>5. Among(Among(Append(t, x), S), T) = Among(Append(t, x), S \cap T)
    <3>1. CASE x \in S
      <4>1. Among(Append(t, x), S) = Append(Among(t, S), x) /\ (x \in S \cap T <=> x \in T)
        BY <2>1, <3>1
      <4>2. QED
        BY <2>2, <2>3, <2>4, <4>1
    <3>2. CASE x \notin S
      <4>1. Among(Append(t, x), S) = Among(t, S) /\ x \notin S \cap T
        BY <2>1, <3>2
      <4>2. QED
        BY <2>2, <2>4, <4>1
    <3>3. QED
      BY <3>1, <3>2
  <2>6. QED
    BY <2>1, <2>5 DEF G
<1>3. \A s \in Seq(E) : s \in G
  BY <1>1, <1>2, SeqInduction
<1>4. QED
  BY <1>3 DEF G

(* Only what is in the sequence matters. *)
LEMMA AmongSame ==
    ASSUME NEW E, NEW s \in Seq(E), NEW S, NEW T, Range(s) \cap S = Range(s) \cap T
    PROVE  Among(s, S) = Among(s, T)
<1> DEFINE D == {x \in E : x \in S <=> x \in T}
           G == {t \in Seq(D) : Among(t, S) = Among(t, T)}
<1>1. <<>> \in G
  BY EmptySeq, AmongNone
<1>2. s \in Seq(D)
  <2>1. Len(s) \in Nat /\ DOMAIN s = 1..Len(s) /\ \A i \in 1..Len(s) : s[i] \in E
    BY LenProperties, ElementOfSeq
  <2>2. \A i \in 1..Len(s) : s[i] \in D
    BY <2>1 DEF Range
  <2>3. s \in [1..Len(s) -> E]
    BY LenProperties
  <2> HIDE DEF D
  <2>4. s \in [1..Len(s) -> D]
    BY <2>2, <2>3
  <2>5. QED
    BY <2>1, <2>4
<1>3. \A x \in D : x \in S <=> x \in T
  OBVIOUS
<1> HIDE DEF G, D
<1>4. ASSUME NEW t \in Seq(D), NEW x \in D, t \in G PROVE Append(t, x) \in G
  <2>1. /\ Append(t, x) \in Seq(D)
        /\ Among(Append(t, x), S) = IF x \in S THEN Append(Among(t, S), x) ELSE Among(t, S)
    BY AmongGrows
  <2>2. Among(Append(t, x), T) = IF x \in T THEN Append(Among(t, T), x) ELSE Among(t, T)
    BY AmongGrows
  <2>3. Among(t, S) = Among(t, T)
    BY <1>4 DEF G
  <2>4. Among(Append(t, x), S) = Among(Append(t, x), T)
    BY <1>3, <2>1, <2>2, <2>3
  <2>5. QED
    BY <2>1, <2>4 DEF G
<1>5. s \in G
  BY <1>1, <1>2, <1>4, SeqInduction
<1>6. QED
  BY <1>5 DEF G

LEMMA AmongAll ==
    ASSUME NEW E, NEW s \in Seq(E), NEW S, E \subseteq S
    PROVE  Among(s, S) = s
<1> DEFINE G == {t \in Seq(E) : Among(t, S) = t}
<1>1. <<>> \in G
  BY EmptySeq, AmongNone
<1> HIDE DEF G
<1>2. ASSUME NEW t \in Seq(E), NEW x \in E, t \in G PROVE Append(t, x) \in G
  <2>1. /\ Append(t, x) \in Seq(E)
        /\ Among(Append(t, x), S) = IF x \in S THEN Append(Among(t, S), x) ELSE Among(t, S)
    BY AmongGrows
  <2>2. Among(t, S) = t /\ x \in S
    BY <1>2 DEF G
  <2>3. QED
    BY <2>1, <2>2 DEF G
<1>3. s \in G
  BY <1>1, <1>2, SeqInduction
<1>4. QED
  BY <1>3 DEF G

(* Parts of a sum. *)
LEMMA AppendSums ==
    ASSUME NEW E, NEW s \in Seq(E), NEW t \in Seq(E), NEW x \in E
    PROVE  s \o t \in Seq(E) /\ s \o Append(t, x) = Append(s \o t, x)
<1>1. s \o t \in Seq(E)
  BY ConcatProperties
<1>2. Append(t, x) = t \o <<x>> /\ Append(s \o t, x) = (s \o t) \o <<x>>
  BY <1>1, AppendGlues
<1>3. <<x>> \in Seq(E)
  BY OneIs
<1>4. s \o (t \o <<x>>) = (s \o t) \o <<x>>
  BY <1>3, ConcatAssociative
<1>5. QED
  BY <1>1, <1>2, <1>4

LEMMA AmongSum ==
    ASSUME NEW E, NEW S
    PROVE  \A s, u \in Seq(E) : Among(s \o u, S) = Among(s, S) \o Among(u, S)
<1> SUFFICES ASSUME NEW s \in Seq(E) PROVE \A u \in Seq(E) : Among(s \o u, S) = Among(s, S) \o Among(u, S)
  OBVIOUS
<1> DEFINE G == {t \in Seq(E) : Among(s \o t, S) = Among(s, S) \o Among(t, S)}
<1>1. Among(s, S) \in Seq(E)
  BY AmongRange
<1>2. <<>> \in G
  <2>1. s \o <<>> = s /\ Among(s, S) \o <<>> = Among(s, S) /\ <<>> \in Seq(E)
    BY <1>1, ConcatEmptySeq, EmptySeq
  <2>2. QED
    BY <2>1, AmongNone
<1> HIDE DEF G
<1>3. ASSUME NEW t \in Seq(E), NEW x \in E, t \in G PROVE Append(t, x) \in G
  <2>1. /\ Among(t, S) \in Seq(E) /\ Append(t, x) \in Seq(E)
        /\ x \in S => Among(Append(t, x), S) = Append(Among(t, S), x)
        /\ x \notin S => Among(Append(t, x), S) = Among(t, S)
    BY AmongTakes
  <2>2. s \o Append(t, x) = Append(s \o t, x) /\ s \o t \in Seq(E)
    BY AppendSums
  <2>3. /\ x \in S => Among(Append(s \o t, x), S) = Append(Among(s \o t, S), x)
        /\ x \notin S => Among(Append(s \o t, x), S) = Among(s \o t, S)
    <3> DEFINE u == s \o t
    <3>1. u \in Seq(E)
      BY <2>2
    <3> HIDE DEF u
    <3>2. /\ x \in S => Among(Append(u, x), S) = Append(Among(u, S), x)
          /\ x \notin S => Among(Append(u, x), S) = Among(u, S)
      BY <3>1, AmongTakes
    <3>3. QED
      BY <3>2 DEF u
  <2>4. Among(s, S) \o Append(Among(t, S), x) = Append(Among(s, S) \o Among(t, S), x)
    BY <1>1, <2>1, AppendSums
  <2>5. Among(s \o t, S) = Among(s, S) \o Among(t, S)
    BY <1>3 DEF G
  <2>6. Among(s \o Append(t, x), S) = Among(s, S) \o Among(Append(t, x), S)
    BY <2>1, <2>2, <2>3, <2>4, <2>5
  <2>7. QED
    BY <2>1, <2>6 DEF G
<1>4. \A u \in Seq(E) : u \in G
  BY <1>2, <1>3, SeqInduction
<1>5. QED
  BY <1>4 DEF G


LEMMA AmongNothing ==
    ASSUME NEW E, NEW S
    PROVE  \A s \in Seq(E) : Range(s) \cap S = {} <=> Among(s, S) = <<>>
<1>1. TAKE s \in Seq(E)
<1>2. Among(s, S) \in Seq(E) /\ Range(Among(s, S)) = Range(s) \cap S
  BY AmongRange
<1>3. ASSUME NEW t \in Seq(E), t # <<>> PROVE Range(t) # {}
  <2>1. Len(t) \in Nat \ {0} /\ DOMAIN t = 1..Len(t)
    BY <1>3, HeadIs
  <2>2. t[1] \in Range(t)
    BY <2>1 DEF Range
  <2>3. QED
    BY <2>2
<1>4. Range(<<>>) = {}
  BY EmptySeq DEF Range
<1>5. QED
  BY <1>2, <1>3, <1>4

(* If only one of the sequences has elements of S, the part is the part of that. *)
LEMMA AmongFlat ==
    ASSUME NEW E, NEW S
    PROVE  \A ss \in Seq(Seq(E)) :
             \A k \in DOMAIN ss : (\A j \in DOMAIN ss : j # k => Range(ss[j]) \cap S = {})
               => Among(FlattenSeq(ss), S) = Among(ss[k], S)
<1> DEFINE None(ss) == (\A j \in DOMAIN ss : Range(ss[j]) \cap S = {}) => Among(FlattenSeq(ss), S) = <<>>
           One(ss) == \A k \in DOMAIN ss : (\A j \in DOMAIN ss : j # k => Range(ss[j]) \cap S = {})
                        => Among(FlattenSeq(ss), S) = Among(ss[k], S)
           G == {ss \in Seq(Seq(E)) : None(ss) /\ One(ss)}
<1>1. <<>> \in G
  <2>1. <<>> \in Seq(Seq(E)) /\ <<>> \in Seq(E) /\ DOMAIN <<>> = {} /\ Len(<<>>) = 0
    BY EmptySeq
  <2>2. PICK g \in [0..Len(<<>>) -> Seq(E)] : Glued(g, <<>>) /\ FlattenSeq(<<>>) = g[Len(<<>>)]
    BY <2>1, FlattenIs
  <2>3. FlattenSeq(<<>>) = <<>>
    BY <2>1, <2>2 DEF Glued
  <2>4. None(<<>>) /\ One(<<>>)
    BY <2>1, <2>3, AmongNone
  <2>5. QED
    BY <2>1, <2>4
<1>2. ASSUME NEW ss \in Seq(Seq(E)), NEW s \in Seq(E), None(ss), One(ss)
      PROVE  Append(ss, s) \in Seq(Seq(E)) /\ None(Append(ss, s)) /\ One(Append(ss, s))
  <2> DEFINE tt == Append(ss, s)
             n == Len(ss)
             all == FlattenSeq(ss)
  <2>1. /\ tt \in Seq(Seq(E)) /\ n \in Nat /\ DOMAIN ss = 1..n /\ DOMAIN tt = 1..n + 1
        /\ \A k \in 1..n : tt[k] = ss[k]
        /\ tt[n + 1] = s
    BY AppendIs
  <2>2. all \in Seq(E) /\ FlattenSeq(tt) = all \o s
    BY FlattenGrows
  <2>3. Among(FlattenSeq(tt), S) = Among(all, S) \o Among(s, S)
    BY <2>2, AmongSum
  <2>4. /\ Among(all, S) \in Seq(E) /\ Among(s, S) \in Seq(E)
        /\ Range(s) \cap S = {} => Among(s, S) = <<>>
    BY <2>2, AmongRange, AmongNothing
  <2>5. /\ Among(all, S) \o <<>> = Among(all, S)
        /\ <<>> \o Among(s, S) = Among(s, S)
        /\ <<>> \o <<>> = <<>>
    BY <2>4, ConcatEmptySeq, EmptySeq
  <2> HIDE DEF all, tt, n
  <2>6. ASSUME \A j \in DOMAIN tt : Range(tt[j]) \cap S = {} PROVE Among(FlattenSeq(tt), S) = <<>>
    <3>1. \A j \in DOMAIN ss : Range(ss[j]) \cap S = {}
      BY <2>1, <2>6
    <3>2. Range(s) \cap S = {}
      <4>1. n + 1 \in DOMAIN tt
        BY <2>1
      <4>2. QED
        BY <2>1, <2>6, <4>1
    <3>3. Among(all, S) = <<>>
      BY <1>2, <3>1 DEF all
    <3>4. QED
      BY <2>3, <2>4, <2>5, <3>2, <3>3
  <2>7. ASSUME NEW k \in DOMAIN tt, \A j \in DOMAIN tt : j # k => Range(tt[j]) \cap S = {}
        PROVE  Among(FlattenSeq(tt), S) = Among(tt[k], S)
    <3>1. CASE k = n + 1
      <4>1. \A j \in DOMAIN ss : Range(ss[j]) \cap S = {}
        BY <2>1, <2>7, <3>1
      <4>2. Among(all, S) = <<>> /\ tt[k] = s
        BY <1>2, <2>1, <3>1, <4>1 DEF all
      <4>3. QED
        BY <2>3, <2>5, <4>2
    <3>2. CASE k # n + 1
      <4>1. k \in DOMAIN ss /\ tt[k] = ss[k] /\ n + 1 \in DOMAIN tt
        BY <2>1, <3>2
      <4>2. \A j \in DOMAIN ss : j # k => Range(ss[j]) \cap S = {}
        BY <2>1, <2>7
      <4>3. Among(all, S) = Among(ss[k], S)
        BY <1>2, <4>1, <4>2 DEF all
      <4>4. Among(s, S) = <<>>
        BY <2>1, <2>4, <2>7, <3>2, <4>1
      <4>5. QED
        BY <2>3, <2>5, <4>1, <4>3, <4>4
    <3>3. QED
      BY <3>1, <3>2
  <2>8. None(tt) /\ One(tt)
    BY <2>6, <2>7
  <2>9. QED
    BY <2>1, <2>8 DEF tt
<1> HIDE DEF None, One
<1>3. ASSUME NEW ss \in Seq(Seq(E)), NEW s \in Seq(E), ss \in G PROVE Append(ss, s) \in G
  BY <1>2, <1>3
<1> HIDE DEF G
<1>4. \A ss \in Seq(Seq(E)) : ss \in G
  <2> DEFINE D == Seq(E)
  <2>1. \A ss \in Seq(D) : \A s \in D : ss \in G => Append(ss, s) \in G
    BY <1>3
  <2> HIDE DEF D
  <2>2. \A ss \in Seq(D) : ss \in G
    BY <1>1, <2>1, SeqInduction
  <2>3. QED
    BY <2>2 DEF D
<1>5. QED
  BY <1>4 DEF G, One

-----------------------------------------------------------------------------
(* The events of a turn. *)

Called == {NoTool} \cup UNION {Range(c) : c \in Calls}
Told == [kind : {"request", "text", "tool_call", "status"}, tool : Called]
LaneEvent == [turn : Nat, n : Nat, lane : LaneId \cup {AnyLane}, kind : {"request", "text", "tool_call", "status"},
              tool : Called]

ToldOf(r) == RequestEvents(r) \o ResponseEvents(r)

LEMMA CallsAre == \A c \in Calls \cup {<<>>} : c \in Seq(Called)
<1>1. ASSUME NEW c \in Calls PROVE c \in Seq(Called)
  <2>1. c \in Seq(Range(c)) /\ Range(c) \subseteq Called
    BY CallsAssumption DEF Called
  <2>2. QED
    BY <2>1, SeqGrows
<1>2. <<>> \in Seq(Called)
  BY EmptySeq
<1>3. QED
  BY <1>1, <1>2

LEMMA ToldIs ==
    ASSUME NEW r, r.tools \in Calls \cup {<<>>}
    PROVE  ToldOf(r) \in Seq(Told)
<1>1. ASSUME NEW x \in Told PROVE <<x>> \in Seq(Told)
  BY OneIs
<1>2. <<>> \in Seq(Told)
  BY EmptySeq
<1>3. \A k \in {"request", "text", "tool_call", "status"} : [kind |-> k, tool |-> NoTool] \in Told
  <2>1. NoTool \in Called
    BY DEF Called
  <2>2. QED
    BY <2>1 DEF Told
<1>4. RequestEvents(r) \in Seq(Told)
  BY <1>1, <1>2, <1>3 DEF RequestEvents
<1>5. ResponseEvents(r) \in Seq(Told)
  <2> DEFINE calls == [i \in DOMAIN r.tools |-> [kind |-> "tool_call", tool |-> r.tools[i]]]
  <2>1. r.tools \in Seq(Called)
    BY CallsAre
  <2>2. \A i \in DOMAIN r.tools : calls[i] \in Told
    <3>1. \A i \in DOMAIN r.tools : r.tools[i] \in Called
      BY <2>1, SeqGrows
    <3>2. QED
      BY <3>1 DEF Told
  <2>3. calls \in Seq(Told)
    <3>1. DOMAIN calls = DOMAIN r.tools /\ calls = [i \in DOMAIN calls |-> calls[i]]
      OBVIOUS
    <3> HIDE DEF calls
    <3>2. QED
      BY <2>1, <2>2, <3>1, MappedIs
  <2>4. \/ ResponseEvents(r) = calls
        \/ ResponseEvents(r) = <<>>
        \/ \E k \in {"text", "status"} : ResponseEvents(r) = <<[kind |-> k, tool |-> NoTool]>>
    BY DEF ResponseEvents
  <2> HIDE DEF calls
  <2>5. QED
    BY <1>1, <1>2, <1>3, <2>3, <2>4
<1>6. QED
  BY <1>4, <1>5, ConcatProperties DEF ToldOf

LEMMA TurnEventsAre ==
    ASSUME NEW r, r.tools \in Calls \cup {<<>>}, r.turn \in Nat, NEW l \in LaneId \cup {AnyLane}
    PROVE  /\ TurnEvents(r, l) \in Seq(LaneEvent)
           /\ DOMAIN TurnEvents(r, l) = DOMAIN ToldOf(r)
           /\ \A i \in DOMAIN ToldOf(r) :
                TurnEvents(r, l)[i] = [turn |-> r.turn, n |-> i, lane |-> l,
                                       kind |-> ToldOf(r)[i].kind, tool |-> ToldOf(r)[i].tool]
<1> DEFINE all == ToldOf(r)
           At(i) == [turn |-> r.turn, n |-> i, lane |-> l, kind |-> all[i].kind, tool |-> all[i].tool]
           events == [i \in DOMAIN all |-> At(i)]
<1>1. TurnEvents(r, l) = events
  BY DEF TurnEvents, ToldOf
<1>2. all \in Seq(Told)
  BY ToldIs
<1>3. ASSUME NEW i \in DOMAIN all PROVE At(i) \in LaneEvent
  <2>1. i \in Nat /\ all[i] \in Told
    BY <1>2, SeqGrows
  <2> HIDE DEF all
  <2>2. QED
    BY <2>1 DEF Told, LaneEvent
<1>4. events \in Seq(LaneEvent)
  <2>1. DOMAIN events = DOMAIN all /\ events = [i \in DOMAIN events |-> events[i]]
    OBVIOUS
  <2>2. \A i \in DOMAIN all : events[i] \in LaneEvent
    BY <1>3
  <2> HIDE DEF events, all
  <2>3. QED
    BY <1>2, <2>1, <2>2, MappedIs
<1>5. QED
  BY <1>1, <1>4

LEMMA EventsSay ==
    ASSUME NEW r, r.tools \in Calls \cup {<<>>}, r.turn \in Nat, NEW l \in LaneId \cup {AnyLane},
           NEW e \in Range(TurnEvents(r, l))
    PROVE  e.turn = r.turn /\ e.lane = l
<1>1. PICK i \in DOMAIN TurnEvents(r, l) : e = TurnEvents(r, l)[i]
  BY DEF Range
<1>2. e = [turn |-> r.turn, n |-> i, lane |-> l, kind |-> ToldOf(r)[i].kind, tool |-> ToldOf(r)[i].tool]
  BY <1>1, TurnEventsAre
<1>3. QED
  BY <1>2

-----------------------------------------------------------------------------
(* What a timeline shows of a turn. *)

(* A record says what is on disk of a turn, the tools only if its answer is. *)
Says(r, t) ==
  /\ r.turn = t /\ r.word = turns[t].request.word
  /\ r.non_stream = KeptFile(t, "non_stream") /\ r.downstream = KeptFile(t, "downstream")
  /\ Shown(r) = "read" => r.tools = turns[t].tools

(* Records that have every turn that is whole. *)
Fresh(rs) ==
  /\ rs \in Seq(Record) /\ OneEach(rs)
  /\ \A t \in DOMAIN turns : Kept(t) => \E k \in DOMAIN rs : Says(rs[k], t)

LEMMA SaysSame ==
    ASSUME NEW r, NEW t, Says(r, t)
    PROVE  /\ ToldOf(r) = ToldOf(KeptRecord(t)) /\ r.turn = KeptRecord(t).turn
           /\ \A f : Passes(r, f) <=> Passes(KeptRecord(t), f)
           /\ \A l : TurnEvents(r, l) = TurnEvents(KeptRecord(t), l)
<1> DEFINE q == KeptRecord(t)
<1>1. /\ q.turn = t /\ q.tools = turns[t].tools /\ q.word = turns[t].request.word
      /\ q.non_stream = KeptFile(t, "non_stream") /\ q.downstream = KeptFile(t, "downstream")
  BY DEF KeptRecord
<1> HIDE DEF q
<1>2. /\ r.turn = q.turn /\ r.word = q.word /\ r.non_stream = q.non_stream /\ r.downstream = q.downstream
      /\ Shown(r) = Shown(q) /\ (Shown(r) = "read" => r.tools = q.tools)
  BY <1>1 DEF Says, Shown
<1>3. RequestEvents(r) = RequestEvents(q)
  BY <1>2 DEF RequestEvents
<1>4. ResponseEvents(r) = ResponseEvents(q)
  <2>1. CASE Shown(r) = "read"
    BY <1>2, <2>1 DEF ResponseEvents
  <2>2. CASE Shown(r) # "read"
    BY <1>2, <2>2 DEF ResponseEvents
  <2>3. QED
    BY <2>1, <2>2
<1>5. Words(r) = Words(q)
  <2>1. CASE Shown(r) = "read"
    BY <1>2, <2>1 DEF Words
  <2>2. CASE Shown(r) # "read"
    BY <1>2, <2>2 DEF Words
  <2>3. QED
    BY <2>1, <2>2
<1>6. \A f : Passes(r, f) <=> Passes(q, f)
  BY <1>3, <1>4, <1>5 DEF Passes
<1>7. \A l : TurnEvents(r, l) = TurnEvents(q, l)
  BY <1>2, <1>3, <1>4 DEF TurnEvents
<1>8. ToldOf(r) = ToldOf(q)
  BY <1>3, <1>4 DEF ToldOf
<1>9. QED
  BY <1>2, <1>6, <1>7, <1>8 DEF q

(* The board has of a turn the wanted ones of its events. *)
LEMMA BoardShows ==
    ASSUME NEW rs \in Seq(Record), OneEach(rs), NEW k \in DOMAIN rs, NEW f, Passes(rs[k], f),
           NEW lanesOf \in Seq(LaneId), Len(lanesOf) = Len(rs)
    PROVE  OfTurn(Board(Scope(rs, lanesOf, f), f), rs[k].turn) = Board(TurnEvents(rs[k], lanesOf[k]), f)
<1> DEFINE E == LaneEvent
           t == rs[k].turn
           V == {e \in E : Wanted(e, f) /\ e.turn = t}
           Part(i) == IF Passes(rs[i], f) THEN TurnEvents(rs[i], lanesOf[i]) ELSE <<>>
           ss == [i \in DOMAIN rs |-> Part(i)]
           scope == Scope(rs, lanesOf, f)
           own == TurnEvents(rs[k], lanesOf[k])
<1>1. \A i \in DOMAIN rs : rs[i].turn \in Nat /\ rs[i].tools \in Calls \cup {<<>>} /\ lanesOf[i] \in LaneId
  <2>1. TAKE i \in DOMAIN rs
  <2>2. rs[i] \in Record /\ i \in DOMAIN lanesOf
    BY RecordIs, LenProperties
  <2>3. lanesOf[i] \in LaneId
    BY <2>2, SeqGrows
  <2>4. QED
    BY <2>2, <2>3 DEF Record
<1>2. \A i \in DOMAIN rs : /\ TurnEvents(rs[i], lanesOf[i]) \in Seq(E)
                           /\ \A e \in Range(TurnEvents(rs[i], lanesOf[i])) : e.turn = rs[i].turn
  BY <1>1, TurnEventsAre, EventsSay
<1>3. ss \in Seq(Seq(E)) /\ DOMAIN ss = DOMAIN rs /\ \A i \in DOMAIN rs : ss[i] = Part(i)
  <2>1. DOMAIN ss = DOMAIN rs /\ ss = [i \in DOMAIN ss |-> ss[i]] /\ \A i \in DOMAIN rs : ss[i] = Part(i)
    OBVIOUS
  <2>2. \A i \in DOMAIN rs : ss[i] \in Seq(E)
    BY <1>2, <2>1, EmptySeq
  <2> HIDE DEF ss, E, Part
  <2>3. QED
    BY <2>1, <2>2, MappedIs
<1>4. scope = FlattenSeq(ss)
  BY DEF Scope
<1> HIDE DEF ss
<1>5. scope \in Seq(E)
  <2> HIDE DEF E
  <2>1. PICK g \in [0..Len(ss) -> Seq(E)] : Glued(g, ss) /\ FlattenSeq(ss) = g[Len(ss)]
    BY <1>3, FlattenIs
  <2>2. Len(ss) \in 0..Len(ss)
    BY <1>3, LenProperties
  <2>3. QED
    BY <1>4, <2>1, <2>2
<1>6. own \in Seq(E) /\ ss[k] = own /\ \A e \in Range(own) : e.turn = t
  BY <1>2, <1>3
<1>7. \A j \in DOMAIN ss : j # k => Range(ss[j]) \cap V = {}
  <2>1. TAKE j \in DOMAIN ss
  <2>2. HAVE j # k
  <2>3. rs[j].turn # t
    BY <1>3, <2>2 DEF OneEach
  <2>4. Range(<<>>) = {}
    BY EmptySeq DEF Range
  <2>5. \A e \in Range(ss[j]) : e.turn = rs[j].turn
    BY <1>2, <1>3, <2>4
  <2>6. QED
    BY <2>3, <2>5
<1> HIDE DEF E, own, scope, Part
<1>8. Among(scope, V) = Among(own, V)
  BY <1>3, <1>4, <1>6, <1>7, AmongFlat
<1>9. OfTurn(Board(scope, f), t) = Among(scope, V)
  <2> DEFINE W == {e \in Range(scope) : Wanted(e, f)}
             board == Among(scope, W)
             T == {e \in Range(board) : e.turn = t}
  <2>1. board = Board(scope, f)
    BY DEF Board
  <2>2. Range(board) = Range(scope) \cap W
    BY <1>5, AmongRange
  <2>3. Range(scope) \subseteq E
    BY <1>5, SeqGrows DEF Range
  <2>4. Range(scope) \cap (W \cap T) = Range(scope) \cap V
    BY <2>2, <2>3
  <2>5. OfTurn(board, t) = Among(board, T)
    BY DEF OfTurn
  <2> HIDE DEF T, W, V
  <2>6. Among(board, T) = Among(scope, W \cap T)
    BY <1>5, AmongAmong
  <2>7. Among(scope, W \cap T) = Among(scope, V)
    BY <1>5, <2>4, AmongSame
  <2>8. QED
    BY <2>1, <2>5, <2>6, <2>7
<1>10. Board(own, f) = Among(own, V)
  <2> DEFINE W == {e \in Range(own) : Wanted(e, f)}
  <2>1. Range(own) \subseteq E
    BY <1>6, SeqGrows DEF Range
  <2>2. Range(own) \cap W = Range(own) \cap V
    BY <1>6, <2>1
  <2>3. Board(own, f) = Among(own, W)
    BY DEF Board
  <2> HIDE DEF W, V
  <2>4. QED
    BY <1>6, <2>2, <2>3, AmongSame
<1>11. QED
  BY <1>8, <1>9, <1>10 DEF own, scope

(* The tool and agent of an event do not matter to a board that filters neither. *)
LEMMA EmptyBoard ==
    ASSUME NEW r, r.tools \in Calls \cup {<<>>}, r.turn \in Nat, NEW l \in LaneId,
           NEW f, f.agent = AnyLane, f.tool = AnyTool, Board(TurnEvents(r, l), f) = <<>>
    PROVE  Board(TurnEvents(r, AnyLane), f) = <<>>
<1> DEFINE own == TurnEvents(r, l)
           any == TurnEvents(r, AnyLane)
           Of(s) == {e \in Range(s) : Wanted(e, f)}
<1>1. /\ own \in Seq(LaneEvent) /\ any \in Seq(LaneEvent)
      /\ DOMAIN own = DOMAIN any
      /\ \A i \in DOMAIN own : own[i].kind = any[i].kind
  <2> DEFINE At(i, m) == [turn |-> r.turn, n |-> i, lane |-> m,
                          kind |-> ToldOf(r)[i].kind, tool |-> ToldOf(r)[i].tool]
  <2>1. ASSUME NEW m \in LaneId \cup {AnyLane}
        PROVE  /\ TurnEvents(r, m) \in Seq(LaneEvent)
               /\ DOMAIN TurnEvents(r, m) = DOMAIN ToldOf(r)
               /\ \A i \in DOMAIN ToldOf(r) : TurnEvents(r, m)[i] = At(i, m)
    BY TurnEventsAre
  <2>2. \A i, m : At(i, m).kind = ToldOf(r)[i].kind
    OBVIOUS
  <2> HIDE DEF At
  <2>3. QED
    BY <2>1, <2>2
<1>2. \A e : Wanted(e, f) <=> f.nonTool \/ e.kind = "tool_call"
  BY DEF Wanted
<1>3. Board(own, f) = Among(own, Of(own)) /\ Board(any, f) = Among(any, Of(any))
  BY DEF Board
<1> HIDE DEF own, any
<1>4. \A e \in Range(own) : ~Wanted(e, f)
  <2>1. Range(own) \cap Of(own) = {}
    <3> HIDE DEF Of
    <3>1. QED
      BY <1>1, <1>3, AmongNothing DEF own
  <2>2. QED
    BY <2>1
<1>5. \A e \in Range(any) : ~Wanted(e, f)
  <2>1. TAKE e \in Range(any)
  <2>2. PICK i \in DOMAIN any : e = any[i]
    BY DEF Range
  <2>3. own[i] \in Range(own) /\ own[i].kind = e.kind
    BY <1>1, <2>2 DEF Range
  <2>4. QED
    BY <1>2, <1>4, <2>3
<1>6. Range(any) \cap Of(any) = {}
  BY <1>5
<1> HIDE DEF Of
<1>7. QED
  BY <1>1, <1>3, <1>6, AmongNothing DEF any

LEMMA TimelineShows ==
    ASSUME LogInv, NEW rs, Fresh(rs), NEW f, f.agent = AnyLane, f.tool = AnyTool
    PROVE  ShowsTurns(Timeline(rs, f), f)
<1> DEFINE lanesOf == LanesOf(rs)
           shown == Timeline(rs, f)
<1>1. shown.events = Board(Scope(rs, lanesOf, f), f)
  BY DEF Timeline
<1>2. rs \in Seq(Record) /\ OneEach(rs)
  BY DEF Fresh
<1>3. lanesOf \in Seq(LaneId) /\ Len(lanesOf) = Len(rs)
  BY <1>2, LanesHold
<1> HIDE DEF lanesOf, shown
<1>4. ASSUME NEW t \in DOMAIN turns, Kept(t), Passes(KeptRecord(t), f)
      PROVE  OfTurn(shown.events, t) = Board(TurnEvents(KeptRecord(t), LaneOf(shown, t)), f)
  <2>1. PICK k \in DOMAIN rs : Says(rs[k], t)
    BY <1>4 DEF Fresh
  <2> DEFINE r == rs[k]
             l == lanesOf[k]
             own == OfTurn(shown.events, t)
  <2>2. r.turn = t /\ r.turn \in Nat /\ r.tools \in Calls \cup {<<>>}
    BY <1>2, <2>1, RecordIs DEF Record, Says
  <2>3. l \in LaneId
    <3>1. k \in DOMAIN lanesOf
      BY <1>2, <1>3, LenProperties
    <3>2. QED
      BY <1>3, <3>1, SeqGrows
  <2>4. Passes(r, f) /\ \A m : TurnEvents(KeptRecord(t), m) = TurnEvents(r, m)
    BY <1>4, <2>1, SaysSame
  <2>5. own = Board(TurnEvents(r, l), f)
    BY <1>1, <1>2, <1>3, <2>2, <2>4, BoardShows
  <2>6. CASE own = <<>>
    <3>1. LaneOf(shown, t) = AnyLane
      BY <2>6 DEF LaneOf
    <3> HIDE DEF r, l
    <3>2. Board(TurnEvents(r, AnyLane), f) = <<>>
      BY <2>2, <2>3, <2>5, <2>6, EmptyBoard
    <3>3. QED
      BY <2>4, <2>6, <3>1, <3>2
  <2>7. CASE own # <<>>
    <3> DEFINE all == TurnEvents(r, l)
    <3>1. all \in Seq(LaneEvent) /\ \A e \in Range(all) : e.lane = l
      BY <2>2, <2>3, TurnEventsAre, EventsSay
    <3>2. own = Among(all, {e \in Range(all) : Wanted(e, f)})
      BY <2>5 DEF Board
    <3> HIDE DEF all, own
    <3>3. own \in Seq(LaneEvent) /\ Range(own) \subseteq Range(all)
      BY <3>1, <3>2, AmongRange
    <3>4. Head(own) \in Range(own)
      <4>1. Head(own) = own[1] /\ 1 \in DOMAIN own
        BY <2>7, <3>3, HeadIs
      <4>2. QED
        BY <4>1 DEF Range
    <3>5. LaneOf(shown, t) = Head(own).lane
      BY <2>7 DEF LaneOf, own
    <3>6. LaneOf(shown, t) = l
      BY <3>1, <3>3, <3>4, <3>5
    <3>7. QED
      BY <2>4, <2>5, <3>6 DEF own
  <2>8. QED
    BY <2>6, <2>7
<1>5. QED
  BY <1>4 DEF ShowsTurns, shown

-----------------------------------------------------------------------------
(* What is kept of the log is up to date as long as its signature is. *)

(* What has been read of a turn that is whole. *)
SaysSoFar(r, t) ==
  /\ r.turn = t /\ r.tools = turns[t].tools
  /\ build.step # "listed" => r.word = turns[t].request.word
  /\ IF build.step = "responses"
     THEN r.non_stream = KeptFile(t, "non_stream") /\ r.downstream = KeptFile(t, "downstream")
     ELSE r.non_stream = ListedFile(t, "non_stream") /\ r.downstream = ListedFile(t, "downstream")

(* No file is there that was not written, and no answer before the turn ends. *)
FilesInv ==
  \A t \in DOMAIN turns :
    files[t] \subseteq turns[t].written /\ (turns[t].open => turns[t].written \subseteq {"req"})

BuildInv ==
  build.step # "none" =>
    /\ OneEach(build.records)
    /\ \A t \in DOMAIN turns : Kept(t) => \E k \in DOMAIN build.records : SaysSoFar(build.records[k], t)

BundleInv ==
  bundle # NoBundle =>
    bundle.signature \in 0..version /\ (bundle.signature = version => Fresh(bundle.records))

EntriesInv ==
  \A e \in filtered :
    /\ e.signature \in 0..version
    /\ e.signature = version => \E rs : Fresh(rs) /\ e.timeline = Timeline(rs, e.filters)

WholeInv ==
  /\ LogInv /\ version \in Nat /\ answer.n \in Nat
  /\ FilesInv /\ BuildInv /\ BundleInv /\ EntriesInv

LEMMA WholeInit == ServerInit => WholeInv
<1> SUFFICES ASSUME ServerInit PROVE WholeInv
  OBVIOUS
<1>1. LogInv
  BY ServerInitHolds
<1>2. /\ turns = <<>> /\ files = <<>> /\ version = 0 /\ bundle = NoBundle /\ filtered = {}
      /\ build.step = "none" /\ answer.n = 0
  BY DEF ServerInit
<1>3. FilesInv
  BY <1>2, EmptySeq DEF FilesInv
<1>4. QED
  BY <1>1, <1>2, <1>3 DEF WholeInv, BuildInv, BundleInv, EntriesInv

(* A change of the directory makes all that is cached old. *)
LEMMA CacheAges ==
    ASSUME WholeInv, version' = version + 1, UNCHANGED <<bundle, filtered>>
    PROVE  BundleInv' /\ EntriesInv'
<1>1. version \in Nat /\ \A n \in 0..version : n \in 0..version + 1 /\ n # version + 1
  BY DEF WholeInv
<1>2. BundleInv'
  BY <1>1 DEF WholeInv, BundleInv
<1>3. EntriesInv'
  BY <1>1 DEF WholeInv, EntriesInv
<1>4. QED
  BY <1>2, <1>3

LEMMA CacheStays ==
    ASSUME WholeInv, UNCHANGED <<version, bundle, filtered>>, \A rs : Fresh(rs) => Fresh(rs)'
    PROVE  BundleInv' /\ EntriesInv'
<1>1. BundleInv'
  BY DEF WholeInv, BundleInv
<1>2. EntriesInv'
  <2>1. SUFFICES ASSUME NEW e \in filtered'
                 PROVE  /\ e.signature \in 0..version'
                        /\ e.signature = version' => \E rs : Fresh(rs)' /\ e.timeline = Timeline(rs, e.filters)
    BY DEF EntriesInv
  <2>2. e \in filtered /\ e.signature \in 0..version'
    BY <2>1 DEF WholeInv, EntriesInv
  <2>3. ASSUME e.signature = version' PROVE \E rs : Fresh(rs)' /\ e.timeline = Timeline(rs, e.filters)
    <3>1. PICK rs : Fresh(rs) /\ e.timeline = Timeline(rs, e.filters)
      BY <2>2, <2>3 DEF WholeInv, EntriesInv
    <3>2. QED
      BY <3>1
  <2>4. QED
    BY <2>2, <2>3 DEF EntriesInv
<1>3. QED
  BY <1>1, <1>2

LEMMA FreshStays ==
    ASSUME UNCHANGED <<turns, files>>
    PROVE  /\ \A rs : Fresh(rs) => Fresh(rs)'
           /\ FilesInv => FilesInv'
<1> QED
  BY DEF Fresh, Kept, Says, KeptFile, FilesInv

LEMMA BeginWhole ==
    ASSUME WholeInv, NEW r, BeginTurn(r), LogInv' PROVE WholeInv'
<1> DEFINE n == Len(turns)
           turn == [request |-> r, tools |-> <<>>, open |-> TRUE, written |-> {"req"}]
<1>1. /\ turns' = Append(turns, turn) /\ files' = Append(files, {"req"}) /\ version' = version + 1
      /\ UNCHANGED <<bundle, filtered, answer, build>> /\ Idle
  BY DEF BeginTurn, cacheVars
<1>2. /\ n \in Nat /\ DOMAIN turns = 1..n /\ DOMAIN turns' = 1..n + 1
      /\ \A t \in 1..n : turns'[t] = turns[t]
      /\ turns'[n + 1] = turn
  <2>1. turns \in Seq(TurnType) /\ turns' \in Seq(TurnType)
    BY DEF WholeInv, LogInv
  <2>2. turns' = Append(turns, turn)
    BY <1>1
  <2> HIDE DEF turn
  <2>3. QED
    BY <2>1, <2>2, LenProperties
<1>3. /\ \A t \in 1..n : files'[t] = files[t]
      /\ files'[n + 1] = {"req"}
  <2>1. files \in Seq(SUBSET File) /\ {"req"} \in SUBSET File /\ Len(files) = n
    BY DEF WholeInv, LogInv, File
  <2>2. QED
    BY <1>1, <2>1, AppendIs
<1>4. turn.written = {"req"}
  OBVIOUS
<1> HIDE DEF turn, n
<1>5. FilesInv'
  <2>1. SUFFICES ASSUME NEW t \in DOMAIN turns'
                 PROVE  /\ files'[t] \subseteq turns'[t].written
                        /\ turns'[t].open => turns'[t].written \subseteq {"req"}
    BY DEF FilesInv
  <2>2. CASE t \in 1..n
    BY <1>2, <1>3, <2>2 DEF WholeInv, FilesInv
  <2>3. CASE t = n + 1
    BY <1>2, <1>3, <1>4, <2>3
  <2>4. QED
    BY <1>2, <2>1, <2>2, <2>3
<1>6. BuildInv'
  BY <1>1 DEF BuildInv, Idle
<1>7. BundleInv' /\ EntriesInv'
  BY <1>1, CacheAges
<1>8. QED
  BY <1>1, <1>5, <1>6, <1>7 DEF WholeInv

LEMMA DiscardWhole ==
    ASSUME WholeInv, NEW t \in DOMAIN turns, Discard(t), LogInv' PROVE WholeInv'
<1>1. /\ turns' = [turns EXCEPT ![t].open = FALSE, ![t].written = {}] /\ files' = [files EXCEPT ![t] = {}]
      /\ version' = version + 1 /\ UNCHANGED <<bundle, filtered, answer, build>> /\ Idle
  BY DEF Discard, cacheVars
<1>2. DOMAIN turns = 1..Len(turns) /\ DOMAIN files = 1..Len(turns) /\ turns[t] \in TurnType
  BY TurnIs DEF WholeInv
<1>3. FilesInv'
  <2>1. SUFFICES ASSUME NEW u \in DOMAIN turns'
                 PROVE  /\ files'[u] \subseteq turns'[u].written
                        /\ turns'[u].open => turns'[u].written \subseteq {"req"}
    BY DEF FilesInv
  <2>2. CASE u = t
    BY <1>1, <1>2, <2>2 DEF TurnType
  <2>3. CASE u # t
    <3>1. u \in DOMAIN turns /\ turns'[u] = turns[u] /\ files'[u] = files[u]
      BY <1>1, <1>2, <2>1, <2>3
    <3>2. QED
      BY <3>1 DEF WholeInv, FilesInv
  <2>4. QED
    BY <2>2, <2>3
<1>4. BuildInv'
  BY <1>1 DEF BuildInv, Idle
<1>5. BundleInv' /\ EntriesInv'
  BY <1>1, CacheAges
<1>6. QED
  BY <1>1, <1>3, <1>4, <1>5 DEF WholeInv

LEMMA RespondWhole ==
    ASSUME WholeInv, NEW t \in DOMAIN turns, NEW c \in Calls, NEW kinds \in Writes, Respond(t, c, kinds), LogInv'
    PROVE  WholeInv'
<1> DEFINE turn == [turns[t] EXCEPT !.tools = c, !.open = FALSE, !.written = @ \cup kinds]
<1>1. /\ turns' = [turns EXCEPT ![t] = turn] /\ files' = [files EXCEPT ![t] = @ \cup kinds]
      /\ version' = IF kinds = {} THEN version ELSE version + 1
      /\ UNCHANGED <<bundle, filtered, answer, build>> /\ Idle /\ turns[t].open
  BY DEF Respond, cacheVars
<1>2. DOMAIN turns = 1..Len(turns) /\ DOMAIN files = 1..Len(turns) /\ turns[t] \in TurnType
  BY TurnIs DEF WholeInv
<1>3. turn.open = FALSE /\ turn.written = turns[t].written \cup kinds /\ turn.request = turns[t].request
  BY <1>2 DEF TurnType
<1> HIDE DEF turn
<1>4. /\ DOMAIN turns' = DOMAIN turns /\ turns'[t] = turn /\ files'[t] = files[t] \cup kinds
      /\ \A u \in DOMAIN turns : u # t => turns'[u] = turns[u] /\ files'[u] = files[u]
  BY <1>1, <1>2
<1>5. FilesInv'
  <2>1. SUFFICES ASSUME NEW u \in DOMAIN turns'
                 PROVE  /\ files'[u] \subseteq turns'[u].written
                        /\ turns'[u].open => turns'[u].written \subseteq {"req"}
    BY DEF FilesInv
  <2>2. u \in DOMAIN turns /\ files[u] \subseteq turns[u].written /\ (turns[u].open => turns[u].written \subseteq {"req"})
    BY <1>4, <2>1 DEF WholeInv, FilesInv
  <2>3. CASE u = t
    BY <1>3, <1>4, <2>2, <2>3
  <2>4. CASE u # t
    BY <1>4, <2>2, <2>4
  <2>5. QED
    BY <2>3, <2>4
<1>6. BuildInv'
  BY <1>1 DEF BuildInv, Idle
<1>7. CASE kinds # {}
  <2>1. BundleInv' /\ EntriesInv'
    BY <1>1, <1>7, CacheAges
  <2>2. QED
    BY <1>1, <1>5, <1>6, <1>7, <2>1 DEF WholeInv
<1>8. CASE kinds = {}
  <2>1. files[t] \subseteq {"req"} /\ files'[t] = files[t] /\ turn.written = turns[t].written
    BY <1>1, <1>3, <1>4, <1>8 DEF WholeInv, FilesInv
  <2>2. \A u \in DOMAIN turns : Kept(u)' <=> Kept(u)
    <3>1. TAKE u \in DOMAIN turns
    <3>2. files'[u] = files[u] /\ turns'[u].written = turns[u].written
      BY <1>4, <2>1
    <3>3. QED
      BY <3>2 DEF Kept
  <2>3. ASSUME NEW r, NEW u \in DOMAIN turns, Says(r, u) PROVE Says(r, u)'
    <3>1. files'[u] = files[u] /\ turns'[u].request = turns[u].request
      BY <1>3, <1>4, <2>1
    <3>2. CASE u = t
      <4>1. KeptFile(t, "non_stream") = "absent" /\ KeptFile(t, "downstream") = "absent"
        BY <2>1 DEF KeptFile
      <4>2. Shown(r) # "read"
        BY <2>3, <3>2, <4>1 DEF Says, Shown
      <4>3. QED
        BY <2>3, <3>1, <4>2 DEF Says, KeptFile
    <3>3. CASE u # t
      <4>1. turns'[u] = turns[u]
        BY <1>4, <3>3
      <4>2. QED
        BY <2>3, <3>1, <4>1 DEF Says, KeptFile
    <3>4. QED
      BY <3>2, <3>3
  <2>4. \A rs : Fresh(rs) => Fresh(rs)'
    BY <1>4, <2>2, <2>3 DEF Fresh
  <2>5. BundleInv' /\ EntriesInv'
    BY <1>1, <1>8, <2>4, CacheStays
  <2>6. QED
    BY <1>1, <1>5, <1>6, <1>8, <2>5 DEF WholeInv
<1>9. QED
  BY <1>7, <1>8

LEMMA RemoveWhole ==
    ASSUME WholeInv, NEW t \in DOMAIN turns, NEW f, RemoveFile(t, f), LogInv' PROVE WholeInv'
<1>1. /\ files' = [files EXCEPT ![t] = @ \ {f}] /\ f \in files[t]
      /\ version' = version + 1 /\ UNCHANGED <<turns, bundle, filtered, answer, build>>
  BY DEF RemoveFile, cacheVars
<1>2. DOMAIN turns = 1..Len(turns) /\ DOMAIN files = 1..Len(turns)
  BY TurnIs DEF WholeInv
<1>3. /\ files'[t] = files[t] \ {f}
      /\ \A u \in DOMAIN turns : u # t => files'[u] = files[u]
  BY <1>1, <1>2
<1>4. FilesInv'
  BY <1>1, <1>3 DEF WholeInv, FilesInv
<1>5. BuildInv'
  <2>1. ASSUME NEW u \in DOMAIN turns, Kept(u)' PROVE Kept(u) /\ files'[u] = files[u]
    <3>1. u # t
      BY <1>1, <1>3, <2>1 DEF Kept, WholeInv, FilesInv
    <3>2. QED
      BY <1>1, <1>3, <2>1, <3>1 DEF Kept
  <2>2. ASSUME NEW u \in DOMAIN turns, files'[u] = files[u], NEW r, SaysSoFar(r, u) PROVE SaysSoFar(r, u)'
    BY <1>1, <2>2 DEF SaysSoFar, KeptFile, ListedFile
  <2>3. QED
    BY <1>1, <2>1, <2>2 DEF WholeInv, BuildInv
<1>6. BundleInv' /\ EntriesInv'
  BY <1>1, CacheAges
<1>7. QED
  BY <1>1, <1>4, <1>5, <1>6 DEF WholeInv

(* An answer is the timeline of up-to-date records, cached or not. *)
Answered(f) ==
  /\ answer'.n = answer.n + 1 /\ answer'.filters = f
  /\ \E rs : Fresh(rs) /\ answer'.timeline = Timeline(rs, f)

LEMMA AnswerHolds ==
    ASSUME WholeInv, UNCHANGED logVars, NEW f, NEW b, Answer(f, b), b.signature = version, Fresh(b.records)
    PROVE  EntriesInv' /\ Answered(f)
<1> DEFINE cached == Entries(f, version)
           shown == IF cached # {} THEN (CHOOSE e \in cached : TRUE).timeline ELSE Timeline(b.records, f)
           entry == [filters |-> f, signature |-> version, timeline |-> shown]
<1>1. /\ filtered' = IF cached # {} THEN filtered ELSE filtered \cup {entry}
      /\ answer' = [n |-> answer.n + 1, filters |-> f, timeline |-> shown]
      /\ version' = version /\ version \in 0..version
  BY DEF Answer, logVars, WholeInv
<1>2. \A rs : Fresh(rs) => Fresh(rs)'
  BY FreshStays DEF logVars
<1>3. PICK rs : Fresh(rs) /\ shown = Timeline(rs, f)
  <2>1. CASE cached = {}
    BY <2>1
  <2>2. CASE cached # {}
    <3>1. PICK e \in cached : shown = e.timeline
      BY <2>2
    <3>2. e \in filtered /\ e.filters = f /\ e.signature = version
      BY <3>1 DEF Entries
    <3>3. QED
      BY <3>1, <3>2 DEF WholeInv, EntriesInv
  <2>3. QED
    BY <2>1, <2>2
<1>4. EntriesInv'
  <2>1. \A e \in filtered : /\ e.signature \in 0..version
                            /\ e.signature = version => \E qs : Fresh(qs) /\ e.timeline = Timeline(qs, e.filters)
    BY DEF WholeInv, EntriesInv
  <2>2. /\ entry.signature \in 0..version
        /\ Fresh(rs) /\ entry.timeline = Timeline(rs, entry.filters)
    BY <1>1, <1>3
  <2>3. \A e \in filtered' : e \in filtered \/ e = entry
    BY <1>1
  <2> HIDE DEF entry, cached
  <2>4. \A e \in filtered' : /\ e.signature \in 0..version
                             /\ e.signature = version => \E qs : Fresh(qs) /\ e.timeline = Timeline(qs, e.filters)
    BY <2>1, <2>2, <2>3
  <2>5. QED
    BY <1>1, <1>2, <2>4 DEF EntriesInv
<1> HIDE DEF shown
<1>5. QED
  BY <1>1, <1>3, <1>4 DEF Answered

LEMMA AskWhole ==
    ASSUME WholeInv, NEW f \in Filters, Ask(f), LogInv'
    PROVE  WholeInv' /\ (UNCHANGED answer \/ Answered(f))
<1>1. UNCHANGED <<turns, files, version, bundle>> /\ UNCHANGED logVars
  BY DEF Ask, logVars, cacheVars
<1>2. FilesInv' /\ \A rs : Fresh(rs) => Fresh(rs)'
  BY <1>1, FreshStays DEF WholeInv
<1>3. CASE Valid(bundle) /\ Answer(f, bundle) /\ UNCHANGED build
  <2>1. bundle.signature = version /\ Fresh(bundle.records)
    BY <1>3 DEF Valid, WholeInv, BundleInv
  <2>2. EntriesInv' /\ Answered(f)
    BY <1>1, <1>3, <2>1, AnswerHolds
  <2>3. BundleInv'
    BY <1>1, <1>2 DEF WholeInv, BundleInv
  <2>4. BuildInv'
    <3>1. build'.step = "none"
      BY <1>3 DEF Ask, Idle
    <3>2. QED
      BY <3>1 DEF BuildInv
  <2>5. answer'.n \in Nat
    BY <2>2 DEF Answered, WholeInv
  <2>6. QED
    BY <1>1, <1>2, <2>2, <2>3, <2>4, <2>5 DEF WholeInv
<1>4. CASE /\ build' = [step |-> "listed", filters |-> f, records |-> Listing]
           /\ UNCHANGED cacheVars
  <2>1. BundleInv' /\ EntriesInv'
    BY <1>1, <1>2, <1>4, CacheStays DEF cacheVars
  <2>2. PICK listed : listed = Listing
    OBVIOUS
  <2>3. /\ Lists(listed, Len(turns)) /\ DOMAIN turns = 1..Len(turns)
        /\ build'.step = "listed" /\ build'.records = listed
    BY <1>4, <2>2, ListingHolds, LenProperties DEF WholeInv, LogInv
  <2>4. ASSUME NEW t \in DOMAIN turns, Kept(t)' PROVE \E k \in DOMAIN listed : SaysSoFar(listed[k], t)'
    <3>1. "req" \in files[t]
      BY <1>1, <2>4 DEF Kept
    <3>2. PICK k \in DOMAIN listed : listed[k] = ListedAs(t)
      BY <2>3, <3>1 DEF Lists
    <3>3. SaysSoFar(listed[k], t)'
      BY <1>1, <2>3, <3>2 DEF SaysSoFar, ListedAs, ListedFile
    <3>4. QED
      BY <3>3
  <2>5. BuildInv'
    BY <1>1, <2>3, <2>4 DEF BuildInv, Lists
  <2>6. QED
    BY <1>1, <1>2, <1>4, <2>1, <2>5 DEF WholeInv, cacheVars
<1>5. QED
  BY <1>3, <1>4 DEF Ask

(* Reading keeps the turns of the records, and of a turn that is whole it finds what was written. *)
LEMMA ReadsOn ==
    ASSUME WholeInv, UNCHANGED <<logVars, cacheVars>>, build.step # "none", LogInv',
           DOMAIN build'.records = DOMAIN build.records,
           \A i \in DOMAIN build.records : build'.records[i].turn = build.records[i].turn,
           \A t \in DOMAIN turns : \A i \in DOMAIN build.records :
              Kept(t) /\ SaysSoFar(build.records[i], t) => SaysSoFar(build.records[i], t)'
    PROVE  WholeInv'
<1>1. UNCHANGED <<turns, files, version, bundle, filtered, answer>>
  BY DEF logVars, cacheVars
<1>2. FilesInv' /\ BundleInv' /\ EntriesInv'
  BY <1>1, FreshStays, CacheStays DEF WholeInv
<1>3. OneEach(build.records)'
  BY DEF WholeInv, BuildInv, OneEach
<1>4. ASSUME NEW t \in DOMAIN turns', Kept(t)'
      PROVE  \E k \in DOMAIN build'.records : SaysSoFar(build.records[k], t)'
  <2>1. t \in DOMAIN turns /\ Kept(t)
    BY <1>1, <1>4 DEF Kept
  <2>2. PICK k \in DOMAIN build.records : SaysSoFar(build.records[k], t)
    BY <2>1 DEF WholeInv, BuildInv
  <2>3. QED
    BY <2>1, <2>2
<1>5. BuildInv'
  BY <1>3, <1>4 DEF BuildInv
<1>6. QED
  BY <1>1, <1>2, <1>5 DEF WholeInv

LEMMA ReadRequestsWhole == ASSUME WholeInv, ReadRequests, LogInv' PROVE WholeInv'
<1> DEFINE Read(r) == IF "req" \in files[r.turn]
                      THEN [r EXCEPT !.static = turns[r.turn].request.static,
                                     !.prefix = turns[r.turn].request.prefix,
                                     !.word = turns[r.turn].request.word]
                      ELSE r
           rs == build.records
<1>1. /\ build.step = "listed" /\ build'.step = "requests" /\ UNCHANGED <<logVars, cacheVars>>
      /\ DOMAIN build'.records = DOMAIN rs
      /\ \A i \in DOMAIN rs : build'.records[i] = Read(rs[i])
  <2>1. /\ build.step = "listed" /\ UNCHANGED <<logVars, cacheVars>>
        /\ build' = [build EXCEPT !.step = "requests", !.records = [i \in DOMAIN rs |-> Read(rs[i])]]
    BY DEF ReadRequests
  <2>2. build' = [step |-> "requests", filters |-> build.filters, records |-> [i \in DOMAIN rs |-> Read(rs[i])]]
    BY <2>1, BuildIs DEF WholeInv
  <2> DEFINE read == [i \in DOMAIN rs |-> Read(rs[i])]
  <2>3. DOMAIN read = DOMAIN rs /\ \A i \in DOMAIN rs : read[i] = Read(rs[i])
    OBVIOUS
  <2> HIDE DEF Read, read
  <2>4. build'.records = read /\ build'.step = "requests"
    BY <2>2 DEF read
  <2>5. QED
    BY <2>1, <2>3, <2>4
<1>2. ASSUME NEW i \in DOMAIN rs
      PROVE  /\ Read(rs[i]).turn = rs[i].turn /\ Read(rs[i]).tools = rs[i].tools
             /\ Read(rs[i]).non_stream = rs[i].non_stream /\ Read(rs[i]).downstream = rs[i].downstream
             /\ "req" \in files[rs[i].turn] => Read(rs[i]).word = turns[rs[i].turn].request.word
  <2>1. rs[i] \in Record
    BY BuildIs DEF WholeInv, RecordOf
  <2>2. QED
    BY <2>1 DEF Record
<1> HIDE DEF Read
<1>3. ASSUME NEW t \in DOMAIN turns, NEW i \in DOMAIN rs, Kept(t), SaysSoFar(rs[i], t)
      PROVE  SaysSoFar(build.records[i], t)'
  <2> DEFINE r == build'.records[i]
  <2>1. UNCHANGED <<turns, files>> /\ "req" \in files[t] /\ rs[i].turn = t
    BY <1>1, <1>3 DEF logVars, Kept, SaysSoFar
  <2>2. /\ r.turn = t /\ r.tools = rs[i].tools /\ r.word = turns[t].request.word
        /\ r.non_stream = rs[i].non_stream /\ r.downstream = rs[i].downstream
    BY <1>1, <1>2, <2>1
  <2>3. QED
    BY <1>1, <1>3, <2>1, <2>2 DEF SaysSoFar, ListedFile
<1>4. QED
  BY <1>1, <1>2, <1>3, ReadsOn

LEMMA ReadResponsesWhole == ASSUME WholeInv, ReadResponses, LogInv' PROVE WholeInv'
<1> DEFINE Read(r) == [r EXCEPT !.non_stream = ReadFile(@, "non_stream" \in files[r.turn]),
                                !.downstream = ReadFile(@, "downstream" \in files[r.turn])]
           rs == build.records
<1>1. /\ build.step = "requests" /\ build'.step = "responses" /\ UNCHANGED <<logVars, cacheVars>>
      /\ DOMAIN build'.records = DOMAIN rs
      /\ \A i \in DOMAIN rs : build'.records[i] = Read(rs[i])
  <2>1. /\ build.step = "requests" /\ UNCHANGED <<logVars, cacheVars>>
        /\ build' = [build EXCEPT !.step = "responses", !.records = [i \in DOMAIN rs |-> Read(rs[i])]]
    BY DEF ReadResponses
  <2>2. build' = [step |-> "responses", filters |-> build.filters, records |-> [i \in DOMAIN rs |-> Read(rs[i])]]
    BY <2>1, BuildIs DEF WholeInv
  <2> DEFINE read == [i \in DOMAIN rs |-> Read(rs[i])]
  <2>3. DOMAIN read = DOMAIN rs /\ \A i \in DOMAIN rs : read[i] = Read(rs[i])
    OBVIOUS
  <2> HIDE DEF Read, read
  <2>4. build'.records = read /\ build'.step = "responses"
    BY <2>2 DEF read
  <2>5. QED
    BY <2>1, <2>3, <2>4
<1>2. ASSUME NEW i \in DOMAIN rs
      PROVE  /\ Read(rs[i]).turn = rs[i].turn /\ Read(rs[i]).tools = rs[i].tools /\ Read(rs[i]).word = rs[i].word
             /\ Read(rs[i]).non_stream = ReadFile(rs[i].non_stream, "non_stream" \in files[rs[i].turn])
             /\ Read(rs[i]).downstream = ReadFile(rs[i].downstream, "downstream" \in files[rs[i].turn])
  <2>1. rs[i] \in Record
    BY BuildIs DEF WholeInv, RecordOf
  <2>2. QED
    BY <2>1 DEF Record
<1> HIDE DEF Read
<1>3. ASSUME NEW t \in DOMAIN turns, NEW i \in DOMAIN rs, Kept(t), SaysSoFar(rs[i], t)
      PROVE  SaysSoFar(build.records[i], t)'
  <2> DEFINE r == build'.records[i]
  <2>1. UNCHANGED <<turns, files>> /\ rs[i].turn = t
    BY <1>1, <1>3 DEF logVars, SaysSoFar
  <2>2. \A kind : ReadFile(ListedFile(t, kind), kind \in files[t]) = KeptFile(t, kind)
    BY DEF ReadFile, ListedFile, KeptFile
  <2>3. rs[i].non_stream = ListedFile(t, "non_stream") /\ rs[i].downstream = ListedFile(t, "downstream")
    BY <1>1, <1>3 DEF SaysSoFar
  <2>4. /\ r.turn = t /\ r.tools = rs[i].tools /\ r.word = rs[i].word
        /\ r.non_stream = KeptFile(t, "non_stream") /\ r.downstream = KeptFile(t, "downstream")
    BY <1>1, <1>2, <2>1, <2>2, <2>3
  <2>5. QED
    BY <1>1, <1>3, <2>1, <2>4 DEF SaysSoFar, KeptFile
<1>4. QED
  BY <1>1, <1>2, <1>3, ReadsOn

LEMMA FinishWhole ==
    ASSUME WholeInv, Finish, LogInv'
    PROVE  WholeInv' /\ Answered(build.filters)
<1> DEFINE b == [signature |-> version, records |-> build.records]
<1>1. /\ build.step = "responses" /\ UNCHANGED logVars /\ bundle' = b /\ Answer(build.filters, bundle')
      /\ build' = [build EXCEPT !.step = "none", !.filters = NoFilters, !.records = <<>>]
  BY DEF Finish
<1>2. UNCHANGED <<turns, files, version>> /\ version \in 0..version
  BY <1>1 DEF logVars, WholeInv
<1>3. Fresh(build.records)
  <2>1. build.records \in Seq(Record)
    <3>1. RecordOf(Len(turns)) \subseteq Record
      BY DEF RecordOf
    <3>2. QED
      BY <3>1, BuildIs, SeqGrows DEF WholeInv
  <2>2. \A r, t : SaysSoFar(r, t) => Says(r, t)
    BY <1>1 DEF SaysSoFar, Says
  <2>3. QED
    BY <1>1, <2>1, <2>2 DEF WholeInv, BuildInv, Fresh
<1>4. b.signature = version /\ b.records = build.records
  OBVIOUS
<1> HIDE DEF b
<1>5. EntriesInv' /\ Answered(build.filters)
  <2>1. Answer(build.filters, b)
    BY <1>1
  <2>2. QED
    BY <1>1, <1>3, <1>4, <2>1, AnswerHolds
<1>6. FilesInv' /\ Fresh(bundle.records)' /\ bundle'.signature = version
  <2>1. PICK rs : rs = build.records
    OBVIOUS
  <2>2. Fresh(rs)' /\ FilesInv' /\ bundle'.records = rs
    BY <1>1, <1>2, <1>3, <1>4, <2>1, FreshStays DEF WholeInv
  <2>3. QED
    BY <1>1, <1>4, <2>2
<1>7. BundleInv'
  BY <1>2, <1>6 DEF BundleInv
<1>8. BuildInv'
  <2>1. build'.step = "none"
    BY <1>1, BuildIs DEF WholeInv
  <2>2. QED
    BY <2>1 DEF BuildInv
<1>9. answer'.n \in Nat
  BY <1>5 DEF Answered, WholeInv
<1>10. QED
  BY <1>2, <1>5, <1>6, <1>7, <1>8, <1>9 DEF WholeInv

(* A step keeps what is cached up to date, and if it answers, the timeline is that of up-to-date records. *)
LEMMA WholeStep ==
    ASSUME WholeInv, [DialogNext]_pageVars
    PROVE  /\ WholeInv'
           /\ \/ UNCHANGED answer
              \/ answer'.timeline = NoTimeline
              \/ UNCHANGED <<turns, files>> /\ \E f : Answered(f)
<1>1. LogInv'
  BY DialogStepHolds DEF WholeInv
<1>2. CASE LogStep
  <2>1. UNCHANGED answer
    BY <1>2 DEF LogStep, BeginTurn, Respond, Discard, RemoveFile, cacheVars
  <2>2. WholeInv'
    BY <1>1, <1>2, BeginWhole, RespondWhole, DiscardWhole, RemoveWhole DEF LogStep
  <2>3. QED
    BY <2>1, <2>2
<1>3. CASE TimelineStep
  <2>1. CASE \E f \in Filters : Ask(f)
    <3>1. PICK f \in Filters : Ask(f)
      BY <2>1
    <3>2. UNCHANGED <<turns, files>>
      BY <3>1 DEF Ask, logVars
    <3>3. QED
      BY <1>1, <3>1, <3>2, AskWhole
  <2>2. CASE ReadRequests
    BY <1>1, <2>2, ReadRequestsWhole DEF ReadRequests, cacheVars
  <2>3. CASE ReadResponses
    BY <1>1, <2>3, ReadResponsesWhole DEF ReadResponses, cacheVars
  <2>4. CASE Finish
    <3>1. UNCHANGED <<turns, files>>
      BY <2>4 DEF Finish, logVars
    <3>2. QED
      BY <1>1, <2>4, <3>1, FinishWhole
  <2>5. QED
    BY <1>3, <2>1, <2>2, <2>3, <2>4 DEF TimelineStep
<1>4. CASE UNCHANGED serverVars
  <2>1. UNCHANGED <<turns, files, version, bundle, filtered, build, answer>>
    BY <1>4 DEF serverVars
  <2>2. FilesInv' /\ BundleInv' /\ EntriesInv'
    BY <2>1, FreshStays, CacheStays DEF WholeInv
  <2>3. BuildInv'
    BY <2>1 DEF WholeInv, BuildInv, Kept, SaysSoFar, KeptFile, ListedFile
  <2>4. QED
    BY <1>1, <2>1, <2>2, <2>3 DEF WholeInv
<1>5. CASE LoadFails
  <2>1. /\ UNCHANGED <<turns, files, version, bundle, filtered, build>>
        /\ answer' = [n |-> answer.n + 1, filters |-> NoFilters, timeline |-> NoTimeline]
    BY <1>5 DEF LoadFails, logVars
  <2>2. FilesInv' /\ BundleInv' /\ EntriesInv'
    BY <2>1, FreshStays, CacheStays DEF WholeInv
  <2>3. BuildInv'
    BY <2>1 DEF WholeInv, BuildInv, Kept, SaysSoFar, KeptFile, ListedFile
  <2>4. QED
    BY <1>1, <2>1, <2>2, <2>3 DEF WholeInv
<1>6. QED
  BY <1>2, <1>3, <1>4, <1>5
  DEF DialogNext, pageVars, Click, openStatsModal, openStatsModalForLane, PickAgent, CloseDialog

(* What is cached, and what is being read, is up to date as far as its signature says. *)
THEOREM CachesAreFresh == DialogSpec => []WholeInv
<1>1. DialogInit => WholeInv
  BY WholeInit DEF DialogInit
<1>2. WholeInv /\ [DialogNext]_pageVars => WholeInv'
  BY WholeStep
<1>3. QED
  BY <1>1, <1>2, PTL DEF DialogSpec

(* An answer without a filter for an agent or a tool has, of each turn that *)
(* is whole on disk and passes the keywords, the events of its request and  *)
(* answer, whatever was cached and whatever is removed meanwhile.           *)
THEOREM TimelinesAreWhole == DialogSpec => TimelineWhole
<1> DEFINE Whole(f) == answer'.n > answer.n /\ answer'.timeline # NoTimeline /\ f.agent = AnyLane /\ f.tool = AnyTool
                         => ShowsTurns(answer.timeline, answer.filters)'
<1>1. ASSUME WholeInv, [DialogNext]_pageVars PROVE Whole(answer'.filters)
  <2>1. SUFFICES ASSUME answer'.n > answer.n, answer'.timeline # NoTimeline,
                        answer'.filters.agent = AnyLane, answer'.filters.tool = AnyTool
                 PROVE  ShowsTurns(answer.timeline, answer.filters)'
    OBVIOUS
  <2>2. ~UNCHANGED answer
    BY <1>1, <2>1 DEF WholeInv
  <2>3. UNCHANGED <<turns, files>> /\ \E f : Answered(f)
    BY <1>1, <2>1, <2>2, WholeStep
  <2>4. PICK f, rs : Fresh(rs) /\ answer'.timeline = Timeline(rs, f) /\ answer'.filters = f
    BY <2>3 DEF Answered
  <2>5. PICK shown : shown = Timeline(rs, f)
    OBVIOUS
  <2>6. ShowsTurns(shown, f)
    BY <1>1, <2>1, <2>4, <2>5, TimelineShows DEF WholeInv
  <2>7. ShowsTurns(shown, f)'
    BY <2>3, <2>6 DEF ShowsTurns, Kept, KeptRecord, KeptFile
  <2>8. QED
    BY <2>4, <2>5, <2>7
<1>2. WholeInv /\ [DialogNext]_pageVars => [LET f == answer'.filters
         IN  answer'.n > answer.n /\ answer'.timeline # NoTimeline /\ f.agent = AnyLane /\ f.tool = AnyTool =>
               ShowsTurns(answer.timeline, answer.filters)']_serverVars
  BY <1>1
<1>3. QED
  BY <1>2, CachesAreFresh, PTL DEF DialogSpec, TimelineWhole
-----------------------------------------------------------------------------
(* Sums and counts. *)

(* h sums up c step by step. *)
Sums(h, c) == h[0] = 0 /\ \A i \in 1..Len(c) : h[i] = h[i - 1] + c[i]

LEMMA TotalIs ==
    ASSUME NEW c, Len(c) \in Nat, NEW h, Sums(h, c)
    PROVE  Total(c) = h[Len(c)]
<1> DEFINE n == Len(c)
           Folds(f) == f = [i \in 0..n |-> IF i = 0 THEN 0 ELSE f[i - 1] + c[i]]
<1>1. \E f : Folds(f)
  <2> DEFINE f == [i \in 0..n |-> h[i]]
  <2>1. ASSUME NEW i \in 0..n PROVE f[i] = IF i = 0 THEN 0 ELSE f[i - 1] + c[i]
    <3>1. CASE i = 0
      BY <3>1 DEF Sums
    <3>2. CASE i # 0
      <4>1. i \in 1..n /\ i - 1 \in 0..n
        BY <3>2
      <4>2. QED
        BY <3>2, <4>1 DEF Sums
    <3>3. QED
      BY <3>1, <3>2
  <2>2. f = [i \in 0..n |-> f[i]]
    OBVIOUS
  <2> HIDE DEF f
  <2>3. Folds(f)
    BY <2>1, <2>2
  <2>4. QED
    BY <2>3
<1> DEFINE sum == CHOOSE f : Folds(f)
<1>2. Folds(sum)
  <2> HIDE DEF Folds
  <2>1. QED
    BY <1>1
<1>3. Total(c) = sum[n]
  BY DEF Total
<1> HIDE DEF sum
<1> DEFINE G == {i \in 0..n : sum[i] = h[i]}
<1>4. Climbs(G, n)
  <2>1. 0 \in G
    BY <1>2 DEF Sums
  <2>2. ASSUME NEW i \in 1..n, i - 1 \in G PROVE i \in G
    <3>1. i \in 0..n /\ i # 0
      OBVIOUS
    <3>2. sum[i] = sum[i - 1] + c[i]
      BY <1>2, <3>1
    <3>3. QED
      BY <2>2, <3>1, <3>2 DEF Sums
  <2>3. QED
    BY <2>1, <2>2 DEF Climbs
<1>5. n \in G
  <2>1. n \in 0..n
    OBVIOUS
  <2> HIDE DEF G
  <2>2. QED
    BY <1>4, <2>1, Climbing
<1>6. QED
  BY <1>3, <1>5

(* A part is no longer, and two parts with nothing in common add up. *)
LEMMA AmongLen ==
    ASSUME NEW E, NEW S
    PROVE  \A s \in Seq(E) : Len(s) \in Nat /\ Len(Among(s, S)) \in Nat /\ Len(Among(s, S)) <= Len(s)
<1> DEFINE G == {s \in Seq(E) : Len(Among(s, S)) <= Len(s)}
<1>1. \A s \in Seq(E) : Among(s, S) \in Seq(E) /\ Len(s) \in Nat /\ Len(Among(s, S)) \in Nat
  BY AmongRange, LenProperties
<1>2. <<>> \in G
  BY AmongNone, EmptySeq
<1>3. ASSUME NEW s \in Seq(E), NEW x \in E, s \in G PROVE Append(s, x) \in G
  <2>1. Append(s, x) \in Seq(E) /\ Len(Append(s, x)) = Len(s) + 1
    BY AppendIs
  <2>2. /\ Among(s, S) \in Seq(E)
        /\ x \in S => Among(Append(s, x), S) = Append(Among(s, S), x)
        /\ x \notin S => Among(Append(s, x), S) = Among(s, S)
    BY AmongTakes
  <2>3. Len(Append(Among(s, S), x)) = Len(Among(s, S)) + 1
    BY <2>2, AppendIs
  <2>4. Len(Among(Append(s, x), S)) <= Len(Append(s, x))
    BY <1>1, <1>3, <2>1, <2>2, <2>3
  <2>5. QED
    BY <2>1, <2>4
<1>4. \A s \in Seq(E) : s \in G
  <2> HIDE DEF G
  <2>1. QED
    BY <1>2, <1>3, SeqInduction
<1>5. QED
  BY <1>1, <1>4

LEMMA AmongAdds ==
    ASSUME NEW E, NEW S, NEW T, S \cap T = {}
    PROVE  \A s \in Seq(E) : Len(Among(s, S \cup T)) = Len(Among(s, S)) + Len(Among(s, T))
<1> DEFINE G == {s \in Seq(E) : Len(Among(s, S \cup T)) = Len(Among(s, S)) + Len(Among(s, T))}
<1>1. <<>> \in G
  BY AmongNone, EmptySeq
<1>2. ASSUME NEW s \in Seq(E), NEW x \in E, s \in G PROVE Append(s, x) \in G
  <2>1. Append(s, x) \in Seq(E)
    BY AppendIs
  <2>2. \A U : /\ Among(s, U) \in Seq(E) /\ Len(Among(s, U)) \in Nat
               /\ Len(Append(Among(s, U), x)) = Len(Among(s, U)) + 1
               /\ x \in U => Among(Append(s, x), U) = Append(Among(s, U), x)
               /\ x \notin U => Among(Append(s, x), U) = Among(s, U)
    <3>1. TAKE U
    <3>2. Among(s, U) \in Seq(E)
      BY AmongRange
    <3>3. Len(Among(s, U)) \in Nat /\ Len(Append(Among(s, U), x)) = Len(Among(s, U)) + 1
      BY <3>2, AppendIs
    <3>4. QED
      BY <3>2, <3>3, AmongTakes
  <2>3. \A U : Len(Among(Append(s, x), U)) = IF x \in U THEN Len(Among(s, U)) + 1 ELSE Len(Among(s, U))
    BY <2>2
  <2>4. Len(Among(s, S \cup T)) = Len(Among(s, S)) + Len(Among(s, T))
    BY <1>2
  <2>5. /\ Len(Among(s, S)) \in Nat /\ Len(Among(s, T)) \in Nat
        /\ x \in S \cup T <=> x \in S \/ x \in T
        /\ ~(x \in S /\ x \in T)
    BY <2>2
  <2>6. Len(Among(Append(s, x), S \cup T)) = Len(Among(Append(s, x), S)) + Len(Among(Append(s, x), T))
    BY <2>3, <2>4, <2>5
  <2>7. QED
    BY <2>1, <2>6
<1>3. \A s \in Seq(E) : s \in G
  <2> HIDE DEF G
  <2>1. QED
    BY <1>1, <1>2, SeqInduction
<1>4. QED
  BY <1>3

(* The lanes that are chosen, each once. *)
LEMMA ByLabelIs ==
    ASSUME NEW E, NEW s \in Seq(E), NEW chosen, chosen \subseteq Range(s)
    PROVE  /\ ByLabel(s, chosen) \in Seq(E) /\ Range(ByLabel(s, chosen)) = chosen
           /\ \A i, j \in DOMAIN ByLabel(s, chosen) :
                 ByLabel(s, chosen)[i] = ByLabel(s, chosen)[j] => i = j
<1> DEFINE n == Len(s)
           Step(x, i) == IF s[i] \in chosen \ Range(x) THEN Append(x, s[i]) ELSE x
           Folds(f) == f = [i \in 0..n |-> IF i = 0 THEN <<>> ELSE Step(f[i - 1], i)]
           Once(x) == \A k, l \in DOMAIN x : x[k] = x[l] => k = l
           Upto(i) == {s[k] : k \in 1..i} \cap chosen
           T == {p \in Seq(E) \X (0..n) : Once(p[1]) /\ Range(p[1]) = Upto(p[2])}
           F == [p \in T |-> Step(p[1], p[2] + 1)]
<1>1. n \in Nat /\ DOMAIN s = 1..n /\ \A i \in 1..n : s[i] \in E
  BY LenProperties, ElementOfSeq
<1>2. ASSUME NEW i \in 1..n, NEW x \in Seq(E), Once(x), Range(x) = Upto(i - 1)
      PROVE  Step(x, i) \in Seq(E) /\ Once(Step(x, i)) /\ Range(Step(x, i)) = Upto(i)
  <2>1. Upto(i) = Upto(i - 1) \cup ({s[i]} \cap chosen)
    BY <1>1
  <2>2. CASE s[i] \in chosen \ Range(x)
    <3> DEFINE y == Append(x, s[i])
    <3>1. y \in Seq(E) /\ Range(y) = Range(x) \cup {s[i]}
      BY <1>1, AppendIs, RangeGrows
    <3>2. /\ DOMAIN x = 1..Len(x) /\ Len(x) \in Nat /\ DOMAIN y = 1..Len(x) + 1
          /\ y[Len(x) + 1] = s[i] /\ \A k \in 1..Len(x) : y[k] = x[k]
      BY <1>1, AppendIs
    <3>3. \A k \in 1..Len(x) : x[k] # s[i]
      BY <2>2, <3>2 DEF Range
    <3>4. Once(y)
      <4> HIDE DEF y
      <4>1. \A k \in DOMAIN y : k \in 1..Len(x) \/ k = Len(x) + 1
        BY <3>2
      <4>2. QED
        BY <1>2, <3>2, <3>3, <4>1
    <3> HIDE DEF y, Once, Upto
    <3>5. Step(x, i) = y
      BY <2>2 DEF y
    <3>6. QED
      BY <1>2, <2>1, <2>2, <3>1, <3>4, <3>5
  <2>3. CASE s[i] \notin chosen \ Range(x)
    <3>1. Step(x, i) = x
      BY <2>3
    <3> HIDE DEF Step, Once, Upto
    <3>2. QED
      BY <1>2, <2>1, <2>3, <3>1
  <2>4. QED
    BY <2>2, <2>3
<1>3. <<>> \in Seq(E) /\ Once(<<>>) /\ Range(<<>>) = Upto(0)
  BY EmptySeq DEF Range
<1> HIDE DEF Step, Once, Upto
<1>4. <<<<>>, 0>> \in T
  <2> DEFINE p == <<<<>>, 0>>
  <2>1. 0 \in 0..n
    BY <1>1
  <2>2. p \in Seq(E) \X (0..n) /\ p[1] = <<>> /\ p[2] = 0
    <3> HIDE DEF n
    <3>1. QED
      BY <1>3, <2>1
  <2> HIDE DEF p
  <2>3. p \in T
    BY <1>3, <2>2
  <2>4. QED
    BY <2>3 DEF p
<1>5. ASSUME NEW x, NEW i \in 1..n, <<x, i - 1>> \in T
      PROVE  F[<<x, i - 1>>] = Step(x, i) /\ <<F[<<x, i - 1>>], i>> \in T
  <2>1. x \in Seq(E) /\ i \in 0..n /\ (i - 1) + 1 = i /\ Once(x) /\ Range(x) = Upto(i - 1)
    BY <1>1, <1>5
  <2>2. F[<<x, i - 1>>] = Step(x, (i - 1) + 1)
    BY <1>5
  <2>3. Step(x, i) \in Seq(E) /\ Once(Step(x, i)) /\ Range(Step(x, i)) = Upto(i)
    BY <1>2, <2>1
  <2> HIDE DEF F
  <2>4. QED
    BY <2>1, <2>2, <2>3
<1>6. \E f : Folds(f) /\ f[n] \in Seq(E) /\ Once(f[n]) /\ Range(f[n]) = Upto(n)
  <2>1. PICK f : FoldsIn(f, n, <<>>, F, T)
    <3>1. \A x : \A i \in 1..n : <<x, i - 1>> \in T => <<F[<<x, i - 1>>], i>> \in T
      <4> HIDE DEF F, T, n
      <4>1. QED
        BY <1>5
    <3> HIDE DEF F, T, n
    <3>2. QED
      BY <1>1, <1>4, <3>1, FoldExists
  <2>2. \A i \in 1..n : f[i] = Step(f[i - 1], i)
    <3>1. TAKE i \in 1..n
    <3>2. i - 1 \in 0..n
      BY <1>1
    <3> HIDE DEF F, T
    <3>3. f[i] = F[<<f[i - 1], i - 1>>] /\ <<f[i - 1], i - 1>> \in T
      BY <2>1, <3>2 DEF FoldsIn
    <3>4. QED
      BY <1>5, <3>3
  <2>3. f = [i \in 0..n |-> f[i]] /\ f[0] = <<>>
    <3> HIDE DEF F, T, n
    <3>1. QED
      BY <2>1 DEF FoldsIn
  <2>4. \A i \in 0..n : f[i] = IF i = 0 THEN <<>> ELSE Step(f[i - 1], i)
    <3>1. \A i \in 0..n : i # 0 => i \in 1..n
      BY <1>1
    <3>2. QED
      BY <2>2, <2>3, <3>1
  <2>5. Folds(f)
    BY <2>3, <2>4
  <2>6. <<f[n], n>> \in T
    <3>1. n \in 0..n
      BY <1>1
    <3> HIDE DEF F, T, n
    <3>2. QED
      BY <2>1, <3>1 DEF FoldsIn
  <2> HIDE DEF Folds
  <2>7. QED
    BY <2>5, <2>6
<1> DEFINE g == CHOOSE f : Folds(f)
           G == {i \in 0..n : \A f : Folds(f) => f[i] = g[i]}
<1>7. Folds(g)
  <2> HIDE DEF Folds
  <2>1. QED
    BY <1>6
<1>8. ByLabel(s, chosen) = g[n]
  BY DEF ByLabel, Step
<1> HIDE DEF g
<1>9. \A f : Folds(f) => f[0] = <<>> /\ \A i \in 1..n : f[i] = Step(f[i - 1], i)
  <2>1. TAKE f
  <2>2. HAVE Folds(f)
  <2>3. \A i \in 0..n : f[i] = IF i = 0 THEN <<>> ELSE Step(f[i - 1], i)
    BY <2>2
  <2>4. QED
    BY <1>1, <2>3
<1> HIDE DEF Folds
<1>10. Climbs(G, n)
  <2>1. 0 \in G
    BY <1>1, <1>7, <1>9
  <2>2. ASSUME NEW i \in 1..n, i - 1 \in G PROVE i \in G
    BY <1>1, <1>7, <1>9, <2>2
  <2>3. QED
    BY <2>1, <2>2 DEF Climbs
<1>11. n \in G
  <2>1. n \in 0..n
    BY <1>1
  <2> HIDE DEF G
  <2>2. QED
    BY <1>1, <1>10, <2>1, Climbing
<1>12. g[n] \in Seq(E) /\ Once(g[n]) /\ Range(g[n]) = Upto(n)
  BY <1>6, <1>11
<1>13. Upto(n) = chosen
  BY <1>1 DEF Upto, Range
<1>14. QED
  BY <1>8, <1>12, <1>13 DEF Once

(* A flattened sequence has the elements of its parts. *)
LEMMA FlatRange ==
    ASSUME NEW E
    PROVE  \A ss \in Seq(Seq(E)) :
             FlattenSeq(ss) \in Seq(E)
             /\ \A e \in Range(FlattenSeq(ss)) : \E k \in DOMAIN ss : e \in Range(ss[k])
<1> DEFINE Out(ss) == \A e \in Range(FlattenSeq(ss)) : \E k \in DOMAIN ss : e \in Range(ss[k])
           G == {ss \in Seq(Seq(E)) : FlattenSeq(ss) \in Seq(E) /\ Out(ss)}
<1>1. <<>> \in G
  <2>1. <<>> \in Seq(Seq(E)) /\ <<>> \in Seq(E) /\ Range(<<>>) = {}
    BY EmptySeq DEF Range
  <2>2. FlattenSeq(<<>>) = <<>>
    BY DEF FlattenSeq
  <2>3. QED
    BY <2>1, <2>2
<1>2. ASSUME NEW ss \in Seq(Seq(E)), NEW s \in Seq(E), ss \in G PROVE Append(ss, s) \in G
  <2> DEFINE tt == Append(ss, s)
  <2>1. /\ tt \in Seq(Seq(E)) /\ Len(ss) \in Nat /\ DOMAIN ss = 1..Len(ss)
        /\ DOMAIN tt = 1..Len(ss) + 1
        /\ tt[Len(ss) + 1] = s /\ \A k \in 1..Len(ss) : tt[k] = ss[k]
    BY AppendIs
  <2>2. FlattenSeq(ss) \in Seq(E) /\ FlattenSeq(tt) = FlattenSeq(ss) \o s
    BY FlattenGrows
  <2> HIDE DEF tt
  <2>3. FlattenSeq(tt) \in Seq(E) /\ Range(FlattenSeq(tt)) = Range(FlattenSeq(ss)) \cup Range(s)
    BY <2>2, ConcatProperties, RangeConcatenation
  <2>4. Out(tt)
    <3>1. \A e \in Range(FlattenSeq(ss)) : \E k \in 1..Len(ss) : e \in Range(tt[k])
      BY <1>2, <2>1
    <3>2. 1..Len(ss) \subseteq DOMAIN tt /\ Len(ss) + 1 \in DOMAIN tt
      BY <2>1
    <3>3. QED
      BY <2>1, <2>3, <3>1, <3>2
  <2>5. QED
    BY <2>1, <2>3, <2>4 DEF tt
<1>3. \A ss \in Seq(Seq(E)) : ss \in G
  <2> HIDE DEF G
  <2>1. QED
    BY <1>1, <1>2, SeqInduction
<1>4. QED
  BY <1>3

(* The scope has events of the type, each in the lane of some record. *)
LEMMA ScopeIs ==
    ASSUME NEW rs \in Seq(Record), NEW lanesOf \in Seq(LaneId), Len(lanesOf) = Len(rs), NEW f
    PROVE  /\ Scope(rs, lanesOf, f) \in Seq(LaneEvent)
           /\ \A e \in Range(Scope(rs, lanesOf, f)) : e.lane \in Range(lanesOf)
<1> DEFINE E == LaneEvent
           Part(i) == IF Passes(rs[i], f) THEN TurnEvents(rs[i], lanesOf[i]) ELSE <<>>
           ss == [i \in DOMAIN rs |-> Part(i)]
<1>1. \A i \in DOMAIN rs : /\ rs[i].turn \in Nat /\ rs[i].tools \in Calls \cup {<<>>}
                           /\ lanesOf[i] \in LaneId /\ lanesOf[i] \in Range(lanesOf)
  <2>1. TAKE i \in DOMAIN rs
  <2>2. rs[i] \in Record /\ i \in DOMAIN lanesOf
    BY RecordIs, LenProperties
  <2>3. lanesOf[i] \in LaneId /\ lanesOf[i] \in Range(lanesOf)
    BY <2>2, SeqGrows DEF Range
  <2>4. QED
    BY <2>2, <2>3 DEF Record
<1>2. \A i \in DOMAIN rs : /\ TurnEvents(rs[i], lanesOf[i]) \in Seq(E)
                           /\ \A e \in Range(TurnEvents(rs[i], lanesOf[i])) : e.lane = lanesOf[i]
  BY <1>1, TurnEventsAre, EventsSay
<1>3. ss \in Seq(Seq(E)) /\ DOMAIN ss = DOMAIN rs /\ \A i \in DOMAIN rs : ss[i] = Part(i)
  <2>1. DOMAIN ss = DOMAIN rs /\ ss = [i \in DOMAIN ss |-> ss[i]] /\ \A i \in DOMAIN rs : ss[i] = Part(i)
    OBVIOUS
  <2>2. \A i \in DOMAIN rs : ss[i] \in Seq(E)
    BY <1>2, <2>1, EmptySeq
  <2> DEFINE parts == Seq(E)
  <2>3. \A i \in DOMAIN rs : ss[i] \in parts
    BY <2>2
  <2> HIDE DEF ss, E, Part, parts
  <2>5. ss \in Seq(parts) /\ Len(ss) = Len(rs)
    BY <2>1, <2>3, MappedIs
  <2>4. QED
    BY <2>1, <2>5 DEF parts
<1>4. Scope(rs, lanesOf, f) = FlattenSeq(ss)
  BY DEF Scope
<1> HIDE DEF ss
<1>5. \A i \in DOMAIN rs : \A e \in Range(ss[i]) : e.lane \in Range(lanesOf)
  <2>1. Range(<<>>) = {}
    BY EmptySeq DEF Range
  <2>2. QED
    BY <1>1, <1>2, <1>3, <2>1
<1> HIDE DEF E
<1>6. FlattenSeq(ss) \in Seq(E) /\ \A e \in Range(FlattenSeq(ss)) : \E k \in DOMAIN ss : e \in Range(ss[k])
  BY <1>3, FlatRange
<1>7. QED
  BY <1>3, <1>4, <1>5, <1>6 DEF E

-----------------------------------------------------------------------------
(* What the statistics of a timeline are made of: the events of its scope, *)
(* the turns that are counted, and the lanes of either.                    *)

Calling == {e \in LaneEvent : e.kind = "tool_call"}
InLanes(ids) == {e \in LaneEvent : e.lane \in ids}
WithTool(tool) == {e \in LaneEvent : e.tool = tool}

LEMMA PartsAre ==
    ASSUME NEW s \in Seq(LaneEvent)
    PROVE  /\ Range(s) \subseteq LaneEvent
           /\ \A f : StatsEvents(s, f) = Among(s, Calling)
           /\ \A l : OfLane(s, l) = Among(s, InLanes({l}))
           /\ \A tool : OfTool(s, tool) = Among(s, WithTool(tool))
<1>1. Range(s) \subseteq LaneEvent
  BY SeqGrows DEF Range
<1>2. \A S, T : Range(s) \cap S = Range(s) \cap T => Among(s, S) = Among(s, T)
  BY AmongSame
<1>3. ASSUME NEW f PROVE StatsEvents(s, f) = Among(s, Calling)
  <2> DEFINE S == {e \in Range(s) : e.kind = "tool_call"}
  <2>1. Range(s) \cap S = Range(s) \cap Calling
    BY <1>1 DEF Calling
  <2>2. StatsEvents(s, f) = Among(s, S)
    BY DEF StatsEvents
  <2> HIDE DEF S
  <2>3. QED
    BY <1>2, <2>1, <2>2
<1>4. ASSUME NEW l PROVE OfLane(s, l) = Among(s, InLanes({l}))
  <2> DEFINE S == {e \in Range(s) : e.lane = l}
  <2>1. Range(s) \cap S = Range(s) \cap InLanes({l})
    BY <1>1 DEF InLanes
  <2>2. OfLane(s, l) = Among(s, S)
    BY DEF OfLane
  <2> HIDE DEF S
  <2>3. QED
    BY <1>2, <2>1, <2>2
<1>5. ASSUME NEW tool PROVE OfTool(s, tool) = Among(s, WithTool(tool))
  <2> DEFINE S == {e \in Range(s) : e.tool = tool}
  <2>1. Range(s) \cap S = Range(s) \cap WithTool(tool)
    BY <1>1 DEF WithTool
  <2>2. OfTool(s, tool) = Among(s, S)
    BY DEF OfTool
  <2> HIDE DEF S
  <2>3. QED
    BY <1>2, <2>1, <2>2
<1>6. QED
  BY <1>1, <1>3, <1>4, <1>5

(* The tally of a part: its tools, and how often each was called. *)
Tallies(c, s, S) ==
  /\ DOMAIN c = {e.tool : e \in Range(s) \cap S}
  /\ \A tool \in DOMAIN c : c[tool] = Len(Among(s, S \cap WithTool(tool)))
  /\ \A tool : tool \notin DOMAIN c => Len(Among(s, S \cap WithTool(tool))) = 0

LEMMA TallyIs ==
    ASSUME NEW s \in Seq(LaneEvent), NEW S
    PROVE  Tallies(Tally(Among(s, S)), s, S)
<1> DEFINE x == Among(s, S)
<1>1. x \in Seq(LaneEvent) /\ Range(x) = Range(s) \cap S /\ Range(s) \subseteq LaneEvent
  BY AmongRange, PartsAre
<1>2. \A tool : Among(x, WithTool(tool)) = Among(s, S \cap WithTool(tool))
  BY AmongAmong
<1> HIDE DEF x
<1>3. \A tool : OfTool(x, tool) = Among(s, S \cap WithTool(tool))
  BY <1>1, <1>2, PartsAre
<1>4. /\ DOMAIN Tally(x) = {e.tool : e \in Range(s) \cap S}
      /\ \A tool \in DOMAIN Tally(x) : Tally(x)[tool] = Len(OfTool(x, tool))
  BY <1>1 DEF Tally
<1>5. ASSUME NEW tool, tool \notin DOMAIN Tally(x)
      PROVE  Len(Among(s, S \cap WithTool(tool))) = 0
  <2>1. Range(s) \cap (S \cap WithTool(tool)) = {}
    BY <1>4, <1>5 DEF WithTool
  <2>2. Among(s, S \cap WithTool(tool)) = <<>>
    BY <2>1, AmongNothing
  <2>3. QED
    BY <2>2, EmptySeq
<1>6. Tallies(Tally(x), s, S)
  BY <1>3, <1>4, <1>5 DEF Tallies
<1>7. QED
  BY <1>6 DEF x

Describes(t, f, scope, laneOf, counted, ids) ==
  /\ scope \in Seq(LaneEvent) /\ t.events = Board(scope, f)
  /\ Tallies(t.calls, scope, Calling)
  /\ IsFiniteSet(counted) /\ t.turns = Cardinality(counted)
  /\ ids \in Seq(LaneId) /\ Distinct(ids)
  /\ Range(ids) = {laneOf[j] : j \in counted} \cup {e.lane : e \in Range(scope) \cap Calling}
  /\ DOMAIN t.agents = DOMAIN ids
  /\ \A i \in DOMAIN ids :
       /\ t.agents[i].lane = ids[i]
       /\ t.agents[i].turns = Cardinality({j \in counted : laneOf[j] = ids[i]})
       /\ Tallies(t.agents[i].calls, scope, Calling \cap InLanes({ids[i]}))

LEMMA TimelineIs ==
    ASSUME NEW rs \in Seq(Record), NEW f
    PROVE  \E scope, laneOf, counted, ids : Describes(Timeline(rs, f), f, scope, laneOf, counted, ids)
<1> DEFINE laneOf == LanesOf(rs)
           scope == Scope(rs, laneOf, f)
           calls == StatsEvents(scope, f)
           counted == {i \in DOMAIN rs : Passes(rs[i], f) /\ Counted(rs, rs[i])}
           chosen == AgentIds({laneOf[i] : i \in counted}, {e.lane : e \in Range(calls)})
           ids == ByLabel(laneOf, chosen)
           agent(l) == [lane |-> l,
                        turns |-> Cardinality({i \in counted : laneOf[i] = l}),
                        calls |-> Tally(OfLane(calls, l))]
           shown == [i \in DOMAIN ids |-> agent(ids[i])]
           t == Timeline(rs, f)
<1>1. /\ t.events = Board(scope, f) /\ t.turns = Cardinality(counted)
      /\ t.calls = Tally(calls) /\ t.agents = shown
  BY DEF Timeline
<1>2. laneOf \in Seq(LaneId) /\ Len(laneOf) = Len(rs)
  BY LanesHold
<1> HIDE DEF laneOf
<1>3. scope \in Seq(LaneEvent) /\ \A e \in Range(scope) : e.lane \in Range(laneOf)
  BY <1>2, ScopeIs
<1> HIDE DEF scope
<1>4. calls = Among(scope, Calling) /\ calls \in Seq(LaneEvent) /\ Range(calls) = Range(scope) \cap Calling
  BY <1>3, PartsAre, AmongRange
<1>5. \A l : OfLane(calls, l) = Among(scope, Calling \cap InLanes({l}))
  <2> HIDE DEF calls
  <2>1. \A l : OfLane(calls, l) = Among(calls, InLanes({l}))
    BY <1>4, PartsAre
  <2>2. ASSUME NEW l
        PROVE  Among(Among(scope, Calling), InLanes({l})) = Among(scope, Calling \cap InLanes({l}))
    <3> DEFINE S == InLanes({l})
    <3> HIDE DEF S
    <3>1. Among(Among(scope, Calling), S) = Among(scope, Calling \cap S)
      BY <1>3, AmongAmong
    <3>2. QED
      BY <3>1 DEF S
  <2>3. QED
    BY <1>4, <2>1, <2>2
<1>6. IsFiniteSet(counted) /\ counted \subseteq DOMAIN laneOf
  <2>1. DOMAIN rs = 1..Len(rs) /\ Len(rs) \in Nat /\ DOMAIN laneOf = 1..Len(laneOf)
    BY <1>2, LenProperties
  <2>2. IsFiniteSet(1..Len(rs))
    BY <2>1, FS_Interval
  <2>3. counted \subseteq 1..Len(rs)
    BY <2>1
  <2> HIDE DEF counted
  <2>4. QED
    BY <1>2, <2>1, <2>2, <2>3, FS_Subset
<1> HIDE DEF calls, counted
<1>7. chosen = {laneOf[j] : j \in counted} \cup {e.lane : e \in Range(scope) \cap Calling}
  BY <1>4 DEF AgentIds
<1>8. chosen \subseteq Range(laneOf)
  <2>1. {laneOf[j] : j \in counted} \subseteq Range(laneOf)
    BY <1>6 DEF Range
  <2>2. {e.lane : e \in Range(scope) \cap Calling} \subseteq Range(laneOf)
    BY <1>3
  <2> HIDE DEF chosen
  <2>3. QED
    BY <1>7, <2>1, <2>2
<1> HIDE DEF chosen
<1>9. ids \in Seq(LaneId) /\ Distinct(ids) /\ Range(ids) = chosen
  BY <1>2, <1>8, ByLabelIs DEF Distinct
<1>10. Tallies(t.calls, scope, Calling)
  BY <1>1, <1>3, <1>4, TallyIs
<1>11. ASSUME NEW i \in DOMAIN ids
       PROVE  /\ t.agents[i].lane = ids[i]
              /\ t.agents[i].turns = Cardinality({j \in counted : laneOf[j] = ids[i]})
              /\ Tallies(t.agents[i].calls, scope, Calling \cap InLanes({ids[i]}))
  <2>1. t.agents[i] = agent(ids[i])
    BY <1>1
  <2>2. Tallies(Tally(Among(scope, Calling \cap InLanes({ids[i]}))), scope, Calling \cap InLanes({ids[i]}))
    BY <1>3, TallyIs
  <2> HIDE DEF ids, t
  <2>3. QED
    BY <1>5, <2>1, <2>2
<1>12. DOMAIN t.agents = DOMAIN ids
  BY <1>1
<1> HIDE DEF ids, t
<1>13. Describes(t, f, scope, laneOf, counted, ids)
  BY <1>1, <1>3, <1>6, <1>7, <1>9, <1>10, <1>11, <1>12 DEF Describes
<1>14. QED
  BY <1>13 DEF t

(* Each tool call on the board is counted, and what is counted for an agent *)
(* are the calls of its lane in the scope, on the board or not.             *)
LEMMA CallsAreCounted ==
    ASSUME NEW t, NEW f, NEW scope, NEW laneOf, NEW counted, NEW ids,
           Describes(t, f, scope, laneOf, counted, ids)
    PROVE  CallsCounted(t, f)
<1> DEFINE W == {e \in Range(scope) : Wanted(e, f)}
           Called0(l, tool) == {e \in Range(t.events) : e.kind = "tool_call" /\ e.lane = l /\ e.tool = tool}
           X(l, tool) == Calling \cap InLanes({l}) \cap WithTool(tool)
<1>1. /\ scope \in Seq(LaneEvent) /\ ids \in Seq(LaneId) /\ DOMAIN t.agents = DOMAIN ids
      /\ Range(ids) = {laneOf[j] : j \in counted} \cup {e.lane : e \in Range(scope) \cap Calling}
      /\ Range(scope) \subseteq LaneEvent
  BY PartsAre DEF Describes
<1>2. t.events = Among(scope, W)
  BY DEF Describes, Board
<1>3. t.events \in Seq(LaneEvent) /\ Range(t.events) = Range(scope) \cap W
  BY <1>1, <1>2, AmongRange
<1>4. \A i \in DOMAIN ids :
        /\ t.agents[i].lane = ids[i] /\ t.agents[i] \in Range(t.agents)
        /\ DOMAIN t.agents[i].calls = {e.tool : e \in Range(scope) \cap (Calling \cap InLanes({ids[i]}))}
        /\ \A tool \in DOMAIN t.agents[i].calls :
              t.agents[i].calls[tool] = Len(Among(scope, X(ids[i], tool)))
  BY <1>1 DEF Describes, Tallies, Range
<1>5. \A a \in Range(t.agents) : \E i \in DOMAIN ids : a = t.agents[i]
  BY <1>1 DEF Range
<1>6. ASSUME NEW e \in Range(t.events), e.kind = "tool_call"
      PROVE  \E a \in Range(t.agents) : a.lane = e.lane /\ e.tool \in DOMAIN a.calls
  <2>1. e \in Range(scope) \cap Calling
    BY <1>1, <1>3, <1>6 DEF Calling
  <2>2. e.lane \in Range(ids)
    BY <1>1, <2>1
  <2>3. PICK i \in DOMAIN ids : ids[i] = e.lane
    BY <2>2 DEF Range
  <2>4. e \in InLanes({ids[i]})
    BY <1>1, <2>1, <2>3 DEF InLanes
  <2>5. e.tool \in DOMAIN t.agents[i].calls
    BY <1>4, <2>1, <2>4
  <2>6. QED
    BY <1>4, <2>3, <2>5
<1>7. ASSUME NEW l, NEW tool
      PROVE  /\ Len(Among(t.events, Called0(l, tool))) <= Len(Among(scope, X(l, tool)))
             /\ f.agent = AnyLane /\ f.tool = AnyTool =>
                  Len(Among(t.events, Called0(l, tool))) = Len(Among(scope, X(l, tool)))
  <2> DEFINE x == X(l, tool)
             c == Called0(l, tool)
  <2>1. Range(t.events) \cap c = Range(t.events) \cap x
    BY <1>1, <1>3 DEF Calling, InLanes, WithTool
  <2>2. f.agent = AnyLane /\ f.tool = AnyTool => Range(scope) \cap x \subseteq W
    BY <1>1 DEF Calling, Wanted
  <2> HIDE DEF x, c, W
  <2>3. Among(t.events, c) = Among(t.events, x)
    BY <1>3, <2>1, AmongSame
  <2>4. Among(t.events, x) = Among(scope, W \cap x)
    BY <1>1, <1>2, AmongAmong
  <2>5. Among(Among(scope, x), W) = Among(scope, x \cap W)
    BY <1>1, AmongAmong
  <2>6. W \cap x = x \cap W
    OBVIOUS
  <2>7. Among(scope, x) \in Seq(LaneEvent)
    BY <1>1, AmongRange
  <2>8. Len(Among(Among(scope, x), W)) <= Len(Among(scope, x))
    BY <2>7, AmongLen
  <2>9. ASSUME f.agent = AnyLane, f.tool = AnyTool PROVE Among(scope, W \cap x) = Among(scope, x)
    <3>1. Range(scope) \cap (W \cap x) = Range(scope) \cap x
      BY <2>2, <2>9
    <3>2. QED
      BY <1>1, <3>1, AmongSame
  <2>10. QED
    BY <2>3, <2>4, <2>5, <2>6, <2>8, <2>9 DEF x, c
<1> HIDE DEF X, W
<1>8. ASSUME NEW a \in Range(t.agents), NEW tool \in DOMAIN a.calls
      PROVE  /\ Len(Among(t.events, Called0(a.lane, tool))) <= a.calls[tool]
             /\ f.agent = AnyLane /\ f.tool = AnyTool =>
                  Len(Among(t.events, Called0(a.lane, tool))) = a.calls[tool]
  <2>1. PICK i \in DOMAIN ids : a = t.agents[i]
    BY <1>5
  <2>2. a.lane = ids[i] /\ a.calls[tool] = Len(Among(scope, X(a.lane, tool)))
    BY <1>4, <2>1
  <2> HIDE DEF Called0
  <2>3. QED
    BY <1>7, <2>2
<1>9. QED
  BY <1>6, <1>8 DEF CallsCounted

(* The lanes of the first agents. *)
FirstOf(ids, i) == {ids[k] : k \in 1..i}

LEMMA FirstsAre ==
    ASSUME NEW ids \in Seq(LaneId), Distinct(ids)
    PROVE  /\ Len(ids) \in Nat /\ DOMAIN ids = 1..Len(ids)
           /\ FirstOf(ids, 0) = {} /\ FirstOf(ids, Len(ids)) = Range(ids)
           /\ \A i \in 1..Len(ids) : /\ i - 1 \in 0..Len(ids) /\ ids[i] \notin FirstOf(ids, i - 1)
                                     /\ FirstOf(ids, i) = FirstOf(ids, i - 1) \cup {ids[i]}
<1>1. Len(ids) \in Nat /\ DOMAIN ids = 1..Len(ids)
  BY LenProperties
<1>2. ASSUME NEW i \in 1..Len(ids)
      PROVE  /\ i - 1 \in 0..Len(ids) /\ ids[i] \notin FirstOf(ids, i - 1)
             /\ FirstOf(ids, i) = FirstOf(ids, i - 1) \cup {ids[i]}
  <2>1. \A k \in 1..i - 1 : k \in DOMAIN ids /\ ids[k] # ids[i]
    BY <1>1 DEF Distinct
  <2>2. 1..i = (1..i - 1) \cup {i}
    OBVIOUS
  <2>3. QED
    BY <1>1, <2>1, <2>2 DEF FirstOf
<1>3. FirstOf(ids, 0) = {} /\ FirstOf(ids, Len(ids)) = Range(ids)
  BY <1>1 DEF FirstOf, Range
<1>4. QED
  BY <1>1, <1>2, <1>3

(* The calls of a tool are those of the agents, one after the other. *)
LEMMA ToolsAddUp ==
    ASSUME NEW scope \in Seq(LaneEvent), NEW ids \in Seq(LaneId), Distinct(ids),
           \A e \in Range(scope) \cap Calling : e.lane \in Range(ids),
           NEW tool, NEW c, Len(c) = Len(ids),
           \A i \in DOMAIN ids : c[i] = Len(Among(scope, (Calling \cap InLanes({ids[i]})) \cap WithTool(tool)))
    PROVE  Total(c) = Len(Among(scope, Calling \cap WithTool(tool)))
<1> DEFINE n == Len(ids)
           X(S) == (Calling \cap InLanes(S)) \cap WithTool(tool)
           h == [i \in 0..n |-> Len(Among(scope, X(FirstOf(ids, i))))]
<1>1. /\ n \in Nat /\ DOMAIN ids = 1..n
      /\ FirstOf(ids, 0) = {} /\ FirstOf(ids, n) = Range(ids)
      /\ \A i \in 1..n : /\ i - 1 \in 0..n /\ ids[i] \notin FirstOf(ids, i - 1)
                         /\ FirstOf(ids, i) = FirstOf(ids, i - 1) \cup {ids[i]}
  BY FirstsAre
<1>2. Range(scope) \subseteq LaneEvent
  BY PartsAre
<1>3. h[0] = 0
  <2>1. X(FirstOf(ids, 0)) = {}
    BY <1>1 DEF InLanes
  <2>2. 0 \in 0..n /\ h[0] = Len(Among(scope, X(FirstOf(ids, 0))))
    BY <1>1
  <2> HIDE DEF X, h
  <2>3. Among(scope, {}) = <<>> /\ Len(<<>>) = 0
    BY AmongNothing, EmptySeq
  <2>4. QED
    BY <2>1, <2>2, <2>3
<1>4. ASSUME NEW i \in 1..n PROVE h[i] = h[i - 1] + c[i]
  <2> DEFINE S == X(FirstOf(ids, i - 1))
             T == X({ids[i]})
  <2>1. X(FirstOf(ids, i)) = S \cup T /\ S \cap T = {}
    BY <1>1 DEF InLanes
  <2>2. /\ i \in 0..n /\ i - 1 \in 0..n
        /\ h[i] = Len(Among(scope, X(FirstOf(ids, i)))) /\ h[i - 1] = Len(Among(scope, S))
    BY <1>1
  <2>3. c[i] = Len(Among(scope, T))
    BY <1>1
  <2> HIDE DEF X, S, T, h
  <2>4. Len(Among(scope, S \cup T)) = Len(Among(scope, S)) + Len(Among(scope, T))
    BY <2>1, AmongAdds
  <2>5. QED
    BY <2>1, <2>2, <2>3, <2>4
<1>5. h[n] = Len(Among(scope, Calling \cap WithTool(tool)))
  <2> DEFINE S == X(Range(ids))
             T == Calling \cap WithTool(tool)
  <2>1. Range(scope) \cap S = Range(scope) \cap T
    BY <1>2 DEF InLanes
  <2>2. n \in 0..n /\ h[n] = Len(Among(scope, S))
    BY <1>1
  <2> HIDE DEF X, S, T, h
  <2>3. Among(scope, S) = Among(scope, T)
    BY <2>1, AmongSame
  <2>4. QED
    BY <2>2, <2>3 DEF T
<1> HIDE DEF h
<1>6. Sums(h, c)
  BY <1>3, <1>4 DEF Sums
<1>7. QED
  BY <1>1, <1>5, <1>6, TotalIs

(* The turns that are counted are those of the agents. *)
LEMMA TurnsAddUp ==
    ASSUME NEW counted, IsFiniteSet(counted), NEW laneOf, NEW ids \in Seq(LaneId), Distinct(ids),
           \A j \in counted : laneOf[j] \in Range(ids),
           NEW c, Len(c) = Len(ids),
           \A i \in DOMAIN ids : c[i] = Cardinality({j \in counted : laneOf[j] = ids[i]})
    PROVE  Total(c) = Cardinality(counted)
<1> DEFINE n == Len(ids)
           X(S) == {j \in counted : laneOf[j] \in S}
           h == [i \in 0..n |-> Cardinality(X(FirstOf(ids, i)))]
<1>1. /\ n \in Nat /\ DOMAIN ids = 1..n
      /\ FirstOf(ids, 0) = {} /\ FirstOf(ids, n) = Range(ids)
      /\ \A i \in 1..n : /\ i - 1 \in 0..n /\ ids[i] \notin FirstOf(ids, i - 1)
                         /\ FirstOf(ids, i) = FirstOf(ids, i - 1) \cup {ids[i]}
  BY FirstsAre
<1>2. \A S : IsFiniteSet(X(S))
  BY FS_Subset
<1>3. h[0] = 0
  <2>1. X(FirstOf(ids, 0)) = {}
    BY <1>1
  <2>2. 0 \in 0..n /\ h[0] = Cardinality(X(FirstOf(ids, 0)))
    BY <1>1
  <2> HIDE DEF X, h
  <2>3. Cardinality({}) = 0
    BY FS_EmptySet
  <2>4. QED
    BY <2>1, <2>2, <2>3
<1>4. ASSUME NEW i \in 1..n PROVE h[i] = h[i - 1] + c[i]
  <2> DEFINE S == X(FirstOf(ids, i - 1))
             T == X({ids[i]})
  <2>1. X(FirstOf(ids, i)) = S \cup T /\ S \cap T = {} /\ T = {j \in counted : laneOf[j] = ids[i]}
    BY <1>1
  <2>2. /\ i \in 0..n /\ i - 1 \in 0..n
        /\ h[i] = Cardinality(X(FirstOf(ids, i))) /\ h[i - 1] = Cardinality(S)
    BY <1>1
  <2>3. c[i] = Cardinality(T)
    BY <1>1, <2>1
  <2> HIDE DEF h
  <2>4. IsFiniteSet(S) /\ IsFiniteSet(T)
    BY <1>2
  <2>5. h[i] = Cardinality(S \cup T)
    BY <2>1, <2>2
  <2> HIDE DEF X, S, T
  <2>6. Cardinality(S \cup T) = Cardinality(S) + Cardinality(T) - Cardinality(S \cap T)
    BY <2>4, FS_Union
  <2>7. Cardinality(S) \in Nat /\ Cardinality(T) \in Nat /\ Cardinality(S \cap T) = 0
    <3>1. Cardinality({}) = 0
      BY FS_EmptySet
    <3>2. QED
      BY <2>1, <2>4, <3>1, FS_CardinalityType
  <2>8. Cardinality(S \cup T) = Cardinality(S) + Cardinality(T)
    BY <2>6, <2>7
  <2>9. QED
    BY <2>2, <2>3, <2>5, <2>8
<1>5. h[n] = Cardinality(counted)
  <2>1. X(Range(ids)) = counted
    OBVIOUS
  <2> HIDE DEF X
  <2>2. QED
    BY <1>1, <2>1
<1> HIDE DEF h
<1>6. Sums(h, c)
  BY <1>3, <1>4 DEF Sums
<1>7. QED
  BY <1>1, <1>5, <1>6, TotalIs

LEMMA StatsDoAddUp ==
    ASSUME NEW t, NEW f, NEW scope, NEW laneOf, NEW counted, NEW ids,
           Describes(t, f, scope, laneOf, counted, ids)
    PROVE  StatsAddUp(t)
<1> DEFINE CallsOf(a, tool) == IF tool \in DOMAIN a.calls THEN a.calls[tool] ELSE 0
<1>1. /\ scope \in Seq(LaneEvent) /\ ids \in Seq(LaneId) /\ Distinct(ids) /\ DOMAIN t.agents = DOMAIN ids
      /\ Range(ids) = {laneOf[j] : j \in counted} \cup {e.lane : e \in Range(scope) \cap Calling}
      /\ IsFiniteSet(counted) /\ t.turns = Cardinality(counted)
      /\ Tallies(t.calls, scope, Calling)
  BY DEF Describes
<1>2. \A i \in DOMAIN ids :
        /\ t.agents[i].lane = ids[i]
        /\ t.agents[i].turns = Cardinality({j \in counted : laneOf[j] = ids[i]})
        /\ Tallies(t.agents[i].calls, scope, Calling \cap InLanes({ids[i]}))
  BY DEF Describes
<1>3. \A i, j \in DOMAIN t.agents : t.agents[i].lane = t.agents[j].lane => i = j
  BY <1>1, <1>2 DEF Distinct
<1>4. ASSUME NEW tool \in DOMAIN t.calls
      PROVE  t.calls[tool] = Total([i \in DOMAIN t.agents |-> CallsOf(t.agents[i], tool)])
  <2> DEFINE c == [i \in DOMAIN t.agents |-> CallsOf(t.agents[i], tool)]
  <2>1. DOMAIN c = DOMAIN ids /\ c = [i \in DOMAIN c |-> c[i]]
    BY <1>1
  <2>2. \A i \in DOMAIN ids : c[i] = Len(Among(scope, (Calling \cap InLanes({ids[i]})) \cap WithTool(tool)))
    BY <1>1, <1>2 DEF Tallies
  <2>3. t.calls[tool] = Len(Among(scope, Calling \cap WithTool(tool)))
    BY <1>1 DEF Tallies
  <2>4. \A e \in Range(scope) \cap Calling : e.lane \in Range(ids)
    BY <1>1
  <2> HIDE DEF c, CallsOf
  <2> DEFINE All == {c[i] : i \in DOMAIN ids}
  <2>5. \A i \in DOMAIN ids : c[i] \in All
    OBVIOUS
  <2> HIDE DEF All
  <2>6. Len(c) = Len(ids)
    BY <1>1, <2>1, <2>5, MappedIs
  <2>7. Total(c) = t.calls[tool]
    BY <1>1, <2>2, <2>3, <2>4, <2>6, ToolsAddUp
  <2>8. QED
    BY <2>7 DEF c
<1>5. t.turns = Total([i \in DOMAIN t.agents |-> t.agents[i].turns])
  <2> DEFINE c == [i \in DOMAIN t.agents |-> t.agents[i].turns]
  <2>1. DOMAIN c = DOMAIN ids /\ c = [i \in DOMAIN c |-> c[i]]
    BY <1>1
  <2>2. \A i \in DOMAIN ids : c[i] = Cardinality({j \in counted : laneOf[j] = ids[i]})
    BY <1>1, <1>2
  <2>3. \A j \in counted : laneOf[j] \in Range(ids)
    BY <1>1
  <2> HIDE DEF c
  <2> DEFINE All == {c[i] : i \in DOMAIN ids}
  <2>4. \A i \in DOMAIN ids : c[i] \in All
    OBVIOUS
  <2> HIDE DEF All
  <2>5. Len(c) = Len(ids)
    BY <1>1, <2>1, <2>4, MappedIs
  <2>6. Total(c) = t.turns
    BY <1>1, <2>2, <2>3, <2>5, TurnsAddUp
  <2>7. QED
    BY <2>6 DEF c
<1>6. QED
  BY <1>3, <1>4, <1>5 DEF StatsAddUp

(* The statistics depend on the keywords only. *)
LEMMA SameKeywords ==
    ASSUME NEW rs, NEW d, NEW f, d.q = f.q, d.qNot = f.qNot
    PROVE  Timeline(rs, d).calls = Timeline(rs, f).calls /\ Timeline(rs, d).agents = Timeline(rs, f).agents
<1>1. \A r : Passes(r, d) <=> Passes(r, f)
  BY DEF Passes
<1>2. \A l : Scope(rs, l, d) = Scope(rs, l, f)
  BY <1>1 DEF Scope
<1>3. \A s : StatsEvents(s, d) = StatsEvents(s, f)
  BY DEF StatsEvents
<1>4. {i \in DOMAIN rs : Passes(rs[i], d) /\ Counted(rs, rs[i])}
        = {i \in DOMAIN rs : Passes(rs[i], f) /\ Counted(rs, rs[i])}
  BY <1>1
<1>5. QED
  BY <1>2, <1>3, <1>4 DEF Timeline

-----------------------------------------------------------------------------
(* What is kept of one state of the log was made of the same records. *)

OfOneLog(d, e) ==
  \E rs \in Seq(Record) : d.timeline = Timeline(rs, d.filters) /\ e.timeline = Timeline(rs, e.filters)

AnswerMade == answer.timeline # NoTimeline => \E rs \in Seq(Record) : answer.timeline = Timeline(rs, answer.filters)

EntriesAgree == \A d, e \in filtered : d.signature = e.signature => OfOneLog(d, e)

(* The bundle is the last one: no entry is newer, and those as new are made of it. *)
EntriesOfBundle ==
  \A e \in filtered :
    /\ bundle # NoBundle /\ e.signature <= bundle.signature
    /\ e.signature = bundle.signature => e.timeline = Timeline(bundle.records, e.filters)

(* While the files are read there is no bundle of their state. *)
BuildNewer == build.step # "none" /\ bundle # NoBundle => bundle.signature # version

MadeInv == AnswerMade /\ EntriesAgree /\ EntriesOfBundle /\ BuildNewer

StatsInv == WholeInv /\ MadeInv

LEMMA MadeInit == ServerInit => MadeInv
<1> QED
  BY DEF ServerInit, MadeInv, AnswerMade, EntriesAgree, EntriesOfBundle, BuildNewer

LEMMA AnswerMakes ==
    ASSUME MadeInv, NEW f, NEW b, Answer(f, b), b.records \in Seq(Record),
           \A e \in filtered : e.signature = b.signature => e.timeline = Timeline(b.records, e.filters)
    PROVE  /\ AnswerMade' /\ EntriesAgree'
           /\ \A e \in filtered' :
                e \in filtered \/ (e.signature = b.signature /\ e.timeline = Timeline(b.records, e.filters))
<1> DEFINE cached == Entries(f, b.signature)
           shown == IF cached # {} THEN (CHOOSE e \in cached : TRUE).timeline ELSE Timeline(b.records, f)
           entry == [filters |-> f, signature |-> b.signature, timeline |-> shown]
<1>1. /\ filtered' = IF cached # {} THEN filtered ELSE filtered \cup {entry}
      /\ answer' = [n |-> answer.n + 1, filters |-> f, timeline |-> shown]
  BY DEF Answer
<1>2. shown = Timeline(b.records, f)
  <2>1. CASE cached = {}
    BY <2>1
  <2>2. CASE cached # {}
    <3>1. PICK e \in cached : shown = e.timeline
      BY <2>2
    <3>2. e \in filtered /\ e.filters = f /\ e.signature = b.signature
      BY <3>1 DEF Entries
    <3>3. QED
      BY <3>1, <3>2
  <2>3. QED
    BY <2>1, <2>2
<1> HIDE DEF shown
<1>3. answer'.timeline = Timeline(b.records, answer'.filters)
  BY <1>1, <1>2
<1>4. AnswerMade'
  <2>1. PICK rs \in Seq(Record) : rs = b.records
    OBVIOUS
  <2>2. answer'.timeline = Timeline(rs, answer'.filters)
    BY <1>3, <2>1
  <2>3. QED
    BY <2>2 DEF AnswerMade
<1>5. entry.signature = b.signature /\ entry.timeline = Timeline(b.records, entry.filters)
  BY <1>2
<1> HIDE DEF entry, cached
<1>6. \A e \in filtered' :
        /\ e \in filtered \/ (e.signature = b.signature /\ e.timeline = Timeline(b.records, e.filters))
        /\ e.signature = b.signature => e.timeline = Timeline(b.records, e.filters)
  BY <1>1, <1>5
<1>7. EntriesAgree'
  <2>1. SUFFICES ASSUME NEW d \in filtered', NEW e \in filtered', d.signature = e.signature
                 PROVE  OfOneLog(d, e)
    BY DEF EntriesAgree
  <2>2. CASE d \in filtered /\ e \in filtered
    BY <2>1, <2>2 DEF MadeInv, EntriesAgree
  <2>3. CASE ~(d \in filtered /\ e \in filtered)
    <3>1. d.timeline = Timeline(b.records, d.filters) /\ e.timeline = Timeline(b.records, e.filters)
      BY <1>6, <2>1, <2>3
    <3>2. QED
      BY <3>1 DEF OfOneLog
  <2>4. QED
    BY <2>2, <2>3
<1>8. QED
  BY <1>4, <1>6, <1>7

LEMMA AskMakes == ASSUME StatsInv, NEW f \in Filters, Ask(f) PROVE MadeInv'
<1>1. UNCHANGED <<version, bundle>> /\ LogInv
  BY DEF Ask, logVars, cacheVars, StatsInv, WholeInv
<1>2. CASE Valid(bundle) /\ Answer(f, bundle) /\ UNCHANGED build
  <2>1. bundle # NoBundle /\ bundle.records \in Seq(Record) /\ bundle.signature \in Nat
    BY <1>1, <1>2 DEF Valid, LogInv, StatsInv, WholeInv, BundleInv
  <2>2. \A e \in filtered : /\ e.signature <= bundle.signature
                            /\ e.signature = bundle.signature => e.timeline = Timeline(bundle.records, e.filters)
    BY DEF StatsInv, MadeInv, EntriesOfBundle
  <2>3. /\ AnswerMade' /\ EntriesAgree'
        /\ \A e \in filtered' :
             e \in filtered \/ (e.signature = bundle.signature /\ e.timeline = Timeline(bundle.records, e.filters))
    <3>1. PICK b : b = bundle
      OBVIOUS
    <3>2. MadeInv /\ Answer(f, b) /\ b.records \in Seq(Record)
      BY <1>2, <2>1, <3>1 DEF StatsInv
    <3>3. \A e \in filtered : e.signature = b.signature => e.timeline = Timeline(b.records, e.filters)
      BY <2>2, <3>1
    <3>4. QED
      BY <3>1, <3>2, <3>3, AnswerMakes
  <2>4. EntriesOfBundle'
    BY <1>1, <2>1, <2>2, <2>3 DEF EntriesOfBundle
  <2>5. BuildNewer'
    BY <1>2 DEF Ask, Idle, BuildNewer
  <2>6. QED
    BY <2>3, <2>4, <2>5 DEF MadeInv
<1>3. CASE ~Valid(bundle) /\ UNCHANGED cacheVars
  <2>1. AnswerMade' /\ EntriesAgree' /\ EntriesOfBundle'
    BY <1>3 DEF cacheVars, StatsInv, MadeInv, AnswerMade, EntriesAgree, EntriesOfBundle
  <2>2. BuildNewer'
    BY <1>1, <1>3 DEF Valid, BuildNewer
  <2>3. QED
    BY <2>1, <2>2 DEF MadeInv
<1>4. QED
  BY <1>2, <1>3 DEF Ask

LEMMA FinishMakes == ASSUME StatsInv, Finish PROVE MadeInv'
<1> DEFINE b == [signature |-> version, records |-> build.records]
<1>1. /\ build.step = "responses" /\ UNCHANGED logVars /\ bundle' = b /\ Answer(build.filters, b)
      /\ build' = [build EXCEPT !.step = "none", !.filters = NoFilters, !.records = <<>>]
  BY DEF Finish
<1>2. LogInv /\ version \in Nat /\ BundleInv /\ EntriesInv
  BY DEF StatsInv, WholeInv
<1>3. build.records \in Seq(Record)
  <2>1. RecordOf(Len(turns)) \subseteq Record
    BY DEF RecordOf
  <2>2. QED
    BY <1>2, <2>1, BuildIs, SeqGrows
<1>4. b \in [signature : Nat, records : Seq(Record)] /\ b.signature = version /\ b.records = build.records
  BY <1>2, <1>3
<1>5. b # NoBundle
  BY <1>4, BundleAssumption
<1> HIDE DEF b
<1>6. \A e \in filtered : e.signature <= version /\ e.signature # version
  <2>1. TAKE e \in filtered
  <2>2. e.signature \in Nat /\ bundle.signature \in 0..version
    BY <1>2 DEF StatsInv, MadeInv, EntriesOfBundle, BundleInv, EntriesInv
  <2>3. e.signature <= bundle.signature /\ bundle.signature # version
    BY <1>1 DEF StatsInv, MadeInv, EntriesOfBundle, BuildNewer
  <2>4. QED
    BY <1>2, <2>2, <2>3
<1>7. /\ AnswerMade' /\ EntriesAgree'
      /\ \A e \in filtered' : e \in filtered \/ (e.signature = b.signature /\ e.timeline = Timeline(b.records, e.filters))
  <2>1. MadeInv /\ b.records \in Seq(Record)
    BY <1>3, <1>4 DEF StatsInv
  <2>2. \A e \in filtered : e.signature = b.signature => e.timeline = Timeline(b.records, e.filters)
    BY <1>4, <1>6
  <2>3. QED
    BY <1>1, <2>1, <2>2, AnswerMakes
<1>8. EntriesOfBundle'
  <2>1. version <= version
    BY <1>2
  <2>2. QED
    BY <1>1, <1>4, <1>5, <1>6, <1>7, <2>1 DEF EntriesOfBundle
<1>9. BuildNewer'
  <2>1. build'.step = "none"
    BY <1>1, <1>2, BuildIs
  <2>2. QED
    BY <2>1 DEF BuildNewer
<1>10. QED
  BY <1>7, <1>8, <1>9 DEF MadeInv

(* The directory changes, or a build goes on. *)
LEMMA OthersMake ==
    ASSUME StatsInv, UNCHANGED <<bundle, filtered>>, UNCHANGED answer \/ answer'.timeline = NoTimeline,
           \/ UNCHANGED version
           \/ version' = version + 1,
           build'.step # "none" => build.step # "none"
    PROVE  MadeInv'
<1>1. AnswerMade' /\ EntriesAgree' /\ EntriesOfBundle'
  BY DEF StatsInv, MadeInv, AnswerMade, EntriesAgree, EntriesOfBundle
<1>2. BuildNewer'
  <2>1. bundle # NoBundle => bundle.signature \in 0..version /\ version \in Nat
    BY DEF StatsInv, WholeInv, BundleInv
  <2>2. bundle # NoBundle /\ version' = version + 1 => bundle.signature # version'
    BY <2>1
  <2>3. QED
    BY <2>2 DEF StatsInv, MadeInv, BuildNewer
<1>3. QED
  BY <1>1, <1>2 DEF MadeInv

LEMMA MadeStep == ASSUME StatsInv, [DialogNext]_pageVars PROVE MadeInv'
<1>1. CASE LogStep
  <2>1. /\ UNCHANGED <<bundle, filtered, answer, build>>
        /\ UNCHANGED version \/ version' = version + 1
    BY <1>1 DEF LogStep, BeginTurn, Respond, Discard, RemoveFile, cacheVars
  <2>2. QED
    BY <2>1, OthersMake
<1>2. CASE TimelineStep
  <2>1. CASE \E f \in Filters : Ask(f)
    BY <2>1, AskMakes
  <2>2. CASE ReadRequests \/ ReadResponses
    <3>1. UNCHANGED <<bundle, filtered, answer, version>> /\ build.step # "none"
      BY <2>2 DEF ReadRequests, ReadResponses, logVars, cacheVars
    <3>2. QED
      BY <3>1, OthersMake
  <2>3. CASE Finish
    BY <2>3, FinishMakes
  <2>4. QED
    BY <1>2, <2>1, <2>2, <2>3 DEF TimelineStep
<1>3. CASE UNCHANGED serverVars
  <2>1. UNCHANGED <<version, bundle, filtered, answer, build>>
    BY <1>3 DEF serverVars
  <2>2. QED
    BY <2>1, OthersMake
<1>4. CASE LoadFails
  <2>1. UNCHANGED <<version, bundle, filtered, build>> /\ answer'.timeline = NoTimeline
    BY <1>4 DEF LoadFails, logVars
  <2>2. QED
    BY <2>1, OthersMake
<1>5. QED
  BY <1>1, <1>2, <1>3, <1>4
  DEF DialogNext, pageVars, Click, openStatsModal, openStatsModalForLane, PickAgent, CloseDialog

(* The second cache never mixes two states of the log under one signature, *)
(* though files are removed while the directory is read and the signature  *)
(* is taken last: an entry is as old as the bundle or older, and what is   *)
(* kept under one signature are timelines of one list of records.          *)
THEOREM CachesAgree == DialogSpec => []StatsInv
<1>1. DialogInit => StatsInv
  BY WholeInit, MadeInit DEF DialogInit, StatsInv
<1>2. StatsInv /\ [DialogNext]_pageVars => StatsInv'
  BY WholeStep, MadeStep DEF StatsInv
<1>3. QED
  BY <1>1, <1>2, PTL DEF DialogSpec

(* The statistics are those of what the reader sees: every call on the      *)
(* board is counted for its agent, the lines of the agents add up to those  *)
(* of the session, boards of the same keywords and state of the log have    *)
(* the same, and an agent picked is shown as long as it has a call there.   *)
THEOREM StatsAreShown == DialogSpec => []StatsShown
<1>1. ASSUME NEW rs \in Seq(Record), NEW f
      PROVE  CallsCounted(Timeline(rs, f), f) /\ StatsAddUp(Timeline(rs, f))
  <2> DEFINE t == Timeline(rs, f)
  <2>1. PICK scope, laneOf, counted, ids : Describes(t, f, scope, laneOf, counted, ids)
    BY TimelineIs
  <2> HIDE DEF t
  <2>2. CallsCounted(t, f) /\ StatsAddUp(t)
    BY <2>1, CallsAreCounted, StatsDoAddUp
  <2>3. QED
    BY <2>2 DEF t
<1>2. ASSUME StatsInv PROVE StatsCoverBoard
  <2>1. ASSUME answer.timeline # NoTimeline
        PROVE  CallsCounted(answer.timeline, answer.filters) /\ StatsAddUp(answer.timeline)
    <3>1. PICK rs \in Seq(Record) : answer.timeline = Timeline(rs, answer.filters)
      BY <1>2, <2>1 DEF StatsInv, MadeInv, AnswerMade
    <3>2. QED
      BY <1>1, <3>1
  <2>2. StatsOfScope
    <3>1. SUFFICES ASSUME NEW d \in filtered, NEW e \in filtered, d.signature = e.signature,
                          d.filters.q = e.filters.q, d.filters.qNot = e.filters.qNot
                   PROVE  d.timeline.calls = e.timeline.calls /\ d.timeline.agents = e.timeline.agents
      BY DEF StatsOfScope
    <3>2. PICK rs \in Seq(Record) :
            d.timeline = Timeline(rs, d.filters) /\ e.timeline = Timeline(rs, e.filters)
      BY <1>2, <3>1 DEF StatsInv, MadeInv, EntriesAgree, OfOneLog
    <3>3. QED
      BY <3>1, <3>2, SameKeywords
  <2>3. QED
    BY <2>1, <2>2 DEF StatsCoverBoard
<1>3. StatsCoverBoard => StatsShown
  <2>1. SUFFICES ASSUME StatsCoverBoard, shownTimeline # NoTimeline,
                        NEW e \in Range(shownTimeline.events), e.lane = picked, e.kind = "tool_call"
                 PROVE  selectedAgent = picked
    BY DEF StatsShown
  <2>2. PICK a \in Range(agents) : a.lane = picked
    BY <2>1 DEF StatsCoverBoard, CallsCounted, shownTimeline, agents
  <2>3. agents # <<>>
    BY <2>2, EmptySeq DEF Range
  <2>4. AgentsOf(picked) # {}
    BY <2>2 DEF AgentsOf
  <2>5. QED
    BY <2>3, <2>4 DEF selectedAgent
<1>4. StatsInv => StatsShown
  BY <1>2, <1>3
<1>5. QED
  BY <1>4, CachesAgree, PTL
=============================================================================
