----------------------- MODULE ReasoningReinjectProofs -----------------------
(***************************************************************************)
(* What is asked of the upstream is what the client asked, and reasoning   *)
(* goes back to its own place, for any number of conversations and texts.  *)
(* The invariant says of every cached prefix what the properties say of    *)
(* the requests under way, and of the marks that clients hold themselves.  *)
(* A second invariant, Kept, says what the cache still holds for every     *)
(* answer of a history: that a conversation of its own loses no reasoning. *)
(***************************************************************************)
EXTENDS ReasoningReinject, SequenceTheorems, WellFoundedInduction, TLAPS

-----------------------------------------------------------------------------
(* Sequences of items up to their spelling. *)

(* Two sequences have one normal form when their items differ in spelling  *)
(* only.                                                                   *)
LEMMA NormalType ==
    ASSUME NEW s \in Seq(Item)
    PROVE  /\ Normal(s) \in Seq(Item)
           /\ Len(Normal(s)) = Len(s)
           /\ \A i \in 1..Len(s) : Normal(s)[i] = Plain(s[i])
<1>1. \A i \in 1..Len(s) : Plain(s[i]) \in Item
  <2>1. TAKE i \in 1..Len(s)
  <2>2. s[i] \in Item
    BY ElementOfSeq
  <2>3. QED
    BY <2>2 DEF Item, Plain
<1>2. Len(s) \in Nat
  BY LenProperties
<1>3. Normal(s) \in [1..Len(s) -> Item]
  BY <1>1 DEF Normal
<1>4. Normal(s) \in Seq(Item)
  BY <1>2, <1>3, SeqDef
<1>5. DOMAIN Normal(s) = 1..Len(s) /\ DOMAIN Normal(s) = 1..Len(Normal(s))
  BY <1>3, <1>4, LenProperties
<1>6. Len(Normal(s)) = Len(s)
  BY <1>2, <1>4, <1>5, LenProperties
<1>7. QED
  BY <1>4, <1>6 DEF Normal

(* A normal form is its own normal form. *)
LEMMA NormalIdempotent ==
    ASSUME NEW s \in Seq(Item)
    PROVE  Normal(Normal(s)) = Normal(s)
<1>1. /\ Normal(s) \in Seq(Item)
      /\ Len(Normal(s)) = Len(s)
      /\ \A i \in 1..Len(s) : Normal(s)[i] = Plain(s[i])
  BY NormalType
<1>2. \A i \in 1..Len(s) : Plain(Normal(s)[i]) = Normal(s)[i]
  <2>1. TAKE i \in 1..Len(s)
  <2>2. s[i] \in Item
    BY ElementOfSeq
  <2>3. QED
    BY <1>1, <2>2 DEF Item, Plain
<1>3. Normal(Normal(s)) = [i \in 1..Len(s) |-> Plain(Normal(s)[i])]
  BY <1>1 DEF Normal
<1>4. Normal(s) = [i \in 1..Len(s) |-> Normal(s)[i]]
  BY <1>1, LenProperties
<1>5. QED
  BY <1>2, <1>3, <1>4

(* Item by item: what NormalType says of two sequences at once. *)
LEMMA NormalEqual ==
    ASSUME NEW s \in Seq(Item), NEW u \in Seq(Item)
    PROVE  Normal(s) = Normal(u) <=>
             /\ Len(s) = Len(u)
             /\ \A i \in 1..Len(s) : Plain(s[i])
                                       = Plain(u[i])
<1>1. /\ Normal(s) \in Seq(Item) /\ Len(Normal(s)) = Len(s)
      /\ \A i \in 1..Len(s) : Normal(s)[i] = Plain(s[i])
  BY NormalType
<1>2. /\ Normal(u) \in Seq(Item) /\ Len(Normal(u)) = Len(u)
      /\ \A i \in 1..Len(u) : Normal(u)[i] = Plain(u[i])
  BY NormalType
<1>3. ASSUME Len(s) = Len(u),
             \A i \in 1..Len(s) : Plain(s[i])
                                    = Plain(u[i])
      PROVE  Normal(s) = Normal(u)
  BY <1>3 DEF Normal
<1>4. QED
  BY <1>1, <1>2, <1>3

(* Concatenation and prefixes respect the normal form. *)
LEMMA NormalConcat ==
    ASSUME NEW s \in Seq(Item), NEW u \in Seq(Item),
           NEW v \in Seq(Item), NEW w \in Seq(Item),
           Normal(s) = Normal(u), Normal(v) = Normal(w)
    PROVE  Normal(s \o v) = Normal(u \o w)
<1>1. /\ s \o v \in Seq(Item) /\ Len(s \o v) = Len(s) + Len(v)
      /\ \A i \in 1..Len(s) + Len(v) :
            (s \o v)[i] = IF i <= Len(s) THEN s[i] ELSE v[i - Len(s)]
  BY ConcatProperties
<1>2. /\ u \o w \in Seq(Item) /\ Len(u \o w) = Len(u) + Len(w)
      /\ \A i \in 1..Len(u) + Len(w) :
            (u \o w)[i] = IF i <= Len(u) THEN u[i] ELSE w[i - Len(u)]
  BY ConcatProperties
<1>3. /\ Len(s) = Len(u)
      /\ \A i \in 1..Len(s) : Plain(s[i])
                                = Plain(u[i])
  BY NormalEqual
<1>4. /\ Len(v) = Len(w)
      /\ \A i \in 1..Len(v) : Plain(v[i])
                                = Plain(w[i])
  BY NormalEqual
<1>5. Len(s) \in Nat /\ Len(v) \in Nat
  BY LenProperties
<1>6. ASSUME NEW i \in 1..Len(s \o v)
      PROVE  Plain((s \o v)[i])
               = Plain((u \o w)[i])
  <2>1. CASE i <= Len(s)
    <3>1. (s \o v)[i] = s[i] /\ (u \o w)[i] = u[i] /\ i \in 1..Len(s)
      BY <1>1, <1>2, <1>3, <1>4, <1>5, <1>6, <2>1
    <3>2. QED
      BY <1>3, <3>1
  <2>2. CASE ~(i <= Len(s))
    <3>1. /\ (s \o v)[i] = v[i - Len(s)] /\ (u \o w)[i] = w[i - Len(s)]
          /\ i - Len(s) \in 1..Len(v)
      BY <1>1, <1>2, <1>3, <1>4, <1>5, <1>6, <2>2
    <3>2. QED
      BY <1>4, <3>1
  <2>3. QED
    BY <2>1, <2>2
<1>7. Len(s \o v) = Len(u \o w)
  BY <1>1, <1>2, <1>3, <1>4
<1>8. QED
  BY <1>1, <1>2, <1>6, <1>7, NormalEqual

(* The first n items of a sequence. *)
LEMMA PrefixType ==
    ASSUME NEW s \in Seq(Item), NEW n \in 0..Len(s)
    PROVE  /\ SubSeq(s, 1, n) \in Seq(Item)
           /\ Len(SubSeq(s, 1, n)) = n
           /\ \A i \in 1..n : SubSeq(s, 1, n)[i] = s[i]
<1>1. \A i \in 1..n : s[i] \in Item
  BY ElementOfSeq, LenProperties
<1>2. n \in Int /\ n >= 0
  BY LenProperties
<1>3. /\ SubSeq(s, 1, n) \in Seq(Item)
      /\ Len(SubSeq(s, 1, n)) = IF 1 <= n THEN n - 1 + 1 ELSE 0
      /\ \A i \in 1..(n - 1 + 1) : SubSeq(s, 1, n)[i] = s[1 + i - 1]
  BY <1>1, <1>2, SubSeqProperties
<1>4. QED
  BY <1>2, <1>3

(* Prefixes of the same length have one normal form when the wholes do. *)
LEMMA NormalPrefix ==
    ASSUME NEW s \in Seq(Item), NEW u \in Seq(Item), NEW n \in 0..Len(s),
           Normal(s) = Normal(u)
    PROVE  Normal(SubSeq(s, 1, n)) = Normal(SubSeq(u, 1, n))
<1>1. /\ Len(s) = Len(u)
      /\ \A i \in 1..Len(s) : Plain(s[i])
                                = Plain(u[i])
  BY NormalEqual
<1>2. /\ SubSeq(s, 1, n) \in Seq(Item) /\ Len(SubSeq(s, 1, n)) = n
      /\ \A i \in 1..n : SubSeq(s, 1, n)[i] = s[i]
  BY PrefixType
<1>3. /\ SubSeq(u, 1, n) \in Seq(Item) /\ Len(SubSeq(u, 1, n)) = n
      /\ \A i \in 1..n : SubSeq(u, 1, n)[i] = u[i]
  BY <1>1, PrefixType
<1>4. 1..n \subseteq 1..Len(s)
  BY LenProperties
<1>5. \A i \in 1..n : Plain(SubSeq(s, 1, n)[i])
                        = Plain(SubSeq(u, 1, n)[i])
  BY <1>1, <1>2, <1>3, <1>4
<1>6. QED
  BY <1>2, <1>3, <1>5, NormalEqual

(* A prefix of the first part is a prefix of the whole. *)
LEMMA PrefixOfConcat ==
    ASSUME NEW s \in Seq(Item), NEW u \in Seq(Item), NEW n \in 0..Len(s)
    PROVE  /\ n \in 0..Len(s \o u)
           /\ SubSeq(s \o u, 1, n) = SubSeq(s, 1, n)
<1>1. /\ s \o u \in Seq(Item) /\ Len(s \o u) = Len(s) + Len(u)
      /\ \A i \in 1..Len(s) + Len(u) :
            (s \o u)[i] = IF i <= Len(s) THEN s[i] ELSE u[i - Len(s)]
  BY ConcatProperties
<1>2. Len(s) \in Nat /\ Len(u) \in Nat
  BY LenProperties
<1>3. n \in 0..Len(s \o u)
  BY <1>1, <1>2
<1>4. /\ SubSeq(s, 1, n) \in Seq(Item) /\ Len(SubSeq(s, 1, n)) = n
      /\ \A i \in 1..n : SubSeq(s, 1, n)[i] = s[i]
  BY PrefixType
<1>5. /\ SubSeq(s \o u, 1, n) \in Seq(Item) /\ Len(SubSeq(s \o u, 1, n)) = n
      /\ \A i \in 1..n : SubSeq(s \o u, 1, n)[i] = (s \o u)[i]
  BY <1>1, <1>3, PrefixType
<1>6. \A i \in 1..n : SubSeq(s \o u, 1, n)[i] = SubSeq(s, 1, n)[i]
  BY <1>1, <1>2, <1>4, <1>5
<1>7. QED
  BY <1>3, <1>4, <1>5, <1>6, SeqEqual

(* A prefix and what follows it make up the whole. *)
LEMMA PrefixAndSuffix ==
    ASSUME NEW s \in Seq(Item), NEW n \in 0..Len(s)
    PROVE  /\ SubSeq(s, n + 1, Len(s)) \in Seq(Item)
           /\ SubSeq(s, 1, n) \o SubSeq(s, n + 1, Len(s)) = s
<1>1. /\ SubSeq(s, 1, n) \in Seq(Item) /\ Len(SubSeq(s, 1, n)) = n
      /\ \A i \in 1..n : SubSeq(s, 1, n)[i] = s[i]
  BY PrefixType
<1>2. Len(s) \in Nat /\ n \in Nat /\ n <= Len(s)
  BY LenProperties
<1>3. \A i \in n + 1..Len(s) : s[i] \in Item
  BY <1>2, ElementOfSeq
<1>4. /\ SubSeq(s, n + 1, Len(s)) \in Seq(Item)
      /\ Len(SubSeq(s, n + 1, Len(s))) =
            IF n + 1 <= Len(s) THEN Len(s) - (n + 1) + 1 ELSE 0
      /\ \A i \in 1..(Len(s) - (n + 1) + 1) :
            SubSeq(s, n + 1, Len(s))[i] = s[n + 1 + i - 1]
  BY <1>2, <1>3, SubSeqProperties
<1> DEFINE p == SubSeq(s, 1, n)
           q == SubSeq(s, n + 1, Len(s))
<1>5. Len(q) = Len(s) - n /\ \A i \in 1..(Len(s) - n) : q[i] = s[n + i]
  BY <1>2, <1>4
<1>6. p \in Seq(Item) /\ q \in Seq(Item) /\ Len(p) = n
  BY <1>1, <1>4
<1>7. \A i \in 1..n : p[i] = s[i]
  BY <1>1
<1> HIDE DEF p, q
<1>8. /\ p \o q \in Seq(Item) /\ Len(p \o q) = Len(p) + Len(q)
      /\ \A i \in 1..Len(p) + Len(q) :
            (p \o q)[i] = IF i <= Len(p) THEN p[i] ELSE q[i - Len(p)]
  BY <1>6, ConcatProperties
<1>9. Len(p \o q) = Len(s)
  BY <1>2, <1>5, <1>6, <1>8
<1>10. ASSUME NEW i \in 1..Len(s) PROVE (p \o q)[i] = s[i]
  <2>1. CASE i <= n
    BY <1>2, <1>5, <1>6, <1>7, <1>8, <2>1
  <2>2. CASE ~(i <= n)
    <3>1. i - n \in 1..(Len(s) - n) /\ n + (i - n) = i
      BY <1>2, <2>2
    <3>2. (p \o q)[i] = q[i - n]
      BY <1>2, <1>5, <1>6, <1>8, <2>2
    <3>3. QED
      BY <1>5, <3>1, <3>2
  <2>3. QED
    BY <2>1, <2>2
<1>11. p \o q = s
  BY <1>8, <1>9, <1>10, SeqEqual
<1>12. QED
  BY <1>4, <1>11 DEF p, q

-----------------------------------------------------------------------------
(* The invariant. *)

CallsMatch ==
    \A t \in Thread :
        /\ Normal(call[t].sent.visible) = Normal(call[t].asked.visible)
        /\ call[t].asked.marks \subseteq call[t].sent.marks
        /\ \A m \in call[t].sent.marks :
              Placed(issued, KeyOf[t], ContextOf[t], call[t].sent.visible, m)

ClientsPlaced ==
    \A t \in Thread : \A m \in hist[t].marks :
        Placed(issued, KeyOf[t], ContextOf[t], hist[t].visible, m)

(* A cached prefix is, but for its reasoning and for spelling, the one its *)
(* fingerprint was taken of, and its reasoning is in place.                *)
StoreSound ==
    \A e \in store :
        /\ Normal(e.decorated.visible) = e.fp.prefix.visible
        /\ e.fp.prefix.marks \subseteq e.decorated.marks
        /\ \A m \in e.decorated.marks :
              Placed(issued, e.key, e.fp.context, e.decorated.visible, m)

IInv == TypeOK /\ CallsMatch /\ ClientsPlaced /\ StoreSound

-----------------------------------------------------------------------------
(* How Placed moves: to a longer input, to another spelling, and to a      *)
(* later state.                                                            *)

(* A mark in place lies within its input. *)
LEMMA PlacedAt ==
    ASSUME NEW q \in Seq(Issue), NEW k, NEW c, NEW v \in Seq(Item), NEW m,
           Placed(q, k, c, v, m)
    PROVE  m.at \in 0..Len(v) /\ q[m.serial].visible \in Seq(Item)
<1>1. q[m.serial] \in Issue
  BY ElementOfSeq DEF Placed
<1>2. q[m.serial].visible \in Seq(Item)
  BY <1>1 DEF Issue
<1>3. m.at \in Nat /\ m.at <= Len(v)
  BY <1>2, LenProperties DEF Placed
<1>4. QED
  BY <1>2, <1>3, LenProperties

(* A mark in place stays so when items follow. *)
LEMMA PlacedInLonger ==
    ASSUME NEW q \in Seq(Issue), NEW k, NEW c, NEW v \in Seq(Item),
           NEW w \in Seq(Item), NEW m, Placed(q, k, c, v, m)
    PROVE  Placed(q, k, c, v \o w, m)
<1>1. m.at \in 0..Len(v)
  BY PlacedAt
<1>2. m.at \in 0..Len(v \o w) /\ SubSeq(v \o w, 1, m.at) = SubSeq(v, 1, m.at)
  BY <1>1, PrefixOfConcat
<1>3. m.at <= Len(v \o w)
  BY <1>2
<1>4. QED
  BY <1>2, <1>3 DEF Placed

(* A mark in place stays so in another spelling. *)
LEMMA PlacedInRespelt ==
    ASSUME NEW q \in Seq(Issue), NEW k, NEW c, NEW v \in Seq(Item),
           NEW w \in Seq(Item), NEW m, Placed(q, k, c, v, m), Normal(v) = Normal(w)
    PROVE  Placed(q, k, c, w, m)
<1>1. m.at \in 0..Len(v)
  BY PlacedAt
<1>2. Normal(SubSeq(v, 1, m.at)) = Normal(SubSeq(w, 1, m.at))
  BY <1>1, NormalPrefix
<1>3. Len(v) = Len(w)
  BY NormalType
<1>4. QED
  BY <1>2, <1>3 DEF Placed

(* What has been issued stays. *)
Grows(q, r) ==
    /\ Len(q) <= Len(r)
    /\ \A i \in 1..Len(q) : r[i] = q[i]

(* A mark in place stays so when more is issued. *)
LEMMA PlacedLater ==
    ASSUME NEW q \in Seq(Issue), NEW r \in Seq(Issue), Grows(q, r),
           NEW k, NEW c, NEW v, NEW m, Placed(q, k, c, v, m)
    PROVE  Placed(r, k, c, v, m)
<1>1. m.serial \in 1..Len(q) /\ m.serial \in 1..Len(r)
  BY LenProperties DEF Grows, Placed
<1>2. r[m.serial] = q[m.serial]
  BY <1>1 DEF Grows
<1>3. QED
  BY <1>1, <1>2 DEF Placed

-----------------------------------------------------------------------------
(* One item is a sequence. *)
LEMMA SingleItem == ASSUME NEW item \in Item PROVE <<item>> \in Seq(Item)
<1>1. <<item>> \in [1..1 -> Item]
  OBVIOUS
<1>2. QED
  BY <1>1, SeqDef

(* An input with other visible items. *)
LEMMA InputExcept ==
    ASSUME NEW input \in Input, NEW v
    PROVE  [input EXCEPT !.visible = v] = [visible |-> v, marks |-> input.marks]
<1>1. input = [visible |-> input.visible, marks |-> input.marks]
  BY DEF Input
<1>2. QED
  BY <1>1

(* What is sent for an input is the input, with reasoning in place. *)
LEMMA ReinjectedCorrect ==
    ASSUME IInv, NEW t \in Thread, NEW in \in Input,
           \A m \in in.marks : Placed(issued, KeyOf[t], ContextOf[t], in.visible, m),
           NEW s \in Reinjected(t, in)
    PROVE  /\ s \in Input
           /\ Normal(s.visible) = Normal(in.visible)
           /\ in.marks \subseteq s.marks
           /\ \A m \in s.marks : Placed(issued, KeyOf[t], ContextOf[t], s.visible, m)
<1>1. CASE s = in
  BY <1>1
<1>2. CASE s \in Hits(t, in)
  <2>0. PICK n \in PrefixLens(in) : \E e \in Cached(t, in, n) :
            s = [e.decorated EXCEPT !.visible = @ \o Suffix(in, n)]
    BY <1>2 DEF Hits
  <2>1. PICK e \in Cached(t, in, n) :
            s = [e.decorated EXCEPT !.visible = @ \o Suffix(in, n)]
    BY <2>0
  <2>2. issued \in Seq(Issue) /\ in.visible \in Seq(Item)
    BY DEF IInv, TypeOK, Input
  <2>3. n \in 0..Len(in.visible)
    <3>1. Len(in.visible) \in Nat
      BY <2>2, LenProperties
    <3>2. CASE n \in {0} \cup {i \in 1..Len(in.visible) : in.visible[i].role = "assistant"}
      BY <3>1, <3>2
    <3>3. CASE n \in {m.at : m \in in.marks}
      <4>1. PICK m \in in.marks : n = m.at
        BY <3>3
      <4>2. Placed(issued, KeyOf[t], ContextOf[t], in.visible, m)
        BY <4>1
      <4>3. QED
        BY <2>2, <4>1, <4>2, PlacedAt
    <3>4. QED
      BY <2>1, <3>2, <3>3 DEF PrefixLens, Ends
  <2>4. /\ e \in store /\ e.key = KeyOf[t] /\ e.fp = FingerprintOf(t, Prefix(in, n))
    BY <2>1 DEF Cached
  <2>5. e.decorated \in Input /\ e.decorated.visible \in Seq(Item)
    BY <2>4 DEF IInv, TypeOK, Entry, Input
  <2>6. /\ e.fp.context = ContextOf[t]
        /\ e.fp.prefix.visible = Normal(SubSeq(in.visible, 1, n))
        /\ e.fp.prefix.marks = in.marks
    <3> DEFINE p == Prefix(in, n)
    <3>1. p = [visible |-> SubSeq(in.visible, 1, n), marks |-> in.marks]
      BY InputExcept DEF Prefix
    <3>2. [p EXCEPT !.visible = Normal(@)]
            = [visible |-> Normal(SubSeq(in.visible, 1, n)), marks |-> in.marks]
      BY <3>1
    <3>3. e.fp = [context |-> ContextOf[t], prefix |-> [p EXCEPT !.visible = Normal(@)]]
      BY <2>4 DEF FingerprintOf
    <3>4. QED
      BY <3>2, <3>3
  <2>7. /\ Suffix(in, n) \in Seq(Item)
        /\ SubSeq(in.visible, 1, n) \o Suffix(in, n) = in.visible
        /\ SubSeq(in.visible, 1, n) \in Seq(Item)
    BY <2>2, <2>3, PrefixAndSuffix, PrefixType DEF Suffix
  <2>8. /\ s.visible = e.decorated.visible \o Suffix(in, n)
        /\ s.marks = e.decorated.marks
        /\ s = [visible |-> s.visible, marks |-> s.marks]
    BY <2>1, <2>5 DEF Input
  <2>9. s.visible \in Seq(Item)
    BY <2>5, <2>7, <2>8, ConcatProperties
  <2>10. s \in Input
    BY <2>5, <2>8, <2>9 DEF Input
  <2>11. /\ Normal(e.decorated.visible) = Normal(SubSeq(in.visible, 1, n))
         /\ in.marks \subseteq e.decorated.marks
         /\ \A m \in e.decorated.marks :
               Placed(issued, KeyOf[t], ContextOf[t], e.decorated.visible, m)
    BY <2>4, <2>6 DEF IInv, StoreSound
  <2>12. Normal(s.visible) = Normal(in.visible)
    <3>1. Normal(e.decorated.visible \o Suffix(in, n))
            = Normal(SubSeq(in.visible, 1, n) \o Suffix(in, n))
      BY <2>5, <2>7, <2>11, NormalConcat
    <3>2. QED
      BY <2>7, <2>8, <3>1
  <2>13. \A m \in s.marks : Placed(issued, KeyOf[t], ContextOf[t], s.visible, m)
    BY <2>2, <2>5, <2>7, <2>8, <2>11, PlacedInLonger
  <2>14. QED
    BY <2>8, <2>10, <2>11, <2>12, <2>13
<1>3. QED
  BY <1>1, <1>2 DEF Reinjected

-----------------------------------------------------------------------------
(* The initial state. *)
LEMMA InitInv == Init => IInv
<1> SUFFICES ASSUME Init PROVE IInv
  OBVIOUS
<1>1. NoInput \in Input /\ NoCall \in Call
  BY EmptySeq DEF NoInput, NoCall, Input, Call
<1>2. TypeOK
  BY <1>1, EmptySeq DEF Init, TypeOK
<1>3. CallsMatch
  BY DEF Init, CallsMatch, NoCall, NoInput
<1>4. ClientsPlaced
  BY DEF Init, ClientsPlaced, NoInput
<1>5. StoreSound
  BY DEF Init, StoreSound
<1>6. QED
  BY <1>2, <1>3, <1>4, <1>5 DEF IInv

(* A request under way and nothing else changed. *)
LEMMA CallsOf ==
    ASSUME IInv, UNCHANGED <<hist, store, issued>>, TypeOK', CallsMatch'
    PROVE  IInv'
<1>1. ClientsPlaced'
  BY DEF IInv, ClientsPlaced
<1>2. StoreSound'
  BY DEF IInv, StoreSound
<1>3. QED
  BY <1>1, <1>2 DEF IInv

(* The request that is sent has its reasoning in place. *)
LEMMA AskInv ==
    ASSUME IInv, NEW t \in Thread, Ask(t)
    PROVE  IInv'
<1>1. PICK x \in Text :
         LET in == [hist[t] EXCEPT !.visible =
                      @ \o <<[role |-> "user", text |-> x, spelling |-> "as sent"]>>]
         IN  \E s \in Reinjected(t, in) :
                call' = [call EXCEPT ![t] = [on |-> TRUE, asked |-> in, sent |-> s]]
  BY DEF Ask
<1> DEFINE u == <<[role |-> "user", text |-> x, spelling |-> "as sent"]>>
           in == [hist[t] EXCEPT !.visible = @ \o u]
<1>2. PICK s \in Reinjected(t, in) :
         call' = [call EXCEPT ![t] = [on |-> TRUE, asked |-> in, sent |-> s]]
  BY <1>1
<1>3. /\ hist[t] \in Input /\ hist[t].visible \in Seq(Item)
      /\ issued \in Seq(Issue)
  BY DEF IInv, TypeOK, Input
<1>4. u \in Seq(Item)
  <2> DEFINE item == [role |-> "user", text |-> x, spelling |-> "as sent"]
  <2>1. item \in Item
    BY DEF Item
  <2> HIDE DEF item
  <2>2. <<item>> \in Seq(Item)
    BY <2>1, SingleItem
  <2>3. QED
    BY <2>2 DEF item
<1>5. /\ in = [visible |-> hist[t].visible \o u, marks |-> hist[t].marks]
      /\ in.visible = hist[t].visible \o u
      /\ in.marks = hist[t].marks
  <2>1. in = [visible |-> hist[t].visible \o u, marks |-> hist[t].marks]
    BY <1>3, InputExcept
  <2> HIDE DEF in
  <2>2. QED
    BY <2>1
<1>6. in \in Input
  <2>1. hist[t].visible \o u \in Seq(Item)
    BY <1>3, <1>4, ConcatProperties
  <2>2. hist[t].marks \subseteq Mark
    BY <1>3 DEF Input
  <2>3. QED
    BY <1>5, <2>1, <2>2 DEF Input
<1>7. \A m \in in.marks : Placed(issued, KeyOf[t], ContextOf[t], in.visible, m)
  <2>1. \A m \in hist[t].marks : Placed(issued, KeyOf[t], ContextOf[t], hist[t].visible, m)
    BY DEF IInv, ClientsPlaced
  <2>2. QED
    BY <1>3, <1>4, <1>5, <2>1, PlacedInLonger
<1> HIDE DEF in, u
<1>8. /\ s \in Input
      /\ Normal(s.visible) = Normal(in.visible)
      /\ in.marks \subseteq s.marks
      /\ \A m \in s.marks : Placed(issued, KeyOf[t], ContextOf[t], s.visible, m)
  BY <1>2, <1>6, <1>7, ReinjectedCorrect
<1>9. UNCHANGED <<hist, store, issued, mine, counters>>
  BY DEF Ask
<1>10. call \in [Thread -> Call]
  BY DEF IInv, TypeOK
<1>11. call' \in [Thread -> Call]
  BY <1>2, <1>6, <1>8, <1>10 DEF Call
<1>12. TypeOK'
  BY <1>9, <1>11 DEF IInv, TypeOK, counters
<1>13. CallsMatch'
  <2>1. ASSUME NEW r \in Thread
        PROVE  /\ Normal(call'[r].sent.visible) = Normal(call'[r].asked.visible)
               /\ call'[r].asked.marks \subseteq call'[r].sent.marks
               /\ \A m \in call'[r].sent.marks :
                     Placed(issued, KeyOf[r], ContextOf[r], call'[r].sent.visible, m)
    <3>1. CASE r = t
      <4>1. call'[r].sent = s /\ call'[r].asked = in
        BY <1>2, <1>10, <3>1
      <4>2. QED
        BY <1>8, <3>1, <4>1
    <3>2. CASE r # t
      <4>1. call'[r] = call[r]
        BY <1>2, <1>10, <3>2
      <4>2. QED
        BY <4>1 DEF IInv, CallsMatch
    <3>3. QED
      BY <3>1, <3>2
  <2>2. QED
    BY <1>9, <2>1 DEF CallsMatch
<1>14. QED
  BY <1>9, <1>12, <1>13, CallsOf

-----------------------------------------------------------------------------
(* Answers, requests that end without one, and clients that go back.       *)

(* Nothing more issued is a case of growing. *)
LEMMA GrowsSame == ASSUME NEW q \in Seq(Issue) PROVE Grows(q, q)
BY LenProperties DEF Grows

(* The answer in another spelling is a sequence of items. *)
LEMMA SpeltType ==
    ASSUME NEW answer \in Seq(Item), NEW sp \in {"as sent", "respelt"}
    PROVE  Spelt(answer, sp) \in Seq(Item)
<1>1. Len(answer) \in Nat
  BY LenProperties
<1>2. ASSUME NEW i \in 1..Len(answer)
      PROVE  [answer[i] EXCEPT !.spelling = sp] \in Item
  <2>1. answer[i] \in Item
    BY ElementOfSeq
  <2>2. QED
    BY <2>1 DEF Item
<1>3. Spelt(answer, sp) \in [1..Len(answer) -> Item]
  BY <1>2 DEF Spelt
<1>4. QED
  BY <1>1, <1>3, SeqDef

(* What the upstream says is a sequence of items. *)
LEMMA AnswerType == ASSUME NEW answer \in AnswerItems PROVE answer \in Seq(Item)
<1>1. CASE answer = <<>>
  BY <1>1, EmptySeq
<1>2. ASSUME NEW x \in Text,
             answer = <<[role |-> "assistant", text |-> x, spelling |-> "as sent"]>>
      PROVE  answer \in Seq(Item)
  <2> DEFINE item == [role |-> "assistant", text |-> x, spelling |-> "as sent"]
  <2>1. item \in Item
    BY DEF Item
  <2>2. answer = <<item>>
    BY <1>2
  <2> HIDE DEF item
  <2>3. QED
    BY <2>1, <2>2, SingleItem
<1>3. QED
  BY <1>1, <1>2 DEF AnswerItems

(* The entry that an answer leaves in the cache is sound. *)
NewEntry(t, answer, M) ==
    [key |-> KeyOf[t],
     fp |-> FingerprintOf(t, [Expected(t) EXCEPT !.visible = @ \o answer]),
     decorated |-> Decorated(t, answer, M)]

LEMMA NewEntrySound ==
    ASSUME IInv, NEW t \in Thread, NEW answer \in Seq(Item), NEW M \in SUBSET Mark,
           NEW q \in Seq(Issue), Grows(issued, q),
           \A m \in M : Placed(q, KeyOf[t], ContextOf[t], call[t].asked.visible, m),
           NEW e, e = NewEntry(t, answer, M)
    PROVE  /\ e \in Entry
           /\ Normal(e.decorated.visible) = e.fp.prefix.visible
           /\ e.fp.prefix.marks \subseteq e.decorated.marks
           /\ \A m \in e.decorated.marks :
                 Placed(q, e.key, e.fp.context, e.decorated.visible, m)
<1> DEFINE x == Expected(t)
           sent == call[t].sent
           asked == call[t].asked
<1>1. call[t] \in Call /\ issued \in Seq(Issue)
  BY DEF IInv, TypeOK
<1>2. sent \in Input /\ asked \in Input /\ x \in Input
  BY <1>1 DEF Call, Expected
<1>3. /\ sent.visible \in Seq(Item) /\ sent.marks \subseteq Mark
      /\ asked.visible \in Seq(Item) /\ asked.marks \subseteq Mark
      /\ x.visible \in Seq(Item) /\ x.marks \subseteq Mark
  BY <1>2 DEF Input
<1>4. /\ Normal(sent.visible) = Normal(asked.visible)
      /\ Normal(sent.visible) = Normal(x.visible)
      /\ x.marks \subseteq sent.marks
      /\ \A m \in sent.marks :
            Placed(issued, KeyOf[t], ContextOf[t], sent.visible, m)
  BY DEF IInv, CallsMatch, Expected
<1>5. [x EXCEPT !.visible = @ \o answer]
        = [visible |-> x.visible \o answer, marks |-> x.marks]
  BY <1>2, InputExcept
<1>6. x.visible \o answer \in Seq(Item) /\ sent.visible \o answer \in Seq(Item)
  BY <1>3, ConcatProperties
<1> HIDE DEF x, sent, asked
<1>7. FingerprintOf(t, [visible |-> x.visible \o answer, marks |-> x.marks])
        = [context |-> ContextOf[t],
           prefix |-> [visible |-> Normal(x.visible \o answer), marks |-> x.marks]]
  BY DEF FingerprintOf
<1>8. e = [key |-> KeyOf[t],
           fp |-> [context |-> ContextOf[t],
                   prefix |-> [visible |-> Normal(x.visible \o answer),
                               marks |-> x.marks]],
           decorated |-> [visible |-> sent.visible \o answer,
                          marks |-> sent.marks \cup M]]
  BY <1>5, <1>7 DEF NewEntry, Decorated, x, sent
<1>9. Normal(x.visible \o answer) \in Seq(Item)
  BY <1>6, NormalType
<1>10. e \in Entry
  <2>1. e.fp.prefix \in Input
    BY <1>3, <1>8, <1>9 DEF Input
  <2>2. e.decorated \in Input
    BY <1>3, <1>6, <1>8 DEF Input
  <2>3. e.fp \in Fingerprint
    BY <1>8, <2>1 DEF Fingerprint
  <2>4. QED
    BY <1>8, <2>2, <2>3 DEF Entry
<1>11. Normal(sent.visible \o answer) = Normal(x.visible \o answer)
  BY <1>3, <1>4, NormalConcat
<1>12. ASSUME NEW m \in sent.marks \cup M
       PROVE  Placed(q, KeyOf[t], ContextOf[t], sent.visible \o answer, m)
  <2>1. CASE m \in sent.marks
    <3>1. Placed(q, KeyOf[t], ContextOf[t], sent.visible, m)
      BY <1>1, <1>4, <2>1, PlacedLater
    <3>2. QED
      BY <1>3, <3>1, PlacedInLonger
  <2>2. CASE m \in M
    <3>1. Placed(q, KeyOf[t], ContextOf[t], asked.visible, m)
      BY <2>2 DEF asked
    <3>2. Placed(q, KeyOf[t], ContextOf[t], sent.visible, m)
      BY <1>3, <1>4, <3>1, PlacedInRespelt
    <3>3. QED
      BY <1>3, <3>2, PlacedInLonger
  <2>3. QED
    BY <2>1, <2>2
<1>13. /\ e.key = KeyOf[t] /\ e.fp.context = ContextOf[t]
       /\ e.fp.prefix.visible = Normal(x.visible \o answer)
       /\ e.fp.prefix.marks = x.marks
       /\ e.decorated.visible = sent.visible \o answer
       /\ e.decorated.marks = sent.marks \cup M
  BY <1>8
<1>14. x.marks \subseteq sent.marks \cup M
  BY <1>4
<1>15. QED
  BY <1>10, <1>11, <1>12, <1>13, <1>14

(* No request is a well-formed request. *)
LEMMA NoCallType == NoCall \in Call
<1>1. NoInput \in Input
  BY EmptySeq DEF NoInput, Input
<1>2. QED
  BY <1>1 DEF NoCall, Call

(* Requests that end leave the others as they were, whatever is issued. *)
LEMMA NoCallMatches ==
    ASSUME IInv, NEW t \in Thread, issued' \in Seq(Issue), Grows(issued, issued'),
           call' = [call EXCEPT ![t] = NoCall]
    PROVE  CallsMatch'
<1>1. call \in [Thread -> Call] /\ issued \in Seq(Issue)
  BY DEF IInv, TypeOK
<1>2. ASSUME NEW r \in Thread
      PROVE  /\ Normal(call'[r].sent.visible) = Normal(call'[r].asked.visible)
             /\ call'[r].asked.marks \subseteq call'[r].sent.marks
             /\ \A m \in call'[r].sent.marks :
                   Placed(issued', KeyOf[r], ContextOf[r], call'[r].sent.visible, m)
  <2>1. CASE r = t
    <3>1. call'[r] = NoCall
      BY <1>1, <2>1
    <3>2. QED
      BY <3>1 DEF NoCall, NoInput
  <2>2. CASE r # t
    <3>1. call'[r] = call[r]
      BY <1>1, <2>2
    <3>2. /\ Normal(call[r].sent.visible) = Normal(call[r].asked.visible)
          /\ call[r].asked.marks \subseteq call[r].sent.marks
          /\ \A m \in call[r].sent.marks :
                Placed(issued, KeyOf[r], ContextOf[r], call[r].sent.visible, m)
      BY DEF IInv, CallsMatch
    <3>3. QED
      BY <1>1, <3>1, <3>2, PlacedLater
  <2>3. QED
    BY <2>1, <2>2
<1>3. QED
  BY <1>2 DEF CallsMatch

(* The counters stay numbers. *)
LEMMA AnsweredCounts ==
    ASSUME TypeOK, NEW t, NEW answer, NEW M, Answered(t, answer, M)
    PROVE  answers' \in Nat /\ restarts' \in Nat
<1>1. answers \in Nat /\ restarts \in Nat
  BY DEF TypeOK
<1>2. answers' = answers + 1 /\ restarts' = restarts
  BY DEF Answered
<1>3. QED
  BY <1>1, <1>2

(* The answer reaches the cache and the client with its reasoning in place. *)
LEMMA AnsweredInv ==
    ASSUME IInv, NEW t \in Thread, NEW answer \in AnswerItems, NEW M \in SUBSET Mark,
           issued' \in Seq(Issue), Grows(issued, issued'),
           \A m \in M : Placed(issued', KeyOf[t], ContextOf[t], call[t].asked.visible, m),
           Answered(t, answer, M)
    PROVE  IInv'
<1> DEFINE e == NewEntry(t, answer, M)
           asked == call[t].asked
<1>1. answer \in Seq(Item)
  BY AnswerType
<1>2. /\ e \in Entry
      /\ Normal(e.decorated.visible) = e.fp.prefix.visible
      /\ e.fp.prefix.marks \subseteq e.decorated.marks
      /\ \A m \in e.decorated.marks :
            Placed(issued', e.key, e.fp.context, e.decorated.visible, m)
  BY <1>1, NewEntrySound
<1>3. store' = store \/ store' = Remember(e)
  BY DEF Answered, NewEntry
<1> HIDE DEF e
<1>4. /\ store \subseteq Entry
      /\ \A f, g \in store : f.key = g.key /\ f.fp = g.fp => f = g
      /\ call \in [Thread -> Call] /\ hist \in [Thread -> Input]
      /\ issued \in Seq(Issue) /\ mine \in [Thread -> SUBSET Mark]
      /\ answers \in Nat /\ restarts \in Nat
  BY DEF IInv, TypeOK
<1>5. /\ store' \subseteq Entry
      /\ \A f, g \in store' : f.key = g.key /\ f.fp = g.fp => f = g
  BY <1>2, <1>3, <1>4 DEF Remember
<1>6. \A f \in store' : f \in store \/ f = e
  BY <1>3 DEF Remember
<1>7. StoreSound'
  <2>1. ASSUME NEW f \in store'
        PROVE  /\ Normal(f.decorated.visible) = f.fp.prefix.visible
               /\ f.fp.prefix.marks \subseteq f.decorated.marks
               /\ \A m \in f.decorated.marks :
                     Placed(issued', f.key, f.fp.context, f.decorated.visible, m)
    <3>1. CASE f = e
      BY <1>2, <3>1
    <3>2. CASE f \in store
      <4>1. /\ Normal(f.decorated.visible) = f.fp.prefix.visible
            /\ f.fp.prefix.marks \subseteq f.decorated.marks
            /\ \A m \in f.decorated.marks :
                  Placed(issued, f.key, f.fp.context, f.decorated.visible, m)
        BY <3>2 DEF IInv, StoreSound
      <4>2. QED
        BY <1>4, <4>1, PlacedLater
    <3>3. QED
      BY <1>6, <3>1, <3>2
  <2>2. QED
    BY <2>1 DEF StoreSound
<1>8. PICK sp \in {"as sent", "respelt"}, echo \in BOOLEAN :
         hist' = [hist EXCEPT ![t] =
                [visible |-> call[t].asked.visible \o Spelt(answer, sp),
                 marks |-> call[t].asked.marks \cup (IF echo THEN M ELSE {})]]
  BY DEF Answered
<1> DEFINE h == [visible |-> asked.visible \o Spelt(answer, sp),
                 marks |-> asked.marks \cup (IF echo THEN M ELSE {})]
<1>9. hist' = [hist EXCEPT ![t] = h]
  BY <1>8
<1>10. Spelt(answer, sp) \in Seq(Item)
  BY <1>1, SpeltType
<1>11. asked \in Input /\ asked.visible \in Seq(Item) /\ asked.marks \subseteq Mark
  <2>1. asked \in Input
    BY <1>4 DEF Call
  <2>2. QED
    BY <2>1 DEF Input
<1>12. h \in Input
  <2>1. asked.visible \o Spelt(answer, sp) \in Seq(Item)
    BY <1>10, <1>11, ConcatProperties
  <2>2. QED
    BY <1>11, <2>1 DEF Input
<1>13. \A m \in h.marks : Placed(issued', KeyOf[t], ContextOf[t], h.visible, m)
  <2>1. ASSUME NEW m \in asked.marks
        PROVE  Placed(issued', KeyOf[t], ContextOf[t], asked.visible, m)
    <3>1. /\ m \in call[t].sent.marks
          /\ Normal(call[t].sent.visible) = Normal(asked.visible)
          /\ Placed(issued, KeyOf[t], ContextOf[t], call[t].sent.visible, m)
      BY DEF IInv, CallsMatch
    <3>2. call[t].sent.visible \in Seq(Item)
      BY <1>4 DEF Call, Input
    <3>3. Placed(issued, KeyOf[t], ContextOf[t], asked.visible, m)
      BY <1>4, <1>11, <3>1, <3>2, PlacedInRespelt
    <3>4. QED
      BY <1>4, <3>3, PlacedLater
  <2>2. \A m \in asked.marks \cup M :
            Placed(issued', KeyOf[t], ContextOf[t], asked.visible, m)
    BY <2>1
  <2>3. \A m \in asked.marks \cup M :
            Placed(issued', KeyOf[t], ContextOf[t], asked.visible \o Spelt(answer, sp), m)
    BY <1>10, <1>11, <2>2, PlacedInLonger
  <2>4. h.marks \subseteq asked.marks \cup M
    OBVIOUS
  <2>5. QED
    BY <2>3, <2>4
<1> HIDE DEF h, asked
<1>14. hist' \in [Thread -> Input]
  BY <1>4, <1>9, <1>12
<1>15. ClientsPlaced'
  <2>1. ASSUME NEW r \in Thread, NEW m \in hist'[r].marks
        PROVE  Placed(issued', KeyOf[r], ContextOf[r], hist'[r].visible, m)
    <3>1. CASE r = t
      <4>1. hist'[r] = h
        BY <1>4, <1>9, <3>1
      <4>2. QED
        BY <1>13, <2>1, <3>1, <4>1
    <3>2. CASE r # t
      <4>1. hist'[r] = hist[r]
        BY <1>4, <1>9, <3>2
      <4>2. Placed(issued, KeyOf[r], ContextOf[r], hist[r].visible, m)
        BY <2>1, <4>1 DEF IInv, ClientsPlaced
      <4>3. QED
        BY <1>4, <4>1, <4>2, PlacedLater
    <3>3. QED
      BY <3>1, <3>2
  <2>2. QED
    BY <2>1 DEF ClientsPlaced
<1>16. call' = [call EXCEPT ![t] = NoCall]
  BY DEF Answered
<1>17. call' \in [Thread -> Call]
  BY <1>4, <1>16, NoCallType
<1>18. CallsMatch'
  BY <1>4, <1>16, NoCallMatches
<1>19. mine' \in [Thread -> SUBSET Mark]
  <2>1. mine' = mine \/ mine' = [mine EXCEPT ![t] = @ \cup M]
    BY DEF Answered
  <2>2. QED
    BY <1>4, <2>1
<1>20. answers' \in Nat /\ restarts' \in Nat
  BY AnsweredCounts DEF IInv
<1>21. TypeOK'
  BY <1>5, <1>14, <1>17, <1>19, <1>20 DEF TypeOK
<1>22. QED
  BY <1>7, <1>15, <1>18, <1>21 DEF IInv

(* An answer with reasoning: the new mark is in place where it was issued. *)
LEMMA AnswerReasonedInv ==
    ASSUME IInv, NEW t \in Thread, AnswerReasoned(t)
    PROVE  IInv'
<1> DEFINE v == call[t].asked.visible
           new == [key |-> KeyOf[t], context |-> ContextOf[t], visible |-> v]
           mark == [at |-> Len(v), serial |-> Len(issued) + 1]
<1>1. issued \in Seq(Issue) /\ v \in Seq(Item)
  BY DEF IInv, TypeOK, Call, Input
<1>2. new \in Issue
  BY <1>1 DEF Issue
<1>3. issued' = Append(issued, new)
  BY DEF AnswerReasoned
<1>4. PICK answer \in AnswerItems : Answered(t, answer, {mark})
  BY DEF AnswerReasoned
<1> HIDE DEF new, v
<1>5. /\ issued' \in Seq(Issue) /\ Len(issued') = Len(issued) + 1
      /\ issued'[Len(issued) + 1] = new
      /\ \A i \in 1..Len(issued) : issued'[i] = issued[i]
  BY <1>1, <1>2, <1>3, AppendProperties
<1>6. Len(issued) \in Nat /\ Len(v) \in Nat
  BY <1>1, LenProperties
<1>7. Grows(issued, issued')
  BY <1>5, <1>6 DEF Grows
<1>8. {mark} \in SUBSET Mark
  BY <1>6 DEF Mark
<1>9. Placed(issued', KeyOf[t], ContextOf[t], v, mark)
  <2>1. mark.at = Len(v) /\ mark.serial = Len(issued) + 1
    OBVIOUS
  <2>2. new.key = KeyOf[t] /\ new.context = ContextOf[t] /\ new.visible = v
    BY DEF new
  <2>3. SubSeq(v, 1, Len(v)) = v
    <3>1. Len(v) \in 0..Len(v)
      BY <1>6
    <3>2. /\ SubSeq(v, 1, Len(v)) \in Seq(Item)
          /\ Len(SubSeq(v, 1, Len(v))) = Len(v)
          /\ \A i \in 1..Len(v) : SubSeq(v, 1, Len(v))[i] = v[i]
      BY <1>1, <3>1, PrefixType
    <3>3. QED
      BY <1>1, <3>2, SeqEqual
  <2> HIDE DEF mark
  <2>4. mark.serial \in 1..Len(issued') /\ issued'[mark.serial] = new
    BY <1>5, <1>6, <2>1
  <2>5. Len(v) <= Len(v)
    BY <1>6
  <2>6. QED
    BY <2>1, <2>2, <2>3, <2>4, <2>5 DEF Placed
<1>10. \A m \in {mark} :
          Placed(issued', KeyOf[t], ContextOf[t], call[t].asked.visible, m)
  BY <1>9 DEF v
<1> HIDE DEF mark
<1>11. QED
  BY <1>4, <1>5, <1>7, <1>8, <1>10, AnsweredInv

(* An answer without reasoning. *)
LEMMA AnswerPlainInv ==
    ASSUME IInv, NEW t \in Thread, AnswerPlain(t)
    PROVE  IInv'
<1>1. PICK answer \in AnswerItems : Answered(t, answer, {})
  BY DEF AnswerPlain
<1>2. issued \in Seq(Issue) /\ issued' = issued
  BY DEF IInv, TypeOK, AnswerPlain
<1>3. issued' \in Seq(Issue) /\ Grows(issued, issued')
  BY <1>2, GrowsSame
<1>4. {} \in SUBSET Mark
  OBVIOUS
<1>5. \A m \in {} : Placed(issued', KeyOf[t], ContextOf[t], call[t].asked.visible, m)
  OBVIOUS
<1>6. QED
  BY <1>1, <1>3, <1>4, <1>5, AnsweredInv

(* A request that ends without an answer. *)
LEMMA FailInv ==
    ASSUME IInv, NEW t \in Thread, Fail(t)
    PROVE  IInv'
<1>1. /\ call' = [call EXCEPT ![t] = NoCall]
      /\ UNCHANGED <<hist, store, issued, mine, counters>>
  BY DEF Fail
<1>2. issued' \in Seq(Issue) /\ Grows(issued, issued')
  BY <1>1, GrowsSame DEF IInv, TypeOK
<1>3. CallsMatch'
  BY <1>1, <1>2, NoCallMatches
<1>4. call' \in [Thread -> Call]
  BY <1>1, NoCallType DEF IInv, TypeOK
<1>5. TypeOK'
  BY <1>1, <1>4 DEF IInv, TypeOK, counters
<1>6. QED
  BY <1>1, <1>3, <1>5, CallsOf

(* A mark within the first n items stays in place when the rest is dropped. *)
LEMMA PlacedInShorter ==
    ASSUME NEW q \in Seq(Issue), NEW k, NEW c, NEW v \in Seq(Item),
           NEW n \in 0..Len(v), NEW m, Placed(q, k, c, v, m), m.at <= n
    PROVE  Placed(q, k, c, SubSeq(v, 1, n), m)
<1> DEFINE w == SubSeq(v, 1, n)
<1>1. m.at \in 0..Len(v)
  BY PlacedAt
<1>2. w \in Seq(Item) /\ Len(w) = n /\ \A i \in 1..n : w[i] = v[i]
  BY PrefixType
<1>3. Len(v) \in Nat
  BY LenProperties
<1>4. m.at \in 0..Len(w) /\ 1..m.at \subseteq 1..n
  BY <1>1, <1>2, <1>3
<1> HIDE DEF w
<1>5. /\ SubSeq(w, 1, m.at) \in Seq(Item) /\ Len(SubSeq(w, 1, m.at)) = m.at
      /\ \A i \in 1..m.at : SubSeq(w, 1, m.at)[i] = w[i]
  BY <1>2, <1>4, PrefixType
<1>6. /\ SubSeq(v, 1, m.at) \in Seq(Item) /\ Len(SubSeq(v, 1, m.at)) = m.at
      /\ \A i \in 1..m.at : SubSeq(v, 1, m.at)[i] = v[i]
  BY <1>1, PrefixType
<1>7. \A i \in 1..m.at : SubSeq(w, 1, m.at)[i] = SubSeq(v, 1, m.at)[i]
  BY <1>2, <1>4, <1>5, <1>6
<1>8. SubSeq(w, 1, m.at) = SubSeq(v, 1, m.at)
  BY <1>5, <1>6, <1>7, SeqEqual
<1>9. m.at <= Len(w)
  BY <1>2
<1>10. Placed(q, k, c, w, m)
  BY <1>8, <1>9 DEF Placed
<1>11. QED
  BY <1>10 DEF w

(* A client that goes back keeps the marks of what it keeps. *)
LEMMA ForkInv ==
    ASSUME IInv, NEW t \in Thread, Fork(t)
    PROVE  IInv'
<1>1. PICK n \in 0..Len(hist[t].visible) :
         /\ hist' = [hist EXCEPT ![t] = [visible |-> SubSeq(@.visible, 1, n),
                                         marks |-> UpTo(@.marks, n)]]
         /\ mine' = [mine EXCEPT ![t] = UpTo(@, n)]
  BY DEF Fork
<1>2. /\ hist \in [Thread -> Input] /\ issued \in Seq(Issue)
      /\ mine \in [Thread -> SUBSET Mark]
  BY DEF IInv, TypeOK
<1> DEFINE v == hist[t].visible
           h == [visible |-> SubSeq(v, 1, n), marks |-> UpTo(hist[t].marks, n)]
<1>3. v \in Seq(Item) /\ hist[t].marks \subseteq Mark
  BY <1>2 DEF Input
<1>4. hist' = [hist EXCEPT ![t] = h]
  BY <1>1
<1>5. SubSeq(v, 1, n) \in Seq(Item)
  BY <1>3, PrefixType
<1>6. h \in Input
  BY <1>3, <1>5 DEF Input, UpTo
<1>7. ASSUME NEW m \in h.marks
      PROVE  Placed(issued, KeyOf[t], ContextOf[t], h.visible, m)
  <2>1. m \in hist[t].marks /\ m.at < n
    BY <1>7 DEF UpTo
  <2>2. Placed(issued, KeyOf[t], ContextOf[t], v, m)
    BY <2>1 DEF IInv, ClientsPlaced
  <2>3. m.at \in 0..Len(v) /\ n \in 0..Len(v) /\ Len(v) \in Nat
    BY <1>2, <1>3, <2>2, PlacedAt, LenProperties
  <2>4. m.at <= n
    BY <2>1, <2>3
  <2>5. h.visible = SubSeq(v, 1, n)
    OBVIOUS
  <2> HIDE DEF h, v
  <2>6. Placed(issued, KeyOf[t], ContextOf[t], SubSeq(v, 1, n), m)
    BY <1>2, <1>3, <2>2, <2>3, <2>4, PlacedInShorter
  <2>7. QED
    BY <2>5, <2>6
<1> HIDE DEF h, v
<1>8. UNCHANGED <<call, store, issued, counters>>
  BY DEF Fork
<1>9. hist' \in [Thread -> Input] /\ mine' \in [Thread -> SUBSET Mark]
  <2>1. UpTo(mine[t], n) \in SUBSET Mark
    BY <1>2 DEF UpTo
  <2>2. QED
    BY <1>1, <1>2, <1>4, <1>6, <2>1
<1>10. TypeOK'
  BY <1>8, <1>9 DEF IInv, TypeOK, counters
<1>11. CallsMatch' /\ StoreSound'
  BY <1>8 DEF IInv, CallsMatch, StoreSound
<1>12. ClientsPlaced'
  <2>1. ASSUME NEW r \in Thread, NEW m \in hist'[r].marks
        PROVE  Placed(issued, KeyOf[r], ContextOf[r], hist'[r].visible, m)
    <3>1. CASE r = t
      <4>1. hist'[r] = h
        BY <1>2, <1>4, <3>1
      <4>2. QED
        BY <1>7, <2>1, <3>1, <4>1
    <3>2. CASE r # t
      <4>1. hist'[r] = hist[r]
        BY <1>2, <1>4, <3>2
      <4>2. QED
        BY <2>1, <4>1 DEF IInv, ClientsPlaced
    <3>3. QED
      BY <3>1, <3>2
  <2>2. QED
    BY <1>8, <2>1 DEF ClientsPlaced
<1>13. QED
  BY <1>10, <1>11, <1>12 DEF IInv

(* A restart empties the cache; what clients hold stays in place. *)
LEMMA RestartInv == IInv /\ Restart => IInv'
<1> SUFFICES ASSUME IInv, Restart PROVE IInv'
  OBVIOUS
<1>1. /\ restarts' = restarts + 1 /\ store' = {}
      /\ call' = [t \in Thread |-> NoCall]
      /\ mine' = [t \in Thread |-> {}]
      /\ UNCHANGED <<hist, issued, answers>>
  BY DEF Restart
<1>2. TypeOK'
  BY <1>1, NoCallType DEF IInv, TypeOK
<1>3. CallsMatch'
  BY <1>1 DEF CallsMatch, NoCall, NoInput
<1>4. ClientsPlaced' /\ StoreSound'
  BY <1>1 DEF IInv, ClientsPlaced, StoreSound
<1>5. QED
  BY <1>2, <1>3, <1>4 DEF IInv

-----------------------------------------------------------------------------
(* The invariant holds in every state. *)
THEOREM Invariant == Spec => []IInv
<1>1. IInv /\ [Next]_vars => IInv'
  <2> SUFFICES ASSUME IInv, [Next]_vars PROVE IInv'
    OBVIOUS
  <2>1. ASSUME NEW t \in Thread, ThreadStep(t) PROVE IInv'
    BY <2>1, AskInv, AnswerReasonedInv, AnswerPlainInv, FailInv, ForkInv DEF ThreadStep
  <2>2. CASE Restart
    BY <2>2, RestartInv
  <2>3. CASE UNCHANGED vars
    BY <2>3 DEF vars, counters, IInv, TypeOK, CallsMatch, ClientsPlaced, StoreSound
  <2>4. QED
    BY <2>1, <2>2, <2>3 DEF Next
<1>2. QED
  BY <1>1, InitInv, PTL DEF Spec

(* The state of the cache, the clients and the requests is well formed, and *)
(* the cache holds one decorated prefix for each key and fingerprint.       *)
THEOREM TypeCorrect == Spec => []TypeOK
<1>1. IInv => TypeOK
  BY DEF IInv
<1>2. QED
  BY <1>1, Invariant, PTL

(* The upstream is asked what the client asked, whatever the cache holds   *)
(* (reinject_codex_reasoning, reinject_codex_responses_reasoning).         *)
THEOREM RequestsFaithful == Spec => []SentIsAsked
<1>1. IInv => SentIsAsked
  BY DEF IInv, CallsMatch, SentIsAsked
<1>2. QED
  BY <1>1, Invariant, PTL

(* Reasoning is sent only in the session and context it was returned in,   *)
(* after the items it answered (the fingerprint of the prefix and what is  *)
(* stored under it).                                                       *)
THEOREM ReasoningPlaced == Spec => []ReasoningInPlace
<1>1. IInv => ReasoningInPlace
  BY DEF IInv, CallsMatch, ReasoningInPlace
<1>2. QED
  BY <1>1, Invariant, PTL
-----------------------------------------------------------------------------
(* No turn is left without its reasoning.  For a conversation of the chat  *)
(* path with nobody in its context, the cache holds for every answer of    *)
(* its history, up to which something was reasoned, an entry under the     *)
(* prefix that ends there, with at least that reasoning.  The entries of   *)
(* earlier answers are what a client that goes back depends on; they may   *)
(* be replaced, but only by ones with more.                                *)

OnItsOwn(t) == PathOf[t] = "chat" /\ KeyOf[t] # NoSession /\ Alone(t)

UserItem(x) == [role |-> "user", text |-> x, spelling |-> "as sent"]

(* Where the answers of an input stand. *)
AnswersIn(s) == {i \in 1..Len(s) : s[i].role = "assistant"}

(* The fingerprint of a prefix without reasoning of the client's own. *)
PrintOf(t, v) ==
    [context |-> ContextOf[t], prefix |-> [visible |-> Normal(v), marks |-> {}]]

Remembers(t, v, M) ==
    \E e \in store :
        e.key = KeyOf[t] /\ e.fp = PrintOf(t, v) /\ M \subseteq e.decorated.marks

Underway(t) ==
    call[t].on =>
        /\ \E x \in Text :
              call[t].asked.visible = hist[t].visible \o <<UserItem(x)>>
        /\ mine[t] \subseteq call[t].sent.marks

RoundTrip(t) ==
    /\ hist[t].marks = {} /\ call[t].asked.marks = {}
    /\ \A m \in mine[t] : m.at + 1 \in AnswersIn(hist[t].visible)
    /\ \A n \in AnswersIn(hist[t].visible) :
          UpTo(mine[t], n) # {}
              => Remembers(t, SubSeq(hist[t].visible, 1, n), UpTo(mine[t], n))
    /\ Underway(t)

Kept == \A t \in Thread : OnItsOwn(t) => RoundTrip(t)

(* The fingerprint of an input without marks. *)
LEMMA PrintOfInput ==
    ASSUME NEW t \in Thread, NEW v
    PROVE  FingerprintOf(t, [visible |-> v, marks |-> {}]) = PrintOf(t, v)
BY DEF FingerprintOf, PrintOf

(* A set of positions that is not empty has a last one. *)
LessThan == {p \in Nat \X Nat : p[1] < p[2]}
LEMMA LastExists ==
    ASSUME NEW k \in Nat, NEW S \in SUBSET (0..k), S # {}
    PROVE  \E n \in S : \A i \in S : i <= n
<1> DEFINE D == {d \in Nat : k - d \in S}
<1>1. \A i \in S : i \in Nat /\ k - i \in Nat /\ k - (k - i) = i
  OBVIOUS
<1>2. D \subseteq Nat /\ D # {}
  <2>1. PICK i \in S : TRUE
    OBVIOUS
  <2>2. k - i \in D
    BY <1>1
  <2>3. QED
    BY <2>2
<1>3. IsWellFoundedOn(LessThan, Nat)
  <2>1. LessThan = OpToRel(<, Nat)
    BY DEF OpToRel, LessThan
  <2>2. QED
    BY <2>1, NatLessThanWellFounded
<1> HIDE DEF D
<1>4. PICK d \in D : \A c \in D : ~(<<c, d>> \in LessThan)
  BY <1>2, <1>3, WFMin
<1>5. d \in Nat /\ k - d \in S
  BY <1>4 DEF D
<1>6. ASSUME NEW i \in S PROVE i <= k - d
  <2>1. k - i \in D
    BY <1>1 DEF D
  <2>2. ~(k - i < d)
    BY <1>2, <1>4, <2>1 DEF LessThan
  <2>3. QED
    BY <1>1, <1>5, <2>2
<1>7. QED
  BY <1>5, <1>6

(* The initial state: nothing was answered. *)
LEMMA InitKept == Init => Kept
<1> SUFFICES ASSUME Init, NEW t \in Thread PROVE RoundTrip(t)
  BY DEF Kept
<1>1. hist[t] = NoInput /\ call[t] = NoCall /\ mine[t] = {}
  BY DEF Init
<1>2. UpTo(mine[t], 0) = {} /\ \A n : UpTo(mine[t], n) = {}
  BY <1>1 DEF UpTo
<1>3. QED
  BY <1>1, <1>2 DEF RoundTrip, Underway, NoInput, NoCall

(* What a conversation depends on: its own history, request and marks, and *)
(* the cache.                                                              *)
LEMMA RoundTripStays ==
    ASSUME NEW t \in Thread, RoundTrip(t),
           hist'[t] = hist[t], call'[t] = call[t], mine'[t] = mine[t],
           \A e \in store : e.key = KeyOf[t] /\ e.fp.context = ContextOf[t] => e \in store'
    PROVE  RoundTrip(t)'
<1>1. Underway(t)'
  BY DEF RoundTrip, Underway
<1>2. ASSUME NEW n \in AnswersIn(hist[t].visible), UpTo(mine[t], n) # {}
      PROVE  Remembers(t, SubSeq(hist[t].visible, 1, n), UpTo(mine[t], n))'
  <2>1. PICK e \in store :
            /\ e.key = KeyOf[t] /\ e.fp = PrintOf(t, SubSeq(hist[t].visible, 1, n))
            /\ UpTo(mine[t], n) \subseteq e.decorated.marks
    BY <1>2 DEF RoundTrip, Remembers
  <2>2. e.fp.context = ContextOf[t]
    BY <2>1 DEF PrintOf
  <2>3. e \in store'
    BY <2>1, <2>2
  <2>4. QED
    BY <2>1, <2>3 DEF Remembers
<1>3. QED
  BY <1>1, <1>2 DEF RoundTrip

(* The request of a conversation of its own goes out with all its reasoning. *)
LEMMA ReinjectedKept ==
    ASSUME IInv, NEW t \in Thread, OnItsOwn(t), RoundTrip(t),
           NEW u \in Seq(Item), \A i \in 1..Len(u) : u[i].role = "user",
           NEW in \in Input, in.visible = hist[t].visible \o u, in.marks = {},
           NEW s \in Reinjected(t, in)
    PROVE  mine[t] \subseteq s.marks
<1> DEFINE h == hist[t].visible
           v == h \o u
<1>1. h \in Seq(Item) /\ mine[t] \subseteq Mark
  BY DEF IInv, TypeOK, Input
<1>3. in.visible = v /\ in.marks = {}
  OBVIOUS
<1>4. Len(h) \in Nat /\ Len(u) \in Nat
  BY <1>1, LenProperties
<1> HIDE DEF h
<1>5. /\ v \in Seq(Item) /\ Len(v) = Len(h) + Len(u)
      /\ \A i \in 1..Len(h) + Len(u) :
            v[i] = IF i <= Len(h) THEN h[i] ELSE u[i - Len(h)]
  BY <1>1, ConcatProperties
<1> HIDE DEF v
<1>6. Ends(in) = {0} \cup AnswersIn(h)
  <2>1. ASSUME NEW i \in 1..Len(v), ~(i <= Len(h)) PROVE v[i].role = "user"
    <3>1. i - Len(h) \in 1..Len(u) /\ v[i] = u[i - Len(h)]
      BY <1>4, <1>5, <2>1
    <3>2. QED
      BY <3>1
  <2>2. AnswersIn(v) = AnswersIn(h)
    <3>1. \A i \in 1..Len(h) : i \in 1..Len(v) /\ v[i] = h[i]
      BY <1>4, <1>5
    <3>2. \A i \in 1..Len(v) : i <= Len(h) => i \in 1..Len(h)
      OBVIOUS
    <3>3. QED
      BY <2>1, <3>1, <3>2 DEF AnswersIn
  <2>3. Ends(in) = {0} \cup AnswersIn(v)
    BY <1>3 DEF Ends, AnswersIn
  <2>4. QED
    BY <2>2, <2>3
<1>7. CASE mine[t] = {}
  BY <1>7
<1>8. CASE mine[t] # {}
  <2>1. PICK m0 \in mine[t] : TRUE
    BY <1>8
  <2>2. Ends(in) \in SUBSET (0..Len(h)) /\ Ends(in) # {}
    BY <1>4, <1>6 DEF AnswersIn
  <2>3. PICK n \in Ends(in) : \A i \in Ends(in) : i <= n
    BY <1>4, <2>2, LastExists
  <2>4. PrefixLens(in) = {n}
    <3> DEFINE E == Ends(in)
    <3>1. \A k \in E : k \in Nat
      BY <1>4, <2>2
    <3>2. n \in E /\ \A i \in E : i <= n
      BY <2>3
    <3>3. PrefixLens(in) = {k \in E : \A i \in E : i <= k}
      BY DEF PrefixLens
    <3> HIDE DEF E
    <3>4. \A k \in E : (\A i \in E : i <= k) <=> k = n
      BY <3>1, <3>2
    <3>5. QED
      BY <3>2, <3>3, <3>4
  <2>5. ASSUME NEW m \in mine[t] PROVE m.at < n /\ m.at \in Nat
    <3>1. m.at + 1 \in Ends(in)
      BY <1>6 DEF RoundTrip, h
    <3>2. m.at \in Nat
      BY <1>1 DEF Mark
    <3>3. n \in Nat /\ m.at + 1 <= n
      BY <1>4, <2>2, <2>3, <3>1
    <3> DEFINE a == m.at
    <3>4. a \in Nat /\ a + 1 <= n
      BY <3>2, <3>3
    <3> HIDE DEF a
    <3>5. a < n
      BY <3>3, <3>4
    <3>6. QED
      BY <3>2, <3>5 DEF a
  <2>6. n \in AnswersIn(h)
    <3> DEFINE a == m0.at
    <3>1. a < n /\ a \in Nat
      BY <2>1, <2>5
    <3> HIDE DEF a
    <3>2. n # 0
      BY <3>1
    <3>3. QED
      BY <1>6, <2>3, <3>2
  <2>7. UpTo(mine[t], n) = mine[t]
    BY <2>5 DEF UpTo
  <2>8. PICK e \in store :
            /\ e.key = KeyOf[t] /\ e.fp = PrintOf(t, SubSeq(h, 1, n))
            /\ mine[t] \subseteq e.decorated.marks
    BY <1>8, <2>6, <2>7 DEF RoundTrip, Remembers, h
  <2>9. FingerprintOf(t, Prefix(in, n)) = PrintOf(t, SubSeq(h, 1, n))
    <3>1. n \in 0..Len(h)
      BY <2>2
    <3>2. SubSeq(v, 1, n) = SubSeq(h, 1, n)
      BY <1>1, <3>1, PrefixOfConcat DEF v
    <3>3. Prefix(in, n) = [visible |-> SubSeq(h, 1, n), marks |-> {}]
      <4>1. Prefix(in, n) = [visible |-> SubSeq(in.visible, 1, n), marks |-> in.marks]
        BY InputExcept DEF Prefix
      <4>2. QED
        BY <1>3, <3>2, <4>1
    <3>4. QED
      BY <3>3, PrintOfInput
  <2>10. Cached(t, in, n) = {e}
    <3>1. \A f, g \in store : f.key = g.key /\ f.fp = g.fp => f = g
      BY DEF IInv, TypeOK
    <3>2. QED
      BY <2>8, <2>9, <3>1 DEF Cached
  <2>11. Hits(t, in) = {[e.decorated EXCEPT !.visible = @ \o Suffix(in, n)]}
    <3> DEFINE S(k) == {[f.decorated EXCEPT !.visible = @ \o Suffix(in, k)] :
                           f \in Cached(t, in, k)}
    <3>1. Hits(t, in) = UNION {S(k) : k \in {n}}
      BY <2>4 DEF Hits
    <3>2. S(n) = {[e.decorated EXCEPT !.visible = @ \o Suffix(in, n)]}
      BY <2>10
    <3> HIDE DEF S
    <3>3. QED
      BY <3>1, <3>2
  <2>12. s = [e.decorated EXCEPT !.visible = @ \o Suffix(in, n)]
    BY <2>11 DEF Reinjected, OnItsOwn
  <2>13. s.marks = e.decorated.marks
    <3>1. e.decorated \in Input
      BY DEF IInv, TypeOK, Entry
    <3>2. QED
      BY <2>12, <3>1 DEF Input
  <2>14. QED
    BY <2>8, <2>13
<1>9. QED
  BY <1>7, <1>8

(* The client asks. *)
LEMMA AskKept ==
    ASSUME IInv, Kept, NEW t \in Thread, Ask(t)
    PROVE  Kept'
<1> DEFINE u(x) == hist[t].visible \o <<UserItem(x)>>
<1>1. UNCHANGED <<hist, store, issued, mine, counters>>
  BY DEF Ask
<1>2. PICK x \in Text :
         LET in == [hist[t] EXCEPT !.visible =
                      @ \o <<[role |-> "user", text |-> x, spelling |-> "as sent"]>>]
         IN  \E s \in Reinjected(t, in) :
                call' = [call EXCEPT ![t] = [on |-> TRUE, asked |-> in, sent |-> s]]
  BY DEF Ask
<1> DEFINE in == [hist[t] EXCEPT !.visible = @ \o <<UserItem(x)>>]
<1>3. PICK s \in Reinjected(t, in) :
         call' = [call EXCEPT ![t] = [on |-> TRUE, asked |-> in, sent |-> s]]
  BY <1>2 DEF UserItem
<1>4. call \in [Thread -> Call] /\ hist[t] \in Input
  BY DEF IInv, TypeOK
<1>5. in = [visible |-> hist[t].visible \o <<UserItem(x)>>, marks |-> hist[t].marks]
  BY <1>4, InputExcept
<1> HIDE DEF in
<1>6. ASSUME NEW r \in Thread, OnItsOwn(r) PROVE RoundTrip(r)'
  <2>1. RoundTrip(r)
    BY <1>6 DEF Kept
  <2>2. CASE r # t
    BY <1>1, <1>3, <1>4, <2>1, <2>2, RoundTripStays
  <2>3. CASE r = t
    <3>1. hist[t].marks = {}
      BY <2>1, <2>3 DEF RoundTrip
    <3>2. in = [visible |-> hist[t].visible \o <<UserItem(x)>>, marks |-> {}]
      BY <1>5, <3>1
    <3> DEFINE w == <<UserItem(x)>>
    <3>3. w \in Seq(Item) /\ \A i \in 1..Len(w) : w[i].role = "user"
      <4>1. UserItem(x) \in Item /\ UserItem(x).role = "user"
        BY DEF UserItem, Item
      <4>2. QED
        BY <4>1, SingleItem
    <3>4. in.visible = hist[t].visible \o w /\ in.marks = {}
      BY <3>2
    <3> HIDE DEF w
    <3>5. in \in Input
      <4>1. hist[t].visible \o w \in Seq(Item)
        <5>1. hist[t].visible \in Seq(Item)
          BY <1>4 DEF Input
        <5>2. QED
          BY <3>3, <5>1, ConcatProperties
      <4>2. QED
        BY <3>2, <4>1 DEF Input, w
    <3>6. mine[t] \subseteq s.marks
      BY <1>6, <2>1, <2>3, <3>3, <3>4, <3>5, ReinjectedKept
    <3>7. /\ call'[t].asked.visible = hist[t].visible \o w
          /\ call'[t].asked.marks = {} /\ call'[t].sent = s
      <4>1. call'[t].asked = in /\ call'[t].sent = s
        BY <1>3, <1>4
      <4>2. QED
        BY <3>4, <4>1
    <3>8. Underway(t)'
      BY <1>1, <3>6, <3>7 DEF Underway, w
    <3>9. QED
      BY <1>1, <2>1, <2>3, <3>7, <3>8 DEF RoundTrip, Remembers
  <2>4. QED
    BY <2>2, <2>3
<1>7. QED
  BY <1>6 DEF Kept, OnItsOwn, Alone

(* A request that ends without an answer: nothing is lost but the request. *)
LEMMA FailKept ==
    ASSUME IInv, Kept, NEW t \in Thread, Fail(t)
    PROVE  Kept'
<1>1. /\ call' = [call EXCEPT ![t] = NoCall]
      /\ UNCHANGED <<hist, store, issued, mine, counters>>
  BY DEF Fail
<1>2. call \in [Thread -> Call]
  BY DEF IInv, TypeOK
<1>3. ASSUME NEW r \in Thread, OnItsOwn(r) PROVE RoundTrip(r)'
  <2>1. RoundTrip(r)
    BY <1>3 DEF Kept
  <2>2. CASE r # t
    BY <1>1, <1>2, <2>1, <2>2, RoundTripStays
  <2>3. CASE r = t
    <3>1. call'[t] = NoCall
      BY <1>1, <1>2
    <3>2. Underway(t)' /\ call'[t].asked.marks = {}
      BY <3>1 DEF Underway, NoCall, NoInput
    <3>3. QED
      BY <1>1, <2>1, <2>3, <3>2 DEF RoundTrip, Remembers
  <2>4. QED
    BY <2>2, <2>3
<1>4. QED
  BY <1>3 DEF Kept, OnItsOwn, Alone

(* A restart: the answers of before it are not among those promised. *)
LEMMA RestartKept ==
    ASSUME IInv, Kept, Restart
    PROVE  Kept'
<1>1. ASSUME NEW r \in Thread, OnItsOwn(r) PROVE RoundTrip(r)'
  <2>1. RoundTrip(r)
    BY <1>1 DEF Kept
  <2>2. call'[r] = NoCall /\ mine'[r] = {} /\ hist' = hist
    BY DEF Restart
  <2>3. \A n : UpTo(mine'[r], n) = {}
    BY <2>2 DEF UpTo
  <2>4. Underway(r)' /\ call'[r].asked.marks = {}
    BY <2>2 DEF Underway, NoCall, NoInput
  <2>5. QED
    BY <2>1, <2>2, <2>3, <2>4 DEF RoundTrip
<1>2. QED
  BY <1>1 DEF Kept, OnItsOwn, Alone

(* A client that goes back to an earlier answer finds the entry of it. *)
LEMMA ForkKept ==
    ASSUME IInv, Kept, NEW t \in Thread, Fork(t)
    PROVE  Kept'
<1>1. PICK k \in 0..Len(hist[t].visible) :
         /\ hist' = [hist EXCEPT ![t] = [visible |-> SubSeq(@.visible, 1, k),
                                         marks |-> UpTo(@.marks, k)]]
         /\ mine' = [mine EXCEPT ![t] = UpTo(@, k)]
  BY DEF Fork
<1>2. UNCHANGED <<call, store>> /\ ~call[t].on
  BY DEF Fork
<1>3. hist \in [Thread -> Input] /\ mine \in [Thread -> SUBSET Mark]
  BY DEF IInv, TypeOK
<1>4. ASSUME NEW r \in Thread, OnItsOwn(r) PROVE RoundTrip(r)'
  <2>1. RoundTrip(r)
    BY <1>4 DEF Kept
  <2>2. CASE r # t
    BY <1>1, <1>2, <1>3, <2>1, <2>2, RoundTripStays
  <2>3. CASE r = t
    <3> DEFINE v == hist[t].visible
               w == SubSeq(v, 1, k)
               M == mine[t]
               N == UpTo(M, k)
    <3>1. hist'[t] = [visible |-> w, marks |-> UpTo(hist[t].marks, k)] /\ mine'[t] = N
      BY <1>1, <1>3
    <3>2. hist'[t].visible = w /\ hist'[t].marks = {}
      <4>1. hist[t].marks = {}
        BY <2>1, <2>3 DEF RoundTrip
      <4>2. UpTo(hist[t].marks, k) = {}
        BY <4>1 DEF UpTo
      <4>3. QED
        BY <3>1, <4>2
    <3>3. v \in Seq(Item) /\ M \subseteq Mark /\ Len(v) \in Nat /\ k \in 0..Len(v)
      <4>1. v \in Seq(Item) /\ M \subseteq Mark
        BY <1>3 DEF Input
      <4>2. QED
        BY <4>1, LenProperties
    <3>4. /\ \A m \in M : m.at + 1 \in AnswersIn(v)
          /\ \A n \in AnswersIn(v) :
                UpTo(M, n) # {} => Remembers(t, SubSeq(v, 1, n), UpTo(M, n))
          /\ call[t].asked.marks = {}
      BY <2>1, <2>3 DEF RoundTrip
    <3> HIDE DEF v, M
    <3>5. /\ w \in Seq(Item) /\ Len(w) = k /\ \A i \in 1..k : w[i] = v[i]
      BY <3>3, PrefixType
    <3> HIDE DEF w
    <3>6. AnswersIn(w) = {n \in AnswersIn(v) : n <= k}
      BY <3>3, <3>5 DEF AnswersIn
    <3>7. ASSUME NEW m \in N PROVE m.at + 1 \in AnswersIn(w)
      <4>1. m \in M /\ m.at < k
        BY DEF UpTo
      <4>2. m.at \in Nat
        BY <3>3, <4>1 DEF Mark
      <4> DEFINE a == m.at
      <4>3. a \in Nat /\ a < k /\ a + 1 \in AnswersIn(v)
        BY <3>4, <4>1, <4>2
      <4> HIDE DEF a
      <4>4. a + 1 <= k
        BY <3>3, <4>3
      <4>5. a + 1 \in AnswersIn(w)
        BY <3>6, <4>3, <4>4
      <4>6. QED
        BY <4>5 DEF a
    <3>8. ASSUME NEW n \in AnswersIn(w), UpTo(N, n) # {}
          PROVE  Remembers(t, SubSeq(w, 1, n), UpTo(N, n))
      <4>1. n \in AnswersIn(v) /\ n <= k /\ n \in 1..k
        BY <3>3, <3>5, <3>6 DEF AnswersIn
      <4>2. UpTo(N, n) \subseteq UpTo(M, n)
        BY DEF UpTo
      <4>3. Remembers(t, SubSeq(v, 1, n), UpTo(M, n))
        BY <3>4, <3>8, <4>1, <4>2
      <4>4. SubSeq(w, 1, n) = SubSeq(v, 1, n)
        <5>1. n \in 0..Len(w) /\ n \in 0..Len(v)
          BY <3>3, <3>5, <4>1
        <5>2. /\ SubSeq(w, 1, n) \in Seq(Item) /\ Len(SubSeq(w, 1, n)) = n
              /\ \A i \in 1..n : SubSeq(w, 1, n)[i] = w[i]
          BY <3>5, <5>1, PrefixType
        <5>3. /\ SubSeq(v, 1, n) \in Seq(Item) /\ Len(SubSeq(v, 1, n)) = n
              /\ \A i \in 1..n : SubSeq(v, 1, n)[i] = v[i]
          BY <3>3, <5>1, PrefixType
        <5>4. \A i \in 1..n : SubSeq(w, 1, n)[i] = SubSeq(v, 1, n)[i]
          BY <3>3, <3>5, <4>1, <5>2, <5>3
        <5>5. QED
          BY <5>2, <5>3, <5>4, SeqEqual
      <4>5. QED
        BY <4>2, <4>3, <4>4 DEF Remembers
    <3> HIDE DEF N
    <3>9. /\ \A m \in mine'[t] : m.at + 1 \in AnswersIn(hist'[t].visible)
          /\ hist'[t].marks = {} /\ call'[t].asked.marks = {}
      BY <1>2, <3>1, <3>2, <3>4, <3>7
    <3>10. Underway(t)'
      BY <1>2 DEF Underway
    <3>11. (\A n \in AnswersIn(hist[t].visible) :
              UpTo(mine[t], n) # {}
                => Remembers(t, SubSeq(hist[t].visible, 1, n), UpTo(mine[t], n)))'
      <4>1. ASSUME NEW n \in AnswersIn(w), UpTo(N, n) # {}
            PROVE  \E e \in store' :
                      /\ e.key = KeyOf[t] /\ e.fp = PrintOf(t, SubSeq(w, 1, n))
                      /\ UpTo(N, n) \subseteq e.decorated.marks
        BY <1>2, <3>8, <4>1 DEF Remembers
      <4>2. QED
        BY <3>1, <3>2, <4>1 DEF Remembers
    <3>12. QED
      BY <2>3, <3>9, <3>10, <3>11 DEF RoundTrip
  <2>4. QED
    BY <2>2, <2>3
<1>5. QED
  BY <1>4 DEF Kept, OnItsOwn, Alone

(* What an answer leaves in the cache for a conversation of the chat path. *)
LEMMA NewEntryOfChat ==
    ASSUME IInv, NEW t \in Thread, PathOf[t] = "chat", call[t].asked.marks = {},
           NEW answer \in Seq(Item), NEW M, NEW e, e = NewEntry(t, answer, M)
    PROVE  /\ e.key = KeyOf[t]
           /\ e.fp = PrintOf(t, call[t].asked.visible \o answer)
           /\ e.decorated.marks = call[t].sent.marks \cup M
<1> DEFINE x == call[t].asked
<1>1. Expected(t) = x /\ x \in Input
  BY DEF Expected, IInv, TypeOK, Call
<1>2. [x EXCEPT !.visible = @ \o answer] = [visible |-> x.visible \o answer, marks |-> {}]
  <2>1. [x EXCEPT !.visible = @ \o answer]
          = [visible |-> x.visible \o answer, marks |-> x.marks]
    BY <1>1, InputExcept
  <2>2. QED
    BY <2>1
<1> HIDE DEF x
<1> DEFINE fp == FingerprintOf(t, [Expected(t) EXCEPT !.visible = @ \o answer])
<1>3. fp = PrintOf(t, x.visible \o answer)
  BY <1>1, <1>2, PrintOfInput
<1> HIDE DEF fp
<1>4. e = [key |-> KeyOf[t], fp |-> fp,
           decorated |-> [visible |-> call[t].sent.visible \o answer,
                          marks |-> call[t].sent.marks \cup M]]
  BY DEF NewEntry, Decorated, fp
<1>5. QED
  BY <1>3, <1>4 DEF x

(* An answer as the client spells it. *)
LEMMA SpeltAnswer ==
    ASSUME NEW answer \in AnswerItems, NEW sp, Spelt(answer, sp) \in Seq(Item)
    PROVE  /\ Spelt(answer, sp) \in Seq(Item)
           /\ Len(Spelt(answer, sp)) = IF answer = <<>> THEN 0 ELSE 1
           /\ \A i \in 1..Len(Spelt(answer, sp)) : Spelt(answer, sp)[i].role = "assistant"
           /\ Normal(Spelt(answer, sp)) = Normal(answer)
<1> DEFINE s == Spelt(answer, sp)
<1>1. answer \in Seq(Item) /\ s \in Seq(Item) /\ Len(answer) \in Nat
  BY AnswerType, LenProperties
<1>2. Len(s) = Len(answer)
  <2>1. DOMAIN s = 1..Len(answer)
    BY DEF Spelt
  <2> DEFINE k == Len(answer)
             l == Len(s)
  <2>2. 1..l = 1..k /\ l \in Nat /\ k \in Nat
    BY <1>1, <2>1, LenProperties
  <2> HIDE DEF k, l
  <2>3. l = k
    BY <2>2
  <2>4. QED
    BY <2>3 DEF k, l
<1>3. \A i \in 1..Len(answer) : answer[i] \in Item /\ answer[i].role = "assistant"
  <2>1. \A i \in 1..Len(answer) : answer[i] \in Item
    BY <1>1, ElementOfSeq
  <2>2. CASE answer = <<>>
    <3>1. Len(answer) = 0
      BY <2>2
    <3>2. QED
      BY <3>1
  <2>3. ASSUME NEW y \in Text,
               answer = <<[role |-> "assistant", text |-> y, spelling |-> "as sent"]>>
        PROVE  \A i \in 1..Len(answer) : answer[i].role = "assistant"
    <3>1. Len(answer) = 1 /\ answer[1].role = "assistant"
      BY <2>3
    <3>2. QED
      BY <3>1
  <2>4. QED
    BY <2>1, <2>2, <2>3 DEF AnswerItems
<1>4. Len(answer) = IF answer = <<>> THEN 0 ELSE 1
  <2>1. CASE answer = <<>>
    BY <2>1
  <2>2. ASSUME NEW y \in Text,
               answer = <<[role |-> "assistant", text |-> y, spelling |-> "as sent"]>>
        PROVE  answer # <<>> /\ Len(answer) = 1
    BY <2>2
  <2>3. QED
    BY <2>1, <2>2 DEF AnswerItems
<1>5. \A i \in 1..Len(answer) : s[i] = [answer[i] EXCEPT !.spelling = sp]
  BY DEF Spelt
<1> HIDE DEF s
<1>6. ASSUME NEW i \in 1..Len(s)
      PROVE  s[i].role = "assistant" /\ Plain(s[i]) = Plain(answer[i])
  <2>1. answer[i] \in Item /\ answer[i].role = "assistant"
    BY <1>2, <1>3
  <2>2. s[i] = [answer[i] EXCEPT !.spelling = sp]
    BY <1>2, <1>5
  <2>3. QED
    BY <2>1, <2>2 DEF Item, Plain
<1>7. Normal(s) = Normal(answer)
  BY <1>1, <1>2, <1>6, NormalEqual
<1>8. QED
  BY <1>1, <1>2, <1>4, <1>6, <1>7 DEF s

(* The history that a client has after an answer: the answers of before in *)
(* their places, and the new one, if there is one, at the end.             *)
Extends(h, a, w, s) ==
    /\ a \in Seq(Item) /\ w \in Seq(Item) /\ Len(a) = Len(h) + 1
    /\ \A n \in AnswersIn(h) :
          n \in AnswersIn(w) /\ n < Len(a) /\ SubSeq(w, 1, n) = SubSeq(h, 1, n)
    /\ \A n \in AnswersIn(w) \ AnswersIn(h) : Len(s) = 1 /\ SubSeq(w, 1, n) = w
    /\ Len(s) = 1 => Len(a) + 1 \in AnswersIn(w)
LEMMA AnswersAfter ==
    ASSUME NEW h \in Seq(Item), NEW u \in Seq(Item), NEW s \in Seq(Item),
           Len(u) = 1, u[1].role = "user", Len(s) \in {0, 1},
           \A i \in 1..Len(s) : s[i].role = "assistant",
           NEW a, a = h \o u, NEW w, w = a \o s
    PROVE  Extends(h, a, w, s)
<1>1. /\ a \in Seq(Item) /\ Len(a) = Len(h) + 1
      /\ \A i \in 1..Len(h) + 1 : a[i] = IF i <= Len(h) THEN h[i] ELSE u[i - Len(h)]
  BY ConcatProperties
<1>2. /\ w \in Seq(Item) /\ Len(w) = Len(a) + Len(s)
      /\ \A i \in 1..Len(a) + Len(s) : w[i] = IF i <= Len(a) THEN a[i] ELSE s[i - Len(a)]
  BY <1>1, ConcatProperties
<1>3. Len(h) \in Nat
  BY LenProperties
<1>4. \A i \in 1..Len(h) : i \in 1..Len(w) /\ w[i] = h[i] /\ i < Len(a)
  BY <1>1, <1>2, <1>3
<1>5. Len(h) + 1 \in 1..Len(w) /\ w[Len(h) + 1].role = "user"
  <2>1. Len(h) + 1 \in 1..Len(w) /\ w[Len(h) + 1] = a[Len(h) + 1]
    BY <1>1, <1>2, <1>3
  <2>2. a[Len(h) + 1] = u[1]
    BY <1>1, <1>3
  <2>3. QED
    BY <2>1, <2>2
<1>6. ASSUME NEW n \in AnswersIn(h)
      PROVE  n \in AnswersIn(w) /\ n < Len(a) /\ SubSeq(w, 1, n) = SubSeq(h, 1, n)
  <2>1. n \in 1..Len(h) /\ n \in AnswersIn(w) /\ n < Len(a)
    BY <1>4 DEF AnswersIn
  <2>2. n \in 0..Len(h) /\ n \in 0..Len(w)
    BY <1>1, <1>2, <1>3, <2>1
  <2>3. /\ SubSeq(w, 1, n) \in Seq(Item) /\ Len(SubSeq(w, 1, n)) = n
        /\ \A i \in 1..n : SubSeq(w, 1, n)[i] = w[i]
    BY <1>2, <2>2, PrefixType
  <2>4. /\ SubSeq(h, 1, n) \in Seq(Item) /\ Len(SubSeq(h, 1, n)) = n
        /\ \A i \in 1..n : SubSeq(h, 1, n)[i] = h[i]
    BY <2>2, PrefixType
  <2>5. \A i \in 1..n : i \in 1..Len(h)
    BY <1>3, <2>1
  <2>6. \A i \in 1..n : SubSeq(w, 1, n)[i] = SubSeq(h, 1, n)[i]
    BY <1>4, <2>3, <2>4, <2>5
  <2>7. QED
    BY <2>1, <2>3, <2>4, <2>6, SeqEqual
<1>7. SubSeq(w, 1, Len(w)) = w
  <2>1. Len(w) \in 0..Len(w)
    BY <1>2, LenProperties
  <2>2. /\ SubSeq(w, 1, Len(w)) \in Seq(Item) /\ Len(SubSeq(w, 1, Len(w))) = Len(w)
        /\ \A i \in 1..Len(w) : SubSeq(w, 1, Len(w))[i] = w[i]
    BY <1>2, <2>1, PrefixType
  <2>3. QED
    BY <1>2, <2>2, SeqEqual
<1>8. ASSUME NEW n \in AnswersIn(w), n \notin AnswersIn(h)
      PROVE  Len(s) = 1 /\ SubSeq(w, 1, n) = w
  <2>1. n \in 1..Len(w) /\ w[n].role = "assistant"
    BY DEF AnswersIn
  <2>2. ~(n <= Len(h))
    <3>1. ASSUME n \in 1..Len(h) PROVE n \in AnswersIn(h)
      BY <1>4, <2>1, <3>1 DEF AnswersIn
    <3>2. QED
      BY <1>3, <1>8, <2>1, <3>1
  <2>3. n # Len(h) + 1
    BY <1>5, <2>1
  <2>4. Len(s) = 1 /\ n = Len(w)
    BY <1>1, <1>2, <1>3, <2>1, <2>2, <2>3
  <2>5. QED
    BY <1>7, <2>4
<1>9. ASSUME Len(s) = 1 PROVE Len(a) + 1 \in AnswersIn(w)
  <2>1. Len(a) + 1 \in 1..Len(w) /\ w[Len(a) + 1] = s[1]
    BY <1>1, <1>2, <1>3, <1>9
  <2>2. 1 \in 1..Len(s)
    BY <1>9
  <2>3. QED
    BY <2>1, <2>2 DEF AnswersIn
<1>10. QED
  BY <1>1, <1>2, <1>6, <1>8, <1>9 DEF Extends

(* An answer: the entry it leaves is that of the new end of the history, and *)
(* whatever it replaces, it has more reasoning than that.                    *)
LEMMA AnsweredKept ==
    ASSUME IInv, Kept, NEW t \in Thread, NEW answer \in AnswerItems, NEW M \in SUBSET Mark,
           \A m \in M : m.at = Len(call[t].asked.visible), Answered(t, answer, M)
    PROVE  Kept'
<1> DEFINE e == NewEntry(t, answer, M)
<1>1. /\ hist \in [Thread -> Input] /\ call \in [Thread -> Call]
      /\ mine \in [Thread -> SUBSET Mark] /\ answer \in Seq(Item)
  BY AnswerType DEF IInv, TypeOK
<1>2. /\ call' = [call EXCEPT ![t] = NoCall]
      /\ store' = IF KeyOf[t] = NoSession THEN store ELSE Remember(e)
      /\ mine' = IF answer = <<>> THEN mine ELSE [mine EXCEPT ![t] = @ \cup M]
      /\ call[t].on
  BY DEF Answered, NewEntry
<1>3. PICK sp, echo :
         /\ Spelt(answer, sp) \in Seq(Item)
         /\ echo => PathOf[t] = "responses"
         /\ hist' = [hist EXCEPT ![t] =
                [visible |-> call[t].asked.visible \o Spelt(answer, sp),
                 marks |-> call[t].asked.marks \cup (IF echo THEN M ELSE {})]]
  <2>1. PICK sp \in {"as sent", "respelt"}, echo \in BOOLEAN :
           /\ echo => PathOf[t] = "responses"
           /\ hist' = [hist EXCEPT ![t] =
                  [visible |-> call[t].asked.visible \o Spelt(answer, sp),
                   marks |-> call[t].asked.marks \cup (IF echo THEN M ELSE {})]]
    BY DEF Answered
  <2>2. Spelt(answer, sp) \in Seq(Item)
    BY <1>1, SpeltType
  <2>3. QED
    BY <2>1, <2>2
<1>4. e.key = KeyOf[t] /\ e.fp.context = ContextOf[t]
  BY DEF NewEntry, FingerprintOf
<1> HIDE DEF e
<1>5. ASSUME NEW r \in Thread, OnItsOwn(r), r # t PROVE RoundTrip(r)'
  <2>1. RoundTrip(r)
    BY <1>5 DEF Kept
  <2>2. e.key # KeyOf[r] \/ e.fp.context # ContextOf[r]
    BY <1>4, <1>5 DEF OnItsOwn, Alone
  <2>3. \A f \in store : f.key = KeyOf[r] /\ f.fp.context = ContextOf[r] => f \in store'
    BY <1>2, <2>2 DEF Remember
  <2>4. hist'[r] = hist[r] /\ call'[r] = call[r] /\ mine'[r] = mine[r]
    BY <1>1, <1>2, <1>3, <1>5
  <2>5. QED
    BY <2>1, <2>3, <2>4, RoundTripStays
<1>6. ASSUME OnItsOwn(t) PROVE RoundTrip(t)'
  <2> DEFINE h == hist[t].visible
             a == call[t].asked.visible
             s == Spelt(answer, sp)
             w == a \o s
  <2>1. RoundTrip(t)
    BY <1>6 DEF Kept
  <2>2. PICK x \in Text : a = h \o <<UserItem(x)>>
    BY <1>2, <2>1 DEF RoundTrip, Underway
  <2> DEFINE u == <<UserItem(x)>>
  <2>3. u \in Seq(Item) /\ Len(u) = 1 /\ u[1].role = "user"
    <3>1. UserItem(x) \in Item /\ UserItem(x).role = "user"
      BY DEF UserItem, Item
    <3>2. QED
      BY <3>1, SingleItem
  <2>4. s \in Seq(Item)
    BY <1>3
  <2>5. /\ Len(s) = IF answer = <<>> THEN 0 ELSE 1
        /\ \A i \in 1..Len(s) : s[i].role = "assistant"
        /\ Normal(s) = Normal(answer)
    BY <2>4, SpeltAnswer
  <2>6. h \in Seq(Item) /\ a = h \o u /\ mine[t] \subseteq Mark
    BY <1>1, <2>2 DEF Input
  <2>7. /\ \A m \in mine[t] : m.at + 1 \in AnswersIn(h)
        /\ \A n \in AnswersIn(h) :
              UpTo(mine[t], n) # {} => Remembers(t, SubSeq(h, 1, n), UpTo(mine[t], n))
        /\ mine[t] \subseteq call[t].sent.marks
        /\ call[t].asked.marks = {}
    BY <1>2, <2>1 DEF RoundTrip, Underway
  <2>8. hist'[t].visible = w /\ hist'[t].marks = {}
    <3>1. hist'[t] = [visible |-> w, marks |-> call[t].asked.marks \cup (IF echo THEN M ELSE {})]
      BY <1>1, <1>3
    <3>2. ~echo
      BY <1>3, <1>6 DEF OnItsOwn
    <3>3. QED
      BY <2>7, <3>1, <3>2
  <2>9. mine'[t] = IF answer = <<>> THEN mine[t] ELSE mine[t] \cup M
    BY <1>1, <1>2
  <2>10. \A m \in M : m.at = Len(a)
    OBVIOUS
  <2>11. /\ e.key = KeyOf[t] /\ e.fp = PrintOf(t, a \o answer)
         /\ e.decorated.marks = call[t].sent.marks \cup M
    BY <1>1, <1>6, <2>7, NewEntryOfChat DEF e, OnItsOwn
  <2>12. store' = {f \in store : f.key # e.key \/ f.fp # e.fp} \cup {e}
    BY <1>2, <1>6 DEF Remember, OnItsOwn
  <2>13. call'[t] = NoCall
    BY <1>1, <1>2
  <2> HIDE DEF h, a, s, u, w
  <2>14. w = a \o s
    BY DEF w
  <2>15. Len(s) \in {0, 1} /\ \A i \in 1..Len(s) : s[i].role = "assistant"
    BY <2>5
  <2>16. /\ a \in Seq(Item) /\ w \in Seq(Item) /\ Len(a) = Len(h) + 1
         /\ \A n \in AnswersIn(h) :
               n \in AnswersIn(w) /\ n < Len(a) /\ SubSeq(w, 1, n) = SubSeq(h, 1, n)
         /\ \A n \in AnswersIn(w) \ AnswersIn(h) : Len(s) = 1 /\ SubSeq(w, 1, n) = w
         /\ Len(s) = 1 => Len(a) + 1 \in AnswersIn(w)
    <3>1. h \in Seq(Item) /\ a = h \o u
      BY <2>6
    <3>2. Extends(h, a, w, s)
      BY <2>3, <2>4, <2>14, <2>15, <3>1, AnswersAfter
    <3>3. QED
      BY <3>2 DEF Extends
  <2>17. e.fp = PrintOf(t, w)
    <3>1. Normal(w) = Normal(a \o answer)
      BY <1>1, <2>4, <2>5, <2>14, <2>16, NormalConcat
    <3>2. QED
      BY <2>11, <3>1 DEF PrintOf
  <2>18. mine'[t] \subseteq e.decorated.marks /\ mine'[t] \subseteq mine[t] \cup M
    BY <2>7, <2>9, <2>11
  <2>19. ASSUME NEW m \in mine'[t] PROVE m.at + 1 \in AnswersIn(w)
    <3>1. CASE m \in mine[t]
      BY <2>7, <2>16, <3>1
    <3>2. CASE m \notin mine[t]
      <4>1. m \in M /\ Len(s) = 1
        BY <2>5, <2>9, <2>19, <3>2
      <4>2. m.at = Len(a)
        BY <2>10, <4>1
      <4>3. QED
        BY <2>16, <4>1, <4>2
    <3>3. QED
      BY <3>1, <3>2
  <2>20. ASSUME NEW n \in AnswersIn(w), UpTo(mine'[t], n) # {}
         PROVE  \E f \in store' :
                   /\ f.key = KeyOf[t] /\ f.fp = PrintOf(t, SubSeq(w, 1, n))
                   /\ UpTo(mine'[t], n) \subseteq f.decorated.marks
    <3>1. UpTo(mine'[t], n) \subseteq e.decorated.marks
      BY <2>18 DEF UpTo
    <3>2. e \in store'
      BY <2>12
    <3>3. CASE n \notin AnswersIn(h)
      <4>1. SubSeq(w, 1, n) = w
        BY <2>16, <3>3
      <4>2. QED
        BY <2>11, <2>17, <3>1, <3>2, <4>1
    <3>4. CASE n \in AnswersIn(h)
      <4>1. n < Len(a) /\ SubSeq(w, 1, n) = SubSeq(h, 1, n)
        BY <2>16, <3>4
      <4>2. n \in Nat /\ Len(a) \in Nat
        BY <2>16, LenProperties DEF AnswersIn
      <4>3. UpTo(mine'[t], n) \subseteq UpTo(mine[t], n)
        <5>1. \A m \in M : ~(m.at < n)
          BY <2>10, <4>1, <4>2
        <5>2. QED
          BY <2>18, <5>1 DEF UpTo
      <4>4. Remembers(t, SubSeq(h, 1, n), UpTo(mine[t], n))
        BY <2>7, <2>20, <3>4, <4>3
      <4>5. PICK f \in store :
               /\ f.key = KeyOf[t] /\ f.fp = PrintOf(t, SubSeq(h, 1, n))
               /\ UpTo(mine[t], n) \subseteq f.decorated.marks
        BY <4>4 DEF Remembers
      <4>6. CASE f.fp = e.fp
        BY <2>11, <3>1, <3>2, <4>1, <4>5, <4>6
      <4>7. CASE f.fp # e.fp
        <5>1. f \in store'
          BY <2>12, <4>7
        <5>2. QED
          BY <4>1, <4>3, <4>5, <5>1
      <4>8. QED
        BY <4>6, <4>7
    <3>5. QED
      BY <3>3, <3>4
  <2>21. (\A n \in AnswersIn(hist[t].visible) :
            UpTo(mine[t], n) # {}
              => Remembers(t, SubSeq(hist[t].visible, 1, n), UpTo(mine[t], n)))'
    BY <2>8, <2>20 DEF Remembers
  <2>22. Underway(t)' /\ call'[t].asked.marks = {}
    BY <2>13 DEF Underway, NoCall, NoInput
  <2>23. QED
    BY <2>8, <2>19, <2>21, <2>22 DEF RoundTrip
<1>7. \A r \in Thread : OnItsOwn(r) => RoundTrip(r)'
  BY <1>5, <1>6
<1>8. QED
  BY <1>7 DEF Kept, OnItsOwn, Alone

(* An answer with reasoning, and one without. *)
LEMMA AnswerReasonedKept ==
    ASSUME IInv, Kept, NEW t \in Thread, AnswerReasoned(t)
    PROVE  Kept'
<1> DEFINE v == call[t].asked.visible
           mark == [at |-> Len(v), serial |-> Len(issued) + 1]
<1>1. PICK answer \in AnswerItems : Answered(t, answer, {mark})
  BY DEF AnswerReasoned
<1>2. issued \in Seq(Issue) /\ v \in Seq(Item)
  BY DEF IInv, TypeOK, Call, Input
<1>3. Len(issued) \in Nat /\ Len(v) \in Nat
  BY <1>2, LenProperties
<1>4. {mark} \in SUBSET Mark
  BY <1>3 DEF Mark
<1>5. \A m \in {mark} : m.at = Len(v)
  OBVIOUS
<1> HIDE DEF mark
<1>6. QED
  BY <1>1, <1>4, <1>5, AnsweredKept

LEMMA AnswerPlainKept ==
    ASSUME IInv, Kept, NEW t \in Thread, AnswerPlain(t)
    PROVE  Kept'
<1>1. PICK answer \in AnswerItems : Answered(t, answer, {})
  BY DEF AnswerPlain
<1>2. {} \in SUBSET Mark /\ \A m \in {} : m.at = Len(call[t].asked.visible)
  OBVIOUS
<1>3. QED
  BY <1>1, <1>2, AnsweredKept

(* Every answer that the history of a conversation of the chat path has    *)
(* since the start comes back with its reasoning (the update of the cache  *)
(* after an answer, and the lookup before the next request).               *)
THEOREM ReasoningComesBack == Spec => []ReasoningKept
<1>1. IInv /\ Kept /\ [Next]_vars => Kept'
  <2> SUFFICES ASSUME IInv, Kept, [Next]_vars PROVE Kept'
    OBVIOUS
  <2>1. ASSUME NEW t \in Thread, ThreadStep(t) PROVE Kept'
    BY <2>1, AskKept, AnswerReasonedKept, AnswerPlainKept, FailKept, ForkKept DEF ThreadStep
  <2>2. CASE Restart
    BY <2>2, RestartKept
  <2>3. CASE UNCHANGED vars
    <3>1. UNCHANGED <<hist, call, store, mine>>
      BY <2>3 DEF vars
    <3>2. \A t \in Thread : RoundTrip(t) => RoundTrip(t)'
      BY <3>1, RoundTripStays
    <3>3. QED
      BY <3>2 DEF Kept, OnItsOwn, Alone
  <2>4. QED
    BY <2>1, <2>2, <2>3 DEF Next
<1>2. Kept => ReasoningKept
  BY DEF Kept, RoundTrip, Underway, OnItsOwn, ReasoningKept
<1>3. QED
  BY <1>1, <1>2, InitKept, Invariant, PTL DEF Spec
=============================================================================
