------------------------ MODULE MessagesStreamProofs ------------------------
(***************************************************************************)
(* The events of a streamed answer are one well-formed message, for an     *)
(* upstream that sends its parts in order the blocks are numbered without  *)
(* a gap, and what is logged of a complete stream is what the upstream     *)
(* said, for any number of chunks and tool calls.                          *)
(*                                                                         *)
(* The first two properties are about each event and the ones before it,   *)
(* so that they hold of every beginning of a stream that they hold of:     *)
(* that covers a client that goes away at any yield.  The first invariant  *)
(* relates what the handler keeps (the open block, its flags and its map   *)
(* of tool calls) to the events it has emitted and to the chunks it was    *)
(* sent.  The second says that the message the events tell, and the one    *)
(* that the chunks say, are made of the same reasoning, text and calls.    *)
(***************************************************************************)
EXTENDS MessagesStream, SequenceTheorems, FiniteSetTheorems,
        WellFoundedInduction, TLAPS

-----------------------------------------------------------------------------
(* Sequences of events. *)

IsSeq(s) == \E S : s \in Seq(S)

(* t is s and one element more. *)
Adds(s, t, e) ==
    /\ Len(s) \in Nat /\ Len(t) = Len(s) + 1
    /\ DOMAIN s = 1..Len(s) /\ DOMAIN t = 1..Len(s) + 1
    /\ t[Len(s) + 1] = e
    /\ \A k \in 1..Len(s) : t[k] = s[k]

LEMMA AppendAdds ==
    ASSUME NEW s, IsSeq(s), NEW e
    PROVE  IsSeq(Append(s, e)) /\ Adds(s, Append(s, e), e)
<1>1. PICK S : s \in Seq(S)
  BY DEF IsSeq
<1> DEFINE T == S \cup {e}
           t == Append(s, e)
<1>2. s \in Seq(T) /\ e \in T
  BY <1>1, SeqMonotonic
<1> HIDE DEF T
<1>3. /\ t \in Seq(T) /\ Len(t) = Len(s) + 1
      /\ \A i \in 1..Len(s) : t[i] = s[i]
      /\ t[Len(s) + 1] = e
  BY <1>2, AppendProperties
<1> HIDE DEF t
<1>4. Len(s) \in Nat /\ DOMAIN s = 1..Len(s) /\ DOMAIN t = 1..Len(t)
  BY <1>2, <1>3, LenProperties
<1>5. IsSeq(t) /\ Adds(s, t, e)
  BY <1>3, <1>4 DEF IsSeq, Adds
<1>6. QED
  BY <1>5 DEF t

(* The empty sequence, and the beginnings of a sequence. *)
LEMMA EmptyIs == IsSeq(<<>>) /\ Len(<<>>) = 0 /\ DOMAIN <<>> = {}
<1>1. <<>> \in Seq({}) /\ Len(<<>>) = 0
  BY EmptySeq
<1>2. DOMAIN <<>> = 1..Len(<<>>)
  BY <1>1, LenProperties
<1>3. DOMAIN <<>> = 1..0 /\ 1..0 = {}
  BY <1>1, <1>2
<1>4. QED
  BY <1>1, <1>3 DEF IsSeq

LEMMA LenIs ==
    ASSUME NEW s, IsSeq(s)
    PROVE  Len(s) \in Nat /\ DOMAIN s = 1..Len(s) /\ (s = <<>> <=> Len(s) = 0)
<1>1. PICK S : s \in Seq(S)
  BY DEF IsSeq
<1>2. QED
  BY <1>1, LenProperties, EmptySeq

LEMMA BeginningIs ==
    ASSUME NEW s, IsSeq(s), NEW n \in 0..Len(s)
    PROVE  /\ IsSeq(SubSeq(s, 1, n)) /\ Len(SubSeq(s, 1, n)) = n
           /\ \A k \in 1..n : SubSeq(s, 1, n)[k] = s[k]
<1>1. PICK S : s \in Seq(S)
  BY DEF IsSeq
<1>2. Len(s) \in Nat
  BY LenIs
<1>3. \A i \in 1..n : s[i] \in S
  BY <1>1, <1>2, ElementOfSeq
<1>4. n \in Int /\ n >= 0
  BY <1>2
<1>5. /\ SubSeq(s, 1, n) \in Seq(S)
      /\ Len(SubSeq(s, 1, n)) = IF 1 <= n THEN n - 1 + 1 ELSE 0
      /\ \A i \in 1..(n - 1 + 1) : SubSeq(s, 1, n)[i] = s[1 + i - 1]
  BY <1>3, <1>4, SubSeqProperties
<1>6. IsSeq(SubSeq(s, 1, n))
  BY <1>5 DEF IsSeq
<1>7. QED
  BY <1>4, <1>5, <1>6

(* A set of positions that is not empty has a last one. *)
LessThan == {p \in Nat \X Nat : p[1] < p[2]}
LEMMA LastExists ==
    ASSUME NEW k \in Nat, NEW S \in SUBSET (0..k), S # {}
    PROVE  \E n \in S : \A i \in S : i <= n
<1> DEFINE D == {d \in Nat : k - d \in S}
<1>1. \A i \in S : i \in Nat /\ k - i \in Nat /\ k - (k - i) = i
  OBVIOUS
<1>2. D \subseteq Nat /\ D # {}
  <2>1. PICK i \in S : TRUE
    OBVIOUS
  <2>2. k - i \in D
    BY <1>1
  <2>3. QED
    BY <2>2
<1>3. IsWellFoundedOn(LessThan, Nat)
  <2>1. LessThan = OpToRel(<, Nat)
    BY DEF OpToRel, LessThan
  <2>2. QED
    BY <2>1, NatLessThanWellFounded
<1> HIDE DEF D
<1>4. PICK d \in D : \A c \in D : ~(<<c, d>> \in LessThan)
  BY <1>2, <1>3, WFMin
<1>5. d \in Nat /\ k - d \in S
  BY <1>4 DEF D
<1>6. ASSUME NEW i \in S PROVE i <= k - d
  <2>1. k - i \in D
    BY <1>1 DEF D
  <2>2. ~(k - i < d)
    BY <1>2, <1>4, <2>1 DEF LessThan
  <2>3. QED
    BY <1>1, <1>5, <2>2
<1>7. QED
  BY <1>5, <1>6

-----------------------------------------------------------------------------
(* What the properties say of one event. *)

Legal(events, k) ==
    /\ events[k].event = "message_start" <=> k = 1
    /\ events[k].event = "message_stop" => events[k - 1].event = "message_delta"
    /\ events[k].event \in {"content_block_start", "message_delta"} => OpenAt(events, k) = 0
    /\ events[k].event = "content_block_stop" =>
          /\ OpenAt(events, k) = 1
          /\ events[k].index = events[LastStart(events, k)].index

Begun(events, k) == Cardinality(Before(events, k, "content_block_start"))

Numbered(events, k) ==
    /\ events[k].event = "content_block_start" => events[k].index = Begun(events, k)
    /\ events[k].event = "content_block_delta" =>
          /\ OpenAt(events, k) = 1
          /\ events[k].index = events[LastStart(events, k)].index
          /\ events[k].type = events[LastStart(events, k)].type

WellFormed(events) ==
    \A k \in DOMAIN events :
        Legal(events, k) /\ (events[k].event = "message_stop" => k = Len(events))

AllNumbered(events) == \A k \in DOMAIN events : Numbered(events, k)

(* The events before a position are finitely many. *)
LEMMA BeforeFinite ==
    ASSUME NEW events, NEW k \in Nat, NEW x
    PROVE  /\ IsFiniteSet(Before(events, k, x)) /\ Cardinality(Before(events, k, x)) \in Nat
           /\ Before(events, k, x) \subseteq 1..(k - 1)
           /\ Before(events, k, x) = {} <=> Cardinality(Before(events, k, x)) = 0
<1>1. IsFiniteSet(1..(k - 1))
  BY FS_Interval
<1>2. Before(events, k, x) \in SUBSET (1..(k - 1))
  BY DEF Before
<1>3. IsFiniteSet(Before(events, k, x))
  BY <1>1, <1>2, FS_Subset
<1>4. Cardinality(Before(events, k, x)) \in Nat
  BY <1>3, FS_CardinalityType
<1>5. QED
  BY <1>2, <1>3, <1>4, FS_EmptySet

(* When a block is open, the one started last is among the events before. *)
LEMMA LastStartIs ==
    ASSUME NEW events, NEW k \in Nat, Before(events, k, "content_block_start") # {}
    PROVE  LastStart(events, k) \in Before(events, k, "content_block_start")
<1> DEFINE B == Before(events, k, "content_block_start")
<1>1. B \subseteq 1..(k - 1)
  BY BeforeFinite
<1>2. B \in SUBSET (0..k)
  BY <1>1
<1> HIDE DEF B
<1>3. \E l \in B : \A m \in B : m <= l
  BY <1>2, LastExists DEF B
<1>4. QED
  BY <1>3 DEF LastStart, B

LEMMA OpenStart ==
    ASSUME NEW events, NEW k \in Nat, OpenAt(events, k) = 1
    PROVE  LastStart(events, k) \in 1..(k - 1)
<1>1. Begun(events, k) \in Nat /\ Cardinality(Before(events, k, "content_block_stop")) \in Nat
  BY BeforeFinite DEF Begun
<1>2. Begun(events, k) # 0
  BY <1>1 DEF OpenAt, Begun
<1>3. Before(events, k, "content_block_start") # {}
  BY <1>2, BeforeFinite DEF Begun
<1>4. QED
  BY <1>3, LastStartIs, BeforeFinite

(* They depend on what comes before only. *)
LEMMA BeforeSame ==
    ASSUME NEW s, NEW t, NEW k \in Nat, \A l \in 1..(k - 1) : s[l] = t[l]
    PROVE  /\ \A x : Before(s, k, x) = Before(t, k, x)
           /\ OpenAt(s, k) = OpenAt(t, k) /\ Begun(s, k) = Begun(t, k)
           /\ LastStart(s, k) = LastStart(t, k)
<1>1. \A x : Before(s, k, x) = Before(t, k, x)
  BY DEF Before
<1>2. QED
  BY <1>1 DEF OpenAt, Begun, LastStart

LEMMA EventSame ==
    ASSUME NEW s, NEW t, NEW k \in Nat \ {0}, \A l \in 1..k : s[l] = t[l]
    PROVE  (Legal(s, k) => Legal(t, k)) /\ (Numbered(s, k) => Numbered(t, k))
<1>1. \A l \in 1..(k - 1) : s[l] = t[l]
  OBVIOUS
<1>2. /\ OpenAt(s, k) = OpenAt(t, k) /\ Begun(s, k) = Begun(t, k)
      /\ LastStart(s, k) = LastStart(t, k)
  BY <1>1, BeforeSame
<1>3. s[k] = t[k]
  OBVIOUS
<1>4. OpenAt(s, k) = 1 => s[LastStart(s, k)] = t[LastStart(t, k)]
  BY <1>1, <1>2, OpenStart
<1>5. k # 1 => s[k - 1] = t[k - 1]
  OBVIOUS
<1>6. ASSUME Legal(s, k) PROVE Legal(t, k)
  <2>1. t[k].event = "message_stop" => t[k - 1].event = "message_delta"
    BY <1>3, <1>5, <1>6 DEF Legal
  <2>2. QED
    BY <1>2, <1>3, <1>4, <1>6, <2>1 DEF Legal
<1>7. Numbered(s, k) => Numbered(t, k)
  BY <1>2, <1>3, <1>4 DEF Numbered
<1>8. QED
  BY <1>6, <1>7

LEMMA Squeezed == \A a, b \in Nat : a <= b /\ b <= a => a = b
OBVIOUS

(* So they hold of the beginnings of a stream. *)
LEMMA BeginningHolds ==
    ASSUME NEW s, IsSeq(s), NEW n \in 0..Len(s)
    PROVE  /\ WellFormed(s) => WellFormed(SubSeq(s, 1, n))
           /\ AllNumbered(s) => AllNumbered(SubSeq(s, 1, n))
<1> DEFINE t == SubSeq(s, 1, n)
<1>1. IsSeq(t) /\ Len(t) = n /\ \A k \in 1..n : t[k] = s[k]
  BY BeginningIs
<1>2. Len(s) \in Nat /\ DOMAIN s = 1..Len(s) /\ DOMAIN t = 1..n
  BY <1>1, LenIs
<1> HIDE DEF t
<1>3. ASSUME NEW k \in DOMAIN t
      PROVE  /\ k \in DOMAIN s /\ t[k] = s[k] /\ k <= n
             /\ Legal(s, k) => Legal(t, k)
             /\ Numbered(s, k) => Numbered(t, k)
  <2>1. k \in DOMAIN s /\ k \in Nat \ {0} /\ t[k] = s[k] /\ k <= n
    BY <1>1, <1>2
  <2>2. \A l \in 1..k : s[l] = t[l]
    BY <1>1, <1>2, <2>1
  <2>3. QED
    BY <2>1, <2>2, EventSame
<1>4. ASSUME WellFormed(s), NEW k \in DOMAIN t, t[k].event = "message_stop" PROVE k = Len(t)
  <2>1. k = Len(s)
    <3>1. k \in DOMAIN s /\ t[k] = s[k]
      BY <1>3
    <3>2. QED
      BY <1>4, <3>1 DEF WellFormed
  <2>2. k <= n /\ n <= k /\ k \in Nat /\ n \in Nat
    BY <1>2, <1>3, <2>1
  <2>3. k = n
    BY <2>2, Squeezed
  <2>4. QED
    BY <1>1, <2>3
<1>5. WellFormed(s) => WellFormed(t)
  BY <1>3, <1>4 DEF WellFormed
<1>6. AllNumbered(s) => AllNumbered(t)
  BY <1>3 DEF AllNumbered
<1>7. QED
  BY <1>5, <1>6 DEF t

-----------------------------------------------------------------------------
(* The events so far: how many blocks are open, how many were begun, and   *)
(* which start was the last.                                               *)

OpenNow(s) == OpenAt(s, Len(s) + 1)
BegunNow(s) == Begun(s, Len(s) + 1)
LastNow(s) == LastStart(s, Len(s) + 1)

(* One event more. *)
LEMMA Added ==
    ASSUME NEW s, IsSeq(s), NEW e, NEW t, t = Append(s, e)
    PROVE  /\ IsSeq(t) /\ Adds(s, t, e)
           /\ OpenAt(t, Len(t)) = OpenNow(s) /\ Begun(t, Len(t)) = BegunNow(s)
           /\ LastStart(t, Len(t)) = LastNow(s)
           /\ \A k \in DOMAIN s :
                 (Legal(s, k) => Legal(t, k)) /\ (Numbered(s, k) => Numbered(t, k))
<1>1. IsSeq(t) /\ Adds(s, t, e)
  BY AppendAdds
<1>2. Len(s) \in Nat /\ Len(t) = Len(s) + 1 /\ DOMAIN s = 1..Len(s)
      /\ \A l \in 1..Len(s) : s[l] = t[l]
  BY <1>1 DEF Adds
<1>3. \A l \in 1..(Len(s) + 1 - 1) : s[l] = t[l]
  BY <1>2
<1>4. Len(s) + 1 \in Nat
  BY <1>2
<1>5. /\ OpenAt(s, Len(s) + 1) = OpenAt(t, Len(s) + 1)
      /\ Begun(s, Len(s) + 1) = Begun(t, Len(s) + 1)
      /\ LastStart(s, Len(s) + 1) = LastStart(t, Len(s) + 1)
  <2> DEFINE n == Len(s) + 1
  <2>1. n \in Nat /\ \A l \in 1..(n - 1) : s[l] = t[l]
    BY <1>3, <1>4
  <2> HIDE DEF n
  <2>2. /\ OpenAt(s, n) = OpenAt(t, n) /\ Begun(s, n) = Begun(t, n)
        /\ LastStart(s, n) = LastStart(t, n)
    BY <2>1, BeforeSame
  <2>3. QED
    BY <2>2 DEF n
<1>6. ASSUME NEW k \in DOMAIN s
      PROVE  (Legal(s, k) => Legal(t, k)) /\ (Numbered(s, k) => Numbered(t, k))
  <2>1. k \in Nat \ {0} /\ \A l \in 1..k : s[l] = t[l]
    BY <1>2
  <2>2. QED
    BY <2>1, EventSame
<1>7. QED
  BY <1>1, <1>2, <1>5, <1>6 DEF OpenNow, BegunNow, LastNow

BeforeAdds(s, t, e, x) ==
    /\ e.event = x => Before(t, Len(t) + 1, x) = Before(s, Len(s) + 1, x) \cup {Len(t)}
    /\ e.event # x => Before(t, Len(t) + 1, x) = Before(s, Len(s) + 1, x)
    /\ e.event = x => Cardinality(Before(t, Len(t) + 1, x))
                         = Cardinality(Before(s, Len(s) + 1, x)) + 1

LEMMA AddedBefore ==
    ASSUME NEW s, IsSeq(s), NEW e, NEW t, t = Append(s, e), NEW x
    PROVE  BeforeAdds(s, t, e, x)
<1>1. Adds(s, t, e)
  BY AppendAdds
<1>2. Len(s) \in Nat /\ Len(t) = Len(s) + 1 /\ t[Len(t)] = e
      /\ \A l \in 1..Len(s) : s[l] = t[l]
  BY <1>1 DEF Adds
<1> DEFINE B == {l \in 1..Len(s) : s[l].event = x}
           C == {l \in 1..Len(t) : t[l].event = x}
<1>3. Before(s, Len(s) + 1, x) = B /\ Before(t, Len(t) + 1, x) = C
  BY <1>2 DEF Before
<1>4. e.event = x => C = B \cup {Len(t)}
  BY <1>2
<1>5. e.event # x => C = B
  BY <1>2
<1>6. Len(t) \notin B
  BY <1>2
<1>7. IsFiniteSet(B)
  <2>1. Len(s) + 1 \in Nat
    BY <1>2
  <2> HIDE DEF B, C
  <2>2. QED
    BY <1>3, <2>1, BeforeFinite
<1> HIDE DEF B, C
<1>8. e.event = x => Cardinality(C) = Cardinality(B) + 1
  BY <1>4, <1>6, <1>7, FS_AddElement
<1>9. QED
  BY <1>3, <1>4, <1>5, <1>8 DEF BeforeAdds

LEMMA AddedNow ==
    ASSUME NEW s, IsSeq(s), NEW e, NEW t, t = Append(s, e)
    PROVE  /\ e.event = "content_block_start" =>
                 /\ OpenNow(t) = OpenNow(s) + 1 /\ BegunNow(t) = BegunNow(s) + 1
                 /\ LastNow(t) = Len(t)
           /\ e.event = "content_block_stop" =>
                 OpenNow(t) = OpenNow(s) - 1 /\ BegunNow(t) = BegunNow(s)
           /\ e.event \notin {"content_block_start", "content_block_stop"} =>
                 /\ OpenNow(t) = OpenNow(s) /\ BegunNow(t) = BegunNow(s)
                 /\ LastNow(t) = LastNow(s)
<1> DEFINE Start(u) == Before(u, Len(u) + 1, "content_block_start")
           Stop(u) == Before(u, Len(u) + 1, "content_block_stop")
<1>1. Adds(s, t, e)
  BY AppendAdds
<1>2. Len(s) \in Nat /\ Len(t) = Len(s) + 1
  BY <1>1 DEF Adds
<1>3. /\ Cardinality(Start(s)) \in Nat /\ Cardinality(Stop(s)) \in Nat
      /\ Cardinality(Start(t)) \in Nat /\ Cardinality(Stop(t)) \in Nat
      /\ Start(s) \subseteq 1..Len(s)
  <2>1. Len(s) + 1 \in Nat /\ Len(t) + 1 \in Nat /\ Len(s) + 1 - 1 = Len(s)
    BY <1>2
  <2>2. \A u, x : Len(u) + 1 \in Nat => Cardinality(Before(u, Len(u) + 1, x)) \in Nat
    BY BeforeFinite
  <2>3. Before(s, Len(s) + 1, "content_block_start") \subseteq 1..Len(s)
    BY <2>1 DEF Before
  <2>4. QED
    BY <2>1, <2>2, <2>3
<1>4. /\ e.event = "content_block_start" =>
            /\ Start(t) = Start(s) \cup {Len(t)}
            /\ Cardinality(Start(t)) = Cardinality(Start(s)) + 1
      /\ e.event # "content_block_start" => Start(t) = Start(s)
  <2>1. BeforeAdds(s, t, e, "content_block_start")
    BY AddedBefore
  <2>2. QED
    BY <2>1 DEF BeforeAdds
<1>5. /\ e.event = "content_block_stop" => Cardinality(Stop(t)) = Cardinality(Stop(s)) + 1
      /\ e.event # "content_block_stop" => Stop(t) = Stop(s)
  <2>1. BeforeAdds(s, t, e, "content_block_stop")
    BY AddedBefore
  <2>2. QED
    BY <2>1 DEF BeforeAdds
<1>6. ASSUME NEW u PROVE /\ OpenNow(u) = Cardinality(Start(u)) - Cardinality(Stop(u))
                         /\ BegunNow(u) = Cardinality(Start(u))
                         /\ LastNow(u) = CHOOSE l \in Start(u) : \A m \in Start(u) : m <= l
  BY DEF OpenNow, OpenAt, BegunNow, Begun, LastNow, LastStart
<1> HIDE DEF Start, Stop
<1>7. CASE e.event = "content_block_start"
  <2>1. \A m \in Start(t) : m <= Len(t)
    BY <1>2, <1>3, <1>4, <1>7
  <2>2. LastNow(t) \in Start(t) /\ \A m \in Start(t) : m <= LastNow(t)
    BY <1>4, <1>6, <1>7, <2>1
  <2>3. LastNow(t) = Len(t)
    BY <1>2, <1>3, <1>4, <1>7, <2>1, <2>2
  <2>4. OpenNow(t) = OpenNow(s) + 1 /\ BegunNow(t) = BegunNow(s) + 1
    BY <1>3, <1>4, <1>5, <1>6, <1>7
  <2>5. QED
    BY <1>7, <2>3, <2>4
<1>8. CASE e.event = "content_block_stop"
  BY <1>3, <1>4, <1>5, <1>6, <1>8
<1>9. CASE e.event \notin {"content_block_start", "content_block_stop"}
  BY <1>3, <1>4, <1>5, <1>6, <1>9
<1>10. QED
  BY <1>7, <1>8, <1>9

-----------------------------------------------------------------------------
(* The events while the message goes on: type tells the open block ("none" *)
(* if there is none) and index its number.                                 *)

OpenIs(s, type, index) ==
    /\ OpenNow(s) = IF type = "none" THEN 0 ELSE 1
    /\ type # "none" => s[LastNow(s)].index = index /\ s[LastNow(s)].type = type

GoesOn(s) ==
    /\ IsSeq(s)
    /\ \A k \in DOMAIN s :
          Legal(s, k) /\ s[k].event \notin {"message_delta", "message_stop"}

Streaming(s, type, index) == GoesOn(s) /\ OpenIs(s, type, index)

LEMMA StreamingWellFormed ==
    ASSUME NEW s, NEW type, NEW index, Streaming(s, type, index)
    PROVE  IsSeq(s) /\ WellFormed(s)
BY DEF Streaming, GoesOn, WellFormed

(* One event more than a stream that goes on. *)
LEMMA AddedGoesOn ==
    ASSUME NEW s, GoesOn(s), NEW e, NEW t, t = Append(s, e), Legal(t, Len(t)),
           e.event \notin {"message_delta", "message_stop"}
    PROVE  GoesOn(t)
<1>1. IsSeq(s)
  BY DEF GoesOn
<1>2. /\ IsSeq(t) /\ Adds(s, t, e)
      /\ \A k \in DOMAIN s : Legal(s, k) => Legal(t, k)
  BY <1>1, Added
<1>3. ASSUME NEW k \in DOMAIN t
      PROVE  Legal(t, k) /\ t[k].event \notin {"message_delta", "message_stop"}
  <2>1. CASE k \in 1..Len(s)
    <3>1. k \in DOMAIN s /\ t[k] = s[k]
      BY <1>2, <2>1 DEF Adds
    <3>2. QED
      BY <1>2, <3>1 DEF GoesOn
  <2>2. CASE k \notin 1..Len(s)
    <3>1. k = Len(t) /\ t[k] = e
      BY <1>2, <2>2 DEF Adds
    <3>2. QED
      BY <3>1
  <2>3. QED
    BY <2>1, <2>2
<1>4. QED
  BY <1>2, <1>3 DEF GoesOn

LEMMA AddedNumbered ==
    ASSUME NEW s, IsSeq(s), NEW e, NEW t, t = Append(s, e),
           AllNumbered(s), Numbered(t, Len(t))
    PROVE  AllNumbered(t)
<1>1. /\ Adds(s, t, e)
      /\ \A k \in DOMAIN s : Numbered(s, k) => Numbered(t, k)
  BY Added
<1>2. ASSUME NEW k \in DOMAIN t PROVE Numbered(t, k)
  <2>1. CASE k \in 1..Len(s)
    <3>1. k \in DOMAIN s
      BY <1>1, <2>1 DEF Adds
    <3>2. QED
      BY <1>1, <3>1 DEF AllNumbered
  <2>2. CASE k \notin 1..Len(s)
    <3>1. k = Len(t)
      BY <1>1, <2>2 DEF Adds
    <3>2. QED
      BY <3>1
  <2>3. QED
    BY <2>1, <2>2
<1>3. QED
  BY <1>2 DEF AllNumbered

(* The block that is open was started by one of the events. *)
LEMMA OpenStarted ==
    ASSUME NEW s, IsSeq(s), OpenNow(s) = 1
    PROVE  LastNow(s) \in 1..Len(s)
<1>1. Len(s) + 1 \in Nat /\ Len(s) + 1 - 1 = Len(s)
  BY LenIs
<1>2. OpenAt(s, Len(s) + 1) = 1
  BY DEF OpenNow
<1>3. LastStart(s, Len(s) + 1) \in 1..(Len(s) + 1 - 1)
  BY <1>1, <1>2, OpenStart
<1>4. QED
  BY <1>1, <1>3 DEF LastNow

(* What an added event sees of the ones before. *)
Sees(s, t, e, type, index) ==
    /\ IsSeq(t) /\ Len(t) \in Nat /\ t[Len(t)] = e /\ t # <<>>
    /\ Len(t) = 1 <=> s = <<>>
    /\ OpenAt(t, Len(t)) = IF type = "none" THEN 0 ELSE 1
    /\ Begun(t, Len(t)) = BegunNow(s)
    /\ type # "none" => /\ t[LastStart(t, Len(t))].index = index
                        /\ t[LastStart(t, Len(t))].type = type
                        /\ LastStart(t, Len(t)) = LastNow(s)
                        /\ t[LastNow(s)] = s[LastNow(s)]

LEMMA AddedSees ==
    ASSUME NEW s, IsSeq(s), NEW e, NEW t, t = Append(s, e),
           NEW type, NEW index, OpenIs(s, type, index)
    PROVE  Sees(s, t, e, type, index)
<1>1. /\ IsSeq(t) /\ Adds(s, t, e)
      /\ OpenAt(t, Len(t)) = OpenNow(s) /\ Begun(t, Len(t)) = BegunNow(s)
      /\ LastStart(t, Len(t)) = LastNow(s)
  BY Added
<1>2. Len(s) \in Nat /\ Len(t) = Len(s) + 1 /\ t[Len(t)] = e
      /\ \A l \in 1..Len(s) : t[l] = s[l]
  BY <1>1 DEF Adds
<1>3. s = <<>> <=> Len(s) = 0
  BY LenIs
<1>4. OpenNow(s) = IF type = "none" THEN 0 ELSE 1
  BY DEF OpenIs
<1>5. type # "none" => t[LastNow(s)] = s[LastNow(s)]
  BY <1>2, <1>4, OpenStarted
<1>6. type # "none" => s[LastNow(s)].index = index /\ s[LastNow(s)].type = type
  BY DEF OpenIs
<1>7. Len(t) \in Nat /\ (Len(t) = 1 <=> s = <<>>)
  BY <1>2, <1>3
<1>8. t # <<>>
  BY <1>1, <1>2, LenIs
<1>9. QED
  BY <1>1, <1>2, <1>4, <1>5, <1>6, <1>7, <1>8 DEF Sees

-----------------------------------------------------------------------------
(* The events a stream is made of, each where the handler emits it. Begins *)
(* and Stays tell what one does to the blocks begun and to their numbers.  *)

Begins(s, t, n) == BegunNow(t) = BegunNow(s) + n
Stays(s, t) == AllNumbered(s) => AllNumbered(t)

LEMMA EmptyStream ==
    /\ \A index : Streaming(<<>>, "none", index)
    /\ BegunNow(<<>>) = 0 /\ WellFormed(<<>>) /\ AllNumbered(<<>>)
<1>1. IsSeq(<<>>) /\ Len(<<>>) = 0 /\ DOMAIN <<>> = {}
  BY EmptyIs
<1>2. \A x : Before(<<>>, Len(<<>>) + 1, x) = {}
  BY <1>1 DEF Before
<1>3. Cardinality({}) = 0
  BY FS_EmptySet
<1>4. OpenNow(<<>>) = 0 /\ BegunNow(<<>>) = 0
  <2> DEFINE B(x) == Before(<<>>, Len(<<>>) + 1, x)
  <2>1. B("content_block_start") = {} /\ B("content_block_stop") = {}
    BY <1>2
  <2>2. /\ OpenNow(<<>>) = Cardinality(B("content_block_start")) - Cardinality(B("content_block_stop"))
        /\ BegunNow(<<>>) = Cardinality(B("content_block_start"))
    BY DEF OpenNow, OpenAt, BegunNow, Begun
  <2> HIDE DEF B
  <2>3. /\ Cardinality(B("content_block_start")) = 0
        /\ Cardinality(B("content_block_stop")) = 0
    BY <1>3, <2>1
  <2>4. QED
    BY <2>2, <2>3
<1>5. \A index : OpenIs(<<>>, "none", index)
  BY <1>4 DEF OpenIs
<1>6. GoesOn(<<>>) /\ WellFormed(<<>>) /\ AllNumbered(<<>>)
  BY <1>1 DEF GoesOn, WellFormed, AllNumbered
<1>7. QED
  BY <1>4, <1>5, <1>6 DEF Streaming

LEMMA BegunIsNat == ASSUME NEW s, IsSeq(s) PROVE BegunNow(s) \in Nat
<1>1. Len(s) + 1 \in Nat
  BY LenIs
<1>2. QED
  BY <1>1, BeforeFinite DEF BegunNow, Begun

LEMMA FirstEvent ==
    ASSUME NEW e, e.event = "message_start", NEW t, t = Append(<<>>, e), NEW index
    PROVE  Streaming(t, "none", index) /\ t # <<>> /\ Begins(<<>>, t, 0) /\ Stays(<<>>, t)
<1>1. /\ IsSeq(<<>>) /\ GoesOn(<<>>) /\ AllNumbered(<<>>)
      /\ OpenIs(<<>>, "none", index) /\ BegunNow(<<>>) = 0
  BY EmptyStream DEF Streaming, GoesOn
<1>2. /\ IsSeq(t) /\ t[Len(t)] = e /\ Len(t) = 1 /\ t # <<>>
      /\ OpenNow(t) = 0 /\ BegunNow(t) = 0
  <2>1. Sees(<<>>, t, e, "none", index)
    BY <1>1, AddedSees
  <2>2. OpenNow(t) = OpenNow(<<>>) /\ BegunNow(t) = BegunNow(<<>>)
    BY <1>1, AddedNow
  <2>3. QED
    BY <1>1, <2>1, <2>2 DEF Sees, OpenIs
<1>3. Legal(t, Len(t)) /\ Numbered(t, Len(t))
  BY <1>2 DEF Legal, Numbered
<1>4. GoesOn(t) /\ AllNumbered(t)
  BY <1>1, <1>3, AddedGoesOn, AddedNumbered
<1>5. OpenIs(t, "none", index)
  BY <1>2 DEF OpenIs
<1>6. QED
  BY <1>1, <1>2, <1>4, <1>5 DEF Streaming, Begins, Stays

LEMMA StartEvent ==
    ASSUME NEW s, s # <<>>, NEW before, Streaming(s, "none", before),
           NEW e, e.event = "content_block_start", e.type # "none",
           NEW t, t = Append(s, e)
    PROVE  /\ Streaming(t, e.type, e.index) /\ t # <<>>
           /\ Begins(s, t, 1) /\ (e.index = BegunNow(s) => Stays(s, t))
<1>1. IsSeq(s) /\ GoesOn(s) /\ OpenIs(s, "none", before)
  BY DEF Streaming, GoesOn
<1>2. /\ IsSeq(t) /\ Len(t) \in Nat /\ t[Len(t)] = e
      /\ Len(t) # 1 /\ OpenAt(t, Len(t)) = 0 /\ Begun(t, Len(t)) = BegunNow(s)
  <2>1. Sees(s, t, e, "none", before)
    BY <1>1, AddedSees
  <2>2. QED
    BY <2>1 DEF Sees
<1>3. OpenNow(t) = OpenNow(s) + 1 /\ BegunNow(t) = BegunNow(s) + 1 /\ LastNow(t) = Len(t)
  BY <1>1, AddedNow
<1>4. OpenNow(t) = 1
  BY <1>1, <1>3 DEF OpenIs
<1>5. OpenIs(t, e.type, e.index)
  BY <1>2, <1>3, <1>4 DEF OpenIs
<1>6. Legal(t, Len(t)) /\ (e.index = BegunNow(s) => Numbered(t, Len(t)))
  BY <1>2 DEF Legal, Numbered
<1>7. GoesOn(t)
  BY <1>1, <1>6, AddedGoesOn
<1>8. AllNumbered(s) /\ e.index = BegunNow(s) => AllNumbered(t)
  BY <1>1, <1>6, AddedNumbered
<1>9. t # <<>>
  BY <1>1, Added, EmptyIs DEF Adds
<1>10. QED
  BY <1>3, <1>5, <1>7, <1>8, <1>9 DEF Streaming, Begins, Stays

LEMMA StopEvent ==
    ASSUME NEW s, s # <<>>, NEW type, type # "none", NEW index,
           Streaming(s, type, index),
           NEW e, e.event = "content_block_stop", e.index = index,
           NEW t, t = Append(s, e), NEW other
    PROVE  Streaming(t, "none", other) /\ t # <<>> /\ Begins(s, t, 0) /\ Stays(s, t)
<1>1. IsSeq(s) /\ GoesOn(s) /\ OpenIs(s, type, index)
  BY DEF Streaming, GoesOn
<1>2. /\ IsSeq(t) /\ Len(t) \in Nat /\ t[Len(t)] = e
      /\ Len(t) # 1 /\ OpenAt(t, Len(t)) = 1
      /\ t[LastStart(t, Len(t))].index = index
  <2>1. Sees(s, t, e, type, index)
    BY <1>1, AddedSees
  <2>2. QED
    BY <2>1 DEF Sees
<1>3. OpenNow(t) = OpenNow(s) - 1 /\ BegunNow(t) = BegunNow(s)
  BY <1>1, AddedNow
<1>4. OpenNow(t) = 0
  BY <1>1, <1>3 DEF OpenIs
<1>5. OpenIs(t, "none", other)
  BY <1>4 DEF OpenIs
<1>6. Legal(t, Len(t)) /\ Numbered(t, Len(t))
  BY <1>2 DEF Legal, Numbered
<1>7. GoesOn(t) /\ (AllNumbered(s) => AllNumbered(t))
  BY <1>1, <1>6, AddedGoesOn, AddedNumbered
<1>8. t # <<>>
  BY <1>1, Added, EmptyIs DEF Adds
<1>9. BegunNow(s) \in Nat
  BY <1>1, BegunIsNat
<1>10. QED
  BY <1>3, <1>5, <1>7, <1>8, <1>9 DEF Streaming, Begins, Stays

LEMMA DeltaEvent ==
    ASSUME NEW s, s # <<>>, NEW type, NEW index, Streaming(s, type, index),
           NEW e, e.event = "content_block_delta", NEW t, t = Append(s, e)
    PROVE  /\ Streaming(t, type, index) /\ t # <<>> /\ Begins(s, t, 0)
           /\ type # "none" /\ e.index = index /\ e.type = type => Stays(s, t)
<1> DEFINE fits == type # "none" /\ e.index = index /\ e.type = type
<1>1. IsSeq(s) /\ GoesOn(s) /\ OpenIs(s, type, index)
  BY DEF Streaming, GoesOn
<1>2. /\ IsSeq(t) /\ Len(t) \in Nat /\ t[Len(t)] = e /\ Len(t) # 1
      /\ type # "none" => /\ OpenAt(t, Len(t)) = 1
                          /\ t[LastStart(t, Len(t))].index = index
                          /\ t[LastStart(t, Len(t))].type = type
                          /\ t[LastNow(s)] = s[LastNow(s)]
  <2>1. Sees(s, t, e, type, index)
    BY <1>1, AddedSees
  <2>2. QED
    BY <2>1 DEF Sees
<1>3. OpenNow(t) = OpenNow(s) /\ BegunNow(t) = BegunNow(s) /\ LastNow(t) = LastNow(s)
  BY <1>1, AddedNow
<1>4. OpenIs(t, type, index)
  BY <1>1, <1>2, <1>3 DEF OpenIs
<1>5. Legal(t, Len(t)) /\ (fits => Numbered(t, Len(t)))
  BY <1>2 DEF Legal, Numbered
<1>6. GoesOn(t)
  BY <1>1, <1>5, AddedGoesOn
<1>7. AllNumbered(s) /\ fits => AllNumbered(t)
  BY <1>1, <1>5, AddedNumbered
<1>8. t # <<>>
  BY <1>1, Added, EmptyIs DEF Adds
<1>9. BegunNow(s) \in Nat
  BY <1>1, BegunIsNat
<1>10. QED
  BY <1>3, <1>4, <1>6, <1>7, <1>8, <1>9 DEF Streaming, Begins, Stays

(* The end of the message. *)
LEMMA EndEvents ==
    ASSUME NEW s, s # <<>>, NEW index, Streaming(s, "none", index),
           NEW d, d.event = "message_delta", NEW e, e.event = "message_stop",
           NEW t, t = Append(s, d), NEW u, u = Append(t, e)
    PROVE  IsSeq(u) /\ WellFormed(u) /\ (AllNumbered(s) => AllNumbered(u))
<1>1. IsSeq(s) /\ GoesOn(s) /\ OpenIs(s, "none", index)
  BY DEF Streaming, GoesOn
<1>2. /\ IsSeq(t) /\ Len(t) \in Nat /\ t[Len(t)] = d /\ Len(t) # 1
      /\ OpenAt(t, Len(t)) = 0
  <2>1. Sees(s, t, d, "none", index)
    BY <1>1, AddedSees
  <2>2. QED
    BY <2>1 DEF Sees
<1>3. /\ Adds(s, t, d)
      /\ \A k \in DOMAIN s : Legal(s, k) => Legal(t, k)
  BY <1>1, Added
<1>4. Legal(t, Len(t)) /\ Numbered(t, Len(t))
  BY <1>2 DEF Legal, Numbered
<1>5. AllNumbered(s) => AllNumbered(t)
  BY <1>1, <1>4, AddedNumbered
<1>6. /\ IsSeq(u) /\ Adds(t, u, e)
      /\ \A k \in DOMAIN t : Legal(t, k) => Legal(u, k)
  BY <1>2, Added
<1>7. /\ Len(s) \in Nat /\ Len(t) = Len(s) + 1 /\ Len(u) = Len(t) + 1
      /\ DOMAIN s = 1..Len(s) /\ DOMAIN t = 1..Len(t) /\ DOMAIN u = 1..Len(u)
      /\ \A k \in 1..Len(s) : t[k] = s[k]
      /\ \A k \in 1..Len(t) : u[k] = t[k]
      /\ u[Len(u)] = e
  <2>1. QED
    BY <1>3, <1>6 DEF Adds
<1>8. s # <<>> => Len(s) # 0
  BY <1>1, LenIs
<1>9. u[Len(u) - 1] = d
  <2>1. Len(u) - 1 = Len(t) /\ Len(t) \in 1..Len(t)
    BY <1>7
  <2>2. QED
    BY <1>2, <1>7, <2>1
<1>10. Legal(u, Len(u)) /\ Numbered(u, Len(u))
  <2>1. Len(u) # 1
    BY <1>7, <1>8
  <2>2. QED
    BY <1>7, <1>9, <2>1 DEF Legal, Numbered
<1>11. AllNumbered(s) => AllNumbered(u)
  BY <1>2, <1>5, <1>10, AddedNumbered
<1>12. ASSUME NEW k \in DOMAIN u
       PROVE  Legal(u, k) /\ (u[k].event = "message_stop" => k = Len(u))
  <2>1. CASE k \in 1..Len(s)
    <3>1. k \in DOMAIN s /\ k \in DOMAIN t /\ t[k] = s[k] /\ u[k] = t[k]
      BY <1>7, <2>1
    <3>2. Legal(s, k) /\ s[k].event # "message_stop"
      BY <1>1, <3>1 DEF GoesOn
    <3>3. QED
      BY <1>3, <1>6, <3>1, <3>2
  <2>2. CASE k = Len(t)
    <3>1. k \in DOMAIN t /\ u[k] = d
      BY <1>2, <1>7, <2>2
    <3>2. QED
      BY <1>4, <1>6, <2>2, <3>1
  <2>3. CASE k = Len(u)
    BY <1>10, <2>3
  <2>4. k \in 1..Len(s) \/ k = Len(t) \/ k = Len(u)
    BY <1>7
  <2>5. QED
    BY <2>1, <2>2, <2>3, <2>4
<1>13. WellFormed(u)
  BY <1>12 DEF WellFormed
<1>14. QED
  BY <1>6, <1>11, <1>13

LEMMA NoSteps == ASSUME NEW s, IsSeq(s) PROVE Begins(s, s, 0) /\ Stays(s, s)
<1>1. BegunNow(s) \in Nat
  BY BegunIsNat
<1>2. QED
  BY <1>1 DEF Begins, Stays

-----------------------------------------------------------------------------
(* The writer: its variables tell how its events stand. *)

IsWriter(w) ==
    w = [type |-> w.type, index |-> w.index, thinking |-> w.thinking, text |-> w.text,
         tools |-> w.tools, finish |-> w.finish, events |-> w.events]

Tracks(w) ==
    /\ IsWriter(w)
    /\ Streaming(w.events, w.type, w.index)
    /\ w.events = <<>> => w.type = "none"

Runs(w) == Tracks(w) /\ w.events # <<>>

(* v has the flags and the map of w. *)
Same(w, v) == v.thinking = w.thinking /\ v.text = w.text /\ v.tools = w.tools

(* v has begun no block more, and its blocks are numbered if w's are. *)
Quiet(w, v) == Begins(w.events, v.events, 0) /\ Stays(w.events, v.events)

LEMMA EmitIs ==
    ASSUME NEW w, IsWriter(w), NEW event, NEW index, NEW type, NEW piece,
           NEW v, v = Emit(w, event, index, type, piece)
    PROVE  /\ IsWriter(v) /\ Same(w, v) /\ v.type = w.type /\ v.index = w.index
           /\ \E e : /\ v.events = Append(w.events, e) /\ e.event = event
                     /\ e.index = index /\ e.type = type
<1> DEFINE e == [event |-> event, index |-> index, type |-> type, piece |-> piece]
<1>1. e.event = event /\ e.index = index /\ e.type = type
  OBVIOUS
<1>2. v = [w EXCEPT !.events = Append(@, e)]
  BY DEF Emit
<1> HIDE DEF e
<1>3. IsWriter(v) /\ Same(w, v) /\ v.type = w.type /\ v.index = w.index
  BY <1>2 DEF IsWriter, Same
<1>4. v.events = Append(w.events, e)
  BY <1>2 DEF IsWriter
<1>5. QED
  BY <1>1, <1>3, <1>4

LEMMA StartedIs ==
    ASSUME NEW w, Tracks(w), NEW v, v = Started(w)
    PROVE  /\ Runs(v) /\ Same(w, v) /\ v.type = w.type /\ v.index = w.index
           /\ Quiet(w, v)
<1>1. CASE w.events = <<>>
  <2>1. v = Emit(w, "message_start", NoIndex, "none", Empty)
    BY <1>1 DEF Started
  <2>2. IsWriter(w) /\ w.type = "none"
    BY <1>1 DEF Tracks
  <2>3. PICK e : /\ IsWriter(v) /\ Same(w, v) /\ v.type = w.type /\ v.index = w.index
                 /\ v.events = Append(w.events, e) /\ e.event = "message_start"
    BY <2>1, <2>2, EmitIs
  <2>4. /\ Streaming(v.events, "none", w.index) /\ v.events # <<>>
        /\ Quiet(w, v)
    BY <1>1, <2>3, FirstEvent DEF Quiet
  <2>5. QED
    BY <2>2, <2>3, <2>4 DEF Runs, Tracks
<1>2. CASE w.events # <<>>
  <2>1. v = w
    BY <1>2 DEF Started
  <2>2. IsSeq(w.events)
    BY StreamingWellFormed DEF Tracks
  <2>3. Quiet(w, v)
    BY <2>1, <2>2, NoSteps DEF Quiet
  <2>4. QED
    BY <1>2, <2>1, <2>3 DEF Runs, Same
<1>3. QED
  BY <1>1, <1>2

LEMMA StoppedIs ==
    ASSUME NEW w, Runs(w), NEW v, v = Stopped(w)
    PROVE  /\ Runs(v) /\ Same(w, v) /\ v.type = "none" /\ v.index = w.index
           /\ Quiet(w, v)
<1>1. CASE w.type = "none"
  <2>1. v = w
    BY <1>1 DEF Stopped
  <2>2. IsSeq(w.events)
    BY StreamingWellFormed DEF Runs, Tracks
  <2>3. Quiet(w, v)
    BY <2>1, <2>2, NoSteps DEF Quiet
  <2>4. QED
    BY <1>1, <2>1, <2>3 DEF Same
<1>2. CASE w.type # "none"
  <2> DEFINE x == Emit(w, "content_block_stop", w.index, "none", Empty)
  <2>1. v = [x EXCEPT !.type = "none"]
    BY <1>2 DEF Stopped
  <2>2. IsWriter(w)
    BY DEF Runs, Tracks
  <2>3. PICK e : /\ IsWriter(x) /\ Same(w, x) /\ x.index = w.index
                 /\ x.events = Append(w.events, e)
                 /\ e.event = "content_block_stop" /\ e.index = w.index
    BY <2>2, EmitIs
  <2> HIDE DEF x
  <2>4. IsWriter(v) /\ Same(w, v) /\ v.type = "none" /\ v.index = w.index /\ v.events = x.events
    BY <2>1, <2>3 DEF IsWriter, Same
  <2>5. w.events # <<>> /\ Streaming(w.events, w.type, w.index)
    BY DEF Runs, Tracks
  <2>6. /\ Streaming(v.events, "none", v.index) /\ v.events # <<>>
        /\ Quiet(w, v)
    BY <1>2, <2>3, <2>4, <2>5, StopEvent DEF Quiet
  <2>7. QED
    BY <2>4, <2>6 DEF Runs, Tracks
<1>3. QED
  BY <1>1, <1>2

LEMMA StartBlockIs ==
    ASSUME NEW w, Runs(w), w.type = "none", NEW type, type # "none", NEW index,
           NEW v, v = StartBlock(w, type, index)
    PROVE  /\ Runs(v) /\ Same(w, v) /\ v.type = type /\ v.index = index
           /\ Begins(w.events, v.events, 1) /\ (index = BegunNow(w.events) => Stays(w.events, v.events))
<1> DEFINE x == Emit(w, "content_block_start", index, type, Empty)
<1>1. v = [x EXCEPT !.type = type, !.index = index]
  BY DEF StartBlock
<1>2. IsWriter(w)
  BY DEF Runs, Tracks
<1>3. PICK e : /\ IsWriter(x) /\ Same(w, x)
               /\ x.events = Append(w.events, e)
               /\ e.event = "content_block_start" /\ e.index = index /\ e.type = type
  BY <1>2, EmitIs
<1> HIDE DEF x
<1>4. IsWriter(v) /\ Same(w, v) /\ v.type = type /\ v.index = index /\ v.events = x.events
  BY <1>1, <1>3 DEF IsWriter, Same
<1>5. w.events # <<>> /\ Streaming(w.events, "none", w.index)
  BY DEF Runs, Tracks
<1>6. /\ Streaming(v.events, type, index) /\ v.events # <<>>
      /\ Begins(w.events, v.events, 1) /\ (index = BegunNow(w.events) => Stays(w.events, v.events))
  BY <1>3, <1>4, <1>5, StartEvent
<1>7. QED
  BY <1>4, <1>6 DEF Runs, Tracks

LEMMA DeltaIs ==
    ASSUME NEW w, Runs(w), NEW index, NEW type, NEW piece,
           NEW v, v = Emit(w, "content_block_delta", index, type, piece)
    PROVE  /\ Runs(v) /\ Same(w, v) /\ v.type = w.type /\ v.index = w.index
           /\ Begins(w.events, v.events, 0)
           /\ w.type # "none" /\ index = w.index /\ type = w.type => Stays(w.events, v.events)
<1>1. IsWriter(w) /\ w.events # <<>> /\ Streaming(w.events, w.type, w.index)
  BY DEF Runs, Tracks
<1>2. PICK e : /\ IsWriter(v) /\ Same(w, v) /\ v.type = w.type /\ v.index = w.index
               /\ v.events = Append(w.events, e) /\ e.event = "content_block_delta"
               /\ e.index = index /\ e.type = type
  BY <1>1, EmitIs
<1>3. /\ Streaming(v.events, w.type, w.index) /\ v.events # <<>>
      /\ Begins(w.events, v.events, 0)
      /\ w.type # "none" /\ e.index = w.index /\ e.type = w.type => Stays(w.events, v.events)
  BY <1>1, <1>2, DeltaEvent
<1>4. QED
  BY <1>2, <1>3 DEF Runs, Tracks

(* A block of that type is open: the one that was, or a new one. *)
IsOpened(w, v, type, index) ==
    /\ Runs(v) /\ Same(w, v) /\ v.type = type
    /\ w.type = type => Quiet(w, v) /\ v.index = w.index
    /\ w.type # type => /\ v.index = index /\ Begins(w.events, v.events, 1)
                        /\ index = BegunNow(w.events) => Stays(w.events, v.events)

LEMMA OpenedIs ==
    ASSUME NEW w, Runs(w), NEW type, type # "none", NEW index, NEW v, v = Opened(w, type, index)
    PROVE  IsOpened(w, v, type, index)
<1>1. IsSeq(w.events)
  BY StreamingWellFormed DEF Runs, Tracks
<1>2. CASE w.type = type
  <2>1. v = w
    BY <1>2 DEF Opened
  <2>2. Quiet(w, v)
    BY <1>1, <2>1, NoSteps DEF Quiet
  <2>3. QED
    BY <1>2, <2>1, <2>2 DEF IsOpened, Same
<1>3. CASE w.type # type
  <2> DEFINE x == Stopped(w)
  <2>1. v = StartBlock(x, type, index)
    BY <1>3 DEF Opened
  <2>2. Runs(x) /\ Same(w, x) /\ x.type = "none" /\ Quiet(w, x)
    BY StoppedIs
  <2> HIDE DEF x
  <2>3. /\ Runs(v) /\ Same(x, v) /\ v.type = type /\ v.index = index
        /\ Begins(x.events, v.events, 1)
        /\ index = BegunNow(x.events) => Stays(x.events, v.events)
    BY <2>1, <2>2, StartBlockIs
  <2>4. BegunNow(w.events) \in Nat
    BY <1>1, BegunIsNat
  <2>5. BegunNow(x.events) = BegunNow(w.events)
    BY <2>2, <2>4 DEF Quiet, Begins
  <2>6. Begins(w.events, v.events, 1)
    BY <2>3, <2>5 DEF Begins
  <2>7. index = BegunNow(w.events) => Stays(w.events, v.events)
    BY <2>2, <2>3, <2>5 DEF Quiet, Stays
  <2>8. Same(w, v)
    BY <2>2, <2>3 DEF Same
  <2>9. QED
    BY <1>3, <2>3, <2>6, <2>7, <2>8 DEF IsOpened
<1>4. QED
  BY <1>2, <1>3

-----------------------------------------------------------------------------
(* How the variables stand while reasoning, text and tool calls come in    *)
(* that order: the block that is open is the last one that was begun.      *)

Shape(w) ==
    /\ w.thinking \in BOOLEAN /\ w.text \in BOOLEAN
    /\ AllNumbered(w.events)
    /\ w.tools = {} =>
          /\ w.type = IF w.text THEN "text" ELSE IF w.thinking THEN "thinking" ELSE "none"
          /\ BegunNow(w.events) = One(w.thinking) + One(w.text)
    /\ w.tools # {} => w.type = "tool_use"
    /\ w.type # "none" => w.index = BegunNow(w.events) - 1

(* A tool call has one block, and the last one's is open. *)
OneEach(w) == \A m, n \in w.tools : m.tool = n.tool => m = n
Current(w, tool) == \E m \in w.tools : m.tool = tool /\ m.index = w.index

LEMMA RunsIs ==
    ASSUME NEW w, Runs(w)
    PROVE  /\ IsWriter(w) /\ Tracks(w) /\ IsSeq(w.events) /\ WellFormed(w.events)
           /\ BegunNow(w.events) \in Nat
BY StreamingWellFormed, BegunIsNat DEF Runs, Tracks

LEMMA ThinkingFlag ==
    ASSUME NEW w, Runs(w), NEW v, v = [w EXCEPT !.thinking = TRUE]
    PROVE  /\ Runs(v) /\ v.thinking = TRUE /\ v.text = w.text /\ v.tools = w.tools
           /\ v.type = w.type /\ v.index = w.index /\ v.events = w.events
<1>1. IsWriter(w) /\ w.events # <<>> /\ Streaming(w.events, w.type, w.index)
  BY DEF Runs, Tracks
<1>2. /\ IsWriter(v) /\ v.thinking = TRUE /\ v.text = w.text /\ v.tools = w.tools
      /\ v.type = w.type /\ v.index = w.index /\ v.events = w.events
  BY <1>1 DEF IsWriter
<1>3. QED
  BY <1>1, <1>2 DEF Runs, Tracks

LEMMA TextFlag ==
    ASSUME NEW w, Runs(w), NEW v, v = [w EXCEPT !.text = TRUE]
    PROVE  /\ Runs(v) /\ v.text = TRUE /\ v.thinking = w.thinking /\ v.tools = w.tools
           /\ v.type = w.type /\ v.index = w.index /\ v.events = w.events
<1>1. IsWriter(w) /\ w.events # <<>> /\ Streaming(w.events, w.type, w.index)
  BY DEF Runs, Tracks
<1>2. /\ IsWriter(v) /\ v.text = TRUE /\ v.thinking = w.thinking /\ v.tools = w.tools
      /\ v.type = w.type /\ v.index = w.index /\ v.events = w.events
  BY <1>1 DEF IsWriter
<1>3. QED
  BY <1>1, <1>2 DEF Runs, Tracks

(* A block of a type gets a delta. *)
LEMMA WrittenIs ==
    ASSUME NEW w, Runs(w), NEW type, type # "none", NEW index, NEW x, x = Opened(w, type, index),
           NEW piece, NEW v, v = Emit(x, "content_block_delta", x.index, type, piece)
    PROVE  IsOpened(w, v, type, index)
<1>1. IsOpened(w, x, type, index)
  BY OpenedIs
<1>2. Runs(x) /\ x.type = type
  BY <1>1 DEF IsOpened
<1>3. /\ Runs(v) /\ Same(x, v) /\ v.type = x.type /\ v.index = x.index
      /\ Begins(x.events, v.events, 0)
      /\ x.type # "none" /\ x.index = x.index /\ type = x.type => Stays(x.events, v.events)
  BY <1>2, DeltaIs
<1>4. BegunNow(v.events) = BegunNow(x.events) /\ Stays(x.events, v.events)
  <2>1. BegunNow(x.events) \in Nat
    BY <1>2, RunsIs
  <2>2. QED
    BY <1>2, <1>3, <2>1 DEF Begins
<1>5. /\ \A n : Begins(w.events, x.events, n) => Begins(w.events, v.events, n)
      /\ Stays(w.events, x.events) => Stays(w.events, v.events)
  BY <1>4 DEF Begins, Stays
<1>6. Same(w, v)
  BY <1>1, <1>3 DEF IsOpened, Same
<1>7. QED
  BY <1>1, <1>2, <1>3, <1>5, <1>6 DEF IsOpened, Quiet

LEMMA AfterReasoningIs ==
    ASSUME NEW w, Runs(w), NEW c, NEW piece, NEW v, v = AfterReasoning(w, c, piece)
    PROVE  /\ Runs(v) /\ v.text = w.text /\ v.tools = w.tools
           /\ ~c.reasoning => v = w
           /\ Shape(w) /\ (c.reasoning => ~w.text /\ w.tools = {}) => Shape(v)
<1>1. CASE ~c.reasoning \/ ~exposeThinking
  <2>1. v = w
    BY <1>1 DEF AfterReasoning
  <2>2. QED
    BY <2>1
<1>2. CASE c.reasoning /\ exposeThinking
  <2> DEFINE y == [w EXCEPT !.thinking = TRUE]
             i == ThinkingIndex(w)
             x == Opened(y, "thinking", i)
  <2>1. v = Emit(x, "content_block_delta", x.index, "thinking", piece)
    BY <1>2 DEF AfterReasoning, Delta
  <2>2. /\ Runs(y) /\ y.thinking = TRUE /\ y.text = w.text /\ y.tools = w.tools
        /\ y.type = w.type /\ y.index = w.index /\ y.events = w.events
    BY ThinkingFlag
  <2>3. x = Opened(y, "thinking", i)
    OBVIOUS
  <2> HIDE DEF x, y, i
  <2>4. "thinking" # "none"
    OBVIOUS
  <2>5. IsOpened(y, v, "thinking", i)
    BY <2>1, <2>2, <2>3, <2>4, WrittenIs
  <2>6. /\ Runs(v) /\ v.thinking = TRUE /\ v.text = w.text /\ v.tools = w.tools
        /\ v.type = "thinking"
        /\ w.type = "thinking" => /\ Begins(w.events, v.events, 0) /\ Stays(w.events, v.events)
                                  /\ v.index = w.index
        /\ w.type # "thinking" => /\ v.index = i /\ Begins(w.events, v.events, 1)
                                  /\ i = BegunNow(w.events) => Stays(w.events, v.events)
    BY <2>2, <2>5 DEF IsOpened, Same, Quiet
  <2>7. ASSUME Shape(w), ~w.text, w.tools = {} PROVE Shape(v)
    <3>1. /\ w.thinking \in BOOLEAN /\ AllNumbered(w.events)
          /\ w.type = IF w.thinking THEN "thinking" ELSE "none"
          /\ BegunNow(w.events) = IF w.thinking THEN 1 ELSE 0
          /\ w.type # "none" => w.index = BegunNow(w.events) - 1
      BY <2>7 DEF Shape, One
    <3>2. BegunNow(v.events) = 1 /\ v.index = 0 /\ AllNumbered(v.events)
      BY <2>6, <3>1 DEF Begins, Stays, i, ThinkingIndex
    <3>3. One(TRUE) = 1 /\ One(FALSE) = 0 /\ v.text = FALSE
      BY <2>6, <2>7 DEF One, Shape
    <3>4. /\ v.thinking \in BOOLEAN /\ v.text \in BOOLEAN
          /\ One(v.thinking) = 1 /\ One(v.text) = 0
      BY <2>6, <3>3 DEF One
    <3>5. v.index = BegunNow(v.events) - 1 /\ BegunNow(v.events) = One(v.thinking) + One(v.text)
      BY <3>2, <3>4
    <3>6. v.tools = {} /\ v.type = IF v.text THEN "text" ELSE IF v.thinking THEN "thinking" ELSE "none"
      BY <2>6, <2>7, <3>3
    <3>7. QED
      BY <3>2, <3>4, <3>5, <3>6 DEF Shape
  <2>8. QED
    BY <1>2, <2>6, <2>7
<1>3. QED
  BY <1>1, <1>2

LEMMA AfterTextIs ==
    ASSUME NEW w, Runs(w), NEW c, c.text \in {"none", "empty", "some"}, NEW piece,
           NEW v, v = AfterText(w, c, piece)
    PROVE  /\ Runs(v) /\ v.thinking = w.thinking /\ v.tools = w.tools
           /\ v.text => w.text \/ c.text = "some"
           /\ ~(c.text # "none" /\ (w.text \/ c.text = "some")) => v = w
           /\ Shape(w) /\ (c.text # "none" /\ (w.text \/ c.text = "some") => w.tools = {}) => Shape(v)
<1> DEFINE passed == c.text # "none" /\ (w.text \/ c.text = "some")
<1>1. CASE ~passed
  <2>1. v = w
    BY <1>1 DEF AfterText
  <2>2. QED
    BY <1>1, <2>1
<1>2. CASE passed
  <2> DEFINE y == [w EXCEPT !.text = TRUE]
             i == TextIndex(w)
             x == Opened(y, "text", i)
             what == IF c.text = "some" THEN piece ELSE Empty
  <2>1. v = Emit(x, "content_block_delta", x.index, "text", what)
    BY <1>2 DEF AfterText, Delta
  <2> HIDE DEF what
  <2>2. /\ Runs(y) /\ y.text = TRUE /\ y.thinking = w.thinking /\ y.tools = w.tools
        /\ y.type = w.type /\ y.index = w.index /\ y.events = w.events
    BY TextFlag
  <2>3. x = Opened(y, "text", i)
    OBVIOUS
  <2> HIDE DEF x, y, i
  <2>4. "text" # "none"
    OBVIOUS
  <2>5. IsOpened(y, v, "text", i)
    BY <2>1, <2>2, <2>3, <2>4, WrittenIs
  <2>6. /\ Runs(v) /\ v.text = TRUE /\ v.thinking = w.thinking /\ v.tools = w.tools
        /\ v.type = "text"
        /\ w.type = "text" => /\ Begins(w.events, v.events, 0) /\ Stays(w.events, v.events)
                              /\ v.index = w.index
        /\ w.type # "text" => /\ v.index = i /\ Begins(w.events, v.events, 1)
                              /\ i = BegunNow(w.events) => Stays(w.events, v.events)
    BY <2>2, <2>5 DEF IsOpened, Same, Quiet
  <2>7. ASSUME Shape(w), w.tools = {} PROVE Shape(v)
    <3>1. /\ w.thinking \in BOOLEAN /\ AllNumbered(w.events)
          /\ w.text <=> w.type = "text"
          /\ BegunNow(w.events) = One(w.thinking) + One(w.text)
          /\ w.type # "none" => w.index = BegunNow(w.events) - 1
      BY <2>7 DEF Shape
    <3>2. One(w.thinking) \in {0, 1} /\ One(TRUE) = 1 /\ One(FALSE) = 0
      BY DEF One
    <3>3. /\ ~w.text => i = One(w.thinking) /\ One(w.text) = 0
          /\ w.text => One(w.text) = 1
      BY DEF i, TextIndex, One
    <3>4. /\ BegunNow(v.events) = One(w.thinking) + 1 /\ v.index = One(w.thinking)
          /\ AllNumbered(v.events)
      BY <2>6, <3>1, <3>2, <3>3 DEF Begins, Stays
    <3>5. /\ v.thinking \in BOOLEAN /\ v.text \in BOOLEAN
          /\ One(v.thinking) = One(w.thinking) /\ One(v.text) = 1
      BY <2>6, <3>1 DEF One
    <3>6. v.index = BegunNow(v.events) - 1 /\ BegunNow(v.events) = One(v.thinking) + One(v.text)
      BY <3>2, <3>4, <3>5
    <3>7. v.tools = {} /\ v.type = IF v.text THEN "text" ELSE IF v.thinking THEN "thinking" ELSE "none"
      BY <2>6, <2>7
    <3>8. QED
      BY <3>4, <3>5, <3>6, <3>7 DEF Shape
  <2>8. QED
    BY <1>2, <2>6, <2>7
<1>3. QED
  BY <1>1, <1>2

(* A block that a new tool call gets. *)
LEMMA NewToolIs ==
    ASSUME NEW w, Runs(w), NEW tool, NEW v, v = NewTool(w, tool)
    PROVE  /\ Runs(v) /\ v.thinking = w.thinking /\ v.text = w.text
           /\ v.tools = w.tools \cup {[tool |-> tool, index |-> ToolIndex(w)]}
           /\ v.type = "tool_use" /\ v.index = ToolIndex(w)
           /\ Begins(w.events, v.events, 1)
           /\ ToolIndex(w) = BegunNow(w.events) => Stays(w.events, v.events)
<1> DEFINE i == ToolIndex(w)
           x == Stopped(w)
           y == StartBlock(x, "tool_use", i)
<1>1. v = [y EXCEPT !.tools = @ \cup {[tool |-> tool, index |-> i]}]
  BY DEF NewTool
<1>2. Runs(x) /\ Same(w, x) /\ x.type = "none" /\ Quiet(w, x)
  BY StoppedIs
<1> HIDE DEF x
<1>3. y = StartBlock(x, "tool_use", i) /\ "tool_use" # "none"
  OBVIOUS
<1> HIDE DEF i, y
<1>4. /\ Runs(y) /\ Same(x, y) /\ y.type = "tool_use" /\ y.index = i
      /\ Begins(x.events, y.events, 1)
      /\ i = BegunNow(x.events) => Stays(x.events, y.events)
  BY <1>2, <1>3, StartBlockIs
<1>5. IsWriter(y) /\ y.events # <<>> /\ Streaming(y.events, y.type, y.index)
  BY <1>4 DEF Runs, Tracks
<1>6. /\ IsWriter(v) /\ v.thinking = y.thinking /\ v.text = y.text
      /\ v.tools = y.tools \cup {[tool |-> tool, index |-> i]}
      /\ v.type = y.type /\ v.index = y.index /\ v.events = y.events
  <2> DEFINE m == [tool |-> tool, index |-> i]
  <2>1. v = [y EXCEPT !.tools = @ \cup {m}]
    BY <1>1
  <2> HIDE DEF m
  <2>2. /\ IsWriter(v) /\ v.thinking = y.thinking /\ v.text = y.text
        /\ v.tools = y.tools \cup {m}
        /\ v.type = y.type /\ v.index = y.index /\ v.events = y.events
    BY <1>5, <2>1 DEF IsWriter
  <2>3. QED
    BY <2>2 DEF m
<1>7. Runs(v)
  BY <1>5, <1>6 DEF Runs, Tracks
<1>8. BegunNow(w.events) \in Nat
  BY RunsIs
<1>9. BegunNow(x.events) = BegunNow(w.events)
  BY <1>2, <1>8 DEF Quiet, Begins
<1>10. Begins(w.events, v.events, 1)
  BY <1>4, <1>6, <1>9 DEF Begins
<1>11. i = BegunNow(w.events) => Stays(w.events, v.events)
  BY <1>2, <1>4, <1>6, <1>9 DEF Quiet, Stays
<1>12. v.thinking = w.thinking /\ v.text = w.text
  BY <1>2, <1>4, <1>6 DEF Same
<1>13. v.tools = w.tools \cup {[tool |-> tool, index |-> i]}
  BY <1>2, <1>4, <1>6 DEF Same
<1>14. v.type = "tool_use" /\ v.index = i
  BY <1>4, <1>6
<1>15. QED
  BY <1>7, <1>10, <1>11, <1>12, <1>13, <1>14 DEF i

(* A writer that has the block of the tool open. *)
Serves(w, tool) == Shape(w) /\ OneEach(w) /\ Current(w, tool)

LEMMA NewToolServes ==
    ASSUME NEW w, Runs(w), Shape(w), OneEach(w), NEW tool, {m \in w.tools : m.tool = tool} = {},
           NEW v, v = NewTool(w, tool)
    PROVE  Serves(v, tool)
<1>1. /\ Runs(v) /\ v.thinking = w.thinking /\ v.text = w.text
      /\ v.tools = w.tools \cup {[tool |-> tool, index |-> ToolIndex(w)]}
      /\ v.type = "tool_use" /\ v.index = ToolIndex(w)
      /\ Begins(w.events, v.events, 1)
      /\ ToolIndex(w) = BegunNow(w.events) => Stays(w.events, v.events)
  BY NewToolIs
<1>2. BegunNow(w.events) \in Nat
  BY RunsIs
<1>3. ToolIndex(w) = BegunNow(w.events)
  <2>1. CASE w.tools = {}
    BY <2>1 DEF Shape, ToolIndex
  <2>2. CASE w.tools # {}
    <3>1. w.index = BegunNow(w.events) - 1
      BY <2>2 DEF Shape
    <3>2. QED
      BY <1>2, <2>2, <3>1 DEF ToolIndex
  <2>3. QED
    BY <2>1, <2>2
<1>4. BegunNow(v.events) = BegunNow(w.events) + 1 /\ AllNumbered(v.events)
  BY <1>1, <1>3 DEF Begins, Stays, Shape
<1>5. v.index = BegunNow(v.events) - 1
  BY <1>1, <1>2, <1>3, <1>4
<1> DEFINE new == [tool |-> tool, index |-> ToolIndex(w)]
<1>6. new.tool = tool /\ new.index = ToolIndex(w) /\ v.tools = w.tools \cup {new}
  BY <1>1
<1> HIDE DEF new
<1>7. Shape(v)
  BY <1>1, <1>4, <1>5, <1>6 DEF Shape
<1>8. OneEach(v)
  BY <1>6 DEF OneEach
<1>9. Current(v, tool)
  BY <1>1, <1>6 DEF Current
<1>10. QED
  BY <1>7, <1>8, <1>9 DEF Serves

LEMMA AfterToolIs ==
    ASSUME NEW w, Runs(w), NEW c, c.tool # NoTool, NEW piece, NEW v, v = AfterTool(w, c, piece)
    PROVE  /\ Runs(v) /\ v.thinking = w.thinking /\ v.text = w.text
           /\ \A m \in v.tools : m \in w.tools \/ m.tool = c.tool
           /\ /\ Shape(w) /\ OneEach(w)
              /\ (\E m \in w.tools : m.tool = c.tool) => Current(w, c.tool)
              => Serves(v, c.tool)
<1> DEFINE known == {m \in w.tools : m.tool = c.tool}
           x == IF known = {} THEN NewTool(w, c.tool) ELSE w
           entry == CHOOSE m \in x.tools : m.tool = c.tool
<1>1. v = IF ~c.args THEN x
          ELSE Emit(x, "content_block_delta", entry.index, "tool_use", piece)
  BY DEF AfterTool
<1>2. /\ Runs(x) /\ x.thinking = w.thinking /\ x.text = w.text
      /\ \A m \in x.tools : m \in w.tools \/ m.tool = c.tool
  <2>1. CASE known = {}
    <3> DEFINE new == [tool |-> c.tool, index |-> ToolIndex(w)]
    <3>1. x = NewTool(w, c.tool)
      BY <2>1
    <3>2. new.tool = c.tool
      OBVIOUS
    <3>3. /\ Runs(x) /\ x.thinking = w.thinking /\ x.text = w.text
          /\ x.tools = w.tools \cup {new}
      BY <3>1, NewToolIs
    <3> HIDE DEF new, x, known
    <3>4. QED
      BY <3>2, <3>3
  <2>2. CASE known # {}
    BY <2>2
  <2>3. QED
    BY <2>1, <2>2
<1>3. ASSUME Shape(w), OneEach(w), (\E m \in w.tools : m.tool = c.tool) => Current(w, c.tool)
      PROVE  Serves(x, c.tool)
  <2>1. CASE known = {}
    BY <1>3, <2>1, NewToolServes
  <2>2. CASE known # {}
    BY <1>3, <2>2 DEF Serves
  <2>3. QED
    BY <2>1, <2>2
<1>4. entry = CHOOSE m \in x.tools : m.tool = c.tool
  OBVIOUS
<1> HIDE DEF known, x, entry
<1>5. CASE ~c.args
  BY <1>1, <1>2, <1>3, <1>5
<1>6. CASE c.args
  <2>1. v = Emit(x, "content_block_delta", entry.index, "tool_use", piece)
    BY <1>1, <1>6
  <2>2. /\ Runs(v) /\ Same(x, v) /\ v.type = x.type /\ v.index = x.index
        /\ Begins(x.events, v.events, 0)
        /\ x.type # "none" /\ entry.index = x.index /\ "tool_use" = x.type => Stays(x.events, v.events)
    BY <1>2, <2>1, DeltaIs
  <2>3. ASSUME Serves(x, c.tool) PROVE Serves(v, c.tool)
    <3>1. Shape(x) /\ OneEach(x) /\ Current(x, c.tool)
      BY <2>3 DEF Serves
    <3>2. PICK m \in x.tools : m.tool = c.tool /\ m.index = x.index
      BY <3>1 DEF Current
    <3>3. entry \in x.tools /\ entry.tool = c.tool
      BY <1>4, <3>2
    <3>4. entry = m
      BY <3>1, <3>2, <3>3 DEF OneEach
    <3>5. x.type = "tool_use" /\ AllNumbered(x.events) /\ x.index = BegunNow(x.events) - 1
      BY <3>1, <3>2 DEF Shape
    <3>6. BegunNow(x.events) \in Nat
      BY <1>2, RunsIs
    <3>7. BegunNow(v.events) = BegunNow(x.events) /\ AllNumbered(v.events)
      BY <2>2, <3>2, <3>4, <3>5, <3>6 DEF Begins, Stays
    <3>8. Shape(v)
      BY <2>2, <3>1, <3>2, <3>5, <3>7 DEF Shape, Same
    <3>9. OneEach(v) /\ Current(v, c.tool)
      BY <2>2, <3>1 DEF OneEach, Current, Same
    <3>10. QED
      BY <3>8, <3>9 DEF Serves
  <2>4. v.thinking = w.thinking /\ v.text = w.text /\ v.tools = x.tools
    BY <1>2, <2>2 DEF Same
  <2>5. QED
    BY <1>2, <1>3, <2>2, <2>3, <2>4
<1>7. QED
  BY <1>5, <1>6

(* The two events at the end. *)
Sound(w) == IsWriter(w) /\ IsSeq(w.events) /\ WellFormed(w.events)

LEMMA FinishedIs ==
    ASSUME NEW w, Runs(w), w.type = "none", NEW stop, NEW v, v = Finished(w, stop)
    PROVE  Sound(v) /\ Stays(w.events, v.events)
<1> DEFINE x == Emit(w, "message_delta", NoIndex, stop, Empty)
<1>1. v = Emit(x, "message_stop", NoIndex, "none", Empty)
  BY DEF Finished
<1>2. IsWriter(w) /\ w.events # <<>> /\ Streaming(w.events, "none", w.index)
  BY DEF Runs, Tracks
<1>3. PICK d : IsWriter(x) /\ x.events = Append(w.events, d) /\ d.event = "message_delta"
  BY <1>2, EmitIs
<1> HIDE DEF x
<1>4. PICK e : IsWriter(v) /\ v.events = Append(x.events, e) /\ e.event = "message_stop"
  BY <1>1, <1>3, EmitIs
<1>5. IsSeq(v.events) /\ WellFormed(v.events) /\ (AllNumbered(w.events) => AllNumbered(v.events))
  BY <1>2, <1>3, <1>4, EndEvents
<1>6. QED
  BY <1>4, <1>5 DEF Stays, Sound

-----------------------------------------------------------------------------
(* The chunks the upstream sends. *)

InTurn(chunks) == PartsInOrder(chunks) /\ ToolsInTurn(chunks)

(* What the writer remembers of the chunks. *)
Remembers(w, chunks) ==
    /\ w.text => \E k \in DOMAIN chunks : chunks[k].text = "some"
    /\ OneEach(w)
    /\ \A m \in w.tools : m.tool # NoTool /\ \E k \in DOMAIN chunks : chunks[k].tool = m.tool
    /\ w.tools # {} => \E k \in DOMAIN chunks :
          /\ chunks[k].tool # NoTool /\ Current(w, chunks[k].tool)
          /\ \A l \in (k + 1)..Len(chunks) : chunks[l].tool = NoTool

LEMMA InTurnBefore ==
    ASSUME NEW s, NEW t, NEW c, Adds(s, t, c), InTurn(t)
    PROVE  InTurn(s)
<1>1. /\ Len(s) \in Nat /\ DOMAIN s = 1..Len(s) /\ DOMAIN t = 1..Len(s) + 1
      /\ \A k \in 1..Len(s) : t[k] = s[k]
  BY DEF Adds
<1>2. \A j \in DOMAIN s : j \in DOMAIN t /\ t[j] = s[j]
                          /\ \A i \in 1..j : i \in 1..Len(s) /\ t[i] = s[i]
  BY <1>1
<1>3. PartsInOrder(s)
  <2>1. PartsInOrder(t)
    BY DEF InTurn
  <2>2. SUFFICES ASSUME NEW j \in DOMAIN s, NEW i \in 1..(j - 1)
                 PROVE  /\ s[j].reasoning => s[i].text # "some" /\ s[i].tool = NoTool
                        /\ s[j].text # "none" /\ (\E h \in 1..j : s[h].text = "some") =>
                              s[i].tool = NoTool
    BY DEF PartsInOrder
  <2>3. j \in DOMAIN t /\ t[j] = s[j] /\ t[i] = s[i] /\ \A h \in 1..j : t[h] = s[h]
    BY <1>1, <1>2, <2>2
  <2>4. QED
    BY <2>1, <2>2, <2>3 DEF PartsInOrder
<1>4. ToolsInTurn(s)
  <2>1. ToolsInTurn(t)
    BY DEF InTurn
  <2>2. SUFFICES ASSUME NEW k \in DOMAIN s, NEW j \in 1..(k - 1), NEW i \in 1..(j - 1)
                 PROVE  s[i].tool = s[k].tool => s[j].tool \in {s[i].tool, NoTool}
    BY DEF ToolsInTurn
  <2>3. k \in DOMAIN t /\ t[k] = s[k] /\ t[j] = s[j] /\ t[i] = s[i]
    BY <1>1, <1>2, <2>2
  <2>4. QED
    BY <2>1, <2>2, <2>3 DEF ToolsInTurn
<1>5. QED
  BY <1>3, <1>4 DEF InTurn

(* What the next chunk may be then. *)
Expects(w, c) ==
    /\ c.reasoning => ~w.text /\ w.tools = {}
    /\ c.text # "none" /\ (w.text \/ c.text = "some") => w.tools = {}
    /\ c.tool # NoTool /\ (\E m \in w.tools : m.tool = c.tool) => Current(w, c.tool)

LEMMA NextInTurn ==
    ASSUME NEW s, NEW t, NEW c, Adds(s, t, c), InTurn(t), NEW w, Remembers(w, s)
    PROVE  Expects(w, c)
<1> DEFINE n == Len(s) + 1
<1>1. /\ Len(s) \in Nat /\ DOMAIN s = 1..Len(s) /\ n \in DOMAIN t /\ t[n] = c
      /\ \A k \in 1..Len(s) : t[k] = s[k] /\ k \in 1..(n - 1) /\ k \in 1..n
      /\ n \in 1..n
  BY DEF Adds
<1>2. /\ \A i \in 1..(n - 1) : t[n].reasoning => t[i].text # "some" /\ t[i].tool = NoTool
      /\ \A i \in 1..(n - 1) :
            t[n].text # "none" /\ (\E h \in 1..n : t[h].text = "some") => t[i].tool = NoTool
  BY <1>1 DEF InTurn, PartsInOrder
<1>3. \A j \in 1..(n - 1) : \A i \in 1..(j - 1) :
         t[i].tool = t[n].tool => t[j].tool \in {t[i].tool, NoTool}
  BY <1>1 DEF InTurn, ToolsInTurn
<1>4. \A m \in w.tools : m.tool # NoTool /\ \E k \in 1..Len(s) : t[k].tool = m.tool
  BY <1>1 DEF Remembers
<1>5. w.text => \E k \in 1..Len(s) : t[k].text = "some"
  BY <1>1 DEF Remembers
<1>6. c.reasoning => ~w.text /\ w.tools = {}
  BY <1>1, <1>2, <1>4, <1>5
<1>7. c.text # "none" /\ (w.text \/ c.text = "some") => w.tools = {}
  BY <1>1, <1>2, <1>4, <1>5
<1>8. ASSUME c.tool # NoTool, NEW m \in w.tools, m.tool = c.tool
      PROVE  Current(w, c.tool)
  <2>1. PICK i \in 1..Len(s) : t[i].tool = c.tool
    BY <1>4, <1>8
  <2>2. PICK k \in 1..Len(s) : /\ t[k].tool # NoTool /\ Current(w, t[k].tool)
                               /\ \A l \in (k + 1)..Len(s) : t[l].tool = NoTool
    <3>1. PICK k \in DOMAIN s : /\ s[k].tool # NoTool /\ Current(w, s[k].tool)
                                /\ \A l \in (k + 1)..Len(s) : s[l].tool = NoTool
      BY DEF Remembers
    <3>2. k \in 1..Len(s) /\ t[k] = s[k] /\ \A l \in (k + 1)..Len(s) : t[l] = s[l]
      BY <1>1, <3>1
    <3>3. QED
      BY <3>1, <3>2
  <2>3. t[k].tool = c.tool
    <3>1. CASE i < k
      <4>1. k \in 1..(n - 1) /\ i \in 1..(k - 1)
        BY <1>1, <3>1
      <4>2. t[k].tool \in {t[i].tool, NoTool}
        BY <1>1, <1>3, <2>1, <4>1
      <4>3. QED
        BY <2>1, <2>2, <4>2
    <3>2. CASE i = k
      BY <2>1, <3>2
    <3>3. CASE k < i
      <4>1. i \in (k + 1)..Len(s)
        BY <1>1, <3>3
      <4>2. QED
        BY <1>8, <2>1, <2>2, <4>1
    <3>4. i < k \/ i = k \/ k < i
      BY <1>1
    <3>5. QED
      BY <3>1, <3>2, <3>3, <3>4
  <2>4. QED
    BY <2>2, <2>3
<1>9. QED
  BY <1>6, <1>7, <1>8 DEF Expects

(* A writer that started, or that only took note of a finish reason. *)
LEMMA StartedShape ==
    ASSUME NEW w, Tracks(w), NEW v, v = Started(w)
    PROVE  /\ Shape(w) => Shape(v)
           /\ \A c : Expects(w, c) => Expects(v, c)
           /\ \A chunks : Remembers(w, chunks) => Remembers(v, chunks)
<1>1. /\ Runs(v) /\ Same(w, v) /\ v.type = w.type /\ v.index = w.index
      /\ Quiet(w, v)
  BY StartedIs
<1>2. BegunNow(w.events) \in Nat
  BY StreamingWellFormed, BegunIsNat DEF Tracks
<1>3. BegunNow(v.events) = BegunNow(w.events) /\ Stays(w.events, v.events)
  BY <1>1, <1>2 DEF Quiet, Begins
<1>4. Shape(w) => Shape(v)
  BY <1>1, <1>3 DEF Same, Shape, Stays
<1>5. ASSUME NEW c, Expects(w, c) PROVE Expects(v, c)
  BY <1>1, <1>5 DEF Expects, Same, Current
<1>6. ASSUME NEW chunks, Remembers(w, chunks) PROVE Remembers(v, chunks)
  BY <1>1, <1>6 DEF Remembers, Same, Current, OneEach
<1>7. QED
  BY <1>4, <1>5, <1>6

(* One chunk more. *)
LEMMA RunsAfterChunk ==
    ASSUME NEW w, Tracks(w), NEW c, c.text \in {"none", "empty", "some"}, NEW piece,
           NEW v, v = AfterChunk(w, c, piece)
    PROVE  Runs(v)
<1> DEFINE r == Started(w)
           x == AfterReasoning(r, c, piece)
           y == AfterText(x, c, piece)
           z == AfterTool(y, c, piece)
<1>1. v = r \/ v = z
  BY DEF AfterChunk
<1>2. Runs(r)
  BY StartedIs
<1> HIDE DEF r
<1>3. Runs(x)
  BY <1>2, AfterReasoningIs
<1> HIDE DEF x
<1>4. Runs(y)
  BY <1>3, AfterTextIs
<1>5. z = AfterTool(y, c, piece)
  OBVIOUS
<1> HIDE DEF y, z
<1>6. CASE c.tool = NoTool
  <2>1. z = y
    BY <1>5, <1>6 DEF AfterTool
  <2>2. QED
    BY <1>1, <1>2, <1>4, <2>1
<1>7. CASE c.tool # NoTool
  <2>1. Runs(z)
    BY <1>4, <1>5, <1>7, AfterToolIs
  <2>2. QED
    BY <1>1, <1>2, <2>1
<1>8. QED
  BY <1>6, <1>7

Follows(w, chunks) == Shape(w) /\ Remembers(w, chunks)

LEMMA ChunkIs ==
    ASSUME NEW w, Tracks(w), Shape(w), NEW chunks, IsSeq(chunks), Remembers(w, chunks),
           NEW c, c.text \in {"none", "empty", "some"}, NEW piece,
           InTurn(Append(chunks, c))
    PROVE  Follows(AfterChunk(w, c, piece), Append(chunks, c))
<1> DEFINE v == AfterChunk(w, c, piece)
           more == Append(chunks, c)
           r == Started(w)
           x == AfterReasoning(r, c, piece)
           y == AfterText(x, c, piece)
           z == AfterTool(y, c, piece)
<1>1. Adds(chunks, more, c) /\ InTurn(more)
  BY AppendAdds
<1> HIDE DEF more
<1>2. Expects(w, c)
  BY <1>1, NextInTurn
<1>3. ~(c.reasoning /\ w.text)
  BY <1>2 DEF Expects
<1>4. v = z
  BY <1>3 DEF AfterChunk
<1> HIDE DEF v
<1>5. Runs(r) /\ Shape(r) /\ Expects(r, c) /\ Remembers(r, chunks) /\ r.tools = w.tools
  BY <1>2, StartedIs, StartedShape DEF Same
<1> HIDE DEF r
<1>6. /\ Runs(x) /\ x.text = r.text /\ x.tools = r.tools /\ Shape(x)
      /\ ~c.reasoning => x = r
  <2>1. c.reasoning => ~r.text /\ r.tools = {}
    BY <1>5 DEF Expects
  <2>2. QED
    BY <1>5, <2>1, AfterReasoningIs
<1> HIDE DEF x
<1>7. /\ Runs(y) /\ y.tools = x.tools /\ Shape(y)
      /\ y.text => r.text \/ c.text = "some"
      /\ ~(c.text # "none" /\ (x.text \/ c.text = "some")) => y = x
  <2>1. c.text # "none" /\ (x.text \/ c.text = "some") => x.tools = {}
    BY <1>5, <1>6 DEF Expects
  <2>2. QED
    BY <1>6, <2>1, AfterTextIs
<1>8. z = AfterTool(y, c, piece)
  OBVIOUS
<1> HIDE DEF y, z
<1>9. y.tools = r.tools /\ (r.tools # {} => y = r)
  BY <1>5, <1>6, <1>7 DEF Expects
<1>10. /\ Len(chunks) \in Nat /\ DOMAIN chunks = 1..Len(chunks)
       /\ Len(more) = Len(chunks) + 1 /\ more[Len(chunks) + 1] = c
       /\ DOMAIN more = 1..Len(more)
       /\ \A k \in 1..Len(chunks) : more[k] = chunks[k]
  BY <1>1 DEF Adds
<1>11. \A k \in DOMAIN chunks : k \in DOMAIN more /\ more[k] = chunks[k]
  BY <1>10
<1>12. Len(more) \in DOMAIN more /\ more[Len(more)] = c
  BY <1>10
<1>13. y.text => \E k \in DOMAIN more : more[k].text = "some"
  BY <1>5, <1>7, <1>11, <1>12 DEF Remembers
<1>14. OneEach(y) /\ \A m \in y.tools : m.tool # NoTool /\ \E k \in DOMAIN more : more[k].tool = m.tool
  BY <1>5, <1>9, <1>11 DEF Remembers, OneEach
<1>15. ASSUME c.tool = NoTool PROVE Shape(v) /\ Remembers(v, more)
  <2>1. v = y
    BY <1>4, <1>8, <1>15 DEF AfterTool
  <2>2. ASSUME y.tools # {}
        PROVE  \E k \in DOMAIN more :
                  /\ more[k].tool # NoTool /\ Current(y, more[k].tool)
                  /\ \A l \in (k + 1)..Len(more) : more[l].tool = NoTool
    <3>1. y = r
      BY <1>9, <2>2
    <3>2. PICK k \in DOMAIN chunks :
                  /\ chunks[k].tool # NoTool /\ Current(y, chunks[k].tool)
                  /\ \A l \in (k + 1)..Len(chunks) : chunks[l].tool = NoTool
      BY <1>5, <2>2, <3>1 DEF Remembers
    <3>3. ASSUME NEW l \in (k + 1)..Len(more) PROVE more[l].tool = NoTool
      <4>1. CASE l = Len(more)
        BY <1>12, <1>15, <4>1
      <4>2. CASE l # Len(more)
        <5>1. l \in (k + 1)..Len(chunks) /\ l \in 1..Len(chunks)
          BY <1>10, <3>2, <3>3, <4>2
        <5>2. QED
          BY <1>10, <3>2, <5>1
      <4>3. QED
        BY <4>1, <4>2
    <3>4. QED
      BY <1>11, <3>2, <3>3
  <2>3. Remembers(y, more)
    BY <1>13, <1>14, <2>2 DEF Remembers
  <2>4. QED
    BY <1>7, <2>1, <2>3
<1>16. ASSUME c.tool # NoTool PROVE Shape(v) /\ Remembers(v, more)
  <2>1. (\E m \in y.tools : m.tool = c.tool) => Current(y, c.tool)
    BY <1>5, <1>9, <1>16 DEF Expects
  <2>2. /\ v.text = y.text /\ Serves(v, c.tool)
        /\ \A m \in v.tools : m \in y.tools \/ m.tool = c.tool
    BY <1>4, <1>7, <1>8, <1>14, <1>16, <2>1, AfterToolIs
  <2>3. Shape(v) /\ OneEach(v) /\ Current(v, c.tool)
    BY <2>2 DEF Serves
  <2>4. \A m \in v.tools : m.tool # NoTool /\ \E k \in DOMAIN more : more[k].tool = m.tool
    BY <1>12, <1>14, <1>16, <2>2
  <2>5. \A l \in (Len(more) + 1)..Len(more) : more[l].tool = NoTool
    BY <1>10
  <2>6. \E k \in DOMAIN more :
            /\ more[k].tool # NoTool /\ Current(v, more[k].tool)
            /\ \A l \in (k + 1)..Len(more) : more[l].tool = NoTool
    BY <1>12, <1>16, <2>3, <2>5
  <2>7. Remembers(v, more)
    BY <1>13, <2>2, <2>3, <2>4, <2>6 DEF Remembers
  <2>8. QED
    BY <2>3, <2>7
<1>17. Shape(v) /\ Remembers(v, more)
  BY <1>15, <1>16
<1>18. QED
  BY <1>17 DEF Follows, v, more

-----------------------------------------------------------------------------
(* A collected response: a block for its text and one for each tool call. *)

LEMMA LeastExists ==
    ASSUME NEW S, S \subseteq Nat, S # {}
    PROVE  \E n \in S : n \in Nat /\ \A m \in S : n <= m
<1>1. LessThan = OpToRel(<, Nat)
  BY DEF OpToRel, LessThan
<1>2. IsWellFoundedOn(LessThan, Nat)
  BY <1>1, NatLessThanWellFounded
<1>3. PICK n \in S : \A m \in S : ~(<<m, n>> \in LessThan)
  BY <1>2, WFMin
<1>4. n \in Nat /\ \A m \in S : m \in Nat /\ ~(m < n)
  BY <1>3 DEF LessThan
<1>5. \A m \in S : n <= m
  BY <1>4
<1>6. QED
  BY <1>4, <1>5

LEMMA WholeToolIs ==
    ASSUME NEW w, Runs(w), w.type = "none", NEW i, NEW piece, NEW v, v = WholeTool(w, i, piece)
    PROVE  /\ Runs(v) /\ v.type = "none" /\ Begins(w.events, v.events, 1)
           /\ i = BegunNow(w.events) => Stays(w.events, v.events)
<1> DEFINE x == StartBlock(w, "tool_use", i)
           y == Emit(x, "content_block_delta", x.index, "tool_use", piece)
<1>1. v = Stopped(y)
  BY DEF WholeTool, Delta
<1>2. "tool_use" # "none" /\ x = StartBlock(w, "tool_use", i)
  OBVIOUS
<1>3. y = Emit(x, "content_block_delta", x.index, "tool_use", piece)
  OBVIOUS
<1> HIDE DEF x, y
<1>4. /\ Runs(x) /\ x.type = "tool_use" /\ x.index = i
      /\ Begins(w.events, x.events, 1)
      /\ i = BegunNow(w.events) => Stays(w.events, x.events)
  BY <1>2, StartBlockIs
<1>5. /\ Runs(y) /\ Begins(x.events, y.events, 0)
      /\ x.type # "none" /\ x.index = x.index /\ "tool_use" = x.type => Stays(x.events, y.events)
  BY <1>3, <1>4, DeltaIs
<1>6. Runs(v) /\ v.type = "none" /\ Quiet(y, v)
  BY <1>1, <1>5, StoppedIs
<1>7. BegunNow(w.events) \in Nat
  BY RunsIs
<1>8. BegunNow(v.events) = BegunNow(w.events) + 1
  BY <1>4, <1>5, <1>6, <1>7 DEF Quiet, Begins
<1>9. i = BegunNow(w.events) => Stays(w.events, v.events)
  BY <1>4, <1>5, <1>6 DEF Quiet, Stays
<1>10. QED
  BY <1>6, <1>8, <1>9 DEF Begins

(* The writer after each of n tool calls: told is the writer before them,  *)
(* and first the number of the first one's block.                          *)
Filled(f, n, told, first) ==
    f = [k \in 0..n |-> IF k = 0 THEN told
                        ELSE WholeTool(f[k - 1], first + k - 1, first + k)]

LEMMA FilledExists ==
    ASSUME NEW told, NEW first, NEW n \in Nat
    PROVE  \E f : Filled(f, n, told, first)
<1> DEFINE S == {m \in Nat : ~\E f : Filled(f, m, told, first)}
<1>1. SUFFICES ASSUME S # {} PROVE FALSE
  OBVIOUS
<1>2. S \subseteq Nat
  OBVIOUS
<1> HIDE DEF S
<1>3. PICK m \in S : m \in Nat /\ \A l \in S : m <= l
  BY <1>1, <1>2, LeastExists
<1>4. ~\E f : Filled(f, m, told, first)
  BY <1>3 DEF S
<1>5. CASE m = 0
  <2> DEFINE f == [k \in 0..0 |-> told]
  <2>1. f = [k \in 0..0 |-> IF k = 0 THEN told
                            ELSE WholeTool(f[k - 1], first + k - 1, first + k)]
    OBVIOUS
  <2>2. Filled(f, 0, told, first)
    BY <2>1 DEF Filled
  <2>3. QED
    BY <1>4, <1>5, <2>2
<1>6. CASE m # 0
  <2>1. m - 1 \in Nat /\ ~(m <= m - 1)
    BY <1>3, <1>6
  <2>2. m - 1 \notin S
    BY <1>3, <2>1
  <2>3. PICK f : Filled(f, m - 1, told, first)
    BY <2>1, <2>2 DEF S
  <2> DEFINE g == [k \in 0..m |-> IF k = m THEN WholeTool(f[m - 1], first + m - 1, first + m)
                                  ELSE f[k]]
  <2>4. ASSUME NEW k \in 0..m
        PROVE  g[k] = IF k = 0 THEN told ELSE WholeTool(g[k - 1], first + k - 1, first + k)
    <3>1. CASE k = m
      <4>1. k - 1 \in 0..m /\ k - 1 # m /\ k # 0
        BY <1>3, <1>6, <3>1
      <4>2. g[k - 1] = f[m - 1]
        BY <3>1, <4>1
      <4>3. QED
        BY <3>1, <4>1, <4>2
    <3>2. CASE k # m
      <4>1. k \in 0..(m - 1) /\ g[k] = f[k]
        BY <1>3, <3>2
      <4>2. f[k] = IF k = 0 THEN told ELSE WholeTool(f[k - 1], first + k - 1, first + k)
        BY <2>3, <4>1 DEF Filled
      <4>3. k # 0 => g[k - 1] = f[k - 1]
        BY <1>3, <3>2
      <4>4. QED
        BY <4>1, <4>2, <4>3
    <3>3. QED
      BY <3>1, <3>2
  <2>5. g = [k \in 0..m |-> g[k]]
    OBVIOUS
  <2> HIDE DEF g
  <2>6. g = [k \in 0..m |-> IF k = 0 THEN told
                            ELSE WholeTool(g[k - 1], first + k - 1, first + k)]
    BY <2>4, <2>5
  <2>7. Filled(g, m, told, first)
    BY <2>6 DEF Filled
  <2>8. QED
    BY <1>4, <2>7
<1>7. QED
  BY <1>5, <1>6

(* The blocks begun are numbered up to that writer. *)
UpTo(w, n) ==
    Runs(w) /\ w.type = "none" /\ AllNumbered(w.events) /\ BegunNow(w.events) = n

LEMMA FilledIs ==
    ASSUME NEW told, NEW first \in Nat, UpTo(told, first), NEW n \in Nat,
           NEW f, Filled(f, n, told, first)
    PROVE  UpTo(f[n], first + n)
<1> DEFINE S == {m \in 0..n : ~UpTo(f[m], first + m)}
<1>1. SUFFICES ASSUME S # {} PROVE FALSE
  <2>1. n \in 0..n
    OBVIOUS
  <2>2. QED
    BY <2>1
<1>2. S \subseteq Nat
  OBVIOUS
<1> HIDE DEF S
<1>3. PICK m \in S : m \in Nat /\ \A l \in S : m <= l
  BY <1>1, <1>2, LeastExists
<1>4. m \in 0..n /\ ~UpTo(f[m], first + m)
  BY <1>3 DEF S
<1>5. f[m] = IF m = 0 THEN told ELSE WholeTool(f[m - 1], first + m - 1, first + m)
  BY <1>4 DEF Filled
<1>6. CASE m = 0
  <2>1. f[m] = told /\ first + m = first
    BY <1>5, <1>6
  <2>2. QED
    BY <1>4, <2>1
<1>7. CASE m # 0
  <2>1. m - 1 \in 0..n /\ ~(m <= m - 1) /\ first + (m - 1) = first + m - 1
        /\ first + m - 1 + 1 = first + m
    BY <1>4, <1>7
  <2>2. m - 1 \notin S
    BY <1>3, <2>1
  <2>3. UpTo(f[m - 1], first + m - 1)
    BY <2>1, <2>2 DEF S
  <2> DEFINE w == f[m - 1]
             i == first + m - 1
             v == f[m]
  <2>4. v = WholeTool(w, i, first + m) /\ UpTo(w, i) /\ ~UpTo(v, i + 1)
    BY <1>4, <1>5, <1>7, <2>1, <2>3
  <2> HIDE DEF w, i, v
  <2>5. /\ Runs(v) /\ v.type = "none" /\ Begins(w.events, v.events, 1)
        /\ i = BegunNow(w.events) => Stays(w.events, v.events)
    BY <2>4, WholeToolIs DEF UpTo
  <2>6. UpTo(v, i + 1)
    BY <2>4, <2>5 DEF UpTo, Begins, Stays
  <2>7. QED
    BY <2>4, <2>6
<1>8. QED
  BY <1>6, <1>7

LEMMA StreamedIs ==
    ASSUME Tracks(writer), writer.events = <<>>, NEW text \in BOOLEAN, NEW tools, IsSeq(tools),
           NEW w, w = Streamed(text, tools)
    PROVE  Sound(w) /\ AllNumbered(w.events)
<1> DEFINE start == Started(writer)
           open == StartBlock(start, "text", 0)
           written == Emit(open, "content_block_delta", open.index, "text", 1)
           told == IF text THEN Stopped(written) ELSE start
           first == One(text)
           n == Len(tools)
           after == CHOOSE f : Filled(f, n, told, first)
           stop == IF tools = <<>> THEN "end_turn" ELSE "tool_use"
<1>1. w = Finished(after[n], stop)
  BY DEF Streamed, Filled, Delta
<1>2. UpTo(start, 0)
  <2>1. /\ Runs(start) /\ Same(writer, start) /\ start.type = writer.type
        /\ Quiet(writer, start)
    BY StartedIs
  <2>2. writer.type = "none"
    BY DEF Tracks
  <2> HIDE DEF start
  <2>3. BegunNow(start.events) = 0 /\ AllNumbered(start.events)
    BY <2>1, EmptyStream DEF Quiet, Begins, Stays
  <2>4. QED
    BY <2>1, <2>2, <2>3 DEF UpTo
<1>3. UpTo(told, first) /\ first \in Nat
  <2>1. CASE text
    <3>1. open = StartBlock(start, "text", 0) /\ "text" # "none"
      OBVIOUS
    <3>2. written = Emit(open, "content_block_delta", open.index, "text", 1)
      OBVIOUS
    <3>3. told = Stopped(written) /\ first = 1
      BY <2>1 DEF One
    <3> HIDE DEF start, open, written, told, first
    <3>4. Runs(start) /\ start.type = "none" /\ AllNumbered(start.events) /\ BegunNow(start.events) = 0
      BY <1>2 DEF UpTo
    <3>5. /\ Runs(open) /\ open.type = "text" /\ open.index = 0
          /\ Begins(start.events, open.events, 1) /\ Stays(start.events, open.events)
      BY <3>1, <3>4, StartBlockIs
    <3>6. /\ Runs(written) /\ Begins(open.events, written.events, 0)
          /\ Stays(open.events, written.events)
      BY <3>2, <3>5, DeltaIs
    <3>7. Runs(told) /\ told.type = "none" /\ Quiet(written, told)
      BY <3>3, <3>6, StoppedIs
    <3>8. BegunNow(told.events) = 1 /\ AllNumbered(told.events)
      BY <3>4, <3>5, <3>6, <3>7 DEF Quiet, Begins, Stays
    <3>9. QED
      BY <3>3, <3>7, <3>8 DEF UpTo
  <2>2. CASE ~text
    BY <1>2, <2>2 DEF One
  <2>3. QED
    BY <2>1, <2>2
<1>4. n \in Nat
  BY LenIs
<1>5. after = CHOOSE f : Filled(f, n, told, first)
  OBVIOUS
<1> HIDE DEF start, open, written, told, first, n, after, stop
<1>6. Filled(after, n, told, first)
  BY <1>4, <1>5, FilledExists
<1>7. UpTo(after[n], first + n)
  BY <1>3, <1>4, <1>6, FilledIs
<1>8. Sound(w) /\ Stays(after[n].events, w.events)
  BY <1>1, <1>7, FinishedIs DEF UpTo
<1>9. QED
  BY <1>7, <1>8 DEF UpTo, Stays

-----------------------------------------------------------------------------
(* The invariant: the writer tracks the stream that goes on, and for chunks *)
(* in turn it remembers what came.                                          *)

IInv ==
    /\ pc \in {"posting", "streaming", "closed"}
    /\ WellFormed(writer.events)
    /\ pc # "closed" => Tracks(writer) /\ IsSeq(sent)
    /\ pc = "posting" => writer.events = <<>>
    /\ InTurn(sent) =>
          /\ AllNumbered(writer.events)
          /\ pc # "closed" => Shape(writer) /\ Remembers(writer, sent)

LEMMA ClosedIs ==
    ASSUME Tracks(writer), NEW w, Sound(w), Close(w) \/ CutShort(w)
    PROVE  /\ pc' = "closed" /\ WellFormed(writer'.events)
           /\ AllNumbered(w.events) => AllNumbered(writer'.events)
<1>1. CASE Close(w)
  BY <1>1 DEF Close, Sound
<1>2. CASE CutShort(w)
  <2>1. PICK n \in Len(writer.events) + 1 .. Len(w.events) - 1 :
            Close([w EXCEPT !.events = SubSeq(@, 1, n)])
    BY <1>2 DEF CutShort
  <2>2. Len(writer.events) \in Nat /\ Len(w.events) \in Nat
    BY StreamingWellFormed, LenIs DEF Tracks, Sound
  <2>3. n \in 0..Len(w.events)
    BY <2>2
  <2> DEFINE x == [w EXCEPT !.events = SubSeq(@, 1, n)]
  <2>4. x.events = SubSeq(w.events, 1, n)
    BY DEF Sound, IsWriter
  <2>5. pc' = "closed" /\ writer' = x
    BY <2>1 DEF Close
  <2> HIDE DEF x
  <2>6. /\ WellFormed(x.events)
        /\ AllNumbered(w.events) => AllNumbered(x.events)
    BY <2>3, <2>4, BeginningHolds DEF Sound
  <2>7. QED
    BY <2>5, <2>6
<1>3. QED
  BY <1>1, <1>2

LEMMA InitHolds == Init => IInv
<1> SUFFICES ASSUME Init PROVE IInv
  OBVIOUS
<1>1. /\ IsWriter(writer) /\ writer.events = <<>> /\ writer.type = "none"
      /\ writer.thinking = FALSE /\ writer.text = FALSE /\ writer.tools = {}
      /\ sent = <<>> /\ pc = "posting"
  BY DEF Init, IsWriter
<1>2. Streaming(writer.events, writer.type, writer.index)
  BY <1>1, EmptyStream
<1>3. WellFormed(writer.events) /\ AllNumbered(writer.events) /\ BegunNow(writer.events) = 0
  BY <1>1, EmptyStream
<1>4. Tracks(writer)
  BY <1>1, <1>2 DEF Tracks
<1>5. Shape(writer)
  <2>1. One(writer.thinking) = 0 /\ One(writer.text) = 0
    BY <1>1 DEF One
  <2>2. BegunNow(writer.events) = One(writer.thinking) + One(writer.text)
    BY <1>3, <2>1
  <2>3. writer.type = IF writer.text THEN "text" ELSE IF writer.thinking THEN "thinking" ELSE "none"
    BY <1>1
  <2>4. QED
    BY <1>1, <1>3, <2>2, <2>3 DEF Shape
<1>6. Remembers(writer, sent)
  BY <1>1 DEF Remembers, OneEach
<1>7. IsSeq(sent)
  BY <1>1, EmptyIs
<1>8. QED
  BY <1>1, <1>3, <1>4, <1>5, <1>6, <1>7 DEF IInv

LEMMA FailHolds == ASSUME IInv, NEW kind, Fail(kind) PROVE IInv'
<1>1. pc' = "closed" /\ sent' = sent /\ writer' = writer
  BY DEF Fail
<1>2. InTurn(sent)' = InTurn(sent) /\ WellFormed(writer.events)' /\ pc' # "posting"
  BY <1>1 DEF IInv
<1>3. InTurn(sent) => AllNumbered(writer.events)'
  BY <1>1 DEF IInv
<1>4. QED
  BY <1>1, <1>2, <1>3 DEF IInv

LEMMA ChunkHolds == ASSUME IInv, NEW c \in Chunk, ReceiveChunk(c) PROVE IInv'
<1> DEFINE piece == Len(sent) + 1
           w == AfterChunk(writer, c, piece)
<1>1. /\ pc = "streaming" /\ sent' = Append(sent, c)
      /\ (writer' = w /\ pc' = pc) \/ CutShort(w)
  BY DEF ReceiveChunk
<1>2. /\ Tracks(writer) /\ IsSeq(sent)
      /\ InTurn(sent) => Shape(writer) /\ Remembers(writer, sent)
  BY <1>1 DEF IInv
<1>3. c.text \in {"none", "empty", "some"}
  BY DEF Chunk
<1>4. IsSeq(sent') /\ Adds(sent, sent', c)
  BY <1>1, <1>2, AppendAdds
<1>5. InTurn(sent') => InTurn(sent)
  BY <1>4, InTurnBefore
<1>6. w = AfterChunk(writer, c, piece)
  OBVIOUS
<1> HIDE DEF w, piece
<1>7. Runs(w)
  BY <1>2, <1>3, <1>6, RunsAfterChunk
<1>8. InTurn(sent') => Shape(w) /\ Remembers(w, sent')
  <2>1. InTurn(sent') => Follows(AfterChunk(writer, c, piece), Append(sent, c))
    BY <1>1, <1>2, <1>3, <1>5, ChunkIs
  <2>2. QED
    BY <1>1, <1>6, <2>1 DEF Follows
<1>9. Sound(w) /\ Tracks(w) /\ w.events # <<>>
  BY <1>7, RunsIs DEF Sound, Runs
<1>10. InTurn(sent') => AllNumbered(w.events)
  BY <1>8 DEF Shape
<1>11. CASE writer' = w /\ pc' = pc
  <2>1. /\ WellFormed(writer.events)' /\ Tracks(writer)' /\ IsSeq(sent)' /\ pc' = "streaming"
        /\ InTurn(sent)' => /\ AllNumbered(writer.events)'
                            /\ Shape(writer)' /\ Remembers(writer, sent)'
    BY <1>1, <1>4, <1>8, <1>9, <1>10, <1>11 DEF Sound
  <2>2. QED
    BY <2>1 DEF IInv
<1>12. CASE CutShort(w)
  <2>1. /\ pc' = "closed" /\ WellFormed(writer'.events)
        /\ AllNumbered(w.events) => AllNumbered(writer'.events)
    BY <1>2, <1>9, <1>12, ClosedIs
  <2>2. QED
    BY <1>10, <2>1 DEF IInv
<1>13. QED
  BY <1>1, <1>11, <1>12

LEMMA FinishHolds == ASSUME IInv, NEW reason, ReceiveFinish(reason) PROVE IInv'
<1> DEFINE w == Started(writer)
<1>1. /\ pc = "streaming" /\ pc' = pc /\ sent' = sent
      /\ writer' = [w EXCEPT !.finish = reason]
  BY DEF ReceiveFinish
<1>2. /\ Tracks(writer) /\ IsSeq(sent)
      /\ InTurn(sent) => Shape(writer) /\ Remembers(writer, sent)
  BY <1>1 DEF IInv
<1>3. Runs(w) /\ (Shape(writer) => Shape(w)) /\ (Remembers(writer, sent) => Remembers(w, sent))
  BY <1>2, StartedIs, StartedShape
<1> HIDE DEF w
<1>4. /\ IsWriter(w) /\ w.events # <<>> /\ WellFormed(w.events)
      /\ Streaming(w.events, w.type, w.index)
  BY <1>3, RunsIs DEF Runs, Tracks
<1> DEFINE x == [w EXCEPT !.finish = reason]
<1>5. /\ IsWriter(x) /\ Same(w, x) /\ x.type = w.type /\ x.index = w.index
      /\ x.events = w.events
  BY <1>4 DEF IsWriter, Same
<1>6. writer' = x
  BY <1>1
<1> HIDE DEF x
<1>7. Tracks(x) /\ WellFormed(x.events)
  BY <1>4, <1>5 DEF Tracks
<1>8. (Shape(w) => Shape(x)) /\ (Remembers(w, sent) => Remembers(x, sent))
  BY <1>5 DEF Same, Shape, Remembers, OneEach, Current
<1>9. InTurn(sent) => AllNumbered(x.events) /\ Shape(x) /\ Remembers(x, sent)
  BY <1>2, <1>3, <1>8 DEF Shape
<1>10. /\ WellFormed(writer.events)' /\ Tracks(writer)' /\ IsSeq(sent)' /\ pc' = "streaming"
       /\ InTurn(sent)' => /\ AllNumbered(writer.events)'
                           /\ Shape(writer)' /\ Remembers(writer, sent)'
  BY <1>1, <1>2, <1>6, <1>7, <1>9
<1>11. QED
  BY <1>10 DEF IInv

(* The end, of a stream of chunks or of a collected response. *)
LEMMA CloseHolds ==
    ASSUME IInv, Tracks(writer), NEW w, Sound(w), InTurn(sent)' => AllNumbered(w.events),
           Close(w) \/ CutShort(w)
    PROVE  IInv'
<1>1. /\ pc' = "closed" /\ WellFormed(writer'.events)
      /\ AllNumbered(w.events) => AllNumbered(writer'.events)
  BY ClosedIs
<1>2. QED
  BY <1>1 DEF IInv

LEMMA EndHolds == ASSUME IInv, EndOfStream PROVE IInv'
<1> DEFINE x == Stopped(writer)
           w == Finished(x, StopReason(writer))
<1>1. /\ pc = "streaming"
      /\ Fail("empty") \/ (writer.events # <<>> /\ sent' = sent /\ (Close(w) \/ CutShort(w)))
  BY DEF EndOfStream
<1>2. CASE Fail("empty")
  BY <1>2, FailHolds
<1>3. CASE writer.events # <<>> /\ sent' = sent /\ (Close(w) \/ CutShort(w))
  <2>1. Runs(writer)
    BY <1>1, <1>3 DEF IInv, Runs
  <2>2. Runs(x) /\ x.type = "none" /\ Quiet(writer, x)
    BY <2>1, StoppedIs
  <2> HIDE DEF x
  <2>3. Sound(w) /\ Stays(x.events, w.events)
    BY <2>2, FinishedIs
  <2>4. InTurn(sent)' => AllNumbered(w.events)
    BY <1>3, <2>2, <2>3 DEF IInv, Quiet, Stays
  <2> HIDE DEF w
  <2>5. QED
    BY <1>3, <2>1, <2>3, <2>4, CloseHolds DEF Runs
<1>4. QED
  BY <1>1, <1>2, <1>3

LEMMA GoneHolds == ASSUME IInv, ClientGone PROVE IInv'
<1>1. pc = "streaming" /\ writer.events # <<>> /\ sent' = sent /\ Close(writer)
  BY DEF ClientGone
<1>2. Runs(writer)
  BY <1>1 DEF IInv, Runs
<1>3. Sound(writer)
  BY <1>2, RunsIs DEF Sound
<1>4. InTurn(sent)' => AllNumbered(writer.events)
  BY <1>1 DEF IInv
<1>5. QED
  BY <1>1, <1>2, <1>3, <1>4, CloseHolds DEF Runs

LEMMA CollectedHolds ==
    ASSUME IInv, NEW text \in BOOLEAN, NEW tools \in ToolCalls, Collected(text, tools)
    PROVE  IInv'
<1> DEFINE w == Streamed(text, tools)
<1>1. pc = "posting" /\ (Close(w) \/ CutShort(w))
  BY DEF Collected
<1>2. Tracks(writer) /\ writer.events = <<>>
  BY <1>1 DEF IInv
<1>3. IsSeq(tools)
  <2>1. PICK n \in 0..Cardinality(Tool) : tools \in [1..n -> Tool]
    BY DEF ToolCalls
  <2>2. Cardinality(Tool) \in Nat
    BY ToolAssumption, FS_CardinalityType
  <2>3. n \in Nat
    BY <2>2
  <2>4. tools \in Seq(Tool)
    BY <2>1, <2>3, SeqDef
  <2>5. QED
    BY <2>4 DEF IsSeq
<1>4. Sound(w) /\ AllNumbered(w.events)
  BY <1>2, <1>3, StreamedIs
<1> HIDE DEF w
<1>5. QED
  BY <1>1, <1>2, <1>4, CloseHolds

LEMMA StepHolds == IInv /\ [Next]_vars => IInv'
<1> SUFFICES ASSUME IInv, [Next]_vars PROVE IInv'
  OBVIOUS
<1>1. CASE RateLimited
  BY <1>1, FailHolds DEF RateLimited
<1>2. CASE Rejected
  BY <1>2, FailHolds DEF Rejected
<1>3. CASE BreaksOff
  BY <1>3, FailHolds DEF BreaksOff
<1>4. CASE Connect
  <2>1. pc = "posting" /\ pc' = "streaming" /\ sent' = sent /\ writer' = writer
    BY <1>4 DEF Connect
  <2>2. /\ WellFormed(writer.events)' /\ Tracks(writer)' /\ IsSeq(sent)'
        /\ InTurn(sent)' => /\ AllNumbered(writer.events)'
                            /\ Shape(writer)' /\ Remembers(writer, sent)'
    BY <2>1 DEF IInv
  <2>3. QED
    BY <2>1, <2>2 DEF IInv
<1>5. CASE \E c \in Chunk : ReceiveChunk(c)
  BY <1>5, ChunkHolds
<1>6. CASE \E reason \in {"stop", "tool_calls"} : ReceiveFinish(reason)
  BY <1>6, FinishHolds
<1>7. CASE EndOfStream
  BY <1>7, EndHolds
<1>8. CASE ClientGone
  BY <1>8, GoneHolds
<1>9. CASE \E text \in BOOLEAN, tools \in ToolCalls : Collected(text, tools)
  BY <1>9, CollectedHolds
<1>10. CASE CollectedNothing
  BY <1>10, FailHolds DEF CollectedNothing
<1>11. CASE UNCHANGED vars
  <2>1. pc' = pc /\ sent' = sent /\ writer' = writer
    BY <1>11 DEF vars
  <2>2. /\ WellFormed(writer.events)' = WellFormed(writer.events)
        /\ Tracks(writer)' = Tracks(writer) /\ IsSeq(sent)' = IsSeq(sent)
        /\ InTurn(sent)' = InTurn(sent) /\ AllNumbered(writer.events)' = AllNumbered(writer.events)
        /\ Shape(writer)' = Shape(writer) /\ Remembers(writer, sent)' = Remembers(writer, sent)
    BY <2>1
  <2>3. QED
    BY <2>1, <2>2 DEF IInv
<1>12. QED
  BY <1>1, <1>2, <1>3, <1>4, <1>5, <1>6, <1>7, <1>8, <1>9, <1>10, <1>11 DEF Next

(* The writer tracks the stream it emits, in every state. *)
THEOREM Invariant == Spec => []IInv
<1>1. Init => IInv
  BY InitHolds
<1>2. IInv /\ [Next]_vars => IInv'
  BY StepHolds
<1>3. QED
  BY <1>1, <1>2, PTL DEF Spec

(* Whatever chunks come in whatever order, and wherever the stream is cut  *)
(* off, the events of build_openai_bridge_streaming_response are one       *)
(* message: started first and ended last, its blocks open and close in     *)
(* turn, each closed under the number it was opened with.                  *)
THEOREM StreamIsWellFormed == Spec => []StreamWellFormed
<1>1. IInv => StreamWellFormed
  <2>1. ASSUME IInv PROVE StreamWellFormed
    <3>1. WellFormed(writer.events)
      BY <2>1 DEF IInv
    <3>2. QED
      BY <3>1 DEF WellFormed, Legal, StreamWellFormed
  <2>2. QED
    BY <2>1
<1>2. QED
  BY <1>1, Invariant, PTL

(* For chunks in turn, current_block_index and tool_map number the blocks  *)
(* from 0 without a gap, and every delta goes to the block that is open.   *)
THEOREM BlocksAreNumbered == Spec => []BlocksNumbered
<1>1. IInv => BlocksNumbered
  <2>1. ASSUME IInv PROVE BlocksNumbered
    <3>1. PartsInOrder(sent) /\ ToolsInTurn(sent) => AllNumbered(writer.events)
      BY <2>1 DEF IInv, InTurn
    <3>2. QED
      BY <3>1 DEF AllNumbered, Numbered, Begun, BlocksNumbered
  <2>2. QED
    BY <2>1
<1>2. QED
  BY <1>1, Invariant, PTL

-----------------------------------------------------------------------------
(* What is gathered from a function's places. *)

Gathers(g, f, ks, n) ==
    g = [k \in 0..n |-> IF k = 0 THEN <<>>
                        ELSE IF k \in ks THEN Append(g[k - 1], f[k]) ELSE g[k - 1]]

LEMMA GathersExists ==
    ASSUME NEW f, NEW ks, NEW n \in Nat
    PROVE  \E g : Gathers(g, f, ks, n)
<1> DEFINE S == {m \in Nat : ~\E g : Gathers(g, f, ks, m)}
<1>1. SUFFICES ASSUME S # {} PROVE FALSE
  OBVIOUS
<1>2. S \subseteq Nat
  OBVIOUS
<1> HIDE DEF S
<1>3. PICK m \in S : m \in Nat /\ \A l \in S : m <= l
  BY <1>1, <1>2, LeastExists
<1>4. ~\E g : Gathers(g, f, ks, m)
  BY <1>3 DEF S
<1>5. CASE m = 0
  <2> DEFINE g == [k \in 0..0 |-> <<>>]
  <2>1. g = [k \in 0..0 |-> IF k = 0 THEN <<>>
                            ELSE IF k \in ks THEN Append(g[k - 1], f[k]) ELSE g[k - 1]]
    OBVIOUS
  <2>2. Gathers(g, f, ks, 0)
    BY <2>1 DEF Gathers
  <2>3. QED
    BY <1>4, <1>5, <2>2
<1>6. CASE m # 0
  <2>1. m - 1 \in Nat /\ ~(m <= m - 1)
    BY <1>3, <1>6
  <2>2. m - 1 \notin S
    BY <1>3, <2>1
  <2>3. PICK h : Gathers(h, f, ks, m - 1)
    BY <2>1, <2>2 DEF S
  <2> DEFINE g == [k \in 0..m |-> IF k # m THEN h[k]
                                  ELSE IF m \in ks THEN Append(h[m - 1], f[m]) ELSE h[m - 1]]
  <2>4. ASSUME NEW k \in 0..m
        PROVE  g[k] = IF k = 0 THEN <<>>
                      ELSE IF k \in ks THEN Append(g[k - 1], f[k]) ELSE g[k - 1]
    <3>1. CASE k = m
      <4>1. k - 1 \in 0..m /\ k - 1 # m /\ k # 0
        BY <1>3, <1>6, <3>1
      <4>2. g[k - 1] = h[m - 1]
        BY <3>1, <4>1
      <4>3. QED
        BY <3>1, <4>1, <4>2
    <3>2. CASE k # m
      <4>1. k \in 0..(m - 1) /\ g[k] = h[k]
        BY <1>3, <3>2
      <4>2. h[k] = IF k = 0 THEN <<>>
                   ELSE IF k \in ks THEN Append(h[k - 1], f[k]) ELSE h[k - 1]
        BY <2>3, <4>1 DEF Gathers
      <4>3. k # 0 => g[k - 1] = h[k - 1]
        BY <1>3, <3>2
      <4>4. QED
        BY <4>1, <4>2, <4>3
    <3>3. QED
      BY <3>1, <3>2
  <2>5. g = [k \in 0..m |-> g[k]]
    OBVIOUS
  <2> HIDE DEF g
  <2>6. g = [k \in 0..m |-> IF k = 0 THEN <<>>
                            ELSE IF k \in ks THEN Append(g[k - 1], f[k]) ELSE g[k - 1]]
    BY <2>4, <2>5
  <2>7. Gathers(g, f, ks, m)
    BY <2>6 DEF Gathers
  <2>8. QED
    BY <1>4, <2>7
<1>7. QED
  BY <1>5, <1>6

LEMMA GatheredIs ==
    ASSUME NEW f, NEW ks, NEW n \in Nat
    PROVE  \E g : Gathers(g, f, ks, n) /\ Gathered(f, ks, n) = g[n]
<1> DEFINE g == CHOOSE g : Gathers(g, f, ks, n)
<1>1. Gathers(g, f, ks, n)
  BY GathersExists
<1>2. Gathered(f, ks, n) = g[n]
  BY DEF Gathered, Gathers
<1>3. QED
  BY <1>1, <1>2

(* Only the places up to n matter, and what is there. *)
SameTo(f, ks, e, js, n) == \A k \in 1..n : (k \in ks <=> k \in js) /\ (k \in ks => f[k] = e[k])

LEMMA GathersSame ==
    ASSUME NEW f, NEW ks, NEW e, NEW js, NEW n \in Nat, NEW m \in Nat, n <= m,
           NEW g, Gathers(g, f, ks, n), NEW h, Gathers(h, e, js, m), SameTo(f, ks, e, js, n)
    PROVE  \A k \in 0..n : g[k] = h[k]
<1> DEFINE S == {k \in 0..n : g[k] # h[k]}
<1>1. SUFFICES ASSUME S # {} PROVE FALSE
  OBVIOUS
<1>2. S \subseteq Nat
  OBVIOUS
<1> HIDE DEF S
<1>3. PICK k \in S : k \in Nat /\ \A l \in S : k <= l
  BY <1>1, <1>2, LeastExists
<1>4. k \in 0..n /\ k \in 0..m /\ g[k] # h[k]
  BY <1>3 DEF S
<1>5. /\ g[k] = IF k = 0 THEN <<>>
                ELSE IF k \in ks THEN Append(g[k - 1], f[k]) ELSE g[k - 1]
      /\ h[k] = IF k = 0 THEN <<>>
                ELSE IF k \in js THEN Append(h[k - 1], e[k]) ELSE h[k - 1]
  BY <1>4 DEF Gathers
<1>6. k # 0
  BY <1>4, <1>5
<1>7. k - 1 \in 0..n /\ ~(k <= k - 1) /\ k \in 1..n
  BY <1>4, <1>6
<1>8. k - 1 \notin S
  BY <1>3, <1>7
<1>9. g[k - 1] = h[k - 1]
  BY <1>7, <1>8 DEF S
<1>10. (k \in ks <=> k \in js) /\ (k \in ks => f[k] = e[k])
  BY <1>7 DEF SameTo
<1>11. QED
  BY <1>4, <1>5, <1>6, <1>9, <1>10

LEMMA GatheredSame ==
    ASSUME NEW f, NEW ks, NEW e, NEW js, NEW n \in Nat, SameTo(f, ks, e, js, n)
    PROVE  Gathered(f, ks, n) = Gathered(e, js, n)
<1>1. PICK g : Gathers(g, f, ks, n) /\ Gathered(f, ks, n) = g[n]
  BY GatheredIs
<1>2. PICK h : Gathers(h, e, js, n) /\ Gathered(e, js, n) = h[n]
  BY GatheredIs
<1>3. n <= n /\ n \in 0..n
  OBVIOUS
<1>4. \A k \in 0..n : g[k] = h[k]
  BY <1>1, <1>2, <1>3, GathersSame
<1>5. QED
  BY <1>1, <1>2, <1>3, <1>4

LEMMA GatheredNone == ASSUME NEW f, NEW ks PROVE Gathered(f, ks, 0) = <<>>
<1>1. 0 \in Nat
  OBVIOUS
<1>2. PICK g : Gathers(g, f, ks, 0) /\ Gathered(f, ks, 0) = g[0]
  BY <1>1, GatheredIs
<1>3. QED
  BY <1>2 DEF Gathers

LEMMA GatheredNext ==
    ASSUME NEW f, NEW ks, NEW n \in Nat
    PROVE  /\ n + 1 \in ks => Gathered(f, ks, n + 1) = Append(Gathered(f, ks, n), f[n + 1])
           /\ n + 1 \notin ks => Gathered(f, ks, n + 1) = Gathered(f, ks, n)
<1>1. n + 1 \in Nat /\ n <= n + 1 /\ n \in 0..n /\ n + 1 \in 0..(n + 1) /\ n + 1 # 0 /\ n + 1 - 1 = n
  OBVIOUS
<1>2. PICK g : Gathers(g, f, ks, n) /\ Gathered(f, ks, n) = g[n]
  BY GatheredIs
<1>3. PICK h : Gathers(h, f, ks, n + 1) /\ Gathered(f, ks, n + 1) = h[n + 1]
  BY <1>1, GatheredIs
<1>4. SameTo(f, ks, f, ks, n)
  BY DEF SameTo
<1>5. g[n] = h[n]
  BY <1>1, <1>2, <1>3, <1>4, GathersSame
<1>6. h[n + 1] = IF n + 1 \in ks THEN Append(h[n], f[n + 1]) ELSE h[n]
  <2> DEFINE m == n + 1
  <2>1. m \in 0..m /\ m # 0 /\ m - 1 = n /\ Gathers(h, f, ks, m)
    BY <1>1, <1>3
  <2> HIDE DEF m
  <2>2. h[m] = IF m \in ks THEN Append(h[m - 1], f[m]) ELSE h[m - 1]
    BY <2>1 DEF Gathers
  <2>3. QED
    BY <2>1, <2>2 DEF m
<1>7. QED
  BY <1>2, <1>3, <1>5, <1>6

(* Nothing is gathered from no place, and a sequence from any. *)
LEMMA GatheredEmpty ==
    ASSUME NEW f, NEW ks, NEW n \in Nat, \A k \in 1..n : k \notin ks
    PROVE  Gathered(f, ks, n) = <<>>
<1> DEFINE S == {m \in 0..n : Gathered(f, ks, m) # <<>>}
<1>1. SUFFICES ASSUME S # {} PROVE FALSE
  <2>1. n \in 0..n
    OBVIOUS
  <2>2. QED
    BY <2>1
<1>2. S \subseteq Nat
  OBVIOUS
<1> HIDE DEF S
<1>3. PICK m \in S : m \in Nat /\ \A l \in S : m <= l
  BY <1>1, <1>2, LeastExists
<1>4. m \in 0..n /\ Gathered(f, ks, m) # <<>>
  BY <1>3 DEF S
<1>5. m # 0
  BY <1>4, GatheredNone
<1>6. m - 1 \in Nat /\ m - 1 + 1 = m /\ m \in 1..n /\ ~(m <= m - 1) /\ m - 1 \in 0..n
  BY <1>4, <1>5
<1>7. Gathered(f, ks, m) = Gathered(f, ks, m - 1)
  <2> DEFINE l == m - 1
  <2>1. l \in Nat /\ l + 1 = m /\ l + 1 \notin ks
    BY <1>6
  <2> HIDE DEF l
  <2>2. Gathered(f, ks, l + 1) = Gathered(f, ks, l)
    BY <2>1, GatheredNext
  <2>3. QED
    BY <2>1, <2>2 DEF l
<1>8. m - 1 \in S
  BY <1>4, <1>6, <1>7 DEF S
<1>9. QED
  BY <1>3, <1>6, <1>8

LEMMA GatheredIsSeq ==
    ASSUME NEW f, NEW ks, NEW n \in Nat
    PROVE  IsSeq(Gathered(f, ks, n))
<1> DEFINE S == {m \in 0..n : ~IsSeq(Gathered(f, ks, m))}
<1>1. SUFFICES ASSUME S # {} PROVE FALSE
  <2>1. n \in 0..n
    OBVIOUS
  <2>2. QED
    BY <2>1
<1>2. S \subseteq Nat
  OBVIOUS
<1> HIDE DEF S
<1>3. PICK m \in S : m \in Nat /\ \A l \in S : m <= l
  BY <1>1, <1>2, LeastExists
<1>4. m \in 0..n /\ ~IsSeq(Gathered(f, ks, m))
  BY <1>3 DEF S
<1>5. m # 0
  BY <1>4, GatheredNone, EmptyIs
<1> DEFINE l == m - 1
<1>6. l \in Nat /\ l + 1 = m /\ ~(m <= l) /\ l \in 0..n
  BY <1>4, <1>5
<1> HIDE DEF l
<1>7. l \notin S
  BY <1>3, <1>6
<1>8. IsSeq(Gathered(f, ks, l))
  BY <1>6, <1>7 DEF S
<1>9. IsSeq(Append(Gathered(f, ks, l), f[l + 1]))
  BY <1>8, AppendAdds
<1>10. IsSeq(Gathered(f, ks, l + 1))
  BY <1>6, <1>8, <1>9, GatheredNext
<1>11. QED
  BY <1>4, <1>6, <1>10

-----------------------------------------------------------------------------
(* The message that a stream's events tell. *)

Tells(s, content) ==
    /\ IsSeq(s) /\ IsSeq(content)
    /\ \A k \in Starts(s) : s[k].index \in 0..(Len(content) - 1)
    /\ \A k, l \in Starts(s) : s[k].index = s[l].index => k = l
    /\ \A i \in 1..Len(content) :
          \E k \in Starts(s) : s[k].index = i - 1 /\ content[i] = BlockFrom(s, k)

LEMMA TellsNothing == Tells(<<>>, <<>>)
<1>1. Starts(<<>>) = {}
  BY EmptyIs DEF Starts
<1>2. 1..Len(<<>>) = {}
  BY EmptyIs
<1>3. QED
  BY <1>1, <1>2, EmptyIs DEF Tells

LEMMA SeqIs == ASSUME NEW s, IsSeq(s) PROVE s = [k \in 1..Len(s) |-> s[k]]
<1>1. PICK S : s \in Seq(S)
  BY DEF IsSeq
<1>2. QED
  BY <1>1, LenProperties

LEMMA ContentTold == ASSUME NEW s, NEW content, Tells(s, content) PROVE Content(s) = content
<1> DEFINE n == Len(content)
           used == {s[k].index : k \in Starts(s)}
           nth(m) == CHOOSE i \in used : Cardinality({j \in used : j < i}) = m - 1
<1>1. n \in Nat
  BY LenIs DEF Tells
<1>2. used = 0..(n - 1)
  <2>1. ASSUME NEW j \in 0..(n - 1) PROVE j \in used
    <3>1. j + 1 \in 1..n /\ j + 1 - 1 = j
      BY <1>1
    <3>2. PICK k \in Starts(s) : s[k].index = j + 1 - 1
      BY <3>1 DEF Tells
    <3>3. QED
      BY <3>1, <3>2
  <2>2. \A j \in used : j \in 0..(n - 1)
    BY DEF Tells
  <2>3. QED
    BY <2>1, <2>2
<1>3. n = Len(content)
  OBVIOUS
<1>4. Content(s) = [m \in 1..Cardinality(used) |-> BlockAt(s, nth(m))]
  BY DEF Content
<1> HIDE DEF used, n
<1>5. Cardinality(used) = n
  <2>1. Cardinality(0..(n - 1)) = IF 0 > n - 1 THEN 0 ELSE n - 1 - 0 + 1
    BY <1>1, FS_Interval
  <2>2. QED
    BY <1>1, <1>2, <2>1
<1>6. ASSUME NEW m \in 1..n PROVE nth(m) = m - 1
  <2>1. ASSUME NEW i \in used PROVE Cardinality({j \in used : j < i}) = i
    <3> DEFINE B == {j \in used : j < i}
    <3>1. B = 0..(i - 1)
      BY <1>1, <1>2
    <3>2. Cardinality(0..(i - 1)) = IF 0 > i - 1 THEN 0 ELSE i - 1 - 0 + 1
      BY <1>1, <1>2, FS_Interval
    <3>3. i \in Nat
      BY <1>1, <1>2
    <3> HIDE DEF B
    <3>4. Cardinality(B) = i
      BY <3>1, <3>2, <3>3
    <3>5. QED
      BY <3>4 DEF B
  <2>2. m - 1 \in used
    BY <1>1, <1>2
  <2>3. QED
    BY <2>1, <2>2
<1>7. ASSUME NEW m \in 1..n PROVE BlockAt(s, m - 1) = content[m]
  <2>1. PICK k \in Starts(s) : s[k].index = m - 1 /\ content[m] = BlockFrom(s, k)
    BY <1>3 DEF Tells
  <2>2. \A l \in Starts(s) : s[l].index = m - 1 => l = k
    BY <2>1 DEF Tells
  <2>3. k \in Nat
    <3>1. DOMAIN s = 1..Len(s) /\ Len(s) \in Nat
      BY LenIs DEF Tells
    <3>2. QED
      BY <3>1 DEF Starts
  <2>4. \A l \in Starts(s) : s[l].index = m - 1 => l <= k
    BY <2>2, <2>3
  <2>5. k = CHOOSE x \in Starts(s) : /\ s[x].index = m - 1
                                    /\ \A l \in Starts(s) : s[l].index = m - 1 => l <= x
    BY <2>1, <2>2, <2>4
  <2>6. QED
    BY <2>1, <2>5 DEF BlockAt
<1> HIDE DEF nth
<1>8. Content(s) = [m \in 1..n |-> content[m]]
  BY <1>5, <1>4, <1>6, <1>7
<1>9. QED
  BY <1>8, <1>3, SeqIs DEF Tells

(* One event more. *)
Adding(e, s, k) ==
    /\ e.event = "content_block_delta" /\ e.piece # Empty
    /\ e.index = s[k].index /\ e.type = s[k].type

BlockNext(s, t, e, k) ==
    /\ ~Adding(e, s, k) => BlockFrom(t, k) = BlockFrom(s, k)
    /\ Adding(e, s, k) =>
          BlockFrom(t, k) = [type |-> s[k].type,
                             pieces |-> Append(BlockFrom(s, k).pieces, e.piece)]

LEMMA BlockGoesOn ==
    ASSUME NEW s, IsSeq(s), NEW e, NEW t, t = Append(s, e), NEW k \in Starts(s)
    PROVE  BlockNext(s, t, e, k)
<1> DEFINE n == Len(s)
           ds == DeltasOf(s, k)
           dt == DeltasOf(t, k)
           ps == Pieces(s)
           pt == Pieces(t)
<1>1. /\ IsSeq(t) /\ n \in Nat /\ Len(t) = n + 1 /\ DOMAIN s = 1..n /\ DOMAIN t = 1..(n + 1)
      /\ t[n + 1] = e /\ \A j \in 1..n : t[j] = s[j]
  BY AppendAdds DEF Adds
<1>2. k \in 1..n /\ t[k] = s[k] /\ k \in Starts(t)
  BY <1>1 DEF Starts
<1>3. SameTo(pt, dt, ps, ds, n)
  <2> SUFFICES ASSUME NEW j \in 1..n PROVE (j \in dt <=> j \in ds) /\ pt[j] = ps[j]
    BY DEF SameTo
  <2>1. j \in DOMAIN s /\ j \in DOMAIN t /\ t[j] = s[j]
    BY <1>1
  <2>2. QED
    BY <1>2, <2>1 DEF DeltasOf, Pieces
<1>4. n + 1 \in dt <=> Adding(e, s, k)
  <2>1. n + 1 > k /\ n + 1 \in DOMAIN t
    BY <1>1, <1>2
  <2>2. QED
    BY <1>1, <1>2, <2>1 DEF DeltasOf, Adding
<1>5. pt[n + 1] = e.piece
  BY <1>1 DEF Pieces
<1>6. /\ BlockFrom(s, k) = [type |-> s[k].type, pieces |-> Gathered(ps, ds, n)]
      /\ BlockFrom(t, k) = [type |-> s[k].type, pieces |-> Gathered(pt, dt, n + 1)]
  BY <1>1, <1>2 DEF BlockFrom
<1> HIDE DEF n, ds, dt, ps, pt
<1>7. Gathered(pt, dt, n) = Gathered(ps, ds, n)
  BY <1>1, <1>3, GatheredSame
<1>8. /\ n + 1 \in dt => Gathered(pt, dt, n + 1) = Append(Gathered(pt, dt, n), pt[n + 1])
      /\ n + 1 \notin dt => Gathered(pt, dt, n + 1) = Gathered(pt, dt, n)
  BY <1>1, GatheredNext
<1>9. ~Adding(e, s, k) => BlockFrom(t, k) = BlockFrom(s, k)
  BY <1>4, <1>6, <1>7, <1>8
<1>10. BlockFrom(s, k).pieces = Gathered(ps, ds, n)
  BY <1>6
<1>11. QED
  BY <1>2, <1>4, <1>5, <1>6, <1>7, <1>8, <1>9, <1>10 DEF BlockNext

LEMMA BlockBegins ==
    ASSUME NEW s, IsSeq(s), NEW e, NEW t, t = Append(s, e)
    PROVE  BlockFrom(t, Len(t)) = [type |-> e.type, pieces |-> <<>>]
<1>1. /\ Len(t) \in Nat /\ DOMAIN t = 1..Len(t) /\ t[Len(t)] = e
  BY AppendAdds DEF Adds
<1>2. \A k \in 1..Len(t) : k \notin DeltasOf(t, Len(t))
  BY <1>1 DEF DeltasOf
<1>3. Gathered(Pieces(t), DeltasOf(t, Len(t)), Len(t)) = <<>>
  BY <1>1, <1>2, GatheredEmpty
<1>4. QED
  BY <1>1, <1>3 DEF BlockFrom

StartsOf(s, t, e) ==
    /\ \A k \in Starts(s) : k \in Starts(t) /\ k # Len(t) /\ t[k] = s[k]
    /\ \A k \in Starts(t) : k \in Starts(s) \/ k = Len(t)
    /\ Len(t) \in Starts(t) <=> e.event = "content_block_start"
    /\ t[Len(t)] = e

LEMMA StartsMore ==
    ASSUME NEW s, IsSeq(s), NEW e, NEW t, t = Append(s, e)
    PROVE  StartsOf(s, t, e)
<1>1. /\ Len(s) \in Nat /\ Len(t) = Len(s) + 1 /\ DOMAIN s = 1..Len(s)
      /\ DOMAIN t = 1..(Len(s) + 1) /\ t[Len(t)] = e /\ \A j \in 1..Len(s) : t[j] = s[j]
  BY AppendAdds DEF Adds
<1>2. \A k \in DOMAIN t : k \in DOMAIN s \/ k = Len(t)
  BY <1>1
<1>3. DOMAIN s \subseteq DOMAIN t /\ Len(t) \notin DOMAIN s /\ Len(t) \in DOMAIN t
      /\ \A k \in DOMAIN s : t[k] = s[k]
  BY <1>1
<1>4. QED
  BY <1>1, <1>2, <1>3 DEF Starts, StartsOf

(* A block begins. *)
LEMMA TellsStart ==
    ASSUME NEW s, NEW content, Tells(s, content),
           NEW e, e.event = "content_block_start", e.index = Len(content),
           NEW t, t = Append(s, e),
           NEW more, more = Append(content, [type |-> e.type, pieces |-> <<>>])
    PROVE  Tells(t, more)
<1> DEFINE n == Len(content)
<1>1. IsSeq(s) /\ IsSeq(content) /\ IsSeq(t)
  BY AppendAdds DEF Tells
<1>2. /\ IsSeq(more) /\ n \in Nat /\ Len(more) = n + 1
      /\ more[n + 1] = [type |-> e.type, pieces |-> <<>>]
      /\ \A i \in 1..n : more[i] = content[i]
  BY <1>1, AppendAdds DEF Adds
<1>3. StartsOf(s, t, e)
  BY <1>1, StartsMore
<1>4. /\ \A k \in Starts(s) : k \in Starts(t) /\ k # Len(t) /\ t[k] = s[k]
      /\ \A k \in Starts(t) : k \in Starts(s) \/ k = Len(t)
      /\ Len(t) \in Starts(t) /\ t[Len(t)].index = Len(content)
  BY <1>3 DEF StartsOf
<1>5. t[Len(t)].index = n
  BY <1>4
<1>6. /\ \A k \in Starts(s) : s[k].index \in 0..(n - 1)
      /\ \A k, l \in Starts(s) : s[k].index = s[l].index => k = l
  BY DEF Tells
<1> HIDE DEF n
<1>7. \A k \in Starts(t) : t[k].index \in 0..(Len(more) - 1)
  <2>1. 0..(Len(more) - 1) = 0..n /\ n \in 0..n /\ 0..(n - 1) \subseteq 0..n
    BY <1>2
  <2>2. QED
    BY <1>4, <1>5, <1>6, <2>1
<1>8. ASSUME NEW k \in Starts(t), NEW l \in Starts(t), t[k].index = t[l].index PROVE k = l
  <2> DEFINE I == 0..(n - 1)
  <2>1. n \notin I /\ \A j \in Starts(s) : s[j].index \in I
    BY <1>2, <1>6
  <2> HIDE DEF I
  <2>2. \A j \in Starts(s) : t[j].index # n /\ t[j].index = s[j].index
    BY <1>4, <2>1
  <2>3. CASE k \in Starts(s) /\ l \in Starts(s)
    <3>1. s[k].index = s[l].index
      BY <1>8, <2>2, <2>3
    <3>2. QED
      BY <1>6, <2>3, <3>1
  <2>4. CASE k = Len(t) \/ l = Len(t)
    BY <1>4, <1>5, <1>8, <2>2, <2>4
  <2>5. QED
    BY <1>4, <2>3, <2>4
<1>9. ASSUME NEW i \in 1..Len(more)
      PROVE  \E k \in Starts(t) : t[k].index = i - 1 /\ more[i] = BlockFrom(t, k)
  <2>1. CASE i \in 1..n
    <3>1. PICK k \in Starts(s) : s[k].index = i - 1 /\ content[i] = BlockFrom(s, k)
      BY <2>1 DEF Tells, n
    <3>2. ~Adding(e, s, k)
      BY DEF Adding
    <3>3. BlockNext(s, t, e, k)
      BY <1>1, BlockGoesOn
    <3>4. k \in Starts(t) /\ t[k] = s[k] /\ BlockFrom(t, k) = BlockFrom(s, k)
      BY <1>4, <3>2, <3>3 DEF BlockNext
    <3>5. QED
      BY <1>2, <2>1, <3>1, <3>4
  <2>2. CASE i \notin 1..n
    <3>1. i = n + 1 /\ i - 1 = n
      BY <1>2, <2>2
    <3>2. BlockFrom(t, Len(t)) = more[i]
      BY <1>1, <1>2, <3>1, BlockBegins
    <3>3. QED
      BY <1>4, <1>5, <3>1, <3>2
  <2>3. QED
    BY <2>1, <2>2
<1>10. QED
  BY <1>1, <1>2, <1>7, <1>8, <1>9 DEF Tells

(* A piece is added to the block that it is for, or nothing is. *)
IsFor(e, content, i) ==
    /\ e.event = "content_block_delta" /\ e.piece # Empty
    /\ e.index = i - 1 /\ e.type = content[i].type

Extended(e, content, more) ==
    /\ IsSeq(more) /\ Len(more) = Len(content)
    /\ \A i \in 1..Len(content) :
          more[i] = IF IsFor(e, content, i)
                    THEN [type |-> content[i].type, pieces |-> Append(content[i].pieces, e.piece)]
                    ELSE content[i]

LEMMA TellsMore ==
    ASSUME NEW s, NEW content, Tells(s, content),
           NEW e, e.event # "content_block_start", NEW t, t = Append(s, e),
           NEW more, Extended(e, content, more)
    PROVE  Tells(t, more)
<1>1. IsSeq(s) /\ IsSeq(content) /\ IsSeq(t) /\ IsSeq(more) /\ Len(more) = Len(content)
  BY AppendAdds DEF Tells, Extended
<1>2. StartsOf(s, t, e)
  BY <1>1, StartsMore
<1>3. /\ Starts(t) = Starts(s)
      /\ \A k \in Starts(s) : t[k] = s[k]
  BY <1>2 DEF StartsOf
<1>4. ASSUME NEW i \in 1..Len(more)
      PROVE  \E k \in Starts(t) : t[k].index = i - 1 /\ more[i] = BlockFrom(t, k)
  <2>1. PICK k \in Starts(s) : s[k].index = i - 1 /\ content[i] = BlockFrom(s, k)
    BY <1>1 DEF Tells
  <2>2. content[i].type = s[k].type
    BY <2>1 DEF BlockFrom
  <2>3. IsFor(e, content, i) <=> Adding(e, s, k)
    BY <2>1, <2>2 DEF IsFor, Adding
  <2>4. BlockNext(s, t, e, k)
    BY <1>1, BlockGoesOn
  <2>5. /\ t[k] = s[k]
        /\ ~Adding(e, s, k) => BlockFrom(t, k) = BlockFrom(s, k)
        /\ Adding(e, s, k) =>
              BlockFrom(t, k) = [type |-> s[k].type,
                                 pieces |-> Append(BlockFrom(s, k).pieces, e.piece)]
    BY <1>3, <2>4 DEF BlockNext
  <2>6. more[i] = IF IsFor(e, content, i)
                  THEN [type |-> content[i].type, pieces |-> Append(content[i].pieces, e.piece)]
                  ELSE content[i]
    BY <1>1 DEF Extended
  <2>7. more[i] = BlockFrom(t, k)
    <3>1. CASE Adding(e, s, k)
      <4>1. more[i] = [type |-> content[i].type, pieces |-> Append(content[i].pieces, e.piece)]
        BY <2>3, <2>6, <3>1
      <4>2. BlockFrom(t, k) = [type |-> s[k].type, pieces |-> Append(content[i].pieces, e.piece)]
        BY <2>1, <2>5, <3>1
      <4>3. QED
        BY <2>2, <4>1, <4>2
    <3>2. CASE ~Adding(e, s, k)
      BY <2>1, <2>3, <2>5, <2>6, <3>2
    <3>3. QED
      BY <3>1, <3>2
  <2>8. k \in Starts(t) /\ t[k].index = i - 1
    BY <1>3, <2>1, <2>5
  <2>9. QED
    BY <2>7, <2>8
<1>5. /\ \A k \in Starts(s) : s[k].index \in 0..(Len(content) - 1)
      /\ \A k, l \in Starts(s) : s[k].index = s[l].index => k = l
  BY DEF Tells
<1>6. /\ \A k \in Starts(t) : t[k].index \in 0..(Len(more) - 1)
      /\ \A k, l \in Starts(t) : t[k].index = t[l].index => k = l
  BY <1>1, <1>3, <1>5
<1>7. QED
  BY <1>1, <1>4, <1>6 DEF Tells

(* An event that is not for a block changes nothing. *)
LEMMA TellsSame ==
    ASSUME NEW s, NEW content, Tells(s, content), NEW e, NEW t, t = Append(s, e),
           \/ e.event \notin {"content_block_start", "content_block_delta"}
           \/ e.event = "content_block_delta" /\ e.piece = Empty
    PROVE  Tells(t, content)
<1>1. Extended(e, content, content) /\ e.event # "content_block_start"
  BY DEF Extended, IsFor, Tells
<1>2. QED
  BY <1>1, TellsMore

-----------------------------------------------------------------------------
(* A message: its reasoning, its text and its tool calls. *)

LEMMA SeqsEqual ==
    ASSUME NEW s, IsSeq(s), NEW t, IsSeq(t), Len(s) = Len(t), \A k \in 1..Len(s) : s[k] = t[k]
    PROVE  s = t
<1>1. s = [k \in 1..Len(s) |-> s[k]] /\ t = [k \in 1..Len(t) |-> t[k]]
  BY SeqIs
<1>2. [k \in 1..Len(s) |-> s[k]] = [k \in 1..Len(t) |-> t[k]]
  OBVIOUS
<1>3. QED
  BY <1>1, <1>2

Joins(s, t, u) ==
    /\ IsSeq(u) /\ Len(u) = Len(s) + Len(t)
    /\ \A k \in 1..Len(s) : u[k] = s[k]
    /\ \A k \in 1..Len(t) : u[Len(s) + k] = t[k]

LEMMA JoinIs == ASSUME NEW s, IsSeq(s), NEW t, IsSeq(t) PROVE Joins(s, t, s \o t)
<1>1. PICK S : s \in Seq(S)
  BY DEF IsSeq
<1>2. PICK T : t \in Seq(T)
  BY DEF IsSeq
<1> DEFINE U == S \cup T
<1>3. s \in Seq(U) /\ t \in Seq(U)
  BY <1>1, <1>2, SeqMonotonic
<1> HIDE DEF U
<1>4. /\ s \o t \in Seq(U)
      /\ Len(s \o t) = Len(s) + Len(t)
      /\ \A i \in 1 .. Len(s) + Len(t) :
            (s \o t)[i] = IF i <= Len(s) THEN s[i] ELSE t[i - Len(s)]
  BY <1>3, ConcatProperties
<1>5. Len(s) \in Nat /\ Len(t) \in Nat
  BY LenIs
<1>6. ASSUME NEW k \in 1..Len(s) PROVE (s \o t)[k] = s[k]
  BY <1>4, <1>5
<1>7. ASSUME NEW k \in 1..Len(t) PROVE (s \o t)[Len(s) + k] = t[k]
  <2>1. /\ Len(s) + k \in 1..Len(s) + Len(t) /\ ~(Len(s) + k <= Len(s))
        /\ Len(s) + k - Len(s) = k
    BY <1>5
  <2>2. QED
    BY <1>4, <2>1
<1>8. QED
  BY <1>4, <1>6, <1>7 DEF Joins, IsSeq

Whole(reasoning, text, calls) ==
    BlockOf("thinking", reasoning) \o BlockOf("text", text) \o calls

Some(s) == One(s # <<>>)

(* How it is laid out. *)
Lays(w, reasoning, text, calls) ==
    /\ IsSeq(w) /\ Len(w) = Some(reasoning) + Some(text) + Len(calls)
    /\ reasoning # <<>> => w[1] = [type |-> "thinking", pieces |-> reasoning]
    /\ text # <<>> => w[Some(reasoning) + 1] = [type |-> "text", pieces |-> text]
    /\ \A n \in 1..Len(calls) : w[Some(reasoning) + Some(text) + n] = calls[n]

LEMMA SomeIs == \A s : Some(s) = IF s = <<>> THEN 0 ELSE 1
BY DEF Some, One

LEMMA BlockOfIs ==
    ASSUME NEW type, NEW s
    PROVE  /\ IsSeq(BlockOf(type, s)) /\ Len(BlockOf(type, s)) = Some(s)
           /\ s # <<>> => BlockOf(type, s)[1] = [type |-> type, pieces |-> s]
<1> DEFINE b == [type |-> type, pieces |-> s]
<1>1. CASE s = <<>>
  BY <1>1, EmptyIs, SomeIs DEF BlockOf
<1>2. CASE s # <<>>
  <2>1. BlockOf(type, s) = <<b>>
    BY <1>2 DEF BlockOf
  <2>2. <<b>> \in Seq({b}) /\ Len(<<b>>) = 1 /\ <<b>>[1] = b
    <3> HIDE DEF b
    <3>1. QED
      OBVIOUS
  <2>3. Some(s) = 1
    BY <1>2, SomeIs
  <2>4. QED
    BY <2>1, <2>2, <2>3 DEF IsSeq
<1>3. QED
  BY <1>1, <1>2

LEMMA WholeLays ==
    ASSUME NEW reasoning, NEW text, NEW calls, IsSeq(calls)
    PROVE  Lays(Whole(reasoning, text, calls), reasoning, text, calls)
<1> DEFINE r == BlockOf("thinking", reasoning)
           x == BlockOf("text", text)
           h == r \o x
           w == h \o calls
           a == Some(reasoning)
           b == Some(text)
<1>1. /\ IsSeq(r) /\ Len(r) = a
      /\ reasoning # <<>> => r[1] = [type |-> "thinking", pieces |-> reasoning]
  BY BlockOfIs
<1>2. /\ IsSeq(x) /\ Len(x) = b
      /\ text # <<>> => x[1] = [type |-> "text", pieces |-> text]
  BY BlockOfIs
<1>3. Whole(reasoning, text, calls) = w
  BY DEF Whole
<1>4. /\ a \in Nat /\ b \in Nat
      /\ reasoning # <<>> => 1 \in 1..a
      /\ text # <<>> => 1 \in 1..b
  BY SomeIs
<1>5. /\ a = Some(reasoning) /\ b = Some(text)
  OBVIOUS
<1> HIDE DEF r, x, a, b
<1>6. Joins(r, x, h)
  BY <1>1, <1>2, JoinIs
<1> HIDE DEF h
<1>7. IsSeq(h)
  BY <1>6 DEF Joins
<1>8. Joins(h, calls, w)
  BY <1>7, JoinIs
<1> HIDE DEF w
<1>9. Len(h) = a + b /\ Len(calls) \in Nat
  BY <1>1, <1>2, <1>6, LenIs DEF Joins
<1>10. IsSeq(w) /\ Len(w) = a + b + Len(calls)
  BY <1>8, <1>9 DEF Joins
<1>11. ASSUME reasoning # <<>> PROVE w[1] = [type |-> "thinking", pieces |-> reasoning]
  <2>1. 1 \in 1..Len(r) /\ 1 \in 1..Len(h)
    BY <1>1, <1>4, <1>9, <1>11
  <2>2. w[1] = h[1] /\ h[1] = r[1]
    BY <1>6, <1>8, <2>1 DEF Joins
  <2>3. QED
    BY <1>1, <1>11, <2>2
<1>12. ASSUME text # <<>> PROVE w[a + 1] = [type |-> "text", pieces |-> text]
  <2>1. 1 \in 1..Len(x) /\ a + 1 \in 1..Len(h)
    BY <1>2, <1>4, <1>9, <1>12
  <2>2. w[a + 1] = h[a + 1]
    BY <1>8, <2>1 DEF Joins
  <2>3. h[a + 1] = x[1]
    BY <1>1, <1>6, <2>1 DEF Joins
  <2>4. QED
    BY <1>2, <1>12, <2>2, <2>3
<1>13. ASSUME NEW n \in 1..Len(calls) PROVE w[a + b + n] = calls[n]
  BY <1>8, <1>9 DEF Joins
<1>14. QED
  BY <1>3, <1>5, <1>10, <1>11, <1>12, <1>13 DEF Lays

LEMMA LaysWhole ==
    ASSUME NEW reasoning, NEW text, NEW calls, IsSeq(calls), NEW w, Lays(w, reasoning, text, calls)
    PROVE  w = Whole(reasoning, text, calls)
<1> DEFINE v == Whole(reasoning, text, calls)
           a == Some(reasoning)
           b == Some(text)
           n == Len(calls)
<1>1. Lays(v, reasoning, text, calls)
  BY WholeLays
<1> HIDE DEF v
<1>2. IsSeq(w) /\ IsSeq(v) /\ Len(w) = Len(v) /\ Len(w) = a + b + n /\ n \in Nat
  BY <1>1, LenIs DEF Lays
<1>3. ASSUME NEW k \in 1..(a + b + n) PROVE w[k] = v[k]
  <2>1. a \in {0, 1} /\ b \in {0, 1} /\ (a = 1 <=> reasoning # <<>>) /\ (b = 1 <=> text # <<>>)
    BY SomeIs
  <2>2. CASE k > a + b
    <3> DEFINE j == k - (a + b)
    <3>1. j \in 1..n /\ a + b + j = k
      BY <1>2, <2>1, <2>2
    <3> HIDE DEF j
    <3>2. w[a + b + j] = calls[j] /\ v[a + b + j] = calls[j]
      BY <1>1, <3>1 DEF Lays
    <3>3. QED
      BY <3>1, <3>2
  <2>3. CASE k = 1 /\ a = 1
    BY <1>1, <2>1, <2>3 DEF Lays
  <2>4. CASE k = a + 1 /\ b = 1
    BY <1>1, <2>1, <2>4 DEF Lays
  <2>5. k > a + b \/ (k = 1 /\ a = 1) \/ (k = a + 1 /\ b = 1)
    BY <1>2, <2>1
  <2>6. QED
    BY <2>2, <2>3, <2>4, <2>5
<1>4. QED
  BY <1>2, <1>3, SeqsEqual DEF v

(* A message that begins a part, and one that goes on with one. *)
LEMMA AppendIs ==
    ASSUME NEW s, IsSeq(s), NEW e
    PROVE  /\ IsSeq(Append(s, e)) /\ Append(s, e) # <<>> /\ Adds(s, Append(s, e), e)
           /\ Some(Append(s, e)) = 1
<1>1. IsSeq(Append(s, e)) /\ Adds(s, Append(s, e), e)
  BY AppendAdds
<1>2. Len(Append(s, e)) # 0
  BY <1>1 DEF Adds
<1>3. Append(s, e) # <<>>
  BY <1>1, <1>2, LenIs
<1>4. QED
  BY <1>1, <1>3, SomeIs

LEMMA AppendLast ==
    ASSUME NEW s, IsSeq(s), NEW t, IsSeq(t), NEW e, Len(t) = Len(s) + 1, t[Len(s) + 1] = e,
           \A k \in 1..Len(s) : t[k] = s[k]
    PROVE  t = Append(s, e)
<1> DEFINE u == Append(s, e)
<1>1. /\ IsSeq(u) /\ Len(u) = Len(s) + 1 /\ u[Len(s) + 1] = e /\ Len(s) \in Nat
      /\ \A k \in 1..Len(s) : u[k] = s[k]
  BY AppendAdds DEF Adds
<1> HIDE DEF u
<1>2. ASSUME NEW k \in 1..Len(t) PROVE t[k] = u[k]
  <2>1. k \in 1..Len(s) \/ k = Len(s) + 1
    BY <1>1
  <2>2. QED
    BY <1>1, <2>1
<1>3. t = u
  BY <1>1, <1>2, SeqsEqual
<1>4. QED
  BY <1>3 DEF u

LEMMA CallAdded ==
    ASSUME NEW reasoning, NEW text, NEW calls, IsSeq(calls), NEW b
    PROVE  Whole(reasoning, text, Append(calls, b)) = Append(Whole(reasoning, text, calls), b)
<1> DEFINE w == Whole(reasoning, text, calls)
           v == Whole(reasoning, text, Append(calls, b))
           more == Append(calls, b)
           i == Some(reasoning)
           j == Some(text)
           n == Len(calls)
<1>1. IsSeq(more) /\ Len(more) = n + 1 /\ n \in Nat /\ more[n + 1] = b
      /\ \A k \in 1..n : more[k] = calls[k]
  BY AppendIs DEF Adds
<1>2. i \in {0, 1} /\ j \in {0, 1} /\ (i = 1 <=> reasoning # <<>>) /\ (j = 1 <=> text # <<>>)
  BY SomeIs
<1> HIDE DEF more
<1>3. Lays(w, reasoning, text, calls) /\ Lays(v, reasoning, text, more)
  BY <1>1, WholeLays DEF more
<1> HIDE DEF w, v
<1>4. IsSeq(w) /\ IsSeq(v) /\ Len(w) = i + j + n /\ Len(v) = i + j + (n + 1) /\ n + 1 \in 1..(n + 1)
  BY <1>1, <1>3 DEF Lays
<1>5. v[Len(w) + 1] = b
  <2>1. v[i + j + (n + 1)] = more[n + 1]
    BY <1>1, <1>3, <1>4 DEF Lays
  <2>2. i + j + (n + 1) = Len(w) + 1
    BY <1>1, <1>2, <1>4
  <2>3. QED
    BY <1>1, <2>1, <2>2
<1>6. ASSUME NEW k \in 1..Len(w) PROVE v[k] = w[k]
  <2>1. CASE k > i + j
    <3> DEFINE m == k - (i + j)
    <3>1. m \in 1..n /\ m \in 1..(n + 1) /\ i + j + m = k
      BY <1>1, <1>2, <1>4, <2>1
    <3> HIDE DEF m
    <3>2. v[i + j + m] = more[m] /\ w[i + j + m] = calls[m]
      BY <1>1, <1>3, <3>1 DEF Lays
    <3>3. QED
      BY <1>1, <3>1, <3>2
  <2>2. CASE k = 1 /\ i = 1
    BY <1>2, <1>3, <2>2 DEF Lays
  <2>3. CASE k = i + 1 /\ j = 1
    BY <1>2, <1>3, <2>3 DEF Lays
  <2>4. k > i + j \/ (k = 1 /\ i = 1) \/ (k = i + 1 /\ j = 1)
    BY <1>1, <1>2, <1>4
  <2>5. QED
    BY <2>1, <2>2, <2>3, <2>4
<1>7. Len(v) = Len(w) + 1
  BY <1>1, <1>2, <1>4
<1>8. v = Append(w, b)
  BY <1>4, <1>5, <1>6, <1>7, AppendLast
<1>9. QED
  BY <1>8 DEF v, w, more

LEMMA TextAdded ==
    ASSUME NEW reasoning, NEW piece
    PROVE  Whole(reasoning, Append(<<>>, piece), <<>>)
               = Append(Whole(reasoning, <<>>, <<>>), [type |-> "text", pieces |-> Append(<<>>, piece)])
<1> DEFINE more == Append(<<>>, piece)
           b == [type |-> "text", pieces |-> more]
           w == Whole(reasoning, <<>>, <<>>)
           v == Whole(reasoning, more, <<>>)
           i == Some(reasoning)
<1>1. IsSeq(<<>>) /\ Len(<<>>) = 0 /\ more # <<>> /\ Some(more) = 1 /\ Some(<<>>) = 0
  BY EmptyIs, AppendIs, SomeIs
<1> HIDE DEF more
<1>2. Lays(w, reasoning, <<>>, <<>>) /\ Lays(v, reasoning, more, <<>>)
  BY <1>1, WholeLays
<1> HIDE DEF w, v
<1>3. i \in {0, 1} /\ (i = 1 <=> reasoning # <<>>)
  BY SomeIs
<1>4. IsSeq(w) /\ IsSeq(v) /\ Len(w) = i /\ Len(v) = i + 1 /\ v[i + 1] = b
  BY <1>1, <1>2, <1>3 DEF Lays
<1>5. ASSUME NEW k \in 1..Len(w) PROVE v[k] = w[k]
  <2>1. k = 1 /\ reasoning # <<>>
    BY <1>3, <1>4
  <2>2. QED
    BY <1>2, <2>1 DEF Lays
<1> HIDE DEF b, i
<1>6. v = Append(w, b)
  BY <1>4, <1>5, AppendLast
<1>7. QED
  BY <1>6 DEF v, w, b, more

LEMMA ReasoningAdded ==
    ASSUME NEW piece
    PROVE  Whole(Append(<<>>, piece), <<>>, <<>>)
               = Append(Whole(<<>>, <<>>, <<>>), [type |-> "thinking", pieces |-> Append(<<>>, piece)])
<1> DEFINE more == Append(<<>>, piece)
           b == [type |-> "thinking", pieces |-> more]
           w == Whole(<<>>, <<>>, <<>>)
           v == Whole(more, <<>>, <<>>)
<1>1. IsSeq(<<>>) /\ Len(<<>>) = 0 /\ more # <<>> /\ Some(more) = 1 /\ Some(<<>>) = 0
  BY EmptyIs, AppendIs, SomeIs
<1> HIDE DEF more
<1>2. Lays(w, <<>>, <<>>, <<>>) /\ Lays(v, more, <<>>, <<>>)
  BY <1>1, WholeLays
<1> HIDE DEF w, v
<1>3. IsSeq(w) /\ IsSeq(v) /\ Len(w) = 0 /\ Len(v) = 1 /\ v[1] = b
  BY <1>1, <1>2 DEF Lays
<1>4. Len(v) = Len(w) + 1 /\ v[Len(w) + 1] = b /\ \A k \in 1..Len(w) : v[k] = w[k]
  BY <1>3
<1> HIDE DEF b
<1>5. v = Append(w, b)
  BY <1>3, <1>4, AppendLast
<1>6. QED
  BY <1>5 DEF v, w, b, more

LEMMA WholeOfNothing == Whole(<<>>, <<>>, <<>>) = <<>>
<1> DEFINE w == Whole(<<>>, <<>>, <<>>)
<1>1. IsSeq(<<>>) /\ Len(<<>>) = 0 /\ Some(<<>>) = 0
  BY EmptyIs, SomeIs
<1>2. Lays(w, <<>>, <<>>, <<>>)
  BY <1>1, WholeLays
<1> HIDE DEF w
<1>3. IsSeq(w) /\ Len(w) = 0
  BY <1>1, <1>2 DEF Lays
<1>4. w = <<>>
  BY <1>3, LenIs
<1>5. QED
  BY <1>4 DEF w

IsDelta(e, type, index) ==
    /\ e.event = "content_block_delta" /\ e.piece # Empty
    /\ e.type = type /\ e.index = index

LEMMA ReasoningGoesOn ==
    ASSUME NEW reasoning, IsSeq(reasoning), reasoning # <<>>, NEW e, IsDelta(e, "thinking", 0)
    PROVE  Extended(e, Whole(reasoning, <<>>, <<>>), Whole(Append(reasoning, e.piece), <<>>, <<>>))
<1> DEFINE more == Append(reasoning, e.piece)
           w == Whole(reasoning, <<>>, <<>>)
           v == Whole(more, <<>>, <<>>)
<1>1. /\ IsSeq(<<>>) /\ Len(<<>>) = 0 /\ more # <<>> /\ Some(more) = 1 /\ Some(reasoning) = 1
      /\ Some(<<>>) = 0
  BY EmptyIs, AppendIs, SomeIs
<1>2. more = Append(reasoning, e.piece)
  OBVIOUS
<1> HIDE DEF more
<1>3. Lays(w, reasoning, <<>>, <<>>) /\ Lays(v, more, <<>>, <<>>)
  BY <1>1, WholeLays
<1> HIDE DEF w, v
<1>4. /\ IsSeq(v) /\ Len(w) = 1 /\ Len(v) = 1
      /\ w[1] = [type |-> "thinking", pieces |-> reasoning]
      /\ v[1] = [type |-> "thinking", pieces |-> more]
  BY <1>1, <1>3 DEF Lays
<1>5. w[1].type = "thinking" /\ w[1].pieces = reasoning
  BY <1>4
<1>6. IsFor(e, w, 1)
  BY <1>5 DEF IsFor, IsDelta
<1>7. v[1] = [type |-> w[1].type, pieces |-> Append(w[1].pieces, e.piece)]
  BY <1>2, <1>4, <1>5
<1>8. \A k \in 1..1 : k = 1
  OBVIOUS
<1>9. Extended(e, w, v)
  BY <1>4, <1>6, <1>7, <1>8 DEF Extended
<1>10. QED
  BY <1>9 DEF w, v, more

LEMMA TextGoesOn ==
    ASSUME NEW reasoning, NEW text, IsSeq(text), text # <<>>,
           NEW e, IsDelta(e, "text", Some(reasoning))
    PROVE  Extended(e, Whole(reasoning, text, <<>>), Whole(reasoning, Append(text, e.piece), <<>>))
<1> DEFINE more == Append(text, e.piece)
           w == Whole(reasoning, text, <<>>)
           v == Whole(reasoning, more, <<>>)
           i == Some(reasoning)
<1>1. /\ IsSeq(<<>>) /\ Len(<<>>) = 0 /\ more # <<>> /\ Some(more) = 1 /\ Some(text) = 1
  BY EmptyIs, AppendIs, SomeIs
<1>2. more = Append(text, e.piece)
  OBVIOUS
<1> HIDE DEF more
<1>3. Lays(w, reasoning, text, <<>>) /\ Lays(v, reasoning, more, <<>>)
  BY <1>1, WholeLays
<1> HIDE DEF w, v
<1>4. i \in {0, 1} /\ (i = 1 <=> reasoning # <<>>)
  BY SomeIs
<1>5. /\ IsSeq(v) /\ Len(w) = i + 1 /\ Len(v) = i + 1
      /\ w[i + 1] = [type |-> "text", pieces |-> text]
      /\ v[i + 1] = [type |-> "text", pieces |-> more]
  BY <1>1, <1>3, <1>4 DEF Lays
<1>6. w[i + 1].type = "text" /\ w[i + 1].pieces = text
  BY <1>5
<1>7. IsFor(e, w, i + 1)
  BY <1>4, <1>6 DEF IsFor, IsDelta
<1>8. v[i + 1] = [type |-> w[i + 1].type, pieces |-> Append(w[i + 1].pieces, e.piece)]
  BY <1>2, <1>5, <1>6
<1>9. ASSUME NEW k \in 1..(i + 1), k # i + 1 PROVE v[k] = w[k] /\ ~IsFor(e, w, k)
  <2>1. k = 1 /\ reasoning # <<>> /\ i = 1
    BY <1>4, <1>9
  <2>2. e.index # k - 1
    BY <2>1 DEF IsDelta
  <2>3. QED
    BY <1>3, <2>1, <2>2 DEF Lays, IsFor
<1>10. Extended(e, w, v)
  BY <1>5, <1>7, <1>8, <1>9 DEF Extended
<1>11. QED
  BY <1>10 DEF w, v, more

(* A piece is added to the n-th call. *)
Longer(calls, more, n, piece) ==
    /\ IsSeq(more) /\ Len(more) = Len(calls)
    /\ \A k \in 1..Len(calls) :
          more[k] = IF k = n
                    THEN [type |-> calls[k].type, pieces |-> Append(calls[k].pieces, piece)]
                    ELSE calls[k]

LEMMA CallGoesOn ==
    ASSUME NEW reasoning, NEW text, NEW calls, IsSeq(calls), NEW n \in 1..Len(calls),
           calls[n].type = "tool_use",
           NEW e, IsDelta(e, "tool_use", Some(reasoning) + Some(text) + n - 1),
           NEW more, Longer(calls, more, n, e.piece)
    PROVE  Extended(e, Whole(reasoning, text, calls), Whole(reasoning, text, more))
<1> DEFINE w == Whole(reasoning, text, calls)
           v == Whole(reasoning, text, more)
           i == Some(reasoning)
           j == Some(text)
           l == Len(calls)
<1>1. IsSeq(more) /\ Len(more) = l /\ l \in Nat
  BY LenIs DEF Longer
<1>2. Lays(w, reasoning, text, calls) /\ Lays(v, reasoning, text, more)
  BY <1>1, WholeLays
<1> HIDE DEF w, v
<1>3. i \in {0, 1} /\ j \in {0, 1} /\ (i = 1 <=> reasoning # <<>>) /\ (j = 1 <=> text # <<>>)
  BY SomeIs
<1>4. IsSeq(v) /\ Len(w) = i + j + l /\ Len(v) = i + j + l
  BY <1>1, <1>2 DEF Lays
<1>5. ASSUME NEW k \in 1..(i + j + l)
      PROVE  v[k] = IF IsFor(e, w, k)
                    THEN [type |-> w[k].type, pieces |-> Append(w[k].pieces, e.piece)]
                    ELSE w[k]
  <2>1. CASE k > i + j
    <3> DEFINE m == k - (i + j)
    <3>1. m \in 1..l /\ i + j + m = k
      BY <1>1, <1>3, <1>4, <2>1
    <3> HIDE DEF m
    <3>2. v[i + j + m] = more[m] /\ w[i + j + m] = calls[m]
      BY <1>1, <1>2, <3>1 DEF Lays
    <3>3. i + j + n - 1 = k - 1 <=> m = n
      BY <1>1, <1>3, <3>1
    <3>4. IsFor(e, w, k) <=> m = n
      BY <3>1, <3>2, <3>3 DEF IsFor, IsDelta
    <3>5. more[m] = IF m = n THEN [type |-> calls[m].type, pieces |-> Append(calls[m].pieces, e.piece)]
                    ELSE calls[m]
      BY <3>1 DEF Longer
    <3>6. QED
      BY <3>1, <3>2, <3>4, <3>5
  <2>2. CASE ~(k > i + j)
    <3>1. i + j + n - 1 # k - 1
      BY <1>1, <1>3, <2>2
    <3>2. ~IsFor(e, w, k)
      BY <3>1 DEF IsFor, IsDelta
    <3>3. CASE k = 1 /\ i = 1
      BY <1>2, <1>3, <3>2, <3>3 DEF Lays
    <3>4. CASE k = i + 1 /\ j = 1
      BY <1>2, <1>3, <3>2, <3>4 DEF Lays
    <3>5. (k = 1 /\ i = 1) \/ (k = i + 1 /\ j = 1)
      BY <1>1, <1>3, <1>4, <2>2
    <3>6. QED
      BY <3>3, <3>4, <3>5
  <2>3. QED
    BY <2>1, <2>2
<1>6. Extended(e, w, v)
  BY <1>4, <1>5 DEF Extended
<1>7. QED
  BY <1>6 DEF w, v

-----------------------------------------------------------------------------
(* What the writer's events tell, where the handler emits them. *)

EventOf(event, index, type, piece) ==
    [event |-> event, index |-> index, type |-> type, piece |-> piece]

LEMMA EmitAdds ==
    ASSUME NEW w, IsWriter(w), NEW event, NEW index, NEW type, NEW piece,
           NEW v, v = Emit(w, event, index, type, piece)
    PROVE  v.events = Append(w.events, EventOf(event, index, type, piece))
<1> DEFINE e == EventOf(event, index, type, piece)
<1>1. v = [w EXCEPT !.events = Append(@, e)]
  BY DEF Emit, EventOf
<1> HIDE DEF e
<1>2. v.events = Append(w.events, e)
  BY <1>1 DEF IsWriter
<1>3. QED
  BY <1>2 DEF e

LEMMA QuietTells ==
    ASSUME NEW w, IsWriter(w), NEW content, Tells(w.events, content),
           NEW event, event \notin {"content_block_start", "content_block_delta"},
           NEW index, NEW type, NEW piece, NEW v, v = Emit(w, event, index, type, piece)
    PROVE  Tells(v.events, content)
<1> DEFINE e == EventOf(event, index, type, piece)
<1>1. e.event \notin {"content_block_start", "content_block_delta"}
  BY DEF EventOf
<1>2. v.events = Append(w.events, e)
  BY EmitAdds
<1> HIDE DEF e
<1>3. QED
  BY <1>1, <1>2, TellsSame

LEMMA StartedTells ==
    ASSUME NEW w, Tracks(w), NEW content, Tells(w.events, content), NEW v, v = Started(w)
    PROVE  Tells(v.events, content)
<1>1. CASE w.events = <<>>
  <2>1. v = Emit(w, "message_start", NoIndex, "none", Empty)
    BY <1>1 DEF Started
  <2>2. "message_start" \notin {"content_block_start", "content_block_delta"} /\ IsWriter(w)
    BY DEF Tracks
  <2>3. QED
    BY <2>1, <2>2, QuietTells
<1>2. CASE w.events # <<>>
  BY <1>2 DEF Started
<1>3. QED
  BY <1>1, <1>2

LEMMA StoppedTells ==
    ASSUME NEW w, IsWriter(w), NEW content, Tells(w.events, content), NEW v, v = Stopped(w)
    PROVE  Tells(v.events, content)
<1>1. CASE w.type = "none"
  BY <1>1 DEF Stopped
<1>2. CASE w.type # "none"
  <2> DEFINE x == Emit(w, "content_block_stop", w.index, "none", Empty)
  <2>1. v = [x EXCEPT !.type = "none"]
    BY <1>2 DEF Stopped
  <2>2. x = Emit(w, "content_block_stop", w.index, "none", Empty)
    OBVIOUS
  <2> HIDE DEF x
  <2>3. "content_block_stop" \notin {"content_block_start", "content_block_delta"}
    OBVIOUS
  <2>4. Tells(x.events, content)
    BY <2>2, <2>3, QuietTells
  <2>5. IsWriter(x)
    BY <2>2, EmitIs
  <2>6. v.events = x.events
    BY <2>1, <2>5 DEF IsWriter
  <2>7. QED
    BY <2>4, <2>6
<1>3. QED
  BY <1>1, <1>2

LEMMA StartBlockTells ==
    ASSUME NEW w, IsWriter(w), NEW content, Tells(w.events, content),
           NEW type, NEW index, index = Len(content), NEW v, v = StartBlock(w, type, index)
    PROVE  Tells(v.events, Append(content, [type |-> type, pieces |-> <<>>]))
<1> DEFINE x == Emit(w, "content_block_start", index, type, Empty)
           e == EventOf("content_block_start", index, type, Empty)
<1>1. v = [x EXCEPT !.type = type, !.index = index]
  BY DEF StartBlock
<1>2. x = Emit(w, "content_block_start", index, type, Empty)
  OBVIOUS
<1>3. e.event = "content_block_start" /\ e.index = Len(content) /\ e.type = type
  BY DEF EventOf
<1> HIDE DEF x
<1>4. IsWriter(x)
  BY <1>2, EmitIs
<1>5. x.events = Append(w.events, e)
  BY <1>2, EmitAdds
<1>6. v.events = x.events
  BY <1>1, <1>4 DEF IsWriter
<1> HIDE DEF e
<1>7. Tells(x.events, Append(content, [type |-> e.type, pieces |-> <<>>]))
  BY <1>3, <1>5, TellsStart
<1>8. QED
  BY <1>3, <1>6, <1>7

LEMMA PieceTells ==
    ASSUME NEW w, IsWriter(w), NEW content, Tells(w.events, content),
           NEW type, NEW index, NEW piece,
           NEW v, v = Emit(w, "content_block_delta", index, type, piece),
           NEW more, Extended(EventOf("content_block_delta", index, type, piece), content, more)
    PROVE  Tells(v.events, more)
<1> DEFINE e == EventOf("content_block_delta", index, type, piece)
<1>1. e.event # "content_block_start" /\ Extended(e, content, more)
  BY DEF EventOf
<1>2. v.events = Append(w.events, e)
  BY EmitAdds
<1> HIDE DEF e
<1>3. QED
  BY <1>1, <1>2, TellsMore

LEMMA NoPieceTells ==
    ASSUME NEW w, IsWriter(w), NEW content, Tells(w.events, content),
           NEW type, NEW index, NEW v, v = Emit(w, "content_block_delta", index, type, Empty)
    PROVE  Tells(v.events, content)
<1> DEFINE e == EventOf("content_block_delta", index, type, Empty)
<1>1. e.event = "content_block_delta" /\ e.piece = Empty
  BY DEF EventOf
<1>2. v.events = Append(w.events, e)
  BY EmitAdds
<1> HIDE DEF e
<1>3. QED
  BY <1>1, <1>2, TellsSame

(* A block begins with a piece. *)
LEMMA FirstPiece ==
    ASSUME NEW w, IsWriter(w), NEW content, NEW type,
           IsSeq(content), Tells(w.events, Append(content, [type |-> type, pieces |-> <<>>])),
           NEW index, index = Len(content), NEW piece, piece # Empty,
           NEW v, v = Emit(w, "content_block_delta", index, type, piece)
    PROVE  Tells(v.events, Append(content, [type |-> type, pieces |-> Append(<<>>, piece)]))
<1> DEFINE b == [type |-> type, pieces |-> <<>>]
           c == [type |-> type, pieces |-> Append(<<>>, piece)]
           s == Append(content, b)
           t == Append(content, c)
           e == EventOf("content_block_delta", index, type, piece)
           n == Len(content)
<1>1. e.event = "content_block_delta" /\ e.piece = piece /\ e.index = n /\ e.type = type
  BY DEF EventOf
<1>2. b.type = type /\ b.pieces = <<>> /\ c = [type |-> b.type, pieces |-> Append(b.pieces, piece)]
  OBVIOUS
<1> HIDE DEF b, c, e
<1>3. /\ n \in Nat /\ Len(s) = n + 1 /\ s[n + 1] = b /\ \A k \in 1..n : s[k] = content[k]
      /\ IsSeq(t) /\ Len(t) = n + 1 /\ t[n + 1] = c /\ \A k \in 1..n : t[k] = content[k]
  BY AppendAdds DEF Adds
<1> HIDE DEF s, t
<1>4. ASSUME NEW k \in 1..Len(s)
      PROVE  t[k] = IF IsFor(e, s, k)
                    THEN [type |-> s[k].type, pieces |-> Append(s[k].pieces, e.piece)]
                    ELSE s[k]
  <2>1. CASE k = n + 1
    <3>1. s[k] = b /\ t[k] = c /\ k - 1 = n
      BY <1>3, <2>1
    <3>2. IsFor(e, s, k)
      BY <1>1, <1>2, <3>1 DEF IsFor
    <3>3. QED
      BY <1>1, <1>2, <3>1, <3>2
  <2>2. CASE k # n + 1
    <3>1. k \in 1..n /\ n # k - 1
      BY <1>3, <2>2
    <3>2. ~IsFor(e, s, k)
      BY <1>1, <3>1 DEF IsFor
    <3>3. QED
      BY <1>3, <3>1, <3>2
  <2>3. QED
    BY <2>1, <2>2
<1>5. Extended(e, s, t)
  BY <1>3, <1>4 DEF Extended
<1>6. Tells(w.events, s)
  BY DEF s, b
<1>7. Tells(v.events, t)
  BY <1>5, <1>6, PieceTells DEF e
<1>8. QED
  BY <1>7 DEF t, c

LEMMA BlockTells ==
    ASSUME NEW w, Runs(w), NEW content, Tells(w.events, content),
           NEW type, type # "none", type # w.type, NEW index, index = Len(content),
           NEW x, x = Opened(w, type, index), NEW piece, piece # Empty,
           NEW v, v = Emit(x, "content_block_delta", x.index, type, piece)
    PROVE  Tells(v.events, Append(content, [type |-> type, pieces |-> Append(<<>>, piece)]))
<1> DEFINE y == Stopped(w)
<1>1. x = StartBlock(y, type, index)
  BY DEF Opened
<1>2. y = Stopped(w) /\ IsWriter(w) /\ IsSeq(content)
  BY RunsIs DEF Tells
<1> HIDE DEF y
<1>3. Tells(y.events, content)
  BY <1>2, StoppedTells
<1>4. Runs(y) /\ y.type = "none"
  BY <1>2, StoppedIs
<1>5. IsWriter(y)
  BY <1>4, RunsIs
<1>6. Tells(x.events, Append(content, [type |-> type, pieces |-> <<>>]))
  BY <1>1, <1>3, <1>5, StartBlockTells
<1>7. Runs(x) /\ x.index = index
  BY <1>1, <1>4, StartBlockIs
<1>8. IsWriter(x)
  BY <1>7, RunsIs
<1>9. QED
  BY <1>2, <1>6, <1>7, <1>8, FirstPiece

-----------------------------------------------------------------------------
(* A writer whose events say the reasoning r, the text x and the calls t of *)
(* the tools n: its flags, its map and the open block tell which they are.  *)

Last(r, x, t) ==
    IF t # <<>> THEN "tool_use"
    ELSE IF x # <<>> THEN "text" ELSE IF r # <<>> THEN "thinking" ELSE "none"

MapOf(r, x, n) == {[tool |-> n[k], index |-> Some(r) + Some(x) + k - 1] : k \in 1..Len(n)}

Lists(n, t) ==
    /\ IsSeq(n) /\ IsSeq(t) /\ Len(n) = Len(t)
    /\ \A j, k \in 1..Len(n) : n[j] = n[k] => j = k
    /\ \A k \in 1..Len(t) : t[k] = [type |-> "tool_use", pieces |-> t[k].pieces]

Says(w, r, x, n, t) ==
    /\ IsSeq(r) /\ IsSeq(x) /\ Lists(n, t)
    /\ Tells(w.events, Whole(r, x, t))
    /\ w.thinking = (r # <<>>) /\ w.text = (x # <<>>) /\ w.tools = MapOf(r, x, n)
    /\ w.type = Last(r, x, t)
    /\ w.index = IF w.type = "none" THEN 0 ELSE Some(r) + Some(x) + Len(t) - 1

LEMMA SaysReasoning ==
    ASSUME NEW w, Runs(w), NEW r, Says(w, r, <<>>, <<>>, <<>>), NEW c, c.reasoning, exposeThinking,
           NEW piece, piece # Empty, NEW v, v = AfterReasoning(w, c, piece)
    PROVE  Says(v, Append(r, piece), <<>>, <<>>, <<>>)
<1> DEFINE y == [w EXCEPT !.thinking = TRUE]
           i == ThinkingIndex(w)
           x == Opened(y, "thinking", i)
           more == Append(r, piece)
           content == Whole(r, <<>>, <<>>)
<1>1. v = Emit(x, "content_block_delta", x.index, "thinking", piece)
  BY DEF AfterReasoning, Delta
<1>2. /\ Runs(y) /\ y.thinking = TRUE /\ y.text = w.text /\ y.tools = w.tools
      /\ y.type = w.type /\ y.index = w.index /\ y.events = w.events
  BY ThinkingFlag
<1>3. x = Opened(y, "thinking", i) /\ "thinking" # "none"
  OBVIOUS
<1>4. /\ IsSeq(r) /\ Tells(w.events, content) /\ w.thinking = (r # <<>>) /\ w.text = FALSE
      /\ w.tools = MapOf(r, <<>>, <<>>) /\ w.type = IF r # <<>> THEN "thinking" ELSE "none"
      /\ w.index = IF w.type = "none" THEN 0 ELSE Some(r) + Some(<<>>) + Len(<<>>) - 1
      /\ Lists(<<>>, <<>>)
  BY DEF Says, Last
<1>5. /\ Len(<<>>) = 0 /\ Some(<<>>) = 0 /\ IsSeq(<<>>) /\ Some(more) = 1 /\ more # <<>> /\ IsSeq(more)
      /\ Some(r) = IF r = <<>> THEN 0 ELSE 1
  BY <1>4, EmptyIs, SomeIs, AppendIs
<1>6. w.index = 0 /\ i = 0
  BY <1>4, <1>5 DEF ThinkingIndex
<1>7. more = Append(r, piece) /\ content = Whole(r, <<>>, <<>>)
  OBVIOUS
<1> HIDE DEF x, y, i, more, content
<1>8. IsOpened(y, v, "thinking", i)
  BY <1>1, <1>2, <1>3, WrittenIs
<1>9. v.thinking = TRUE /\ v.text = FALSE /\ v.tools = w.tools /\ v.type = "thinking" /\ v.index = 0
  BY <1>2, <1>4, <1>6, <1>8 DEF IsOpened, Same, Quiet
<1>10. Tells(v.events, Whole(more, <<>>, <<>>))
  <2>1. CASE r = <<>>
    <3>1. content = <<>> /\ Len(content) = i
      BY <1>5, <1>6, <1>7, <2>1, WholeOfNothing
    <3>2. "thinking" # y.type
      BY <1>2, <1>4, <2>1
    <3>3. Tells(y.events, content)
      BY <1>2, <1>4
    <3>4. Tells(v.events, Append(content, [type |-> "thinking", pieces |-> Append(<<>>, piece)]))
      BY <1>1, <1>2, <1>3, <3>1, <3>2, <3>3, BlockTells
    <3>5. Whole(more, <<>>, <<>>)
              = Append(content, [type |-> "thinking", pieces |-> Append(<<>>, piece)])
      BY <1>7, <2>1, ReasoningAdded
    <3>6. QED
      BY <3>4, <3>5
  <2>2. CASE r # <<>>
    <3>1. x = y
      BY <1>2, <1>3, <1>4, <2>2 DEF Opened
    <3>2. v = Emit(y, "content_block_delta", 0, "thinking", piece)
      BY <1>1, <1>2, <1>6, <3>1
    <3> DEFINE e == EventOf("content_block_delta", 0, "thinking", piece)
    <3>3. IsDelta(e, "thinking", 0) /\ e.piece = piece
      BY DEF IsDelta, EventOf
    <3> HIDE DEF e
    <3>4. Extended(e, content, Whole(more, <<>>, <<>>))
      BY <1>4, <1>7, <2>2, <3>3, ReasoningGoesOn
    <3>5. IsWriter(y) /\ Tells(y.events, content)
      BY <1>2, <1>4, RunsIs
    <3>6. QED
      BY <3>2, <3>4, <3>5, PieceTells DEF e
  <2>3. QED
    BY <2>1, <2>2
<1>11. MapOf(more, <<>>, <<>>) = {} /\ MapOf(r, <<>>, <<>>) = {}
  <2>1. 1..Len(<<>>) = {}
    BY <1>5
  <2>2. QED
    BY <2>1 DEF MapOf
<1>12. Says(v, more, <<>>, <<>>, <<>>)
  <2>1. v.type = Last(more, <<>>, <<>>) /\ v.type # "none"
    BY <1>5, <1>9 DEF Last
  <2>2. v.index = Some(more) + Some(<<>>) + Len(<<>>) - 1
    BY <1>5, <1>9
  <2>3. v.thinking = (more # <<>>) /\ v.text = (<<>> # <<>>) /\ v.tools = MapOf(more, <<>>, <<>>)
    BY <1>4, <1>5, <1>9, <1>11
  <2>4. QED
    BY <1>4, <1>5, <1>10, <2>1, <2>2, <2>3 DEF Says
<1>13. QED
  BY <1>12 DEF more

LEMMA SaysText ==
    ASSUME NEW w, Runs(w), NEW r, NEW x, Says(w, r, x, <<>>, <<>>),
           NEW c, c.text \in {"none", "empty", "some"},
           NEW piece, piece # Empty, NEW v, v = AfterText(w, c, piece)
    PROVE  /\ c.text = "some" => Says(v, r, Append(x, piece), <<>>, <<>>)
           /\ c.text # "some" => Says(v, r, x, <<>>, <<>>)
<1> DEFINE y == [w EXCEPT !.text = TRUE]
           i == TextIndex(w)
           z == Opened(y, "text", i)
           what == IF c.text = "some" THEN piece ELSE Empty
           more == Append(x, piece)
           content == Whole(r, x, <<>>)
<1>1. CASE c.text = "none" \/ (c.text = "empty" /\ ~w.text)
  BY <1>1 DEF AfterText
<1>2. CASE ~(c.text = "none" \/ (c.text = "empty" /\ ~w.text))
  <2>1. v = Emit(z, "content_block_delta", z.index, "text", what)
    BY <1>2 DEF AfterText, Delta
  <2>2. /\ Runs(y) /\ y.text = TRUE /\ y.thinking = w.thinking /\ y.tools = w.tools
        /\ y.type = w.type /\ y.index = w.index /\ y.events = w.events
    BY TextFlag
  <2>3. z = Opened(y, "text", i) /\ "text" # "none"
    OBVIOUS
  <2>4. /\ IsSeq(r) /\ IsSeq(x) /\ Tells(w.events, content)
        /\ w.thinking = (r # <<>>) /\ w.text = (x # <<>>) /\ w.tools = MapOf(r, x, <<>>)
        /\ w.type = Last(r, x, <<>>)
        /\ w.index = IF w.type = "none" THEN 0 ELSE Some(r) + Some(x) + Len(<<>>) - 1
        /\ Lists(<<>>, <<>>)
    BY DEF Says
  <2>5. /\ Len(<<>>) = 0 /\ Some(<<>>) = 0 /\ IsSeq(<<>>)
        /\ Some(more) = 1 /\ more # <<>> /\ IsSeq(more)
        /\ Some(x) = IF x = <<>> THEN 0 ELSE 1
        /\ Some(r) = IF r = <<>> THEN 0 ELSE 1
    BY <2>4, EmptyIs, SomeIs, AppendIs
  <2>6. i = IF x = <<>> THEN Some(r) ELSE w.index
    <3>1. MapOf(r, x, <<>>) = {}
      <4>1. 1..Len(<<>>) = {}
        BY <2>5
      <4>2. QED
        BY <4>1 DEF MapOf
    <3>2. One(w.thinking) = Some(r)
      BY <2>4 DEF Some
    <3>3. QED
      BY <2>4, <3>1, <3>2 DEF TextIndex
  <2>7. w.type = IF x # <<>> THEN "text" ELSE IF r # <<>> THEN "thinking" ELSE "none"
    BY <2>4 DEF Last
  <2>8. x # <<>> => w.index = Some(r)
    BY <2>4, <2>5, <2>7
  <2>9. what = IF c.text = "some" THEN piece ELSE Empty
    OBVIOUS
  <2>10. more = Append(x, piece) /\ content = Whole(r, x, <<>>)
    OBVIOUS
  <2> HIDE DEF y, z, i, what, more, content
  <2>11. IsOpened(y, v, "text", i)
    BY <2>1, <2>2, <2>3, WrittenIs
  <2>12. /\ v.thinking = w.thinking /\ v.text = TRUE /\ v.tools = w.tools /\ v.type = "text"
         /\ v.index = Some(r)
    <3>1. w.type = "text" <=> x # <<>>
      BY <2>7
    <3>2. QED
      BY <2>2, <2>6, <2>8, <2>11, <3>1 DEF IsOpened, Same, Quiet
  <2>13. MapOf(r, more, <<>>) = {} /\ MapOf(r, x, <<>>) = {}
    <3>1. 1..Len(<<>>) = {}
      BY <2>5
    <3>2. QED
      BY <3>1 DEF MapOf
  <2>14. ASSUME NEW u, IsSeq(u), u # <<>>, Some(u) = 1, Tells(v.events, Whole(r, u, <<>>))
         PROVE  Says(v, r, u, <<>>, <<>>)
    <3>1. v.type = Last(r, u, <<>>) /\ v.type # "none"
      BY <2>12, <2>14 DEF Last
    <3>2. v.index = Some(r) + Some(u) + Len(<<>>) - 1
      BY <2>5, <2>12, <2>14
    <3>3. v.thinking = (r # <<>>) /\ v.text = (u # <<>>) /\ v.tools = MapOf(r, u, <<>>)
      <4>1. MapOf(r, u, <<>>) = {}
        <5>1. 1..Len(<<>>) = {}
          BY <2>5
        <5>2. QED
          BY <5>1 DEF MapOf
      <4>2. QED
        BY <2>4, <2>12, <2>13, <2>14, <4>1
    <3>4. QED
      BY <2>4, <2>14, <3>1, <3>2, <3>3 DEF Says
  <2>15. CASE x = <<>>
    <3>1. c.text = "some" /\ what = piece
      BY <1>2, <2>4, <2>9, <2>15
    <3>2. Len(content) = i
      <4>1. Lays(content, r, x, <<>>)
        BY <2>5, <2>10, WholeLays
      <4>2. Len(content) = Some(r) + 0 + 0
        BY <2>5, <2>15, <4>1 DEF Lays
      <4>3. QED
        BY <2>5, <2>6, <2>15, <4>2
    <3>3. "text" # y.type /\ Tells(y.events, content)
      BY <2>2, <2>4, <2>7, <2>15
    <3>4. Tells(v.events, Append(content, [type |-> "text", pieces |-> Append(<<>>, piece)]))
      BY <2>1, <2>2, <2>3, <3>1, <3>2, <3>3, BlockTells
    <3>5. Whole(r, more, <<>>)
              = Append(content, [type |-> "text", pieces |-> Append(<<>>, piece)])
      BY <2>10, <2>15, TextAdded
    <3>6. Tells(v.events, Whole(r, more, <<>>))
      BY <3>4, <3>5
    <3>7. QED
      BY <2>5, <2>10, <2>14, <3>1, <3>6
  <2>16. CASE x # <<>>
    <3>1. z = y
      BY <2>2, <2>3, <2>7, <2>16 DEF Opened
    <3>2. v = Emit(y, "content_block_delta", Some(r), "text", what)
      BY <2>1, <2>2, <2>8, <2>16, <3>1
    <3>3. IsWriter(y) /\ Tells(y.events, content)
      BY <2>2, <2>4, RunsIs
    <3>4. CASE c.text = "some"
      <4> DEFINE e == EventOf("content_block_delta", Some(r), "text", piece)
      <4>1. IsDelta(e, "text", Some(r)) /\ e.piece = piece
        BY DEF IsDelta, EventOf
      <4> HIDE DEF e
      <4>2. Extended(e, content, Whole(r, more, <<>>))
        BY <2>4, <2>10, <2>16, <4>1, TextGoesOn
      <4>3. v = Emit(y, "content_block_delta", Some(r), "text", piece)
        BY <2>9, <3>2, <3>4
      <4>4. Tells(v.events, Whole(r, more, <<>>))
        BY <3>3, <4>2, <4>3, PieceTells DEF e
      <4>5. QED
        BY <2>5, <2>10, <2>14, <3>4, <4>4
    <3>5. CASE c.text # "some"
      <4>1. v = Emit(y, "content_block_delta", Some(r), "text", Empty)
        BY <2>9, <3>2, <3>5
      <4>2. Tells(v.events, Whole(r, x, <<>>))
        BY <2>10, <3>3, <4>1, NoPieceTells
      <4>3. x # <<>> /\ Some(x) = 1 /\ IsSeq(x)
        BY <2>4, <2>5, <2>16
      <4>4. QED
        BY <2>14, <3>5, <4>2, <4>3
    <3>6. QED
      BY <3>4, <3>5
  <2>17. QED
    BY <2>15, <2>16
<1>3. QED
  BY <1>1, <1>2

LEMMA NewToolTells ==
    ASSUME NEW w, Runs(w), NEW content, Tells(w.events, content), ToolIndex(w) = Len(content),
           NEW tool, NEW v, v = NewTool(w, tool)
    PROVE  Tells(v.events, Append(content, [type |-> "tool_use", pieces |-> <<>>]))
<1> DEFINE i == ToolIndex(w)
           m == [tool |-> tool, index |-> i]
           x == Stopped(w)
           y == StartBlock(x, "tool_use", i)
<1>1. v = [y EXCEPT !.tools = @ \cup {m}]
  BY DEF NewTool
<1>2. x = Stopped(w) /\ IsWriter(w)
  BY RunsIs
<1> HIDE DEF x
<1>3. Runs(x) /\ x.type = "none"
  BY <1>2, StoppedIs
<1>4. Tells(x.events, content)
  BY <1>2, StoppedTells
<1>5. y = StartBlock(x, "tool_use", i) /\ i = Len(content) /\ "tool_use" # "none"
  OBVIOUS
<1> HIDE DEF i, y, m
<1>6. IsWriter(x)
  BY <1>3, RunsIs
<1>7. Tells(y.events, Append(content, [type |-> "tool_use", pieces |-> <<>>]))
  BY <1>4, <1>5, <1>6, StartBlockTells
<1>8. Runs(y)
  BY <1>3, <1>5, StartBlockIs
<1>9. IsWriter(y)
  BY <1>8, RunsIs
<1>10. v.events = y.events
  BY <1>1, <1>9 DEF IsWriter
<1>11. QED
  BY <1>7, <1>10

(* The entry of a tool in the map. *)
LEMMA EntryIs ==
    ASSUME NEW r, NEW x, NEW n, IsSeq(n), \A j, k \in 1..Len(n) : n[j] = n[k] => j = k,
           NEW k \in 1..Len(n), NEW S, S = MapOf(r, x, n),
           NEW m, m = CHOOSE a \in S : a.tool = n[k]
    PROVE  m.index = Some(r) + Some(x) + k - 1
<1> DEFINE a(j) == [tool |-> n[j], index |-> Some(r) + Some(x) + j - 1]
<1>1. S = {a(j) : j \in 1..Len(n)}
  BY DEF MapOf
<1>2. \A j : a(j).tool = n[j] /\ a(j).index = Some(r) + Some(x) + j - 1
  OBVIOUS
<1> HIDE DEF a
<1>3. a(k) \in S /\ a(k).tool = n[k]
  BY <1>1, <1>2
<1>4. m \in S /\ m.tool = n[k]
  BY <1>3
<1>5. PICK j \in 1..Len(n) : m = a(j)
  BY <1>1, <1>4
<1>6. j = k
  BY <1>2, <1>4, <1>5
<1>7. QED
  BY <1>2, <1>5, <1>6

Called(n, c) ==
    IF c.tool # NoTool /\ \A k \in 1..Len(n) : n[k] # c.tool THEN Append(n, c.tool) ELSE n

PiecesOf(t, k) == IF k <= Len(t) THEN t[k].pieces ELSE <<>>

(* The calls more are the calls t and what the chunk c adds to them. *)
Argues(n, t, c, piece, more) ==
    /\ IsSeq(more) /\ Len(more) = Len(Called(n, c))
    /\ \A k \in 1..Len(more) :
          more[k] = [type |-> "tool_use",
                     pieces |-> IF c.args /\ c.tool = Called(n, c)[k]
                                THEN Append(PiecesOf(t, k), piece) ELSE PiecesOf(t, k)]

LEMMA ArguesNothing ==
    ASSUME NEW n, NEW t, Lists(n, t), NEW c, Called(n, c) = n,
           \A k \in 1..Len(n) : ~(c.args /\ c.tool = n[k]),
           NEW piece, NEW more, Argues(n, t, c, piece, more)
    PROVE  more = t
<1>1. IsSeq(more) /\ IsSeq(t) /\ Len(more) = Len(t) /\ Len(t) \in Nat /\ Len(n) = Len(t)
  BY LenIs DEF Argues, Lists
<1>2. ASSUME NEW k \in 1..Len(more) PROVE more[k] = t[k]
  <2>1. k \in 1..Len(n) /\ k <= Len(t)
    BY <1>1
  <2>2. more[k] = [type |-> "tool_use",
                   pieces |-> IF c.args /\ c.tool = Called(n, c)[k]
                              THEN Append(PiecesOf(t, k), piece) ELSE PiecesOf(t, k)]
    BY DEF Argues
  <2>3. ~(c.args /\ c.tool = Called(n, c)[k]) /\ PiecesOf(t, k) = t[k].pieces
    BY <2>1 DEF PiecesOf
  <2>4. more[k] = [type |-> "tool_use", pieces |-> t[k].pieces]
    BY <2>2, <2>3
  <2>5. t[k] = [type |-> "tool_use", pieces |-> t[k].pieces]
    BY <1>1 DEF Lists
  <2>6. QED
    BY <2>4, <2>5
<1>3. QED
  BY <1>1, <1>2, SeqsEqual

LEMMA SaysKnownTool ==
    ASSUME NEW w, Runs(w), NEW r, NEW x, NEW n, NEW t, Says(w, r, x, n, t),
           NEW c, c.tool # NoTool, NEW k \in 1..Len(n), n[k] = c.tool,
           NEW piece, piece # Empty, NEW v, v = AfterTool(w, c, piece),
           NEW more, Argues(n, t, c, piece, more)
    PROVE  Says(v, r, x, n, more)
<1> DEFINE known == {m \in w.tools : m.tool = c.tool}
           entry == CHOOSE m \in w.tools : m.tool = c.tool
           i == Some(r) + Some(x) + k - 1
<1>1. /\ IsSeq(n) /\ IsSeq(t) /\ Len(n) = Len(t) /\ Len(t) \in Nat /\ w.tools = MapOf(r, x, n)
      /\ \A j, l \in 1..Len(n) : n[j] = n[l] => j = l
      /\ \A j \in 1..Len(t) : t[j] = [type |-> "tool_use", pieces |-> t[j].pieces]
  BY LenIs DEF Says, Lists
<1>2. Called(n, c) = n
  BY DEF Called
<1>3. known # {}
  <2> DEFINE a == [tool |-> n[k], index |-> i]
  <2>1. a.tool = c.tool
    OBVIOUS
  <2>2. a \in w.tools
    BY <1>1 DEF MapOf
  <2> HIDE DEF a
  <2>3. QED
    BY <2>1, <2>2
<1>4. v = IF ~c.args THEN w ELSE Emit(w, "content_block_delta", entry.index, "tool_use", piece)
  <2> DEFINE y == IF known = {} THEN NewTool(w, c.tool) ELSE w
             found == CHOOSE m \in y.tools : m.tool = c.tool
  <2>1. v = IF ~c.args THEN y ELSE Emit(y, "content_block_delta", found.index, "tool_use", piece)
    BY DEF AfterTool
  <2>2. y = w
    BY <1>3
  <2>3. found = CHOOSE m \in y.tools : m.tool = c.tool
    OBVIOUS
  <2> HIDE DEF y, found
  <2>4. found = entry
    BY <2>2, <2>3
  <2>5. QED
    BY <2>1, <2>2, <2>4
<1>5. entry.index = i
  <2> DEFINE S == w.tools
             m == CHOOSE a \in S : a.tool = n[k]
  <2>1. S = MapOf(r, x, n) /\ m = CHOOSE a \in S : a.tool = n[k]
    BY <1>1
  <2>2. entry = m
    OBVIOUS
  <2> HIDE DEF S, m
  <2>3. m.index = Some(r) + Some(x) + k - 1
    BY <1>1, <2>1, EntryIs
  <2>4. QED
    BY <2>2, <2>3
<1> HIDE DEF known, entry
<1>6. CASE ~c.args
  <2>1. Lists(n, t)
    BY DEF Says
  <2>2. more = t
    BY <1>2, <1>6, <2>1, ArguesNothing
  <2>3. QED
    BY <1>4, <1>6, <2>2
<1>7. CASE c.args
  <2>1. v = Emit(w, "content_block_delta", i, "tool_use", piece)
    BY <1>4, <1>5, <1>7
  <2>2. Runs(v) /\ Same(w, v) /\ v.type = w.type /\ v.index = w.index
    BY <2>1, DeltaIs
  <2>3. IsSeq(more) /\ Len(more) = Len(n)
    BY <1>2 DEF Argues
  <2>4. ASSUME NEW j \in 1..Len(n)
        PROVE  more[j] = [type |-> "tool_use",
                          pieces |-> IF j = k THEN Append(t[j].pieces, piece) ELSE t[j].pieces]
    <3>1. j \in 1..Len(more) /\ PiecesOf(t, j) = t[j].pieces
      BY <1>1, <2>3 DEF PiecesOf
    <3>2. more[j] = [type |-> "tool_use",
                     pieces |-> IF c.args /\ c.tool = Called(n, c)[j]
                                THEN Append(PiecesOf(t, j), piece) ELSE PiecesOf(t, j)]
      BY <3>1 DEF Argues
    <3>3. (c.args /\ c.tool = Called(n, c)[j]) <=> j = k
      BY <1>1, <1>2, <1>7
    <3>4. QED
      BY <3>1, <3>2, <3>3
  <2>5. ASSUME NEW j \in 1..Len(t) PROVE t[j].type = "tool_use"
    <3>1. t[j] = [type |-> "tool_use", pieces |-> t[j].pieces]
      BY <1>1
    <3> DEFINE p == t[j].pieces
    <3>2. t[j] = [type |-> "tool_use", pieces |-> p]
      BY <3>1
    <3> HIDE DEF p
    <3>3. QED
      BY <3>2
  <2>6. Longer(t, more, k, piece)
    <3>1. ASSUME NEW j \in 1..Len(t)
          PROVE  more[j] = IF j = k
                           THEN [type |-> t[j].type, pieces |-> Append(t[j].pieces, piece)]
                           ELSE t[j]
      <4>1. CASE j = k
        BY <1>1, <2>4, <2>5, <4>1
      <4>2. CASE j # k
        BY <1>1, <2>4, <4>2
      <4>3. QED
        BY <4>1, <4>2
    <3>2. QED
      BY <1>1, <2>3, <3>1 DEF Longer
  <2> DEFINE e == EventOf("content_block_delta", i, "tool_use", piece)
  <2>7. IsDelta(e, "tool_use", Some(r) + Some(x) + k - 1) /\ e.piece = piece
    BY DEF IsDelta, EventOf
  <2> HIDE DEF e
  <2>8. Extended(e, Whole(r, x, t), Whole(r, x, more))
    <3>1. k \in 1..Len(t) /\ t[k].type = "tool_use" /\ Longer(t, more, k, e.piece)
      BY <1>1, <2>5, <2>6, <2>7
    <3>2. QED
      BY <1>1, <2>7, <3>1, CallGoesOn
  <2>9. Tells(v.events, Whole(r, x, more))
    <3>1. IsWriter(w) /\ Tells(w.events, Whole(r, x, t))
      BY RunsIs DEF Says
    <3>2. QED
      BY <2>1, <2>8, <3>1, PieceTells DEF e
  <2>10. Lists(n, more)
    <3>1. ASSUME NEW j \in 1..Len(more)
          PROVE  more[j] = [type |-> "tool_use", pieces |-> more[j].pieces]
      <4> DEFINE p == IF j = k THEN Append(t[j].pieces, piece) ELSE t[j].pieces
      <4>1. more[j] = [type |-> "tool_use", pieces |-> p]
        BY <2>3, <2>4
      <4> HIDE DEF p
      <4>2. more[j].pieces = p
        BY <4>1
      <4>3. QED
        BY <4>1, <4>2
    <3>2. QED
      BY <1>1, <2>3, <3>1 DEF Lists
  <2>11. Len(more) = Len(t) /\ (more # <<>> <=> t # <<>>)
    BY <1>1, <2>3, LenIs
  <2>12. v.type = Last(r, x, more)
    BY <2>2, <2>11 DEF Says, Last
  <2>13. v.index = IF v.type = "none" THEN 0 ELSE Some(r) + Some(x) + Len(more) - 1
    BY <2>2, <2>11 DEF Says
  <2>14. QED
    BY <2>2, <2>9, <2>10, <2>12, <2>13 DEF Says, Same
<1>8. QED
  BY <1>6, <1>7

LEMMA SaysNewTool ==
    ASSUME NEW w, Runs(w), NEW r, NEW x, NEW n, NEW t, Says(w, r, x, n, t),
           NEW c, c.tool # NoTool, \A k \in 1..Len(n) : n[k] # c.tool,
           NEW piece, piece # Empty, NEW v, v = AfterTool(w, c, piece),
           NEW more, Argues(n, t, c, piece, more)
    PROVE  Says(v, r, x, Append(n, c.tool), more)
<1> DEFINE known == {m \in w.tools : m.tool = c.tool}
           y == NewTool(w, c.tool)
           entry == CHOOSE m \in y.tools : m.tool = c.tool
           i == Some(r) + Some(x) + Len(n)
           names == Append(n, c.tool)
           content == Whole(r, x, t)
           l == Len(n)
<1>1. /\ IsSeq(n) /\ IsSeq(t) /\ Len(t) = l /\ l \in Nat /\ w.tools = MapOf(r, x, n)
      /\ \A j, k \in 1..l : n[j] = n[k] => j = k
      /\ \A j \in 1..l : t[j] = [type |-> "tool_use", pieces |-> t[j].pieces]
      /\ IsSeq(r) /\ IsSeq(x) /\ Tells(w.events, content)
      /\ w.thinking = (r # <<>>) /\ w.text = (x # <<>>) /\ w.type = Last(r, x, t)
      /\ w.index = IF w.type = "none" THEN 0 ELSE Some(r) + Some(x) + l - 1
  BY LenIs DEF Says, Lists
<1>2. /\ Called(n, c) = names /\ IsSeq(names) /\ Len(names) = l + 1 /\ names[l + 1] = c.tool
      /\ \A k \in 1..l : names[k] = n[k]
  BY <1>1, AppendIs DEF Called, Adds
<1>3. known = {}
  BY <1>1 DEF MapOf
<1>4. v = IF ~c.args THEN y ELSE Emit(y, "content_block_delta", entry.index, "tool_use", piece)
  <2> DEFINE z == IF known = {} THEN NewTool(w, c.tool) ELSE w
             found == CHOOSE m \in z.tools : m.tool = c.tool
  <2>1. v = IF ~c.args THEN z ELSE Emit(z, "content_block_delta", found.index, "tool_use", piece)
    BY DEF AfterTool
  <2>2. z = y
    BY <1>3
  <2>3. found = CHOOSE m \in z.tools : m.tool = c.tool
    OBVIOUS
  <2>4. entry = CHOOSE m \in y.tools : m.tool = c.tool
    OBVIOUS
  <2> HIDE DEF z, found, y, entry
  <2>5. found = entry
    BY <2>2, <2>3, <2>4
  <2>6. QED
    BY <2>1, <2>2, <2>5
<1>5. Some(r) \in {0, 1} /\ Some(x) \in {0, 1} /\ i \in Nat /\ (l = 0 <=> t = <<>>)
  BY <1>1, SomeIs, LenIs
<1>6. ToolIndex(w) = i
  <2>1. CASE l = 0
    <3>1. w.tools = {}
      BY <1>1, <2>1 DEF MapOf
    <3>2. One(w.thinking) = Some(r) /\ One(w.text) = Some(x)
      BY <1>1 DEF Some
    <3>3. QED
      BY <1>5, <2>1, <3>1, <3>2 DEF ToolIndex
  <2>2. CASE l # 0
    <3>1. w.tools # {}
      <4> DEFINE a == [tool |-> n[1], index |-> Some(r) + Some(x) + 1 - 1]
      <4>1. a \in w.tools
        BY <1>1, <2>2 DEF MapOf
      <4> HIDE DEF a
      <4>2. QED
        BY <4>1
    <3>2. w.type # "none"
      BY <1>1, <1>5, <2>2 DEF Last
    <3>3. w.index + 1 = i
      BY <1>1, <1>5, <3>2
    <3>4. QED
      BY <3>1, <3>3 DEF ToolIndex
  <2>3. QED
    BY <2>1, <2>2
<1>7. Len(content) = i
  <2>1. Lays(content, r, x, t)
    BY <1>1, WholeLays
  <2>2. QED
    BY <1>1, <2>1 DEF Lays
<1>8. /\ y = NewTool(w, c.tool) /\ names = Append(n, c.tool) /\ l = Len(n) /\ i = Some(r) + Some(x) + l
      /\ entry = CHOOSE m \in y.tools : m.tool = c.tool
  OBVIOUS
<1>9. content = Whole(r, x, t)
  OBVIOUS
<1> HIDE DEF known, y, entry, names, content, l, i
<1>10. Tells(y.events, Append(content, [type |-> "tool_use", pieces |-> <<>>]))
  BY <1>1, <1>6, <1>7, <1>8, NewToolTells
<1>11. /\ Runs(y) /\ y.thinking = w.thinking /\ y.text = w.text
       /\ y.tools = w.tools \cup {[tool |-> c.tool, index |-> i]}
       /\ y.type = "tool_use" /\ y.index = i
  BY <1>6, <1>8, NewToolIs
<1>12. y.tools = MapOf(r, x, names)
  <2> DEFINE a(k) == [tool |-> names[k], index |-> Some(r) + Some(x) + k - 1]
             b(k) == [tool |-> n[k], index |-> Some(r) + Some(x) + k - 1]
  <2>1. /\ MapOf(r, x, names) = {a(k) : k \in 1..(l + 1)}
        /\ w.tools = {b(k) : k \in 1..l}
    BY <1>1, <1>2, <1>8 DEF MapOf
  <2>2. a(l + 1) = [tool |-> c.tool, index |-> i]
    <3>1. Some(r) + Some(x) + (l + 1) - 1 = i
      BY <1>1, <1>5, <1>8
    <3>2. QED
      BY <1>2, <3>1
  <2>3. \A k \in 1..l : a(k) = b(k)
    BY <1>2
  <2>4. \A k \in 1..(l + 1) : k \in 1..l \/ k = l + 1
    BY <1>1
  <2>5. 1..l \subseteq 1..(l + 1) /\ l + 1 \in 1..(l + 1)
    BY <1>1
  <2> HIDE DEF a, b
  <2>6. {a(k) : k \in 1..(l + 1)} = {b(k) : k \in 1..l} \cup {a(l + 1)}
    BY <2>3, <2>4, <2>5
  <2>7. QED
    BY <1>11, <2>1, <2>2, <2>6
<1>13. \A j, k \in 1..Len(names) : names[j] = names[k] => j = k
  <2>1. SUFFICES ASSUME NEW j \in 1..(l + 1), NEW k \in 1..(l + 1), names[j] = names[k]
                 PROVE  j = k
    BY <1>2
  <2>2. (j \in 1..l \/ j = l + 1) /\ (k \in 1..l \/ k = l + 1)
    BY <1>1
  <2>3. \A h \in 1..l : names[h] # c.tool
    BY <1>2, <1>8
  <2>4. QED
    BY <1>1, <1>2, <2>1, <2>2, <2>3
<1>14. IsSeq(more) /\ Len(more) = l + 1
  BY <1>2 DEF Argues
<1>15. ASSUME NEW k \in 1..(l + 1)
       PROVE  more[k] = [type |-> "tool_use",
                         pieces |-> IF c.args /\ k = l + 1 THEN Append(<<>>, piece)
                                    ELSE IF k = l + 1 THEN <<>> ELSE t[k].pieces]
  <2>1. more[k] = [type |-> "tool_use",
                   pieces |-> IF c.args /\ c.tool = Called(n, c)[k]
                              THEN Append(PiecesOf(t, k), piece) ELSE PiecesOf(t, k)]
    BY <1>14 DEF Argues
  <2>2. (c.tool = Called(n, c)[k]) <=> k = l + 1
    <3>1. k \in 1..l \/ k = l + 1
      BY <1>1
    <3>2. \A h \in 1..l : names[h] # c.tool /\ h # l + 1
      BY <1>1, <1>2, <1>8
    <3>3. QED
      BY <1>2, <3>1, <3>2
  <2>3. PiecesOf(t, k) = IF k = l + 1 THEN <<>> ELSE t[k].pieces
    BY <1>1 DEF PiecesOf
  <2>4. QED
    BY <2>1, <2>2, <2>3
<1> DEFINE b == [type |-> "tool_use", pieces |-> IF c.args THEN Append(<<>>, piece) ELSE <<>>]
<1>16. more = Append(t, b)
  <2>1. more[l + 1] = b
    BY <1>1, <1>15
  <2>2. ASSUME NEW k \in 1..l PROVE more[k] = t[k]
    <3>1. k \in 1..(l + 1) /\ k # l + 1
      BY <1>1
    <3>2. more[k] = [type |-> "tool_use", pieces |-> t[k].pieces]
      BY <1>15, <3>1
    <3>3. QED
      BY <1>1, <3>2
  <2> HIDE DEF b
  <2>3. QED
    BY <1>1, <1>14, <2>1, <2>2, AppendLast
<1>17. Tells(v.events, Append(content, b))
  <2>1. CASE ~c.args
    <3>1. b = [type |-> "tool_use", pieces |-> <<>>] /\ v = y
      BY <1>4, <2>1
    <3>2. QED
      BY <1>10, <3>1
  <2>2. CASE c.args
    <3>1. b = [type |-> "tool_use", pieces |-> Append(<<>>, piece)]
      BY <2>2
    <3>2. entry.index = i
      <4>1. l + 1 \in 1..Len(names) /\ names[l + 1] = c.tool
        BY <1>1, <1>2
      <4> DEFINE S == y.tools
                 m == CHOOSE a \in S : a.tool = names[l + 1]
                 k == l + 1
      <4>2. S = MapOf(r, x, names) /\ m = CHOOSE a \in S : a.tool = names[k]
        BY <1>12
      <4>3. entry = m
        BY <1>8, <4>1
      <4>4. k \in 1..Len(names) /\ Some(r) + Some(x) + k - 1 = i
        BY <1>1, <1>5, <1>8, <4>1
      <4> HIDE DEF S, m, k
      <4>5. m.index = Some(r) + Some(x) + k - 1
        BY <1>2, <1>13, <4>2, <4>4, EntryIs
      <4>6. QED
        BY <4>3, <4>4, <4>5
    <3>3. v = Emit(y, "content_block_delta", i, "tool_use", piece)
      BY <1>4, <2>2, <3>2
    <3>4. IsWriter(y) /\ IsSeq(content)
      BY <1>1, <1>11, RunsIs DEF Tells
    <3>5. Tells(v.events, Append(content, [type |-> "tool_use", pieces |-> Append(<<>>, piece)]))
      BY <1>7, <1>10, <3>3, <3>4, FirstPiece
    <3>6. QED
      BY <3>1, <3>5
  <2>3. QED
    BY <2>1, <2>2
<1>18. Append(content, b) = Whole(r, x, more)
  <2> HIDE DEF b
  <2>1. Whole(r, x, Append(t, b)) = Append(Whole(r, x, t), b)
    BY <1>1, CallAdded
  <2>2. QED
    BY <1>9, <1>16, <2>1
<1>19. v.thinking = w.thinking /\ v.text = w.text /\ v.tools = y.tools /\ v.type = "tool_use" /\ v.index = i
  <2>1. CASE ~c.args
    BY <1>4, <1>11, <2>1
  <2>2. CASE c.args
    <3>1. v = Emit(y, "content_block_delta", entry.index, "tool_use", piece)
      BY <1>4, <2>2
    <3>2. Same(y, v) /\ v.type = y.type /\ v.index = y.index
      BY <1>11, <3>1, DeltaIs
    <3>3. QED
      BY <1>11, <3>2 DEF Same
  <2>3. QED
    BY <2>1, <2>2
<1>20. Lists(names, more)
  <2>1. ASSUME NEW k \in 1..Len(more)
        PROVE  more[k] = [type |-> "tool_use", pieces |-> more[k].pieces]
    <3> DEFINE p == IF c.args /\ k = l + 1 THEN Append(<<>>, piece)
                    ELSE IF k = l + 1 THEN <<>> ELSE t[k].pieces
    <3>1. more[k] = [type |-> "tool_use", pieces |-> p]
      BY <1>14, <1>15
    <3> HIDE DEF p
    <3>2. more[k].pieces = p
      BY <3>1
    <3>3. QED
      BY <3>1, <3>2
  <2>2. QED
    BY <1>2, <1>13, <1>14, <2>1 DEF Lists
<1>21. v.type = Last(r, x, more) /\ v.type # "none"
  <2>1. more # <<>>
    BY <1>1, <1>14, LenIs
  <2>2. QED
    BY <1>19, <2>1 DEF Last
<1>22. v.index = Some(r) + Some(x) + Len(more) - 1
  BY <1>1, <1>5, <1>8, <1>14, <1>19
<1>23. Tells(v.events, Whole(r, x, more))
  BY <1>17, <1>18
<1>24. Says(v, r, x, names, more)
  BY <1>1, <1>12, <1>19, <1>20, <1>21, <1>22, <1>23 DEF Says
<1>25. QED
  BY <1>24 DEF names

LEMMA SaysTool ==
    ASSUME NEW w, Runs(w), NEW r, NEW x, NEW n, NEW t, Says(w, r, x, n, t),
           \A k \in 1..Len(n) : n[k] # NoTool, NEW c, c.args => c.tool # NoTool,
           NEW piece, piece # Empty, NEW v, v = AfterTool(w, c, piece),
           NEW more, Argues(n, t, c, piece, more)
    PROVE  Says(v, r, x, Called(n, c), more)
<1>1. CASE c.tool = NoTool
  <2>1. v = w /\ Called(n, c) = n /\ Lists(n, t)
    BY <1>1 DEF AfterTool, Called, Says
  <2>2. \A k \in 1..Len(n) : ~(c.args /\ c.tool = n[k])
    BY <1>1
  <2>3. more = t
    BY <2>1, <2>2, ArguesNothing
  <2>4. QED
    BY <2>1, <2>3
<1>2. CASE c.tool # NoTool /\ \A k \in 1..Len(n) : n[k] # c.tool
  <2>1. Called(n, c) = Append(n, c.tool)
    BY <1>2 DEF Called
  <2>2. QED
    BY <1>2, <2>1, SaysNewTool
<1>3. CASE c.tool # NoTool /\ \E k \in 1..Len(n) : n[k] = c.tool
  <2>1. Called(n, c) = n
    BY <1>3 DEF Called
  <2>2. PICK k \in 1..Len(n) : n[k] = c.tool
    BY <1>3
  <2>3. QED
    BY <1>3, <2>1, <2>2, SaysKnownTool
<1>4. QED
  BY <1>1, <1>2, <1>3

-----------------------------------------------------------------------------
(* What the upstream said, one chunk after the other. *)

LEMMA FunctionIsSeq ==
    ASSUME NEW m \in Nat, NEW f, f = [k \in 1..m |-> f[k]]
    PROVE  IsSeq(f) /\ Len(f) = m
<1> DEFINE S == {f[k] : k \in 1..m}
<1>1. f \in [1..m -> S]
  OBVIOUS
<1> HIDE DEF S
<1>2. f \in Seq(S)
  BY <1>1, SeqDef
<1>3. DOMAIN f = 1..Len(f) /\ DOMAIN f = 1..m /\ Len(f) \in Nat
  BY <1>1, <1>2, LenProperties
<1>4. Len(f) = m
  BY <1>3
<1>5. QED
  BY <1>2, <1>4 DEF IsSeq

NumbersNext(s, more, ks, js) ==
    /\ Len(more) \in js => Numbers(more, js) = Append(Numbers(s, ks), Len(more))
    /\ Len(more) \notin js => Numbers(more, js) = Numbers(s, ks)

LEMMA NumbersMore ==
    ASSUME NEW s, IsSeq(s), NEW c, NEW more, more = Append(s, c), NEW ks, NEW js,
           \A k \in DOMAIN s : k \in js <=> k \in ks
    PROVE  NumbersNext(s, more, ks, js)
<1> DEFINE n == Len(s)
           f == [k \in DOMAIN more |-> k]
           g == [k \in DOMAIN s |-> k]
<1>1. /\ n \in Nat /\ Len(more) = n + 1 /\ DOMAIN s = 1..n /\ DOMAIN more = 1..(n + 1)
  BY AppendAdds DEF Adds
<1>2. Numbers(more, js) = Gathered(f, js, n + 1) /\ Numbers(s, ks) = Gathered(g, ks, n)
  BY <1>1 DEF Numbers
<1>3. SameTo(f, js, g, ks, n)
  BY <1>1 DEF SameTo
<1>4. f[n + 1] = n + 1
  BY <1>1
<1> HIDE DEF n, f, g
<1>5. Gathered(f, js, n) = Gathered(g, ks, n)
  BY <1>1, <1>3, GatheredSame
<1>6. /\ n + 1 \in js => Gathered(f, js, n + 1) = Append(Gathered(f, js, n), f[n + 1])
      /\ n + 1 \notin js => Gathered(f, js, n + 1) = Gathered(f, js, n)
  BY <1>1, GatheredNext
<1>7. QED
  BY <1>1, <1>2, <1>4, <1>5, <1>6 DEF NumbersNext

LEMMA NumbersIsSeq == ASSUME NEW s, IsSeq(s), NEW ks PROVE IsSeq(Numbers(s, ks))
<1>1. Len(s) \in Nat
  BY LenIs
<1>2. QED
  BY <1>1, GatheredIsSeq DEF Numbers

LEMMA NumbersNone ==
    ASSUME NEW s, IsSeq(s), NEW ks, \A k \in DOMAIN s : k \notin ks
    PROVE  Numbers(s, ks) = <<>>
<1>1. Len(s) \in Nat /\ DOMAIN s = 1..Len(s)
  BY LenIs
<1>2. QED
  BY <1>1, GatheredEmpty DEF Numbers

CallNumbers(s) == Numbers(s, CallsIn(s))

(* The reasoning r, the text x, and the calls t of the tools n, in the     *)
(* order of their first chunks.                                            *)
Names(s, n) ==
    /\ IsSeq(n) /\ Len(n) = Len(CallNumbers(s))
    /\ \A k \in 1..Len(n) : /\ CallNumbers(s)[k] \in DOMAIN s
                            /\ s[CallNumbers(s)[k]].tool = n[k] /\ n[k] # NoTool
    /\ \A k \in DOMAIN s : s[k].tool # NoTool => \E j \in 1..Len(n) : n[j] = s[k].tool

SaidBy(s, r, x, n, t) ==
    /\ IsSeq(s) /\ Names(s, n)
    /\ r = Numbers(s, ReasoningIn(s)) /\ x = Numbers(s, TextIn(s)) /\ t = ToolBlocks(s)

LEMMA ToolBlocksIs ==
    ASSUME NEW s, IsSeq(s), NEW n, Names(s, n)
    PROVE  /\ IsSeq(ToolBlocks(s)) /\ Len(ToolBlocks(s)) = Len(n)
           /\ \A k \in 1..Len(n) :
                 ToolBlocks(s)[k] = [type |-> "tool_use",
                                     pieces |-> Numbers(s, ArgumentsIn(s, n[k]))]
<1> DEFINE calls == CallNumbers(s)
           t == ToolBlocks(s)
           m == Len(n)
<1>1. IsSeq(calls)
  BY NumbersIsSeq DEF CallNumbers
<1>2. DOMAIN calls = 1..m /\ m \in Nat
  <2>1. Len(calls) = m
    BY DEF Names
  <2>2. QED
    BY <1>1, <2>1, LenIs
<1>3. t = [k \in DOMAIN calls |->
              [type |-> "tool_use", pieces |-> Numbers(s, ArgumentsIn(s, s[calls[k]].tool))]]
  BY DEF ToolBlocks, CallNumbers
<1>4. \A k \in 1..m : s[calls[k]].tool = n[k]
  BY DEF Names
<1> HIDE DEF calls, t, m
<1>5. \A k \in 1..m : t[k] = [type |-> "tool_use", pieces |-> Numbers(s, ArgumentsIn(s, n[k]))]
  BY <1>2, <1>3, <1>4
<1>6. t = [k \in 1..m |-> t[k]]
  BY <1>2, <1>3
<1>7. IsSeq(t) /\ Len(t) = m
  BY <1>2, <1>6, FunctionIsSeq
<1>8. QED
  BY <1>5, <1>7 DEF t, m

LEMMA SaidNothing == SaidBy(<<>>, <<>>, <<>>, <<>>, <<>>)
<1>1. IsSeq(<<>>) /\ Len(<<>>) = 0 /\ DOMAIN <<>> = {}
  BY EmptyIs
<1>2. \A ks : Numbers(<<>>, ks) = <<>>
  BY <1>1, NumbersNone
<1>3. 1..Len(<<>>) = {}
  BY <1>1
<1>4. Names(<<>>, <<>>)
  BY <1>1, <1>2, <1>3 DEF Names, CallNumbers
<1>5. IsSeq(ToolBlocks(<<>>)) /\ Len(ToolBlocks(<<>>)) = 0
  BY <1>1, <1>4, ToolBlocksIs
<1>6. ToolBlocks(<<>>) = <<>>
  BY <1>5, LenIs
<1>7. QED
  BY <1>1, <1>2, <1>4, <1>6 DEF SaidBy

WithReasoning(r, c, piece) == IF exposeThinking /\ c.reasoning THEN Append(r, piece) ELSE r
WithText(x, c, piece) == IF c.text = "some" THEN Append(x, piece) ELSE x

CallsNext(s, n, c, more) ==
    /\ Called(n, c) = n => /\ CallNumbers(more) = CallNumbers(s)
                           /\ c.tool = NoTool \/ \E j \in 1..Len(n) : n[j] = c.tool
    /\ Called(n, c) # n => /\ CallNumbers(more) = Append(CallNumbers(s), Len(more))
                           /\ c.tool # NoTool /\ Called(n, c) = Append(n, c.tool)
                           /\ \A k \in DOMAIN s : s[k].tool # c.tool

LEMMA CallsMore ==
    ASSUME NEW s, IsSeq(s), NEW n, Names(s, n), NEW c, NEW more, more = Append(s, c)
    PROVE  CallsNext(s, n, c, more)
<1> DEFINE l == Len(s)
           ks == CallsIn(s)
           js == CallsIn(more)
           new == c.tool # NoTool /\ \A j \in 1..Len(n) : n[j] # c.tool
<1>1. /\ l \in Nat /\ Len(more) = l + 1 /\ DOMAIN s = 1..l /\ DOMAIN more = 1..(l + 1)
      /\ more[l + 1] = c /\ \A k \in 1..l : more[k] = s[k]
  BY AppendAdds DEF Adds
<1>2. ASSUME NEW k \in DOMAIN s PROVE k \in js <=> k \in ks
  <2>1. k \in DOMAIN more /\ more[k] = s[k] /\ \A h \in 1..(k - 1) : more[h] = s[h]
    BY <1>1
  <2>2. QED
    BY <2>1 DEF CallsIn
<1>3. /\ \A j \in 1..Len(n) : \E k \in DOMAIN s : s[k].tool = n[j]
      /\ \A k \in DOMAIN s : s[k].tool # NoTool => \E j \in 1..Len(n) : n[j] = s[k].tool
  BY DEF Names
<1>4. l + 1 \in js <=> new
  <2>1. l + 1 \in js <=> c.tool # NoTool /\ \A h \in 1..l : more[h].tool # c.tool
    <3>1. l + 1 \in DOMAIN more /\ l + 1 - 1 = l
      BY <1>1
    <3>2. QED
      BY <1>1, <3>1 DEF CallsIn
  <2>2. QED
    BY <1>1, <1>3, <2>1
<1> HIDE DEF l, ks, js
<1>5. /\ l + 1 \in js => CallNumbers(more) = Append(CallNumbers(s), l + 1)
      /\ l + 1 \notin js => CallNumbers(more) = CallNumbers(s)
  <2>1. NumbersNext(s, more, ks, js)
    BY <1>2, NumbersMore
  <2>2. /\ Len(more) \in js => Numbers(more, js) = Append(Numbers(s, ks), Len(more))
        /\ Len(more) \notin js => Numbers(more, js) = Numbers(s, ks)
    BY <2>1 DEF NumbersNext
  <2>3. CallNumbers(more) = Numbers(more, js) /\ CallNumbers(s) = Numbers(s, ks)
    BY DEF CallNumbers, js, ks
  <2>4. QED
    BY <1>1, <2>2, <2>3
<1>6. CASE new
  <2>1. Called(n, c) = Append(n, c.tool)
    BY <1>6 DEF Called
  <2>2. Called(n, c) # n
    <3>1. IsSeq(n)
      BY DEF Names
    <3>2. Len(Append(n, c.tool)) = Len(n) + 1 /\ Len(n) \in Nat
      BY <3>1, AppendAdds DEF Adds
    <3>3. QED
      BY <2>1, <3>2
  <2>3. \A k \in DOMAIN s : s[k].tool # c.tool
    BY <1>3, <1>6
  <2>4. QED
    BY <1>1, <1>4, <1>5, <1>6, <2>1, <2>2, <2>3 DEF CallsNext
<1>7. CASE ~new
  <2>1. Called(n, c) = n
    BY <1>7 DEF Called
  <2>2. QED
    BY <1>4, <1>5, <1>7, <2>1 DEF CallsNext
<1>8. QED
  BY <1>6, <1>7

LEMMA NamesMore ==
    ASSUME NEW s, IsSeq(s), NEW n, Names(s, n), NEW c, NEW more, more = Append(s, c)
    PROVE  Names(more, Called(n, c))
<1> DEFINE calls == CallNumbers(s)
           both == CallNumbers(more)
           m == Len(n)
           l == Len(s)
<1>1. /\ l \in Nat /\ Len(more) = l + 1 /\ DOMAIN s = 1..l /\ DOMAIN more = 1..(l + 1)
      /\ more[l + 1] = c /\ \A k \in 1..l : more[k] = s[k]
  BY AppendAdds DEF Adds
<1>2. /\ IsSeq(n) /\ m = Len(calls)
      /\ \A k \in 1..m : calls[k] \in 1..l /\ s[calls[k]].tool = n[k] /\ n[k] # NoTool
      /\ \A k \in 1..l : s[k].tool # NoTool => \E j \in 1..m : n[j] = s[k].tool
  BY <1>1 DEF Names
<1>3. m \in Nat /\ IsSeq(calls)
  BY <1>2, LenIs, NumbersIsSeq DEF CallNumbers
<1>4. /\ Called(n, c) = n => both = calls
      /\ Called(n, c) # n => both = Append(calls, l + 1)
      /\ Called(n, c) # n => c.tool # NoTool /\ Called(n, c) = Append(n, c.tool)
      /\ Called(n, c) = n => c.tool = NoTool \/ \E j \in 1..m : n[j] = c.tool
  <2>1. CallsNext(s, n, c, more)
    BY <1>1, CallsMore
  <2>2. QED
    BY <1>1, <2>1 DEF CallsNext
<1> HIDE DEF calls, both, m, l
<1>5. \A k \in 1..(l + 1) : k \in 1..l \/ k = l + 1
  BY <1>1
<1>6. 1..l \subseteq 1..(l + 1) /\ l + 1 \in 1..(l + 1)
  BY <1>1
<1>7. CASE Called(n, c) = n
  <2>1. \A k \in 1..m : both[k] \in DOMAIN more /\ more[both[k]].tool = n[k] /\ n[k] # NoTool
    BY <1>1, <1>2, <1>4, <1>7, <1>6
  <2>2. ASSUME NEW k \in DOMAIN more, more[k].tool # NoTool
        PROVE  \E j \in 1..m : n[j] = more[k].tool
    BY <1>1, <1>2, <1>4, <1>7, <1>5, <2>2
  <2>3. QED
    BY <1>2, <1>4, <1>7, <2>1, <2>2 DEF Names, both, m
<1>8. CASE Called(n, c) # n
  <2> DEFINE names == Append(n, c.tool)
  <2>1. /\ IsSeq(names) /\ Len(names) = m + 1 /\ names[m + 1] = c.tool
        /\ \A k \in 1..m : names[k] = n[k]
    BY <1>2, AppendAdds DEF Adds, m
  <2>2. /\ Len(both) = m + 1 /\ both[m + 1] = l + 1 /\ \A k \in 1..m : both[k] = calls[k]
    <3>1. both = Append(calls, l + 1)
      BY <1>4, <1>8
    <3>2. Adds(calls, both, l + 1)
      BY <1>3, <3>1, AppendAdds
    <3>3. QED
      BY <1>2, <3>2 DEF Adds
  <2>3. Called(n, c) = names /\ c.tool # NoTool
    BY <1>4, <1>8
  <2> HIDE DEF names
  <2>4. \A k \in 1..(m + 1) : k \in 1..m \/ k = m + 1
    BY <1>3
  <2>5. 1..m \subseteq 1..(m + 1) /\ m + 1 \in 1..(m + 1)
    BY <1>3
  <2>6. ASSUME NEW k \in 1..(m + 1)
        PROVE  both[k] \in DOMAIN more /\ more[both[k]].tool = names[k] /\ names[k] # NoTool
    <3>1. CASE k \in 1..m
      <4>1. both[k] = calls[k] /\ names[k] = n[k] /\ calls[k] \in 1..l
        BY <1>2, <2>1, <2>2, <3>1
      <4>2. QED
        BY <1>1, <1>2, <1>6, <3>1, <4>1
    <3>2. CASE k = m + 1
      <4>1. both[k] = l + 1 /\ names[k] = c.tool
        BY <2>1, <2>2, <3>2
      <4>2. QED
        BY <1>1, <1>6, <2>3, <4>1
    <3>3. QED
      BY <2>4, <3>1, <3>2
  <2>7. ASSUME NEW k \in DOMAIN more, more[k].tool # NoTool
        PROVE  \E j \in 1..(m + 1) : names[j] = more[k].tool
    <3>1. CASE k \in 1..l
      <4>1. more[k] = s[k]
        BY <1>1, <3>1
      <4>2. PICK j \in 1..m : n[j] = s[k].tool
        BY <1>2, <2>7, <3>1, <4>1
      <4>3. j \in 1..(m + 1) /\ names[j] = n[j]
        BY <2>1, <2>5
      <4>4. QED
        BY <4>1, <4>2, <4>3
    <3>2. CASE k = l + 1
      BY <1>1, <2>1, <2>5, <3>2
    <3>3. QED
      BY <1>1, <1>5, <3>1, <3>2
  <2>8. Names(more, names)
    BY <2>1, <2>2, <2>6, <2>7 DEF Names, both
  <2>9. QED
    BY <2>3, <2>8
<1>9. QED
  BY <1>7, <1>8

LEMMA SaidMore ==
    ASSUME NEW s, NEW r, NEW x, NEW n, NEW t, SaidBy(s, r, x, n, t),
           NEW c, NEW more, more = Append(s, c), NEW piece, piece = Len(more)
    PROVE  /\ SaidBy(more, WithReasoning(r, c, piece), WithText(x, c, piece), Called(n, c),
                     ToolBlocks(more))
           /\ Argues(n, t, c, piece, ToolBlocks(more))
<1> DEFINE l == Len(s)
           names == Called(n, c)
           u == ToolBlocks(more)
<1>1. /\ IsSeq(more) /\ l \in Nat /\ Len(more) = l + 1 /\ DOMAIN s = 1..l /\ DOMAIN more = 1..(l + 1)
      /\ more[l + 1] = c /\ \A k \in 1..l : more[k] = s[k]
      /\ IsSeq(s) /\ Names(s, n) /\ r = Numbers(s, ReasoningIn(s)) /\ x = Numbers(s, TextIn(s))
      /\ t = ToolBlocks(s) /\ IsSeq(n)
  BY AppendAdds DEF Adds, SaidBy, Names
<1>2. /\ \A k \in DOMAIN s : k \in DOMAIN more /\ more[k] = s[k]
      /\ Len(more) \in DOMAIN more /\ more[Len(more)] = c
  BY <1>1
<1>3. WithReasoning(r, c, piece) = Numbers(more, ReasoningIn(more))
  <2> DEFINE ks == ReasoningIn(s)
             js == ReasoningIn(more)
  <2>1. /\ \A k \in DOMAIN s : k \in js <=> k \in ks
        /\ Len(more) \in js <=> exposeThinking /\ c.reasoning
    BY <1>2 DEF ReasoningIn
  <2>2. NumbersNext(s, more, ks, js)
    <3> HIDE DEF js, ks
    <3>1. QED
      BY <1>1, <2>1, NumbersMore
  <2>3. QED
    BY <1>1, <2>1, <2>2 DEF NumbersNext, WithReasoning
<1>4. WithText(x, c, piece) = Numbers(more, TextIn(more))
  <2> DEFINE ks == TextIn(s)
             js == TextIn(more)
  <2>1. /\ \A k \in DOMAIN s : k \in js <=> k \in ks
        /\ Len(more) \in js <=> c.text = "some"
    BY <1>2 DEF TextIn
  <2>2. NumbersNext(s, more, ks, js)
    <3> HIDE DEF js, ks
    <3>1. QED
      BY <1>1, <2>1, NumbersMore
  <2>3. QED
    BY <1>1, <2>1, <2>2 DEF NumbersNext, WithText
<1>5. Names(more, names)
  BY <1>1, NamesMore
<1>6. /\ IsSeq(t) /\ Len(t) = Len(n)
      /\ \A k \in 1..Len(n) : t[k] = [type |-> "tool_use", pieces |-> Numbers(s, ArgumentsIn(s, n[k]))]
  BY <1>1, ToolBlocksIs
<1>7. /\ IsSeq(u) /\ Len(u) = Len(names)
      /\ \A k \in 1..Len(names) :
            u[k] = [type |-> "tool_use", pieces |-> Numbers(more, ArgumentsIn(more, names[k]))]
  BY <1>1, <1>5, ToolBlocksIs
<1>8. /\ names # n => /\ c.tool # NoTool /\ names = Append(n, c.tool)
                      /\ \A k \in DOMAIN s : s[k].tool # c.tool
  <2>1. CallsNext(s, n, c, more)
    BY <1>1, CallsMore
  <2>2. QED
    BY <2>1 DEF CallsNext
<1>9. Len(n) \in Nat
  BY <1>1, LenIs
<1> HIDE DEF names, u, l
<1>10. ASSUME NEW k \in 1..Len(names)
       PROVE  Numbers(s, ArgumentsIn(s, names[k])) = PiecesOf(t, k)
  <2>1. CASE k \in 1..Len(n)
    <3>1. names[k] = n[k]
      <4>1. CASE names = n
        BY <4>1
      <4>2. CASE names # n
        BY <1>1, <1>8, <2>1, <4>2, AppendAdds DEF Adds
      <4>3. QED
        BY <4>1, <4>2
    <3>2. k <= Len(t)
      BY <1>6, <1>9, <2>1
    <3> DEFINE p == Numbers(s, ArgumentsIn(s, n[k]))
    <3>3. t[k] = [type |-> "tool_use", pieces |-> p]
      BY <1>6, <2>1
    <3> HIDE DEF p
    <3>4. t[k].pieces = p
      BY <3>3
    <3>5. QED
      BY <3>1, <3>2, <3>4 DEF PiecesOf, p
  <2>2. CASE k \notin 1..Len(n)
    <3>1. names # n
      BY <2>2
    <3>2. Len(names) = Len(n) + 1 /\ names[Len(n) + 1] = c.tool
      BY <1>1, <1>8, <3>1, AppendAdds DEF Adds
    <3>3. k = Len(n) + 1
      BY <1>9, <2>2, <3>2
    <3>4. names[k] = c.tool /\ ~(k <= Len(t))
      BY <1>6, <1>9, <3>2, <3>3
    <3>5. \A h \in DOMAIN s : h \notin ArgumentsIn(s, c.tool)
      BY <1>8, <3>1 DEF ArgumentsIn
    <3>6. Numbers(s, ArgumentsIn(s, c.tool)) = <<>>
      BY <1>1, <3>5, NumbersNone
    <3>7. QED
      BY <3>4, <3>6 DEF PiecesOf
  <2>3. QED
    BY <2>1, <2>2
<1>11. ASSUME NEW k \in 1..Len(names)
       PROVE  Numbers(more, ArgumentsIn(more, names[k]))
                  = IF c.args /\ c.tool = names[k] THEN Append(PiecesOf(t, k), piece)
                    ELSE PiecesOf(t, k)
  <2> DEFINE ks == ArgumentsIn(s, names[k])
             js == ArgumentsIn(more, names[k])
  <2>1. /\ \A h \in DOMAIN s : h \in js <=> h \in ks
        /\ Len(more) \in js <=> c.args /\ c.tool = names[k]
    BY <1>2 DEF ArgumentsIn
  <2>2. NumbersNext(s, more, ks, js)
    <3> HIDE DEF js, ks
    <3>1. QED
      BY <1>1, <2>1, NumbersMore
  <2>3. Numbers(s, ks) = PiecesOf(t, k)
    BY <1>10
  <2>4. QED
    BY <2>1, <2>2, <2>3 DEF NumbersNext
<1>12. Argues(n, t, c, piece, u)
  <2>1. ASSUME NEW k \in 1..Len(u)
        PROVE  u[k] = [type |-> "tool_use",
                       pieces |-> IF c.args /\ c.tool = names[k]
                                  THEN Append(PiecesOf(t, k), piece) ELSE PiecesOf(t, k)]
    BY <1>7, <1>11
  <2>2. QED
    BY <1>7, <2>1 DEF Argues, names
<1>13. SaidBy(more, WithReasoning(r, c, piece), WithText(x, c, piece), names, u)
  BY <1>1, <1>3, <1>4, <1>5 DEF SaidBy, u
<1>14. QED
  BY <1>12, <1>13 DEF names, u

-----------------------------------------------------------------------------
LEMMA StartedSays ==
    ASSUME NEW w, Tracks(w), NEW r, NEW x, NEW n, NEW t, Says(w, r, x, n, t), NEW v, v = Started(w)
    PROVE  Says(v, r, x, n, t)
<1>1. Tells(v.events, Whole(r, x, t))
  BY StartedTells DEF Says
<1>2. Same(w, v) /\ v.type = w.type /\ v.index = w.index
  BY StartedIs
<1>3. QED
  BY <1>1, <1>2 DEF Says, Same

(* What there is of a part was in some chunk. *)
LEMMA SaidIn ==
    ASSUME NEW s, NEW r, NEW x, NEW n, NEW t, SaidBy(s, r, x, n, t)
    PROVE  /\ x # <<>> => \E k \in DOMAIN s : s[k].text = "some"
           /\ n # <<>> => \E k \in DOMAIN s : s[k].tool # NoTool
<1>1. IsSeq(s) /\ Names(s, n) /\ x = Numbers(s, TextIn(s))
  BY DEF SaidBy
<1>2. ASSUME \A k \in DOMAIN s : s[k].text # "some" PROVE x = <<>>
  <2>1. \A k \in DOMAIN s : k \notin TextIn(s)
    BY <1>2 DEF TextIn
  <2> DEFINE ks == TextIn(s)
  <2>2. \A k \in DOMAIN s : k \notin ks
    BY <2>1
  <2> HIDE DEF ks
  <2>3. Numbers(s, ks) = <<>>
    BY <1>1, <2>2, NumbersNone
  <2>4. QED
    BY <1>1, <2>3 DEF ks
<1>3. ASSUME n # <<>> PROVE \E k \in DOMAIN s : s[k].tool # NoTool
  <2>1. Len(n) \in Nat /\ Len(n) # 0
    BY <1>1, <1>3, LenIs DEF Names
  <2>2. 1 \in 1..Len(n)
    BY <2>1
  <2>3. QED
    BY <1>1, <2>2 DEF Names
<1>4. QED
  BY <1>2, <1>3

(* The chunk that comes next while the parts are in order. *)
Ordered(c, x, n) ==
    /\ c.reasoning => x = <<>> /\ n = <<>>
    /\ c.text # "none" /\ (x # <<>> \/ c.text = "some") => n = <<>>

LEMMA NextInOrder ==
    ASSUME NEW s, NEW r, NEW x, NEW n, NEW t, SaidBy(s, r, x, n, t),
           NEW c, NEW more, more = Append(s, c), PartsInOrder(more)
    PROVE  Ordered(c, x, n)
<1>1. /\ Len(s) \in Nat /\ DOMAIN s = 1..Len(s) /\ DOMAIN more = 1..(Len(s) + 1)
      /\ more[Len(s) + 1] = c /\ \A k \in 1..Len(s) : more[k] = s[k]
  BY AppendAdds DEF Adds, SaidBy
<1> DEFINE j == Len(s) + 1
<1>2. j \in DOMAIN more /\ 1..(j - 1) = DOMAIN s /\ j \in 1..j /\ \A k \in DOMAIN s : k \in 1..j
  BY <1>1
<1>3. more[j] = c /\ \A k \in DOMAIN s : more[k] = s[k]
  BY <1>1
<1> HIDE DEF j
<1>4. \A i \in DOMAIN s :
        /\ c.reasoning => s[i].text # "some" /\ s[i].tool = NoTool
        /\ c.text # "none" /\ (\E h \in 1..j : more[h].text = "some") => s[i].tool = NoTool
  BY <1>2, <1>3 DEF PartsInOrder
<1>5. /\ x # <<>> => \E k \in DOMAIN s : s[k].text = "some"
      /\ n # <<>> => \E k \in DOMAIN s : s[k].tool # NoTool
  BY SaidIn
<1>6. x # <<>> \/ c.text = "some" => \E h \in 1..j : more[h].text = "some"
  BY <1>2, <1>3, <1>5
<1>7. QED
  BY <1>4, <1>5, <1>6 DEF Ordered

LEMMA NoTools ==
    ASSUME NEW n, NEW t, Lists(n, t), n = <<>>
    PROVE  t = <<>>
<1>1. Len(t) = 0
  BY EmptyIs DEF Lists
<1>2. QED
  BY <1>1, LenIs DEF Lists

(* A chunk is told as the upstream said it. *)
LEMMA ChunkSays ==
    ASSUME NEW w, Tracks(w),
           NEW s, NEW r, NEW x, NEW n, NEW t, Says(w, r, x, n, t), SaidBy(s, r, x, n, t),
           NEW c \in Chunk, NEW more, more = Append(s, c), PartsInOrder(more),
           NEW piece, piece = Len(more), NEW v, v = AfterChunk(w, c, piece)
    PROVE  Says(v, WithReasoning(r, c, piece), WithText(x, c, piece), Called(n, c),
                ToolBlocks(more))
<1> DEFINE first == Started(w)
           a == AfterReasoning(first, c, piece)
           b == AfterText(a, c, piece)
           rr == WithReasoning(r, c, piece)
           xx == WithText(x, c, piece)
<1>1. /\ c.reasoning => x = <<>> /\ n = <<>>
      /\ c.text # "none" /\ (x # <<>> \/ c.text = "some") => n = <<>>
  <2>1. Ordered(c, x, n)
    BY NextInOrder
  <2>2. QED
    BY <2>1 DEF Ordered
<1>2. n = <<>> => t = <<>>
  BY NoTools DEF Says
<1>3. c.text \in {"none", "empty", "some"} /\ (c.args => c.tool # NoTool)
  BY DEF Chunk
<1>4. piece # Empty
  <2>1. Len(s) \in Nat /\ Len(more) = Len(s) + 1
    BY AppendAdds DEF Adds, SaidBy
  <2>2. QED
    BY <2>1 DEF Empty
<1>5. v = AfterTool(b, c, piece)
  <2>1. c.reasoning => ~w.text
    BY <1>1 DEF Says
  <2>2. QED
    BY <2>1 DEF AfterChunk
<1>6. Says(first, r, x, n, t) /\ Runs(first)
  BY StartedSays, StartedIs
<1>7. Says(a, rr, x, n, t) /\ Runs(a)
  <2>1. a = AfterReasoning(first, c, piece)
    OBVIOUS
  <2> HIDE DEF a, first, b
  <2>2. Runs(a)
    BY <1>6, <2>1, AfterReasoningIs
  <2>3. CASE c.reasoning /\ exposeThinking
    <3>1. Says(first, r, <<>>, <<>>, <<>>)
      BY <1>1, <1>2, <1>6, <2>3
    <3>2. Says(a, Append(r, piece), <<>>, <<>>, <<>>)
      BY <1>4, <1>6, <2>1, <2>3, <3>1, SaysReasoning
    <3>3. rr = Append(r, piece)
      BY <2>3 DEF WithReasoning
    <3>4. QED
      BY <1>1, <1>2, <2>2, <2>3, <3>2, <3>3
  <2>4. CASE ~(c.reasoning /\ exposeThinking)
    <3>1. a = first
      BY <2>1, <2>4 DEF AfterReasoning
    <3>2. rr = r
      BY <2>4 DEF WithReasoning
    <3>3. QED
      BY <1>6, <3>1, <3>2
  <2>5. QED
    BY <2>3, <2>4
<1>8. Says(b, rr, xx, n, t) /\ Runs(b)
  <2>1. b = AfterText(a, c, piece)
    OBVIOUS
  <2> HIDE DEF a, first, b, rr
  <2>2. Runs(b)
    BY <1>3, <1>7, <2>1, AfterTextIs
  <2>3. CASE c.text # "none" /\ (x # <<>> \/ c.text = "some")
    <3>1. n = <<>> /\ t = <<>>
      BY <1>1, <1>2, <2>3
    <3>2. Says(a, rr, x, <<>>, <<>>)
      BY <1>7, <3>1
    <3>3. /\ c.text = "some" => Says(b, rr, Append(x, piece), <<>>, <<>>)
          /\ c.text # "some" => Says(b, rr, x, <<>>, <<>>)
      BY <1>3, <1>4, <1>7, <2>1, <3>2, SaysText
    <3>4. Says(b, rr, xx, <<>>, <<>>)
      BY <3>3 DEF WithText
    <3>5. QED
      BY <2>2, <3>1, <3>4
  <2>4. CASE ~(c.text # "none" /\ (x # <<>> \/ c.text = "some"))
    <3>1. a.text = (x # <<>>)
      BY <1>7 DEF Says
    <3>2. b = a
      BY <1>3, <2>1, <2>4, <3>1 DEF AfterText
    <3>3. xx = x
      BY <2>4 DEF WithText
    <3>4. QED
      BY <1>7, <3>2, <3>3
  <2>5. QED
    BY <2>3, <2>4
<1> HIDE DEF first, a, b, rr, xx
<1>9. \A k \in 1..Len(n) : n[k] # NoTool
  BY DEF SaidBy, Names
<1>10. Argues(n, t, c, piece, ToolBlocks(more))
  BY SaidMore
<1>11. Says(v, rr, xx, Called(n, c), ToolBlocks(more))
  BY <1>3, <1>4, <1>5, <1>8, <1>9, <1>10, SaysTool
<1>12. QED
  BY <1>11 DEF rr, xx

-----------------------------------------------------------------------------
(* The end of a message, and what is logged of it. *)

Complete(events) == events # <<>> /\ events[Len(events)].event = "message_stop"

LEMMA TracksIncomplete == ASSUME NEW w, Tracks(w) PROVE ~Complete(w.events)
<1>1. IsSeq(w.events) /\ \A k \in DOMAIN w.events : w.events[k].event # "message_stop"
  BY DEF Tracks, Streaming, GoesOn
<1>2. w.events # <<>> => Len(w.events) \in DOMAIN w.events
  BY <1>1, LenIs
<1>3. QED
  BY <1>1, <1>2 DEF Complete

LEMMA CutIncomplete ==
    ASSUME NEW w, Sound(w), IsSeq(writer.events), CutShort(w)
    PROVE  ~Complete(writer'.events)
<1>1. PICK n \in Len(writer.events) + 1 .. Len(w.events) - 1 :
          Close([w EXCEPT !.events = SubSeq(@, 1, n)])
  BY DEF CutShort
<1>2. Len(writer.events) \in Nat /\ Len(w.events) \in Nat /\ DOMAIN w.events = 1..Len(w.events)
  BY LenIs DEF Sound
<1>3. n \in 0..Len(w.events) /\ n \in 1..n /\ n \in DOMAIN w.events /\ n # Len(w.events)
  BY <1>2
<1> DEFINE x == [w EXCEPT !.events = SubSeq(@, 1, n)]
<1>4. x.events = SubSeq(w.events, 1, n)
  BY DEF Sound, IsWriter
<1>5. writer' = x
  BY <1>1 DEF Close
<1> HIDE DEF x
<1>6. Len(x.events) = n /\ x.events[n] = w.events[n]
  BY <1>3, <1>4, BeginningIs DEF Sound
<1>7. w.events[n].event # "message_stop"
  BY <1>3 DEF Sound, WellFormed
<1>8. QED
  BY <1>5, <1>6, <1>7 DEF Complete

Log(content, stop) == [kind |-> "message", content |-> content, stop |-> stop]

LEMMA FinishedSays ==
    ASSUME NEW w, Runs(w), NEW content, Tells(w.events, content), NEW stop,
           NEW v, v = Finished(w, stop)
    PROVE  NonStream(v.events) = Log(content, stop)
<1> DEFINE u == Emit(w, "message_delta", NoIndex, stop, Empty)
<1>1. v = Emit(u, "message_stop", NoIndex, "none", Empty)
  BY DEF Finished
<1>2. u = Emit(w, "message_delta", NoIndex, stop, Empty)
  OBVIOUS
<1> HIDE DEF u
<1>3. IsWriter(w) /\ IsSeq(w.events)
  BY RunsIs
<1>4. IsWriter(u) /\ Tells(u.events, content)
  BY <1>2, <1>3, EmitIs, QuietTells
<1>5. Tells(v.events, content)
  BY <1>1, <1>4, QuietTells
<1> DEFINE d == EventOf("message_delta", NoIndex, stop, Empty)
           e == EventOf("message_stop", NoIndex, "none", Empty)
<1>6. u.events = Append(w.events, d) /\ v.events = Append(u.events, e)
  BY <1>1, <1>2, <1>3, <1>4, EmitAdds
<1>7. d.event = "message_delta" /\ d.type = stop /\ e.event = "message_stop"
  BY DEF EventOf
<1> HIDE DEF d, e
<1> DEFINE k == Len(w.events)
<1>8. Adds(w.events, u.events, d) /\ IsSeq(u.events)
  BY <1>3, <1>6, AppendAdds
<1>9. Adds(u.events, v.events, e)
  BY <1>6, <1>8, AppendAdds
<1>10. /\ k \in Nat /\ DOMAIN w.events = 1..k /\ DOMAIN v.events = 1..(k + 2)
       /\ v.events[k + 1] = d /\ v.events[k + 2] = e
       /\ \A j \in 1..k : v.events[j] = w.events[j]
  BY <1>8, <1>9 DEF Adds
<1>11. \A j \in 1..k : w.events[j].event # "message_delta"
  BY <1>10 DEF Runs, Tracks, Streaming, GoesOn
<1> HIDE DEF k
<1> DEFINE ends == {j \in DOMAIN v.events : v.events[j].event = "message_delta"}
<1>12. ends = {k + 1}
  <2>1. \A j \in 1..(k + 2) : j \in 1..k \/ j = k + 1 \/ j = k + 2
    BY <1>10
  <2>2. k + 1 \in 1..(k + 2)
    BY <1>10
  <2>3. \A j \in ends : j = k + 1
    BY <1>7, <1>10, <1>11, <2>1
  <2>4. k + 1 \in ends
    BY <1>7, <1>10, <2>2
  <2>5. QED
    BY <2>3, <2>4
<1>13. StopOf(v.events) = IF ends = {} THEN "none" ELSE v.events[CHOOSE j \in ends : TRUE].type
  BY DEF StopOf
<1> HIDE DEF ends
<1>14. (CHOOSE j \in ends : TRUE) = k + 1 /\ ends # {}
  BY <1>12
<1>15. StopOf(v.events) = stop
  BY <1>7, <1>10, <1>13, <1>14
<1>16. Content(v.events) = content
  BY <1>5, ContentTold
<1>17. QED
  BY <1>15, <1>16 DEF NonStream, Log

-----------------------------------------------------------------------------
(* A collected response is told as it was said. *)

LEMMA WholeBlockTells ==
    ASSUME NEW w, Runs(w), w.type = "none", NEW content, Tells(w.events, content),
           NEW type, type # "none", NEW index, index = Len(content), NEW piece, piece # Empty,
           NEW open, open = StartBlock(w, type, index),
           NEW v, v = Stopped(Delta(open, type, piece))
    PROVE  /\ Runs(v) /\ v.type = "none"
           /\ Tells(v.events, Append(content, [type |-> type, pieces |-> Append(<<>>, piece)]))
<1> DEFINE written == Emit(open, "content_block_delta", open.index, type, piece)
<1>1. v = Stopped(written)
  BY DEF Delta
<1>2. written = Emit(open, "content_block_delta", open.index, type, piece)
  OBVIOUS
<1> HIDE DEF written
<1>3. Runs(open) /\ open.index = index
  BY StartBlockIs
<1>4. IsWriter(w) /\ IsWriter(open)
  BY <1>3, RunsIs
<1>5. Tells(open.events, Append(content, [type |-> type, pieces |-> <<>>]))
  BY <1>4, StartBlockTells
<1>6. Runs(written)
  BY <1>2, <1>3, DeltaIs
<1>7. IsSeq(content)
  BY DEF Tells
<1>8. Tells(written.events, Append(content, [type |-> type, pieces |-> Append(<<>>, piece)]))
  BY <1>2, <1>3, <1>4, <1>5, <1>7, FirstPiece
<1>9. IsWriter(written)
  BY <1>6, RunsIs
<1>10. Tells(v.events, Append(content, [type |-> type, pieces |-> Append(<<>>, piece)]))
  BY <1>1, <1>8, <1>9, StoppedTells
<1>11. QED
  BY <1>1, <1>6, <1>10, StoppedIs

(* The chunks that a collected response stands for. *)
TextChunk == [Silent EXCEPT !.text = "some"]
CallChunk(tool) == [Silent EXCEPT !.tool = tool, !.args = TRUE]
Opening(text) == IF text THEN <<TextChunk>> ELSE <<>>
Asked(text, tools, k) == Opening(text) \o [j \in 1..k |-> CallChunk(tools[j])]

LEMMA ChunksAre ==
    /\ TextChunk.reasoning = FALSE /\ TextChunk.text = "some" /\ TextChunk.tool = NoTool
    /\ TextChunk.args = FALSE
    /\ \A tool : /\ CallChunk(tool).reasoning = FALSE /\ CallChunk(tool).text = "none"
                 /\ CallChunk(tool).tool = tool /\ CallChunk(tool).args = TRUE
BY DEF TextChunk, CallChunk, Silent

LEMMA HeadIs ==
    ASSUME NEW text \in BOOLEAN
    PROVE  /\ IsSeq(Opening(text)) /\ Len(Opening(text)) = One(text)
           /\ text => Opening(text) = Append(<<>>, TextChunk)
           /\ ~text => Opening(text) = <<>>
<1>1. CASE text
  <2>1. Opening(text) = <<TextChunk>>
    BY <1>1 DEF Opening
  <2>2. <<TextChunk>> \in Seq({TextChunk}) /\ Len(<<TextChunk>>) = 1 /\ <<TextChunk>>[1] = TextChunk
    OBVIOUS
  <2>3. IsSeq(Opening(text))
    BY <2>1, <2>2 DEF IsSeq
  <2>4. \A k \in 1..0 : FALSE
    OBVIOUS
  <2>5. <<TextChunk>> = Append(<<>>, TextChunk)
    <3> DEFINE s == <<TextChunk>>
    <3>1. IsSeq(s) /\ Len(s) = Len(<<>>) + 1 /\ s[Len(<<>>) + 1] = TextChunk /\ IsSeq(<<>>)
          /\ \A k \in 1..Len(<<>>) : s[k] = <<>>[k]
      BY <2>1, <2>2, <2>3, EmptyIs
    <3> HIDE DEF s
    <3>2. s = Append(<<>>, TextChunk)
      BY <3>1, AppendLast
    <3>3. QED
      BY <3>2 DEF s
  <2>6. QED
    BY <1>1, <2>1, <2>2, <2>3, <2>5 DEF One
<1>2. CASE ~text
  BY <1>2, EmptyIs DEF Opening, One
<1>3. QED
  BY <1>1, <1>2

LEMMA AskedIs ==
    ASSUME NEW text \in BOOLEAN, NEW tools, NEW k \in Nat
    PROVE  /\ IsSeq(Asked(text, tools, k)) /\ Len(Asked(text, tools, k)) = One(text) + k
           /\ k = 0 => Asked(text, tools, k) = Opening(text)
           /\ k # 0 => Asked(text, tools, k)
                           = Append(Asked(text, tools, k - 1), CallChunk(tools[k]))
<1> DEFINE calls(m) == [j \in 1..m |-> CallChunk(tools[j])]
           h == Opening(text)
<1>1. ASSUME NEW m \in Nat
      PROVE  Joins(h, calls(m), Asked(text, tools, m)) /\ Len(calls(m)) = m
  <2> DEFINE f == calls(m)
  <2>1. f = [j \in 1..m |-> f[j]]
    OBVIOUS
  <2>2. IsSeq(h) /\ Asked(text, tools, m) = h \o f
    BY HeadIs DEF Asked
  <2> HIDE DEF f, h
  <2>3. IsSeq(f) /\ Len(f) = m
    BY <2>1, FunctionIsSeq
  <2>4. Joins(h, f, h \o f)
    BY <2>2, <2>3, JoinIs
  <2>5. QED
    BY <2>2, <2>3, <2>4 DEF f
<1>2. IsSeq(h) /\ Len(h) = One(text) /\ One(text) \in Nat
  BY HeadIs DEF One
<1>3. \A m \in Nat : \A j \in 1..m : calls(m)[j] = CallChunk(tools[j])
  OBVIOUS
<1> HIDE DEF calls, h
<1> DEFINE p(m) == Asked(text, tools, m)
<1>4. ASSUME NEW m \in Nat
      PROVE  /\ IsSeq(p(m)) /\ Len(p(m)) = One(text) + m
             /\ \A j \in 1..One(text) : p(m)[j] = h[j]
             /\ \A j \in 1..m : p(m)[One(text) + j] = CallChunk(tools[j])
  BY <1>1, <1>2, <1>3 DEF Joins
<1> HIDE DEF p
<1>5. ASSUME k = 0 PROVE p(k) = h
  <2>1. IsSeq(p(k)) /\ Len(p(k)) = Len(h) /\ \A j \in 1..Len(h) : p(k)[j] = h[j]
    BY <1>2, <1>4, <1>5
  <2> DEFINE s == p(k)
  <2>2. IsSeq(s) /\ Len(s) = Len(h) /\ \A j \in 1..Len(s) : s[j] = h[j]
    BY <2>1
  <2> HIDE DEF s
  <2>3. s = h
    BY <1>2, <2>2, SeqsEqual
  <2>4. QED
    BY <2>3 DEF s
<1>6. ASSUME k # 0 PROVE p(k) = Append(p(k - 1), CallChunk(tools[k]))
  <2> DEFINE l == k - 1
             a == One(text)
             s == p(l)
             t == p(k)
             c == CallChunk(tools[k])
  <2>1. l \in Nat /\ k = l + 1 /\ a \in Nat
    BY <1>2, <1>6
  <2>2. /\ IsSeq(s) /\ Len(s) = a + l /\ IsSeq(t) /\ Len(t) = a + k
        /\ \A j \in 1..a : s[j] = t[j]
        /\ \A j \in 1..l : s[a + j] = t[a + j]
        /\ t[a + k] = c
    <3>1. \A j \in 1..l : j \in 1..k
      BY <2>1
    <3>2. k \in 1..k
      BY <1>6
    <3>3. /\ IsSeq(s) /\ Len(s) = a + l /\ \A j \in 1..a : s[j] = h[j]
          /\ \A j \in 1..l : s[a + j] = CallChunk(tools[j])
      BY <1>4, <2>1
    <3>4. /\ IsSeq(t) /\ Len(t) = a + k /\ \A j \in 1..a : t[j] = h[j]
          /\ \A j \in 1..k : t[a + j] = CallChunk(tools[j])
      BY <1>4
    <3> HIDE DEF a, s, t, l
    <3>5. QED
      BY <3>1, <3>2, <3>3, <3>4 DEF c
  <2> HIDE DEF l, a, s, t, c
  <2>3. Len(t) = Len(s) + 1 /\ t[Len(s) + 1] = c
    <3>1. a + k = a + l + 1
      BY <2>1
    <3>2. QED
      BY <2>2, <3>1
  <2>4. \A i \in 1..(a + l) : i \in 1..a \/ (i - a \in 1..l /\ a + (i - a) = i)
    BY <2>1
  <2>5. \A i \in 1..Len(s) : t[i] = s[i]
    BY <2>2, <2>4
  <2>6. t = Append(s, c)
    BY <2>2, <2>3, <2>5, AppendLast
  <2>7. QED
    BY <2>6 DEF l, s, t, c
<1>7. QED
  BY <1>4, <1>5, <1>6 DEF p, h

(* The writer has told the chunks s: text in a blocks, and the first k tools. *)
Retells(w, s, a, k, tools) ==
    /\ Runs(w) /\ w.type = "none"
    /\ \E x, n, t : /\ SaidBy(s, <<>>, x, n, t) /\ Tells(w.events, Whole(<<>>, x, t))
                    /\ Some(x) = a /\ IsSeq(t) /\ Len(t) = k /\ Len(n) = k
                    /\ \A j \in 1..k : n[j] = tools[j]

LEMMA NothingArgued ==
    ASSUME NEW c, c.tool = NoTool, NEW piece, NEW more, Argues(<<>>, <<>>, c, piece, more)
    PROVE  Called(<<>>, c) = <<>> /\ more = <<>>
<1>1. Called(<<>>, c) = <<>>
  BY DEF Called
<1>2. Len(more) = 0 /\ IsSeq(more)
  BY <1>1, EmptyIs DEF Argues
<1>3. QED
  BY <1>1, <1>2, LenIs

LEMMA TextRetold ==
    ASSUME NEW w, Runs(w), w.type = "none", Tells(w.events, <<>>), NEW text \in BOOLEAN, NEW tools,
           NEW open, open = StartBlock(w, "text", 0),
           NEW v, v = IF text THEN Stopped(Delta(open, "text", 1)) ELSE w
    PROVE  Retells(v, Opening(text), One(text), 0, tools)
<1>1. 1..0 = {} /\ IsSeq(<<>>) /\ Len(<<>>) = 0
  BY EmptyIs
<1>2. CASE ~text
  <2>1. Opening(text) = <<>> /\ One(text) = 0 /\ v = w
    BY <1>2, HeadIs DEF One
  <2>2. Some(<<>>) = 0
    BY SomeIs
  <2>3. SaidBy(<<>>, <<>>, <<>>, <<>>, <<>>) /\ Tells(w.events, Whole(<<>>, <<>>, <<>>))
    BY SaidNothing, WholeOfNothing
  <2>4. Retells(w, <<>>, 0, 0, tools)
    BY <1>1, <2>2, <2>3 DEF Retells
  <2>5. QED
    BY <2>1, <2>4
<1>3. CASE text
  <2> DEFINE c == TextChunk
             s == Append(<<>>, c)
             x == Append(<<>>, 1)
             u == ToolBlocks(s)
  <2>1. Opening(text) = s /\ One(text) = 1 /\ v = Stopped(Delta(open, "text", 1))
    BY <1>3, HeadIs DEF One
  <2>2. c.reasoning = FALSE /\ c.text = "some" /\ c.tool = NoTool
    BY ChunksAre
  <2>3. Len(s) = 1
    BY <1>1, AppendAdds DEF Adds
  <2>4. s = Append(<<>>, c) /\ u = ToolBlocks(s) /\ x = Append(<<>>, 1)
    OBVIOUS
  <2> HIDE DEF c, s, u, x
  <2>5. /\ SaidBy(s, WithReasoning(<<>>, c, 1), WithText(<<>>, c, 1), Called(<<>>, c), u)
        /\ Argues(<<>>, <<>>, c, 1, u)
    BY <2>3, <2>4, SaidNothing, SaidMore
  <2>6. WithReasoning(<<>>, c, 1) = <<>>
    BY <2>2 DEF WithReasoning
  <2>7. WithText(<<>>, c, 1) = x
    BY <2>2, <2>4 DEF WithText
  <2>8. Called(<<>>, c) = <<>> /\ u = <<>>
    BY <2>2, <2>5, NothingArgued
  <2>9. SaidBy(s, <<>>, x, <<>>, <<>>)
    BY <2>5, <2>6, <2>7, <2>8
  <2> DEFINE b == [type |-> "text", pieces |-> x]
  <2>10. Runs(v) /\ v.type = "none" /\ Tells(v.events, Append(<<>>, b))
    <3> DEFINE nothing == <<>>
               type == "text"
               piece == 1
    <3>1. /\ piece # Empty /\ type # "none" /\ 0 = Len(nothing) /\ Tells(w.events, nothing)
          /\ open = StartBlock(w, type, 0) /\ v = Stopped(Delta(open, type, piece))
      BY <1>1, <2>1 DEF Empty
    <3> HIDE DEF nothing, type, piece
    <3>2. /\ Runs(v) /\ v.type = "none"
          /\ Tells(v.events, Append(nothing, [type |-> type, pieces |-> Append(<<>>, piece)]))
      BY <3>1, WholeBlockTells
    <3>3. QED
      BY <2>4, <3>2 DEF nothing, type, piece
  <2>11. Whole(<<>>, x, <<>>) = Append(<<>>, b)
    <3>1. Whole(<<>>, Append(<<>>, 1), <<>>)
              = Append(Whole(<<>>, <<>>, <<>>), [type |-> "text", pieces |-> Append(<<>>, 1)])
      BY TextAdded
    <3>2. QED
      BY <2>4, <3>1, WholeOfNothing
  <2> HIDE DEF b
  <2>12. Some(x) = 1
    BY <1>1, <2>4, AppendIs
  <2>13. Tells(v.events, Whole(<<>>, x, <<>>))
    BY <2>10, <2>11
  <2>14. Retells(v, s, 1, 0, tools)
    BY <1>1, <2>9, <2>10, <2>12, <2>13 DEF Retells
  <2>15. QED
    BY <2>1, <2>14
<1>4. QED
  BY <1>2, <1>3

LEMMA CallRetold ==
    ASSUME NEW w, NEW s, NEW a \in Nat, NEW k \in Nat, NEW tools, Retells(w, s, a, k, tools),
           NEW tool, tool # NoTool, \A j \in 1..k : tools[j] # tool, tools[k + 1] = tool,
           Len(s) = a + k, NEW v, v = WholeTool(w, a + k, a + k + 1),
           NEW more, more = Append(s, CallChunk(tool))
    PROVE  Retells(v, more, a, k + 1, tools)
<1>1. PICK x, n, t : /\ SaidBy(s, <<>>, x, n, t) /\ Tells(w.events, Whole(<<>>, x, t))
                     /\ Some(x) = a /\ IsSeq(t) /\ Len(t) = k /\ Len(n) = k
                     /\ \A j \in 1..k : n[j] = tools[j]
  BY DEF Retells
<1> DEFINE c == CallChunk(tool)
           piece == a + k + 1
           u == ToolBlocks(more)
           b == [type |-> "tool_use", pieces |-> Append(<<>>, piece)]
<1>2. c.reasoning = FALSE /\ c.text = "none" /\ c.tool = tool /\ c.args = TRUE
  BY ChunksAre
<1>3. IsSeq(s) /\ IsSeq(n)
  BY <1>1 DEF SaidBy, Names
<1>4. Len(more) = piece /\ more = Append(s, c) /\ u = ToolBlocks(more)
  BY <1>3, AppendAdds DEF Adds
<1>5. b = [type |-> "tool_use", pieces |-> Append(<<>>, piece)] /\ piece \in Nat /\ piece # Empty
  BY DEF Empty
<1> HIDE DEF c, u, b
<1>6. /\ SaidBy(more, WithReasoning(<<>>, c, piece), WithText(x, c, piece), Called(n, c), u)
      /\ Argues(n, t, c, piece, u)
  <2> HIDE DEF piece
  <2>1. piece = Len(more)
    BY <1>4
  <2>2. QED
    BY <1>1, <1>4, <2>1, SaidMore
<1>7. WithReasoning(<<>>, c, piece) = <<>> /\ WithText(x, c, piece) = x
  BY <1>2 DEF WithReasoning, WithText
<1> DEFINE names == Append(n, tool)
<1>8. Called(n, c) = names
  BY <1>1, <1>2 DEF Called
<1>9. /\ IsSeq(names) /\ Len(names) = k + 1 /\ names[k + 1] = tool
      /\ \A j \in 1..k : names[j] = n[j]
  BY <1>1, <1>3, AppendAdds DEF Adds
<1> HIDE DEF names
<1>10. \A j \in 1..(k + 1) : j \in 1..k \/ j = k + 1
  OBVIOUS
<1>11. \A j \in 1..(k + 1) : names[j] = tools[j]
  BY <1>1, <1>9, <1>10
<1>12. IsSeq(u) /\ Len(u) = k + 1
       /\ \A j \in 1..(k + 1) :
              u[j] = [type |-> "tool_use",
                      pieces |-> IF tool = names[j] THEN Append(PiecesOf(t, j), piece)
                                 ELSE PiecesOf(t, j)]
  BY <1>2, <1>6, <1>8, <1>9 DEF Argues
<1>13. u = Append(t, b)
  <2>1. u[k + 1] = b
    <3>1. k + 1 \in 1..(k + 1) /\ PiecesOf(t, k + 1) = <<>>
      BY <1>1 DEF PiecesOf
    <3>2. QED
      BY <1>5, <1>9, <1>12, <3>1
  <2>2. ASSUME NEW j \in 1..k PROVE u[j] = t[j]
    <3>1. j \in 1..(k + 1)
      OBVIOUS
    <3>2. names[j] = tools[j] /\ tools[j] # tool
      BY <1>11, <3>1
    <3>3. tool # names[j] /\ j \in 1..(k + 1)
      BY <3>1, <3>2
    <3>4. PiecesOf(t, j) = t[j].pieces
      BY <1>1 DEF PiecesOf
    <3> DEFINE p == t[j].pieces
    <3>5. t[j] = [type |-> "tool_use", pieces |-> p]
      <4>1. /\ Len(ToolBlocks(s)) = Len(n)
            /\ \A i \in 1..Len(n) :
                  ToolBlocks(s)[i] = [type |-> "tool_use",
                                      pieces |-> Numbers(s, ArgumentsIn(s, n[i]))]
        BY <1>1, <1>3, ToolBlocksIs DEF SaidBy
      <4>2. t = ToolBlocks(s) /\ j \in 1..Len(n)
        BY <1>1 DEF SaidBy
      <4> DEFINE q == Numbers(s, ArgumentsIn(s, n[j]))
      <4>3. t[j] = [type |-> "tool_use", pieces |-> q]
        BY <4>1, <4>2
      <4> HIDE DEF q
      <4>4. QED
        BY <4>3
    <3> HIDE DEF p
    <3>6. u[j] = [type |-> "tool_use", pieces |-> p]
      BY <1>12, <3>3, <3>4 DEF p
    <3>7. QED
      BY <3>5, <3>6
  <2>3. Len(u) = Len(t) + 1 /\ u[Len(t) + 1] = b /\ \A j \in 1..Len(t) : u[j] = t[j]
    BY <1>1, <1>12, <2>1, <2>2
  <2>4. QED
    BY <1>1, <1>12, <2>3, AppendLast
<1>14. Whole(<<>>, x, u) = Append(Whole(<<>>, x, t), b)
  <2>1. Whole(<<>>, x, Append(t, b)) = Append(Whole(<<>>, x, t), b)
    BY <1>1, CallAdded
  <2>2. QED
    BY <1>13, <2>1
<1>15. Len(Whole(<<>>, x, t)) = a + k
  <2>1. Lays(Whole(<<>>, x, t), <<>>, x, t)
    BY <1>1, WholeLays
  <2>2. Some(<<>>) = 0
    BY SomeIs
  <2>3. QED
    BY <1>1, <2>1, <2>2 DEF Lays
<1>16. Runs(v) /\ v.type = "none" /\ Tells(v.events, Whole(<<>>, x, u))
  <2> DEFINE open == StartBlock(w, "tool_use", a + k)
             content == Whole(<<>>, x, t)
  <2>1. v = Stopped(Delta(open, "tool_use", piece)) /\ open = StartBlock(w, "tool_use", a + k)
    BY DEF WholeTool
  <2>2. Runs(w) /\ w.type = "none"
    BY DEF Retells
  <2>3. Tells(w.events, content) /\ a + k = Len(content) /\ "tool_use" # "none"
    BY <1>1, <1>15
  <2> HIDE DEF open, content, piece
  <2>4. /\ Runs(v) /\ v.type = "none"
        /\ Tells(v.events, Append(content, [type |-> "tool_use", pieces |-> Append(<<>>, piece)]))
    BY <1>5, <2>1, <2>2, <2>3, WholeBlockTells
  <2>5. QED
    BY <1>5, <1>14, <2>4 DEF content
<1>17. SaidBy(more, <<>>, x, names, u)
  BY <1>6, <1>7, <1>8
<1>18. QED
  BY <1>1, <1>9, <1>11, <1>12, <1>16, <1>17 DEF Retells

LEMMA CallsRetold ==
    ASSUME NEW text \in BOOLEAN, NEW n \in Nat, NEW tools,
           \A j \in 1..n : tools[j] # NoTool,
           \A i, j \in 1..n : tools[i] = tools[j] => i = j,
           NEW told, Retells(told, Opening(text), One(text), 0, tools),
           NEW f, Filled(f, n, told, One(text))
    PROVE  Retells(f[n], Asked(text, tools, n), One(text), n, tools)
<1> DEFINE a == One(text)
           Good(m) == Retells(f[m], Asked(text, tools, m), a, m, tools)
           S == {m \in 0..n : ~Good(m)}
<1>1. SUFFICES ASSUME S # {} PROVE FALSE
  <2>1. n \in 0..n
    OBVIOUS
  <2>2. QED
    BY <2>1
<1>2. S \subseteq Nat /\ a \in Nat
  BY DEF One
<1>3. PICK m \in S : m \in Nat /\ \A l \in S : m <= l
  <2> HIDE DEF S
  <2>1. QED
    BY <1>1, <1>2, LeastExists
<1>4. m \in 0..n /\ ~Good(m) /\ \A l \in 0..n : ~Good(l) => m <= l
  BY <1>3
<1>5. f[m] = IF m = 0 THEN told ELSE WholeTool(f[m - 1], a + m - 1, a + m)
  BY <1>4 DEF Filled
<1> HIDE DEF S
<1>6. CASE m = 0
  <2>1. Asked(text, tools, m) = Opening(text) /\ f[m] = told
    BY <1>5, <1>6, AskedIs
  <2>2. QED
    BY <1>4, <1>6, <2>1
<1>7. CASE m # 0
  <2> DEFINE l == m - 1
  <2>1. l \in Nat /\ l \in 0..n /\ m = l + 1 /\ ~(m <= l) /\ m \in 1..n
    BY <1>4, <1>7
  <2>2. Good(l)
    BY <1>4, <2>1
  <2> DEFINE s == Asked(text, tools, l)
             more == Asked(text, tools, m)
             w == f[l]
             v == f[m]
             tool == tools[m]
  <2>3. Retells(w, s, a, l, tools)
    BY <2>2
  <2>4. v = WholeTool(w, a + l, a + l + 1)
    <3>1. a + m - 1 = a + l /\ a + m = a + l + 1
      BY <1>2, <2>1
    <3> HIDE DEF a
    <3>2. QED
      BY <1>5, <1>7, <3>1
  <2>5. more = Append(s, CallChunk(tool)) /\ Len(s) = a + l
    BY <1>3, <1>7, <2>1, AskedIs
  <2>6. tool # NoTool /\ tools[l + 1] = tool /\ \A j \in 1..l : tools[j] # tool
    <3>1. tool # NoTool /\ tools[l + 1] = tool
      BY <2>1
    <3>2. ASSUME NEW j \in 1..l PROVE tools[j] # tool
      <4>1. j \in 1..n /\ j # m
        BY <2>1
      <4>2. QED
        BY <2>1, <4>1
    <3>3. QED
      BY <3>1, <3>2
  <2>7. ~Retells(v, more, a, l + 1, tools)
    BY <1>4, <2>1
  <2> HIDE DEF l, s, more, w, v, tool, a, Good
  <2>8. QED
    BY <1>2, <2>1, <2>3, <2>4, <2>5, <2>6, <2>7, CallRetold
<1>8. QED
  BY <1>6, <1>7

(* The message of chunks that are told so. *)
LEMMA MessageIs ==
    ASSUME NEW s, NEW r, NEW x, NEW n, NEW t, SaidBy(s, r, x, n, t)
    PROVE  Message(s) = Whole(r, x, t)
BY DEF SaidBy, Message, Whole

HasCalls(s) == \E k \in DOMAIN s : s[k].tool # NoTool

LEMMA StreamedSays ==
    ASSUME Tracks(writer), writer.events = <<>>, NEW text \in BOOLEAN, NEW tools, IsSeq(tools),
           \A j \in DOMAIN tools : tools[j] # NoTool,
           \A i, j \in DOMAIN tools : tools[i] = tools[j] => i = j,
           NEW w, w = Streamed(text, tools), NEW s, s = Asked(text, tools, Len(tools))
    PROVE  NonStream(w.events) = Log(Message(s), IF HasCalls(s) THEN "tool_use" ELSE "end_turn")
<1> DEFINE start == Started(writer)
           open == StartBlock(start, "text", 0)
           told == IF text THEN Stopped(Delta(open, "text", 1)) ELSE start
           first == One(text)
           n == Len(tools)
           after == CHOOSE f : Filled(f, n, told, first)
           stop == IF tools = <<>> THEN "end_turn" ELSE "tool_use"
<1>1. w = Finished(after[n], stop)
  BY DEF Streamed, Filled
<1>2. n \in Nat /\ DOMAIN tools = 1..n /\ (tools = <<>> <=> n = 0)
  BY LenIs
<1>3. Runs(start) /\ start.type = "none" /\ Tells(start.events, <<>>)
  <2>1. Runs(start) /\ start.type = writer.type
    BY StartedIs
  <2>2. writer.type = "none"
    BY DEF Tracks
  <2>3. Tells(writer.events, <<>>)
    BY TellsNothing
  <2>4. Tells(start.events, <<>>)
    BY <2>3, StartedTells
  <2>5. QED
    BY <2>1, <2>2, <2>4
<1>4. Retells(told, Opening(text), first, 0, tools)
  <2>1. open = StartBlock(start, "text", 0)
        /\ told = IF text THEN Stopped(Delta(open, "text", 1)) ELSE start
    OBVIOUS
  <2> HIDE DEF start, open, told
  <2>2. QED
    BY <1>3, <2>1, TextRetold
<1>5. after = CHOOSE f : Filled(f, n, told, first)
  OBVIOUS
<1>6. s = Asked(text, tools, n) /\ stop = IF n = 0 THEN "end_turn" ELSE "tool_use"
  BY <1>2
<1>7. /\ \A j \in 1..n : tools[j] # NoTool
      /\ \A i, j \in 1..n : tools[i] = tools[j] => i = j
  BY <1>2
<1> HIDE DEF start, open, told, n, after, stop
<1>8. Filled(after, n, told, first)
  BY <1>2, <1>5, FilledExists
<1>9. Retells(after[n], s, first, n, tools)
  BY <1>2, <1>4, <1>6, <1>7, <1>8, CallsRetold
<1>10. PICK x, names, t : /\ SaidBy(s, <<>>, x, names, t)
                          /\ Tells(after[n].events, Whole(<<>>, x, t)) /\ Len(names) = n
  BY <1>9 DEF Retells
<1>11. Message(s) = Whole(<<>>, x, t)
  BY <1>10, MessageIs
<1>12. HasCalls(s) <=> n # 0
  <2>1. Names(s, names)
    BY <1>10 DEF SaidBy
  <2>2. ASSUME n # 0 PROVE HasCalls(s)
    <3>1. 1 \in 1..n
      BY <1>2, <2>2
    <3>2. QED
      BY <1>10, <2>1, <3>1 DEF Names, HasCalls
  <2>3. ASSUME HasCalls(s) PROVE n # 0
    <3>1. \E j \in 1..n : TRUE
      BY <1>10, <2>1, <2>3 DEF Names, HasCalls
    <3>2. QED
      BY <3>1
  <2>4. QED
    BY <2>2, <2>3
<1>13. stop = IF HasCalls(s) THEN "tool_use" ELSE "end_turn"
  BY <1>6, <1>12
<1>14. NonStream(w.events) = Log(Whole(<<>>, x, t), stop)
  <2> DEFINE last == after[n]
  <2>1. Runs(last) /\ Tells(last.events, Whole(<<>>, x, t)) /\ w = Finished(last, stop)
    BY <1>1, <1>9, <1>10 DEF Retells
  <2> HIDE DEF last
  <2>2. QED
    BY <2>1, FinishedSays
<1>15. QED
  BY <1>11, <1>13, <1>14

-----------------------------------------------------------------------------
(* What is logged of a message that was streamed to its end: the invariant *)
(* says that until then the writer's events tell the chunks sent.          *)

ReasoningOf(s, expose) == {k \in DOMAIN s : expose /\ s[k].reasoning}
MessageOf(s, expose) == Whole(Numbers(s, ReasoningOf(s, expose)), Numbers(s, TextIn(s)), ToolBlocks(s))

Heard(w, s, expose) ==
    \E r, x, n, t :
        /\ Says(w, r, x, n, t) /\ IsSeq(s) /\ Names(s, n)
        /\ r = Numbers(s, ReasoningOf(s, expose)) /\ x = Numbers(s, TextIn(s))
        /\ t = ToolBlocks(s)

StopSent(w, s, up) ==
    IF (IF up = "chat" THEN w.finish = "tool_calls" ELSE HasCalls(s)) THEN "tool_use" ELSE "end_turn"

Honest(w, s, expose, up, log) ==
    Complete(w.events) /\ PartsInOrder(s) => log = Log(MessageOf(s, expose), StopSent(w, s, up))

MInv ==
    /\ pc = "streaming" => upstream = "chat"
    /\ pc # "closed" /\ PartsInOrder(sent) => Heard(writer, sent, exposeThinking)
    /\ Honest(writer, sent, exposeThinking, upstream, logged)

LEMMA HeardIs ==
    ASSUME NEW w, NEW s
    PROVE  /\ Heard(w, s, exposeThinking) =>
                 \E r, x, n, t : Says(w, r, x, n, t) /\ SaidBy(s, r, x, n, t)
           /\ \A r, x, n, t : Says(w, r, x, n, t) /\ SaidBy(s, r, x, n, t) =>
                 Heard(w, s, exposeThinking)
BY DEF Heard, SaidBy, ReasoningOf, ReasoningIn

LEMMA MessageOfIs == ASSUME NEW s PROVE Message(s) = MessageOf(s, exposeThinking)
BY DEF Message, MessageOf, Whole, ReasoningOf, ReasoningIn

LEMMA HonestWhile ==
    ASSUME NEW w, ~Complete(w.events), NEW s, NEW expose, NEW up, NEW log
    PROVE  Honest(w, s, expose, up, log)
BY DEF Honest

LEMMA OrderBefore ==
    ASSUME NEW s, NEW t, NEW c, Adds(s, t, c), PartsInOrder(t)
    PROVE  PartsInOrder(s)
<1>1. /\ \A k \in DOMAIN s : k \in DOMAIN t /\ t[k] = s[k]
      /\ Len(s) \in Nat /\ DOMAIN s = 1..Len(s)
  BY DEF Adds
<1>2. ASSUME NEW j \in DOMAIN s, NEW i \in 1..(j - 1)
      PROVE  /\ s[j].reasoning => s[i].text # "some" /\ s[i].tool = NoTool
             /\ s[j].text # "none" /\ (\E h \in 1..j : s[h].text = "some") => s[i].tool = NoTool
  <2>1. i \in DOMAIN s /\ 1..j \subseteq DOMAIN s
    BY <1>1
  <2>2. /\ t[j].reasoning => t[i].text # "some" /\ t[i].tool = NoTool
        /\ t[j].text # "none" /\ (\E h \in 1..j : t[h].text = "some") => t[i].tool = NoTool
    BY <1>1 DEF PartsInOrder
  <2>3. \A h \in 1..j : t[h] = s[h]
    BY <1>1, <2>1
  <2>4. QED
    BY <1>1, <2>1, <2>2, <2>3
<1>3. QED
  BY <1>2 DEF PartsInOrder

LEMMA InitMessage == Init => MInv
<1> SUFFICES ASSUME Init PROVE MInv
  OBVIOUS
<1>1. /\ writer.events = <<>> /\ writer.type = "none" /\ writer.index = 0
      /\ writer.thinking = FALSE /\ writer.text = FALSE /\ writer.tools = {}
      /\ sent = <<>> /\ pc = "posting"
  BY DEF Init
<1>2. 1..Len(<<>>) = {} /\ IsSeq(<<>>)
  BY EmptyIs
<1>3. Says(writer, <<>>, <<>>, <<>>, <<>>)
  <2>1. Lists(<<>>, <<>>)
    BY <1>2 DEF Lists
  <2>2. Tells(writer.events, Whole(<<>>, <<>>, <<>>))
    BY <1>1, TellsNothing, WholeOfNothing
  <2>3. MapOf(<<>>, <<>>, <<>>) = {}
    BY <1>2 DEF MapOf
  <2>4. Last(<<>>, <<>>, <<>>) = "none"
    BY DEF Last
  <2>5. QED
    BY <1>1, <1>2, <2>1, <2>2, <2>3, <2>4 DEF Says
<1>4. Heard(writer, sent, exposeThinking)
  <2>1. SaidBy(sent, <<>>, <<>>, <<>>, <<>>)
    BY <1>1, SaidNothing
  <2>2. QED
    BY <1>3, <2>1, HeardIs
<1>5. ~Complete(writer.events)
  BY <1>1 DEF Complete
<1>6. Honest(writer, sent, exposeThinking, upstream, logged)
  BY <1>5, HonestWhile
<1>7. QED
  BY <1>1, <1>4, <1>6 DEF MInv

LEMMA FailMessage ==
    ASSUME IInv, MInv, pc # "closed", NEW kind, Fail(kind)
    PROVE  MInv'
<1>1. pc' = "closed" /\ writer' = writer
  BY DEF Fail
<1>2. Tracks(writer)
  BY DEF IInv
<1>3. ~Complete(writer'.events)
  BY <1>1, <1>2, TracksIncomplete
<1>4. QED
  BY <1>1, <1>3 DEF MInv, Honest

LEMMA ChunkMessage == ASSUME IInv, MInv, NEW c \in Chunk, ReceiveChunk(c) PROVE MInv'
<1> DEFINE piece == Len(sent) + 1
           w == AfterChunk(writer, c, piece)
           more == Append(sent, c)
<1>1. /\ pc = "streaming" /\ sent' = more
      /\ \/ writer' = w /\ pc' = pc /\ exposeThinking' = exposeThinking /\ upstream' = upstream
         \/ CutShort(w)
  BY DEF ReceiveChunk, settings
<1>2. Tracks(writer) /\ IsSeq(sent) /\ IsSeq(writer.events)
  BY <1>1 DEF IInv, Tracks, Streaming, GoesOn
<1>3. c.text \in {"none", "empty", "some"} /\ (c.args => c.tool # NoTool)
  BY DEF Chunk
<1>4. Adds(sent, more, c) /\ w = AfterChunk(writer, c, piece) /\ more = Append(sent, c)
  BY <1>2, AppendAdds
<1>5. piece = Len(more)
  BY <1>4 DEF Adds
<1> HIDE DEF w, piece, more
<1>6. Runs(w)
  BY <1>2, <1>3, <1>4, RunsAfterChunk
<1>7. Sound(w) /\ Tracks(w)
  BY <1>6, RunsIs DEF Sound, Runs
<1>8. ASSUME PartsInOrder(more) PROVE Heard(w, more, exposeThinking)
  <2>1. PartsInOrder(sent)
    BY <1>4, <1>8, OrderBefore
  <2>2. Heard(writer, sent, exposeThinking)
    BY <1>1, <2>1 DEF MInv
  <2>3. PICK r, x, n, t : Says(writer, r, x, n, t) /\ SaidBy(sent, r, x, n, t)
    BY <2>2, HeardIs
  <2>4. Says(w, WithReasoning(r, c, piece), WithText(x, c, piece), Called(n, c), ToolBlocks(more))
    <3>1. /\ Tracks(writer) /\ Says(writer, r, x, n, t) /\ SaidBy(sent, r, x, n, t)
          /\ more = Append(sent, c) /\ PartsInOrder(more) /\ piece = Len(more)
          /\ w = AfterChunk(writer, c, piece)
      BY <1>2, <1>3, <1>4, <1>5, <1>8, <2>3
    <3>2. QED
      BY <3>1, ChunkSays
  <2>5. SaidBy(more, WithReasoning(r, c, piece), WithText(x, c, piece), Called(n, c), ToolBlocks(more))
    BY <1>4, <1>5, <2>3, SaidMore
  <2>6. QED
    BY <2>4, <2>5, HeardIs
<1>9. CASE writer' = w /\ pc' = pc /\ exposeThinking' = exposeThinking /\ upstream' = upstream
  <2>1. ~Complete(writer'.events)
    BY <1>7, <1>9, TracksIncomplete
  <2>2. PartsInOrder(sent') => Heard(writer', sent', exposeThinking')
    BY <1>1, <1>8, <1>9
  <2>3. QED
    BY <1>1, <1>9, <2>1, <2>2 DEF MInv, Honest
<1>10. CASE CutShort(w)
  <2>1. ~Complete(writer'.events)
    BY <1>2, <1>7, <1>10, CutIncomplete
  <2>2. pc' = "closed"
    BY <1>10 DEF CutShort, Close
  <2>3. QED
    BY <2>1, <2>2 DEF MInv, Honest
<1>11. QED
  BY <1>1, <1>9, <1>10

LEMMA FinishMessage == ASSUME IInv, MInv, NEW reason, ReceiveFinish(reason) PROVE MInv'
<1> DEFINE w == Started(writer)
           x == [w EXCEPT !.finish = reason]
<1>1. /\ pc = "streaming" /\ pc' = pc /\ sent' = sent /\ writer' = x
      /\ exposeThinking' = exposeThinking /\ upstream' = upstream
  BY DEF ReceiveFinish, settings
<1>2. Tracks(writer)
  BY <1>1 DEF IInv
<1>3. w = Started(writer)
  OBVIOUS
<1> HIDE DEF w
<1>4. Runs(w)
  BY <1>2, <1>3, StartedIs
<1>5. /\ Same(w, x) /\ x.type = w.type /\ x.index = w.index /\ x.events = w.events
  <2>1. IsWriter(w)
    BY <1>4, RunsIs
  <2>2. QED
    BY <2>1 DEF IsWriter, Same
<1> HIDE DEF x
<1>6. ~Complete(x.events)
  BY <1>4, <1>5, TracksIncomplete DEF Runs
<1>7. ASSUME PartsInOrder(sent) PROVE Heard(x, sent, exposeThinking)
  <2>1. Heard(writer, sent, exposeThinking)
    BY <1>1, <1>7 DEF MInv
  <2>2. PICK r, y, n, t : Says(writer, r, y, n, t) /\ SaidBy(sent, r, y, n, t)
    BY <2>1, HeardIs
  <2>3. Says(w, r, y, n, t)
    BY <1>2, <1>3, <2>2, StartedSays
  <2>4. Says(x, r, y, n, t)
    BY <1>5, <2>3 DEF Says, Same
  <2>5. QED
    BY <2>2, <2>4, HeardIs
<1>8. PartsInOrder(sent') => Heard(writer', sent', exposeThinking')
  BY <1>1, <1>7
<1>9. QED
  BY <1>1, <1>6, <1>8 DEF MInv, Honest

(* The end of the stream: all of it, or cut short. *)
LEMMA CloseMessage ==
    ASSUME IsSeq(writer.events), NEW w, Sound(w), Close(w) \/ CutShort(w),
           Close(w) => Honest(writer', sent', exposeThinking, upstream, NonStream(w.events))
    PROVE  MInv'
<1>1. CASE Close(w)
  <2>1. /\ pc' = "closed" /\ logged' = NonStream(w.events)
        /\ exposeThinking' = exposeThinking /\ upstream' = upstream
    BY <1>1 DEF Close, settings
  <2>2. Honest(writer', sent', exposeThinking', upstream', logged')
    BY <1>1, <2>1
  <2>3. QED
    BY <2>1, <2>2 DEF MInv
<1>2. CASE CutShort(w)
  <2>1. ~Complete(writer'.events)
    BY <1>2, CutIncomplete
  <2>2. pc' = "closed"
    BY <1>2 DEF CutShort, Close
  <2>3. QED
    BY <2>1, <2>2 DEF MInv, Honest
<1>3. QED
  BY <1>1, <1>2

LEMMA EndMessage == ASSUME IInv, MInv, EndOfStream PROVE MInv'
<1> DEFINE x == Stopped(writer)
           stop == StopReason(writer)
           w == Finished(x, stop)
<1>1. /\ pc = "streaming"
      /\ Fail("empty") \/ (writer.events # <<>> /\ sent' = sent /\ (Close(w) \/ CutShort(w)))
  BY DEF EndOfStream
<1>2. CASE Fail("empty")
  BY <1>1, <1>2, FailMessage
<1>3. CASE writer.events # <<>> /\ sent' = sent /\ (Close(w) \/ CutShort(w))
  <2>1. Runs(writer) /\ IsSeq(writer.events)
    BY <1>1, <1>3 DEF IInv, Runs, Tracks, Streaming, GoesOn
  <2>2. x = Stopped(writer) /\ w = Finished(x, stop)
    OBVIOUS
  <2>3. w.finish = writer.finish
    <3>1. IsWriter(writer)
      BY <2>1, RunsIs
    <3>2. x.finish = writer.finish
      BY <3>1 DEF Stopped, Emit, IsWriter
    <3> HIDE DEF x
    <3>3. IsWriter(x)
      BY <2>1, <2>2, StoppedIs, RunsIs
    <3>4. w.finish = x.finish
      BY <3>3 DEF Finished, Emit, IsWriter
    <3>5. QED
      BY <3>2, <3>4
  <2> HIDE DEF x, w
  <2>4. Runs(x) /\ x.type = "none"
    BY <2>1, <2>2, StoppedIs
  <2>5. Sound(w)
    BY <2>2, <2>4, FinishedIs
  <2>6. ASSUME Close(w), PartsInOrder(sent)
        PROVE  NonStream(w.events) = Log(MessageOf(sent, exposeThinking), stop)
    <3>1. Heard(writer, sent, exposeThinking)
      BY <1>1, <2>6 DEF MInv
    <3>2. PICK r, y, n, t : Says(writer, r, y, n, t) /\ SaidBy(sent, r, y, n, t)
      BY <3>1, HeardIs
    <3>3. Tells(writer.events, Whole(r, y, t)) /\ IsWriter(writer)
      BY <2>1, <3>2, RunsIs DEF Says
    <3>4. Tells(x.events, Whole(r, y, t))
      BY <2>2, <3>3, StoppedTells
    <3>5. NonStream(w.events) = Log(Whole(r, y, t), stop)
      BY <2>2, <2>4, <3>4, FinishedSays
    <3>6. Whole(r, y, t) = MessageOf(sent, exposeThinking)
      BY <3>2, MessageIs, MessageOfIs
    <3>7. QED
      BY <3>5, <3>6
  <2>7. stop = StopSent(w, sent, upstream)
    BY <1>1, <2>3 DEF MInv, StopReason, StopSent
  <2>8. ASSUME Close(w)
        PROVE  Honest(writer', sent', exposeThinking, upstream, NonStream(w.events))
    <3>1. writer' = w
      BY <2>8 DEF Close
    <3>2. QED
      BY <1>3, <2>6, <2>7, <2>8, <3>1 DEF Honest
  <2>9. QED
    BY <1>3, <2>1, <2>5, <2>8, CloseMessage
<1>4. QED
  BY <1>1, <1>2, <1>3

LEMMA GoneMessage == ASSUME IInv, MInv, ClientGone PROVE MInv'
<1>1. pc = "streaming" /\ Close(writer)
  BY DEF ClientGone
<1>2. ~Complete(writer.events)
  BY <1>1, TracksIncomplete DEF IInv
<1>3. writer' = writer /\ pc' = "closed"
  BY <1>1 DEF Close
<1>4. ~Complete(writer'.events)
  BY <1>2, <1>3
<1>5. QED
  BY <1>3, <1>4 DEF MInv, Honest

LEMMA CollectedMessage ==
    ASSUME IInv, MInv, NEW text \in BOOLEAN, NEW tools \in ToolCalls, Collected(text, tools)
    PROVE  MInv'
<1> DEFINE w == Streamed(text, tools)
           s == Asked(text, tools, Len(tools))
<1>1. PICK n \in 0..Cardinality(Tool) : tools \in [1..n -> Tool]
  BY DEF ToolCalls
<1>2. n \in Nat
  <2>1. Cardinality(Tool) \in Nat
    BY ToolAssumption, FS_CardinalityType
  <2>2. QED
    BY <2>1
<1>3. IsSeq(tools) /\ Len(tools) = n /\ DOMAIN tools = 1..n
  <2>1. tools \in Seq(Tool) /\ DOMAIN tools = 1..n
    BY <1>1, <1>2, SeqDef
  <2>2. QED
    BY <1>2, <2>1, LenProperties DEF IsSeq
<1>4. /\ \A j \in DOMAIN tools : tools[j] # NoTool
      /\ \A i, j \in DOMAIN tools : tools[i] = tools[j] => i = j
  BY <1>1, <1>3, ToolAssumption DEF ToolCalls
<1>5. /\ pc = "posting" /\ upstream = "codex" /\ (Close(w) \/ CutShort(w))
      /\ sent' = s
  <2>1. sent' = (IF text THEN <<[Silent EXCEPT !.text = "some"]>> ELSE <<>>)
                   \o [j \in DOMAIN tools |-> [Silent EXCEPT !.tool = tools[j], !.args = TRUE]]
    BY DEF Collected
  <2>2. s = (IF text THEN <<[Silent EXCEPT !.text = "some"]>> ELSE <<>>)
                   \o [j \in DOMAIN tools |-> [Silent EXCEPT !.tool = tools[j], !.args = TRUE]]
    BY <1>3 DEF Asked, Opening, TextChunk, CallChunk
  <2>3. pc = "posting" /\ upstream = "codex" /\ (Close(w) \/ CutShort(w))
    BY DEF Collected
  <2>4. QED
    BY <2>1, <2>2, <2>3
<1>6. Tracks(writer) /\ writer.events = <<>> /\ IsSeq(writer.events)
  BY <1>5 DEF IInv, Tracks, Streaming, GoesOn
<1>7. w = Streamed(text, tools) /\ s = Asked(text, tools, Len(tools))
  OBVIOUS
<1> HIDE DEF w, s
<1>8. Sound(w)
  BY <1>3, <1>6, <1>7, StreamedIs
<1>9. NonStream(w.events) = Log(Message(s), IF HasCalls(s) THEN "tool_use" ELSE "end_turn")
  BY <1>3, <1>4, <1>6, <1>7, StreamedSays
<1>10. ASSUME NEW v PROVE Honest(v, s, exposeThinking, upstream, NonStream(w.events))
  <2>1. StopSent(v, s, upstream) = IF HasCalls(s) THEN "tool_use" ELSE "end_turn"
    BY <1>5 DEF StopSent
  <2>2. QED
    BY <1>9, <2>1, MessageOfIs DEF Honest
<1>11. Honest(writer', sent', exposeThinking, upstream, NonStream(w.events))
  BY <1>5, <1>10
<1>12. QED
  BY <1>5, <1>6, <1>8, <1>11, CloseMessage

LEMMA StepMessage == IInv /\ MInv /\ [Next]_vars => MInv'
<1> SUFFICES ASSUME IInv, MInv, [Next]_vars PROVE MInv'
  OBVIOUS
<1>1. CASE RateLimited
  BY <1>1, FailMessage DEF RateLimited
<1>2. CASE Rejected
  BY <1>2, FailMessage DEF Rejected
<1>3. CASE BreaksOff
  BY <1>3, FailMessage DEF BreaksOff
<1>4. CASE Connect
  <2>1. /\ pc = "posting" /\ pc' = "streaming" /\ upstream = "chat" /\ sent' = sent
        /\ writer' = writer /\ exposeThinking' = exposeThinking /\ upstream' = upstream
        /\ logged' = logged
    BY <1>4 DEF Connect, settings
  <2>2. PartsInOrder(sent') => Heard(writer', sent', exposeThinking')
    BY <2>1 DEF MInv
  <2>3. Honest(writer', sent', exposeThinking', upstream', logged')
    BY <2>1 DEF MInv
  <2>4. QED
    BY <2>1, <2>2, <2>3 DEF MInv
<1>5. CASE \E c \in Chunk : ReceiveChunk(c)
  BY <1>5, ChunkMessage
<1>6. CASE \E reason \in {"stop", "tool_calls"} : ReceiveFinish(reason)
  BY <1>6, FinishMessage
<1>7. CASE EndOfStream
  BY <1>7, EndMessage
<1>8. CASE ClientGone
  BY <1>8, GoneMessage
<1>9. CASE \E text \in BOOLEAN, tools \in ToolCalls : Collected(text, tools)
  BY <1>9, CollectedMessage
<1>10. CASE CollectedNothing
  BY <1>10, FailMessage DEF CollectedNothing
<1>11. CASE UNCHANGED vars
  <2>1. /\ pc' = pc /\ sent' = sent /\ writer' = writer /\ logged' = logged
        /\ exposeThinking' = exposeThinking /\ upstream' = upstream
    BY <1>11 DEF vars, settings
  <2>2. /\ pc' = "streaming" => upstream' = "chat"
        /\ pc' # "closed" /\ PartsInOrder(sent') => Heard(writer', sent', exposeThinking')
        /\ Honest(writer', sent', exposeThinking', upstream', logged')
    BY <2>1 DEF MInv
  <2>3. QED
    BY <2>2 DEF MInv
<1>12. QED
  BY <1>1, <1>2, <1>3, <1>4, <1>5, <1>6, <1>7, <1>8, <1>9, <1>10, <1>11 DEF Next

(* For parts in order, however the deltas of the tool calls alternate and  *)
(* whether they are streamed or collected first, what                      *)
(* _build_anthropic_non_stream_from_events makes of the events is what the *)
(* upstream said, with its stop reason.                                    *)
THEOREM LoggedIsWhatWasSent == Spec => []LoggedIsSent
<1>1. Init => IInv /\ MInv
  BY InitHolds, InitMessage
<1>2. (IInv /\ MInv) /\ [Next]_vars => (IInv /\ MInv)'
  BY StepHolds, StepMessage
<1>3. IInv /\ MInv => LoggedIsSent
  <2> SUFFICES ASSUME MInv PROVE LoggedIsSent
    OBVIOUS
  <2>1. Honest(writer, sent, exposeThinking, upstream, logged)
    BY DEF MInv
  <2>2. Message(sent) = MessageOf(sent, exposeThinking)
    BY MessageOfIs
  <2>3. QED
    BY <2>1, <2>2 DEF LoggedIsSent, Honest, Complete, Log, StopSent, HasCalls
<1>4. QED
  BY <1>1, <1>2, <1>3, PTL DEF Spec
=============================================================================
