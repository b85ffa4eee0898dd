-------------------------- MODULE ToolStream_proofs --------------------------
(***************************************************************************)
(* Safety of the streamed tool emulation for every marker, limit, alphabet, *)
(* upstream and verdict of the parsers: text is kept, markers are held      *)
(* back, buffers and retries are bounded, and the client is kept the        *)
(* promise of ClientStream.                                                 *)
(***************************************************************************)
EXTENDS ToolStream, SequenceLemmas

-----------------------------------------------------------------------------
(***************************************************************************)
(* Parts of a text.                                                         *)
(***************************************************************************)
LEMMA Parts ==
  ASSUME NEW text \in Seq(Symbol), NEW n \in 0..Len(text)
  PROVE  /\ First(text, n) \in Seq(Symbol) /\ Len(First(text, n)) = n
         /\ \A k \in 1..n : First(text, n)[k] = text[k]
         /\ After(text, n) \in Seq(Symbol) /\ Len(After(text, n)) = Len(text) - n
         /\ \A k \in 1..(Len(text) - n) : After(text, n)[k] = text[n + k]
         /\ First(text, n) \o After(text, n) = text
<1>1. /\ First(text, n) \in Seq(Symbol) /\ Len(First(text, n)) = n
      /\ \A k \in 1..n : First(text, n)[k] = text[k]
  BY DEF First
<1>2. /\ After(text, n) \in Seq(Symbol) /\ Len(After(text, n)) = Len(text) - n
      /\ \A k \in 1..(Len(text) - n) : After(text, n)[k] = text[n + k]
  BY DEF After
<1>3. First(text, n) \o After(text, n) = text
  <2>1. SubSeq(text, 1, n) \o SubSeq(text, n + 1, Len(text)) = SubSeq(text, 1, Len(text))
    <3>1. 1 \in 1..(Len(text) + 1) /\ n \in (1 - 1)..Len(text) /\ Len(text) \in n..Len(text)
      OBVIOUS
    <3> QED
      BY <3>1, ConcatAdjacentSubSeq
  <2> QED
    BY <2>1, SubSeqFull DEF First, After
<1> QED
  BY <1>1, <1>2, <1>3

\* Cutting a concatenation where it was joined.
LEMMA CutJoined ==
  ASSUME NEW s \in Seq(Symbol), NEW t \in Seq(Symbol), NEW n \in 0..Len(s)
  PROVE  /\ First(s \o t, Len(s)) = s
         /\ First(s \o t, n) = First(s, n)
         /\ After(s \o t, n) = After(s, n) \o t
<1>1. s \o t \in Seq(Symbol) /\ Len(s \o t) = Len(s) + Len(t)
      /\ \A k \in 1..(Len(s) + Len(t)) : (s \o t)[k] = IF k <= Len(s) THEN s[k] ELSE t[k - Len(s)]
  BY ConcatProperties
<1>2. First(s \o t, n) = First(s, n)
  <2>1. /\ First(s, n) \in Seq(Symbol) /\ Len(First(s, n)) = n
        /\ \A k \in 1..n : First(s, n)[k] = s[k]
    BY Parts
  <2>2. /\ First(s \o t, n) \in Seq(Symbol) /\ Len(First(s \o t, n)) = n
        /\ \A k \in 1..n : First(s \o t, n)[k] = (s \o t)[k]
    <3>1. n \in 0..Len(s \o t)
      BY <1>1
    <3> QED
      BY <1>1, <3>1, Parts
  <2>3. \A k \in 1..n : First(s, n)[k] = First(s \o t, n)[k]
    BY <1>1, <2>1, <2>2
  <2> QED
    BY <2>1, <2>2, <2>3, SeqEqual
<1>3. First(s \o t, Len(s)) = s
  <2>1. Len(s) \in 0..Len(s \o t)
    BY <1>1
  <2>2. /\ First(s \o t, Len(s)) \in Seq(Symbol) /\ Len(First(s \o t, Len(s))) = Len(s)
        /\ \A k \in 1..Len(s) : First(s \o t, Len(s))[k] = (s \o t)[k]
    BY <1>1, <2>1, Parts
  <2>3. \A k \in 1..Len(s) : First(s \o t, Len(s))[k] = s[k]
    BY <1>1, <2>2
  <2> QED
    BY <2>2, <2>3, SeqEqual
<1>4. After(s \o t, n) = After(s, n) \o t
  <2> DEFINE a == After(s, n)
             b == After(s \o t, n)
  <2>1. /\ a \in Seq(Symbol) /\ Len(a) = Len(s) - n
        /\ \A k \in 1..(Len(s) - n) : a[k] = s[n + k]
    BY Parts
  <2>2. n \in 0..Len(s \o t)
    BY <1>1
  <2>3. /\ b \in Seq(Symbol) /\ Len(b) = Len(s \o t) - n
        /\ \A k \in 1..(Len(s \o t) - n) : b[k] = (s \o t)[n + k]
    BY <1>1, <2>2, Parts
  <2> HIDE DEF a, b
  <2>4. /\ a \o t \in Seq(Symbol) /\ Len(a \o t) = Len(a) + Len(t)
        /\ \A k \in 1..(Len(a) + Len(t)) : (a \o t)[k] = IF k <= Len(a) THEN a[k] ELSE t[k - Len(a)]
    BY <2>1, ConcatProperties
  <2>5. Len(b) = Len(a \o t)
    BY <1>1, <2>1, <2>3, <2>4
  <2>6. ASSUME NEW k \in 1..Len(b) PROVE b[k] = (a \o t)[k]
    <3>1. b[k] = (s \o t)[n + k] /\ n + k \in 1..(Len(s) + Len(t)) /\ k \in 1..(Len(a) + Len(t))
      BY <1>1, <2>1, <2>3
    <3>2. CASE k <= Len(a)
      <4>1. n + k <= Len(s) /\ k \in 1..(Len(s) - n)
        BY <2>1, <3>2
      <4>2. b[k] = s[n + k]
        BY <1>1, <3>1, <4>1
      <4>3. a[k] = s[n + k]
        BY <2>1, <4>1
      <4>4. (a \o t)[k] = a[k]
        BY <2>4, <3>1, <3>2
      <4> QED
        BY <4>2, <4>3, <4>4
    <3>3. CASE ~(k <= Len(a))
      <4>1. ~(n + k <= Len(s)) /\ n + k - Len(s) = k - Len(a)
        BY <2>1, <3>3, SMTT(30)
      <4> QED
        <5>1. b[k] = t[n + k - Len(s)]
          BY <1>1, <3>1, <4>1
        <5>2. (a \o t)[k] = t[k - Len(a)]
          BY <2>4, <3>1, <3>3
        <5> QED
          BY <4>1, <5>1, <5>2
    <3> QED
      BY <3>2, <3>3
  <2> DEFINE c == a \o t
  <2>7. b \in Seq(Symbol) /\ c \in Seq(Symbol) /\ Len(b) = Len(c)
    BY <2>3, <2>4, <2>5
  <2>8. \A k \in 1..Len(b) : b[k] = c[k]
    BY <2>6
  <2> HIDE DEF c
  <2>9. b = c
    BY <2>7, <2>8, SeqEqual
  <2> QED
    BY <2>9 DEF a, b, c
<1> QED
  BY <1>2, <1>3, <1>4

\* Cutting it in the second part.
LEMMA CutBehind ==
  ASSUME NEW s \in Seq(Symbol), NEW t \in Seq(Symbol), NEW n \in 0..Len(t)
  PROVE  After(s \o t, Len(s) + n) = After(t, n)
<1> DEFINE a == After(s \o t, Len(s) + n)
           b == After(t, n)
<1>1. s \o t \in Seq(Symbol) /\ Len(s \o t) = Len(s) + Len(t)
      /\ \A k \in 1..(Len(s) + Len(t)) : (s \o t)[k] = IF k <= Len(s) THEN s[k] ELSE t[k - Len(s)]
  BY ConcatProperties
<1>2. Len(s) + n \in 0..Len(s \o t)
  BY <1>1
<1>3. /\ a \in Seq(Symbol) /\ Len(a) = Len(s \o t) - (Len(s) + n)
      /\ \A k \in 1..(Len(s \o t) - (Len(s) + n)) : a[k] = (s \o t)[(Len(s) + n) + k]
  BY <1>1, <1>2, Parts
<1>4. /\ b \in Seq(Symbol) /\ Len(b) = Len(t) - n
      /\ \A k \in 1..(Len(t) - n) : b[k] = t[n + k]
  BY Parts
<1> HIDE DEF a, b
<1>5. Len(a) = Len(b) /\ Len(s) \in Nat
  BY <1>1, <1>3, <1>4
<1>6. ASSUME NEW k \in 1..Len(a) PROVE a[k] = b[k]
  <2>1. a[k] = (s \o t)[(Len(s) + n) + k] /\ b[k] = t[n + k]
    BY <1>3, <1>4, <1>5
  <2>2. /\ (Len(s) + n) + k \in 1..(Len(s) + Len(t)) /\ ~((Len(s) + n) + k <= Len(s))
        /\ ((Len(s) + n) + k) - Len(s) = n + k
    BY <1>1, <1>3, <1>5
  <2> QED
    BY <1>1, <2>1, <2>2
<1>7. a = b
  BY <1>3, <1>4, <1>5, <1>6, SeqEqual
<1> QED
  BY <1>7 DEF a, b

-----------------------------------------------------------------------------
(***************************************************************************)
(* Bytes.                                                                   *)
(***************************************************************************)
WideAt(text) == {n \in DOMAIN text : text[n] \in Wide}

LEMMA WideFinite ==
  ASSUME NEW text \in Seq(Symbol)
  PROVE  /\ IsFiniteSet(WideAt(text)) /\ Cardinality(WideAt(text)) \in Nat
         /\ Cardinality(WideAt(text)) <= Len(text)
         /\ WideAt(text) \subseteq 1..Len(text)
<1>1. Len(text) \in Nat /\ WideAt(text) \in SUBSET (1..Len(text))
  BY DEF WideAt
<1>2. IsFiniteSet(1..Len(text)) /\ Cardinality(1..Len(text)) = Len(text)
  <2>1. 1 \in Int /\ Len(text) \in Int
    BY <1>1
  <2>2. /\ IsFiniteSet(1..Len(text))
        /\ Cardinality(1..Len(text)) = IF 1 > Len(text) THEN 0 ELSE Len(text) - 1 + 1
    BY <2>1, FS_Interval
  <2> QED
    BY <1>1, <2>2
<1>3. IsFiniteSet(WideAt(text)) /\ Cardinality(WideAt(text)) <= Cardinality(1..Len(text))
  BY <1>1, <1>2, FS_Subset
<1> QED
  BY <1>1, <1>2, <1>3, FS_CardinalityType

LEMMA BytesType ==
  ASSUME NEW text \in Seq(Symbol)
  PROVE  Bytes(text) \in Nat /\ Len(text) <= Bytes(text) /\ Bytes(text) <= 2 * Len(text)
<1>1. Bytes(text) = Len(text) + Cardinality(WideAt(text))
  BY DEF Bytes, WideAt
<1> QED
  BY <1>1, WideFinite

LEMMA NarrowBytes ==
  ASSUME NEW text \in Seq(Symbol), \A n \in DOMAIN text : text[n] \notin Wide
  PROVE  Bytes(text) = Len(text)
<1>1. WideAt(text) = {}
  BY DEF WideAt
<1>2. Bytes(text) = Len(text) + Cardinality(WideAt(text))
  BY DEF Bytes, WideAt
<1> QED
  BY <1>1, <1>2, FS_EmptySet

LEMMA BytesEmpty == Bytes(<< >>) = 0
<1>1. << >> \in Seq(Symbol) /\ Len(<< >>) = 0 /\ DOMAIN << >> = {}
  OBVIOUS
<1> QED
  BY <1>1, NarrowBytes

LEMMA BytesJoined ==
  ASSUME NEW s \in Seq(Symbol), NEW t \in Seq(Symbol)
  PROVE  Bytes(s \o t) = Bytes(s) + Bytes(t)
<1> DEFINE moved == {Len(s) + k : k \in WideAt(t)}
           move == [k \in WideAt(t) |-> Len(s) + k]
<1>1. s \o t \in Seq(Symbol) /\ Len(s \o t) = Len(s) + Len(t)
      /\ \A k \in 1..(Len(s) + Len(t)) : (s \o t)[k] = IF k <= Len(s) THEN s[k] ELSE t[k - Len(s)]
  BY ConcatProperties
<1>2. WideAt(s) \subseteq 1..Len(s) /\ WideAt(t) \subseteq 1..Len(t)
  BY WideFinite
<1>3. WideAt(s \o t) = WideAt(s) \cup moved
  <2>1. ASSUME NEW n \in WideAt(s \o t) PROVE n \in WideAt(s) \cup moved
    <3>1. n \in 1..(Len(s) + Len(t)) /\ (s \o t)[n] \in Wide
      BY <1>1 DEF WideAt
    <3>2. CASE n <= Len(s)
      BY <1>1, <3>1, <3>2 DEF WideAt
    <3>3. CASE ~(n <= Len(s))
      <4>1. n - Len(s) \in 1..Len(t) /\ t[n - Len(s)] \in Wide
        BY <1>1, <3>1, <3>3
      <4>2. n - Len(s) \in WideAt(t) /\ n = Len(s) + (n - Len(s))
        BY <3>1, <4>1 DEF WideAt
      <4> QED
        BY <4>2
    <3> QED
      BY <3>2, <3>3
  <2>2. ASSUME NEW n \in WideAt(s) PROVE n \in WideAt(s \o t)
    BY <1>1 DEF WideAt
  <2>3. ASSUME NEW k \in WideAt(t) PROVE Len(s) + k \in WideAt(s \o t)
    <3>1. k \in 1..Len(t) /\ t[k] \in Wide
      BY DEF WideAt
    <3>2. Len(s) + k \in 1..(Len(s) + Len(t)) /\ ~(Len(s) + k <= Len(s)) /\ (Len(s) + k) - Len(s) = k
      BY <3>1
    <3> QED
      BY <1>1, <3>1, <3>2 DEF WideAt
  <2> QED
    BY <2>1, <2>2, <2>3
<1>4. WideAt(s) \cap moved = {}
  BY <1>2
<1>5. IsFiniteSet(moved) /\ Cardinality(moved) = Cardinality(WideAt(t))
  <2>1. move \in Bijection(WideAt(t), moved)
    BY <1>2 DEF Bijection, Injection, Surjection, IsInjective
  <2>2. ExistsBijection(WideAt(t), moved)
    BY <2>1 DEF ExistsBijection
  <2> QED
    BY <2>2, WideFinite, FS_Bijection
<1>6. Cardinality(WideAt(s \o t)) = Cardinality(WideAt(s)) + Cardinality(WideAt(t))
  <2> HIDE DEF moved
  <2>1. Cardinality(WideAt(s) \cup moved) =
          Cardinality(WideAt(s)) + Cardinality(moved) - Cardinality(WideAt(s) \cap moved)
    BY <1>5, WideFinite, FS_Union
  <2>2. Cardinality(WideAt(s) \cap moved) = 0
    BY <1>4, FS_EmptySet
  <2>3. Cardinality(WideAt(s)) \in Nat /\ Cardinality(WideAt(t)) \in Nat
    BY WideFinite
  <2> QED
    BY <1>3, <1>5, <2>1, <2>2, <2>3
<1>7. /\ Bytes(s \o t) = Len(s \o t) + Cardinality(WideAt(s \o t))
      /\ Bytes(s) = Len(s) + Cardinality(WideAt(s))
      /\ Bytes(t) = Len(t) + Cardinality(WideAt(t))
  BY DEF Bytes, WideAt
<1> QED
  BY <1>1, <1>6, <1>7, WideFinite

-----------------------------------------------------------------------------
(***************************************************************************)
(* How much of the pending text is passed on: what stays has the bytes of a *)
(* marker less one, if the text has as many, and at most one byte more.     *)
(***************************************************************************)
LEMMA StreamablePlace ==
  ASSUME NEW text \in Seq(Symbol)
  PROVE  /\ Streamable(text) \in 0..Len(text)
         /\ Streamable(text) # 0 => Bytes(After(text, Streamable(text))) >= Held
         /\ Bytes(After(text, Streamable(text))) <= Held + 1
<1>1. Held \in Nat
  BY MarkerAssumption DEF Held
<1>2. Bytes(text) \in Nat /\ Len(text) \in Nat
  BY BytesType
<1>3. CASE Bytes(text) <= Held
  <2>1. Streamable(text) = 0
    BY <1>3 DEF Streamable
  <2>2. After(text, 0) = text
    BY SubSeqFull DEF After
  <2> QED
    BY <1>1, <1>2, <1>3, <2>1, <2>2
<1>4. CASE ~(Bytes(text) <= Held)
  <2> DEFINE fits(n) == Bytes(First(text, n)) <= Bytes(text) - Held
             n0 == Streamable(text)
  <2>1. fits(0)
    <3>1. First(text, 0) = << >>
      BY SubSeqEmpty DEF First
    <3> QED
      BY <1>1, <1>2, <1>4, <3>1, BytesEmpty
  <2>2. \E m \in 0..Len(text) : fits(m) /\ \A k \in 0..Len(text) : fits(k) => k <= m
    <3> DEFINE T == {n \in 0..Len(text) : fits(n)}
    <3>1. T \in SUBSET (0..Len(text)) /\ T # {}
      BY <1>2, <2>1
    <3>2. PICK m \in T : \A k \in T : k <= m
      BY <1>2, <3>1, GreatestBounded
    <3> QED
      BY <3>2
  <2>3. n0 \in 0..Len(text) /\ fits(n0) /\ \A k \in 0..Len(text) : fits(k) => k <= n0
    BY <1>4, <2>2 DEF Streamable
  <2> HIDE DEF n0
  <2>4. /\ First(text, n0) \in Seq(Symbol) /\ After(text, n0) \in Seq(Symbol)
        /\ First(text, n0) \o After(text, n0) = text
        /\ Len(After(text, n0)) = Len(text) - n0
    BY <2>3, Parts
  <2>5. /\ Bytes(First(text, n0)) \in Nat /\ Bytes(After(text, n0)) \in Nat
        /\ Bytes(text) = Bytes(First(text, n0)) + Bytes(After(text, n0))
    BY <2>4, BytesType, BytesJoined
  <2>6. Bytes(After(text, n0)) >= Held
    BY <1>1, <1>2, <2>3, <2>5
  <2>7. Bytes(After(text, n0)) <= Held + 1
    <3>1. CASE n0 = Len(text)
      <4>1. After(text, n0) = << >>
        BY <2>4, <3>1, EmptySeq
      <4> QED
        BY <1>1, <4>1, BytesEmpty
    <3>2. CASE n0 # Len(text)
      <4>1. n0 + 1 \in 0..Len(text) /\ ~fits(n0 + 1)
        BY <2>3, <3>2
      <4>2. First(text, n0 + 1) = First(text, n0) \o <<text[n0 + 1]>> /\ <<text[n0 + 1]>> \in Seq(Symbol)
        <5>1. 1 \in 1..Len(text) /\ n0 + 1 \in 1..Len(text) /\ (n0 + 1) - 1 = n0
          BY <2>3, <4>1
        <5>2. SubSeq(text, 1, n0 + 1) = SubSeq(text, 1, (n0 + 1) - 1) \o <<text[n0 + 1]>>
          BY <5>1, SubSeqRecursiveSecond
        <5>3. text[n0 + 1] \in Symbol
          BY <5>1, ElementOfSeq
        <5>4. <<text[n0 + 1]>> \in Seq(Symbol)
          BY <5>3
        <5> QED
          BY <5>1, <5>2, <5>4 DEF First
      <4>3. Bytes(<<text[n0 + 1]>>) \in Nat /\ Bytes(<<text[n0 + 1]>>) <= 2
        <5>1. Len(<<text[n0 + 1]>>) = 1
          OBVIOUS
        <5>2. /\ Bytes(<<text[n0 + 1]>>) \in Nat
              /\ Bytes(<<text[n0 + 1]>>) <= 2 * Len(<<text[n0 + 1]>>)
          BY <4>2, BytesType
        <5> QED
          BY <5>1, <5>2
      <4>4. Bytes(First(text, n0 + 1)) = Bytes(First(text, n0)) + Bytes(<<text[n0 + 1]>>)
        BY <2>4, <4>2, BytesJoined
      <4> QED
        BY <1>1, <1>2, <2>5, <4>1, <4>3, <4>4
    <3> QED
      BY <3>1, <3>2
  <2> QED
    BY <2>3, <2>6, <2>7 DEF n0
<1> QED
  BY <1>3, <1>4

-----------------------------------------------------------------------------
(***************************************************************************)
(* Markers.                                                                 *)
(***************************************************************************)
LEMMA MarkerLength ==
  /\ Len(Marker) \in Nat \ {0} /\ DOMAIN Marker = 1..Len(Marker)
  /\ Held \in Nat /\ Held = Len(Marker) - 1
BY MarkerAssumption, EmptySeq DEF Held

LEMMA FirstMarkerPlace ==
  ASSUME NEW text \in Seq(Symbol), HasMarker(text)
  PROVE  /\ FirstMarker(text) \in 1..Len(text)
         /\ MarkerAt(text, FirstMarker(text))
         /\ \A k \in 1..Len(text) : MarkerAt(text, k) => FirstMarker(text) <= k
<1> DEFINE places == {n \in 1..Len(text) : MarkerAt(text, n)}
<1>1. DOMAIN text = 1..Len(text) /\ Len(text) \in Nat
  OBVIOUS
<1>2. places \in SUBSET Nat /\ places # {}
  BY <1>1 DEF HasMarker
<1>3. PICK m \in places : \A k \in places : m <= k
  BY <1>2, LeastNatural
<1>4. m \in DOMAIN text /\ MarkerAt(text, m) /\ \A k \in DOMAIN text : MarkerAt(text, k) => m <= k
  BY <1>1, <1>3
<1> QED
  BY <1>1, <1>4 DEF FirstMarker

\* The first marker is told by the markers there are.
LEMMA FirstMarkerIs ==
  ASSUME NEW text \in Seq(Symbol), NEW n \in 1..Len(text), MarkerAt(text, n),
         \A k \in 1..Len(text) : MarkerAt(text, k) => n <= k
  PROVE  HasMarker(text) /\ FirstMarker(text) = n
<1>1. DOMAIN text = 1..Len(text) /\ Len(text) \in Nat
  OBVIOUS
<1>2. HasMarker(text)
  BY <1>1 DEF HasMarker
<1>3. FirstMarker(text) <= n /\ n <= FirstMarker(text) /\ FirstMarker(text) \in 1..Len(text)
  BY <1>2, FirstMarkerPlace
<1> QED
  BY <1>1, <1>2, <1>3

\* What is appended does not move a marker that is there.
LEMMA MarkerStays ==
  ASSUME NEW s \in Seq(Symbol), NEW t \in Seq(Symbol), HasMarker(s)
  PROVE  HasMarker(s \o t) /\ FirstMarker(s \o t) = FirstMarker(s)
<1> DEFINE m == FirstMarker(s)
<1>1. s \o t \in Seq(Symbol) /\ Len(s \o t) = Len(s) + Len(t)
      /\ \A k \in 1..(Len(s) + Len(t)) : (s \o t)[k] = IF k <= Len(s) THEN s[k] ELSE t[k - Len(s)]
  BY ConcatProperties
<1>2. /\ m \in 1..Len(s) /\ MarkerAt(s, m)
      /\ \A k \in 1..Len(s) : MarkerAt(s, k) => m <= k
  BY FirstMarkerPlace
<1> HIDE DEF m
<1>3. m + Len(Marker) - 1 <= Len(s)
  BY <1>2 DEF MarkerAt
<1>4. m \in 1..Len(s \o t) /\ MarkerAt(s \o t, m)
  <2>1. ASSUME NEW k \in DOMAIN Marker PROVE (s \o t)[m + k - 1] = Marker[k]
    <3>1. m + k - 1 \in 1..Len(s) /\ s[m + k - 1] = Marker[k]
      BY <1>2, <1>3, MarkerLength DEF MarkerAt
    <3> QED
      BY <1>1, <3>1
  <2> QED
    BY <1>1, <1>2, <1>3, <2>1, MarkerLength DEF MarkerAt
<1>5. ASSUME NEW k \in 1..Len(s \o t), MarkerAt(s \o t, k) PROVE m <= k
  <2> SUFFICES ASSUME k < m PROVE FALSE
    BY <1>2
  <2>1. k \in 1..Len(s) /\ k + Len(Marker) - 1 <= Len(s)
    BY <1>1, <1>2, <1>3, MarkerLength
  <2>2. ASSUME NEW j \in DOMAIN Marker PROVE s[k + j - 1] = Marker[j]
    <3>1. k + j - 1 \in 1..Len(s) /\ (s \o t)[k + j - 1] = Marker[j]
      BY <1>5, <2>1, MarkerLength DEF MarkerAt
    <3> QED
      BY <1>1, <3>1
  <2>3. MarkerAt(s, k)
    BY <2>1, <2>2 DEF MarkerAt
  <2> QED
    BY <1>2, <2>1, <2>3
<1> QED
  BY <1>1, <1>4, <1>5, FirstMarkerIs DEF m

LEMMA Regroup ==
  ASSUME NEW a \in Seq(Symbol), NEW b \in Seq(Symbol), NEW c \in Seq(Symbol)
  PROVE  (a \o b) \o c = a \o (b \o c)
BY ConcatAssociative

(***************************************************************************)
(* The reason for holding text back: a marker that begins in what was       *)
(* passed on and ends in what just came covers all that was held back, and  *)
(* this has as many bytes as a marker less one.                             *)
(***************************************************************************)
LEMMA NoMarkerAcross ==
  ASSUME NEW g \in Seq(Symbol), NEW p \in Seq(Symbol), NEW c \in Seq(Symbol),
         ~HasMarker(g \o p), Len(g) # 0 => Bytes(p) >= Held,
         NEW n \in 1..Len(g)
  PROVE  ~MarkerAt(g \o (p \o c), n)
<1> DEFINE whole == g \o (p \o c)
<1> SUFFICES ASSUME MarkerAt(whole, n) PROVE FALSE
  OBVIOUS
<1>1. /\ g \o p \in Seq(Symbol) /\ Len(g \o p) = Len(g) + Len(p)
      /\ \A k \in 1..(Len(g) + Len(p)) : (g \o p)[k] = IF k <= Len(g) THEN g[k] ELSE p[k - Len(g)]
  BY ConcatProperties
<1>2. whole = (g \o p) \o c
  <2>1. (g \o p) \o c = g \o (p \o c)
    BY Regroup
  <2> QED
    BY <2>1
<1> DEFINE gp == g \o p
<1>a. gp \in Seq(Symbol)
  BY <1>1
<1>b. whole = gp \o c
  BY <1>2
<1> HIDE DEF gp, whole
<1>c. /\ gp \o c \in Seq(Symbol) /\ Len(gp \o c) = Len(gp) + Len(c)
      /\ \A k \in 1..(Len(gp) + Len(c)) : (gp \o c)[k] = IF k <= Len(gp) THEN gp[k] ELSE c[k - Len(gp)]
  BY <1>a, ConcatProperties
<1>3. /\ whole \in Seq(Symbol) /\ Len(whole) = Len(g \o p) + Len(c)
      /\ \A k \in 1..(Len(g \o p) + Len(c)) :
           whole[k] = IF k <= Len(g \o p) THEN (g \o p)[k] ELSE c[k - Len(g \o p)]
  BY <1>b, <1>c DEF gp
<1>4. /\ n + Len(Marker) - 1 <= Len(whole)
      /\ \A k \in 1..Len(Marker) : whole[n + k - 1] = Marker[k]
  BY MarkerLength DEF MarkerAt
<1>5. Len(g) \in Nat /\ Len(p) \in Nat /\ Len(c) \in Nat
  OBVIOUS
<1>6. CASE n + Len(Marker) - 1 <= Len(g) + Len(p)
  <2>1. ASSUME NEW k \in 1..Len(Marker) PROVE (g \o p)[n + k - 1] = Marker[k]
    <3>1. n + k - 1 \in 1..(Len(g) + Len(p))
      BY <1>5, <1>6, MarkerLength
    <3>2. n + k - 1 \in 1..(Len(g \o p) + Len(c)) /\ n + k - 1 <= Len(g \o p)
      BY <1>1, <1>5, <3>1
    <3>3. whole[n + k - 1] = (g \o p)[n + k - 1]
      BY <1>3, <3>2
    <3> QED
      BY <1>4, <3>3
  <2>2. MarkerAt(g \o p, n)
    BY <1>1, <1>6, <2>1, MarkerLength DEF MarkerAt
  <2>3. n \in DOMAIN (g \o p)
    BY <1>1, <1>5
  <2> QED
    BY <2>2, <2>3 DEF HasMarker
<1>7. CASE ~(n + Len(Marker) - 1 <= Len(g) + Len(p))
  <2>1. ASSUME NEW j \in 1..Len(p) PROVE p[j] \notin Wide
    <3> DEFINE k == Len(g) + j - n + 1
    <3>1. k \in 1..Len(Marker) /\ n + k - 1 = Len(g) + j
      BY <1>5, <1>7, MarkerLength
    <3>2. Len(g) + j \in 1..(Len(g) + Len(p)) /\ ~(Len(g) + j <= Len(g)) /\ (Len(g) + j) - Len(g) = j
      BY <1>5
    <3> HIDE DEF k
    <3>3. whole[Len(g) + j] = Marker[k]
      BY <1>4, <3>1
    <3>4. whole[Len(g) + j] = (g \o p)[Len(g) + j] /\ (g \o p)[Len(g) + j] = p[j]
      BY <1>1, <1>3, <1>5, <3>2
    <3> QED
      BY <3>1, <3>3, <3>4, MarkerAssumption, MarkerLength
  <2>2. Bytes(p) = Len(p)
    BY <2>1, NarrowBytes
  <2> QED
    BY <1>5, <1>7, <2>2, MarkerLength
<1> QED
  BY <1>6, <1>7

\* So the markers of the whole are those of the pending text with what came.
LEMMA MarkersOfPending ==
  ASSUME NEW g \in Seq(Symbol), NEW p \in Seq(Symbol), NEW c \in Seq(Symbol),
         ~HasMarker(g \o p), Len(g) # 0 => Bytes(p) >= Held
  PROVE  /\ HasMarker(g \o (p \o c)) <=> HasMarker(p \o c)
         /\ HasMarker(p \o c) => FirstMarker(g \o (p \o c)) = Len(g) + FirstMarker(p \o c)
<1> DEFINE t == p \o c
           whole == g \o t
<1>1. t \in Seq(Symbol)
  BY ConcatProperties
<1>2. \A n \in 1..Len(g) : ~MarkerAt(whole, n)
  BY NoMarkerAcross
<1> HIDE DEF t
<1>3. /\ whole \in Seq(Symbol) /\ Len(whole) = Len(g) + Len(t)
      /\ \A k \in 1..(Len(g) + Len(t)) : whole[k] = IF k <= Len(g) THEN g[k] ELSE t[k - Len(g)]
  BY <1>1, ConcatProperties
<1> HIDE DEF whole
<1>4. Len(g) \in Nat /\ Len(t) \in Nat
  BY <1>1
<1>5. ASSUME NEW n \in 1..Len(t) PROVE MarkerAt(whole, Len(g) + n) <=> MarkerAt(t, n)
  <2>1. (Len(g) + n) + Len(Marker) - 1 <= Len(whole) <=> n + Len(Marker) - 1 <= Len(t)
    BY <1>3, <1>4, MarkerLength
  <2>2. ASSUME NEW k \in 1..Len(Marker), n + Len(Marker) - 1 <= Len(t)
        PROVE  whole[(Len(g) + n) + k - 1] = t[n + k - 1]
    <3>1. (Len(g) + n) + k - 1 \in 1..(Len(g) + Len(t)) /\ ~((Len(g) + n) + k - 1 <= Len(g))
          /\ ((Len(g) + n) + k - 1) - Len(g) = n + k - 1
      BY <1>4, <2>2, MarkerLength
    <3> QED
      BY <1>3, <3>1
  <2> QED
    BY <2>1, <2>2, MarkerLength DEF MarkerAt
<1>6. ASSUME HasMarker(whole) PROVE HasMarker(t)
  <2>1. PICK n \in 1..Len(whole) : MarkerAt(whole, n)
    BY <1>3, <1>6 DEF HasMarker
  <2>2. n - Len(g) \in 1..Len(t) /\ Len(g) + (n - Len(g)) = n
    BY <1>2, <1>3, <1>4, <2>1
  <2>3. MarkerAt(t, n - Len(g))
    BY <1>5, <2>1, <2>2
  <2> QED
    BY <1>1, <2>2, <2>3 DEF HasMarker
<1>7. ASSUME HasMarker(t)
      PROVE  HasMarker(whole) /\ FirstMarker(whole) = Len(g) + FirstMarker(t)
  <2> DEFINE m == FirstMarker(t)
  <2>1. m \in 1..Len(t) /\ MarkerAt(t, m) /\ \A k \in 1..Len(t) : MarkerAt(t, k) => m <= k
    BY <1>1, <1>7, FirstMarkerPlace
  <2> HIDE DEF m
  <2>2. Len(g) + m \in 1..Len(whole) /\ MarkerAt(whole, Len(g) + m)
    BY <1>3, <1>4, <1>5, <2>1
  <2>3. ASSUME NEW k \in 1..Len(whole), MarkerAt(whole, k) PROVE Len(g) + m <= k
    <3>1. k - Len(g) \in 1..Len(t) /\ Len(g) + (k - Len(g)) = k
      BY <1>2, <1>3, <1>4, <2>3
    <3>2. MarkerAt(t, k - Len(g))
      BY <1>5, <2>3, <3>1
    <3> QED
      BY <1>4, <2>1, <3>1, <3>2
  <2> QED
    BY <1>3, <2>2, <2>3, FirstMarkerIs DEF m
<1> QED
  BY <1>6, <1>7 DEF t, whole

-----------------------------------------------------------------------------
(***************************************************************************)
(* The stream.                                                              *)
(***************************************************************************)
LEMMA LimitsAreNat == MaxBytes \in Nat /\ MaxRetries \in Nat /\ Held \in Nat
BY ToolOutputAssumption, MarkerLength

LEMMA Joined ==
  ASSUME NEW a \in Seq(Symbol), NEW b \in Seq(Symbol)
  PROVE  a \o b \in Seq(Symbol) /\ a \o << >> = a /\ << >> \o a = a
BY ConcatProperties, ConcatEmptySeq

-----------------------------------------------------------------------------
(***************************************************************************)
(* The transformer: content.                                                *)
(***************************************************************************)
LEMMA PushBuffering ==
  ASSUME NEW s \in Transformer, NEW content \in Seq(Symbol), s.buffering
  PROVE  /\ PushContent(s, content).tr = [s EXCEPT !.buffer = s.buffer \o content]
         /\ PushContent(s, content).text = << >>
         /\ PushContent(s, content).verdict = "ok" => Bytes(s.buffer \o content) <= MaxBytes
BY DEF PushContent, Step

LEMMA PushMarker ==
  ASSUME NEW s \in Transformer, NEW content \in Seq(Symbol), ~s.buffering,
         HasMarker(s.pending \o content)
  PROVE  LET text == s.pending \o content
             m    == FirstMarker(text) - 1
             step == PushContent(s, content)
         IN  /\ step.tr = [s EXCEPT !.pending = << >>, !.buffer = After(text, m), !.buffering = TRUE]
             /\ step.text = IF s.suppress THEN << >> ELSE First(text, m)
             /\ step.verdict = "ok" => Bytes(After(text, m)) <= MaxBytes
BY DEF PushContent, Step

LEMMA PushSuppressed ==
  ASSUME NEW s \in Transformer, NEW content \in Seq(Symbol), ~s.buffering, s.suppress,
         ~HasMarker(s.pending \o content)
  PROVE  LET text == s.pending \o content
             step == PushContent(s, content)
         IN  /\ step.tr = [s EXCEPT !.pending = text] /\ step.text = << >>
             /\ step.verdict = "ok" => Bytes(text) <= MaxBytes
BY DEF PushContent, Step

LEMMA PushPlain ==
  ASSUME NEW s \in Transformer, NEW content \in Seq(Symbol), ~s.buffering, ~s.suppress,
         ~HasMarker(s.pending \o content)
  PROVE  LET text == s.pending \o content
             step == PushContent(s, content)
         IN  /\ step.tr = [s EXCEPT !.pending = After(text, Streamable(text))]
             /\ step.text = First(text, Streamable(text))
BY DEF PushContent, Step

LEMMA PushTypes ==
  ASSUME NEW s \in Transformer, NEW content \in Seq(Symbol),
         NEW step, step = PushContent(s, content)
  PROVE  /\ step.tr \in Transformer /\ step.text \in Seq(Symbol)
         /\ step.tr.finished = s.finished /\ step.tr.suppress = s.suppress
         /\ step.tr.sent_role = s.sent_role
<1> DEFINE text == s.pending \o content
<1>1. /\ s.pending \in Seq(Symbol) /\ s.buffer \in Seq(Symbol)
      /\ text \in Seq(Symbol) /\ s.buffer \o content \in Seq(Symbol) /\ << >> \in Seq(Symbol)
  BY ConcatProperties DEF Transformer
<1> HIDE DEF text
<1>2. CASE s.buffering
  <2>1. step.tr = [s EXCEPT !.buffer = s.buffer \o content] /\ step.text = << >>
    BY <1>2, PushBuffering
  <2> QED
    BY <1>1, <2>1 DEF Transformer
<1>3. CASE ~s.buffering /\ HasMarker(text)
  <2>1. /\ step.tr = [s EXCEPT !.pending = << >>,
                                !.buffer = After(text, FirstMarker(text) - 1),
                                !.buffering = TRUE]
        /\ step.text = IF s.suppress THEN << >> ELSE First(text, FirstMarker(text) - 1)
    BY <1>3, PushMarker DEF text
  <2>2. FirstMarker(text) - 1 \in 0..Len(text)
    BY <1>1, <1>3, FirstMarkerPlace
  <2>3. After(text, FirstMarker(text) - 1) \in Seq(Symbol)
        /\ First(text, FirstMarker(text) - 1) \in Seq(Symbol)
    BY <1>1, <2>2, Parts
  <2> QED
    BY <1>1, <2>1, <2>3 DEF Transformer
<1>4. CASE ~s.buffering /\ ~HasMarker(text) /\ s.suppress
  <2>1. step.tr = [s EXCEPT !.pending = text] /\ step.text = << >>
    BY <1>4, PushSuppressed DEF text
  <2> QED
    BY <1>1, <2>1 DEF Transformer
<1>5. CASE ~s.buffering /\ ~HasMarker(text) /\ ~s.suppress
  <2>1. step.tr = [s EXCEPT !.pending = After(text, Streamable(text))]
        /\ step.text = First(text, Streamable(text))
    BY <1>5, PushPlain DEF text
  <2>2. After(text, Streamable(text)) \in Seq(Symbol) /\ First(text, Streamable(text)) \in Seq(Symbol)
    BY <1>1, StreamablePlace, Parts
  <2> QED
    BY <1>1, <2>1, <2>2 DEF Transformer
<1> QED
  BY <1>2, <1>3, <1>4, <1>5

(***************************************************************************)
(* Content that is accepted keeps what an attempt holds.                    *)
(***************************************************************************)
LEMMA PushWhileBuffering ==
  ASSUME NEW s \in Transformer, NEW content \in Seq(Symbol),
         NEW given \in Seq(Symbol), NEW sent \in Seq(Symbol),
         Holding(s, given, sent), Bounded(s), s.buffering,
         NEW step, step = PushContent(s, content), step.verdict = "ok"
  PROVE  Holding(step.tr, given \o step.text, sent \o content) /\ Bounded(step.tr)
<1>1. /\ step.tr = [s EXCEPT !.buffer = s.buffer \o content] /\ step.text = << >>
      /\ Bytes(s.buffer \o content) <= MaxBytes
  BY PushBuffering
<1>2. /\ step.tr.buffer = s.buffer \o content /\ step.tr.pending = s.pending /\ step.tr.buffering
      /\ step.tr.suppress = s.suppress
  BY <1>1 DEF Transformer
<1>3. given \o step.text = given
  BY <1>1, ConcatEmptySeq
<1>4. HasMarker(sent) /\ s.pending = << >> /\ s.buffer = After(sent, FirstMarker(sent) - 1)
  BY DEF Holding
<1>5. HasMarker(sent \o content) /\ FirstMarker(sent \o content) = FirstMarker(sent)
  BY <1>4, MarkerStays
<1>6. After(sent \o content, FirstMarker(sent \o content) - 1) = s.buffer \o content
  <2> DEFINE m == FirstMarker(sent) - 1
  <2>1. m \in 0..Len(sent)
    BY <1>4, FirstMarkerPlace
  <2>2. s.buffer = After(sent, m) /\ FirstMarker(sent \o content) - 1 = m
    BY <1>4, <1>5
  <2> HIDE DEF m
  <2>3. After(sent \o content, m) = After(sent, m) \o content
    BY <2>1, CutJoined
  <2> QED
    BY <2>2, <2>3
<1>7. ~s.suppress => given \o s.pending \o (s.buffer \o content) = sent \o content
  <2>1. s.buffer \in Seq(Symbol) /\ s.pending \in Seq(Symbol)
    BY DEF Transformer
  <2>2. given \o s.pending \in Seq(Symbol)
    BY <2>1, Joined
  <2>3. ((given \o s.pending) \o s.buffer) \o content = (given \o s.pending) \o (s.buffer \o content)
    BY <2>1, <2>2, Regroup
  <2> QED
    BY <2>3 DEF Holding
<1> QED
  BY <1>1, <1>2, <1>3, <1>4, <1>5, <1>6, <1>7 DEF Holding, Bounded

LEMMA PushWhileSuppressing ==
  ASSUME NEW s \in Transformer, NEW content \in Seq(Symbol),
         NEW given \in Seq(Symbol), NEW sent \in Seq(Symbol),
         Holding(s, given, sent), Bounded(s), ~s.buffering, s.suppress,
         NEW step, step = PushContent(s, content), step.verdict = "ok"
  PROVE  Holding(step.tr, given \o step.text, sent \o content) /\ Bounded(step.tr)
<1> DEFINE text == sent \o content
<1>1. /\ given = << >> /\ s.pending = sent /\ s.buffer = << >> /\ text = s.pending \o content
      /\ text \in Seq(Symbol)
  BY ConcatProperties DEF Holding
<1> HIDE DEF text
<1>2. CASE HasMarker(text)
  <2>1. /\ step.tr = [s EXCEPT !.pending = << >>,
                                !.buffer = After(text, FirstMarker(text) - 1),
                                !.buffering = TRUE]
        /\ step.text = << >> /\ Bytes(After(text, FirstMarker(text) - 1)) <= MaxBytes
    BY <1>1, <1>2, PushMarker
  <2>2. /\ step.tr.pending = << >> /\ step.tr.buffering /\ step.tr.suppress
        /\ step.tr.buffer = After(text, FirstMarker(text) - 1)
    BY <2>1 DEF Transformer
  <2>3. Bytes(step.tr.pending) <= MaxBytes
    BY <2>2, BytesEmpty, LimitsAreNat
  <2>4. given \o step.text = << >>
    BY <1>1, <2>1, ConcatEmptySeq
  <2> QED
    BY <1>2, <2>1, <2>2, <2>3, <2>4 DEF Holding, Bounded, text
<1>3. CASE ~HasMarker(text)
  <2>1. step.tr = [s EXCEPT !.pending = text] /\ step.text = << >> /\ Bytes(text) <= MaxBytes
    BY <1>1, <1>3, PushSuppressed
  <2>2. /\ step.tr.pending = text /\ ~step.tr.buffering /\ step.tr.suppress
        /\ step.tr.buffer = << >>
    BY <1>1, <2>1 DEF Transformer
  <2>3. given \o step.text = << >>
    BY <1>1, <2>1, ConcatEmptySeq
  <2> QED
    BY <1>3, <2>1, <2>2, <2>3, BytesEmpty, LimitsAreNat DEF Holding, Bounded, text
<1> QED
  BY <1>2, <1>3

LEMMA PushWhileStreaming ==
  ASSUME NEW s \in Transformer, NEW content \in Seq(Symbol),
         NEW given \in Seq(Symbol), NEW sent \in Seq(Symbol),
         Holding(s, given, sent), Bounded(s), ~s.buffering, ~s.suppress,
         NEW step, step = PushContent(s, content), step.verdict = "ok"
  PROVE  Holding(step.tr, given \o step.text, sent \o content) /\ Bounded(step.tr)
<1> DEFINE text == s.pending \o content
           m == FirstMarker(text)
           n == Streamable(text)
<1>1. s.pending \in Seq(Symbol) /\ text \in Seq(Symbol) /\ s.buffer = << >>
  BY ConcatProperties DEF Transformer, Holding
<1>2. given \o s.pending = sent
  <2>1. given \o s.pending \in Seq(Symbol)
    BY <1>1, ConcatProperties
  <2> QED
    BY <1>1, <2>1, ConcatEmptySeq DEF Holding
<1>3. sent \o content = given \o text
  <2>1. (given \o s.pending) \o content = given \o (s.pending \o content)
    BY <1>1, Regroup
  <2> QED
    BY <1>2, <2>1
<1>4. Len(given) # 0 => Bytes(s.pending) >= Held
  BY EmptySeq DEF Holding
<1>5. /\ HasMarker(sent \o content) <=> HasMarker(text)
      /\ HasMarker(text) => FirstMarker(sent \o content) = Len(given) + m
  <2>1. ~HasMarker(given \o s.pending)
    BY <1>2 DEF Holding
  <2> QED
    BY <1>1, <1>3, <1>4, <2>1, MarkersOfPending
<1>6. CASE HasMarker(text)
  <2>1. m \in 1..Len(text) /\ m - 1 \in 0..Len(text)
    <3>1. m \in 1..Len(text)
      BY <1>1, <1>6, FirstMarkerPlace
    <3> HIDE DEF m, text
    <3> QED
      BY <1>1, <3>1
  <2>2. /\ step.tr = [s EXCEPT !.pending = << >>, !.buffer = After(text, m - 1), !.buffering = TRUE]
        /\ step.text = First(text, m - 1) /\ Bytes(After(text, m - 1)) <= MaxBytes
    BY <1>6, PushMarker
  <2>3. /\ First(text, m - 1) \in Seq(Symbol) /\ After(text, m - 1) \in Seq(Symbol)
        /\ First(text, m - 1) \o After(text, m - 1) = text
    BY <1>1, <2>1, Parts
  <2>4. After(sent \o content, FirstMarker(sent \o content) - 1) = After(text, m - 1)
    <3>1. FirstMarker(sent \o content) - 1 = Len(given) + (m - 1)
      <4>1. FirstMarker(sent \o content) = Len(given) + m /\ Len(given) \in Nat
        BY <1>5, <1>6
      <4> HIDE DEF m, text
      <4> QED
        BY <1>1, <2>1, <4>1
    <3>2. After(given \o text, Len(given) + (m - 1)) = After(text, m - 1)
      BY <1>1, <2>1, CutBehind
    <3> QED
      BY <1>3, <3>1, <3>2
  <2>5. (given \o step.text) \o << >> \o After(text, m - 1) = sent \o content
    <3>1. given \o First(text, m - 1) \in Seq(Symbol)
      BY <2>3, Joined
    <3>2. (given \o First(text, m - 1)) \o << >> = given \o First(text, m - 1)
      BY <3>1, Joined
    <3>3. (given \o First(text, m - 1)) \o After(text, m - 1)
            = given \o (First(text, m - 1) \o After(text, m - 1))
      BY <2>3, Regroup
    <3> QED
      BY <1>3, <2>2, <2>3, <3>2, <3>3
  <2> HIDE DEF text, m
  <2>6. /\ step.tr.pending = << >> /\ step.tr.buffering /\ ~step.tr.suppress
        /\ step.tr.buffer = After(text, m - 1)
    BY <2>2 DEF Transformer
  <2>7. Bytes(step.tr.pending) <= Held + 1
    BY <2>6, BytesEmpty, LimitsAreNat
  <2> QED
    BY <1>5, <1>6, <2>2, <2>4, <2>5, <2>6, <2>7 DEF Holding, Bounded
<1>7. CASE ~HasMarker(text)
  <2>1. step.tr = [s EXCEPT !.pending = After(text, n)] /\ step.text = First(text, n)
    BY <1>7, PushPlain
  <2>2. /\ n \in 0..Len(text)
        /\ n # 0 => Bytes(After(text, n)) >= Held
        /\ Bytes(After(text, n)) <= Held + 1
    BY <1>1, StreamablePlace
  <2>3. /\ First(text, n) \in Seq(Symbol) /\ After(text, n) \in Seq(Symbol)
        /\ First(text, n) \o After(text, n) = text /\ Len(First(text, n)) = n
    <3> HIDE DEF n, text
    <3> QED
      BY <1>1, <2>2, Parts
  <2>4. (given \o step.text) \o After(text, n) \o << >> = sent \o content
    <3>1. (given \o First(text, n)) \o After(text, n) = given \o (First(text, n) \o After(text, n))
      BY <2>3, Regroup
    <3>2. given \o text \in Seq(Symbol) /\ (given \o text) \o << >> = given \o text
      BY <1>1, Joined
    <3> QED
      BY <1>3, <2>1, <2>3, <3>1, <3>2
  <2>5. given \o step.text # << >> => Bytes(After(text, n)) >= Held
    <3>1. CASE n # 0
      BY <2>2, <3>1
    <3>2. CASE n = 0
      <4>1. First(text, n) = << >> /\ After(text, n) = text
        BY <1>1, <3>2, SubSeqEmpty, SubSeqFull DEF First, After
      <4>2. given \o step.text = given
        BY <2>1, <4>1, ConcatEmptySeq
      <4>3. Bytes(text) = Bytes(s.pending) + Bytes(content)
            /\ Bytes(s.pending) \in Nat /\ Bytes(content) \in Nat
        BY <1>1, BytesJoined, BytesType
      <4> HIDE DEF text, n
      <4>4. given # << >> => Bytes(s.pending) >= Held
        BY DEF Holding
      <4> QED
        BY <4>1, <4>2, <4>3, <4>4, LimitsAreNat
    <3> QED
      BY <3>1, <3>2
  <2> HIDE DEF text, n
  <2>6. /\ step.tr.pending = After(text, n) /\ ~step.tr.buffering /\ ~step.tr.suppress
        /\ step.tr.buffer = << >>
    BY <1>1, <2>1 DEF Transformer
  <2>7. Bytes(step.tr.buffer) <= MaxBytes
    BY <2>6, BytesEmpty, LimitsAreNat
  <2> QED
    BY <1>5, <1>7, <2>2, <2>4, <2>5, <2>6, <2>7 DEF Holding, Bounded
<1> QED
  BY <1>6, <1>7

LEMMA PushKeeps ==
  ASSUME NEW s \in Transformer, NEW content \in Seq(Symbol),
         NEW given \in Seq(Symbol), NEW sent \in Seq(Symbol),
         Holding(s, given, sent), Bounded(s),
         NEW step, step = PushContent(s, content), step.verdict = "ok"
  PROVE  Holding(step.tr, given \o step.text, sent \o content) /\ Bounded(step.tr)
BY PushWhileBuffering, PushWhileSuppressing, PushWhileStreaming

-----------------------------------------------------------------------------
(***************************************************************************)
(* The transformer: the finish.                                             *)
(***************************************************************************)
LEMMA FinishEffect ==
  ASSUME NEW s \in Transformer, FinishContent(s).verdict = "ok"
  PROVE  LET step == FinishContent(s)
             end  == [s EXCEPT !.finished = TRUE, !.pending = << >>]
         IN  \/ /\ s.buffering /\ step.tr = end /\ step.text = << >> /\ step.calls = TRUE
             \/ /\ s.buffering /\ step.text = s.buffer /\ step.calls = FALSE
                /\ step.tr = [end EXCEPT !.buffering = FALSE, !.buffer = << >>]
             \/ /\ ~s.buffering /\ ~s.suppress
                /\ step.tr = end /\ step.text = s.pending /\ step.calls = FALSE
<1>1. CASE ~s.buffering
  BY <1>1 DEF FinishContent, Step
<1>2. CASE s.buffering
  <2>1. ~(Bytes(s.buffer) > MaxBytes)
    <3>1. CASE Bytes(s.buffer) > MaxBytes
      <4>1. Classify(s.buffer) = "invalid"
        BY <3>1 DEF Classify
      <4>2. FinishContent(s) = Step(s, << >>, "broken")
        BY <1>2, <3>1, <4>1 DEF FinishContent
      <4> QED
        BY <4>2 DEF Step
    <3> QED
      BY <3>1
  <2>2. CASE Classify(s.buffer) = "calls"
    BY <1>2, <2>1, <2>2 DEF FinishContent, Step
  <2>3. CASE Classify(s.buffer) = "text"
    BY <1>2, <2>1, <2>3 DEF FinishContent, Step
  <2>4. CASE Classify(s.buffer) # "calls" /\ Classify(s.buffer) # "text"
    BY <1>2, <2>1, <2>4 DEF FinishContent, Step
  <2> QED
    BY <2>2, <2>3, <2>4
<1> QED
  BY <1>1, <1>2

LEMMA FinishTypes ==
  ASSUME NEW s \in Transformer,
         NEW step, step = FinishContent(s), step.verdict = "ok"
  PROVE  /\ step.tr \in Transformer /\ step.text \in Seq(Symbol) /\ step.calls \in BOOLEAN
         /\ step.tr.finished /\ step.tr.suppress = s.suppress
         /\ step.tr.sent_role = s.sent_role
<1>1. s.pending \in Seq(Symbol) /\ s.buffer \in Seq(Symbol) /\ << >> \in Seq(Symbol)
  BY DEF Transformer
<1> QED
  BY <1>1, FinishEffect, ZenonT(30) DEF Transformer

LEMMA FinishKeeps ==
  ASSUME NEW s \in Transformer, NEW given \in Seq(Symbol), NEW sent \in Seq(Symbol),
         Holding(s, given, sent), Bounded(s),
         NEW step, step = FinishContent(s), step.verdict = "ok"
  PROVE  Finished(step.tr, step.calls, given \o step.text, sent) /\ Bounded(step.tr)
<1>1. s.pending \in Seq(Symbol) /\ s.buffer \in Seq(Symbol) /\ given \o s.buffer \in Seq(Symbol)
  BY Joined DEF Transformer
<1>2. Bytes(<< >>) = 0 /\ Bytes(<< >>) <= MaxBytes /\ Bytes(<< >>) <= Held + 1
  BY BytesEmpty, LimitsAreNat
<1>3. given \o << >> = given /\ (given \o s.buffer) \o << >> = given \o s.buffer
  BY <1>1, Joined
<1>4. CASE s.buffering /\ step.text = << >> /\ step.calls = TRUE
           /\ step.tr = [s EXCEPT !.finished = TRUE, !.pending = << >>]
  <2>1. /\ step.tr.pending = << >> /\ step.tr.buffer = s.buffer
        /\ step.tr.suppress = s.suppress
    BY <1>4 DEF Transformer
  <2>2. given \o step.text = given
    BY <1>3, <1>4
  <2> QED
    BY <1>2, <1>4, <2>1, <2>2 DEF Holding, Finished, Bounded
<1>5. CASE s.buffering /\ step.text = s.buffer /\ step.calls = FALSE
           /\ step.tr = [s EXCEPT !.finished = TRUE, !.pending = << >>,
                                  !.buffering = FALSE, !.buffer = << >>]
  <2>1. /\ step.tr.pending = << >> /\ step.tr.buffer = << >>
        /\ step.tr.suppress = s.suppress
    BY <1>5 DEF Transformer
  <2>2. ~s.suppress => given \o s.buffer = sent
    BY <1>3, <1>5 DEF Holding
  <2>3. s.suppress => given \o s.buffer = s.buffer
    BY <1>1, Joined DEF Holding
  <2> QED
    BY <1>2, <1>3, <1>5, <2>1, <2>2, <2>3 DEF Holding, Finished, Bounded
<1>6. CASE ~s.buffering /\ ~s.suppress /\ step.text = s.pending /\ step.calls = FALSE
           /\ step.tr = [s EXCEPT !.finished = TRUE, !.pending = << >>]
  <2>1. /\ step.tr.pending = << >> /\ step.tr.buffer = << >>
        /\ step.tr.suppress = s.suppress
    BY <1>6 DEF Transformer, Holding
  <2>2. given \o s.pending \in Seq(Symbol)
    BY <1>1, Joined
  <2>3. (given \o s.pending) \o << >> = given \o s.pending
    BY <2>2, Joined
  <2>4. given \o s.pending = sent
    BY <1>6, <2>3 DEF Holding
  <2> QED
    BY <1>2, <1>6, <2>1, <2>3, <2>4 DEF Finished, Bounded
<1> QED
  BY <1>4, <1>5, <1>6, FinishEffect

-----------------------------------------------------------------------------
(***************************************************************************)
(* One event: content, then perhaps the finish.                             *)
(***************************************************************************)
Pushed(s, content) == IF content = None THEN Step(s, << >>, "ok") ELSE PushContent(s, content)

LEMMA HandleContentOnly ==
  ASSUME NEW s, NEW content, ~s.finished
  PROVE  HandleContent(s, content, None) = Pushed(s, content)
BY DEF HandleContent, Pushed

LEMMA HandleBoth ==
  ASSUME NEW s, NEW content, NEW finish, ~s.finished, finish # None,
         HandleContent(s, content, finish).verdict = "ok"
  PROVE  LET pushed == Pushed(s, content)
             ended  == FinishContent(pushed.tr)
             step   == HandleContent(s, content, finish)
         IN  /\ pushed.verdict = "ok" /\ ended.verdict = "ok"
             /\ step.tr = ended.tr /\ step.calls = ended.calls
             /\ step.text = pushed.text \o ended.text
<1> DEFINE pushed == Pushed(s, content)
           ended  == FinishContent(pushed.tr)
           step   == HandleContent(s, content, finish)
<1>1. step = Then(pushed, ended)
  BY DEF HandleContent, Pushed
<1>2. ended = [tr |-> ended.tr, text |-> ended.text, calls |-> ended.calls,
               verdict |-> ended.verdict]
  BY DEF FinishContent, Step
<1>3. step.verdict = "ok"
  OBVIOUS
<1> HIDE DEF pushed, ended, step
<1>4. pushed.verdict = "ok"
  BY <1>1, <1>3 DEF Then
<1>5. step = [ended EXCEPT !.text = pushed.text \o ended.text]
  BY <1>1, <1>4 DEF Then
<1>6. /\ step.tr = ended.tr /\ step.calls = ended.calls /\ step.verdict = ended.verdict
      /\ step.text = pushed.text \o ended.text
  BY <1>2, <1>5
<1> QED
  BY <1>3, <1>4, <1>6 DEF pushed, ended, step

LEMMA PushedKeeps ==
  ASSUME NEW s \in Transformer, NEW content \in Seq(Symbol) \cup {None},
         NEW given \in Seq(Symbol), NEW sent \in Seq(Symbol),
         Holding(s, given, sent), Bounded(s),
         Pushed(s, content).verdict = "ok",
         NEW added, added = IF content = None THEN sent ELSE sent \o content
  PROVE  LET step == Pushed(s, content)
         IN  /\ step.tr \in Transformer /\ step.text \in Seq(Symbol) /\ step.calls = FALSE
             /\ step.tr.finished = s.finished /\ step.tr.suppress = s.suppress
             /\ step.tr.sent_role = s.sent_role
             /\ Holding(step.tr, given \o step.text, added) /\ Bounded(step.tr)
<1> DEFINE step == Pushed(s, content)
<1>1. CASE content = None
  <2>1. step.tr = s /\ step.text = << >> /\ step.calls = FALSE
    BY <1>1 DEF Step, Pushed
  <2>2. << >> \in Seq(Symbol) /\ given \o << >> = given
    BY Joined
  <2> QED
    BY <1>1, <2>1, <2>2
<1>2. CASE content # None
  <2>1. step = PushContent(s, content) /\ content \in Seq(Symbol)
    BY <1>2 DEF Pushed
  <2>2. step.calls = FALSE
    BY <2>1 DEF PushContent, Step
  <2> QED
    BY <1>2, <2>1, <2>2, PushTypes, PushKeeps
<1> QED
  BY <1>1, <1>2

\* A text, and what an event adds to it.
Extended(text, content) == IF content = None THEN text ELSE text \o content

\* What handling an event of an unfinished attempt makes of the transformer.
Handled(step, s, finish, given, added) ==
  /\ step.tr \in Transformer /\ step.text \in Seq(Symbol) /\ step.calls \in BOOLEAN
  /\ step.tr.suppress = s.suppress /\ step.tr.sent_role = s.sent_role
  /\ step.tr.finished <=> finish # None
  /\ step.calls => finish # None
  /\ finish = None => Holding(step.tr, given \o step.text, added)
  /\ finish # None => Finished(step.tr, step.calls, given \o step.text, added)
  /\ Bounded(step.tr)

LEMMA HandleKeeps ==
  ASSUME NEW s \in Transformer, NEW content \in Seq(Symbol) \cup {None},
         NEW finish \in Reasons \cup {None},
         NEW given \in Seq(Symbol), NEW sent \in Seq(Symbol),
         Holding(s, given, sent), Bounded(s), ~s.finished,
         HandleContent(s, content, finish).verdict = "ok"
  PROVE  Handled(HandleContent(s, content, finish), s, finish, given, Extended(sent, content))
<1> DEFINE added  == Extended(sent, content)
           step   == HandleContent(s, content, finish)
           pushed == Pushed(s, content)
           ended  == FinishContent(pushed.tr)
<1> SUFFICES Handled(step, s, finish, given, added)
  OBVIOUS
<1>0. added = IF content = None THEN sent ELSE sent \o content
  BY DEF Extended
<1> HIDE DEF added
<1>1. CASE finish = None
  <2>1. step = pushed
    BY <1>1, HandleContentOnly
  <2>2. /\ pushed.tr \in Transformer /\ pushed.text \in Seq(Symbol) /\ pushed.calls = FALSE
        /\ pushed.tr.finished = s.finished /\ pushed.tr.suppress = s.suppress
        /\ pushed.tr.sent_role = s.sent_role
        /\ Holding(pushed.tr, given \o pushed.text, added) /\ Bounded(pushed.tr)
    BY <1>0, <2>1, PushedKeeps
  <2> HIDE DEF pushed, step
  <2> QED
    BY <1>1, <2>1, <2>2 DEF Handled
<1>2. CASE finish # None
  <2>1. /\ pushed.verdict = "ok" /\ ended.verdict = "ok"
        /\ step.tr = ended.tr /\ step.calls = ended.calls
        /\ step.text = pushed.text \o ended.text
    BY <1>2, HandleBoth
  <2>2. /\ pushed.tr \in Transformer /\ pushed.text \in Seq(Symbol)
        /\ pushed.tr.suppress = s.suppress /\ pushed.tr.sent_role = s.sent_role
        /\ Holding(pushed.tr, given \o pushed.text, added) /\ Bounded(pushed.tr)
    BY <1>0, <2>1, PushedKeeps
  <2>3. added \in Seq(Symbol) /\ given \o pushed.text \in Seq(Symbol)
    BY <1>0, <2>2, Joined
  <2> HIDE DEF pushed
  <2>4. /\ ended.tr \in Transformer /\ ended.text \in Seq(Symbol) /\ ended.calls \in BOOLEAN
        /\ ended.tr.finished /\ ended.tr.suppress = pushed.tr.suppress
        /\ ended.tr.sent_role = pushed.tr.sent_role
    BY <2>1, <2>2, FinishTypes
  <2>5. Finished(ended.tr, ended.calls, (given \o pushed.text) \o ended.text, added)
        /\ Bounded(ended.tr)
    BY <2>1, <2>2, <2>3, FinishKeeps
  <2> HIDE DEF ended
  <2>6. (given \o pushed.text) \o ended.text = given \o step.text
    <3>1. (given \o pushed.text) \o ended.text = given \o (pushed.text \o ended.text)
      BY <2>2, <2>4, Regroup
    <3> QED
      BY <2>1, <3>1
  <2>7. step.text \in Seq(Symbol)
    BY <2>1, <2>2, <2>4, Joined
  <2> HIDE DEF step
  <2> QED
    BY <1>2, <2>1, <2>2, <2>4, <2>5, <2>6, <2>7 DEF Handled
<1> QED
  BY <1>1, <1>2

-----------------------------------------------------------------------------
(***************************************************************************)
(* The invariant holds at the start of an attempt, the first and the later. *)
(***************************************************************************)
LEMMA NoMarkerInNothing == ~HasMarker(<< >>)
BY DEF HasMarker

LEMMA FreshAttempt ==
  ASSUME NEW retrying \in BOOLEAN
  PROVE  /\ NewTransformer(retrying) \in Transformer
         /\ ~NewTransformer(retrying).finished /\ ~NewTransformer(retrying).sent_role
         /\ Holding(NewTransformer(retrying), << >>, << >>) /\ Bounded(NewTransformer(retrying))
<1> DEFINE s == NewTransformer(retrying)
<1>1. /\ s.pending = << >> /\ s.buffer = << >> /\ s.buffering = FALSE /\ s.suppress = retrying
      /\ s.finished = FALSE /\ s.sent_role = FALSE /\ s \in Transformer
  BY DEF NewTransformer, Transformer
<1>2. << >> \o << >> \o << >> = << >>
  OBVIOUS
<1> HIDE DEF s
<1>3. Holding(s, << >>, << >>)
  BY <1>1, <1>2, NoMarkerInNothing DEF Holding
<1>4. Bounded(s)
  BY <1>1, BytesEmpty, LimitsAreNat DEF Bounded
<1> QED
  BY <1>1, <1>3, <1>4 DEF s

LEMMA WholeText ==
  ASSUME NEW text \in Seq(Symbol)
  PROVE  First(text, Len(text)) = text /\ After(text, Len(text)) = << >>
<1>1. Len(text) \in 0..Len(text)
  OBVIOUS
<1>2. After(text, Len(text)) \in Seq(Symbol) /\ Len(After(text, Len(text))) = 0
  BY <1>1, Parts
<1> QED
  BY <1>2, EmptySeq, SubSeqFull DEF First

LEMMA InitInvariant == Init => IInv
<1> SUFFICES ASSUME Init PROVE IInv
  OBVIOUS
<1>1. /\ tr \in Transformer /\ ~tr.finished /\ ~tr.sent_role
      /\ Holding(tr, << >>, << >>) /\ Bounded(tr)
  BY FreshAttempt DEF Init
<1>2. /\ client \in Received /\ client.text = << >> /\ client.calls = FALSE
      /\ client.reason = None /\ client.roles = 0 /\ client.reasoning = FALSE
  BY DEF Init, Received
<1>3. TypeOK
  <2>1. << >> \in Seq(Symbol)
    OBVIOUS
  <2> QED
    BY <1>1, <1>2, <2>1 DEF Init, TypeOK
<1>4. RequestsCounted
  BY LimitsAreNat DEF Init, RequestsCounted
<1>5. ConclusionKept
  BY <1>1, <1>2 DEF ConclusionKept
<1>6. RolesCounted /\ RoleLeads
  <2>1. pc = "connecting" /\ requests = 0
    BY DEF Init
  <2> QED
    BY <1>1, <1>2, <2>1 DEF RolesCounted, RoleLeads
<1>7. AttemptKept
  <2>1. << >> \in Seq(Symbol) /\ Len(<< >>) <= Len(<< >>)
    OBVIOUS
  <2>2. First(<< >>, Len(<< >>)) = << >> /\ After(<< >>, Len(<< >>)) = << >>
    BY <2>1, WholeText
  <2>3. Given = << >> /\ First(client.text, Len(spoken)) = spoken
        /\ Len(spoken) <= Len(client.text)
    BY <1>2, <2>1, <2>2 DEF Init, Given
  <2> QED
    BY <1>1, <2>3 DEF Init, AttemptKept
<1> QED
  BY <1>3, <1>4, <1>5, <1>6, <1>7 DEF IInv

-----------------------------------------------------------------------------
(***************************************************************************)
(* An event that is taken.                                                  *)
(***************************************************************************)
Taken(content, finish, reasoning) ==
  LET step == HandleContent(tr, content, finish)
  IN  /\ pc = "reading" /\ pc' \in {"reading", "done"}
      /\ step.verdict = "ok"
      /\ Deliver(step, reasoning, finish)
      /\ got' = IF content = None \/ tr.finished THEN got ELSE got \o content
      /\ events' \in Nat
      /\ UNCHANGED <<retries, requests, spoken>>

LEMMA GivenParts ==
  ASSUME IInv, pc = "reading"
  PROVE  /\ client.text \in Seq(Symbol) /\ Given \in Seq(Symbol) /\ spoken \in Seq(Symbol)
         /\ got \in Seq(Symbol) /\ tr \in Transformer /\ client \in Received
         /\ Len(spoken) \in 0..Len(client.text)
         /\ First(client.text, Len(spoken)) = spoken
         /\ Bounded(tr)
<1>1. /\ client.text \in Seq(Symbol) /\ spoken \in Seq(Symbol) /\ got \in Seq(Symbol)
      /\ tr \in Transformer /\ client \in Received
  BY DEF IInv, TypeOK, Received
<1>2. /\ Len(spoken) <= Len(client.text) /\ First(client.text, Len(spoken)) = spoken
      /\ Bounded(tr)
  BY DEF IInv, AttemptKept
<1>3. Len(spoken) \in 0..Len(client.text)
  BY <1>1, <1>2
<1> QED
  BY <1>1, <1>2, <1>3, Parts DEF Given

\* What an event that is taken makes of the transformer and the client.
Effect(step, finish) ==
  /\ step.tr \in Transformer /\ step.text \in Seq(Symbol) /\ step.calls \in BOOLEAN
  /\ step.tr.suppress = tr.suppress /\ step.tr.sent_role = tr.sent_role
  /\ step.tr.finished <=> tr.finished \/ finish # None
  /\ step.calls => finish # None /\ ~tr.finished
  /\ tr.finished => step.text = << >>
  /\ IF step.tr.finished
     THEN Finished(step.tr, client.calls \/ step.calls, Given \o step.text, got')
     ELSE Holding(step.tr, Given \o step.text, got')
  /\ Bounded(step.tr)

LEMMA TakenEffect ==
  ASSUME IInv, NEW content \in Seq(Symbol) \cup {None}, NEW finish \in Reasons \cup {None},
         NEW reasoning \in BOOLEAN, Taken(content, finish, reasoning)
  PROVE  Effect(HandleContent(tr, content, finish), finish)
<1> DEFINE step == HandleContent(tr, content, finish)
<1> SUFFICES Effect(step, finish)
  OBVIOUS
<1>0. pc = "reading" /\ step.verdict = "ok"
  BY DEF Taken
<1>1. /\ Given \in Seq(Symbol) /\ got \in Seq(Symbol) /\ tr \in Transformer
      /\ client \in Received /\ Bounded(tr)
  BY <1>0, GivenParts
<1>2. IF tr.finished THEN Finished(tr, client.calls, Given, got) ELSE Holding(tr, Given, got)
  BY <1>0 DEF IInv, AttemptKept
<1>3. CASE tr.finished
  <2>1. step.tr = tr /\ step.text = << >> /\ step.calls = FALSE
    BY <1>3 DEF HandleContent, Step
  <2>2. << >> \in Seq(Symbol) /\ Given \o << >> = Given /\ got' = got
    BY <1>1, <1>3, Joined DEF Taken
  <2>3. client.calls \/ step.calls <=> client.calls
    BY <2>1
  <2>4. Finished(tr, client.calls \/ step.calls, Given, got)
    BY <1>2, <1>3, <2>3 DEF Finished
  <2> HIDE DEF step
  <2>5. tr.suppress = step.tr.suppress /\ Given \o step.text = Given
        /\ Finished(step.tr, client.calls \/ step.calls, Given \o step.text, got')
    BY <2>1, <2>2, <2>4
  <2> QED
    BY <1>1, <1>3, <2>1, <2>2, <2>5 DEF Effect
<1>4. CASE ~tr.finished
  <2>1. /\ step.tr \in Transformer /\ step.text \in Seq(Symbol) /\ step.calls \in BOOLEAN
        /\ step.tr.suppress = tr.suppress /\ step.tr.sent_role = tr.sent_role
        /\ step.tr.finished <=> finish # None
        /\ step.calls => finish # None
        /\ finish = None => Holding(step.tr, Given \o step.text, got')
        /\ finish # None => Finished(step.tr, step.calls, Given \o step.text, got')
        /\ Bounded(step.tr)
    <3>1. got' = Extended(got, content)
      BY <1>4 DEF Taken, Extended
    <3>2. Holding(tr, Given, got)
      BY <1>2, <1>4
    <3>3. Handled(step, tr, finish, Given, Extended(got, content))
      BY <1>0, <1>1, <1>4, <3>2, HandleKeeps
    <3> HIDE DEF step
    <3> QED
      BY <3>1, <3>3 DEF Handled
  <2>2. ~client.calls
    BY <1>0, <1>4 DEF IInv, ConclusionKept
  <2>3. Finished(step.tr, step.calls, Given \o step.text, got')
          => Finished(step.tr, client.calls \/ step.calls, Given \o step.text, got')
    BY <2>2 DEF Finished
  <2> HIDE DEF step
  <2> QED
    BY <1>4, <2>1, <2>3 DEF Effect
<1> QED
  BY <1>3, <1>4

\* What Deliver leaves.
Delivery(step, reasoning, finish) ==
  /\ client' \in Received /\ tr' \in Transformer
  /\ client'.text = client.text \o step.text
  /\ client'.calls = (client.calls \/ step.calls)
  /\ client'.reasoning = (client.reasoning \/ reasoning)
  /\ client'.reason = IF finish = None \/ tr.finished THEN client.reason
                      ELSE IF step.calls THEN "tool_calls" ELSE finish
  /\ client'.roles = client.roles + (IF Speaks(step, reasoning) /\ ~tr.sent_role THEN 1 ELSE 0)
  /\ tr'.sent_role = (tr.sent_role \/ Speaks(step, reasoning))
  /\ tr'.pending = step.tr.pending /\ tr'.buffer = step.tr.buffer
  /\ tr'.buffering = step.tr.buffering /\ tr'.suppress = step.tr.suppress
  /\ tr'.finished = step.tr.finished

LEMMA Delivered ==
  ASSUME IInv, NEW content \in Seq(Symbol) \cup {None}, NEW finish \in Reasons \cup {None},
         NEW reasoning \in BOOLEAN, Taken(content, finish, reasoning)
  PROVE  Delivery(HandleContent(tr, content, finish), reasoning, finish)
<1> DEFINE step   == HandleContent(tr, content, finish)
           speaks == Speaks(step, reasoning)
<1> SUFFICES Delivery(step, reasoning, finish)
  OBVIOUS
<1>1. /\ step.tr \in Transformer /\ step.text \in Seq(Symbol) /\ step.calls \in BOOLEAN
      /\ step.tr.sent_role = tr.sent_role
  <2>1. Effect(step, finish)
    BY TakenEffect
  <2> HIDE DEF step
  <2> QED
    BY <2>1 DEF Effect
<1>2. client \in Received /\ tr \in Transformer
  BY GivenParts DEF Taken
<1>3. speaks \in BOOLEAN
  BY <1>1 DEF Speaks
<1>4. /\ client' = [client EXCEPT !.reasoning = client.reasoning \/ reasoning,
                                  !.text = client.text \o step.text,
                                  !.calls = client.calls \/ step.calls,
                                  !.reason = IF ~(finish # None /\ ~tr.finished) THEN client.reason
                                             ELSE IF step.calls THEN "tool_calls" ELSE finish,
                                  !.roles = client.roles + (IF speaks /\ ~tr.sent_role THEN 1 ELSE 0)]
      /\ tr' = [step.tr EXCEPT !.sent_role = step.tr.sent_role \/ speaks]
  BY DEF Taken, Deliver
<1> DEFINE reason == IF ~(finish # None /\ ~tr.finished) THEN client.reason
                     ELSE IF step.calls THEN "tool_calls" ELSE finish
           roles  == client.roles + (IF speaks /\ ~tr.sent_role THEN 1 ELSE 0)
           text   == client.text \o step.text
<1>5. reason \in Reasons \cup {None}
  BY <1>2, ReasonAssumption DEF Received
<1>6. roles \in Nat
  BY <1>2 DEF Received
<1>7. text \in Seq(Symbol)
  BY <1>1, <1>2, Joined DEF Received
<1>8. reason = IF finish = None \/ tr.finished THEN client.reason
               ELSE IF step.calls THEN "tool_calls" ELSE finish
  OBVIOUS
<1>9. client' = [client EXCEPT !.reasoning = client.reasoning \/ reasoning, !.text = text,
                               !.calls = client.calls \/ step.calls, !.reason = reason,
                               !.roles = roles]
  BY <1>4
<1> HIDE DEF reason, roles, text
<1>10. client' \in Received /\ client'.text = text /\ client'.reason = reason
       /\ client'.roles = roles /\ client'.calls = (client.calls \/ step.calls)
       /\ client'.reasoning = (client.reasoning \/ reasoning)
  BY <1>2, <1>5, <1>6, <1>7, <1>9 DEF Received
<1>11. /\ tr' \in Transformer /\ tr'.sent_role = (tr.sent_role \/ speaks)
       /\ tr'.pending = step.tr.pending /\ tr'.buffer = step.tr.buffer
       /\ tr'.buffering = step.tr.buffering /\ tr'.suppress = step.tr.suppress
       /\ tr'.finished = step.tr.finished
  BY <1>1, <1>2, <1>3, <1>4 DEF Transformer
<1> HIDE DEF step
<1> QED
  BY <1>4, <1>8, <1>10, <1>11 DEF roles, text, Delivery

LEMMA TakenKeeps ==
  ASSUME IInv, NEW content \in Seq(Symbol) \cup {None}, NEW finish \in Reasons \cup {None},
         NEW reasoning \in BOOLEAN, Taken(content, finish, reasoning)
  PROVE  IInv'
<1> DEFINE step   == HandleContent(tr, content, finish)
           speaks == Speaks(step, reasoning)
<1>1. /\ step.text \in Seq(Symbol) /\ step.calls \in BOOLEAN
      /\ step.tr.suppress = tr.suppress
      /\ step.tr.finished <=> tr.finished \/ finish # None
      /\ step.calls => finish # None /\ ~tr.finished
      /\ IF step.tr.finished
         THEN Finished(step.tr, client.calls \/ step.calls, Given \o step.text, got')
         ELSE Holding(step.tr, Given \o step.text, got')
      /\ Bounded(step.tr)
  <2>1. Effect(step, finish)
    BY TakenEffect
  <2> HIDE DEF step, speaks
  <2> QED
    BY <2>1 DEF Effect
<1>2. /\ client' \in Received /\ tr' \in Transformer
      /\ client'.text = client.text \o step.text
      /\ client'.calls = (client.calls \/ step.calls)
      /\ client'.reasoning = (client.reasoning \/ reasoning)
      /\ client'.reason = IF finish = None \/ tr.finished THEN client.reason
                          ELSE IF step.calls THEN "tool_calls" ELSE finish
      /\ client'.roles = client.roles + (IF speaks /\ ~tr.sent_role THEN 1 ELSE 0)
      /\ tr'.sent_role = (tr.sent_role \/ speaks)
      /\ tr'.pending = step.tr.pending /\ tr'.buffer = step.tr.buffer
      /\ tr'.buffering = step.tr.buffering /\ tr'.suppress = step.tr.suppress
      /\ tr'.finished = step.tr.finished
  <2>1. Delivery(step, reasoning, finish)
    BY Delivered
  <2> HIDE DEF step
  <2> QED
    BY <2>1 DEF Delivery
<1>3. speaks <=> reasoning \/ step.text # << >> \/ step.calls
  BY DEF Speaks
<1>4. /\ pc = "reading" /\ pc' \in {"reading", "done"} /\ events' \in Nat
      /\ retries' = retries /\ requests' = requests /\ spoken' = spoken
  BY DEF Taken
<1>5. /\ client.text \in Seq(Symbol) /\ Given \in Seq(Symbol) /\ spoken \in Seq(Symbol)
      /\ got \in Seq(Symbol) /\ tr \in Transformer /\ client \in Received
      /\ Len(spoken) \in 0..Len(client.text)
      /\ First(client.text, Len(spoken)) = spoken
  BY <1>4, GivenParts
<1>6. got' \in Seq(Symbol)
  BY <1>5, Joined DEF Taken
<1> HIDE DEF step, speaks
<1>7. TypeOK'
  <2>1. retries \in Nat /\ requests \in Nat
    BY DEF TypeOK, IInv
  <2> QED
    BY <1>2, <1>4, <1>5, <1>6, <2>1 DEF TypeOK, Ended
<1>8. RequestsCounted'
  BY <1>4 DEF RequestsCounted, IInv
<1>9. ConclusionKept'
  <2>1. (client.calls => client.reason # None) /\ (tr.finished <=> client.reason # None)
    BY <1>4 DEF IInv, ConclusionKept
  <2>2. client'.reason # None <=> tr.finished \/ finish # None
    BY <1>2, <2>1, ReasonAssumption
  <2> QED
    BY <1>1, <1>2, <1>4, <2>1, <2>2 DEF ConclusionKept
<1>10. RolesCounted' /\ RoleLeads'
  <2>1. /\ ~tr.sent_role => client.roles < requests
        /\ tr.sent_role => client.roles > 0
        /\ client.text # << >> \/ client.reasoning \/ client.calls => client.roles > 0
        /\ client.roles <= requests
    BY <1>4 DEF IInv, RolesCounted, RoleLeads
  <2>2. client.roles \in Nat /\ requests \in Nat
    BY <1>5 DEF IInv, TypeOK, Received
  <2>3. ~speaks => client'.text = client.text /\ client'.reasoning = client.reasoning
                   /\ client'.calls = client.calls
    BY <1>1, <1>2, <1>3, <1>5, Joined DEF Received
  <2>4. /\ speaks => client'.roles > 0
        /\ client'.roles >= client.roles /\ client'.roles <= requests
        /\ ~speaks => client'.roles = client.roles
    BY <1>2, <2>1, <2>2
  <2>5. RolesCounted'
    BY <1>2, <1>4, <2>1, <2>2, <2>4 DEF RolesCounted
  <2>6. RoleLeads'
    BY <1>4, <2>1, <2>2, <2>3, <2>4 DEF RoleLeads
  <2> QED
    BY <2>5, <2>6
<1>11. AttemptKept'
  <2>1. /\ First(client.text \o step.text, Len(spoken)) = spoken
        /\ After(client.text \o step.text, Len(spoken)) = Given \o step.text
    <3> DEFINE told  == client.text
               heard == Len(spoken)
               more  == step.text
    <3>1. told \in Seq(Symbol) /\ heard \in 0..Len(told) /\ more \in Seq(Symbol)
      BY <1>1, <1>5
    <3>2. First(told, heard) = spoken /\ After(told, heard) = Given
      BY <1>5 DEF Given
    <3> HIDE DEF told, heard, more
    <3>3. First(told \o more, heard) = First(told, heard)
          /\ After(told \o more, heard) = After(told, heard) \o more
      BY <3>1, CutJoined
    <3>4. First(told \o more, heard) = spoken /\ After(told \o more, heard) = Given \o more
      BY <3>2, <3>3
    <3> QED
      BY <3>4 DEF told, heard, more
  <2>2. First(client'.text, Len(spoken')) = spoken' /\ Given' = Given \o step.text
    BY <1>2, <1>4, <2>1 DEF Given
  <2>3. Len(client'.text) = Len(client.text) + Len(step.text)
    BY <1>1, <1>2, <1>5, ConcatProperties
  <2>4. Len(spoken') <= Len(client'.text)
    <3>1. Len(spoken) <= Len(client.text) /\ Len(step.text) \in Nat
          /\ Len(spoken) \in Nat /\ Len(client.text) \in Nat
      BY <1>1, <1>5
    <3>2. Len(spoken) <= Len(client.text) + Len(step.text)
      <4> DEFINE heard == Len(spoken)
                 told  == Len(client.text)
                 more  == Len(step.text)
      <4>1. heard \in Nat /\ told \in Nat /\ more \in Nat /\ heard <= told
        BY <3>1
      <4> HIDE DEF heard, told, more
      <4>2. heard <= told + more
        BY <4>1
      <4> QED
        BY <4>2 DEF heard, told, more
    <3> QED
      BY <1>4, <2>3, <3>2
  <2>5. IF tr'.finished THEN Finished(tr', client'.calls, Given', got')
        ELSE Holding(tr', Given', got')
    BY <1>1, <1>2, <2>2 DEF Finished, Holding
  <2>6. Bounded(tr')
    BY <1>1, <1>2 DEF Bounded
  <2> QED
    BY <2>2, <2>4, <2>5, <2>6 DEF AttemptKept
<1> QED
  BY <1>7, <1>8, <1>9, <1>10, <1>11 DEF IInv

-----------------------------------------------------------------------------
(***************************************************************************)
(* Events that are not taken, and the other steps.                          *)
(***************************************************************************)
LEMMA OneMoreCounts == ASSUME NEW n \in Nat, n = requests, n <= MaxRetries PROVE OneMore = n + 1
BY LimitsAreNat, BoundAssumption DEF OneMore

LEMMA RefusedUnfinished ==
  ASSUME NEW content, NEW finish, HandleContent(tr, content, finish).verdict # "ok"
  PROVE  ~tr.finished
BY DEF HandleContent, Step

LEMMA StopKeeps ==
  ASSUME IInv, pc' \in Ended \ {"done"}, UNCHANGED <<retries, tr, client, got, spoken>>,
         requests' \in Nat, requests <= requests', events' \in Nat
  PROVE  IInv'
<1>1. TypeOK'
  BY DEF IInv, TypeOK
<1>2. RequestsCounted' /\ ConclusionKept' /\ AttemptKept'
  BY DEF IInv, RequestsCounted, ConclusionKept, AttemptKept, Ended
<1>3. RolesCounted' /\ RoleLeads'
  <2>1. client.roles \in Nat /\ requests \in Nat
    BY DEF IInv, TypeOK, Received
  <2> QED
    BY <2>1 DEF IInv, RolesCounted, RoleLeads, Ended
<1> QED
  BY <1>1, <1>2, <1>3 DEF IInv

LEMMA RetryKeeps ==
  ASSUME IInv, pc = "reading", ~tr.finished, RetryOrFail,
         UNCHANGED requests, events' \in Nat
  PROVE  IInv'
<1>0. requests \in Nat /\ retries \in Nat /\ requests = retries + 1
  BY DEF IInv, TypeOK, RequestsCounted
<1>1. CASE retries < MaxRetries
  <2>1. /\ pc' = "connecting" /\ retries' = retries + 1 /\ tr' = NewTransformer(TRUE)
        /\ got' = << >> /\ spoken' = client.text /\ client' = client
    BY <1>1 DEF RetryOrFail
  <2>2. /\ tr' \in Transformer /\ ~tr'.finished /\ ~tr'.sent_role
        /\ Holding(tr', << >>, << >>) /\ Bounded(tr')
    BY <2>1, FreshAttempt
  <2>3. client.text \in Seq(Symbol) /\ << >> \in Seq(Symbol)
    BY DEF IInv, TypeOK, Received
  <2>4. TypeOK'
    BY <1>0, <2>1, <2>2, <2>3 DEF IInv, TypeOK
  <2>5. RequestsCounted'
    BY <1>0, <1>1, <2>1, LimitsAreNat DEF RequestsCounted
  <2>6. ConclusionKept'
    BY <2>1, <2>2 DEF IInv, ConclusionKept
  <2>7. RolesCounted' /\ RoleLeads'
    BY <2>1, <2>2 DEF IInv, RolesCounted, RoleLeads
  <2>8. AttemptKept'
    <3>1. First(client.text, Len(client.text)) = client.text
          /\ After(client.text, Len(client.text)) = << >>
      BY <2>3, WholeText
    <3>2. Given' = << >> /\ First(client'.text, Len(spoken')) = spoken'
          /\ Len(spoken') <= Len(client'.text)
      BY <2>1, <2>3, <3>1 DEF Given
    <3> QED
      BY <2>1, <2>2, <3>2 DEF AttemptKept
  <2> QED
    BY <2>4, <2>5, <2>6, <2>7, <2>8 DEF IInv
<1>2. CASE ~(retries < MaxRetries)
  <2>1. pc' = "exhausted" /\ UNCHANGED <<retries, tr, client, got, spoken>>
    BY <1>2 DEF RetryOrFail
  <2> QED
    BY <1>0, <2>1, StopKeeps DEF Ended
<1> QED
  BY <1>1, <1>2

LEMMA ConnectKeeps == ASSUME IInv, Connect PROVE IInv'
<1>0. /\ requests \in Nat /\ retries \in Nat /\ requests = retries /\ retries <= MaxRetries
      /\ client.roles \in Nat
  BY DEF Connect, IInv, TypeOK, RequestsCounted, Received
<1>1. /\ requests' = requests + 1 /\ pc = "connecting" /\ pc' = "reading"
      /\ UNCHANGED <<retries, tr, client, got, spoken>>
  BY <1>0, OneMoreCounts DEF Connect
<1>2. TypeOK'
  BY <1>0, <1>1, BoundAssumption DEF Connect, IInv, TypeOK
<1>3. RequestsCounted' /\ ConclusionKept'
  BY <1>0, <1>1 DEF IInv, RequestsCounted, ConclusionKept
<1>4. RolesCounted' /\ RoleLeads'
  BY <1>0, <1>1 DEF IInv, RolesCounted, RoleLeads
<1>5. AttemptKept'
  <2>1. Given' = Given
    BY <1>1 DEF Given
  <2> QED
    BY <1>1, <2>1 DEF IInv, AttemptKept
<1> QED
  BY <1>2, <1>3, <1>4, <1>5 DEF IInv

LEMMA ConnectFailsKeeps == ASSUME IInv, ConnectFails PROVE IInv'
<1>1. /\ requests \in Nat /\ requests <= MaxRetries /\ events \in Nat
  BY LimitsAreNat DEF ConnectFails, IInv, TypeOK, RequestsCounted
<1>2. requests' = requests + 1
  BY <1>1, OneMoreCounts DEF ConnectFails
<1> QED
  BY <1>1, <1>2, StopKeeps DEF ConnectFails, Ended

\* The three outcomes of a choice and the two of [DONE].
LEMMA ChoiceOutcomes ==
  ASSUME IInv, TakeChoice
  PROVE  /\ pc = "reading" /\ UNCHANGED requests /\ events' \in Nat
         /\ \/ \E content \in Seq(Symbol) \cup {None}, finish \in Reasons \cup {None},
                  reasoning \in BOOLEAN :
                 pc' = "reading" /\ Taken(content, finish, reasoning)
            \/ ~tr.finished /\ RetryOrFail
            \/ pc' = "broken" /\ UNCHANGED <<retries, tr, client, got, spoken>>
<1>1. pc = "reading" /\ UNCHANGED requests /\ events' \in Nat
  BY DEF TakeChoice, IInv, TypeOK
<1> DEFINE Taking(choice) == HandleContent(tr, choice.content, choice.finish)
           reasoning(choice) == choice.reasoning /\ ~tr.finished /\ ~tr.suppress
<1>2. PICK choice \in UpstreamChoices :
        \/ /\ Taking(choice).verdict = "ok"
           /\ Deliver(Taking(choice), reasoning(choice), choice.finish)
           /\ got' = IF choice.content = None \/ tr.finished THEN got
                     ELSE got \o choice.content
           /\ UNCHANGED <<pc, retries, spoken>>
        \/ /\ Taking(choice).verdict = "invalid"
           /\ RetryOrFail
        \/ /\ Taking(choice).verdict = "broken"
           /\ pc' = "broken"
           /\ UNCHANGED <<retries, tr, client, got, spoken>>
  BY DEF TakeChoice
<1>3. /\ choice.content \in Seq(Symbol) \cup {None} /\ choice.finish \in Reasons \cup {None}
      /\ reasoning(choice) \in BOOLEAN
  BY ChoiceAssumption
<1>4. CASE Taking(choice).verdict = "invalid" /\ RetryOrFail
  BY <1>1, <1>4, RefusedUnfinished
<1>5. CASE /\ Taking(choice).verdict = "ok"
           /\ Deliver(Taking(choice), reasoning(choice), choice.finish)
           /\ got' = IF choice.content = None \/ tr.finished THEN got
                     ELSE got \o choice.content
           /\ UNCHANGED <<pc, retries, spoken>>
  <2>1. Taken(choice.content, choice.finish, reasoning(choice)) /\ pc' = "reading"
    BY <1>1, <1>5 DEF Taken
  <2> HIDE DEF reasoning
  <2> QED
    BY <1>1, <1>3, <2>1
<1> QED
  BY <1>1, <1>2, <1>4, <1>5

LEMMA DoneOutcomes ==
  ASSUME IInv, TakeDone
  PROVE  /\ pc = "reading" /\ UNCHANGED requests /\ events' \in Nat
         /\ \/ pc' = "done" /\ Taken(None, "stop", FALSE)
            \/ ~tr.finished /\ RetryOrFail
<1>1. pc = "reading" /\ UNCHANGED requests /\ events' \in Nat
  BY DEF TakeDone, IInv, TypeOK
<1>2. CASE HandleContent(tr, None, "stop").verdict = "invalid" /\ RetryOrFail
  BY <1>1, <1>2, RefusedUnfinished
<1>3. CASE /\ HandleContent(tr, None, "stop").verdict = "ok"
           /\ Deliver(HandleContent(tr, None, "stop"), FALSE, "stop")
           /\ pc' = "done" /\ UNCHANGED <<retries, got, spoken>>
  BY <1>1, <1>3 DEF Taken
<1> QED
  BY <1>2, <1>3 DEF TakeDone

LEMMA StepKeeps == ASSUME IInv, [Next]_vars PROVE IInv'
<1>0. requests \in Nat /\ events \in Nat
  BY DEF IInv, TypeOK
<1>1. CASE TakeChoice
  <2>1. ASSUME NEW content \in Seq(Symbol) \cup {None}, NEW finish \in Reasons \cup {None},
               NEW reasoning \in BOOLEAN, Taken(content, finish, reasoning)
        PROVE  IInv'
    BY <2>1, TakenKeeps
  <2>2. CASE ~tr.finished /\ RetryOrFail
    BY <1>1, <2>2, ChoiceOutcomes, RetryKeeps
  <2>3. CASE pc' = "broken" /\ UNCHANGED <<retries, tr, client, got, spoken>>
    BY <1>0, <1>1, <2>3, ChoiceOutcomes, StopKeeps DEF Ended
  <2> QED
    BY <1>1, <2>1, <2>2, <2>3, ChoiceOutcomes
<1>2. CASE TakeDone
  <2>1. CASE Taken(None, "stop", FALSE)
    BY <2>1, TakenKeeps, ReasonAssumption
  <2>2. CASE ~tr.finished /\ RetryOrFail
    BY <1>2, <2>2, DoneOutcomes, RetryKeeps
  <2> QED
    BY <1>2, <2>1, <2>2, DoneOutcomes
<1>3. CASE TakeUsage
  <2>1. client \in Received /\ UNCHANGED <<pc, retries, tr, requests, got, spoken>>
        /\ events' \in Nat
    BY <1>3 DEF TakeUsage, IInv, TypeOK
  <2>2. client' = [client EXCEPT !.usage = client.usage \/ IncludeUsage]
    BY <1>3 DEF TakeUsage
  <2>3. /\ client' \in Received /\ client'.text = client.text /\ client'.calls = client.calls
        /\ client'.reason = client.reason /\ client'.roles = client.roles
        /\ client'.reasoning = client.reasoning
    BY <2>1, <2>2, BoundAssumption DEF Received
  <2>4. Given' = Given
    BY <2>1, <2>3 DEF Given
  <2>5. TypeOK'
    BY <2>1, <2>3 DEF IInv, TypeOK
  <2>6. RequestsCounted' /\ ConclusionKept' /\ RolesCounted' /\ RoleLeads'
    BY <2>1, <2>3 DEF IInv, RequestsCounted, ConclusionKept, RolesCounted, RoleLeads
  <2>7. AttemptKept'
    BY <2>1, <2>3, <2>4 DEF IInv, AttemptKept
  <2> QED
    BY <2>5, <2>6, <2>7 DEF IInv
<1>4. CASE BreakOff
  BY <1>0, <1>4, StopKeeps DEF BreakOff, Ended
<1>5. CASE Leave
  BY <1>0, <1>5, StopKeeps DEF Leave, Ended
<1>6. CASE Over \/ UNCHANGED vars
  <2>1. UNCHANGED <<pc, retries, tr, client, requests, got, spoken, events>>
    BY <1>6 DEF Over, vars
  <2>2. Given' = Given
    BY <2>1 DEF Given
  <2> QED
    BY <2>1, <2>2 DEF IInv, TypeOK, RequestsCounted, ConclusionKept, RolesCounted, RoleLeads,
                      AttemptKept
<1> QED
  BY <1>1, <1>2, <1>3, <1>4, <1>5, <1>6, ConnectKeeps, ConnectFailsKeeps DEF Next, Progress

LEMMA SpecInvariant == Spec => []IInv
BY InitInvariant, StepKeeps, PTL DEF Spec

(***************************************************************************)
(* The stream is in a state of the right kind at every time: the counters,  *)
(* buffers and flags of the transformer and of the client's view.           *)
(***************************************************************************)
THEOREM ToolStreamTypes == Spec => []TypeOK
<1>1. IInv => TypeOK
  BY DEF IInv
<1> QED
  BY SpecInvariant, <1>1, PTL

(***************************************************************************)
(* No text is lost, doubled or reordered between the upstream and the       *)
(* client, whatever the marker, the chunks and the retries.                 *)
(***************************************************************************)
THEOREM FaithfulText == Spec => []TextFaithful
<1>1. IInv => TextFaithful
  <2> SUFFICES ASSUME IInv, pc \in {"reading", "done"}
               PROVE  /\ First(client.text, Len(spoken)) = spoken
                      /\ ~tr.suppress => Given \o tr.pending \o tr.buffer = got
                      /\ tr.suppress /\ Given # << >> =>
                           /\ tr.finished /\ ~client.calls /\ HasMarker(got)
                           /\ Given = After(got, FirstMarker(got) - 1)
    BY DEF TextFaithful
  <2>1. /\ First(client.text, Len(spoken)) = spoken
        /\ IF tr.finished THEN Finished(tr, client.calls, Given, got)
           ELSE Holding(tr, Given, got)
    BY DEF IInv, AttemptKept
  <2> QED
    BY <2>1 DEF Finished, Holding
<1> QED
  BY SpecInvariant, <1>1, PTL

(***************************************************************************)
(* A marker is recognised at its first occurrence, however it is cut into   *)
(* chunks, and before the finish all text from it on is in the buffer.      *)
(***************************************************************************)
THEOREM HeldBackMarkers == Spec => []MarkerHeldBack
<1>1. IInv => MarkerHeldBack
  BY DEF IInv, AttemptKept, MarkerHeldBack, Holding
<1> QED
  BY SpecInvariant, <1>1, PTL

(***************************************************************************)
(* tool_buffer and pending_text are bounded in bytes.                       *)
(***************************************************************************)
THEOREM BoundedBuffers == Spec => []BuffersBounded
<1>1. IInv => BuffersBounded
  BY DEF IInv, AttemptKept, BuffersBounded, Bounded
<1> QED
  BY SpecInvariant, <1>1, PTL

(***************************************************************************)
(* The assistant role leads, and no attempt repeats its own.                *)
(***************************************************************************)
THEOREM LeadingRoles == Spec => []RoleLeads
<1>1. IInv => RoleLeads
  BY DEF IInv
<1> QED
  BY SpecInvariant, <1>1, PTL

-----------------------------------------------------------------------------
(***************************************************************************)
(* Every step of the stream is one of RetryLoop or changes nothing there.   *)
(***************************************************************************)
LEMMA LoopStep ==
  ASSUME IInv, [Next]_vars
  PROVE  [Tries!Continue]_Tries!loop
<1> USE DEF Tries!Continue, Tries!loop
<1>0. requests \in Nat /\ retries \in Nat /\ MaxRetries \in Nat
  BY LimitsAreNat DEF IInv, TypeOK
<1>1. CASE Connect \/ ConnectFails
  <2>1. requests <= MaxRetries /\ requests' = requests + 1 /\ pc = "connecting"
    BY <1>0, <1>1, OneMoreCounts DEF Connect, ConnectFails, IInv, RequestsCounted
  <2>2. CASE Connect
    <3>1. Tries!Try
      BY <1>0, <2>1, <2>2 DEF Connect, Tries!Try, Outcome
    <3> QED
      BY <3>1
  <2>3. CASE ConnectFails
    <3>1. Tries!Fail
      BY <1>0, <2>1, <2>3 DEF ConnectFails, Tries!Fail, Outcome
    <3> QED
      BY <3>1
  <2> QED
    BY <1>1, <2>2, <2>3
<1>2. ASSUME pc = "reading", UNCHANGED requests, pc' \in {"reading", "connecting", "done", "broken"}
      PROVE  [Tries!Continue]_Tries!loop
  <2>1. requests = retries + 1 /\ requests <= MaxRetries + 1
    BY <1>0, <1>2 DEF IInv, RequestsCounted
  <2>2. CASE pc' \in {"reading", "connecting"}
    BY <1>2, <2>2 DEF Outcome
  <2>3. CASE pc' = "done"
    <3>1. Tries!Succeed
      BY <1>0, <1>2, <2>1, <2>3 DEF Tries!Succeed, Outcome
    <3> QED
      BY <3>1
  <2>4. CASE pc' = "broken"
    <3>1. Tries!Fail
      BY <1>0, <1>2, <2>1, <2>4 DEF Tries!Fail, Outcome
    <3> QED
      BY <3>1
  <2> QED
    BY <1>2, <2>2, <2>3, <2>4
<1>3. ASSUME pc = "reading", UNCHANGED requests, RetryOrFail
      PROVE  [Tries!Continue]_Tries!loop
  <2>1. CASE retries < MaxRetries
    BY <1>2, <1>3, <2>1 DEF RetryOrFail
  <2>2. CASE ~(retries < MaxRetries)
    <3>1. pc' = "exhausted" /\ requests = MaxRetries + 1
      BY <1>0, <1>3, <2>2 DEF RetryOrFail, IInv, RequestsCounted
    <3>2. Tries!Exhaust
      BY <1>3, <3>1 DEF Tries!Exhaust, Outcome
    <3> QED
      BY <3>2
  <2> QED
    BY <2>1, <2>2
<1>4. CASE TakeChoice
  <2>1. /\ pc = "reading" /\ UNCHANGED requests
        /\ pc' \in {"reading", "broken"} \/ RetryOrFail
    BY <1>4, ChoiceOutcomes
  <2> QED
    BY <1>2, <1>3, <2>1
<1>5. CASE TakeDone
  <2>1. pc = "reading" /\ UNCHANGED requests /\ (pc' = "done" \/ RetryOrFail)
    BY <1>5, DoneOutcomes
  <2> QED
    BY <1>2, <1>3, <2>1
<1>6. CASE TakeUsage \/ BreakOff
  <2>1. pc = "reading" /\ UNCHANGED requests /\ pc' \in {"reading", "broken"}
    BY <1>6 DEF TakeUsage, BreakOff
  <2> QED
    BY <1>2, <2>1
<1>7. CASE Leave
  <2>1. Tries!Abandon
    BY <1>7 DEF Leave, Tries!Abandon, Outcome
  <2> QED
    BY <2>1
<1>8. CASE Over \/ UNCHANGED vars
  BY <1>8 DEF Over, vars, Outcome
<1> QED
  BY <1>1, <1>4, <1>5, <1>6, <1>7, <1>8 DEF Next, Progress

(***************************************************************************)
(* The stream keeps the promise of RetryLoop: tools.max_retries bounds its  *)
(* upstream requests, and it fails for want of a call only after all.       *)
(***************************************************************************)
THEOREM RetryTheorem == Spec => RetryPromise
<1>1. Init => Tries!Begin
  BY DEF Init, Tries!Begin, Outcome
<1>2. IInv /\ [Next]_vars => [Tries!Continue]_Tries!loop
  BY LoopStep
<1> QED
  BY SpecInvariant, <1>1, <1>2, PTL DEF Spec, RetryPromise, Tries!Promise

-----------------------------------------------------------------------------
(***************************************************************************)
(* Every step is one of ClientStream or changes nothing the client sees.    *)
(***************************************************************************)
LEMMA ExtendsJoined ==
  ASSUME NEW s \in Seq(Symbol), NEW t \in Seq(Symbol)
  PROVE  Abstract!Extends(s \o t, s)
<1>1. /\ s \o t \in Seq(Symbol) /\ Len(s \o t) = Len(s) + Len(t)
      /\ \A k \in 1..(Len(s) + Len(t)) : (s \o t)[k] = IF k <= Len(s) THEN s[k] ELSE t[k - Len(s)]
  BY ConcatProperties
<1>2. Len(s) \in Nat /\ Len(t) \in Nat
  OBVIOUS
<1> QED
  BY <1>1, <1>2 DEF Abstract!Extends

LEMMA AbortStep ==
  ASSUME pc \in {"connecting", "reading"}, pc' \in {"exhausted", "broken", "rejected", "gone"},
         UNCHANGED client
  PROVE  Abstract!Abort
BY DEF Abstract!Abort, Phase

LEMMA TakenStep ==
  ASSUME IInv, NEW content \in Seq(Symbol) \cup {None}, NEW finish \in Reasons \cup {None},
         NEW reasoning \in BOOLEAN, Taken(content, finish, reasoning),
         pc' = "done" => finish # None
  PROVE  [Abstract!Continue]_Abstract!promised
<1> USE DEF Abstract!Continue, Abstract!promised
<1> DEFINE step == HandleContent(tr, content, finish)
<1>1. /\ step.text \in Seq(Symbol) /\ step.calls \in BOOLEAN
      /\ step.calls => finish # None /\ ~tr.finished
      /\ tr.finished => step.text = << >>
  <2>1. Effect(step, finish)
    BY TakenEffect
  <2> HIDE DEF step
  <2> QED
    BY <2>1 DEF Effect
<1>2. /\ client'.text = client.text \o step.text
      /\ client'.calls = (client.calls \/ step.calls)
      /\ client'.reason = IF finish = None \/ tr.finished THEN client.reason
                          ELSE IF step.calls THEN "tool_calls" ELSE finish
  <2>1. Delivery(step, reasoning, finish)
    BY Delivered
  <2> HIDE DEF step
  <2> QED
    BY <2>1 DEF Delivery
<1>3. /\ pc = "reading" /\ pc' \in {"reading", "done"}
      /\ tr.finished <=> client.reason # None
      /\ client.calls => client.reason # None
  BY DEF Taken, IInv, ConclusionKept
<1>4. client.text \in Seq(Symbol) /\ client.calls \in BOOLEAN
  BY DEF IInv, TypeOK, Received
<1> HIDE DEF step
<1>5. Abstract!Extends(client'.text, client.text)
  BY <1>1, <1>2, <1>4, ExtendsJoined
<1>6. CASE tr.finished
  <2>1. client'.text = client.text /\ client'.calls = client.calls
        /\ client'.reason = client.reason
    BY <1>1, <1>2, <1>4, <1>6, Joined
  <2>2. CASE pc' = "reading"
    BY <1>3, <2>1, <2>2 DEF Phase
  <2>3. CASE pc' = "done"
    <3>1. Abstract!Close
      BY <1>3, <1>6, <2>1, <2>3 DEF Abstract!Close, Phase
    <3> QED
      BY <3>1
  <2> QED
    BY <1>3, <2>2, <2>3
<1>7. CASE ~tr.finished /\ finish = None
  <2>1. client'.reason = None /\ client.reason = None /\ pc' = "reading"
        /\ client'.calls = client.calls
    BY <1>1, <1>2, <1>3, <1>4, <1>7
  <2>2. Abstract!Speak
    BY <1>3, <1>5, <2>1 DEF Abstract!Speak, Phase
  <2> QED
    BY <2>2
<1>8. CASE ~tr.finished /\ finish # None
  <2>1. /\ client'.reason = IF step.calls THEN "tool_calls" ELSE finish
        /\ client.reason = None /\ client'.calls = step.calls
    BY <1>1, <1>2, <1>3, <1>4, <1>8
  <2>2. client'.reason \in Reasons /\ client'.reason # None
    BY <1>8, <2>1, ReasonAssumption
  <2>3. Phase = "open" /\ Phase' \in {"concluded", "closed"}
    BY <1>3, <2>1, <2>2 DEF Phase
  <2>4. Abstract!Conclude
    BY <1>1, <1>5, <2>1, <2>2, <2>3 DEF Abstract!Conclude
  <2> QED
    BY <2>4
<1> QED
  BY <1>6, <1>7, <1>8

LEMMA PromisedStep ==
  ASSUME IInv, [Next]_vars
  PROVE  [Abstract!Continue]_Abstract!promised
<1> USE DEF Abstract!Continue, Abstract!promised
<1>1. ASSUME pc \in {"connecting", "reading"}, UNCHANGED client,
             pc' \in {"connecting", "reading", "exhausted", "broken", "rejected", "gone"}
      PROVE  [Abstract!Continue]_Abstract!promised
  <2>1. CASE pc' \in {"connecting", "reading"}
    BY <1>1, <2>1 DEF Phase
  <2>2. CASE pc' \in {"exhausted", "broken", "rejected", "gone"}
    BY <1>1, <2>2, AbortStep
  <2> QED
    BY <1>1, <2>1, <2>2
<1>2. ASSUME pc = "reading", RetryOrFail
      PROVE  [Abstract!Continue]_Abstract!promised
  <2>1. UNCHANGED client /\ pc' \in {"connecting", "exhausted"}
    BY <1>2 DEF RetryOrFail
  <2> QED
    BY <1>1, <1>2, <2>1
<1>3. CASE Connect \/ ConnectFails \/ BreakOff \/ Leave
  <2>1. /\ pc \in {"connecting", "reading"} /\ UNCHANGED client
        /\ pc' \in {"reading", "broken", "rejected", "gone"}
    BY <1>3 DEF Connect, ConnectFails, BreakOff, Leave
  <2> QED
    BY <1>1, <2>1
<1>4. CASE TakeChoice
  <2>1. ASSUME NEW content \in Seq(Symbol) \cup {None}, NEW finish \in Reasons \cup {None},
               NEW reasoning \in BOOLEAN, pc' = "reading", Taken(content, finish, reasoning)
        PROVE  [Abstract!Continue]_Abstract!promised
    BY <2>1, TakenStep
  <2>2. CASE RetryOrFail
    BY <1>2, <1>4, <2>2, ChoiceOutcomes
  <2>3. CASE pc' = "broken" /\ UNCHANGED client
    BY <1>1, <1>4, <2>3, ChoiceOutcomes
  <2> QED
    BY <1>4, <2>1, <2>2, <2>3, ChoiceOutcomes
<1>5. CASE TakeDone
  <2>1. CASE Taken(None, "stop", FALSE)
    BY <2>1, TakenStep, ReasonAssumption
  <2>2. CASE RetryOrFail
    BY <1>2, <1>5, <2>2, DoneOutcomes
  <2> QED
    BY <1>5, <2>1, <2>2, DoneOutcomes
<1>6. CASE TakeUsage
  <2>1. UNCHANGED pc /\ client' = [client EXCEPT !.usage = client.usage \/ IncludeUsage]
        /\ client \in Received
    BY <1>6 DEF TakeUsage, IInv, TypeOK
  <2>2. client'.text = client.text /\ client'.calls = client.calls
        /\ client'.reason = client.reason
    BY <2>1 DEF Received
  <2> QED
    BY <2>1, <2>2 DEF Phase
<1>7. CASE Over \/ UNCHANGED vars
  BY <1>7 DEF Over, vars, Phase
<1> QED
  BY <1>3, <1>4, <1>5, <1>6, <1>7 DEF Next, Progress

(***************************************************************************)
(* The client of a stream with tools is kept the promise of ClientStream,   *)
(* across all attempts.                                                     *)
(***************************************************************************)
THEOREM PromiseTheorem == Spec => ClientPromise
<1>1. Init => Abstract!Begin
  BY DEF Init, Abstract!Begin, Phase
<1>2. IInv /\ [Next]_vars => [Abstract!Continue]_Abstract!promised
  BY PromisedStep
<1> QED
  BY SpecInvariant, <1>1, <1>2, PTL DEF Spec, ClientPromise, Abstract!Promise

=============================================================================
