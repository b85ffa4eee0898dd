-------------------------- MODULE Parsers_proofs --------------------------
(***************************************************************************)
(* Lemmas about the parsers of tool calls (ToolParser, GlmParser) and the   *)
(* schema check (JsonSchema), for every text.                               *)
(*                                                                         *)
(* What is read.  A parser that has read a text reads more of it as if it   *)
(* had been given all at once (RunExtends, HasReadMore); where the text may *)
(* end or break off is told from the single token that follows             *)
(* (TokenInHeader, TokenInArguments, TokenAtEnd).                           *)
(*                                                                         *)
(* Where it stands.  The parser keeps a place in the text for each call     *)
(* that it has read: between it and what is left of the text the call is    *)
(* written (Placed, ReadPlaced).                                            *)
(*                                                                         *)
(* A GLM model's calls.  What the parser makes of a text is said without    *)
(* its steps (Outcome), and calls are read one by one (ReadsOn, RowReads),  *)
(* each of a part of the text (CallsFrom).                                  *)
(***************************************************************************)
EXTENDS GlmParser, SequenceLemmas

-----------------------------------------------------------------------------
(***************************************************************************)
(* Texts: where a token is first, how much white space there is, and what   *)
(* is left from a place on.                                                 *)
(***************************************************************************)
LEMMA FirstIs ==
  ASSUME NEW B, NEW text \in Seq(B), NEW t
  PROVE  /\ First(text, t) \in 0..Len(text)
         /\ First(text, t) = 0 <=> \A i \in 1..Len(text) : text[i] # t
         /\ First(text, t) > 0 =>
              text[First(text, t)] = t /\ \A i \in 1..(First(text, t) - 1) : text[i] # t
<1> DEFINE I == {i \in 1..Len(text) : text[i] = t}
<1>1. Len(text) \in Nat
  OBVIOUS
<1>2. First(text, t) = IF I # {} THEN Min(I) ELSE 0
  BY DEF First, SelectInSeq
<1>3. I # {} => Min(I) \in I /\ \A i \in I : Min(I) <= i
  <2>1. I \in SUBSET Nat
    BY <1>1
  <2> HIDE DEF I, Min
  <2> QED
    BY <2>1, MinNatural
<1>4. CASE I = {}
  <2>1. First(text, t) = 0
    BY <1>2, <1>4
  <2> QED
    BY <1>1, <1>4, <2>1
<1>5. CASE I # {}
  <2> DEFINE k == First(text, t)
  <2>1. k \in I /\ \A i \in I : k <= i
    BY <1>2, <1>3, <1>5
  <2> HIDE DEF k
  <2>2. k \in 1..Len(text) /\ text[k] = t
    BY <2>1
  <2>3. \A i \in 1..(k - 1) : text[i] # t
    <3>1. \A i \in 1..(k - 1) : i \in 1..Len(text) /\ ~(k <= i)
      BY <1>1, <2>2
    <3> QED
      BY <2>1, <3>1
  <2>4. k \in 0..Len(text) /\ k > 0 /\ k # 0
    BY <1>1, <2>2
  <2> QED
    BY <2>2, <2>3, <2>4 DEF k
<1> QED
  BY <1>4, <1>5

LEMMA FirstAt ==
  ASSUME NEW B, NEW text \in Seq(B), NEW t, NEW k \in 1..Len(text),
         text[k] = t, \A i \in 1..(k - 1) : text[i] # t
  PROVE  First(text, t) = k
<1>1. Len(text) \in Nat
  OBVIOUS
<1>2. First(text, t) \in 1..Len(text)
  BY <1>1, FirstIs
<1>3. text[First(text, t)] = t /\ \A i \in 1..(First(text, t) - 1) : text[i] # t
  BY <1>2, FirstIs
<1>4. ~(First(text, t) < k)
  BY <1>1, <1>2, <1>3
<1>5. ~(k < First(text, t))
  BY <1>1, <1>2, <1>3
<1> QED
  BY <1>1, <1>2, <1>4, <1>5

LEMMA BlanksAre ==
  ASSUME NEW B, NEW text \in Seq(B)
  PROVE  /\ Blanks(text) \in 0..Len(text)
         /\ \A i \in 1..Blanks(text) : text[i] = "nl"
         /\ Blanks(text) < Len(text) => text[Blanks(text) + 1] # "nl"
<1> DEFINE C == B \cup {"end"}
           long == text \o <<"end">>
           I == {i \in 1..Len(long) : long[i] # "nl"}
<1>1. text \in Seq(C) /\ <<"end">> \in Seq(C) /\ Len(<<"end">>) = 1
  OBVIOUS
<1>2. /\ long \in Seq(C) /\ Len(long) = Len(text) + 1 /\ Len(text) \in Nat
      /\ \A i \in 1..(Len(text) + 1) : long[i] = IF i <= Len(text) THEN text[i] ELSE "end"
  <2>1. \A i \in 1..(Len(text) + 1) : ~(i <= Len(text)) => i - Len(text) = 1
    BY <1>1
  <2> QED
    BY <1>1, <2>1, ConcatProperties
<1>3. Len(text) + 1 \in I
  BY <1>2
<1>4. Min(I) \in I /\ \A i \in I : Min(I) <= i
  <2>1. I \in SUBSET Nat /\ I # {}
    BY <1>2, <1>3
  <2> HIDE DEF I, Min
  <2> QED
    BY <2>1, MinNatural
<1>5. Blanks(text) = Min(I) - 1
  BY <1>3 DEF Blanks, SelectInSeq
<1> DEFINE m == Min(I)
<1>6. m \in I /\ (\A i \in I : m <= i) /\ Blanks(text) = m - 1
  BY <1>4, <1>5
<1> HIDE DEF m, long
<1>7. m \in 1..(Len(text) + 1) /\ long[m] # "nl"
  BY <1>2, <1>6
<1>8. ASSUME NEW i \in 1..(m - 1) PROVE text[i] = "nl"
  <2>1. i \in 1..Len(long) /\ i <= Len(text) /\ i \in 1..(Len(text) + 1) /\ ~(m <= i)
    BY <1>2, <1>7
  <2>2. long[i] = "nl"
    BY <1>6, <2>1
  <2> QED
    BY <1>2, <2>1, <2>2
<1>9. m - 1 < Len(text) => text[m] # "nl"
  BY <1>2, <1>7
<1>10. m - 1 \in 0..Len(text) /\ (m - 1) + 1 = m
  BY <1>2, <1>7
<1> QED
  BY <1>6, <1>8, <1>9, <1>10

LEMMA BlanksAt ==
  ASSUME NEW B, NEW text \in Seq(B), NEW k \in 0..Len(text),
         \A i \in 1..k : text[i] = "nl", k < Len(text) => text[k + 1] # "nl"
  PROVE  Blanks(text) = k
<1>1. Len(text) \in Nat
  OBVIOUS
<1>2. /\ Blanks(text) \in 0..Len(text)
      /\ \A i \in 1..Blanks(text) : text[i] = "nl"
      /\ Blanks(text) < Len(text) => text[Blanks(text) + 1] # "nl"
  BY BlanksAre
<1>3. ~(Blanks(text) < k)
  BY <1>1, <1>2
<1>4. ~(k < Blanks(text))
  BY <1>1, <1>2
<1> QED
  BY <1>1, <1>2, <1>3, <1>4

LEMMA FromText ==
  ASSUME NEW B, NEW text \in Seq(B), NEW n \in 1..(Len(text) + 1)
  PROVE  /\ From(text, n) \in Seq(B)
         /\ Len(From(text, n)) = Len(text) + 1 - n
         /\ \A k \in 1..(Len(text) + 1 - n) : From(text, n)[k] = text[n + k - 1]
BY DEF From

LEMMA Associates ==
  ASSUME NEW B, NEW x \in Seq(B), NEW y \in Seq(B), NEW z \in Seq(B)
  PROVE  (x \o y) \o z = x \o (y \o z)
BY ConcatAssociative

\* A text and one behind it.
LEMMA TextJoined ==
  ASSUME NEW B, NEW a \in Seq(B), NEW c \in Seq(B)
  PROVE  /\ a \o c \in Seq(B) /\ Len(a \o c) = Len(a) + Len(c)
         /\ \A i \in 1..Len(a) : (a \o c)[i] = a[i]
         /\ \A i \in 1..Len(c) : (a \o c)[Len(a) + i] = c[i]
<1>1. Len(a) \in Nat /\ Len(c) \in Nat
  OBVIOUS
<1>2. ASSUME NEW i \in 1..Len(c) PROVE (a \o c)[Len(a) + i] = c[i]
  <2>1. Len(a) + i \in 1..(Len(a) + Len(c)) /\ ~(Len(a) + i <= Len(a)) /\ (Len(a) + i) - Len(a) = i
    BY <1>1
  <2> QED
    BY <2>1, ConcatProperties
<1>3. ASSUME NEW i \in 1..Len(a) PROVE (a \o c)[i] = a[i]
  <2>1. i \in 1..(Len(a) + Len(c)) /\ i <= Len(a)
    BY <1>1
  <2> QED
    BY <2>1, ConcatProperties
<1> QED
  BY <1>2, <1>3, ConcatProperties

LEMMA FromJoined ==
  ASSUME NEW B, NEW a \in Seq(B), NEW c \in Seq(B), NEW n \in 1..(Len(a) + 1)
  PROVE  From(a \o c, n) = From(a, n) \o c
<1>1. Len(a) \in Nat /\ Len(c) \in Nat
  OBVIOUS
<1> DEFINE ac == a \o c
           left == From(ac, n)
           tail == From(a, n)
           right == tail \o c
<1>2. ac \in Seq(B) /\ Len(ac) = Len(a) + Len(c) /\ n \in 1..(Len(ac) + 1)
  BY <1>1, TextJoined
<1>3. /\ left \in Seq(B) /\ Len(left) = Len(ac) + 1 - n
      /\ \A k \in 1..(Len(ac) + 1 - n) : left[k] = ac[n + k - 1]
  <2> HIDE DEF ac
  <2> QED
    BY <1>2, FromText
<1>4. /\ tail \in Seq(B) /\ Len(tail) = Len(a) + 1 - n
      /\ \A k \in 1..(Len(a) + 1 - n) : tail[k] = a[n + k - 1]
  BY FromText
<1>5. /\ right \in Seq(B) /\ Len(right) = Len(tail) + Len(c)
      /\ \A i \in 1..Len(tail) : right[i] = tail[i]
      /\ \A i \in 1..Len(c) : right[Len(tail) + i] = c[i]
  <2>1. tail \in Seq(B)
    BY <1>4
  <2> HIDE DEF tail
  <2> QED
    BY <2>1, TextJoined
<1>6. ASSUME NEW i \in 1..Len(left) PROVE left[i] = right[i]
  <2> HIDE DEF tail, left, right
  <2>1. left[i] = ac[n + i - 1]
    BY <1>1, <1>2, <1>3
  <2>2. CASE i <= Len(tail)
    <3>1. i \in 1..Len(tail) /\ n + i - 1 \in 1..Len(a)
      BY <1>1, <1>2, <1>3, <1>4, <2>2
    <3>2. ac[n + i - 1] = a[n + i - 1]
      BY <3>1, TextJoined DEF ac
    <3> QED
      BY <1>4, <1>5, <2>1, <3>1, <3>2
  <2>3. CASE ~(i <= Len(tail))
    <3>1. i - Len(tail) \in 1..Len(c) /\ Len(tail) + (i - Len(tail)) = i
          /\ Len(a) + (i - Len(tail)) = n + i - 1
      BY <1>1, <1>2, <1>3, <1>4, <2>3
    <3>2. ac[Len(a) + (i - Len(tail))] = c[i - Len(tail)]
      BY <3>1, TextJoined DEF ac
    <3>3. right[Len(tail) + (i - Len(tail))] = c[i - Len(tail)]
      BY <1>5, <3>1
    <3> QED
      BY <2>1, <3>1, <3>2, <3>3
  <2> QED
    BY <2>2, <2>3
<1>7. Len(left) = Len(right)
  <2> HIDE DEF tail, left, right, ac
  <2> QED
    BY <1>1, <1>2, <1>3, <1>4, <1>5
<1>8. left = right
  <2> HIDE DEF left, right
  <2> QED
    BY <1>3, <1>5, <1>6, <1>7, SeqEqual
<1> QED
  BY <1>8

LEMMA FirstJoined ==
  ASSUME NEW B, NEW a \in Seq(B), NEW c \in Seq(B), NEW t
  PROVE  First(a \o c, t) =
           IF First(a, t) > 0 THEN First(a, t)
           ELSE IF First(c, t) > 0 THEN Len(a) + First(c, t) ELSE 0
<1> DEFINE ac == a \o c
<1>1. /\ Len(a) \in Nat /\ Len(c) \in Nat
      /\ ac \in Seq(B) /\ Len(ac) = Len(a) + Len(c)
      /\ \A i \in 1..Len(a) : ac[i] = a[i]
      /\ \A i \in 1..Len(c) : ac[Len(a) + i] = c[i]
  BY TextJoined
<1>2. /\ First(a, t) \in 0..Len(a)
      /\ First(a, t) = 0 => \A i \in 1..Len(a) : a[i] # t
      /\ First(a, t) > 0 => a[First(a, t)] = t /\ \A i \in 1..(First(a, t) - 1) : a[i] # t
  BY FirstIs
<1>3. /\ First(c, t) \in 0..Len(c)
      /\ First(c, t) = 0 => \A i \in 1..Len(c) : c[i] # t
      /\ First(c, t) > 0 => c[First(c, t)] = t /\ \A i \in 1..(First(c, t) - 1) : c[i] # t
  BY FirstIs
<1>4. \A i \in 1..Len(ac) : i \in 1..Len(a) \/ (i - Len(a) \in 1..Len(c) /\ Len(a) + (i - Len(a)) = i)
  BY <1>1
<1> HIDE DEF ac
<1>5. CASE First(a, t) > 0
  <2> DEFINE k == First(a, t)
  <2>1. k \in 1..Len(a) /\ a[k] = t /\ \A i \in 1..(k - 1) : a[i] # t
    BY <1>1, <1>2, <1>5
  <2> HIDE DEF k
  <2>2. k \in 1..Len(ac) /\ ac[k] = t /\ \A i \in 1..(k - 1) : i \in 1..Len(a)
    BY <1>1, <2>1
  <2>3. \A i \in 1..(k - 1) : ac[i] # t
    BY <1>1, <2>1, <2>2
  <2>4. First(ac, t) = k
    BY <1>1, <2>2, <2>3, FirstAt
  <2> QED
    BY <1>5, <2>4 DEF ac, k
<1>6. CASE ~(First(a, t) > 0) /\ First(c, t) > 0
  <2> DEFINE k == Len(a) + First(c, t)
  <2>1. k \in 1..Len(ac) /\ ac[k] = t
    BY <1>1, <1>3, <1>6
  <2>2. ASSUME NEW i \in 1..(k - 1) PROVE ac[i] # t
    <3>1. i \in 1..Len(ac)
      BY <1>1, <2>1
    <3>2. CASE i \in 1..Len(a)
      BY <1>1, <1>2, <1>6, <3>2
    <3>3. CASE i - Len(a) \in 1..Len(c) /\ Len(a) + (i - Len(a)) = i
      <4>1. i - Len(a) \in 1..(First(c, t) - 1)
        BY <1>1, <1>3, <3>3
      <4>2. ac[Len(a) + (i - Len(a))] = c[i - Len(a)]
        BY <1>1, <3>3
      <4> QED
        BY <1>3, <1>6, <3>3, <4>1, <4>2
    <3> QED
      BY <1>4, <3>1, <3>2, <3>3
  <2> HIDE DEF k
  <2>3. First(ac, t) = k
    BY <1>1, <2>1, <2>2, FirstAt
  <2> QED
    BY <1>6, <2>3 DEF ac, k
<1>7. CASE ~(First(a, t) > 0) /\ ~(First(c, t) > 0)
  <2>1. First(a, t) = 0 /\ First(c, t) = 0
    BY <1>1, <1>2, <1>3, <1>7
  <2>2. ASSUME NEW i \in 1..Len(ac) PROVE ac[i] # t
    <3>1. CASE i \in 1..Len(a)
      BY <1>1, <1>2, <2>1, <3>1
    <3>2. CASE i - Len(a) \in 1..Len(c) /\ Len(a) + (i - Len(a)) = i
      <4>1. ac[Len(a) + (i - Len(a))] = c[i - Len(a)]
        BY <1>1, <3>2
      <4> QED
        BY <1>3, <2>1, <3>2, <4>1
    <3> QED
      BY <1>4, <3>1, <3>2
  <2>3. First(ac, t) = 0
    BY <1>1, <2>2, FirstIs
  <2> QED
    BY <1>7, <2>3 DEF ac
<1> QED
  BY <1>5, <1>6, <1>7

LEMMA BlanksJoined ==
  ASSUME NEW B, NEW a \in Seq(B), NEW c \in Seq(B), Blanks(a) < Len(a)
  PROVE  Blanks(a \o c) = Blanks(a)
<1> DEFINE ac == a \o c
<1>1. /\ Len(a) \in Nat /\ Len(c) \in Nat
      /\ ac \in Seq(B) /\ Len(ac) = Len(a) + Len(c)
      /\ \A i \in 1..Len(a) : ac[i] = a[i]
  BY TextJoined
<1>2. /\ Blanks(a) \in 0..Len(a)
      /\ \A i \in 1..Blanks(a) : a[i] = "nl"
      /\ a[Blanks(a) + 1] # "nl"
  BY BlanksAre
<1> HIDE DEF ac
<1> DEFINE k == Blanks(a)
<1>3. k \in 0..Len(a) /\ k < Len(a) /\ (\A i \in 1..k : a[i] = "nl") /\ a[k + 1] # "nl"
  BY <1>2
<1> HIDE DEF k
<1>4. k \in 0..Len(ac) /\ k + 1 \in 1..Len(a) /\ \A i \in 1..k : i \in 1..Len(a)
  BY <1>1, <1>3
<1>5. (\A i \in 1..k : ac[i] = "nl") /\ ac[k + 1] # "nl"
  BY <1>1, <1>3, <1>4
<1>6. Blanks(ac) = k
  BY <1>1, <1>4, <1>5, BlanksAt
<1> QED
  BY <1>6 DEF ac, k

-----------------------------------------------------------------------------
(***************************************************************************)
(* The scanner of an arguments object.                                      *)
(***************************************************************************)
Phases == {"initial", "scanning", "complete", "failed"}

Scans == [phase : Phases, objects : Int, arrays : Int, inString : BOOLEAN]

LEMMA ScanTyped ==
  ASSUME NEW s \in Scans, NEW t
  PROVE  Scan(s, t) \in Scans
<1>1. /\ s.phase \in Phases
      /\ s.objects \in Int /\ s.arrays \in Int /\ s.inString \in BOOLEAN
  BY DEF Scans
<1>2. CASE s.phase \in {"complete", "failed"}
  BY <1>2 DEF Scan
<1>3. CASE s.phase = "initial"
  <2>1. Scan(s, t) = IF t = "{" THEN [s EXCEPT !.phase = "scanning", !.objects = 1] ELSE [s EXCEPT !.phase = "failed"]
    BY <1>3 DEF Scan
  <2>2. "scanning" \in Phases /\ "failed" \in Phases /\ 1 \in Int
    BY DEF Phases
  <2>3. [s EXCEPT !.phase = "scanning", !.objects = 1] \in Scans
    BY <1>1, <2>2 DEF Scans
  <2>4. [s EXCEPT !.phase = "failed"] \in Scans
    BY <1>1, <2>2 DEF Scans
  <2> QED
    BY <2>1, <2>3, <2>4
<1>4. CASE s.phase = "scanning" /\ s.inString
  BY <1>1, <1>4 DEF Scan, Scans
<1>5. CASE s.phase = "scanning" /\ ~s.inString
  <2> DEFINE ended == IF s.objects > 1 THEN s.phase ELSE IF s.arrays = 0 THEN "complete" ELSE "failed"
             less == s.objects - 1
  <2>1. [s EXCEPT !.inString = TRUE] \in Scans
    BY <1>1 DEF Scans
  <2>2. [s EXCEPT !.objects = @ + 1] \in Scans
    BY <1>1 DEF Scans
  <2>3. [s EXCEPT !.objects = less, !.phase = ended] \in Scans
    <3>1. ended \in Phases /\ less \in Int
      BY <1>1 DEF Phases
    <3> HIDE DEF ended, less
    <3>2. [s EXCEPT !.objects = less] \in Scans
      BY <1>1, <3>1 DEF Scans
    <3>3. [[s EXCEPT !.objects = less] EXCEPT !.phase = ended] \in Scans
      BY <3>1, <3>2 DEF Scans
    <3> QED
      BY <1>1, <3>3 DEF Scans
  <2>4. [s EXCEPT !.arrays = @ + 1] \in Scans
    BY <1>1 DEF Scans
  <2>5. [s EXCEPT !.phase = "failed"] \in Scans
    <3>1. "failed" \in Phases
      BY DEF Phases
    <3> QED
      BY <1>1, <3>1 DEF Scans
  <2>6. [s EXCEPT !.arrays = @ - 1] \in Scans
    BY <1>1 DEF Scans
  <2>7. s.phase \notin {"complete", "failed", "initial"}
    BY <1>5
  <2> QED
    BY <1>5, <2>1, <2>2, <2>3, <2>4, <2>5, <2>6, <2>7, Zenon DEF Scan
<1> QED
  BY <1>1, <1>2, <1>3, <1>4, <1>5 DEF Phases

LEMMA ScannedRun ==
  ASSUME NEW B, NEW text \in Seq(B), NEW s \in Scans
  PROVE  \E iter :
           /\ Scanned(s, text) = iter[1..Len(text)]
           /\ iter[1..0] = s
           /\ \A k \in 1..Len(text) : iter[1..k] = Scan(iter[1..(k - 1)], text[k])
           /\ \A k \in 0..Len(text) : iter[1..k] \in Scans
<1> DEFINE n == Len(text)
           T == Scans
           step == [k \in 1..n |-> [x \in T |-> Scan(x, text[k])]]
           Fits(iter) == iter = [r \in SUBSET (1..n) |->
                                   IF r = {} THEN s ELSE Scan(iter[r \ {Max(r)}], text[Max(r)])]
           run == CHOOSE iter : Fits(iter)
<1>1. n \in Nat /\ DOMAIN text = 1..n /\ \A k \in 1..n : text[k] \in B
  OBVIOUS
<1>2. step \in [1..n -> [T -> T]]
  BY <1>1, ScanTyped
<1>3. \A r \in SUBSET (1..n) : r # {} => Max(r) \in 1..n
  <2>1. ASSUME NEW r \in SUBSET (1..n), r # {} PROVE Max(r) \in r
    <3>1. r \in SUBSET (0..n)
      OBVIOUS
    <3> QED
      BY <1>1, <2>1, <3>1, MaxBounded
  <2> QED
    BY <2>1
<1>4. \E iter : Fits(iter)
  <2>1. s \in T
    OBVIOUS
  <2>2. PICK iter \in [SUBSET (1..n) -> T] : TakesSteps(iter, step, s, n)
    <3> HIDE DEF step, T, n
    <3> QED
      BY <1>1, <1>2, <2>1, FoldExists
  <2>3. ASSUME NEW r \in SUBSET (1..n), r # {}
        PROVE  step[Max(r)][iter[r \ {Max(r)}]] = Scan(iter[r \ {Max(r)}], text[Max(r)])
    BY <1>3, <2>3
  <2>4. Fits(iter)
    BY <2>2, <2>3 DEF TakesSteps
  <2> QED
    BY <2>4
<1>5. Fits(run)
  <2> HIDE DEF Fits
  <2> QED
    BY <1>4
<1>6. Scanned(s, text) = run[1..n]
  BY <1>1 DEF Scanned, FoldLeft, MapThenFoldSet
<1>7. \A r \in SUBSET (1..n) :
        run[r] = IF r = {} THEN s ELSE Scan(run[r \ {Max(r)}], text[Max(r)])
  <2> HIDE DEF run
  <2> QED
    BY <1>5
<1> HIDE DEF run, n, Fits, T
<1>8. run[1..0] = s
  BY <1>1, <1>7, Beginnings
<1>9. ASSUME NEW k \in 1..n PROVE run[1..k] = Scan(run[1..(k - 1)], text[k])
  <2>1. /\ 1..k \in SUBSET (1..n) /\ 1..k # {}
        /\ Max(1..k) = k /\ (1..k) \ {Max(1..k)} = 1..(k - 1)
    BY <1>1, Beginnings
  <2> QED
    BY <1>7, <2>1
<1>10. \A k \in 0..n : run[1..k] \in T
  <2>1. \A k \in 1..n : run[1..(k - 1)] \in T => run[1..k] \in T
    BY <1>1, <1>9, ScanTyped DEF T
  <2>2. run[1..0] \in T
    BY <1>8 DEF T
  <2> QED
    BY <1>1, <2>1, <2>2, RunTyped
<1> QED
  BY <1>6, <1>8, <1>9, <1>10 DEF n, T

LEMMA ScannedTyped ==
  ASSUME NEW B, NEW text \in Seq(B), NEW s \in Scans
  PROVE  Scanned(s, text) \in Scans
<1>1. Len(text) \in 0..Len(text)
  OBVIOUS
<1> QED
  BY <1>1, ScannedRun, SMTT(30)

LEMMA ScannedEmpty ==
  ASSUME NEW s \in Scans
  PROVE  Scanned(s, << >>) = s
<1>1. << >> \in Seq({0})
  OBVIOUS
<1>2. PICK iter : /\ Scanned(s, << >>) = iter[1..Len(<< >>)]
                  /\ iter[1..0] = s
                  /\ \A k \in 1..Len(<< >>) : iter[1..k] = Scan(iter[1..(k - 1)], << >>[k])
                  /\ \A k \in 0..Len(<< >>) : iter[1..k] \in Scans
  BY <1>1, ScannedRun, Zenon
<1>3. Len(<< >>) = 0
  OBVIOUS
<1> QED
  BY <1>2, <1>3

LEMMA ScannedAppend ==
  ASSUME NEW B, NEW text \in Seq(B), NEW t \in B, NEW s \in Scans
  PROVE  Scanned(s, Append(text, t)) = Scan(Scanned(s, text), t)
<1> DEFINE n == Len(text)
           longer == Append(text, t)
<1>1. /\ n \in Nat /\ longer \in Seq(B) /\ Len(longer) = n + 1 /\ longer[n + 1] = t
      /\ \A k \in 1..n : longer[k] = text[k]
  OBVIOUS
<1>2. PICK a : /\ Scanned(s, text) = a[1..n]
               /\ a[1..0] = s
               /\ \A k \in 1..n : a[1..k] = Scan(a[1..(k - 1)], text[k])
  BY ScannedRun
<1> HIDE DEF longer
<1>3. PICK c : /\ Scanned(s, longer) = c[1..(n + 1)]
               /\ c[1..0] = s
               /\ \A k \in 1..(n + 1) : c[1..k] = Scan(c[1..(k - 1)], longer[k])
  BY <1>1, ScannedRun, SMTT(30)
<1> HIDE DEF n
<1>4. \A k \in 0..n : c[1..k] = a[1..k]
  <2>1. \A k \in 1..n : k \in 1..(n + 1)
    BY <1>1
  <2>2. \A k \in 1..n : Agree(a, c, k - 1) => Agree(a, c, k)
    BY <1>1, <1>2, <1>3, <2>1 DEF Agree
  <2>3. Agree(a, c, 0)
    BY <1>2, <1>3 DEF Agree
  <2>4. n \in Nat
    BY <1>1
  <2>5. \A k \in 0..n : Agree(a, c, k)
    BY <2>2, <2>3, <2>4, SameRuns
  <2> QED
    BY <2>5 DEF Agree
<1>5. c[1..(n + 1)] = Scan(c[1..n], t)
  <2>1. n + 1 \in 1..(n + 1) /\ (n + 1) - 1 = n
    BY <1>1
  <2> QED
    BY <1>1, <1>3, <2>1
<1>6. c[1..n] = a[1..n]
  <2>1. n \in 0..n
    BY <1>1
  <2> QED
    BY <1>4, <2>1
<1> QED
  BY <1>2, <1>3, <1>5, <1>6 DEF longer

LEMMA ScannedJoined ==
  ASSUME NEW B, NEW a \in Seq(B), NEW c \in Seq(B), NEW s \in Scans
  PROVE  Scanned(s, a \o c) = Scanned(Scanned(s, a), c)
<1> DEFINE Joins(x) == Scanned(s, a \o x) = Scanned(Scanned(s, a), x)
           S == {x \in Seq(B) : Joins(x)}
<1>1. << >> \in S
  <2>1. a \o << >> = a
    OBVIOUS
  <2>2. Scanned(s, a) \in Scans
    BY ScannedTyped
  <2>3. Scanned(Scanned(s, a), << >>) = Scanned(s, a)
    BY <2>2, ScannedEmpty
  <2> QED
    BY <2>1, <2>3
<1>2. ASSUME NEW x \in Seq(B), NEW t \in B, x \in S PROVE Append(x, t) \in S
  <2>1. a \o Append(x, t) = Append(a \o x, t)
    BY AppendBehind
  <2>2. a \o x \in Seq(B) /\ Scanned(s, a) \in Scans
    BY ScannedTyped
  <2>3. Scanned(s, Append(a \o x, t)) = Scan(Scanned(s, a \o x), t)
    BY <2>2, ScannedAppend
  <2>4. Scanned(Scanned(s, a), Append(x, t)) = Scan(Scanned(Scanned(s, a), x), t)
    BY <2>2, ScannedAppend
  <2>5. Joins(Append(x, t))
    BY <1>2, <2>1, <2>3, <2>4
  <2>6. Append(x, t) \in Seq(B)
    OBVIOUS
  <2> HIDE DEF Joins
  <2> QED
    BY <2>5, <2>6
<1>3. Seq(B) \subseteq S
  <2> HIDE DEF S
  <2> QED
    BY <1>1, <1>2, SequenceInduction
<1> QED
  BY <1>3

\* An object that has ended or failed stays as it is.
LEMMA ScannedStays ==
  ASSUME NEW B, NEW text \in Seq(B), NEW s \in Scans, s.phase \in {"complete", "failed"}
  PROVE  Scanned(s, text) = s
<1> DEFINE S == {x \in Seq(B) : Scanned(s, x) = s}
<1>1. << >> \in S
  BY ScannedEmpty
<1>2. ASSUME NEW x \in Seq(B), NEW t \in B, x \in S PROVE Append(x, t) \in S
  <2>1. Scanned(s, Append(x, t)) = Scan(Scanned(s, x), t)
    BY ScannedAppend
  <2>2. Scan(s, t) = s
    BY DEF Scan
  <2>3. Append(x, t) \in Seq(B)
    OBVIOUS
  <2> QED
    BY <1>2, <2>1, <2>2, <2>3
<1>3. Seq(B) \subseteq S
  <2> HIDE DEF S
  <2> QED
    BY <1>1, <1>2, SequenceInduction
<1> QED
  BY <1>3

\* Beginnings of a text.
\* A text cut behind its n-th token.
CutOnce(B, text, n) ==
  /\ SubSeq(text, 1, n) \in Seq(B) /\ Len(SubSeq(text, 1, n)) = n
  /\ \A k \in 1..n : SubSeq(text, 1, n)[k] = text[k]
  /\ From(text, n + 1) \in Seq(B) /\ Len(From(text, n + 1)) = Len(text) - n
  /\ text = SubSeq(text, 1, n) \o From(text, n + 1)

LEMMA Cut ==
  ASSUME NEW B, NEW text \in Seq(B), NEW n \in 0..Len(text)
  PROVE  CutOnce(B, text, n)
<1>1. Len(text) \in Nat
  OBVIOUS
<1>2. /\ SubSeq(text, 1, n) \in Seq(B) /\ Len(SubSeq(text, 1, n)) = n
      /\ \A k \in 1..n : SubSeq(text, 1, n)[k] = text[k]
  BY <1>1
<1>3. /\ From(text, n + 1) \in Seq(B) /\ Len(From(text, n + 1)) = Len(text) - n
  BY <1>1, FromText
<1>4. SubSeq(text, 1, Len(text)) = SubSeq(text, 1, n) \o SubSeq(text, 1 + n, Len(text))
  <2>1. 1 \in 1..(Len(text) + 1) /\ n \in 0..(Len(text) + 1 - 1) /\ 1 + n - 1 = n
    BY <1>1
  <2> QED
    BY <2>1, CutInTwo
<1>5. SubSeq(text, 1, Len(text)) = text
  OBVIOUS
<1>6. 1 + n = n + 1
  BY <1>1
<1>7. text = SubSeq(text, 1, n) \o From(text, n + 1)
  BY <1>4, <1>5, <1>6 DEF From
<1> QED
  BY <1>2, <1>3, <1>7 DEF CutOnce

LEMMA Beginning ==
  ASSUME NEW B, NEW text \in Seq(B), NEW n \in 0..Len(text)
  PROVE  /\ SubSeq(text, 1, n) \in Seq(B) /\ Len(SubSeq(text, 1, n)) = n
         /\ \A k \in 1..n : SubSeq(text, 1, n)[k] = text[k]
         /\ From(text, n + 1) \in Seq(B) /\ Len(From(text, n + 1)) = Len(text) - n
         /\ text = SubSeq(text, 1, n) \o From(text, n + 1)
<1>1. CutOnce(B, text, n)
  BY Cut
<1> QED
  BY <1>1 DEF CutOnce

LEMMA WholeBeginning ==
  ASSUME NEW B, NEW text \in Seq(B)
  PROVE  SubSeq(text, 1, Len(text)) = text /\ From(text, Len(text) + 1) = << >> /\ From(text, 1) = text
<1>1. Len(text) \in Nat
  OBVIOUS
<1>2. From(text, Len(text) + 1) \in Seq(B) /\ Len(From(text, Len(text) + 1)) = 0
  BY <1>1, FromText
<1> QED
  BY <1>2 DEF From

\* The beginnings of two texts in one.
BeginningsOf(a, c) ==
  /\ \A n \in 0..Len(a) : SubSeq(a \o c, 1, n) = SubSeq(a, 1, n)
  /\ \A n \in 0..Len(c) : SubSeq(a \o c, 1, Len(a) + n) = a \o SubSeq(c, 1, n)

LEMMA JoinedBeginnings ==
  ASSUME NEW B, NEW a \in Seq(B), NEW c \in Seq(B)
  PROVE  BeginningsOf(a, c)
<1> DEFINE ac == a \o c
<1>1. /\ Len(a) \in Nat /\ Len(c) \in Nat
      /\ ac \in Seq(B) /\ Len(ac) = Len(a) + Len(c)
      /\ \A i \in 1..Len(a) : ac[i] = a[i]
      /\ \A i \in 1..Len(c) : ac[Len(a) + i] = c[i]
  BY TextJoined
<1> HIDE DEF ac
<1>2. ASSUME NEW n \in 0..Len(a) PROVE SubSeq(ac, 1, n) = SubSeq(a, 1, n)
  <2>1. n \in 0..Len(ac) /\ \A k \in 1..n : k \in 1..Len(a)
    BY <1>1
  <2>2. /\ SubSeq(ac, 1, n) \in Seq(B) /\ Len(SubSeq(ac, 1, n)) = n
        /\ \A k \in 1..n : SubSeq(ac, 1, n)[k] = ac[k]
    BY <1>1, <2>1, Beginning
  <2>3. /\ SubSeq(a, 1, n) \in Seq(B) /\ Len(SubSeq(a, 1, n)) = n
        /\ \A k \in 1..n : SubSeq(a, 1, n)[k] = a[k]
    BY Beginning
  <2> QED
    BY <1>1, <2>1, <2>2, <2>3, SeqEqual
<1>3. ASSUME NEW n \in 0..Len(c) PROVE SubSeq(ac, 1, Len(a) + n) = a \o SubSeq(c, 1, n)
  <2> DEFINE m == Len(a) + n
             u == SubSeq(ac, 1, m)
             v == SubSeq(c, 1, n)
             w == a \o v
  <2>1. m \in 0..Len(ac)
    BY <1>1
  <2>2. u \in Seq(B) /\ Len(u) = m /\ \A k \in 1..m : u[k] = ac[k]
    BY <1>1, <2>1, Beginning
  <2>3. v \in Seq(B) /\ Len(v) = n /\ \A k \in 1..n : v[k] = c[k]
    BY Beginning
  <2> HIDE DEF u, v
  <2>4. /\ w \in Seq(B) /\ Len(w) = Len(a) + Len(v)
        /\ \A i \in 1..Len(a) : w[i] = a[i]
        /\ \A i \in 1..Len(v) : w[Len(a) + i] = v[i]
    <3>1. v \in Seq(B)
      BY <2>3
    <3> QED
      BY <3>1, TextJoined
  <2> HIDE DEF w
  <2>5. ASSUME NEW k \in 1..m PROVE u[k] = w[k]
    <3>1. CASE k \in 1..Len(a)
      BY <1>1, <2>2, <2>4, <3>1
    <3>2. CASE k \notin 1..Len(a)
      <4>1. k - Len(a) \in 1..n /\ Len(a) + (k - Len(a)) = k /\ k - Len(a) \in 1..Len(c)
        BY <1>1, <3>2
      <4>2. ac[Len(a) + (k - Len(a))] = c[k - Len(a)] /\ w[Len(a) + (k - Len(a))] = v[k - Len(a)]
        BY <1>1, <2>3, <2>4, <4>1
      <4> QED
        BY <2>2, <2>3, <4>1, <4>2
    <3> QED
      BY <3>1, <3>2
  <2>6. Len(u) = Len(w)
    BY <2>2, <2>3, <2>4
  <2>7. u = w
    BY <2>2, <2>4, <2>5, <2>6, SeqEqual
  <2> QED
    BY <2>7 DEF u, v, w
<1> QED
  BY <1>2, <1>3 DEF ac, BeginningsOf

LEMMA JoinedBeginning ==
  ASSUME NEW B, NEW a \in Seq(B), NEW c \in Seq(B)
  PROVE  /\ \A n \in 0..Len(a) : SubSeq(a \o c, 1, n) = SubSeq(a, 1, n)
         /\ \A n \in 0..Len(c) : SubSeq(a \o c, 1, Len(a) + n) = a \o SubSeq(c, 1, n)
<1>1. BeginningsOf(a, c)
  BY JoinedBeginnings
<1> QED
  BY <1>1 DEF BeginningsOf

\* What take_json_object takes: up to the first end of the object.
Ends(s, text) == {n \in DOMAIN text : Scanned(s, SubSeq(text, 1, n)).phase = "complete"}

LEMMA EndsAre ==
  ASSUME NEW B, NEW text \in Seq(B), NEW s
  PROVE  /\ Ends(s, text) \in SUBSET Nat
         /\ \A k : k \in Ends(s, text) <=> k \in 1..Len(text) /\ Scanned(s, SubSeq(text, 1, k)).phase = "complete"
         /\ Taken(s, text) = IF Ends(s, text) = {} THEN Len(text)
                             ELSE CHOOSE k \in Ends(s, text) : \A m \in Ends(s, text) : k <= m
<1>1. Len(text) \in Nat /\ DOMAIN text = 1..Len(text)
  OBVIOUS
<1>2. \A k : k \in Ends(s, text) <=> k \in 1..Len(text) /\ Scanned(s, SubSeq(text, 1, k)).phase = "complete"
  BY <1>1 DEF Ends
<1>3. Ends(s, text) \in SUBSET Nat
  BY <1>1, <1>2
<1> QED
  BY <1>2, <1>3 DEF Taken, Ends

LEMMA TakenIs ==
  ASSUME NEW B, NEW text \in Seq(B), NEW s
  PROVE  /\ Taken(s, text) \in 0..Len(text)
         /\ \A k \in 1..Len(text) : k < Taken(s, text) => Scanned(s, SubSeq(text, 1, k)).phase # "complete"
         /\ \/ Taken(s, text) = Len(text)
            \/ Taken(s, text) \in Ends(s, text)
<1> DEFINE ends == Ends(s, text)
           n == Taken(s, text)
<1>1. Len(text) \in Nat
  OBVIOUS
<1>2. /\ ends \in SUBSET Nat
      /\ \A k : k \in ends <=> k \in 1..Len(text) /\ Scanned(s, SubSeq(text, 1, k)).phase = "complete"
      /\ n = IF ends = {} THEN Len(text) ELSE CHOOSE k \in ends : \A m \in ends : k <= m
  BY EndsAre
<1> HIDE DEF ends, n
<1>3. CASE ends = {}
  <2>1. n = Len(text)
    BY <1>2, <1>3
  <2>2. \A k \in 1..Len(text) : Scanned(s, SubSeq(text, 1, k)).phase # "complete"
    BY <1>2, <1>3
  <2> QED
    BY <1>1, <2>1, <2>2 DEF n
<1>4. CASE ends # {}
  <2>1. \E k \in ends : \A m \in ends : k <= m
    BY <1>2, <1>4, LeastNatural
  <2>2. n \in ends /\ \A m \in ends : n <= m
    BY <1>2, <1>4, <2>1
  <2>3. n \in 1..Len(text)
    BY <1>2, <2>2
  <2>4. \A k \in 1..Len(text) : k < n => k \notin ends
    BY <1>1, <2>2, <2>3
  <2> QED
    <3>1. n \in 0..Len(text)
      BY <1>1, <2>3
    <3>2. \A k \in 1..Len(text) : k < n => Scanned(s, SubSeq(text, 1, k)).phase # "complete"
      BY <1>2, <2>4
    <3> QED
      BY <2>2, <3>1, <3>2 DEF n, ends
<1> QED
  BY <1>3, <1>4

LEMMA TakenAt ==
  ASSUME NEW B, NEW text \in Seq(B), NEW s, NEW n \in 0..Len(text),
         \A k \in 1..Len(text) : k < n => Scanned(s, SubSeq(text, 1, k)).phase # "complete",
         n = Len(text) \/ n \in Ends(s, text)
  PROVE  Taken(s, text) = n
<1> DEFINE t == Taken(s, text)
<1>1. Len(text) \in Nat
  OBVIOUS
<1>2. \A k : k \in Ends(s, text) <=> k \in 1..Len(text) /\ Scanned(s, SubSeq(text, 1, k)).phase = "complete"
  BY EndsAre
<1>3. /\ t \in 0..Len(text)
      /\ \A k \in 1..Len(text) : k < t => Scanned(s, SubSeq(text, 1, k)).phase # "complete"
      /\ t = Len(text) \/ t \in Ends(s, text)
  BY TakenIs
<1> HIDE DEF t
<1>4. ~(t < n)
  <2>1. SUFFICES ASSUME t < n PROVE FALSE
    OBVIOUS
  <2>2. t \in Ends(s, text)
    BY <1>1, <1>3, <2>1
  <2> QED
    BY <1>2, <2>1, <2>2
<1>5. ~(n < t)
  <2>1. SUFFICES ASSUME n < t PROVE FALSE
    OBVIOUS
  <2>2. n \in Ends(s, text)
    BY <1>1, <1>3, <2>1
  <2> QED
    BY <1>2, <1>3, <2>1, <2>2
<1>6. t = n
  BY <1>1, <1>3, <1>4, <1>5
<1> QED
  BY <1>6 DEF t

\* What is taken of a text and one behind it.
LEMMA TakenJoined ==
  ASSUME NEW B, NEW a \in Seq(B), NEW c \in Seq(B), NEW s \in Scans, s.phase # "complete"
  PROVE  LET n == Taken(s, a)
             t == Scanned(s, SubSeq(a, 1, n))
         IN  IF t.phase = "complete" THEN Taken(s, a \o c) = n
             ELSE n = Len(a) /\ t = Scanned(s, a) /\ Taken(s, a \o c) = Len(a) + Taken(t, c)
<1> DEFINE n == Taken(s, a)
           t == Scanned(s, SubSeq(a, 1, n))
           ac == a \o c
<1>1. /\ Len(a) \in Nat /\ Len(c) \in Nat /\ ac \in Seq(B) /\ Len(ac) = Len(a) + Len(c)
  BY TextJoined
<1>2. /\ n \in 0..Len(a)
      /\ \A k \in 1..Len(a) : k < n => Scanned(s, SubSeq(a, 1, k)).phase # "complete"
      /\ t.phase = "complete" => n \in 1..Len(a)
      /\ t.phase # "complete" => n = Len(a)
  <2>1. /\ n \in 0..Len(a)
        /\ \A k \in 1..Len(a) : k < n => Scanned(s, SubSeq(a, 1, k)).phase # "complete"
        /\ n = Len(a) \/ n \in Ends(s, a)
    BY TakenIs
  <2>2. n \in Ends(s, a) => t.phase = "complete"
    BY EndsAre
  <2>3. ASSUME n = 0 PROVE t.phase # "complete"
    <3>1. SubSeq(a, 1, 0) = << >>
      BY <1>1, Beginning
    <3>2. t = Scanned(s, << >>)
      BY <2>3, <3>1
    <3> QED
      BY <3>2, ScannedEmpty
  <2> HIDE DEF n, t
  <2> QED
    BY <1>1, <2>1, <2>2, <2>3
<1>3. /\ \A k \in 0..Len(a) : SubSeq(ac, 1, k) = SubSeq(a, 1, k)
      /\ \A k \in 0..Len(c) : SubSeq(ac, 1, Len(a) + k) = a \o SubSeq(c, 1, k)
  BY JoinedBeginning
<1> HIDE DEF n, ac
<1>4. CASE t.phase = "complete"
  <2>1. n \in 1..Len(a) /\ n \in 0..Len(ac) /\ n \in 1..Len(ac)
    BY <1>1, <1>2, <1>4
  <2>2. n \in Ends(s, ac)
    <3>1. Scanned(s, SubSeq(ac, 1, n)).phase = "complete"
      BY <1>2, <1>3, <1>4
    <3> QED
      BY <1>1, <2>1, <3>1, EndsAre
  <2>3. ASSUME NEW k \in 1..Len(ac), k < n PROVE Scanned(s, SubSeq(ac, 1, k)).phase # "complete"
    <3>1. k \in 1..Len(a) /\ k \in 0..Len(a)
      BY <1>1, <2>1, <2>3
    <3> QED
      BY <1>2, <1>3, <2>3, <3>1
  <2>4. Taken(s, ac) = n
    BY <1>1, <2>1, <2>2, <2>3, TakenAt
  <2> QED
    BY <1>4, <2>4 DEF n, ac
<1>5. CASE t.phase # "complete"
  <2>1. n = Len(a)
    BY <1>1, <1>2, <1>5
  <2>2. SubSeq(a, 1, n) = a /\ t = Scanned(s, a)
    BY <2>1, WholeBeginning
  <2>3. t \in Scans
    BY <2>2, ScannedTyped
  <2> HIDE DEF t
  <2> DEFINE m == Taken(t, c)
  <2>4. /\ m \in 0..Len(c)
        /\ \A k \in 1..Len(c) : k < m => Scanned(t, SubSeq(c, 1, k)).phase # "complete"
        /\ m = Len(c) \/ m \in Ends(t, c)
    BY TakenIs
  <2> HIDE DEF m
  <2>5. ASSUME NEW k \in 0..Len(c)
        PROVE  Scanned(s, SubSeq(ac, 1, Len(a) + k)) = Scanned(t, SubSeq(c, 1, k))
    <3>1. SubSeq(ac, 1, Len(a) + k) = a \o SubSeq(c, 1, k) /\ SubSeq(c, 1, k) \in Seq(B)
      BY <1>3, Beginning
    <3>2. Scanned(s, a \o SubSeq(c, 1, k)) = Scanned(Scanned(s, a), SubSeq(c, 1, k))
      BY <3>1, ScannedJoined
    <3> QED
      BY <2>2, <3>1, <3>2
  <2> DEFINE j == Len(a) + m
  <2>6. j \in 0..Len(ac) /\ (m = Len(c) => j = Len(ac)) /\ (m \in 1..Len(c) => j \in 1..Len(ac))
    <3>1. m \in 0..Len(c)
      BY <2>4
    <3> QED
      BY <1>1, <3>1
  <2>7. ASSUME NEW k \in 1..Len(ac), k < j PROVE Scanned(s, SubSeq(ac, 1, k)).phase # "complete"
    <3>1. CASE k < Len(a)
      <4>1. k \in 1..Len(a) /\ k \in 0..Len(a)
        BY <1>1, <3>1
      <4> QED
        BY <1>2, <1>3, <2>1, <3>1, <4>1
    <3>2. CASE ~(k < Len(a))
      <4>1. k - Len(a) \in 0..Len(c) /\ Len(a) + (k - Len(a)) = k /\ k - Len(a) < m
        BY <1>1, <2>4, <2>7, <3>2
      <4>2. Scanned(s, SubSeq(ac, 1, k)) = Scanned(t, SubSeq(c, 1, k - Len(a)))
        BY <2>5, <4>1
      <4>3. CASE k - Len(a) = 0
        <5>1. SubSeq(c, 1, 0) = << >>
          BY <1>1, Beginning
        <5>2. Scanned(t, SubSeq(c, 1, k - Len(a))) = t
          BY <2>3, <4>3, <5>1, ScannedEmpty
        <5> QED
          BY <1>5, <4>2, <5>2 DEF t
      <4>4. CASE k - Len(a) # 0
        <5>1. k - Len(a) \in 1..Len(c)
          BY <1>1, <4>1, <4>4
        <5> QED
          BY <2>4, <4>1, <4>2, <5>1
      <4> QED
        BY <4>3, <4>4
    <3> QED
      BY <3>1, <3>2
  <2>8. j = Len(ac) \/ j \in Ends(s, ac)
    <3>1. CASE m = Len(c)
      BY <2>6, <3>1
    <3>2. CASE m \in Ends(t, c)
      <4>1. m \in 1..Len(c) /\ Scanned(t, SubSeq(c, 1, m)).phase = "complete"
        BY <3>2, EndsAre
      <4>2. Scanned(s, SubSeq(ac, 1, j)) = Scanned(t, SubSeq(c, 1, m))
        BY <2>4, <2>5
      <4>3. j \in 1..Len(ac) /\ Scanned(s, SubSeq(ac, 1, j)).phase = "complete"
        BY <2>6, <4>1, <4>2
      <4> HIDE DEF j
      <4> QED
        BY <1>1, <4>3, EndsAre
    <3> QED
      BY <2>4, <3>1, <3>2
  <2> HIDE DEF j
  <2>9. Taken(s, ac) = j
    BY <1>1, <2>6, <2>7, <2>8, TakenAt
  <2> QED
    BY <1>5, <2>1, <2>2, <2>9 DEF n, t, ac, m, j
<1> QED
  BY <1>4, <1>5

-----------------------------------------------------------------------------
(***************************************************************************)
(* What a parser can be: while it reads arguments, the scanner is where     *)
(* those of the last call end.                                              *)
(***************************************************************************)
Modes == {"text", "header", "arguments"}

Statuses == {"ready", "waits", "failed"}

ParsedCalls(B) == [name : Range(Header), arguments : Seq(B)]

ParserRecords(B) ==
  [format : {"hermes", "qwen"}, mode : Modes, scan : Scans, buffer : Seq(B),
   calls : Seq(ParsedCalls(B)), status : Statuses]

InStep(p) ==
  p.mode = "arguments" =>
    p.calls # << >> /\ p.scan = Scanned(NewScan, p.calls[Len(p.calls)].arguments)

Parsers(B) == {p \in ParserRecords(B) : InStep(p)}

LEMMA ParserFields ==
  ASSUME NEW B, NEW p \in Parsers(B)
  PROVE  /\ p \in ParserRecords(B) /\ InStep(p)
         /\ p.format \in {"hermes", "qwen"} /\ p.mode \in Modes /\ p.scan \in Scans /\ p.buffer \in Seq(B)
         /\ p.calls \in Seq(ParsedCalls(B)) /\ p.status \in Statuses
BY DEF Parsers, ParserRecords

LEMMA WithStatus ==
  ASSUME NEW B, NEW p \in Parsers(B), NEW status \in Statuses
  PROVE  /\ [p EXCEPT !.status = status] \in Parsers(B)
         /\ [p EXCEPT !.status = status].status = status
         /\ [p EXCEPT !.status = status].buffer = p.buffer
<1> DEFINE q == [p EXCEPT !.status = status]
<1>1. p \in ParserRecords(B) /\ InStep(p)
  BY ParserFields
<1>2. /\ q \in ParserRecords(B)
      /\ q.status = status /\ q.buffer = p.buffer /\ q.mode = p.mode /\ q.calls = p.calls /\ q.scan = p.scan
  BY <1>1 DEF ParserRecords
<1> QED
  BY <1>1, <1>2 DEF Parsers, InStep

LEMMA WithBuffer ==
  ASSUME NEW B, NEW p \in Parsers(B), NEW text \in Seq(B)
  PROVE  /\ [p EXCEPT !.buffer = text] \in Parsers(B)
         /\ [p EXCEPT !.buffer = text].buffer = text
         /\ [p EXCEPT !.buffer = text].status = p.status
<1> DEFINE q == [p EXCEPT !.buffer = text]
<1>1. p \in ParserRecords(B) /\ InStep(p)
  BY ParserFields
<1>2. /\ q \in ParserRecords(B)
      /\ q.status = p.status /\ q.buffer = text /\ q.mode = p.mode /\ q.calls = p.calls /\ q.scan = p.scan
  BY <1>1 DEF ParserRecords
<1> QED
  BY <1>1, <1>2 DEF Parsers, InStep

LEMMA WithMode ==
  ASSUME NEW B, NEW p \in Parsers(B), NEW mode \in {"text", "header"}, NEW text \in Seq(B)
  PROVE  [p EXCEPT !.mode = mode, !.buffer = text] \in Parsers(B)
<1> DEFINE q == [p EXCEPT !.mode = mode, !.buffer = text]
<1>1. p \in ParserRecords(B) /\ mode \in Modes
  BY ParserFields DEF Modes
<1>2. q \in ParserRecords(B) /\ q.status = p.status /\ q.buffer = text /\ q.mode = mode
  BY <1>1 DEF ParserRecords
<1> QED
  BY <1>1, <1>2 DEF Parsers, InStep

LEMMA NewScanTyped == NewScan \in Scans
BY DEF NewScan, Scans, Phases

LEMMA WithCall ==
  ASSUME NEW B, NEW p \in Parsers(B), NEW name \in Range(Header), NEW text \in Seq(B)
  PROVE  [p EXCEPT !.mode = "arguments", !.scan = NewScan, !.buffer = text,
                   !.calls = Append(@, [name |-> name, arguments |-> << >>])] \in Parsers(B)
<1> DEFINE q == [p EXCEPT !.mode = "arguments", !.scan = NewScan, !.buffer = text,
                          !.calls = Append(@, [name |-> name, arguments |-> << >>])]
           call == [name |-> name, arguments |-> << >>]
           calls == Append(p.calls, call)
<1>1. p \in ParserRecords(B) /\ "arguments" \in Modes /\ NewScan \in Scans /\ p.calls \in Seq(ParsedCalls(B))
  BY ParserFields, NewScanTyped DEF Modes
<1>2. call \in ParsedCalls(B)
  BY DEF ParsedCalls
<1>3. /\ calls \in Seq(ParsedCalls(B)) /\ calls # << >> /\ calls[Len(calls)] = call
  <2> HIDE DEF call
  <2> QED
    BY <1>1, <1>2
<1>4. call.arguments = << >>
  OBVIOUS
<1>5. q = [p EXCEPT !.mode = "arguments", !.scan = NewScan, !.buffer = text, !.calls = calls]
  OBVIOUS
<1> HIDE DEF calls, q
<1>6. /\ q \in ParserRecords(B)
      /\ q.status = p.status /\ q.buffer = text /\ q.scan = NewScan /\ q.calls = calls
  BY <1>1, <1>3, <1>5 DEF ParserRecords
<1>7. Scanned(NewScan, << >>) = NewScan
  BY NewScanTyped, ScannedEmpty
<1>8. InStep(q)
  BY <1>3, <1>4, <1>6, <1>7 DEF InStep
<1> QED
  BY <1>6, <1>8 DEF Parsers, q

LEMMA WithPart ==
  ASSUME NEW B, NEW p \in Parsers(B), p.mode = "arguments", NEW part \in Seq(B), NEW text \in Seq(B)
  PROVE  [p EXCEPT !.scan = Scanned(p.scan, part), !.buffer = text,
                   !.calls[Len(p.calls)].arguments = @ \o part] \in Parsers(B)
<1> DEFINE q == [p EXCEPT !.scan = Scanned(p.scan, part), !.buffer = text,
                          !.calls[Len(p.calls)].arguments = @ \o part]
           n == Len(p.calls)
           call == p.calls[n]
           longer == [call EXCEPT !.arguments = @ \o part]
           calls == [p.calls EXCEPT ![n] = longer]
           scan == Scanned(p.scan, part)
<1>1. /\ p \in ParserRecords(B) /\ p.calls \in Seq(ParsedCalls(B)) /\ p.scan \in Scans
      /\ p.calls # << >> /\ p.scan = Scanned(NewScan, call.arguments)
  BY ParserFields DEF InStep
<1>2. n \in 1..Len(p.calls) /\ call \in ParsedCalls(B)
  BY <1>1
<1>3. call.arguments \in Seq(B)
  BY <1>2 DEF ParsedCalls
<1>4. longer \in ParsedCalls(B) /\ longer.arguments = call.arguments \o part
  <2>1. call.arguments \o part \in Seq(B)
    BY <1>3
  <2> HIDE DEF call
  <2> QED
    BY <1>2, <2>1 DEF ParsedCalls
<1>5. scan = Scanned(NewScan, call.arguments \o part) /\ scan \in Scans
  BY <1>1, <1>3, NewScanTyped, ScannedJoined, ScannedTyped
<1>6. /\ calls \in Seq(ParsedCalls(B)) /\ Len(calls) = n /\ calls # << >> /\ calls[Len(calls)] = longer
  <2> HIDE DEF longer
  <2> QED
    BY <1>1, <1>2, <1>4
<1>7. q = [p EXCEPT !.scan = scan, !.buffer = text, !.calls = calls]
  OBVIOUS
<1> HIDE DEF calls, scan, q
<1>8. /\ q \in ParserRecords(B)
      /\ q.status = p.status /\ q.buffer = text /\ q.scan = scan /\ q.calls = calls /\ q.mode = p.mode
  BY <1>1, <1>5, <1>6, <1>7 DEF ParserRecords
<1>9. InStep(q)
  BY <1>4, <1>5, <1>6, <1>8 DEF InStep
<1> QED
  BY <1>8, <1>9 DEF Parsers, q

(***************************************************************************)
(* One event: the parser stays what it can be, and takes something off its  *)
(* buffer unless it ends there.                                             *)
(***************************************************************************)
Shrinks(p, q) == q.status # "waits" /\ q.status # "failed" => Len(q.buffer) < Len(p.buffer)

LEMMA WaitsTyped ==
  ASSUME NEW B, NEW p \in Parsers(B)
  PROVE  /\ Waits(p) \in Parsers(B) /\ Waits(p).status = "waits"
         /\ Fails(p) \in Parsers(B) /\ Fails(p).status = "failed"
  BY WithStatus DEF Waits, Fails, Statuses

LEMMA SpacesAre ==
  ASSUME NEW B, NEW p \in Parsers(B), NEW text \in Seq(B), ~SpaceOpen(p, text)
  PROVE  /\ Spaces(p, text) \in 0..Len(text)
         /\ From(text, Spaces(p, text) + 1) \in Seq(B)
         /\ Len(From(text, Spaces(p, text) + 1)) <= Len(text)
<1>1. Len(text) \in Nat /\ Blanks(text) \in 0..Len(text)
  BY BlanksAre
<1>2. Spaces(p, text) \in 0..Len(text)
  <2>1. CASE p.format = "qwen"
    <3>1. text # << >>
      BY <2>1 DEF SpaceOpen
    <3>2. Len(text) # 0
      BY <3>1
    <3> QED
      BY <1>1, <2>1, <3>2 DEF Spaces
  <2>2. CASE p.format # "qwen"
    BY <1>1, <2>2 DEF Spaces
  <2> QED
    BY <2>1, <2>2
<1> DEFINE n == Spaces(p, text)
<1> HIDE DEF n
<1>3. n \in 0..Len(text)
  BY <1>2 DEF n
<1>4. n + 1 \in 1..(Len(text) + 1) /\ Len(text) + 1 - (n + 1) <= Len(text)
  BY <1>1, <1>3
<1>5. From(text, n + 1) \in Seq(B) /\ Len(From(text, n + 1)) = Len(text) + 1 - (n + 1)
  BY <1>4, FromText
<1> QED
  BY <1>3, <1>4, <1>5 DEF n

LEMMA TextEventTyped ==
  ASSUME NEW B, NEW p \in Parsers(B)
  PROVE  TextEvent(p) \in Parsers(B) /\ Shrinks(p, TextEvent(p))
<1> DEFINE open == First(p.buffer, "open")
           rest == From(p.buffer, 2)
<1>0. p.buffer \in Seq(B) /\ Len(p.buffer) \in Nat
  BY ParserFields
<1>1. open \in 0..Len(p.buffer)
  BY <1>0, FirstIs
<1>2. TextEvent(p) =
        IF p.buffer = << >> THEN Waits(p)
        ELSE IF open = 0 THEN [p EXCEPT !.buffer = << >>]
        ELSE IF open > 1 THEN [p EXCEPT !.buffer = From(p.buffer, open)]
        ELSE IF SpaceMissing(p, rest) \/ SpaceOpen(p, rest) THEN Waits(p)
        ELSE [p EXCEPT !.mode = "header", !.buffer = From(rest, Spaces(p, rest) + 1)]
  BY DEF TextEvent, First
<1>3. Waits(p) \in Parsers(B) /\ Shrinks(p, Waits(p))
  BY WaitsTyped DEF Shrinks
<1>4. ASSUME p.buffer # << >>
      PROVE  [p EXCEPT !.buffer = << >>] \in Parsers(B) /\ Shrinks(p, [p EXCEPT !.buffer = << >>])
  <2> DEFINE none == << >>
  <2>1. none \in Seq(B) /\ Len(none) = 0 /\ Len(p.buffer) > 0
    BY <1>0, <1>4
  <2> HIDE DEF none
  <2>2. [p EXCEPT !.buffer = none] \in Parsers(B) /\ [p EXCEPT !.buffer = none].buffer = none
    <3>1. none \in Seq(B)
      BY <2>1
    <3> QED
      BY <3>1, WithBuffer
  <2>3. [p EXCEPT !.buffer = none] \in Parsers(B) /\ Shrinks(p, [p EXCEPT !.buffer = none])
    BY <2>1, <2>2 DEF Shrinks
  <2> QED
    BY <2>3 DEF none
<1>5. ASSUME open > 1
      PROVE  [p EXCEPT !.buffer = From(p.buffer, open)] \in Parsers(B)
             /\ Shrinks(p, [p EXCEPT !.buffer = From(p.buffer, open)])
  <2> HIDE DEF open
  <2>1. open \in 1..(Len(p.buffer) + 1)
    BY <1>0, <1>1, <1>5
  <2>2. From(p.buffer, open) \in Seq(B) /\ Len(From(p.buffer, open)) = Len(p.buffer) + 1 - open
    BY <1>0, <2>1, FromText
  <2>3. Len(From(p.buffer, open)) < Len(p.buffer)
    BY <1>0, <1>5, <2>1, <2>2
  <2>4. /\ [p EXCEPT !.buffer = From(p.buffer, open)] \in Parsers(B)
        /\ [p EXCEPT !.buffer = From(p.buffer, open)].buffer = From(p.buffer, open)
    BY <2>2, WithBuffer
  <2> QED
    BY <2>3, <2>4 DEF Shrinks
<1>6. ASSUME p.buffer # << >>, ~SpaceOpen(p, rest)
      PROVE  LET q == [p EXCEPT !.mode = "header", !.buffer = From(rest, Spaces(p, rest) + 1)]
             IN  q \in Parsers(B) /\ Shrinks(p, q)
  <2> DEFINE text == From(rest, Spaces(p, rest) + 1)
             q == [p EXCEPT !.mode = "header", !.buffer = text]
  <2>1. Len(p.buffer) > 0 /\ 2 \in 1..(Len(p.buffer) + 1) /\ Len(p.buffer) + 1 - 2 < Len(p.buffer)
    BY <1>0, <1>6
  <2>2. rest \in Seq(B) /\ Len(rest) < Len(p.buffer) /\ Len(rest) \in Nat
    BY <1>0, <2>1, FromText
  <2> HIDE DEF rest
  <2>3. text \in Seq(B) /\ Len(text) <= Len(rest)
    BY <1>6, <2>2, SpacesAre
  <2> HIDE DEF text
  <2>4. q \in Parsers(B)
    <3>1. text \in Seq(B)
      BY <2>3
    <3> QED
      BY <3>1, WithMode
  <2>5. q.buffer = text
    BY ParserFields DEF ParserRecords
  <2> HIDE DEF q
  <2>6. Len(text) < Len(p.buffer)
    <3>1. Len(text) \in Nat
      BY <2>3
    <3> QED
      BY <1>0, <2>2, <2>3, <3>1
  <2>7. Shrinks(p, q)
    BY <2>5, <2>6 DEF Shrinks
  <2> QED
    BY <2>4, <2>7 DEF q, text
<1> HIDE DEF open, rest
<1> QED
  BY <1>2, <1>3, <1>4, <1>5, <1>6

LEMMA HeaderEventTyped ==
  ASSUME NEW B, NEW p \in Parsers(B)
  PROVE  HeaderEvent(p) \in Parsers(B) /\ Shrinks(p, HeaderEvent(p))
<1> DEFINE start == Blanks(p.buffer) + 1
           rest  == From(p.buffer, start + 1)
           text  == From(rest, Blanks(rest) + 1)
           name  == Header[p.buffer[start]]
           q == [p EXCEPT !.mode = "arguments", !.scan = NewScan, !.buffer = text,
                          !.calls = Append(@, [name |-> name, arguments |-> << >>])]
<1>1. p.buffer \in Seq(B) /\ Len(p.buffer) \in Nat /\ start \in 1..(Len(p.buffer) + 1)
  <2>1. p.buffer \in Seq(B) /\ Len(p.buffer) \in Nat
    BY ParserFields
  <2>2. Blanks(p.buffer) \in 0..Len(p.buffer)
    BY <2>1, BlanksAre
  <2> QED
    BY <2>1, <2>2
<1>2. HeaderEvent(p) =
        IF start > Len(p.buffer) THEN Waits(p)
        ELSE IF p.buffer[start] \notin DOMAIN Header \cup {"half"} THEN Fails(p)
        ELSE IF Blanks(rest) = Len(rest) THEN Waits(p)
        ELSE IF p.buffer[start] = "half" THEN Fails(p)
        ELSE q
  BY DEF HeaderEvent
<1>3. /\ Waits(p) \in Parsers(B) /\ Shrinks(p, Waits(p))
      /\ Fails(p) \in Parsers(B) /\ Shrinks(p, Fails(p))
  BY WaitsTyped DEF Shrinks
<1>4. ASSUME ~(start > Len(p.buffer)), p.buffer[start] \in DOMAIN Header
      PROVE  q \in Parsers(B) /\ Shrinks(p, q)
  <2> HIDE DEF start
  <2>1. start + 1 \in 1..(Len(p.buffer) + 1) /\ Len(p.buffer) + 1 - (start + 1) < Len(p.buffer)
    <3>1. \A l \in Nat : \A i \in 1..(l + 1) :
            ~(i > l) => i + 1 \in 1..(l + 1) /\ l + 1 - (i + 1) < l
      OBVIOUS
    <3> QED
      BY <1>1, <1>4, <3>1
  <2>2. rest \in Seq(B) /\ Len(rest) < Len(p.buffer) /\ Len(rest) \in Nat
    BY <1>1, <2>1, FromText
  <2> HIDE DEF rest
  <2>3. Blanks(rest) + 1 \in 1..(Len(rest) + 1) /\ Len(rest) + 1 - (Blanks(rest) + 1) <= Len(rest)
    <3>1. Blanks(rest) \in 0..Len(rest)
      BY <2>2, BlanksAre
    <3> QED
      BY <2>2, <3>1
  <2>4. text \in Seq(B) /\ Len(text) <= Len(rest) /\ Len(text) \in Nat
    BY <2>2, <2>3, FromText
  <2> HIDE DEF text
  <2>5. name \in Range(Header)
    BY <1>4 DEF Range
  <2> HIDE DEF name
  <2>6. q \in Parsers(B)
    <3>1. text \in Seq(B)
      BY <2>4
    <3> QED
      BY <2>5, <3>1, WithCall
  <2>7. q.buffer = text
    BY ParserFields DEF ParserRecords
  <2>8. Len(text) < Len(p.buffer)
    BY <1>1, <2>2, <2>4
  <2> HIDE DEF q
  <2>9. Shrinks(p, q)
    BY <2>7, <2>8 DEF Shrinks
  <2> QED
    BY <2>6, <2>9
<1> HIDE DEF start, rest, q
<1> QED
  BY <1>2, <1>3, <1>4

LEMMA ArgumentsEventTyped ==
  ASSUME NEW B, NEW p \in Parsers(B), p.mode = "arguments"
  PROVE  /\ ArgumentsEvent(p) \in Parsers(B)
         /\ p.scan.phase # "complete" => Shrinks(p, ArgumentsEvent(p))
<1> DEFINE n    == Taken(p.scan, p.buffer)
           part == SubSeq(p.buffer, 1, n)
           text == From(p.buffer, n + 1)
           q == [p EXCEPT !.scan = Scanned(p.scan, part), !.buffer = text,
                          !.calls[Len(p.calls)].arguments = @ \o part]
<1>1. p.buffer \in Seq(B) /\ Len(p.buffer) \in Nat /\ p.scan \in Scans
  BY ParserFields
<1>2. ArgumentsEvent(p) =
        IF p.buffer = << >> THEN Waits(p)
        ELSE IF Scanned(p.scan, part).phase = "failed" THEN Fails(p)
        ELSE q
  BY DEF ArgumentsEvent
<1>3. /\ Waits(p) \in Parsers(B) /\ Shrinks(p, Waits(p))
      /\ Fails(p) \in Parsers(B) /\ Shrinks(p, Fails(p))
  BY WaitsTyped DEF Shrinks
<1>4. n \in 0..Len(p.buffer) /\ (n = Len(p.buffer) \/ n \in Ends(p.scan, p.buffer))
  BY <1>1, TakenIs
<1>5. part \in Seq(B) /\ text \in Seq(B) /\ Len(text) = Len(p.buffer) - n
  <2>1. p.buffer \in Seq(B) /\ n \in 0..Len(p.buffer)
    BY <1>1, <1>4
  <2> HIDE DEF n
  <2>2. CutOnce(B, p.buffer, n)
    BY <2>1, Cut
  <2> QED
    BY <2>2 DEF CutOnce
<1>6. q \in Parsers(B)
  <2> HIDE DEF part, text
  <2> QED
    BY <1>5, WithPart
<1>7. q.buffer = text
  BY ParserFields DEF ParserRecords
<1>8. ASSUME p.buffer # << >>, p.scan.phase # "complete" PROVE Shrinks(p, q)
  <2>1. n # 0
    <3>1. SUFFICES ASSUME n = 0 PROVE FALSE
      OBVIOUS
    <3>2. Len(p.buffer) # 0
      BY <1>1, <1>8
    <3>3. n \in 1..Len(p.buffer)
      BY <1>1, <1>4, <3>1, <3>2, EndsAre
    <3> HIDE DEF n
    <3> QED
      BY <3>1, <3>3
  <2> HIDE DEF n, q, text
  <2>2. Len(text) < Len(p.buffer)
    BY <1>1, <1>4, <1>5, <2>1
  <2> QED
    BY <1>7, <2>2 DEF Shrinks
<1> HIDE DEF q, part
<1> QED
  BY <1>2, <1>3, <1>6, <1>8

LEMMA CloseEventTyped ==
  ASSUME NEW B, NEW p \in Parsers(B)
  PROVE  CloseEvent(p) \in Parsers(B) /\ Shrinks(p, CloseEvent(p))
<1> DEFINE rest == From(p.buffer, 2)
           end  == From(rest, Spaces(p, rest) + 1)
           text == From(end, 2)
           q == [p EXCEPT !.mode = "text", !.buffer = text]
<1>1. p.buffer \in Seq(B) /\ Len(p.buffer) \in Nat
  BY ParserFields
<1>2. CloseEvent(p) =
        IF p.buffer = << >> THEN Waits(p)
        ELSE IF p.buffer[1] # "}" \/ SpaceMissing(p, rest) THEN Fails(p)
        ELSE IF SpaceOpen(p, rest) \/ end \in {<< >>, <<"cut">>} THEN Waits(p)
        ELSE IF end[1] # "close" THEN Fails(p)
        ELSE q
  BY DEF CloseEvent
<1>3. /\ Waits(p) \in Parsers(B) /\ Shrinks(p, Waits(p))
      /\ Fails(p) \in Parsers(B) /\ Shrinks(p, Fails(p))
  BY WaitsTyped DEF Shrinks
<1>4. ASSUME p.buffer # << >>, ~SpaceOpen(p, rest), end # << >>
      PROVE  q \in Parsers(B) /\ Shrinks(p, q)
  <2>1. Len(p.buffer) > 0 /\ 2 \in 1..(Len(p.buffer) + 1) /\ Len(p.buffer) + 1 - 2 < Len(p.buffer)
    BY <1>1, <1>4
  <2>2. rest \in Seq(B) /\ Len(rest) < Len(p.buffer) /\ Len(rest) \in Nat
    BY <1>1, <2>1, FromText
  <2> HIDE DEF rest
  <2>3. end \in Seq(B) /\ Len(end) <= Len(rest)
    BY <1>4, <2>2, SpacesAre
  <2> HIDE DEF end
  <2>4. Len(end) > 0 /\ Len(end) \in Nat
    BY <1>4, <2>3
  <2>5. text \in Seq(B) /\ Len(text) = Len(end) + 1 - 2
    <3>1. 2 \in 1..(Len(end) + 1)
      BY <2>4
    <3> QED
      BY <2>3, <3>1, FromText
  <2> HIDE DEF text
  <2>6. q \in Parsers(B)
    <3>1. text \in Seq(B)
      BY <2>5
    <3> QED
      BY <3>1, WithMode
  <2>7. q.buffer = text
    BY ParserFields DEF ParserRecords
  <2> HIDE DEF q
  <2>8. Len(text) < Len(p.buffer)
    BY <1>1, <2>2, <2>3, <2>4, <2>5
  <2> QED
    BY <2>6, <2>7, <2>8 DEF Shrinks
<1> HIDE DEF rest, end, q
<1> QED
  BY <1>2, <1>3, <1>4

LEMMA NextEventTyped ==
  ASSUME NEW B, NEW p \in Parsers(B)
  PROVE  NextEvent(p) \in Parsers(B) /\ Shrinks(p, NextEvent(p))
<1>1. p.mode \in {"text", "header", "arguments"}
  BY ParserFields DEF Modes
<1>2. TextEvent(p) \in Parsers(B) /\ Shrinks(p, TextEvent(p))
  BY TextEventTyped
<1>3. HeaderEvent(p) \in Parsers(B) /\ Shrinks(p, HeaderEvent(p))
  BY HeaderEventTyped
<1>4. CloseEvent(p) \in Parsers(B) /\ Shrinks(p, CloseEvent(p))
  BY CloseEventTyped
<1>5. CASE p.mode = "arguments" /\ p.scan.phase # "complete"
  BY <1>5, ArgumentsEventTyped DEF NextEvent
<1> QED
  BY <1>1, <1>2, <1>3, <1>4, <1>5 DEF NextEvent

(***************************************************************************)
(* A run: one event after the other until one ends it.                      *)
(***************************************************************************)
Stepped(p) == IF p.status = "ready" THEN NextEvent(p) ELSE p

Steps(f, p) == f[0] = p /\ \A n \in Nat : f[n + 1] = Stepped(f[n])

LEMMA SteppedTyped ==
  ASSUME NEW B, NEW p \in Parsers(B)
  PROVE  Stepped(p) \in Parsers(B)
BY NextEventTyped DEF Stepped

LEMMA SteppedAt ==
  ASSUME NEW f, NEW p, Steps(f, p), NEW n \in Nat \ {0}
  PROVE  f[n] = Stepped(f[n - 1])
<1>1. n - 1 \in Nat /\ (n - 1) + 1 = n
  OBVIOUS
<1> QED
  BY <1>1 DEF Steps

\* There is one such sequence of parsers.
LEMMA StepsExist ==
  ASSUME NEW B, NEW p \in Parsers(B)
  PROVE  \E f \in [Nat -> Parsers(B)] : Steps(f, p)
<1> DEFINE step == [n \in Nat |-> [q \in Parsers(B) |-> Stepped(q)]]
<1>1. step \in [Nat -> [Parsers(B) -> Parsers(B)]]
  BY SteppedTyped
<1>2. \A n \in Nat : \A q \in Parsers(B) : step[n][q] = Stepped(q)
  OBVIOUS
<1> HIDE DEF step
<1>3. PICK f \in [Nat -> Parsers(B)] : Iterates(f, p, step)
  BY <1>1, IterationExists
<1>4. f[0] = p /\ \A n \in Nat : f[n + 1] = step[n + 1][f[n]]
  BY <1>3 DEF Iterates
<1>5. Steps(f, p)
  BY <1>2, <1>4 DEF Steps
<1> QED
  BY <1>5

LEMMA StepsOnce ==
  ASSUME NEW p, NEW f, NEW g, Steps(f, p), Steps(g, p)
  PROVE  \A n \in Nat : f[n] = g[n]
<1> DEFINE S == {n \in Nat : f[n] = g[n]}
<1>1. 0 \in S
  BY DEF Steps
<1>2. ASSUME NEW n \in Nat, n \in S PROVE n + 1 \in S
  BY <1>2 DEF Steps
<1>3. Nat \subseteq S
  <2> HIDE DEF S
  <2> QED
    BY <1>1, <1>2, Induction
<1> QED
  BY <1>3

LEMMA RunIs ==
  ASSUME NEW B, NEW p \in Parsers(B), NEW f, Steps(f, p)
  PROVE  Run(p) = f[Len(p.buffer) + 1]
<1> DEFINE Fits(g) == g = [n \in Nat |-> IF n = 0 THEN p
                             ELSE IF g[n - 1].status = "ready" THEN NextEvent(g[n - 1]) ELSE g[n - 1]]
           after == CHOOSE g : Fits(g)
<1>1. \E g : Fits(g)
  <2>1. PICK g \in [Nat -> Parsers(B)] : Steps(g, p)
    BY StepsExist
  <2>2. \A n \in Nat \ {0} : g[n] = IF g[n - 1].status = "ready" THEN NextEvent(g[n - 1]) ELSE g[n - 1]
    BY <2>1, SteppedAt DEF Stepped
  <2>3. g[0] = p
    BY <2>1 DEF Steps
  <2>4. Fits(g)
    BY <2>2, <2>3
  <2> QED
    BY <2>4
<1>2. Fits(after)
  <2> HIDE DEF Fits
  <2> QED
    BY <1>1
<1>3. Run(p) = after[Len(p.buffer) + 1]
  BY DEF Run
<1>4. \A n \in Nat : after[n] = IF n = 0 THEN p
                       ELSE IF after[n - 1].status = "ready" THEN NextEvent(after[n - 1]) ELSE after[n - 1]
  <2> HIDE DEF after
  <2> QED
    BY <1>2
<1> HIDE DEF after
<1>5. Steps(after, p)
  <2>1. ASSUME NEW n \in Nat PROVE after[n + 1] = Stepped(after[n])
    <3>1. n + 1 \in Nat /\ n + 1 # 0 /\ (n + 1) - 1 = n
      OBVIOUS
    <3> QED
      BY <1>4, <3>1 DEF Stepped
  <2>2. after[0] = p
    BY <1>4
  <2> QED
    BY <2>1, <2>2 DEF Steps
<1>6. Len(p.buffer) + 1 \in Nat
  BY ParserFields
<1> QED
  BY <1>3, <1>5, <1>6, StepsOnce

\* As long as it goes on, each event has taken something off the buffer; what has ended stays.
LEMMA StepsShrink ==
  ASSUME NEW B, NEW p \in Parsers(B), NEW f \in [Nat -> Parsers(B)], Steps(f, p)
  PROVE  \A n \in Nat : f[n].status = "ready" => Len(f[n].buffer) + n <= Len(p.buffer)
<1> DEFINE Good(n) == f[n].status = "ready" => Len(f[n].buffer) + n <= Len(p.buffer)
           S == {n \in Nat : Good(n)}
<1>0. Len(p.buffer) \in Nat /\ \A n \in Nat : Len(f[n].buffer) \in Nat
  <2>1. \A n \in Nat : f[n] \in Parsers(B)
    OBVIOUS
  <2> QED
    BY <2>1, ParserFields
<1>1. Good(0)
  <2>1. f[0] = p
    BY DEF Steps
  <2> QED
    BY <1>0, <2>1
<1>2. ASSUME NEW n \in Nat, Good(n) PROVE Good(n + 1)
  <2>1. SUFFICES ASSUME f[n + 1].status = "ready" PROVE Len(f[n + 1].buffer) + (n + 1) <= Len(p.buffer)
    OBVIOUS
  <2>2. f[n + 1] = Stepped(f[n]) /\ f[n] \in Parsers(B)
    BY DEF Steps
  <2>3. f[n].status = "ready"
    BY <2>1, <2>2 DEF Stepped
  <2>4. f[n + 1] = NextEvent(f[n])
    BY <2>2, <2>3 DEF Stepped
  <2>5. Len(f[n + 1].buffer) < Len(f[n].buffer)
    BY <2>1, <2>2, <2>4, NextEventTyped DEF Shrinks
  <2>6. n + 1 \in Nat
    OBVIOUS
  <2>7. Len(f[n].buffer) + n <= Len(p.buffer)
    BY <1>2, <2>3
  <2>8. \A i, j, l \in Nat : i < j /\ j + n <= l => i + (n + 1) <= l
    OBVIOUS
  <2>9. Len(f[n + 1].buffer) \in Nat /\ Len(f[n].buffer) \in Nat /\ Len(p.buffer) \in Nat
    BY <1>0, <2>6
  <2> QED
    BY <2>5, <2>7, <2>8, <2>9
<1>3. Nat \subseteq S
  <2>1. 0 \in S
    <3> HIDE DEF Good
    <3> QED
      BY <1>1
  <2>2. ASSUME NEW n \in Nat, n \in S PROVE n + 1 \in S
    <3> HIDE DEF Good
    <3> QED
      BY <1>2, <2>2
  <2> HIDE DEF S
  <2> QED
    BY <2>1, <2>2, Induction
<1> QED
  BY <1>3

LEMMA StepsEnd ==
  ASSUME NEW B, NEW p \in Parsers(B), NEW f, Steps(f, p),
         NEW m \in Nat, f[m].status # "ready"
  PROVE  \A n \in Nat : n >= m => f[n] = f[m]
<1> DEFINE S == {n \in Nat : n >= m => f[n] = f[m]}
<1>1. 0 \in S
  <2>1. 0 >= m => 0 = m
    OBVIOUS
  <2> QED
    BY <2>1
<1>2. ASSUME NEW n \in Nat, n \in S PROVE n + 1 \in S
  <2>1. SUFFICES ASSUME n + 1 >= m PROVE f[n + 1] = f[m]
    OBVIOUS
  <2>2. CASE n >= m
    <3>1. f[n] = f[m] /\ f[n + 1] = Stepped(f[n])
      BY <1>2, <2>2 DEF Steps
    <3> QED
      BY <3>1 DEF Stepped
  <2>3. CASE ~(n >= m)
    <3>1. n + 1 = m
      BY <2>1, <2>3
    <3> QED
      BY <3>1
  <2> QED
    BY <2>2, <2>3
<1>3. Nat \subseteq S
  <2> HIDE DEF S
  <2> QED
    BY <1>1, <1>2, Induction
<1> QED
  BY <1>3

\* What a run comes to, by its first event.
LEMMA RunStep ==
  ASSUME NEW B, NEW p \in Parsers(B), p.status = "ready"
  PROVE  Run(p) = IF NextEvent(p).status = "ready" THEN Run(NextEvent(p)) ELSE NextEvent(p)
<1> DEFINE e == NextEvent(p)
           l == Len(p.buffer)
           k == Len(e.buffer)
<1>1. e \in Parsers(B) /\ Shrinks(p, e) /\ l \in Nat /\ k \in Nat
  BY NextEventTyped, ParserFields
<1>2. PICK f \in [Nat -> Parsers(B)] : Steps(f, p)
  BY StepsExist
<1>3. f[0] = p /\ f[1] = e
  <2>1. f[0] = p /\ f[0 + 1] = Stepped(f[0])
    BY <1>2 DEF Steps
  <2> QED
    BY <2>1 DEF Stepped
<1>4. Run(p) = f[l + 1]
  BY <1>2, RunIs
<1> HIDE DEF e, l, k
<1>5. CASE e.status # "ready"
  <2>1. l + 1 \in Nat /\ l + 1 >= 1
    BY <1>1
  <2>2. f[l + 1] = f[1]
    BY <1>2, <1>3, <1>5, <2>1, StepsEnd
  <2> QED
    BY <1>3, <1>4, <1>5, <2>2 DEF e
<1>6. CASE e.status = "ready"
  <2> DEFINE g == [n \in Nat |-> f[n + 1]]
  <2>1. \A n \in Nat : g[n] = f[n + 1]
    OBVIOUS
  <2>2. Steps(g, e)
    <3>1. g[0] = e
      BY <1>3, <2>1
    <3>2. ASSUME NEW n \in Nat PROVE g[n + 1] = Stepped(g[n])
      <4>1. n + 1 \in Nat
        OBVIOUS
      <4>2. f[(n + 1) + 1] = Stepped(f[n + 1])
        BY <1>2, <4>1 DEF Steps
      <4> QED
        BY <2>1, <4>1, <4>2
    <3> HIDE DEF g
    <3> QED
      BY <3>1, <3>2 DEF Steps
  <2> HIDE DEF g
  <2>3. Run(e) = g[k + 1]
    BY <1>1, <2>2, RunIs DEF k
  <2>4. k < l
    BY <1>1, <1>6 DEF Shrinks, k, l
  <2>5. (k + 1) + 1 \in Nat /\ l + 1 \in Nat /\ l + 1 >= (k + 1) + 1 /\ k + 1 \in Nat
    BY <1>1, <2>4
  <2>6. g[k + 1] = f[(k + 1) + 1]
    BY <2>1, <2>5
  <2>7. f[(k + 1) + 1].status # "ready"
    <3>1. SUFFICES ASSUME g[k + 1].status = "ready" PROVE FALSE
      BY <2>6
    <3>2. g \in [Nat -> Parsers(B)]
      <4>1. \A n \in Nat : f[n + 1] \in Parsers(B)
        OBVIOUS
      <4> QED
        BY <4>1 DEF g
    <3>3. Len(g[k + 1].buffer) + (k + 1) <= k
      BY <1>1, <2>2, <2>5, <3>1, <3>2, StepsShrink DEF k
    <3>4. Len(g[k + 1].buffer) \in Nat
      <4>1. g[k + 1] \in Parsers(B)
        BY <2>5, <3>2
      <4> QED
        BY <4>1, ParserFields
    <3>5. \A i \in Nat : ~(i + (k + 1) <= k)
      BY <1>1
    <3> QED
      BY <3>3, <3>4, <3>5
  <2>8. f[l + 1] = f[(k + 1) + 1]
    BY <1>2, <2>5, <2>7, StepsEnd
  <2> QED
    BY <1>4, <1>6, <2>3, <2>6, <2>8 DEF e
<1> QED
  BY <1>5, <1>6

-----------------------------------------------------------------------------
(***************************************************************************)
(* A text in pieces.                                                        *)
(***************************************************************************)
Give(p, text) == [p EXCEPT !.buffer = @ \o text, !.status = "ready"]

\* The same, or both have failed.
Alike(p, q) == p = q \/ (p.status = "failed" /\ q.status = "failed")

LEMMA PushIs == \A p, text : Push(p, text) = Run(Give(p, text))
BY DEF Push, Give

LEMMA GiveIs ==
  ASSUME NEW B, NEW p \in Parsers(B), NEW c \in Seq(B)
  PROVE  /\ Give(p, c).mode = p.mode /\ Give(p, c).format = p.format
         /\ Give(p, c).calls = p.calls /\ Give(p, c).scan = p.scan
         /\ Give(p, c).buffer = p.buffer \o c /\ Give(p, c).status = "ready"
BY ParserFields DEF Give, ParserRecords

LEMMA GiveTyped ==
  ASSUME NEW B, NEW p \in Parsers(B), NEW c \in Seq(B)
  PROVE  Give(p, c) \in Parsers(B)
<1>1. p.buffer \o c \in Seq(B) /\ p \in ParserRecords(B) /\ InStep(p) /\ "ready" \in Statuses
  BY ParserFields DEF Statuses
<1>2. Give(p, c) \in ParserRecords(B)
  BY <1>1 DEF Give, ParserRecords
<1>3. InStep(Give(p, c))
  BY <1>1, GiveIs DEF InStep
<1> QED
  BY <1>2, <1>3 DEF Parsers

\* Parsers that agree in every field are one.
SameFields(p, q) ==
  /\ p.format = q.format /\ p.mode = q.mode /\ p.scan = q.scan
  /\ p.buffer = q.buffer /\ p.calls = q.calls /\ p.status = q.status

LEMMA SameParser ==
  ASSUME NEW B, NEW p \in ParserRecords(B), NEW q \in ParserRecords(B), SameFields(p, q)
  PROVE  p = q
BY DEF ParserRecords, SameFields

\* Giving before or after a call is opened.
OpenedFor(p, text, call) ==
  [p EXCEPT !.mode = "arguments", !.scan = NewScan, !.buffer = text, !.calls = Append(@, call)]

LEMMA GiveOpened ==
  ASSUME NEW B, NEW p \in Parsers(B), NEW c \in Seq(B), NEW text \in Seq(B), NEW call
  PROVE  OpenedFor(Give(p, c), text \o c, call) = Give(OpenedFor(p, text, call), c)
<1>1. p \in ParserRecords(B)
  BY ParserFields
<1> QED
  BY <1>1 DEF Give, ParserRecords, OpenedFor

\* Giving before or after arguments are taken.
TookAll(p, s, text, part, n) == [p EXCEPT !.scan = s, !.buffer = text, !.calls[n].arguments = @ \o part]

LEMMA GiveTookAll ==
  ASSUME NEW B, NEW p \in Parsers(B), NEW c \in Seq(B), NEW text \in Seq(B), NEW s, NEW part, NEW n
  PROVE  TookAll(Give(p, c), s, text \o c, part, n) = Give(TookAll(p, s, text, part, n), c)
<1>1. p \in ParserRecords(B)
  BY ParserFields
<1> QED
  BY <1>1 DEF Give, ParserRecords, TookAll

\* Nothing is given.
LEMMA GiveNothing ==
  ASSUME NEW B, NEW p \in Parsers(B), p.status = "ready"
  PROVE  Give(p, << >>) = p
<1> DEFINE q == Give(p, << >>)
<1>1. p.buffer \o << >> = p.buffer /\ << >> \in Seq(B)
  BY ParserFields
<1>2. /\ q \in Parsers(B) /\ q.mode = p.mode /\ q.format = p.format /\ q.calls = p.calls
      /\ q.scan = p.scan /\ q.buffer = p.buffer /\ q.status = p.status
  BY <1>1, GiveIs, GiveTyped
<1> HIDE DEF q
<1>3. q \in ParserRecords(B) /\ p \in ParserRecords(B)
  BY <1>2, ParserFields
<1>4. q = p
  <2>1. SameFields(q, p)
    BY <1>2 DEF SameFields
  <2> QED
    BY <1>3, <2>1, SameParser
<1> QED
  BY <1>4 DEF q

LEMMA GiveWaits ==
  ASSUME NEW B, NEW p \in Parsers(B), NEW c \in Seq(B)
  PROVE  Give(Waits(p), c) = Give(p, c)
BY ParserFields DEF Give, Waits, ParserRecords

LEMMA RunEnds ==
  ASSUME NEW B
  PROVE  \A p \in Parsers(B) : p.status = "ready" =>
           Run(p) \in Parsers(B) /\ Run(p).status \in {"waits", "failed"} /\ Run(p).format = p.format
<1> DEFINE Good(p) ==
             Run(p) \in Parsers(B) /\ Run(p).status \in {"waits", "failed"} /\ Run(p).format = p.format
           S == {n \in Nat : \A p \in Parsers(B) : p.status = "ready" /\ Len(p.buffer) = n => Good(p)}
<1>1. ASSUME NEW n \in Nat, \A k \in Nat : k < n => k \in S PROVE n \in S
  <2>1. ASSUME NEW p \in Parsers(B), p.status = "ready", Len(p.buffer) = n PROVE Good(p)
    <3> DEFINE e == NextEvent(p)
    <3>1. /\ e \in Parsers(B) /\ Shrinks(p, e) /\ Len(e.buffer) \in Nat
          /\ e.status \in {"ready", "waits", "failed"}
      BY NextEventTyped, ParserFields DEF Statuses
    <3>2. Run(p) = IF e.status = "ready" THEN Run(e) ELSE e
      BY <2>1, RunStep
    <3>3. e.format = p.format
      BY ParserFields DEF NextEvent, TextEvent, HeaderEvent, ArgumentsEvent, CloseEvent, Waits, Fails, ParserRecords
    <3> HIDE DEF e
    <3>4. CASE e.status = "ready"
      <4>1. Len(e.buffer) < n
        BY <2>1, <3>1, <3>4 DEF Shrinks
      <4>2. Len(e.buffer) \in S
        BY <1>1, <3>1, <4>1
      <4>3. Good(e)
        <5> HIDE DEF Good
        <5> QED
          BY <3>1, <3>4, <4>2
      <4> QED
        BY <3>2, <3>3, <3>4, <4>3
    <3> QED
      BY <3>1, <3>2, <3>3, <3>4
  <2> HIDE DEF Good
  <2> QED
    BY <2>1
<1>2. Nat \subseteq S
  <2> HIDE DEF S
  <2> QED
    BY <1>1, StrongInduction
<1>3. ASSUME NEW p \in Parsers(B), p.status = "ready" PROVE Good(p)
  <2>1. Len(p.buffer) \in S
    BY <1>2, ParserFields
  <2> HIDE DEF Good
  <2> QED
    BY <1>3, <2>1
<1> QED
  BY <1>3

(***************************************************************************)
(* A first event that goes on does so no matter what comes behind, but for  *)
(* how much text or how much of the arguments it takes at once.             *)
(***************************************************************************)
LEMMA TextWithoutMarker ==
  ASSUME NEW p, p.buffer # << >>, First(p.buffer, "open") = 0
  PROVE  TextEvent(p) = [p EXCEPT !.buffer = << >>]
BY DEF TextEvent, First

LEMMA TextBeforeMarker ==
  ASSUME NEW p, NEW n \in Nat, n > 1, p.buffer # << >>, First(p.buffer, "open") = n
  PROVE  TextEvent(p) = [p EXCEPT !.buffer = From(p.buffer, n)]
<1>1. n # 0
  OBVIOUS
<1> QED
  BY <1>1 DEF TextEvent, First

LEMMA TextAtMarker ==
  ASSUME NEW p, p.format = "hermes", p.buffer # << >>, First(p.buffer, "open") = 1,
         NEW rest, rest = From(p.buffer, 2)
  PROVE  TextEvent(p) = IF Blanks(rest) = Len(rest) THEN Waits(p)
                        ELSE [p EXCEPT !.mode = "header", !.buffer = From(rest, Blanks(rest) + 1)]
<1>1. ~(1 > 1)
  OBVIOUS
<1>2. TextEvent(p) = IF SpaceMissing(p, rest) \/ SpaceOpen(p, rest) THEN Waits(p)
                     ELSE [p EXCEPT !.mode = "header", !.buffer = From(rest, Spaces(p, rest) + 1)]
  BY <1>1 DEF TextEvent, First
<1> QED
  BY <1>2 DEF SpaceMissing, SpaceOpen, Spaces

LEMMA TextExtends ==
  ASSUME NEW B, NEW p \in Parsers(B), p.format = "hermes", p.status = "ready", p.mode = "text",
         NEW c \in Seq(B), TextEvent(p).status = "ready"
  PROVE  Run(Give(p, c)) = Run(Give(TextEvent(p), c))
<1> DEFINE b == p.buffer
           bc == p.buffer \o c
           open == First(b, "open")
           rest == From(b, 2)
           g == Give(p, c)
           e == TextEvent(p)
<1>1. b \in Seq(B) /\ Len(b) \in Nat /\ bc \in Seq(B) /\ Len(bc) = Len(b) + Len(c) /\ Len(c) \in Nat
  BY ParserFields, TextJoined
<1>2. g \in Parsers(B) /\ g.mode = "text" /\ g.format = "hermes" /\ g.status = "ready" /\ g.buffer = bc
  BY GiveIs, GiveTyped
<1>4. b # << >>
  <2>1. SUFFICES ASSUME b = << >> PROVE FALSE
    OBVIOUS
  <2>2. TextEvent(p) = Waits(p)
    BY <2>1 DEF TextEvent
  <2> QED
    BY <2>2, WaitsTyped
<1>5. bc # << >> /\ Len(b) > 0
  <2>1. Len(b) > 0
    BY <1>1, <1>4
  <2>2. Len(bc) > 0
    BY <1>1, <2>1
  <2> QED
    BY <2>1, <2>2
<1>6. First(bc, "open") = IF open > 0 THEN open
                          ELSE IF First(c, "open") > 0 THEN Len(b) + First(c, "open") ELSE 0
  BY <1>1, FirstJoined
<1>7. open \in 0..Len(b) /\ First(c, "open") \in 0..Len(c)
  BY <1>1, FirstIs
<1>13. open \in Nat /\ First(c, "open") \in Nat
  BY <1>1, <1>7
<1>8. ASSUME NEW x \in Parsers(B), x.mode = "text", x.status = "ready", TextEvent(x).status = "ready"
      PROVE  Run(x) = Run(TextEvent(x))
  BY <1>8, RunStep DEF NextEvent
<1>9. CASE open > 1
  <2>1. e = [p EXCEPT !.buffer = From(b, open)]
    BY <1>4, <1>9, <1>13, TextBeforeMarker
  <2>2. open \in 1..(Len(b) + 1)
    BY <1>1, <1>7, <1>9
  <2>3. From(bc, open) = From(b, open) \o c /\ From(b, open) \in Seq(B)
    BY <1>1, <2>2, FromJoined, FromText
  <2>4. TextEvent(g) = [g EXCEPT !.buffer = From(bc, open)]
    <3>1. First(g.buffer, "open") = open /\ g.buffer # << >> /\ g.buffer = bc
      BY <1>2, <1>5, <1>6, <1>9, <1>13
    <3> HIDE DEF bc, g, open
    <3> QED
      BY <1>9, <1>13, <3>1, TextBeforeMarker
  <2>5. TextEvent(g) = Give(e, c)
    BY <2>1, <2>3, <2>4, ParserFields DEF Give, ParserRecords
  <2>6. TextEvent(g).status = "ready"
    BY <1>2, <2>4, ParserFields DEF ParserRecords
  <2> QED
    BY <1>2, <1>8, <2>5, <2>6
<1>10. CASE open = 1
  <2>0. TextEvent(p) = IF Blanks(rest) = Len(rest) THEN Waits(p)
                       ELSE [p EXCEPT !.mode = "header", !.buffer = From(rest, Blanks(rest) + 1)]
    BY <1>4, <1>10, TextAtMarker
  <2>1. Blanks(rest) # Len(rest)
    <3>1. SUFFICES ASSUME Blanks(rest) = Len(rest) PROVE FALSE
      OBVIOUS
    <3>2. TextEvent(p) = Waits(p)
      BY <2>0, <3>1
    <3> QED
      BY <3>2, WaitsTyped
  <2>2. e = [p EXCEPT !.mode = "header", !.buffer = From(rest, Blanks(rest) + 1)]
    BY <2>0, <2>1
  <2>3. From(bc, 2) = rest \o c /\ rest \in Seq(B) /\ Len(rest) \in Nat
    <3> HIDE DEF b, open, g, e
    <3>1. b \in Seq(B) /\ 2 \in 1..(Len(b) + 1)
      BY <1>1, <1>5
    <3>2. From(b \o c, 2) = From(b, 2) \o c
      BY <3>1, FromJoined
    <3>3. From(b, 2) \in Seq(B)
      BY <3>1, FromText
    <3>4. bc = b \o c
      BY DEF b
    <3> HIDE DEF bc
    <3>5. From(bc, 2) = rest \o c /\ rest \in Seq(B)
      BY <3>2, <3>3, <3>4
    <3> HIDE DEF rest
    <3> QED
      BY <3>5
  <2> HIDE DEF rest
  <2>4. Blanks(rest) \in 0..Len(rest) /\ Blanks(rest) < Len(rest)
    BY <2>1, <2>3, BlanksAre
  <2>5. Blanks(rest \o c) = Blanks(rest)
    BY <2>3, <2>4, BlanksJoined
  <2>6. Len(rest \o c) = Len(rest) + Len(c)
    BY <2>3
  <2>7. Blanks(rest \o c) # Len(rest \o c)
    BY <1>1, <2>3, <2>4, <2>5, <2>6
  <2> DEFINE n == Blanks(rest)
  <2>8. n + 1 \in 1..(Len(rest) + 1)
    BY <2>3, <2>4
  <2>9. From(rest \o c, n + 1) = From(rest, n + 1) \o c /\ From(rest, n + 1) \in Seq(B)
    <3> HIDE DEF n
    <3> QED
      BY <2>3, <2>8, FromJoined, FromText
  <2>10. TextEvent(g) = [g EXCEPT !.mode = "header", !.buffer = From(rest \o c, n + 1)]
    <3> DEFINE r == rest \o c
    <3>1. First(g.buffer, "open") = 1 /\ g.buffer # << >> /\ r = From(g.buffer, 2)
      BY <1>2, <1>5, <1>6, <1>10, <1>13, <2>3
    <3>2. Blanks(r) = n /\ n # Len(r)
      BY <2>5, <2>7
    <3> HIDE DEF g, r
    <3>3. TextEvent(g) = IF Blanks(From(g.buffer, 2)) = Len(From(g.buffer, 2)) THEN Waits(g)
                         ELSE [g EXCEPT !.mode = "header",
                                        !.buffer = From(From(g.buffer, 2), Blanks(From(g.buffer, 2)) + 1)]
      BY <1>2, <3>1, TextAtMarker
    <3> HIDE DEF n
    <3> QED
      BY <3>1, <3>2, <3>3 DEF r
  <2>11. TextEvent(g) = Give(e, c)
    BY <2>2, <2>9, <2>10, ParserFields DEF Give, ParserRecords
  <2>12. TextEvent(g).status = "ready"
    BY <1>2, <2>10, ParserFields DEF ParserRecords
  <2> QED
    BY <1>2, <1>8, <2>11, <2>12
<1>11. CASE open = 0
  <2>1. e = [p EXCEPT !.buffer = << >>]
    BY <1>4, <1>11, TextWithoutMarker
  <2>2. e \in Parsers(B) /\ e.mode = "text" /\ e.format = "hermes" /\ e.status = "ready" /\ e.buffer = << >>
    <3>1. e \in Parsers(B)
      BY TextEventTyped
    <3> QED
      BY <2>1, <3>1, ParserFields DEF ParserRecords
  <2> HIDE DEF e
  <2>3. /\ Give(e, c) \in Parsers(B) /\ Give(e, c).mode = "text" /\ Give(e, c).format = "hermes"
        /\ Give(e, c).status = "ready" /\ Give(e, c).buffer = c
    <3>1. e.buffer \o c = c
      BY <2>2
    <3> QED
      BY <2>2, <3>1, GiveIs, GiveTyped
  <2>4. CASE First(c, "open") = 0
    <3>1. TextEvent(g) = [g EXCEPT !.buffer = << >>]
      BY <1>2, <1>5, <1>6, <1>11, <2>4, TextWithoutMarker
    <3>2. TextEvent(g) = e
      BY <2>1, <3>1, ParserFields DEF Give, ParserRecords
    <3>3. Run(g) = Run(e)
      BY <1>2, <1>8, <2>2, <3>2
    <3>4. CASE c = << >>
      <4>1. Give(e, c) = e
        BY <2>2, <3>4, GiveNothing
      <4> HIDE DEF g
      <4> QED
        BY <3>3, <4>1 DEF g, e
    <3>5. CASE c # << >>
      <4>1. TextEvent(Give(e, c)) = [Give(e, c) EXCEPT !.buffer = << >>]
        BY <2>3, <2>4, <3>5, TextWithoutMarker
      <4>2. [Give(e, c) EXCEPT !.buffer = << >>] = e
        BY <2>2, ParserFields DEF Give, ParserRecords
      <4>3. Run(Give(e, c)) = Run(e)
        BY <1>8, <2>2, <2>3, <4>1, <4>2
      <4> HIDE DEF g
      <4> QED
        BY <3>3, <4>3 DEF e, g
    <3> QED
      BY <3>4, <3>5
  <2>5. CASE First(c, "open") # 0
    <3> DEFINE k == First(c, "open")
               h == [p EXCEPT !.buffer = From(c, k)]
    <3>1. k \in 1..Len(c) /\ c # << >>
      BY <1>1, <1>7, <2>5
    <3>2. First(bc, "open") = Len(b) + k /\ Len(b) + k > 1
      BY <1>1, <1>5, <1>6, <1>11, <3>1
    <3> HIDE DEF k
    <3>3. From(bc, Len(b) + k) = From(c, k) /\ From(c, k) \in Seq(B)
      <4>1. From(c, k) \in Seq(B) /\ Len(From(c, k)) = Len(c) + 1 - k
            /\ \A i \in 1..(Len(c) + 1 - k) : From(c, k)[i] = c[k + i - 1]
        <5>1. k \in 1..(Len(c) + 1)
          BY <1>1, <3>1
        <5> QED
          BY <5>1, FromText
      <4>2. /\ From(bc, Len(b) + k) \in Seq(B) /\ Len(From(bc, Len(b) + k)) = Len(bc) + 1 - (Len(b) + k)
            /\ \A i \in 1..(Len(bc) + 1 - (Len(b) + k)) : From(bc, Len(b) + k)[i] = bc[(Len(b) + k) + i - 1]
        <5> DEFINE m == Len(b) + k
        <5>1. m \in 1..(Len(bc) + 1)
          BY <1>1, <3>1
        <5>2. bc \in Seq(B)
          BY <1>1
        <5> HIDE DEF bc, m
        <5>3. /\ From(bc, m) \in Seq(B) /\ Len(From(bc, m)) = Len(bc) + 1 - m
              /\ \A i \in 1..(Len(bc) + 1 - m) : From(bc, m)[i] = bc[m + i - 1]
          BY <5>1, <5>2, FromText
        <5> QED
          BY <5>3 DEF m
      <4>3. Len(bc) + 1 - (Len(b) + k) = Len(c) + 1 - k
        <5> HIDE DEF b, bc
        <5> QED
          BY <1>1, <3>1
      <4>4. ASSUME NEW i \in 1..(Len(c) + 1 - k) PROVE bc[(Len(b) + k) + i - 1] = c[k + i - 1]
        <5>1. k + i - 1 \in 1..Len(c) /\ (Len(b) + k) + i - 1 = Len(b) + (k + i - 1)
          <6> HIDE DEF b, bc
          <6> QED
            BY <1>1, <3>1
        <5>2. bc[Len(b) + (k + i - 1)] = c[k + i - 1]
          BY <1>1, <5>1, TextJoined
        <5> QED
          BY <5>1, <5>2
      <4> HIDE DEF bc
      <4>5. \A i \in 1..(Len(c) + 1 - k) : From(bc, Len(b) + k)[i] = From(c, k)[i]
        BY <4>1, <4>2, <4>3, <4>4
      <4> QED
        BY <4>1, <4>2, <4>3, <4>5, SeqEqual
    <3>4. TextEvent(g) = [g EXCEPT !.buffer = From(c, k)]
      <4>1. First(g.buffer, "open") = Len(b) + k /\ g.buffer # << >> /\ From(g.buffer, Len(b) + k) = From(c, k)
        BY <1>2, <1>5, <3>2, <3>3
      <4>2. Len(b) + k # 0 /\ Len(b) + k > 1
        BY <1>1, <3>1, <3>2
      <4> HIDE DEF g, b
      <4> QED
        BY <1>1, <3>1, <4>1, <4>2, TextBeforeMarker
    <3>5. TextEvent(g) = h
      BY <3>4, ParserFields DEF Give, ParserRecords
    <3>6. h.status = "ready"
      BY ParserFields DEF ParserRecords
    <3>7. Run(g) = Run(h)
      <4>1. TextEvent(g).status = "ready" /\ g \in Parsers(B) /\ g.mode = "text" /\ g.status = "ready"
        BY <1>2, <3>5, <3>6
      <4> HIDE DEF g, h
      <4>2. Run(g) = Run(TextEvent(g))
        BY <1>8, <4>1
      <4> QED
        BY <3>5, <4>2
    <3>8. CASE k = 1
      <4>1. From(c, k) = c
        BY <3>8, WholeBeginning
      <4>2. h = Give(e, c)
        <5>1. e.buffer \o c = c
          BY <2>2
        <5> QED
          BY <2>1, <4>1, <5>1, ParserFields DEF Give, ParserRecords
      <4> QED
        BY <3>7, <4>2 DEF e
    <3>9. CASE k # 1
      <4>1. k > 1
        BY <3>1, <3>9
      <4>2. TextEvent(Give(e, c)) = [Give(e, c) EXCEPT !.buffer = From(c, k)]
        <5>1. k = First(c, "open") /\ k # 0
          BY <3>1 DEF k
        <5> QED
          BY <2>3, <3>1, <4>1, <5>1, TextBeforeMarker
      <4>3. [Give(e, c) EXCEPT !.buffer = From(c, k)] = h
        BY <2>1, ParserFields DEF Give, ParserRecords
      <4>4. Run(Give(e, c)) = Run(h)
        <5> DEFINE v == Give(e, c)
        <5>1. TextEvent(v) = h /\ v \in Parsers(B) /\ v.mode = "text" /\ v.status = "ready"
          BY <2>3, <4>2, <4>3
        <5> HIDE DEF v, h
        <5>2. TextEvent(v).status = "ready"
          BY <3>6, <5>1
        <5>3. Run(v) = Run(TextEvent(v))
          BY <1>8, <5>1, <5>2
        <5> QED
          BY <5>1, <5>3 DEF v
      <4> QED
        BY <3>7, <4>4 DEF e
    <3> QED
      BY <3>8, <3>9
  <2> QED
    BY <2>4, <2>5
<1>12. open = 0 \/ open = 1 \/ open > 1
  BY <1>1, <1>7
<1> QED
  BY <1>9, <1>10, <1>11, <1>12

LEMMA HeaderExtends ==
  ASSUME NEW B, NEW p \in Parsers(B), p.status = "ready", NEW c \in Seq(B)
  PROVE  /\ HeaderEvent(p).status = "failed" => HeaderEvent(Give(p, c)).status = "failed"
         /\ HeaderEvent(p).status = "ready" => HeaderEvent(Give(p, c)) = Give(HeaderEvent(p), c)
<1> DEFINE b == p.buffer
           bc == b \o c
           n == Blanks(b)
           rest == From(b, n + 2)
           m == Blanks(rest)
           g == Give(p, c)
           e == HeaderEvent(p)
<1>1. b \in Seq(B) /\ Len(b) \in Nat /\ bc \in Seq(B) /\ Len(bc) = Len(b) + Len(c) /\ Len(c) \in Nat
      /\ \A i \in 1..Len(b) : bc[i] = b[i]
  BY ParserFields, TextJoined
<1>2. g \in Parsers(B) /\ g.status = "ready" /\ g.buffer = bc
  BY GiveIs, GiveTyped
<1>3. n \in 0..Len(b)
  BY <1>1, BlanksAre
<1>4. ASSUME NEW q, NEW i \in Nat, i = Blanks(q.buffer), i < Len(q.buffer), Len(q.buffer) \in Nat
      PROVE  HeaderEvent(q) =
               IF q.buffer[i + 1] \notin DOMAIN Header \cup {"half"} THEN Fails(q)
               ELSE IF Blanks(From(q.buffer, i + 2)) = Len(From(q.buffer, i + 2)) THEN Waits(q)
               ELSE IF q.buffer[i + 1] = "half" THEN Fails(q)
               ELSE [q EXCEPT !.mode = "arguments", !.scan = NewScan,
                              !.buffer = From(From(q.buffer, i + 2), Blanks(From(q.buffer, i + 2)) + 1),
                              !.calls = Append(@, [name |-> Header[q.buffer[i + 1]], arguments |-> << >>])]
  <2>1. ~(i + 1 > Len(q.buffer)) /\ (i + 1) + 1 = i + 2
    BY <1>4
  <2> QED
    BY <1>4, <2>1 DEF HeaderEvent
<1>5. e.status # "waits" => n < Len(b)
  <2>1. SUFFICES ASSUME ~(n < Len(b)) PROVE e.status = "waits"
    OBVIOUS
  <2>2. n + 1 > Len(b)
    BY <1>1, <1>3, <2>1
  <2>3. e = Waits(p)
    BY <2>2 DEF HeaderEvent
  <2> QED
    BY <2>3, WaitsTyped
<1>6. SUFFICES ASSUME n < Len(b), e.status # "waits"
               PROVE  /\ e.status = "failed" => HeaderEvent(g).status = "failed"
                      /\ e.status = "ready" => HeaderEvent(g) = Give(e, c)
  BY <1>5
<1>7. n \in Nat /\ n + 1 \in 1..Len(b) /\ n + 2 \in 1..(Len(b) + 1) /\ n < Len(bc) /\ Len(bc) \in Nat
  BY <1>1, <1>3, <1>6
<1>8. Blanks(bc) = n /\ bc[n + 1] = b[n + 1]
  <2>1. b \in Seq(B) /\ Blanks(b) < Len(b)
    BY <1>1, <1>6
  <2>2. bc[n + 1] = b[n + 1]
    BY <1>1, <1>7
  <2> HIDE DEF b
  <2>3. Blanks(bc) = n
    BY <2>1, BlanksJoined
  <2> QED
    BY <2>2, <2>3
<1>9. rest \in Seq(B) /\ Len(rest) \in Nat /\ From(bc, n + 2) = rest \o c
  <2>1. b \in Seq(B) /\ n + 2 \in 1..(Len(b) + 1)
    BY <1>1, <1>7
  <2> DEFINE behind == n + 2
  <2> HIDE DEF b, behind
  <2>2. behind \in 1..(Len(b) + 1)
    BY <2>1 DEF behind
  <2>3. From(bc, behind) = From(b, behind) \o c
    BY <2>1, <2>2, FromJoined
  <2>4. From(b, behind) \in Seq(B)
    BY <2>1, <2>2, FromText
  <2>5. rest \in Seq(B)
    BY <2>4 DEF behind, b
  <2>6. From(bc, n + 2) = rest \o c
    BY <2>3 DEF behind, b
  <2> HIDE DEF rest
  <2> QED
    BY <2>5, <2>6
<1>10. e = IF b[n + 1] \notin DOMAIN Header \cup {"half"} THEN Fails(p)
           ELSE IF m = Len(rest) THEN Waits(p)
           ELSE IF b[n + 1] = "half" THEN Fails(p)
           ELSE [p EXCEPT !.mode = "arguments", !.scan = NewScan, !.buffer = From(rest, m + 1),
                          !.calls = Append(@, [name |-> Header[b[n + 1]], arguments |-> << >>])]
  BY <1>1, <1>4, <1>6, <1>7
<1> DEFINE long == From(bc, n + 2)
<1>11. HeaderEvent(g) =
           IF b[n + 1] \notin DOMAIN Header \cup {"half"} THEN Fails(g)
           ELSE IF Blanks(long) = Len(long) THEN Waits(g)
           ELSE IF b[n + 1] = "half" THEN Fails(g)
           ELSE [g EXCEPT !.mode = "arguments", !.scan = NewScan, !.buffer = From(long, Blanks(long) + 1),
                          !.calls = Append(@, [name |-> Header[b[n + 1]], arguments |-> << >>])]
  <2>1. n = Blanks(g.buffer) /\ n < Len(g.buffer) /\ Len(g.buffer) \in Nat /\ g.buffer = bc
    BY <1>2, <1>7, <1>8
  <2> HIDE DEF g, bc, n
  <2> QED
    BY <1>4, <1>7, <1>8, <2>1
<1>12. Fails(g).status = "failed" /\ Fails(p).status = "failed" /\ Waits(p).status = "waits"
  BY <1>2, WaitsTyped
<1>13. CASE b[n + 1] \notin DOMAIN Header \cup {"half"}
  BY <1>10, <1>11, <1>12, <1>13
<1>14. CASE b[n + 1] \in DOMAIN Header \cup {"half"}
  <2>1. m # Len(rest)
    BY <1>6, <1>10, <1>12, <1>14
  <2> HIDE DEF rest
  <2>2. m \in 0..Len(rest) /\ m < Len(rest)
    BY <1>9, <2>1, BlanksAre
  <2>3. Blanks(rest \o c) = m /\ m # Len(rest \o c)
    <3>1. Blanks(rest \o c) = m
      BY <1>9, <2>2, BlanksJoined
    <3>2. Len(rest \o c) = Len(rest) + Len(c)
      BY <1>9
    <3> HIDE DEF m
    <3> QED
      BY <1>1, <1>9, <2>2, <3>1, <3>2
  <2>4. CASE b[n + 1] = "half"
    <3>1. HeaderEvent(g) = Fails(g)
      BY <1>9, <1>11, <1>14, <2>3, <2>4
    <3>2. e = Fails(p)
      BY <1>10, <1>14, <2>1, <2>4
    <3> QED
      BY <1>12, <3>1, <3>2
  <2>5. CASE b[n + 1] # "half"
    <3> DEFINE call == [name |-> Header[b[n + 1]], arguments |-> << >>]
               text == From(rest, m + 1)
    <3>1. From(rest \o c, m + 1) = text \o c /\ text \in Seq(B)
      <4>1. m + 1 \in 1..(Len(rest) + 1)
        BY <1>9, <2>2
      <4> HIDE DEF m
      <4> QED
        BY <1>9, <4>1, FromJoined, FromText
    <3>2. HeaderEvent(g) = [g EXCEPT !.mode = "arguments", !.scan = NewScan, !.buffer = text \o c,
                                     !.calls = Append(@, call)]
      BY <1>9, <1>11, <1>14, <2>3, <2>5, <3>1
    <3>3. e = [p EXCEPT !.mode = "arguments", !.scan = NewScan, !.buffer = text, !.calls = Append(@, call)]
      BY <1>10, <1>14, <2>1, <2>5
    <3> HIDE DEF text, call
    <3>4. HeaderEvent(g) = Give(e, c)
      <4>1. text \in Seq(B)
        BY <3>1
      <4>2. OpenedFor(g, text \o c, call) = Give(OpenedFor(p, text, call), c)
        BY <4>1, GiveOpened
      <4> HIDE DEF e, g
      <4>3. e = OpenedFor(p, text, call) /\ HeaderEvent(g) = OpenedFor(g, text \o c, call)
        BY <3>2, <3>3 DEF OpenedFor
      <4> QED
        BY <4>2, <4>3
    <3>5. e.status = "ready"
      BY <3>3, ParserFields DEF ParserRecords
    <3> QED
      BY <3>4, <3>5
  <2> QED
    BY <2>4, <2>5
<1> QED
  BY <1>13, <1>14

LEMMA CloseExtends ==
  ASSUME NEW B, NEW p \in Parsers(B), p.format = "hermes", p.status = "ready", NEW c \in Seq(B)
  PROVE  /\ CloseEvent(p).status = "failed" => CloseEvent(Give(p, c)).status = "failed"
         /\ CloseEvent(p).status = "ready" => CloseEvent(Give(p, c)) = Give(CloseEvent(p), c)
<1> DEFINE b == p.buffer
           bc == b \o c
           rest == From(b, 2)
           m == Blanks(rest)
           end == From(rest, m + 1)
           g == Give(p, c)
           e == CloseEvent(p)
<1>1. b \in Seq(B) /\ Len(b) \in Nat /\ bc \in Seq(B) /\ Len(bc) = Len(b) + Len(c) /\ Len(c) \in Nat
      /\ \A i \in 1..Len(b) : bc[i] = b[i]
  BY ParserFields, TextJoined
<1>2. g \in Parsers(B) /\ g.status = "ready" /\ g.buffer = bc /\ g.format = "hermes"
  BY GiveIs, GiveTyped
<1>3. ASSUME NEW q, q.format = "hermes", q.buffer # << >>
      PROVE  CloseEvent(q) =
               IF q.buffer[1] # "}" THEN Fails(q)
               ELSE IF \/ Blanks(From(q.buffer, 2)) = Len(From(q.buffer, 2))
                       \/ From(From(q.buffer, 2), Blanks(From(q.buffer, 2)) + 1) \in {<< >>, <<"cut">>} THEN Waits(q)
               ELSE IF From(From(q.buffer, 2), Blanks(From(q.buffer, 2)) + 1)[1] # "close" THEN Fails(q)
               ELSE [q EXCEPT !.mode = "text",
                              !.buffer = From(From(From(q.buffer, 2), Blanks(From(q.buffer, 2)) + 1), 2)]
  BY <1>3 DEF CloseEvent, SpaceMissing, SpaceOpen, Spaces
<1>4. e.status # "waits" => b # << >>
  <2>1. SUFFICES ASSUME b = << >> PROVE e.status = "waits"
    OBVIOUS
  <2>2. e = Waits(p)
    BY <2>1 DEF CloseEvent
  <2> QED
    BY <2>2, WaitsTyped
<1>5. SUFFICES ASSUME b # << >>, e.status # "waits"
               PROVE  /\ e.status = "failed" => CloseEvent(g).status = "failed"
                      /\ e.status = "ready" => CloseEvent(g) = Give(e, c)
  BY <1>4
<1>6. Len(b) > 0 /\ 2 \in 1..(Len(b) + 1) /\ 1 \in 1..Len(b)
  BY <1>1, <1>5
<1>7. bc # << >> /\ bc[1] = b[1]
  <2>1. Len(bc) > 0
    <3> HIDE DEF b, bc
    <3> QED
      BY <1>1, <1>6
  <2> QED
    BY <1>1, <1>6, <2>1
<1>8. rest \in Seq(B) /\ Len(rest) \in Nat /\ From(bc, 2) = rest \o c
  <2> HIDE DEF b
  <2> QED
    BY <1>1, <1>6, FromJoined, FromText
<1>9. e = IF b[1] # "}" THEN Fails(p)
          ELSE IF m = Len(rest) \/ end \in {<< >>, <<"cut">>} THEN Waits(p)
          ELSE IF end[1] # "close" THEN Fails(p)
          ELSE [p EXCEPT !.mode = "text", !.buffer = From(end, 2)]
  BY <1>3, <1>5
<1> DEFINE long == From(bc, 2)
           tail == From(long, Blanks(long) + 1)
<1>10. CloseEvent(g) =
          IF b[1] # "}" THEN Fails(g)
          ELSE IF Blanks(long) = Len(long) \/ tail \in {<< >>, <<"cut">>} THEN Waits(g)
          ELSE IF tail[1] # "close" THEN Fails(g)
          ELSE [g EXCEPT !.mode = "text", !.buffer = From(tail, 2)]
  <2>1. g.buffer = bc /\ g.format = "hermes" /\ g.buffer # << >>
    BY <1>2, <1>7
  <2> HIDE DEF g, bc
  <2>2. CloseEvent(g) =
          IF g.buffer[1] # "}" THEN Fails(g)
          ELSE IF \/ Blanks(From(g.buffer, 2)) = Len(From(g.buffer, 2))
                  \/ From(From(g.buffer, 2), Blanks(From(g.buffer, 2)) + 1) \in {<< >>, <<"cut">>} THEN Waits(g)
          ELSE IF From(From(g.buffer, 2), Blanks(From(g.buffer, 2)) + 1)[1] # "close" THEN Fails(g)
          ELSE [g EXCEPT !.mode = "text",
                         !.buffer = From(From(From(g.buffer, 2), Blanks(From(g.buffer, 2)) + 1), 2)]
    BY <1>3, <2>1
  <2> QED
    BY <1>7, <2>1, <2>2
<1>11. Fails(g).status = "failed" /\ Fails(p).status = "failed" /\ Waits(p).status = "waits"
  BY <1>2, WaitsTyped
<1>12. CASE b[1] # "}"
  BY <1>9, <1>10, <1>11, <1>12
<1>13. CASE b[1] = "}"
  <2>1. m # Len(rest) /\ end \notin {<< >>, <<"cut">>}
    BY <1>5, <1>9, <1>11, <1>13
  <2> HIDE DEF rest
  <2>2. m \in 0..Len(rest) /\ m < Len(rest)
    BY <1>8, <2>1, BlanksAre
  <2>3. Blanks(long) = m /\ m # Len(long)
    <3>1. Blanks(rest \o c) = m
      BY <1>8, <2>2, BlanksJoined
    <3>2. Len(rest \o c) = Len(rest) + Len(c)
      BY <1>8
    <3>3. m \in Nat /\ \A x, y, z \in Nat : x < y => x # y + z
      BY <1>8, <2>2
    <3> HIDE DEF m, bc
    <3>4. m # Len(rest) + Len(c)
      BY <1>1, <1>8, <2>2, <3>3
    <3> QED
      BY <1>8, <3>1, <3>2, <3>4
  <2>4. tail = end \o c /\ end \in Seq(B) /\ Len(end) > 0 /\ Len(end) \in Nat
    <3>1. m + 1 \in 1..(Len(rest) + 1) /\ Len(rest) + 1 - (m + 1) > 0
      BY <1>8, <2>2
    <3> HIDE DEF m
    <3>2. From(rest \o c, m + 1) = From(rest, m + 1) \o c /\ From(rest, m + 1) \in Seq(B)
          /\ Len(From(rest, m + 1)) = Len(rest) + 1 - (m + 1)
      BY <1>8, <3>1, FromJoined, FromText
    <3>3. tail = From(rest \o c, m + 1)
      BY <1>8, <2>3
    <3>4. end = From(rest, m + 1)
      BY DEF m
    <3> HIDE DEF end, tail
    <3>5. Len(end) > 0 /\ Len(end) \in Nat
      BY <3>1, <3>2, <3>4
    <3> QED
      BY <3>2, <3>3, <3>4, <3>5
  <2> HIDE DEF end, tail, long, m
  <2>5. tail \notin {<< >>, <<"cut">>} /\ tail[1] = end[1]
    <3>1. Len(end \o c) = Len(end) + Len(c) /\ 1 \in 1..Len(end) /\ (end \o c)[1] = end[1]
      BY <2>4, TextJoined
    <3>2. Len(tail) > 0
      BY <1>1, <2>4, <3>1
    <3>3. ASSUME tail = <<"cut">> PROVE FALSE
      <4>1. Len(tail) = 1 /\ tail[1] = "cut"
        BY <3>3
      <4>2. Len(end) = 1 /\ end[1] = "cut"
        <5>1. Len(end) + Len(c) = 1 /\ Len(c) \in Nat /\ Len(end) \in Nat /\ Len(end) > 0
          <6>1. Len(tail) = Len(end) + Len(c)
            BY <2>4, <3>1, Zenon
          <6>2. Len(c) \in Nat
            BY <1>1
          <6>3. Len(end) \in Nat /\ Len(end) > 0
            BY <2>4
          <6> QED
            BY <4>1, <6>1, <6>2, <6>3
        <5>2. Len(end) = 1
          <6>1. \A x, y \in Nat : x + y = 1 /\ x > 0 => x = 1
            OBVIOUS
          <6> QED
            BY <5>1, <6>1
        <5>3. end[1] = tail[1]
          BY <2>4, <3>1
        <5> QED
          BY <4>1, <5>2, <5>3
      <4>3. end = <<"cut">>
        BY <2>4, <4>2
      <4> QED
        BY <2>1, <4>3
    <3> QED
      BY <2>4, <3>1, <3>2, <3>3
  <2>6. CASE end[1] # "close"
    <3>1. CloseEvent(g) = Fails(g) /\ e = Fails(p)
      BY <1>9, <1>10, <1>13, <2>1, <2>3, <2>5, <2>6
    <3> QED
      BY <1>11, <3>1
  <2>7. CASE end[1] = "close"
    <3> DEFINE text == From(end, 2)
    <3>1. From(tail, 2) = text \o c /\ text \in Seq(B)
      <4>1. 2 \in 1..(Len(end) + 1)
        BY <2>4
      <4> QED
        BY <2>4, <4>1, FromJoined, FromText
    <3>2. CloseEvent(g) = [g EXCEPT !.mode = "text", !.buffer = text \o c]
      BY <1>10, <1>13, <2>3, <2>5, <2>7, <3>1
    <3>3. e = [p EXCEPT !.mode = "text", !.buffer = text]
      BY <1>9, <1>13, <2>1, <2>5, <2>7
    <3> HIDE DEF text
    <3>4. CloseEvent(g) = Give(e, c)
      BY <3>2, <3>3, ParserFields DEF Give, ParserRecords
    <3>5. e.status = "ready"
      BY <3>3, ParserFields DEF ParserRecords
    <3> QED
      BY <3>4, <3>5
  <2> QED
    BY <2>6, <2>7
<1> QED
  BY <1>12, <1>13

\* The arguments take n tokens of the buffer.
Took(p, n) ==
  IF Scanned(p.scan, SubSeq(p.buffer, 1, n)).phase = "failed" THEN Fails(p)
  ELSE [p EXCEPT !.scan = Scanned(p.scan, SubSeq(p.buffer, 1, n)), !.buffer = From(p.buffer, n + 1),
                 !.calls[Len(p.calls)].arguments = @ \o SubSeq(p.buffer, 1, n)]

LEMMA ArgumentsEventIs ==
  ASSUME NEW p, p.buffer # << >>
  PROVE  ArgumentsEvent(p) = Took(p, Taken(p.scan, p.buffer))
BY DEF ArgumentsEvent, Took

\* What is left behind a beginning of the second of two texts.
LEMMA FromSecond ==
  ASSUME NEW B, NEW a \in Seq(B), NEW c \in Seq(B), NEW k \in 1..(Len(c) + 1)
  PROVE  From(a \o c, Len(a) + k) = From(c, k)
<1> DEFINE ac == a \o c
<1>1. /\ ac \in Seq(B) /\ Len(ac) = Len(a) + Len(c) /\ Len(a) \in Nat /\ Len(c) \in Nat
      /\ \A i \in 1..Len(c) : ac[Len(a) + i] = c[i]
  BY TextJoined
<1> HIDE DEF ac
<1>2. /\ From(c, k) \in Seq(B) /\ Len(From(c, k)) = Len(c) + 1 - k
      /\ \A i \in 1..(Len(c) + 1 - k) : From(c, k)[i] = c[k + i - 1]
  BY FromText
<1>3. Len(a) + k \in 1..(Len(ac) + 1) /\ Len(ac) + 1 - (Len(a) + k) = Len(c) + 1 - k
  BY <1>1
<1>4. /\ From(ac, Len(a) + k) \in Seq(B) /\ Len(From(ac, Len(a) + k)) = Len(ac) + 1 - (Len(a) + k)
      /\ \A i \in 1..(Len(ac) + 1 - (Len(a) + k)) : From(ac, Len(a) + k)[i] = ac[(Len(a) + k) + i - 1]
  BY <1>1, <1>3, FromText
<1>5. ASSUME NEW i \in 1..(Len(c) + 1 - k) PROVE ac[(Len(a) + k) + i - 1] = c[k + i - 1]
  <2>1. k + i - 1 \in 1..Len(c) /\ (Len(a) + k) + i - 1 = Len(a) + (k + i - 1)
    BY <1>1
  <2> QED
    BY <1>1, <2>1
<1>6. \A i \in 1..(Len(c) + 1 - k) : From(ac, Len(a) + k)[i] = From(c, k)[i]
  BY <1>2, <1>3, <1>4, <1>5
<1>7. From(ac, Len(a) + k) = From(c, k)
  BY <1>2, <1>3, <1>4, <1>6, SeqEqual
<1> QED
  BY <1>7 DEF ac

LEMMA ArgumentsExtend ==
  ASSUME NEW B, NEW p \in Parsers(B), p.mode = "arguments", p.scan.phase # "complete",
         p.status = "ready", NEW c \in Seq(B)
  PROVE  /\ ArgumentsEvent(p).status = "failed" => ArgumentsEvent(Give(p, c)).status = "failed"
         /\ ArgumentsEvent(p).status = "ready" =>
              Alike(Run(Give(p, c)), Run(Give(ArgumentsEvent(p), c)))
<1> DEFINE b == p.buffer
           bc == b \o c
           s == p.scan
           n == Taken(s, b)
           part == SubSeq(b, 1, n)
           t == Scanned(s, part)
           g == Give(p, c)
           e == ArgumentsEvent(p)
<1>1. b \in Seq(B) /\ Len(b) \in Nat /\ bc \in Seq(B) /\ Len(bc) = Len(b) + Len(c) /\ Len(c) \in Nat
      /\ s \in Scans /\ s.phase # "complete"
  BY ParserFields, TextJoined
<1>2. /\ g \in Parsers(B) /\ g.status = "ready" /\ g.buffer = bc /\ g.mode = "arguments"
      /\ g.scan = s /\ g.calls = p.calls
  BY GiveIs, GiveTyped
<1>3. e.status # "waits" => b # << >>
  <2>1. SUFFICES ASSUME b = << >> PROVE e.status = "waits"
    OBVIOUS
  <2>2. e = Waits(p)
    BY <2>1 DEF ArgumentsEvent
  <2> QED
    BY <2>2, WaitsTyped
<1>4. SUFFICES ASSUME b # << >>, e.status # "waits"
               PROVE  /\ e.status = "failed" => ArgumentsEvent(g).status = "failed"
                      /\ e.status = "ready" => Alike(Run(g), Run(Give(e, c)))
  BY <1>3
<1>5. Len(b) > 0 /\ bc # << >>
  <2>1. Len(b) > 0
    BY <1>1, <1>4
  <2>2. Len(bc) > 0
    <3> HIDE DEF b, bc
    <3> QED
      BY <1>1, <2>1
  <2> QED
    BY <2>1, <2>2
<1>6. e = IF t.phase = "failed" THEN Fails(p)
          ELSE [p EXCEPT !.scan = t, !.buffer = From(b, n + 1), !.calls[Len(p.calls)].arguments = @ \o part]
  <2>1. e = Took(p, Taken(p.scan, p.buffer))
    BY <1>4, ArgumentsEventIs
  <2> QED
    BY <2>1 DEF Took
<1>7. ASSUME NEW k, k = Taken(s, bc)
      PROVE  ArgumentsEvent(g) =
               IF Scanned(s, SubSeq(bc, 1, k)).phase = "failed" THEN Fails(g)
               ELSE [g EXCEPT !.scan = Scanned(s, SubSeq(bc, 1, k)), !.buffer = From(bc, k + 1),
                              !.calls[Len(p.calls)].arguments = @ \o SubSeq(bc, 1, k)]
  <2>1. g.buffer = bc /\ g.scan = s /\ g.calls = p.calls /\ g.buffer # << >>
    BY <1>2, <1>5
  <2> HIDE DEF g, bc, s
  <2>2. ArgumentsEvent(g) = Took(g, Taken(g.scan, g.buffer))
    BY <2>1, ArgumentsEventIs
  <2>3. ArgumentsEvent(g) = Took(g, k)
    BY <1>7, <2>1, <2>2
  <2> QED
    BY <2>1, <2>3 DEF Took
<1>8. /\ n \in 0..Len(b) /\ part \in Seq(B) /\ From(b, n + 1) \in Seq(B) /\ t \in Scans
      /\ SubSeq(bc, 1, n) = part
  <2>1. n \in 0..Len(b)
    BY <1>1, TakenIs
  <2>2. part \in Seq(B) /\ From(b, n + 1) \in Seq(B) /\ SubSeq(bc, 1, n) = part
    <3>1. b \in Seq(B)
      BY <1>1
    <3> HIDE DEF n, b
    <3>2. SubSeq(b, 1, n) \in Seq(B) /\ From(b, n + 1) \in Seq(B)
      BY <2>1, <3>1, Beginning
    <3>3. SubSeq(b \o c, 1, n) = SubSeq(b, 1, n)
      BY <2>1, <3>1, JoinedBeginning
    <3> QED
      BY <3>2, <3>3
  <2> HIDE DEF part
  <2> QED
    BY <1>1, <2>1, <2>2, ScannedTyped
<1>9. Fails(g).status = "failed" /\ Fails(p).status = "failed"
  BY <1>2, WaitsTyped
<1>10. CASE t.phase = "complete"
  <2>1. Taken(s, bc) = n
    BY <1>1, <1>10, TakenJoined
  <2>2. From(bc, n + 1) = From(b, n + 1) \o c
    <3>1. n + 1 \in 1..(Len(b) + 1)
      <4> HIDE DEF n, b
      <4> QED
        BY <1>1, <1>8
    <3> HIDE DEF n, b
    <3> QED
      BY <1>1, <3>1, FromJoined
  <2> DEFINE text == From(b, n + 1)
  <2>3. t.phase # "failed"
    BY <1>10
  <2>4. e = [p EXCEPT !.scan = t, !.buffer = text, !.calls[Len(p.calls)].arguments = @ \o part]
    BY <1>6, <2>3
  <2>5. ArgumentsEvent(g) = [g EXCEPT !.scan = t, !.buffer = text \o c, !.calls[Len(p.calls)].arguments = @ \o part]
    <3> HIDE DEF g, bc, n, part
    <3> QED
      BY <1>7, <1>8, <2>1, <2>2, <2>3
  <2>6. text \in Seq(B)
    BY <1>8
  <2> HIDE DEF text, t, part
  <2>7. ArgumentsEvent(g) = Give(e, c) /\ ArgumentsEvent(g).status = "ready" /\ e.status = "ready"
    <3>1. ArgumentsEvent(g) = Give(e, c)
      <4>1. TookAll(g, t, text \o c, part, Len(p.calls)) = Give(TookAll(p, t, text, part, Len(p.calls)), c)
        BY <2>6, GiveTookAll
      <4> HIDE DEF e, g
      <4>2. e = TookAll(p, t, text, part, Len(p.calls))
            /\ ArgumentsEvent(g) = TookAll(g, t, text \o c, part, Len(p.calls))
        BY <2>4, <2>5 DEF TookAll
      <4> QED
        BY <4>1, <4>2
    <3>2. e.status = "ready"
      BY <2>4, ParserFields DEF ParserRecords
    <3>3. ArgumentsEvent(g).status = "ready"
      BY <1>2, <2>5, ParserFields DEF ParserRecords
    <3> QED
      BY <3>1, <3>2, <3>3
  <2>8. NextEvent(g) = ArgumentsEvent(g)
    BY <1>1, <1>2 DEF NextEvent
  <2>9. Run(g) = Run(Give(e, c))
    <3> HIDE DEF g, e
    <3> QED
      BY <1>2, <2>7, <2>8, RunStep
  <2> DEFINE x == Run(g)
             y == Run(Give(e, c))
  <2>10. Alike(x, y)
    <3> HIDE DEF x, y
    <3>1. x = y
      BY <2>9 DEF x, y
    <3> QED
      BY <3>1 DEF Alike
  <2>11. e.status = "ready"
    BY <2>7
  <2> HIDE DEF g, e, x, y
  <2> QED
    BY <2>10, <2>11 DEF x, y
<1>11. CASE t.phase # "complete"
  <2> DEFINE k == Taken(t, c)
             more == SubSeq(c, 1, k)
             u == Scanned(t, more)
  <2>1. n = Len(b) /\ part = b /\ Taken(s, bc) = Len(b) + k /\ From(b, n + 1) = << >>
    <3>1. n = Len(b) /\ Taken(s, bc) = Len(b) + k
      BY <1>1, <1>11, TakenJoined
    <3> QED
      BY <1>1, <3>1, WholeBeginning
  <2>2. k \in 0..Len(c) /\ more \in Seq(B) /\ SubSeq(bc, 1, Len(b) + k) = b \o more
    <3>1. k \in 0..Len(c)
      BY TakenIs
    <3>2. b \in Seq(B) /\ c \in Seq(B)
      BY <1>1
    <3> HIDE DEF k, b
    <3>3. SubSeq(c, 1, k) \in Seq(B)
      BY <3>1, <3>2, Beginning
    <3>4. SubSeq(b \o c, 1, Len(b) + k) = b \o SubSeq(c, 1, k)
      BY <3>1, <3>2, JoinedBeginning
    <3> QED
      BY <3>1, <3>3, <3>4
  <2>3. Scanned(s, SubSeq(bc, 1, Len(b) + k)) = u
    <3>1. t = Scanned(s, b)
      BY <2>1
    <3>2. b \in Seq(B) /\ s \in Scans
      BY <1>1
    <3>3. more \in Seq(B)
      BY <2>2
    <3> HIDE DEF more, t, b, bc, s
    <3>4. Scanned(s, b \o more) = Scanned(Scanned(s, b), more)
      BY <3>2, <3>3, ScannedJoined
    <3>5. SubSeq(bc, 1, Len(b) + k) = b \o more
      BY <2>2
    <3> QED
      BY <3>1, <3>4, <3>5
  <2>4. From(bc, (Len(b) + k) + 1) = From(c, k + 1) /\ From(c, k + 1) \in Seq(B)
    <3>1. k + 1 \in 1..(Len(c) + 1) /\ (Len(b) + k) + 1 = Len(b) + (k + 1)
      <4> HIDE DEF b, k
      <4> QED
        BY <1>1, <2>2
    <3> HIDE DEF k, b
    <3> QED
      BY <1>1, <3>1, FromSecond, FromText
  <2> DEFINE left == From(c, k + 1)
             last == Len(p.calls)
             h == [g EXCEPT !.scan = u, !.buffer = left, !.calls[last].arguments = @ \o (b \o more)]
  <2>5. ArgumentsEvent(g) = IF u.phase = "failed" THEN Fails(g) ELSE h
    <3> HIDE DEF g, bc, k, more, u, b
    <3> QED
      BY <1>7, <2>1, <2>2, <2>3, <2>4
  <2>6. CASE t.phase = "failed"
    <3>1. u = t
      <4> HIDE DEF t, more
      <4> QED
        BY <1>8, <2>2, <2>6, ScannedStays
    <3>2. e = Fails(p) /\ ArgumentsEvent(g) = Fails(g)
      <4> HIDE DEF g, t, u
      <4> QED
        BY <1>6, <2>5, <2>6, <3>1
    <3> QED
      BY <1>9, <3>2
  <2>7. CASE t.phase # "failed"
    <3>1. e = [p EXCEPT !.scan = t, !.buffer = << >>, !.calls[last].arguments = @ \o b]
      BY <1>6, <2>1, <2>7
    <3>2. e \in Parsers(B)
      BY NextEventTyped DEF NextEvent
    <3>3. /\ e.status = "ready" /\ e.mode = "arguments" /\ e.buffer = << >> /\ e.scan = t
          /\ e.calls = [p.calls EXCEPT ![last].arguments = @ \o b] /\ e.format = p.format
      <4> HIDE DEF t, b, last
      <4> QED
        BY <3>1, ParserFields DEF ParserRecords
    <3>4. SUFFICES Alike(Run(g), Run(Give(e, c)))
      BY <3>3
    <3> DEFINE f == Give(e, c)
    <3>5. NextEvent(g) = ArgumentsEvent(g)
      BY <1>1, <1>2 DEF NextEvent
    <3>6. CASE c = << >>
      <4>1. f = e
        <5> HIDE DEF e
        <5> QED
          BY <3>2, <3>3, <3>6, GiveNothing
      <4>2. bc = b /\ g = p
        BY <1>1, <3>6, GiveNothing
      <4>3. NextEvent(p) = e
        BY DEF NextEvent
      <4>4. Run(g) = Run(e)
        <5> HIDE DEF g, e
        <5> QED
          BY <3>3, <4>2, <4>3, RunStep
      <4> HIDE DEF g, e, f
      <4>5. Run(g) = Run(f)
        BY <4>1, <4>4
      <4> QED
        BY <4>5 DEF Alike, f
    <3>7. CASE c # << >>
      <4>1. /\ f \in Parsers(B) /\ f.status = "ready" /\ f.mode = "arguments" /\ f.buffer = c /\ f.scan = t
            /\ f.calls = e.calls
        <5>1. e.buffer \o c = c
          BY <3>3
        <5> HIDE DEF e
        <5>2. Give(e, c) \in Parsers(B)
          BY <3>2, GiveTyped
        <5>3. /\ Give(e, c).mode = e.mode /\ Give(e, c).calls = e.calls /\ Give(e, c).scan = e.scan
              /\ Give(e, c).buffer = e.buffer \o c /\ Give(e, c).status = "ready"
          BY <3>2, GiveIs
        <5> QED
          BY <3>3, <5>1, <5>2, <5>3
      <4> HIDE DEF e
      <4>2. ArgumentsEvent(f) =
              IF u.phase = "failed" THEN Fails(f)
              ELSE [f EXCEPT !.scan = u, !.buffer = left, !.calls[last].arguments = @ \o more]
        <5>1. k = Taken(f.scan, f.buffer) /\ f.buffer # << >> /\ Len(f.calls) = last
          <6>1. Len(e.calls) = last
            <7>1. p.calls \in Seq(ParsedCalls(B))
              BY ParserFields
            <7> QED
              BY <3>3, <7>1
          <6> QED
            BY <3>7, <4>1, <6>1
        <5> HIDE DEF f, k, last
        <5>2. ArgumentsEvent(f) = Took(f, Taken(f.scan, f.buffer))
          BY <5>1, ArgumentsEventIs
        <5>3. ArgumentsEvent(f) = Took(f, k)
          BY <5>1, <5>2
        <5> QED
          BY <4>1, <5>1, <5>3 DEF Took
      <4>3. NextEvent(f) = ArgumentsEvent(f)
        <5> HIDE DEF f
        <5> QED
          BY <1>11, <4>1 DEF NextEvent
      <4>4. CASE u.phase = "failed"
        <5>1. NextEvent(g) = Fails(g) /\ NextEvent(f) = Fails(f)
          <6> HIDE DEF g, f, u
          <6> QED
            BY <2>5, <3>5, <4>2, <4>3, <4>4
        <5>2. Fails(f).status = "failed"
          BY <4>1, WaitsTyped
        <5>3. Run(g) = Fails(g) /\ Run(f) = Fails(f)
          <6> HIDE DEF g, f
          <6> QED
            BY <1>2, <1>9, <4>1, <5>1, <5>2, RunStep
        <5> QED
          BY <1>9, <5>2, <5>3 DEF Alike
      <4>5. CASE u.phase # "failed"
        <5>1. NextEvent(g) = h
          <6> HIDE DEF g, h, u
          <6> QED
            BY <2>5, <3>5, <4>5
        <5>2. NextEvent(f) = [f EXCEPT !.scan = u, !.buffer = left, !.calls[last].arguments = @ \o more]
          <6> HIDE DEF f, u, left, more, last
          <6> QED
            BY <4>2, <4>3, <4>5
        <5>3. NextEvent(f) = h
          <6> DEFINE call == p.calls[last]
          <6>1. p.calls \in Seq(ParsedCalls(B)) /\ p.calls # << >>
            BY ParserFields DEF InStep
          <6>2. last \in 1..Len(p.calls) /\ call \in ParsedCalls(B)
            BY <6>1
          <6>3. call.arguments \in Seq(B)
            BY <6>2 DEF ParsedCalls
          <6>4. (call.arguments \o b) \o more = call.arguments \o (b \o more)
            <7>1. b \in Seq(B) /\ more \in Seq(B)
              BY <1>1, <2>2
            <7> DEFINE said == call.arguments
            <7>2. said \in Seq(B)
              BY <6>3
            <7> HIDE DEF said, b, more
            <7>3. (said \o b) \o more = said \o (b \o more)
              BY <7>1, <7>2, Associates
            <7> QED
              BY <7>3 DEF said
          <6>5. [f.calls EXCEPT ![last].arguments = @ \o more] = [p.calls EXCEPT ![last].arguments = @ \o (b \o more)]
            <7>1. f.calls = [p.calls EXCEPT ![last].arguments = @ \o b]
              <8> HIDE DEF f
              <8> QED
                BY <3>3, <4>1
            <7> DEFINE calls == p.calls
                       C == ParsedCalls(B)
                       once == call.arguments \o b
                       twice == call.arguments \o (b \o more)
            <7>2. calls \in Seq(C) /\ last \in 1..Len(calls) /\ calls[last] = call
              BY <6>1, <6>2
            <7>3. call = [name |-> call.name, arguments |-> call.arguments]
              BY <6>2 DEF ParsedCalls
            <7>4. f.calls = [calls EXCEPT ![last] = [call EXCEPT !.arguments = once]]
              BY <7>1, <7>2
            <7>5. once \o more = twice
              BY <6>4
            <7> HIDE DEF f, more, b, last, calls, call, C, once, twice
            <7>6. [call EXCEPT !.arguments = once].arguments = once
              BY <7>3
            <7>7. [[call EXCEPT !.arguments = once] EXCEPT !.arguments = twice] = [call EXCEPT !.arguments = twice]
              BY <7>3
            <7> DEFINE longer == [call EXCEPT !.arguments = once]
                       longest == [call EXCEPT !.arguments = twice]
            <7>8. longer.arguments = once /\ [longer EXCEPT !.arguments = twice] = longest
              BY <7>6, <7>7
            <7>9. f.calls = [calls EXCEPT ![last] = longer]
              BY <7>4
            <7>10. longest = [call EXCEPT !.arguments = call.arguments \o (b \o more)]
              BY DEF twice
            <7>11. calls \in [1..Len(calls) -> C]
              BY <7>2
            <7> HIDE DEF longer, longest
            <7>12. f.calls[last] = longer
              BY <7>2, <7>9, <7>11
            <7>13. [f.calls EXCEPT ![last].arguments = @ \o more] = [f.calls EXCEPT ![last] = longest]
              BY <7>5, <7>8, <7>12
            <7>14. [calls EXCEPT ![last].arguments = @ \o (b \o more)] = [calls EXCEPT ![last] = longest]
              BY <7>2, <7>10
            <7>15. [f.calls EXCEPT ![last] = longest] = [calls EXCEPT ![last] = longest]
              BY <7>2, <7>9, <7>11
            <7> QED
              BY <7>13, <7>14, <7>15 DEF calls
          <6>6. /\ NextEvent(f) \in ParserRecords(B) /\ NextEvent(f).status = f.status
                /\ NextEvent(f).scan = u /\ NextEvent(f).buffer = left /\ NextEvent(f).mode = f.mode
                /\ NextEvent(f).calls = [f.calls EXCEPT ![last].arguments = @ \o more]
                /\ NextEvent(f).format = f.format
            <7>1. NextEvent(f) \in Parsers(B) /\ f \in ParserRecords(B)
              <8> HIDE DEF f
              <8> QED
                BY <4>1, NextEventTyped, ParserFields
            <7>2. NextEvent(f) \in ParserRecords(B)
              BY <7>1, ParserFields
            <7> HIDE DEF f, u, left, more, last
            <7> QED
              BY <5>2, <7>1, <7>2 DEF ParserRecords
          <6>7. /\ h \in ParserRecords(B) /\ h.status = g.status /\ h.scan = u /\ h.buffer = left /\ h.mode = g.mode
                /\ h.calls = [g.calls EXCEPT ![last].arguments = @ \o (b \o more)]
                /\ h.format = g.format
            <7>1. NextEvent(g) \in Parsers(B) /\ g \in ParserRecords(B)
              <8> HIDE DEF g
              <8> QED
                BY <1>2, NextEventTyped, ParserFields
            <7>2. h \in ParserRecords(B)
              BY <5>1, <7>1, ParserFields
            <7> HIDE DEF g, u, left, more, last, b
            <7> QED
              BY <7>1, <7>2 DEF ParserRecords
          <6>8. g.format = f.format
            <7> HIDE DEF e
            <7> QED
              BY <3>2, <3>3, GiveIs
          <6> HIDE DEF h, f, g, u, left
          <6> QED
            <7> DEFINE after == NextEvent(f)
            <7>a. after.scan = h.scan /\ after.buffer = h.buffer
              BY <6>6, <6>7
            <7>b. after.format = h.format /\ after.mode = h.mode /\ after.status = h.status
              BY <1>2, <4>1, <6>6, <6>7, <6>8
            <7>c. after.calls = h.calls
              BY <1>2, <6>5, <6>6, <6>7
            <7>1. SameFields(after, h)
              <8> HIDE DEF after
              <8> QED
                BY <7>a, <7>b, <7>c DEF SameFields
            <7>2. NextEvent(f) \in ParserRecords(B) /\ h \in ParserRecords(B)
              BY <6>6, <6>7
            <7> HIDE DEF after
            <7>3. after \in ParserRecords(B)
              BY <7>2 DEF after
            <7>4. after = h
              BY <7>1, <7>2, <7>3, SameParser
            <7> QED
              BY <7>4 DEF after
        <5>4. NextEvent(g).status = "ready" /\ NextEvent(f).status = "ready"
          <6> HIDE DEF u, left, more, last, b
          <6> QED
            BY <1>2, <5>1, <5>3, ParserFields DEF ParserRecords
        <5>5. Run(g) = Run(f)
          <6> HIDE DEF g, f, h
          <6> QED
            BY <1>2, <4>1, <5>1, <5>3, <5>4, RunStep
        <5> HIDE DEF g, f
        <5> QED
          BY <5>5 DEF Alike, f
      <4> QED
        BY <4>4, <4>5 DEF e
    <3> QED
      BY <3>6, <3>7
  <2> QED
    BY <2>6, <2>7
<1> QED
  BY <1>10, <1>11

\* A parser that waits has taken nothing.
LEMMA EventWaits ==
  ASSUME NEW B, NEW p \in Parsers(B), p.status = "ready"
  PROVE  /\ NextEvent(p).status = "waits" => NextEvent(p) = Waits(p)
         /\ p.mode = "text" => TextEvent(p).status # "failed"
<1>1. /\ p \in ParserRecords(B)
      /\ \A q \in ParserRecords(B) : Waits(q).status = "waits" /\ Fails(q).status = "failed"
  BY ParserFields DEF Waits, Fails, ParserRecords
<1>2. TextEvent(p) = Waits(p) \/ TextEvent(p).status = "ready"
  BY <1>1 DEF TextEvent, ParserRecords
<1>3. HeaderEvent(p) = Waits(p) \/ HeaderEvent(p) = Fails(p) \/ HeaderEvent(p).status = "ready"
  BY <1>1 DEF HeaderEvent, ParserRecords
<1>4. ArgumentsEvent(p) = Waits(p) \/ ArgumentsEvent(p) = Fails(p) \/ ArgumentsEvent(p).status = "ready"
  BY <1>1 DEF ArgumentsEvent, ParserRecords
<1>5. CloseEvent(p) = Waits(p) \/ CloseEvent(p) = Fails(p) \/ CloseEvent(p).status = "ready"
  BY <1>1 DEF CloseEvent, ParserRecords
<1>6. Waits(p).status = "waits" /\ Fails(p).status = "failed"
  BY <1>1
<1>7. NextEvent(p) \in {TextEvent(p), HeaderEvent(p), ArgumentsEvent(p), CloseEvent(p)}
  BY DEF NextEvent
<1> QED
  BY <1>2, <1>3, <1>4, <1>5, <1>6, <1>7

\* The first event with more text behind.
LEMMA EventExtends ==
  ASSUME NEW B, NEW p \in Parsers(B), p.format = "hermes", p.status = "ready", NEW c \in Seq(B)
  PROVE  /\ NextEvent(p).status = "failed" => Run(Give(p, c)).status = "failed"
         /\ NextEvent(p).status = "ready" => Alike(Run(Give(p, c)), Run(Give(NextEvent(p), c)))
<1> DEFINE g == Give(p, c)
           e == NextEvent(p)
<1>1. /\ g \in Parsers(B) /\ g.status = "ready" /\ g.mode = p.mode /\ g.scan = p.scan
      /\ e \in Parsers(B) /\ p.mode \in {"text", "header", "arguments"}
  BY GiveIs, GiveTyped, NextEventTyped, ParserFields DEF Modes
<1>2. Run(g) = IF NextEvent(g).status = "ready" THEN Run(NextEvent(g)) ELSE NextEvent(g)
  <2> HIDE DEF g
  <2> QED
    BY <1>1, RunStep
<1>3. ASSUME e.status = "ready" PROVE Give(e, c) \in Parsers(B) /\ Give(e, c).status = "ready"
  <2> HIDE DEF e
  <2> QED
    BY <1>1, GiveIs, GiveTyped
<1>4. ASSUME NextEvent(g) = Give(e, c), e.status = "ready" PROVE Alike(Run(g), Run(Give(e, c)))
  <2> HIDE DEF g, e
  <2>1. Run(g) = Run(Give(e, c))
    BY <1>2, <1>3, <1>4
  <2> QED
    BY <2>1 DEF Alike
<1>5. CASE p.mode = "text"
  <2>1. e = TextEvent(p)
    BY <1>5 DEF NextEvent
  <2>2. e.status # "failed"
    BY <1>5, <2>1, EventWaits
  <2>3. ASSUME e.status = "ready" PROVE Run(g) = Run(Give(e, c))
    BY <1>5, <2>1, <2>3, TextExtends
  <2> HIDE DEF g, e
  <2> QED
    BY <2>2, <2>3 DEF Alike, g, e
<1>6. CASE p.mode = "header"
  <2>1. e = HeaderEvent(p) /\ NextEvent(g) = HeaderEvent(g)
    <3>1. e = HeaderEvent(p)
      BY <1>6 DEF NextEvent
    <3> HIDE DEF g
    <3> QED
      BY <1>1, <1>6, <3>1 DEF NextEvent
  <2>2. /\ e.status = "failed" => NextEvent(g).status = "failed"
        /\ e.status = "ready" => NextEvent(g) = Give(e, c)
    BY <2>1, HeaderExtends
  <2> HIDE DEF g, e
  <2> QED
    BY <1>2, <1>4, <2>2 DEF g, e
<1>7. CASE p.mode = "arguments" /\ p.scan.phase = "complete"
  <2>1. e = CloseEvent(p) /\ NextEvent(g) = CloseEvent(g)
    <3>1. e = CloseEvent(p)
      BY <1>7 DEF NextEvent
    <3> HIDE DEF g
    <3> QED
      BY <1>1, <1>7, <3>1 DEF NextEvent
  <2>2. /\ e.status = "failed" => NextEvent(g).status = "failed"
        /\ e.status = "ready" => NextEvent(g) = Give(e, c)
    BY <2>1, CloseExtends
  <2> HIDE DEF g, e
  <2> QED
    BY <1>2, <1>4, <2>2 DEF g, e
<1>8. CASE p.mode = "arguments" /\ p.scan.phase # "complete"
  <2>1. e = ArgumentsEvent(p) /\ NextEvent(g) = ArgumentsEvent(g)
    <3>1. e = ArgumentsEvent(p)
      BY <1>8 DEF NextEvent
    <3> HIDE DEF g
    <3> QED
      BY <1>1, <1>8, <3>1 DEF NextEvent
  <2>2. /\ e.status = "failed" => NextEvent(g).status = "failed"
        /\ e.status = "ready" => Alike(Run(g), Run(Give(e, c)))
    BY <1>8, <2>1, ArgumentsExtend
  <2> HIDE DEF g, e
  <2> QED
    BY <1>2, <2>2 DEF g, e
<1> QED
  BY <1>1, <1>5, <1>6, <1>7, <1>8

(***************************************************************************)
(* A text in pieces is read as in one piece: what has failed fails with any *)
(* text behind, and what waits goes on from where it stands.                *)
(***************************************************************************)
LEMMA RunExtends ==
  ASSUME NEW B, NEW c \in Seq(B)
  PROVE  \A p \in Parsers(B) : p.format = "hermes" /\ p.status = "ready" =>
           /\ Run(p).status = "failed" => Run(Give(p, c)).status = "failed"
           /\ Run(p).status = "waits" => Alike(Run(Give(p, c)), Run(Give(Run(p), c)))
<1> DEFINE Good(p) ==
             /\ Run(p).status = "failed" => Run(Give(p, c)).status = "failed"
             /\ Run(p).status = "waits" => Alike(Run(Give(p, c)), Run(Give(Run(p), c)))
           S == {n \in Nat : \A p \in Parsers(B) :
                   p.format = "hermes" /\ p.status = "ready" /\ Len(p.buffer) = n => Good(p)}
<1>1. ASSUME NEW n \in Nat, \A k \in Nat : k < n => k \in S PROVE n \in S
  <2>1. ASSUME NEW p \in Parsers(B), p.format = "hermes", p.status = "ready", Len(p.buffer) = n PROVE Good(p)
    <3> DEFINE e == NextEvent(p)
               g == Run(Give(p, c))
    <3>1. /\ e \in Parsers(B) /\ Shrinks(p, e) /\ Len(e.buffer) \in Nat
          /\ e.status \in {"ready", "waits", "failed"}
      BY NextEventTyped, ParserFields DEF Statuses
    <3>2. Run(p) = IF e.status = "ready" THEN Run(e) ELSE e
      BY <2>1, RunStep
    <3>3. e.format = p.format
      BY ParserFields DEF NextEvent, TextEvent, HeaderEvent, ArgumentsEvent, CloseEvent, Waits, Fails, ParserRecords
    <3>4. /\ e.status = "failed" => g.status = "failed"
          /\ e.status = "ready" => Alike(g, Run(Give(e, c)))
      BY <2>1, EventExtends
    <3>5. ASSUME e.status = "waits" PROVE Give(e, c) = Give(p, c)
      BY <2>1, <3>5, EventWaits, GiveWaits
    <3> HIDE DEF e
    <3>6. CASE e.status = "ready"
      <4>1. Len(e.buffer) < n
        BY <2>1, <3>1, <3>6 DEF Shrinks
      <4>2. Len(e.buffer) \in S
        BY <1>1, <3>1, <4>1
      <4>3. Good(e)
        <5> HIDE DEF Good
        <5> QED
          BY <2>1, <3>1, <3>3, <3>6, <4>2
      <4>4. Alike(g, Run(Give(e, c)))
        BY <3>4, <3>6
      <4>5. Run(p) = Run(e)
        BY <3>2, <3>6
      <4> DEFINE ge == Run(Give(e, c))
                 gr == Run(Give(Run(e), c))
      <4>6. /\ Run(e).status = "failed" => ge.status = "failed"
            /\ Run(e).status = "waits" => Alike(ge, gr)
        BY <4>3
      <4>7. g = ge \/ (g.status = "failed" /\ ge.status = "failed")
        BY <4>4 DEF Alike
      <4> HIDE DEF g, ge, gr
      <4>8. /\ Run(e).status = "failed" => g.status = "failed"
            /\ Run(e).status = "waits" => Alike(g, gr)
        BY <4>6, <4>7 DEF Alike
      <4> QED
        BY <4>5, <4>8 DEF g, gr
    <3>7. CASE e.status = "waits"
      <4>1. Run(p) = e
        BY <3>2, <3>7
      <4>2. Give(Run(p), c) = Give(p, c)
        BY <3>5, <3>7, <4>1
      <4> HIDE DEF g
      <4>3. Alike(g, g)
        BY DEF Alike
      <4> QED
        BY <3>7, <4>1, <4>2, <4>3 DEF g
    <3>8. CASE e.status = "failed"
      <4>1. Run(p) = e
        BY <3>2, <3>8
      <4> QED
        BY <3>4, <3>8, <4>1
    <3> QED
      BY <3>1, <3>6, <3>7, <3>8
  <2> HIDE DEF Good
  <2> QED
    BY <2>1
<1>2. Nat \subseteq S
  <2> HIDE DEF S
  <2> QED
    BY <1>1, StrongInduction
<1>3. ASSUME NEW p \in Parsers(B), p.format = "hermes", p.status = "ready" PROVE Good(p)
  <2>1. Len(p.buffer) \in S
    BY <1>2, ParserFields
  <2> HIDE DEF Good
  <2> QED
    BY <1>3, <2>1
<1> QED
  BY <1>3

\* What every event keeps, a run keeps.
LEMMA RunStays ==
  ASSUME NEW B, NEW K \in SUBSET Parsers(B),
         \A p \in K : p.status = "ready" => NextEvent(p) \in K
  PROVE  \A p \in K : p.status = "ready" => Run(p) \in K
<1> DEFINE S == {n \in Nat : \A p \in K : p.status = "ready" /\ Len(p.buffer) = n => Run(p) \in K}
<1>1. ASSUME NEW n \in Nat, \A k \in Nat : k < n => k \in S PROVE n \in S
  <2>1. ASSUME NEW p \in K, p.status = "ready", Len(p.buffer) = n PROVE Run(p) \in K
    <3> DEFINE e == NextEvent(p)
    <3>1. p \in Parsers(B)
      OBVIOUS
    <3>2. /\ e \in Parsers(B) /\ Shrinks(p, e) /\ Len(e.buffer) \in Nat /\ e \in K
      BY <2>1, <3>1, NextEventTyped, ParserFields
    <3>3. Run(p) = IF e.status = "ready" THEN Run(e) ELSE e
      BY <2>1, <3>1, RunStep
    <3> HIDE DEF e
    <3>4. CASE e.status = "ready"
      <4>1. Len(e.buffer) < n
        BY <2>1, <3>2, <3>4 DEF Shrinks
      <4>2. Len(e.buffer) \in S
        BY <1>1, <3>2, <4>1
      <4> QED
        BY <3>2, <3>3, <3>4, <4>2
    <3> QED
      BY <3>2, <3>3, <3>4
  <2> QED
    BY <2>1
<1>2. Nat \subseteq S
  <2> HIDE DEF S
  <2> QED
    BY <1>1, StrongInduction
<1>3. ASSUME NEW p \in K, p.status = "ready" PROVE Run(p) \in K
  <2>1. p \in Parsers(B)
    OBVIOUS
  <2>2. Len(p.buffer) \in S
    BY <1>2, <2>1, ParserFields
  <2> QED
    BY <1>3, <2>2
<1> QED
  BY <1>3

(***************************************************************************)
(* What the parser comes to with a text.                                    *)
(***************************************************************************)
ReadOf(text) == Push(NewParser("hermes"), text)

LEMMA NewParserTyped ==
  ASSUME NEW B, NEW format \in {"hermes", "qwen"}
  PROVE  /\ NewParser(format) \in Parsers(B) /\ NewParser(format).status = "ready"
         /\ NewParser(format).mode = "text" /\ NewParser(format).format = format
         /\ NewParser(format).buffer = << >> /\ NewParser(format).calls = << >>
<1>1. << >> \in Seq(ParsedCalls(B)) /\ << >> \in Seq(B)
  OBVIOUS
<1> QED
  BY <1>1, NewScanTyped DEF NewParser, Parsers, ParserRecords, InStep, Modes, Statuses

LEMMA PushTyped ==
  ASSUME NEW B, NEW p \in Parsers(B), NEW c \in Seq(B)
  PROVE  /\ Push(p, c) \in Parsers(B) /\ Push(p, c).status \in {"waits", "failed"}
         /\ Push(p, c).format = p.format /\ Push(p, c) = Run(Give(p, c))
         /\ Push(Waits(p), c) = Push(p, c)
<1>1. Give(p, c) \in Parsers(B) /\ Give(p, c).status = "ready" /\ Give(p, c).format = p.format
  BY GiveTyped, GiveIs
<1>2. Push(p, c) = Run(Give(p, c)) /\ Push(Waits(p), c) = Run(Give(Waits(p), c))
  BY PushIs
<1>3. Give(Waits(p), c) = Give(p, c)
  BY GiveWaits
<1> DEFINE g == Give(p, c)
<1> HIDE DEF g
<1>4. /\ Run(g) \in Parsers(B) /\ Run(g).status \in {"waits", "failed"} /\ Run(g).format = g.format
  BY <1>1, RunEnds DEF g
<1> QED
  BY <1>1, <1>2, <1>3, <1>4 DEF g

\* One text after the other is the two in one.
LEMMA PushTwice ==
  ASSUME NEW B, NEW p \in Parsers(B), p.format = "hermes", NEW a \in Seq(B), NEW c \in Seq(B)
  PROVE  /\ Push(p, a).status = "failed" => Push(p, a \o c).status = "failed"
         /\ Push(p, a).status # "failed" => Alike(Push(p, a \o c), Push(Push(p, a), c))
<1> DEFINE g == Give(p, a)
           q == Push(p, a)
<1>1. /\ g \in Parsers(B) /\ g.status = "ready" /\ g.format = "hermes" /\ g.buffer = p.buffer \o a
      /\ g.mode = p.mode /\ g.scan = p.scan /\ g.calls = p.calls
  BY GiveTyped, GiveIs
<1>2. /\ q \in Parsers(B) /\ q.status \in {"waits", "failed"} /\ q = Run(g)
  BY PushTyped
<1>3. a \o c \in Seq(B)
  OBVIOUS
<1>4. Give(g, c) = Give(p, a \o c)
  <2> DEFINE l == Give(g, c)
             r == Give(p, a \o c)
  <2>1. p.buffer \in Seq(B)
    BY ParserFields
  <2>2. (p.buffer \o a) \o c = p.buffer \o (a \o c)
    <3> DEFINE b == p.buffer
    <3>1. b \in Seq(B) /\ a \in Seq(B) /\ c \in Seq(B)
      BY <2>1
    <3> HIDE DEF b
    <3>2. (b \o a) \o c = b \o (a \o c)
      BY <3>1, Associates
    <3> QED
      BY <3>2 DEF b
  <2>3. /\ r \in Parsers(B) /\ r.mode = p.mode /\ r.format = p.format /\ r.scan = p.scan /\ r.calls = p.calls
        /\ r.buffer = p.buffer \o (a \o c) /\ r.status = "ready"
    BY <1>3, GiveTyped, GiveIs
  <2> HIDE DEF g
  <2>4. /\ l \in Parsers(B) /\ l.mode = g.mode /\ l.format = g.format /\ l.scan = g.scan /\ l.calls = g.calls
        /\ l.buffer = g.buffer \o c /\ l.status = "ready"
    BY <1>1, GiveTyped, GiveIs
  <2> HIDE DEF l, r
  <2>5. l \in ParserRecords(B) /\ r \in ParserRecords(B)
    BY <2>3, <2>4, ParserFields
  <2>6. l = r
    <3>1. SameFields(l, r)
      BY <1>1, <2>2, <2>3, <2>4 DEF SameFields
    <3> QED
      BY <2>5, <3>1, SameParser
  <2> QED
    BY <2>6 DEF l, r
<1>5. Push(p, a \o c) = Run(Give(g, c)) /\ Push(q, c) = Run(Give(q, c))
  BY <1>4, PushIs
<1> HIDE DEF g, q
<1>6. /\ Run(g).status = "failed" => Run(Give(g, c)).status = "failed"
      /\ Run(g).status = "waits" => Alike(Run(Give(g, c)), Run(Give(Run(g), c)))
  BY <1>1, RunExtends
<1> QED
  BY <1>2, <1>5, <1>6 DEF q

(***************************************************************************)
(* p has read text, or nothing yet.                                         *)
(***************************************************************************)
HasRead(B, p, text) == p \in Parsers(B) /\ p.format = "hermes" /\ p.status # "failed" /\ Waits(p) = ReadOf(text)

LEMMA HasReadFirst ==
  ASSUME NEW B
  PROVE  HasRead(B, NewParser("hermes"), << >>)
<1> DEFINE p == NewParser("hermes")
<1>1. /\ p \in Parsers(B) /\ p.status = "ready" /\ p.format = "hermes" /\ p.mode = "text" /\ p.buffer = << >>
  BY NewParserTyped
<1>2. ReadOf(<< >>) = Run(Give(p, << >>))
  BY PushIs DEF ReadOf
<1> HIDE DEF p
<1>3. Give(p, << >>) = p
  BY <1>1, GiveNothing
<1>4. NextEvent(p) = Waits(p)
  BY <1>1 DEF NextEvent, TextEvent
<1>5. Waits(p).status = "waits"
  BY <1>1, WaitsTyped
<1>6. Run(p) = Waits(p)
  BY <1>1, <1>4, <1>5, RunStep
<1> QED
  BY <1>1, <1>2, <1>3, <1>6 DEF HasRead, p

LEMMA HasReadMore ==
  ASSUME NEW B, NEW p, NEW a \in Seq(B), NEW c \in Seq(B), HasRead(B, p, a)
  PROVE  /\ Push(p, c).status # "failed" => HasRead(B, Push(p, c), a \o c) /\ Push(p, c) = ReadOf(a \o c)
         /\ Push(p, c).status = "failed" => ReadOf(a \o c).status = "failed"
<1>1. p \in Parsers(B) /\ p.format = "hermes" /\ p.status # "failed" /\ Waits(p) = ReadOf(a)
  BY DEF HasRead
<1> DEFINE q == Push(p, c)
           r == ReadOf(a)
           z == NewParser("hermes")
<1>2. /\ q \in Parsers(B) /\ q.status \in {"waits", "failed"} /\ q.format = "hermes" /\ Push(Waits(p), c) = q
  BY <1>1, PushTyped
<1>3. Waits(p).status = "waits"
  BY <1>1, WaitsTyped
<1>4. /\ z \in Parsers(B) /\ z.format = "hermes"
  BY NewParserTyped
<1> HIDE DEF z
<1>5. /\ Push(z, a).status # "failed" => Alike(Push(z, a \o c), Push(Push(z, a), c))
  BY <1>4, PushTwice
<1>6. Alike(ReadOf(a \o c), q)
  BY <1>1, <1>2, <1>3, <1>5 DEF ReadOf, z
<1>7. ASSUME q.status = "waits" PROVE Waits(q) = q
  <2> HIDE DEF q
  <2> QED
    BY <1>2, <1>7, ParserFields DEF Waits, ParserRecords
<1> HIDE DEF q
<1>8. /\ q.status # "failed" => ReadOf(a \o c) = q
      /\ q.status = "failed" => ReadOf(a \o c).status = "failed"
  BY <1>6 DEF Alike
<1> QED
  BY <1>2, <1>7, <1>8 DEF HasRead, q

\* What has failed fails with more text.
LEMMA FailsForGood ==
  ASSUME NEW B, NEW a \in Seq(B), NEW c \in Seq(B), ReadOf(a).status = "failed"
  PROVE  ReadOf(a \o c).status = "failed"
<1> DEFINE z == NewParser("hermes")
<1>4. /\ z \in Parsers(B) /\ z.format = "hermes"
  BY NewParserTyped
<1> HIDE DEF z
<1>5. Push(z, a).status = "failed" => Push(z, a \o c).status = "failed"
  BY <1>4, PushTwice
<1> QED
  BY <1>5 DEF ReadOf, z

-----------------------------------------------------------------------------
(***************************************************************************)
(* The scanner of the lenient parser, which looks at the same arguments     *)
(* once more.                                                               *)
(***************************************************************************)
Feeds == [started : BOOLEAN, depth : Nat, inString : BOOLEAN]

NotFed == [started |-> FALSE, depth |-> 0, inString |-> FALSE]

\* Where the two are with the same arguments.
Along(s, f) ==
  /\ s.phase = "initial" => s = NewScan /\ f = NotFed
  /\ s.phase = "scanning" =>
       s.objects >= 1 /\ s.arrays >= 0 /\ f.started /\ f.depth = s.objects + s.arrays /\ f.inString = s.inString
  /\ s.phase = "complete" => f.started /\ f.depth = 0 /\ ~f.inString

-----------------------------------------------------------------------------
(***************************************************************************)
(* The arguments of the calls: an object, and none that has ended before;   *)
(* those that are being read may lack their end.                            *)
(***************************************************************************)
OpenObject(arguments) ==
  \A k \in 0..Len(arguments) :
    k < Len(arguments) => Scanned(NewScan, SubSeq(arguments, 1, k)).phase # "complete"

WholeObject(arguments) == OpenObject(arguments) /\ Scanned(NewScan, arguments).phase = "complete"

LastArguments(p) == p.calls[Len(p.calls)].arguments

WholeCalls(p) ==
  \A i \in 1..Len(p.calls) :
    i < Len(p.calls) \/ p.mode # "arguments" => WholeObject(p.calls[i].arguments)

Accounted(B) ==
  {p \in Parsers(B) :
     /\ p.mode = "arguments" => p.scan.phase # "failed" /\ OpenObject(LastArguments(p))
     /\ WholeCalls(p)}

\* More of the arguments: the object is not over before they are.
LEMMA OpenMore ==
  ASSUME NEW B, NEW a \in Seq(B), OpenObject(a), Scanned(NewScan, a).phase # "complete",
         NEW text \in Seq(B)
  PROVE  OpenObject(a \o SubSeq(text, 1, Taken(Scanned(NewScan, a), text)))
<1> DEFINE s == Scanned(NewScan, a)
           n == Taken(s, text)
           c == SubSeq(text, 1, n)
           ac == a \o c
<1>1. /\ n \in 0..Len(text)
      /\ \A k \in 1..Len(text) : k < n => Scanned(s, SubSeq(text, 1, k)).phase # "complete"
  BY TakenIs
<1>2. s \in Scans /\ NewScan \in Scans
  BY NewScanTyped, ScannedTyped
<1>3. c \in Seq(B) /\ Len(c) = n /\ Len(text) \in Nat
  <2> HIDE DEF n
  <2> QED
    BY <1>1, Beginning
<1> HIDE DEF s
<1>4. \A k \in 1..n : k < n => Scanned(s, SubSeq(c, 1, k)).phase # "complete"
  <2>1. ASSUME NEW k \in 1..n PROVE SubSeq(c, 1, k) = SubSeq(text, 1, k) /\ k \in 1..Len(text)
    <3> HIDE DEF n
    <3>1. k \in 0..Len(c) /\ k \in 0..Len(text) /\ k \in 1..Len(text)
      BY <1>1, <1>3
    <3>2. text = c \o From(text, n + 1) /\ From(text, n + 1) \in Seq(B)
      BY <1>1, Beginning
    <3> HIDE DEF c
    <3>3. SubSeq(c \o From(text, n + 1), 1, k) = SubSeq(c, 1, k)
      BY <1>3, <3>1, <3>2, JoinedBeginning
    <3> QED
      BY <3>1, <3>2, <3>3
  <2> QED
    BY <1>1, <2>1
<1> HIDE DEF n, c
<1>5. /\ ac \in Seq(B) /\ Len(ac) = Len(a) + Len(c) /\ Len(a) \in Nat
      /\ \A k \in 0..Len(a) : SubSeq(ac, 1, k) = SubSeq(a, 1, k)
      /\ \A k \in 0..Len(c) : SubSeq(ac, 1, Len(a) + k) = a \o SubSeq(c, 1, k)
  <2>1. c \in Seq(B)
    BY <1>3
  <2>2. ac \in Seq(B) /\ Len(ac) = Len(a) + Len(c) /\ Len(a) \in Nat
    BY <2>1, TextJoined
  <2>3. /\ \A k \in 0..Len(a) : SubSeq(a \o c, 1, k) = SubSeq(a, 1, k)
        /\ \A k \in 0..Len(c) : SubSeq(a \o c, 1, Len(a) + k) = a \o SubSeq(c, 1, k)
    BY <2>1, JoinedBeginning
  <2> QED
    BY <2>2, <2>3
<1> HIDE DEF ac
<1>6. ASSUME NEW k \in 0..Len(ac), k < Len(ac) PROVE Scanned(NewScan, SubSeq(ac, 1, k)).phase # "complete"
  <2>1. CASE k < Len(a)
    <3>1. k \in 0..Len(a)
      BY <1>5, <2>1
    <3>2. SubSeq(ac, 1, k) = SubSeq(a, 1, k)
      BY <1>5, <3>1
    <3> QED
      BY <2>1, <3>1, <3>2 DEF OpenObject
  <2>2. CASE k >= Len(a)
    <3> DEFINE m == k - Len(a)
    <3>1. m \in 0..Len(c) /\ m < Len(c) /\ k = Len(a) + m
      BY <1>3, <1>5, <1>6, <2>2
    <3> HIDE DEF m
    <3>2. SubSeq(ac, 1, k) = a \o SubSeq(c, 1, m)
      BY <1>5, <3>1
    <3>3. SubSeq(c, 1, m) \in Seq(B)
      BY <1>3, <3>1, Beginning
    <3>4. Scanned(NewScan, a \o SubSeq(c, 1, m)) = Scanned(s, SubSeq(c, 1, m))
      BY <1>2, <3>3, ScannedJoined DEF s
    <3>5. CASE m = 0
      <4>1. SubSeq(c, 1, m) = << >>
        BY <3>5
      <4>2. Scanned(s, << >>) = s
        BY <1>2, ScannedEmpty
      <4> QED
        BY <3>2, <3>4, <4>1, <4>2 DEF s
    <3>6. CASE m # 0
      <4>1. m \in 1..n /\ m < n
        BY <1>1, <1>3, <3>1, <3>6
      <4> QED
        BY <1>4, <3>2, <3>4, <4>1
    <3> QED
      BY <3>5, <3>6
  <2> QED
    BY <1>5, <2>1, <2>2
<1> QED
  BY <1>6 DEF OpenObject, ac, c, n, s

LEMMA AccountedFields ==
  ASSUME NEW B, NEW p \in Accounted(B)
  PROVE  /\ p \in Parsers(B) /\ WholeCalls(p)
         /\ p.mode = "arguments" => p.scan.phase # "failed" /\ OpenObject(LastArguments(p))
BY DEF Accounted

\* A parser with the same calls, which is not in their arguments or as it was.
LEMMA SameCalls ==
  ASSUME NEW B, NEW p \in Accounted(B), NEW q \in Parsers(B), q.calls = p.calls,
         \/ q.mode = p.mode /\ q.scan = p.scan
         \/ q.mode # "arguments" /\ (p.mode # "arguments" \/ p.scan.phase = "complete")
  PROVE  q \in Accounted(B)
<1>1. /\ p \in Parsers(B) /\ WholeCalls(p)
      /\ p.mode = "arguments" => p.scan.phase # "failed" /\ OpenObject(LastArguments(p))
  BY AccountedFields
<1>2. p.calls \in Seq(ParsedCalls(B)) /\ InStep(p)
  BY <1>1, ParserFields
<1>3. LastArguments(q) = LastArguments(p)
  BY DEF LastArguments
<1>4. CASE q.mode = p.mode /\ q.scan = p.scan
  BY <1>1, <1>3, <1>4 DEF Accounted, WholeCalls
<1>5. CASE q.mode # "arguments" /\ (p.mode # "arguments" \/ p.scan.phase = "complete")
  <2>1. ASSUME NEW i \in 1..Len(q.calls) PROVE WholeObject(q.calls[i].arguments)
    <3>1. i \in 1..Len(p.calls)
      OBVIOUS
    <3>2. CASE i < Len(p.calls) \/ p.mode # "arguments"
      BY <1>1, <3>1, <3>2 DEF WholeCalls
    <3>3. CASE i = Len(p.calls) /\ p.mode = "arguments"
      <4>1. p.scan = Scanned(NewScan, p.calls[i].arguments) /\ p.scan.phase = "complete"
        BY <1>2, <1>5, <3>3 DEF InStep
      <4>2. OpenObject(p.calls[i].arguments)
        BY <1>1, <3>3 DEF LastArguments
      <4> QED
        BY <4>1, <4>2 DEF WholeObject
    <3> QED
      BY <1>2, <3>1, <3>2, <3>3
  <2>2. WholeCalls(q)
    BY <2>1 DEF WholeCalls
  <2> QED
    BY <1>5, <2>2 DEF Accounted
<1> QED
  BY <1>4, <1>5

\* What the events of the modes leave alone.
LEMMA TextEventKeeps ==
  ASSUME NEW B, NEW p \in Parsers(B), p.mode = "text"
  PROVE  TextEvent(p).calls = p.calls /\ TextEvent(p).mode \in {"text", "header"}
<1>1. p \in ParserRecords(B)
  BY ParserFields
<1> QED
  BY <1>1 DEF TextEvent, Waits, ParserRecords

LEMMA CloseEventKeeps ==
  ASSUME NEW B, NEW p \in Parsers(B)
  PROVE  /\ CloseEvent(p).calls = p.calls
         /\ \/ CloseEvent(p).mode = p.mode /\ CloseEvent(p).scan = p.scan
            \/ CloseEvent(p).mode = "text"
<1>1. p \in ParserRecords(B)
  BY ParserFields
<1> QED
  BY <1>1 DEF CloseEvent, Waits, Fails, ParserRecords

LEMMA HeaderEventKeeps ==
  ASSUME NEW B, NEW p \in Parsers(B)
  PROVE  \/ /\ HeaderEvent(p).calls = p.calls /\ HeaderEvent(p).mode = p.mode
            /\ HeaderEvent(p).scan = p.scan
         \/ /\ HeaderEvent(p).mode = "arguments" /\ HeaderEvent(p).scan = NewScan
            /\ \E name : HeaderEvent(p).calls = Append(p.calls, [name |-> name, arguments |-> << >>])
<1>1. p \in ParserRecords(B)
  BY ParserFields
<1> QED
  BY <1>1 DEF HeaderEvent, Waits, Fails, ParserRecords

LEMMA EventAccounted ==
  ASSUME NEW B, NEW p \in Accounted(B), p.status = "ready"
  PROVE  NextEvent(p) \in Accounted(B)
<1> DEFINE e == NextEvent(p)
<1>1. /\ p \in Parsers(B) /\ WholeCalls(p)
      /\ p.mode = "arguments" => p.scan.phase # "failed" /\ OpenObject(LastArguments(p))
  BY AccountedFields
<1>2. /\ e \in Parsers(B) /\ p.mode \in {"text", "header", "arguments"} /\ p.calls \in Seq(ParsedCalls(B))
      /\ e.calls \in Seq(ParsedCalls(B)) /\ p \in ParserRecords(B) /\ p.scan \in Scans /\ p.buffer \in Seq(B)
      /\ InStep(p)
  BY <1>1, NextEventTyped, ParserFields DEF Modes
<1>3. CASE p.mode = "text"
  <2>1. e = TextEvent(p)
    BY <1>3 DEF NextEvent
  <2>2. e.calls = p.calls /\ e.mode # "arguments"
    BY <1>1, <1>3, <2>1, TextEventKeeps
  <2> HIDE DEF e
  <2> QED
    BY <1>2, <1>3, <2>2, SameCalls DEF e
<1>4. CASE p.mode = "arguments" /\ p.scan.phase = "complete"
  <2>1. e = CloseEvent(p)
    BY <1>4 DEF NextEvent
  <2>2. e.calls = p.calls /\ ((e.mode = p.mode /\ e.scan = p.scan) \/ e.mode # "arguments")
    BY <1>1, <2>1, CloseEventKeeps
  <2> HIDE DEF e
  <2> QED
    BY <1>2, <1>4, <2>2, SameCalls DEF e
<1>5. CASE p.mode = "header"
  <2>1. e = HeaderEvent(p)
    BY <1>5 DEF NextEvent
  <2>2. \/ e.calls = p.calls /\ e.mode = p.mode /\ e.scan = p.scan
        \/ /\ e.mode = "arguments" /\ e.scan = NewScan
           /\ \E name : e.calls = Append(p.calls, [name |-> name, arguments |-> << >>])
    BY <1>1, <2>1, HeaderEventKeeps
  <2> HIDE DEF e
  <2>3. CASE e.calls = p.calls /\ e.mode = p.mode /\ e.scan = p.scan
    BY <1>2, <2>3, SameCalls DEF e
  <2>4. ASSUME e.mode = "arguments", e.scan = NewScan,
               NEW name, e.calls = Append(p.calls, [name |-> name, arguments |-> << >>])
        PROVE  e \in Accounted(B)
    <3>1. /\ Len(e.calls) = Len(p.calls) + 1 /\ Len(p.calls) \in Nat
          /\ e.calls[Len(p.calls) + 1] = [name |-> name, arguments |-> << >>]
          /\ \A i \in 1..Len(p.calls) : e.calls[i] = p.calls[i]
      BY <1>2, <2>4
    <3>2. LastArguments(e) = << >>
      BY <3>1 DEF LastArguments
    <3>3. OpenObject(<< >>)
      BY DEF OpenObject
    <3>4. ASSUME NEW i \in 1..Len(e.calls), i < Len(e.calls) PROVE WholeObject(e.calls[i].arguments)
      <4>1. i \in 1..Len(p.calls)
        BY <3>1, <3>4
      <4> QED
        BY <1>1, <1>5, <3>1, <4>1 DEF WholeCalls
    <3>5. WholeCalls(e)
      BY <2>4, <3>4 DEF WholeCalls
    <3>6. e.scan.phase # "failed"
      BY <2>4 DEF NewScan
    <3> QED
      BY <1>2, <3>2, <3>3, <3>5, <3>6 DEF Accounted, e
  <2> QED
    BY <2>2, <2>3, <2>4 DEF e
<1>6. CASE p.mode = "arguments" /\ p.scan.phase # "complete"
  <2> DEFINE n == Taken(p.scan, p.buffer)
             part == SubSeq(p.buffer, 1, n)
             t == Scanned(p.scan, part)
             last == Len(p.calls)
             a == p.calls[last].arguments
  <2>1. e = ArgumentsEvent(p)
    BY <1>6 DEF NextEvent
  <2>2. CASE p.buffer = << >>
    <3>1. e = Waits(p)
      BY <2>1, <2>2 DEF ArgumentsEvent
    <3>2. e.calls = p.calls /\ e.mode = p.mode /\ e.scan = p.scan
      <4> HIDE DEF e
      <4> QED
        BY <1>2, <3>1 DEF Waits, ParserRecords
    <3> HIDE DEF e
    <3> QED
      BY <1>2, <3>2, SameCalls DEF e
  <2>3. CASE p.buffer # << >> /\ t.phase = "failed"
    <3>1. e = Took(p, n)
      BY <2>1, <2>3, ArgumentsEventIs
    <3>2. e = Fails(p)
      <4> HIDE DEF e
      <4> QED
        BY <2>3, <3>1 DEF Took
    <3>3. e.calls = p.calls /\ e.mode = p.mode /\ e.scan = p.scan
      <4> HIDE DEF e
      <4> QED
        BY <1>2, <3>2 DEF Fails, ParserRecords
    <3> HIDE DEF e
    <3> QED
      BY <1>2, <3>3, SameCalls DEF e
  <2>4. CASE p.buffer # << >> /\ t.phase # "failed"
    <3>1. e = Took(p, n)
      BY <2>1, <2>4, ArgumentsEventIs
    <3>2. e = [p EXCEPT !.scan = t, !.buffer = From(p.buffer, n + 1), !.calls[last].arguments = @ \o part]
      <4> HIDE DEF e
      <4> QED
        BY <2>4, <3>1 DEF Took
    <3>3. /\ p.calls # << >> /\ p.scan = Scanned(NewScan, a)
      BY <1>2, <1>6 DEF InStep
    <3>4. last \in 1..last /\ a \in Seq(B)
      <4>1. last \in 1..last /\ p.calls[last] \in ParsedCalls(B)
        BY <1>2, <3>3
      <4> QED
        BY <4>1 DEF ParsedCalls
    <3>5. OpenObject(a \o part)
      <4>1. OpenObject(a)
        BY <1>1, <1>6 DEF LastArguments
      <4> HIDE DEF a
      <4> QED
        BY <1>2, <1>6, <3>3, <3>4, <4>1, OpenMore
    <3> HIDE DEF t, n, part, e, last
    <3>6. /\ e.scan = t /\ e.mode = p.mode
          /\ e.calls = [p.calls EXCEPT ![last].arguments = @ \o part]
      BY <1>2, <3>2 DEF ParserRecords
    <3>7. /\ Len(e.calls) = last /\ e.calls[last].arguments = a \o part
          /\ \A i \in 1..last : i # last => e.calls[i] = p.calls[i]
      <4> DEFINE longer == [p.calls[last] EXCEPT !.arguments = @ \o part]
      <4>1. e.calls = [p.calls EXCEPT ![last] = longer]
        BY <3>6
      <4>2. longer.arguments = a \o part
        <5>1. p.calls[last] \in ParsedCalls(B)
          BY <1>2, <3>4 DEF last
        <5> QED
          BY <5>1 DEF ParsedCalls
      <4> HIDE DEF longer, a
      <4>3. Len(e.calls) = last /\ e.calls[last] = longer /\ \A i \in 1..last : i # last => e.calls[i] = p.calls[i]
        BY <1>2, <3>4, <4>1 DEF last
      <4> QED
        BY <4>2, <4>3
    <3>8. WholeCalls(e)
      <4>1. \A i \in 1..last : i < last => WholeObject(p.calls[i].arguments)
        BY <1>1 DEF WholeCalls, last
      <4>2. e.mode = "arguments"
        BY <1>6, <3>6
      <4>3. \A i \in 1..last : i < last => i # last
        OBVIOUS
      <4>4. \A i \in 1..last : i < last => WholeObject(e.calls[i].arguments)
        BY <3>7, <4>1, <4>3
      <4> QED
        BY <3>7, <4>2, <4>4 DEF WholeCalls
    <3>9. LastArguments(e) = a \o part
      BY <3>7 DEF LastArguments
    <3>10. e.scan.phase # "failed"
      BY <2>4, <3>6
    <3> HIDE DEF a
    <3> QED
      BY <1>2, <3>5, <3>8, <3>9, <3>10 DEF Accounted, e
  <2> QED
    BY <2>2, <2>3, <2>4
<1> QED
  BY <1>2, <1>3, <1>4, <1>5, <1>6

LEMMA ReadAccounted ==
  ASSUME NEW B, NEW format \in {"hermes", "qwen"}, NEW text \in Seq(B)
  PROVE  Push(NewParser(format), text) \in Accounted(B)
<1> DEFINE z == NewParser(format)
           g == Give(z, text)
<1>1. /\ z \in Parsers(B) /\ z.mode = "text" /\ z.calls = << >>
  BY NewParserTyped
<1> HIDE DEF z
<1>2. g \in Parsers(B) /\ g.mode = "text" /\ g.calls = << >> /\ g.status = "ready"
  BY <1>1, GiveTyped, GiveIs
<1>3. Push(z, text) = Run(g)
  BY PushIs
<1> HIDE DEF g
<1>4. g \in Accounted(B)
  BY <1>2 DEF Accounted, WholeCalls
<1>5. Accounted(B) \in SUBSET Parsers(B) /\ \A p \in Accounted(B) : p.status = "ready" => NextEvent(p) \in Accounted(B)
  BY EventAccounted DEF Accounted
<1>6. Run(g) \in Accounted(B)
  BY <1>2, <1>4, <1>5, RunStays
<1> QED
  BY <1>3, <1>6 DEF z

-----------------------------------------------------------------------------
(***************************************************************************)
(* Where a run can stop to wait for more.                                   *)
(***************************************************************************)
Rests(p) == p.status = "waits" /\ NextEvent(Give(p, << >>)).status = "waits"

LEMMA PushRests ==
  ASSUME NEW B, NEW p \in Parsers(B), NEW c \in Seq(B), Push(p, c).status # "failed"
  PROVE  Rests(Push(p, c))
<1> DEFINE K == {q \in Parsers(B) : q.status = "waits" => NextEvent(Give(q, << >>)).status = "waits"}
           g == Give(p, c)
<1>1. ASSUME NEW q \in K, q.status = "ready" PROVE NextEvent(q) \in K
  <2> DEFINE e == NextEvent(q)
  <2>1. q \in Parsers(B)
    OBVIOUS
  <2>2. e \in Parsers(B)
    BY <2>1, NextEventTyped
  <2>3. ASSUME e.status = "waits" PROVE NextEvent(Give(e, << >>)).status = "waits"
    <3>1. e = Waits(q)
      BY <1>1, <2>1, <2>3, EventWaits
    <3>2. << >> \in Seq(B)
      OBVIOUS
    <3>3. Give(Waits(q), << >>) = Give(q, << >>)
      BY <2>1, <3>2, GiveWaits
    <3>4. Give(q, << >>) = q
      BY <1>1, <2>1, GiveNothing
    <3>5. Give(e, << >>) = q
      <4> HIDE DEF e
      <4> QED
        BY <3>1, <3>3, <3>4
    <3> QED
      BY <2>3, <3>5
  <2> QED
    BY <2>2, <2>3
<1>2. g \in Parsers(B) /\ g.status = "ready" /\ Push(p, c) = Run(g) /\ Push(p, c).status \in {"waits", "failed"}
  BY GiveTyped, GiveIs, PushTyped
<1>3. g \in K
  BY <1>2
<1>4. K \in SUBSET Parsers(B)
  OBVIOUS
<1>5. Run(g) \in K
  <2> HIDE DEF K, g
  <2> QED
    BY <1>1, <1>2, <1>3, <1>4, RunStays
<1> HIDE DEF g
<1> QED
  BY <1>2, <1>5 DEF Rests

\* All of text is white space.
Blank(text) == Blanks(text) = Len(text)

LEMMA BlankThen ==
  ASSUME NEW B, NEW a \in Seq(B), Blank(a), NEW c \in Seq(B), c # << >>, c[1] # "nl"
  PROVE  /\ Blanks(a \o c) = Len(a) /\ From(a \o c, Len(a) + 1) = c
         /\ Len(a) < Len(a \o c) /\ Len(a) + 1 <= Len(a \o c) /\ (a \o c)[Len(a) + 1] = c[1]
<1> DEFINE ac == a \o c
<1>1. /\ ac \in Seq(B) /\ Len(ac) = Len(a) + Len(c) /\ Len(a) \in Nat
      /\ \A i \in 1..Len(a) : ac[i] = a[i]
      /\ \A i \in 1..Len(c) : ac[Len(a) + i] = c[i]
  BY TextJoined
<1>2. 1 \in 1..Len(c) /\ Len(c) \in Nat
  OBVIOUS
<1>3. \A i \in 1..Len(a) : a[i] = "nl"
  BY BlanksAre DEF Blank
<1> HIDE DEF ac
<1>4. /\ Len(a) \in 0..Len(ac) /\ \A i \in 1..Len(a) : ac[i] = "nl"
      /\ ac[Len(a) + 1] = c[1] /\ Len(a) < Len(ac) /\ Len(a) + 1 <= Len(ac)
  BY <1>1, <1>2, <1>3
<1>5. Blanks(ac) = Len(a)
  BY <1>1, <1>4, BlanksAt
<1>6. From(a \o c, Len(a) + 1) = From(c, 1)
  BY <1>2, FromSecond
<1>7. From(c, 1) = c
  BY WholeBeginning
<1> QED
  BY <1>4, <1>5, <1>6, <1>7 DEF ac

\* What there is of the end of a call: its brace, white space and a marker that breaks off.
CutOff(b) ==
  /\ b # << >> /\ b[1] = "}"
  /\ From(From(b, 2), Blanks(From(b, 2)) + 1) = <<"cut">>

LEMMA RestsIs ==
  ASSUME NEW B, NEW p \in Parsers(B), p.format = "hermes", Rests(p)
  PROVE  /\ p.mode = "text" =>
              \/ p.buffer = << >>
              \/ p.buffer # << >> /\ First(p.buffer, "open") = 1 /\ Blank(From(p.buffer, 2))
         /\ p.mode = "header" =>
              \/ Blank(p.buffer)
              \/ /\ Blanks(p.buffer) < Len(p.buffer)
                 /\ p.buffer[Blanks(p.buffer) + 1] \in DOMAIN Header \cup {"half"}
                 /\ Blank(From(p.buffer, Blanks(p.buffer) + 2))
         /\ p.mode = "arguments" /\ p.scan.phase # "complete" => p.buffer = << >>
         /\ p.mode = "arguments" /\ p.scan.phase = "complete" =>
              \/ p.buffer = << >>
              \/ p.buffer # << >> /\ p.buffer[1] = "}" /\ Blank(From(p.buffer, 2))
              \/ CutOff(p.buffer)
<1> DEFINE g == Give(p, << >>)
           b == p.buffer
<1>1. << >> \in Seq(B) /\ b \in Seq(B)
  BY ParserFields
<1>2. /\ g.mode = p.mode /\ g.format = "hermes" /\ g.scan = p.scan /\ g.buffer = p.buffer \o << >>
      /\ g.status = "ready"
  BY <1>1, GiveIs
<1>3. g \in Parsers(B)
  BY <1>1, GiveTyped
<1>4. g.buffer = b
  BY <1>1, <1>2
<1>5. NextEvent(g).status = "waits"
  BY DEF Rests
<1> HIDE DEF g
<1>6. /\ Fails(g).status = "failed" /\ g \in ParserRecords(B)
  BY <1>3, WaitsTyped, ParserFields
<1>7. ASSUME p.mode = "text", b # << >>
      PROVE  First(b, "open") = 1 /\ Blank(From(b, 2))
  <2>1. NextEvent(g) = TextEvent(g)
    BY <1>2, <1>7 DEF NextEvent
  <2>2. First(b, "open") \in 0..Len(b)
    BY <1>1, FirstIs
  <2>3. ASSUME First(b, "open") = 0 PROVE FALSE
    <3>1. TextEvent(g) = [g EXCEPT !.buffer = << >>]
      BY <1>4, <1>7, <2>3, TextWithoutMarker
    <3>2. TextEvent(g).status = "ready"
      BY <1>2, <1>6, <3>1 DEF ParserRecords
    <3> QED
      BY <1>5, <2>1, <3>2
  <2>4. ASSUME First(b, "open") > 1 PROVE FALSE
    <3> DEFINE n == First(b, "open")
    <3>1. n \in Nat /\ n > 1
      BY <2>2, <2>4
    <3> HIDE DEF n, b
    <3>2. TextEvent(g) = [g EXCEPT !.buffer = From(g.buffer, n)]
      BY <1>4, <1>7, <3>1, TextBeforeMarker DEF n
    <3>3. TextEvent(g).status = "ready"
      BY <1>2, <1>6, <3>2 DEF ParserRecords
    <3> QED
      BY <1>5, <2>1, <3>3
  <2>5. First(b, "open") = 1
    BY <1>1, <2>2, <2>3, <2>4
  <2>6. TextEvent(g) = IF Blanks(From(b, 2)) = Len(From(b, 2)) THEN Waits(g)
                       ELSE [g EXCEPT !.mode = "header", !.buffer = From(From(b, 2), Blanks(From(b, 2)) + 1)]
    <3> DEFINE rest == From(b, 2)
    <3>1. rest = From(g.buffer, 2) /\ g.buffer # << >> /\ First(g.buffer, "open") = 1
      BY <1>4, <1>7, <2>5
    <3> HIDE DEF rest, b
    <3>2. \A r : r = From(g.buffer, 2) =>
            TextEvent(g) = IF Blanks(r) = Len(r) THEN Waits(g)
                           ELSE [g EXCEPT !.mode = "header", !.buffer = From(r, Blanks(r) + 1)]
      BY <1>2, <3>1, TextAtMarker
    <3> QED
      BY <3>1, <3>2 DEF rest
  <2>7. ASSUME ~Blank(From(b, 2)) PROVE FALSE
    <3> DEFINE text == From(From(b, 2), Blanks(From(b, 2)) + 1)
    <3>1. TextEvent(g) = [g EXCEPT !.mode = "header", !.buffer = text]
      BY <2>6, <2>7 DEF Blank
    <3> HIDE DEF text
    <3>2. TextEvent(g).status = "ready"
      BY <1>2, <1>6, <3>1 DEF ParserRecords
    <3> QED
      BY <1>5, <2>1, <3>2
  <2> QED
    BY <2>5, <2>7
<1>8. ASSUME p.mode = "header", ~Blank(b)
      PROVE  /\ Blanks(b) < Len(b)
             /\ b[Blanks(b) + 1] \in DOMAIN Header \cup {"half"}
             /\ Blank(From(b, Blanks(b) + 2))
  <2> DEFINE n == Blanks(b)
             rest == From(b, n + 2)
             text == From(rest, Blanks(rest) + 1)
             calls == Append(g.calls, [name |-> Header[b[n + 1]], arguments |-> << >>])
  <2>1. NextEvent(g) = HeaderEvent(g)
    BY <1>2, <1>8 DEF NextEvent
  <2>2. n \in 0..Len(b) /\ n # Len(b) /\ Len(b) \in Nat
    BY <1>1, <1>8, BlanksAre DEF Blank
  <2>3. n < Len(b) /\ ~(n + 1 > Len(b)) /\ (n + 1) + 1 = n + 2
    <3> HIDE DEF n, b
    <3> QED
      BY <2>2
  <2>4. HeaderEvent(g) =
          IF b[n + 1] \notin DOMAIN Header \cup {"half"} THEN Fails(g)
          ELSE IF Blanks(rest) = Len(rest) THEN Waits(g)
          ELSE IF b[n + 1] = "half" THEN Fails(g)
          ELSE [g EXCEPT !.mode = "arguments", !.scan = NewScan, !.buffer = text, !.calls = calls]
    <3> HIDE DEF b
    <3> QED
      BY <1>4, <2>3 DEF HeaderEvent
  <2> HIDE DEF n, rest, text, calls
  <2>5. [g EXCEPT !.mode = "arguments", !.scan = NewScan, !.buffer = text, !.calls = calls].status = "ready"
    BY <1>2, <1>6 DEF ParserRecords
  <2>6. b[n + 1] \in DOMAIN Header \cup {"half"} /\ Blanks(rest) = Len(rest)
    BY <1>5, <1>6, <2>1, <2>4, <2>5
  <2> QED
    BY <2>3, <2>6 DEF n, rest, Blank
<1>9. ASSUME p.mode = "arguments", p.scan.phase # "complete", b # << >> PROVE FALSE
  <2>1. NextEvent(g) = ArgumentsEvent(g)
    BY <1>2, <1>9 DEF NextEvent
  <2> DEFINE n == Taken(g.scan, g.buffer)
             t == Scanned(g.scan, SubSeq(g.buffer, 1, n))
             text == From(g.buffer, n + 1)
             calls == [g.calls EXCEPT ![Len(g.calls)].arguments = @ \o SubSeq(g.buffer, 1, n)]
  <2>2. ArgumentsEvent(g) = Took(g, n)
    BY <1>4, <1>9, ArgumentsEventIs
  <2>3. Took(g, n) = IF t.phase = "failed" THEN Fails(g)
                     ELSE [g EXCEPT !.scan = t, !.buffer = text, !.calls = calls]
    BY DEF Took
  <2> HIDE DEF n, t, text, calls
  <2>4. [g EXCEPT !.scan = t, !.buffer = text, !.calls = calls].status = "ready"
    BY <1>2, <1>6 DEF ParserRecords
  <2> QED
    BY <1>5, <1>6, <2>1, <2>2, <2>3, <2>4
<1>10. ASSUME p.mode = "arguments", p.scan.phase = "complete", b # << >>
       PROVE  (b[1] = "}" /\ Blank(From(b, 2))) \/ CutOff(b)
  <2> DEFINE rest == From(b, 2)
             end == From(rest, Blanks(rest) + 1)
             text == From(end, 2)
  <2>1. NextEvent(g) = CloseEvent(g)
    BY <1>2, <1>10 DEF NextEvent
  <2>2. CloseEvent(g) =
          IF b[1] # "}" THEN Fails(g)
          ELSE IF Blanks(rest) = Len(rest) \/ end \in {<< >>, <<"cut">>} THEN Waits(g)
          ELSE IF end[1] # "close" THEN Fails(g)
          ELSE [g EXCEPT !.mode = "text", !.buffer = text]
    <3>1. Spaces(g, rest) = Blanks(rest) /\ ~SpaceMissing(g, rest) /\ (SpaceOpen(g, rest) <=> Blanks(rest) = Len(rest))
      BY <1>2 DEF Spaces, SpaceMissing, SpaceOpen
    <3> HIDE DEF b
    <3> QED
      BY <1>4, <1>10, <3>1 DEF CloseEvent
  <2>3. /\ rest \in Seq(B)
        /\ end = << >> => Blanks(rest) = Len(rest)
    <3>1. 2 \in 1..(Len(b) + 1)
      BY <1>1, <1>10
    <3>2. rest \in Seq(B)
      <4> HIDE DEF b
      <4> QED
        BY <1>1, <3>1, FromText
    <3> HIDE DEF rest
    <3>3. Blanks(rest) \in 0..Len(rest) /\ Len(rest) \in Nat
      BY <3>2, BlanksAre
    <3>4. Blanks(rest) + 1 \in 1..(Len(rest) + 1)
      BY <3>3
    <3>5. Len(end) = Len(rest) + 1 - (Blanks(rest) + 1)
      BY <3>2, <3>4, FromText
    <3> QED
      BY <3>2, <3>3, <3>5
  <2> HIDE DEF rest, end, text
  <2>4. [g EXCEPT !.mode = "text", !.buffer = text].status = "ready"
    BY <1>2, <1>6 DEF ParserRecords
  <2>5. b[1] = "}" /\ (Blanks(rest) = Len(rest) \/ end \in {<< >>, <<"cut">>})
    BY <1>5, <1>6, <2>1, <2>2, <2>4
  <2>6. CASE Blanks(rest) = Len(rest)
    BY <2>5, <2>6 DEF Blank, rest
  <2>7. CASE Blanks(rest) # Len(rest)
    <3>1. end = <<"cut">>
      BY <2>3, <2>5, <2>7
    <3> QED
      BY <1>10, <2>5, <3>1 DEF CutOff, end, rest
  <2> QED
    BY <2>6, <2>7
<1> QED
  BY <1>7, <1>8, <1>9, <1>10

-----------------------------------------------------------------------------
(***************************************************************************)
(* One token more.                                                          *)
(***************************************************************************)
LEMMA GiveToken ==
  ASSUME NEW B, NEW p \in Parsers(B), NEW t \in B
  PROVE  /\ Give(p, <<t>>) \in Parsers(B) /\ Give(p, <<t>>) \in ParserRecords(B)
         /\ Give(p, <<t>>).mode = p.mode /\ Give(p, <<t>>).format = p.format
         /\ Give(p, <<t>>).calls = p.calls /\ Give(p, <<t>>).scan = p.scan
         /\ Give(p, <<t>>).buffer = p.buffer \o <<t>> /\ Give(p, <<t>>).status = "ready"
         /\ Push(p, <<t>>) = LET e == NextEvent(Give(p, <<t>>)) IN IF e.status = "ready" THEN Run(e) ELSE e
<1> DEFINE g == Give(p, <<t>>)
<1>1. <<t>> \in Seq(B)
  OBVIOUS
<1>2. /\ g.mode = p.mode /\ g.format = p.format /\ g.calls = p.calls /\ g.scan = p.scan
      /\ g.buffer = p.buffer \o <<t>> /\ g.status = "ready"
  BY <1>1, GiveIs
<1>3. g \in Parsers(B)
  BY <1>1, GiveTyped
<1>4. Push(p, <<t>>) = Run(g)
  BY PushIs
<1> HIDE DEF g
<1>5. g \in ParserRecords(B)
  BY <1>3, ParserFields
<1>6. Run(g) = IF NextEvent(g).status = "ready" THEN Run(NextEvent(g)) ELSE NextEvent(g)
  BY <1>2, <1>3, RunStep
<1> QED
  BY <1>2, <1>3, <1>4, <1>5, <1>6 DEF g

\* With nothing left the parser waits.
LEMMA RunEmpty ==
  ASSUME NEW B, NEW p \in Parsers(B), p.status = "ready", p.buffer = << >>,
         p.mode \in {"text", "arguments"}
  PROVE  /\ Run(p).mode = p.mode /\ Run(p).scan = p.scan /\ Run(p).calls = p.calls
         /\ Run(p).buffer = << >> /\ Run(p).status = "waits"
<1>1. NextEvent(p) = Waits(p)
  BY DEF NextEvent, TextEvent, CloseEvent, ArgumentsEvent
<1>2. Waits(p).status = "waits" /\ p \in ParserRecords(B)
  BY WaitsTyped, ParserFields
<1>3. Run(p) = Waits(p)
  BY <1>1, <1>2, RunStep
<1> QED
  BY <1>2, <1>3 DEF Waits, ParserRecords

\* The marker of an end in a text: it is text too, or, behind that of a beginning, refused.
LEMMA CloseInText ==
  ASSUME NEW B, "close" \in B, NEW p \in Parsers(B), p.format = "hermes", Rests(p), p.mode = "text",
         Push(p, <<"close">>).status # "failed"
  PROVE  Push(p, <<"close">>).calls = p.calls
<1> DEFINE b == p.buffer
           g == Give(p, <<"close">>)
           e == NextEvent(g)
<1>1. /\ g \in Parsers(B) /\ g \in ParserRecords(B) /\ g.mode = "text" /\ g.format = "hermes"
      /\ g.calls = p.calls /\ g.buffer = b \o <<"close">> /\ g.status = "ready"
      /\ Push(p, <<"close">>) = IF e.status = "ready" THEN Run(e) ELSE e
  BY GiveToken
<1>2. b \in Seq(B) /\ <<"close">> \in Seq(B)
  BY ParserFields
<1>3. e = TextEvent(g)
  BY <1>1 DEF NextEvent
<1>4. b = << >> \/ (b # << >> /\ First(b, "open") = 1 /\ Blank(From(b, 2)))
  BY RestsIs
<1> HIDE DEF g
<1>5. CASE b = << >>
  <2>1. g.buffer = <<"close">>
    BY <1>1, <1>5
  <2>2. First(<<"close">>, "open") = 0
    <3> DEFINE c == <<"close">>
    <3>1. c \in Seq(B) /\ \A i \in 1..Len(c) : c[i] # "open"
      BY <1>2
    <3> HIDE DEF c
    <3>2. First(c, "open") = 0
      BY <3>1, FirstIs
    <3> QED
      BY <3>2 DEF c
  <2>3. e = [g EXCEPT !.buffer = << >>]
    <3>1. g.buffer # << >>
      BY <2>1
    <3> QED
      BY <1>3, <2>1, <2>2, <3>1, TextWithoutMarker
  <2> HIDE DEF e
  <2>4. e.status = "ready" /\ e.buffer = << >> /\ e.mode = "text" /\ e.calls = p.calls
    BY <1>1, <2>3 DEF ParserRecords
  <2>5. e \in Parsers(B)
    BY <1>1, NextEventTyped DEF e
  <2>6. Run(e).calls = e.calls
    BY <2>4, <2>5, RunEmpty
  <2> QED
    BY <1>1, <2>4, <2>6
<1>6. CASE b # << >> /\ First(b, "open") = 1 /\ Blank(From(b, 2))
  <2> DEFINE rest == From(b, 2)
             long == From(g.buffer, 2)
  <2>1. 2 \in 1..(Len(b) + 1)
    BY <1>2, <1>6
  <2>2. rest \in Seq(B) /\ long = rest \o <<"close">> /\ From(rest, 2) = From(rest, 2)
    <3>1. b \in Seq(B) /\ <<"close">> \in Seq(B)
      BY <1>2
    <3> HIDE DEF b
    <3>2. From(b, 2) \in Seq(B)
      BY <2>1, <3>1, FromText
    <3>3. From(b \o <<"close">>, 2) = From(b, 2) \o <<"close">>
      BY <2>1, <3>1, FromJoined
    <3> QED
      BY <1>1, <3>2, <3>3
  <2>3. First(g.buffer, "open") = 1
    <3>1. First(b, "open") > 0
      BY <1>6
    <3>2. b \in Seq(B) /\ <<"close">> \in Seq(B)
      BY <1>2
    <3> HIDE DEF b
    <3>3. First(b \o <<"close">>, "open") =
            IF First(b, "open") > 0 THEN First(b, "open")
            ELSE IF First(<<"close">>, "open") > 0 THEN Len(b) + First(<<"close">>, "open") ELSE 0
      BY <3>2, FirstJoined
    <3> QED
      BY <1>1, <1>6, <3>1, <3>3
  <2>4. g.buffer # << >>
    <3>1. Len(b \o <<"close">>) = Len(b) + 1 /\ Len(b) \in Nat
      BY <1>2
    <3> HIDE DEF b
    <3>2. Len(g.buffer) # 0
      BY <1>1, <3>1
    <3> QED
      BY <3>2
  <2> DEFINE c == <<"close">>
  <2>5. c \in Seq(B) /\ c # << >> /\ c[1] # "nl" /\ c[1] = "close"
    BY <1>2
  <2> HIDE DEF rest, b
  <2>6. long = rest \o c
    BY <2>2
  <2> HIDE DEF c, long
  <2>7. /\ Blanks(long) = Len(rest) /\ From(long, Len(rest) + 1) = c /\ Len(rest) < Len(long) /\ Len(rest) \in Nat
    BY <1>6, <2>2, <2>5, <2>6, BlankThen DEF rest
  <2>8. \A r : r = From(g.buffer, 2) =>
          TextEvent(g) = IF Blanks(r) = Len(r) THEN Waits(g)
                         ELSE [g EXCEPT !.mode = "header", !.buffer = From(r, Blanks(r) + 1)]
    BY <1>1, <2>3, <2>4, TextAtMarker
  <2>9. Blanks(long) # Len(long) /\ From(long, Blanks(long) + 1) = c
    BY <2>7
  <2>10. e = [g EXCEPT !.mode = "header", !.buffer = c]
    <3>1. TextEvent(g) = IF Blanks(long) = Len(long) THEN Waits(g)
                         ELSE [g EXCEPT !.mode = "header", !.buffer = From(long, Blanks(long) + 1)]
      BY <2>8 DEF long
    <3> QED
      BY <1>3, <2>9, <3>1
  <2>11. e \in Parsers(B)
    BY <1>1, NextEventTyped
  <2> HIDE DEF e
  <2>12. e.mode = "header" /\ e.buffer = c /\ e.status = "ready"
    BY <1>1, <2>10 DEF ParserRecords
  <2>13. Blanks(c) = 0 /\ Len(c) = 1
    <3>1. Len(c) = 1
      BY DEF c
    <3>2. 0 \in 0..Len(c) /\ c[0 + 1] # "nl" /\ \A i \in 1..0 : c[i] = "nl"
      BY <2>5, <3>1
    <3> QED
      BY <2>5, <3>1, <3>2, BlanksAt
  <2>14. "close" \notin DOMAIN Header \cup {"half"}
    BY HeaderAssumption
  <2>15. NextEvent(e) = Fails(e)
    BY <2>5, <2>12, <2>13, <2>14 DEF NextEvent, HeaderEvent
  <2>16. Fails(e).status = "failed"
    BY <2>11, WaitsTyped
  <2>17. Run(e) = Fails(e)
    BY <2>11, <2>12, <2>15, <2>16, RunStep
  <2> QED
    BY <1>1, <2>12, <2>16, <2>17
<1> QED
  BY <1>4, <1>5, <1>6

\* A token that neither opens a call nor an object.
Foreign(t) == t \notin DOMAIN Header \cup {"half", "nl", "{"}

LEMMA TokenInHeader ==
  ASSUME NEW B, NEW t \in B, Foreign(t),
         NEW p \in Parsers(B), p.format = "hermes", Rests(p), p.mode = "header"
  PROVE  Push(p, <<t>>).status = "failed"
<1> DEFINE b == p.buffer
           g == Give(p, <<t>>)
           e == NextEvent(g)
           c == <<t>>
<1>1. /\ g \in Parsers(B) /\ g \in ParserRecords(B) /\ g.mode = "header" /\ g.format = "hermes"
      /\ g.calls = p.calls /\ g.buffer = b \o c /\ g.status = "ready"
      /\ Push(p, <<t>>) = IF e.status = "ready" THEN Run(e) ELSE e
  BY GiveToken
<1>2. b \in Seq(B) /\ c \in Seq(B) /\ c # << >> /\ c[1] = t /\ Len(c) = 1
  BY ParserFields
<1>02. t \notin DOMAIN Header \cup {"half"} /\ t # "{" /\ t # "nl"
  BY DEF Foreign
<1>03. c[1] # "nl"
  BY <1>2, <1>02
<1>3. e = HeaderEvent(g)
  BY <1>1 DEF NextEvent
<1>4. \/ Blank(b)
      \/ /\ Blanks(b) < Len(b)
         /\ b[Blanks(b) + 1] \in DOMAIN Header \cup {"half"}
         /\ Blank(From(b, Blanks(b) + 2))
  BY RestsIs
<1>5. Fails(g).status = "failed"
  BY <1>1, WaitsTyped
<1>6. ASSUME e = Fails(g) PROVE Push(p, <<t>>).status = "failed"
  <2> HIDE DEF g, e
  <2> QED
    BY <1>1, <1>5, <1>6
<1> HIDE DEF g
<1>7. CASE Blank(b)
  <2> DEFINE bc == b \o c
  <2> HIDE DEF b, c
  <2>1. /\ Blanks(bc) = Len(b) /\ Len(b) < Len(bc) /\ Len(b) + 1 <= Len(bc) /\ bc[Len(b) + 1] = t
        /\ Len(b) \in Nat /\ Len(bc) \in Nat
    <3>1. b \in Seq(B) /\ c \in Seq(B) /\ c # << >> /\ c[1] # "nl"
      BY <1>2, <1>03
    <3>2. /\ Blanks(b \o c) = Len(b) /\ Len(b) < Len(b \o c) /\ Len(b) + 1 <= Len(b \o c)
          /\ (b \o c)[Len(b) + 1] = c[1]
      BY <1>7, <3>1, BlankThen
    <3>3. Len(b) \in Nat /\ Len(b \o c) \in Nat
      BY <3>1
    <3> QED
      BY <1>2, <3>2, <3>3
  <2> HIDE DEF bc
  <2>2. ~(Len(b) + 1 > Len(bc))
    BY <2>1
  <2>3. HeaderEvent(g) = Fails(g)
    BY <1>02, <1>1, <2>1, <2>2 DEF HeaderEvent, bc
  <2> QED
    BY <1>3, <1>6, <2>3
<1>8. CASE /\ Blanks(b) < Len(b)
           /\ b[Blanks(b) + 1] \in DOMAIN Header \cup {"half"}
           /\ Blank(From(b, Blanks(b) + 2))
  <2> DEFINE n == Blanks(b)
             rest == From(b, n + 2)
             bc == b \o c
             long == From(bc, n + 2)
             h == b[n + 1]
             calls == Append(g.calls, [name |-> Header[h], arguments |-> << >>])
  <2> HIDE DEF b, c
  <2>1. n \in Nat /\ n < Len(b) /\ Len(b) \in Nat /\ n + 2 \in 1..(Len(b) + 1)
    <3>1. n \in 0..Len(b) /\ Len(b) \in Nat
      BY <1>2, BlanksAre
    <3> HIDE DEF n
    <3> QED
      BY <1>8, <3>1 DEF n
  <2>2. rest \in Seq(B) /\ long = rest \o c
    <3> HIDE DEF n
    <3> QED
      BY <1>2, <2>1, FromText, FromJoined
  <2>3. Blanks(bc) = n /\ bc[n + 1] = h /\ Len(bc) = Len(b) + 1
    <3>1. Len(bc) = Len(b) + Len(c) /\ \A i \in 1..Len(b) : bc[i] = b[i]
      BY <1>2, TextJoined
    <3>2. n + 1 \in 1..Len(b)
      BY <2>1
    <3>3. Blanks(bc) = n
      BY <1>2, <2>1, BlanksJoined
    <3> QED
      BY <1>2, <3>1, <3>2, <3>3
  <2>4. ~(n + 1 > Len(bc)) /\ (n + 1) + 1 = n + 2
    <3> HIDE DEF n, bc
    <3> QED
      BY <2>1, <2>3
  <2>5. Blank(rest) /\ h \in DOMAIN Header \cup {"half"}
    BY <1>8
  <2> HIDE DEF rest
  <2>6. Blanks(rest \o c) = Len(rest) /\ From(rest \o c, Len(rest) + 1) = c /\ Len(rest) < Len(rest \o c) /\ Len(rest) \in Nat
    <3>1. rest \in Seq(B) /\ c \in Seq(B) /\ c # << >> /\ c[1] # "nl"
      BY <1>2, <1>03, <2>2
    <3> QED
      BY <2>5, <3>1, BlankThen
  <2> HIDE DEF n, long, bc, h, calls
  <2>7. HeaderEvent(g) =
          IF Blanks(long) = Len(long) THEN Waits(g)
          ELSE IF h = "half" THEN Fails(g)
          ELSE [g EXCEPT !.mode = "arguments", !.scan = NewScan, !.buffer = From(long, Blanks(long) + 1),
                         !.calls = calls]
    <3>1. g.buffer = bc
      BY <1>1 DEF bc
    <3>2. long = From(bc, n + 2) /\ calls = Append(g.calls, [name |-> Header[bc[n + 1]], arguments |-> << >>])
      BY <2>3 DEF long, calls
    <3> QED
      BY <2>3, <2>4, <2>5, <3>1, <3>2 DEF HeaderEvent
  <2>8. Blanks(long) # Len(long) /\ From(long, Blanks(long) + 1) = c
    BY <2>2, <2>6
  <2>9. CASE h = "half"
    BY <1>3, <1>6, <2>7, <2>8, <2>9
  <2>10. CASE h # "half"
    <3>1. e = [g EXCEPT !.mode = "arguments", !.scan = NewScan, !.buffer = c, !.calls = calls]
      BY <1>3, <2>7, <2>8, <2>10
    <3>2. e \in Parsers(B)
      BY <1>1, NextEventTyped
    <3> HIDE DEF e
    <3>3. e.mode = "arguments" /\ e.buffer = c /\ e.status = "ready" /\ e.scan = NewScan
      BY <1>1, <3>1 DEF ParserRecords
    <3>4. NextEvent(e) = ArgumentsEvent(e)
      BY <3>3 DEF NextEvent, NewScan
    <3>5. Scanned(NewScan, c).phase = "failed" /\ Scanned(NewScan, << >>) = NewScan
      <4>1. << >> \in Seq(B) /\ c = Append(<< >>, t)
        BY DEF c
      <4>2. Scanned(NewScan, << >>) = NewScan
        BY NewScanTyped, ScannedEmpty
      <4>3. Scanned(NewScan, c) = Scan(NewScan, t)
        BY <4>1, <4>2, NewScanTyped, ScannedAppend
      <4>4. Scan(NewScan, t) = [NewScan EXCEPT !.phase = "failed"]
        BY <1>02 DEF Scan, NewScan
      <4> QED
        BY <4>2, <4>3, <4>4 DEF NewScan
    <3>6. Taken(NewScan, c) = 1 /\ SubSeq(c, 1, 1) = c
      <4>1. SubSeq(c, 1, 1) = c
        BY <1>2, WholeBeginning
      <4>2. Taken(NewScan, c) \in 0..Len(c) /\ (Taken(NewScan, c) = Len(c) \/ Taken(NewScan, c) \in Ends(NewScan, c))
        BY <1>2, TakenIs
      <4>3. \A k : k \in Ends(NewScan, c) <=> k \in 1..Len(c) /\ Scanned(NewScan, SubSeq(c, 1, k)).phase = "complete"
        BY <1>2, EndsAre
      <4> QED
        BY <1>2, <3>5, <4>1, <4>2, <4>3
    <3>7. ArgumentsEvent(e) = Took(e, Taken(e.scan, e.buffer))
      BY <1>2, <3>3, ArgumentsEventIs
    <3>8. ArgumentsEvent(e) = Fails(e)
      <4>1. ArgumentsEvent(e) = Took(e, 1)
        BY <3>3, <3>6, <3>7
      <4> QED
        BY <3>3, <3>5, <3>6, <4>1 DEF Took
    <3>9. Fails(e).status = "failed"
      BY <3>2, WaitsTyped
    <3>10. Run(e) = Fails(e)
      BY <3>2, <3>3, <3>4, <3>8, <3>9, RunStep
    <3> QED
      BY <1>1, <3>3, <3>9, <3>10
  <2> QED
    BY <2>9, <2>10
<1> QED
  BY <1>4, <1>7, <1>8

LEMMA OneToken ==
  ASSUME NEW B, NEW t \in B, NEW s \in Scans
  PROVE  /\ <<t>> \in Seq(B) /\ Len(<<t>>) = 1 /\ <<t>> # << >>
         /\ Scanned(s, <<t>>) = Scan(s, t) /\ Taken(s, <<t>>) = 1
         /\ SubSeq(<<t>>, 1, 1) = <<t>> /\ From(<<t>>, 2) = << >>
<1> DEFINE c == <<t>>
<1>1. c \in Seq(B) /\ Len(c) = 1 /\ c # << >> /\ << >> \in Seq(B) /\ c = Append(<< >>, t)
  OBVIOUS
<1> HIDE DEF c
<1>2. SubSeq(c, 1, 1) = c /\ From(c, 2) = << >>
  <2>1. SubSeq(c, 1, Len(c)) = c /\ From(c, Len(c) + 1) = << >>
    BY <1>1, WholeBeginning
  <2> QED
    BY <1>1, <2>1
<1>3. Scanned(s, << >>) = s
  BY ScannedEmpty
<1>4. Scanned(s, c) = Scan(s, t)
  <2>1. Scanned(s, Append(<< >>, t)) = Scan(Scanned(s, << >>), t)
    BY <1>1, ScannedAppend
  <2> QED
    BY <1>1, <1>3, <2>1
<1>5. Taken(s, c) \in 0..Len(c) /\ (Taken(s, c) = Len(c) \/ Taken(s, c) \in Ends(s, c))
  BY <1>1, TakenIs
<1>6. \A k : k \in Ends(s, c) <=> k \in 1..Len(c) /\ Scanned(s, SubSeq(c, 1, k)).phase = "complete"
  BY <1>1, EndsAre
<1>7. Taken(s, c) = 1
  BY <1>1, <1>5, <1>6
<1> QED
  BY <1>1, <1>2, <1>4, <1>7 DEF c

LEMMA TokenInArguments ==
  ASSUME NEW B, NEW t \in B, NEW p \in Parsers(B), p.format = "hermes", Rests(p), p.mode = "arguments",
         p.scan.phase # "complete"
  PROVE  \/ Push(p, <<t>>).status = "failed"
         \/ /\ Push(p, <<t>>).status = "waits" /\ Push(p, <<t>>).mode = "arguments"
            /\ Push(p, <<t>>).buffer = << >> /\ Push(p, <<t>>).scan = Scan(p.scan, t)
<1> DEFINE g == Give(p, <<t>>)
           e == NextEvent(g)
           c == <<t>>
           s == p.scan
           u == Scan(s, t)
<1>1. /\ g \in Parsers(B) /\ g \in ParserRecords(B) /\ g.mode = "arguments" /\ g.scan = s
      /\ g.buffer = p.buffer \o c /\ g.status = "ready"
      /\ Push(p, <<t>>) = IF e.status = "ready" THEN Run(e) ELSE e
  BY GiveToken
<1>2. s \in Scans
  BY ParserFields
<1>3. p.buffer = << >>
  BY RestsIs
<1>4. g.buffer = c
  BY <1>1, <1>3
<1>5. c # << >> /\ Scanned(s, c) = u /\ Taken(s, c) = 1 /\ SubSeq(c, 1, 1) = c /\ From(c, 1 + 1) = << >>
  <2> HIDE DEF s
  <2>1. From(<<t>>, 2) = << >> /\ 2 = 1 + 1
    BY <1>2, OneToken
  <2> QED
    BY <1>2, <2>1, OneToken
<1> HIDE DEF g, c
<1>6. e = ArgumentsEvent(g)
  BY <1>1 DEF NextEvent
<1>7. ArgumentsEvent(g) = Took(g, Taken(g.scan, g.buffer))
  BY <1>4, <1>5, ArgumentsEventIs
<1> DEFINE calls == [g.calls EXCEPT ![Len(g.calls)].arguments = @ \o c]
<1>8. e = IF u.phase = "failed" THEN Fails(g) ELSE [g EXCEPT !.scan = u, !.buffer = << >>, !.calls = calls]
  <2>1. e = Took(g, 1)
    BY <1>1, <1>4, <1>5, <1>6, <1>7
  <2> HIDE DEF e
  <2> QED
    BY <1>1, <1>4, <1>5, <2>1 DEF Took
<1>9. e \in Parsers(B)
  BY <1>1, NextEventTyped
<1> HIDE DEF e, u, s, calls
<1>10. CASE u.phase = "failed"
  <2>1. e.status = "failed"
    BY <1>1, <1>8, <1>10, WaitsTyped
  <2> QED
    BY <1>1, <2>1
<1>11. CASE u.phase # "failed"
  <2>1. e = [g EXCEPT !.scan = u, !.buffer = << >>, !.calls = calls]
    BY <1>8, <1>11
  <2>2. e.status = "ready" /\ e.mode = "arguments" /\ e.buffer = << >> /\ e.scan = u
    BY <1>1, <2>1 DEF ParserRecords
  <2>3. Run(e).mode = e.mode /\ Run(e).scan = e.scan /\ Run(e).buffer = << >> /\ Run(e).status = "waits"
    BY <1>9, <2>2, RunEmpty
  <2> QED
    BY <1>1, <2>2, <2>3 DEF u, s
<1> QED
  BY <1>10, <1>11

LEMMA TokenAtEnd ==
  ASSUME NEW B, NEW t \in B, NEW p \in Parsers(B), p.format = "hermes", Rests(p), p.mode = "arguments",
         p.scan.phase = "complete"
  PROVE  /\ p.buffer = << >> /\ t # "}" => Push(p, <<t>>).status = "failed"
         /\ p.buffer = << >> /\ t = "}" =>
              /\ Push(p, <<t>>).status = "waits" /\ Push(p, <<t>>).mode = "arguments"
              /\ Push(p, <<t>>).buffer # << >> /\ ~CutOff(Push(p, <<t>>).buffer)
              /\ Push(p, <<t>>).scan = p.scan /\ Push(p, <<t>>).calls = p.calls
         /\ p.buffer # << >> /\ t \notin {"nl", "close", "cut"} => Push(p, <<t>>).status = "failed"
         /\ p.buffer # << >> /\ ~CutOff(p.buffer) /\ t = "close" =>
              /\ Push(p, <<t>>).status = "waits" /\ Push(p, <<t>>).mode = "text"
              /\ Push(p, <<t>>).calls = p.calls
         /\ p.buffer # << >> /\ ~CutOff(p.buffer) /\ t = "cut" =>
              /\ Push(p, <<t>>).status = "waits" /\ Push(p, <<t>>).mode = "arguments"
              /\ CutOff(Push(p, <<t>>).buffer)
              /\ Push(p, <<t>>).scan = p.scan /\ Push(p, <<t>>).calls = p.calls
         /\ CutOff(p.buffer) => Push(p, <<t>>).status = "failed"
<1> DEFINE g == Give(p, <<t>>)
           e == NextEvent(g)
           c == <<t>>
           b == p.buffer
           bc == b \o c
           rest == From(bc, 2)
           end == From(rest, Blanks(rest) + 1)
           text == From(end, 2)
<1>1. /\ g \in Parsers(B) /\ g \in ParserRecords(B) /\ g.mode = "arguments" /\ g.scan = p.scan
      /\ g.format = "hermes" /\ g.calls = p.calls
      /\ g.buffer = bc /\ g.status = "ready"
      /\ Push(p, <<t>>) = IF e.status = "ready" THEN Run(e) ELSE e
  BY GiveToken
<1>2. b \in Seq(B) /\ c \in Seq(B) /\ Len(c) = 1 /\ c[1] = t /\ c # << >> /\ From(c, 2) = << >>
  <2>1. b \in Seq(B) /\ NewScan \in Scans
    BY ParserFields, NewScanTyped
  <2>2. c[1] = t
    OBVIOUS
  <2> QED
    BY <2>1, <2>2, OneToken
<1> HIDE DEF g, c, b
<1>3. bc # << >>
  <2>1. bc \in Seq(B) /\ Len(bc) = Len(b) + Len(c) /\ Len(b) \in Nat
    BY <1>2, TextJoined
  <2> HIDE DEF bc
  <2>2. Len(bc) > 0
    BY <1>2, <2>1
  <2> QED
    BY <2>2
<1>4. e = CloseEvent(g)
  BY <1>1 DEF NextEvent
<1>5. CloseEvent(g) =
        IF bc[1] # "}" THEN Fails(g)
        ELSE IF Blanks(rest) = Len(rest) \/ end \in {<< >>, <<"cut">>} THEN Waits(g)
        ELSE IF end[1] # "close" THEN Fails(g)
        ELSE [g EXCEPT !.mode = "text", !.buffer = text]
  <2>1. Spaces(g, rest) = Blanks(rest) /\ ~SpaceMissing(g, rest) /\ (SpaceOpen(g, rest) <=> Blanks(rest) = Len(rest))
    BY <1>1 DEF Spaces, SpaceMissing, SpaceOpen
  <2> HIDE DEF bc
  <2> QED
    BY <1>1, <1>3, <2>1 DEF CloseEvent
<1>6. Fails(g).status = "failed" /\ Waits(g).status = "waits" /\ e \in Parsers(B)
  BY <1>1, WaitsTyped, NextEventTyped
<1> HIDE DEF e
<1>7. CASE b = << >>
  <2>1. bc = c
    BY <1>2, <1>7
  <2>2. rest = << >> /\ bc[1] = t
    BY <1>2, <2>1
  <2>3. Blanks(rest) = Len(rest)
    <3> HIDE DEF rest
    <3>1. rest \in Seq(B) /\ Len(rest) = 0
      BY <2>2
    <3>2. Blanks(rest) \in 0..Len(rest)
      BY <3>1, BlanksAre
    <3> QED
      BY <3>1, <3>2
  <2>6. From(rest, Blanks(rest) + 1) # <<"cut">>
    <3>1. From(<< >>, 0 + 1) # <<"cut">>
      BY DEF From
    <3>2. Blanks(rest) = 0
      BY <2>2, <2>3
    <3> QED
      BY <2>2, <3>1, <3>2
  <2> HIDE DEF bc, rest, end, text
  <2>4. ASSUME t # "}" PROVE Push(p, <<t>>).status = "failed"
    <3>1. e = Fails(g)
      BY <1>4, <1>5, <2>2, <2>4
    <3> QED
      BY <1>1, <1>6, <3>1
  <2>5. ASSUME t = "}"
        PROVE  /\ Push(p, <<t>>).status = "waits" /\ Push(p, <<t>>).mode = "arguments"
               /\ Push(p, <<t>>).buffer # << >> /\ ~CutOff(Push(p, <<t>>).buffer)
               /\ Push(p, <<t>>).scan = p.scan /\ Push(p, <<t>>).calls = p.calls
    <3>1. e = Waits(g)
      BY <1>4, <1>5, <2>2, <2>3, <2>5
    <3>2. e.status = "waits" /\ e.mode = g.mode /\ e.scan = g.scan /\ e.calls = g.calls /\ e.buffer = g.buffer
      BY <1>1, <3>1 DEF Waits, ParserRecords
    <3>3. ~CutOff(bc)
      BY <2>2, <2>6 DEF CutOff, rest
    <3> QED
      BY <1>1, <1>3, <3>2, <3>3 DEF bc
  <2>7. ~CutOff(b)
    BY <1>7 DEF CutOff
  <2> QED
    BY <1>7, <2>4, <2>5, <2>7 DEF b
<1>8. CASE b # << >> /\ ~CutOff(b)
  <2> DEFINE tail == From(b, 2)
  <2>1. b # << >> /\ b[1] = "}" /\ Blank(tail)
    BY <1>8, RestsIs DEF b
  <2>2. tail \in Seq(B) /\ rest = tail \o c /\ bc[1] = "}"
    <3>1. 2 \in 1..(Len(b) + 1) /\ 1 \in 1..Len(b)
      BY <1>2, <1>8
    <3>2. tail \in Seq(B)
      BY <1>2, <3>1, FromText
    <3>3. rest = tail \o c
      BY <1>2, <3>1, FromJoined
    <3>4. \A i \in 1..Len(b) : bc[i] = b[i]
      BY <1>2, TextJoined
    <3> QED
      BY <2>1, <3>1, <3>2, <3>3, <3>4
  <2> HIDE DEF tail, bc
  <2>3. ASSUME t # "nl"
        PROVE  Blanks(rest) # Len(rest) /\ end = c
    <3>1. c[1] # "nl"
      BY <1>2, <2>3
    <3>2. /\ Blanks(tail \o c) = Len(tail) /\ From(tail \o c, Len(tail) + 1) = c
          /\ Len(tail) < Len(tail \o c)
      BY <1>2, <2>1, <2>2, <3>1, BlankThen
    <3> HIDE DEF rest
    <3>03. tail \in Seq(B)
      BY <2>2
    <3>3. Len(tail) \in Nat
      BY <3>03
    <3>05. rest = tail \o c
      BY <2>2
    <3>4. Blanks(rest) = Len(tail) /\ From(rest, Len(tail) + 1) = c /\ Len(tail) # Len(rest)
      BY <3>05, <3>2, <3>3
    <3> QED
      BY <3>4
  <2> HIDE DEF rest
  <2>4. ASSUME t \notin {"nl", "close", "cut"} PROVE Push(p, <<t>>).status = "failed"
    <3>1. Blanks(rest) # Len(rest) /\ end = c
      BY <2>3, <2>4
    <3> HIDE DEF end
    <3>3. c # <<"cut">>
      BY <1>2, <2>4
    <3>2. e = Fails(g)
      BY <1>2, <1>4, <1>5, <2>2, <2>4, <3>1, <3>3
    <3> QED
      BY <1>1, <1>6, <3>2
  <2>5. ASSUME t = "close"
        PROVE  /\ Push(p, <<t>>).status = "waits" /\ Push(p, <<t>>).mode = "text"
               /\ Push(p, <<t>>).calls = p.calls
    <3>1. Blanks(rest) # Len(rest) /\ end = c
      BY <2>3, <2>5
    <3>2. text = << >>
      BY <1>2, <3>1
    <3> HIDE DEF end, text
    <3>6. c # <<"cut">>
      BY <1>2, <2>5
    <3>3. e = [g EXCEPT !.mode = "text", !.buffer = << >>]
      BY <1>2, <1>4, <1>5, <2>2, <2>5, <3>1, <3>2, <3>6
    <3>4. e.status = "ready" /\ e.mode = "text" /\ e.buffer = << >> /\ e.calls = p.calls
      BY <1>1, <3>3 DEF ParserRecords
    <3>5. Run(e).mode = e.mode /\ Run(e).calls = e.calls /\ Run(e).status = "waits"
      BY <1>6, <3>4, RunEmpty
    <3> QED
      BY <1>1, <3>4, <3>5
  <2>6. ASSUME t = "cut"
        PROVE  /\ Push(p, <<t>>).status = "waits" /\ Push(p, <<t>>).mode = "arguments"
               /\ CutOff(Push(p, <<t>>).buffer)
               /\ Push(p, <<t>>).scan = p.scan /\ Push(p, <<t>>).calls = p.calls
    <3>1. Blanks(rest) # Len(rest) /\ end = c
      BY <2>3, <2>6
    <3>2. c = <<"cut">>
      BY <2>6 DEF c
    <3>3. CutOff(bc)
      BY <1>3, <2>2, <3>1, <3>2 DEF CutOff, rest
    <3> HIDE DEF end
    <3>4. e = Waits(g)
      BY <1>4, <1>5, <2>2, <3>1, <3>2
    <3>5. e.status = "waits" /\ e.mode = g.mode /\ e.scan = g.scan /\ e.calls = g.calls /\ e.buffer = g.buffer
      BY <1>1, <3>4 DEF Waits, ParserRecords
    <3> QED
      BY <1>1, <3>3, <3>5
  <2> QED
    BY <1>8, <2>4, <2>5, <2>6 DEF b
<1>9. CASE CutOff(b)
  <2> DEFINE tail == From(b, 2)
             m == Blanks(tail)
             cut == From(tail, m + 1)
  <2>0. b # << >> /\ cut = <<"cut">>
    BY <1>9 DEF CutOff
  <2>1. b[1] = "}"
    BY <1>9 DEF CutOff
  <2>2. tail \in Seq(B) /\ rest = tail \o c /\ bc[1] = "}"
    <3>1. 2 \in 1..(Len(b) + 1) /\ 1 \in 1..Len(b)
      BY <1>2, <2>0
    <3>2. tail \in Seq(B)
      BY <1>2, <3>1, FromText
    <3>3. rest = tail \o c
      BY <1>2, <3>1, FromJoined
    <3>4. \A i \in 1..Len(b) : bc[i] = b[i]
      BY <1>2, TextJoined
    <3> QED
      BY <2>1, <3>1, <3>2, <3>3, <3>4
  <2> HIDE DEF tail, bc
  <2>3. m \in 0..Len(tail) /\ Len(tail) \in Nat /\ m + 1 \in 1..(Len(tail) + 1)
    <3>0. tail \in Seq(B)
      BY <2>2
    <3>1. m \in 0..Len(tail) /\ Len(tail) \in Nat
      BY <3>0, BlanksAre
    <3> QED
      BY <3>1
  <2>4. Len(cut) = Len(tail) + 1 - (m + 1) /\ cut \in Seq(B) /\ From(rest, m + 1) = cut \o c
    <3>1. tail \in Seq(B) /\ rest = tail \o c
      BY <2>2
    <3> HIDE DEF m, rest
    <3> QED
      BY <1>2, <2>3, <3>1, FromJoined, FromText
  <2>5. m < Len(tail)
    <3>1. Len(cut) = 1
      BY <2>0
    <3>2. Len(cut) = Len(tail) + 1 - (m + 1)
      BY <2>4
    <3> HIDE DEF m, cut
    <3> QED
      BY <2>3, <3>1, <3>2
  <2>6. Blanks(rest) = m /\ Len(rest) = Len(tail) + 1
    <3>0. tail \in Seq(B) /\ rest = tail \o c
      BY <2>2
    <3>1. Blanks(tail \o c) = Blanks(tail)
      BY <1>2, <3>0, <2>5, BlanksJoined
    <3>2. Len(tail \o c) = Len(tail) + Len(c)
      BY <1>2, <3>0, TextJoined
    <3> HIDE DEF rest
    <3> QED
      BY <1>2, <3>0, <3>1, <3>2
  <2> HIDE DEF m, rest, cut
  <2>7. Blanks(rest) # Len(rest) /\ end = cut \o c
    BY <2>3, <2>4, <2>5, <2>6
  <2>8. end \notin {<< >>, <<"cut">>} /\ end[1] = "cut"
    <3>1. Len(cut) = 1 /\ cut[1] = "cut"
      BY <2>0
    <3>2. Len(cut \o c) = 2 /\ (cut \o c)[1] = "cut"
      <4>1. /\ Len(cut \o c) = Len(cut) + Len(c)
            /\ \A i \in 1..Len(cut) : (cut \o c)[i] = cut[i]
        BY <1>2, <2>4, TextJoined
      <4> HIDE DEF end
      <4> QED
        BY <1>2, <3>1, <4>1
    <3>3. Len(<< >>) = 0 /\ Len(<<"cut">>) = 1
      OBVIOUS
    <3> HIDE DEF end
    <3> QED
      BY <2>7, <3>2, <3>3
  <2> HIDE DEF end, text
  <2>9. e = Fails(g)
    BY <1>4, <1>5, <2>2, <2>7, <2>8
  <2>10. Push(p, <<t>>).status = "failed"
    BY <1>1, <1>6, <2>9
  <2> QED
    BY <1>9, <2>0, <2>10 DEF b
<1> QED
  BY <1>7, <1>8, <1>9

LEMMA OneIsText ==
  ASSUME NEW B, NEW t \in B
  PROVE  <<t>> \in Seq(B)
OBVIOUS

LEMMA NoText ==
  ASSUME NEW B
  PROVE  << >> \in Seq(B) /\ \A a \in Seq(B) : << >> \o a = a /\ a \o << >> = a
OBVIOUS

LEMMA TwoIsText ==
  ASSUME NEW B, NEW x \in B, NEW y \in B
  PROVE  <<x, y>> \in Seq(B)
OBVIOUS

LEMMA TwoAreJoined ==
  ASSUME NEW B, NEW x \in B, NEW y \in B
  PROVE  <<x, y>> = <<x>> \o <<y>>
<1> DEFINE a == <<x>>
           b == <<y>>
           c == <<x, y>>
<1>1. /\ a \in Seq(B) /\ Len(a) = 1 /\ a[1] = x
      /\ b \in Seq(B) /\ Len(b) = 1 /\ b[1] = y
      /\ c \in Seq(B) /\ Len(c) = 2 /\ c[1] = x /\ c[2] = y
  OBVIOUS
<1> HIDE DEF a, b, c
<1>2. /\ a \o b \in Seq(B) /\ Len(a \o b) = 2
      /\ (a \o b)[1] = x /\ (a \o b)[2] = y
  <2>1. a \in Seq(B) /\ b \in Seq(B)
    BY <1>1
  <2>2. /\ a \o b \in Seq(B) /\ Len(a \o b) = Len(a) + Len(b)
        /\ \A i \in 1..Len(a) : (a \o b)[i] = a[i]
        /\ \A i \in 1..Len(b) : (a \o b)[Len(a) + i] = b[i]
    BY <2>1, TextJoined
  <2>3. Len(a) + 1 = 2 /\ Len(a) + Len(b) = 2 /\ 1 \in 1..Len(a) /\ 1 \in 1..Len(b)
    BY <1>1
  <2> QED
    BY <1>1, <2>2, <2>3
<1>3. \A i \in 1..2 : c[i] = (a \o b)[i]
  BY <1>1, <1>2
<1>4. c = a \o b
  BY <1>1, <1>2, <1>3, SeqEqual
<1> QED
  BY <1>4 DEF a, b, c

LEMMA LargerTexts ==
  ASSUME NEW S, NEW T, S \subseteq T, NEW x \in Seq(S)
  PROVE  x \in Seq(T)
OBVIOUS

(***************************************************************************)
(* The end of a call that lacks its closing marker, and what is in its place.*)
(***************************************************************************)
Closings == {<<"close">>, <<"}", "close">>}

LEMMA EndOfCall ==
  ASSUME NEW B, "close" \in B, "}" \in B,
         NEW p \in Parsers(B), p.format = "hermes", Rests(p), p.mode # "text",
         NEW end \in Closings,
         Push(p, end).status # "failed", Push(p, end).mode = "text"
  PROVE  /\ p.mode = "arguments" /\ p.scan.phase = "complete" /\ Push(p, end).calls = p.calls
         /\ end = <<"close">> => p.buffer # << >> /\ ~CutOff(p.buffer)
         /\ end # <<"close">> => p.buffer = << >>
<1> DEFINE brace == <<"}">>
           close == <<"close">>
           r == Push(p, end)
<1>1. Foreign("close") /\ Foreign("}")
  BY HeaderAssumption DEF Foreign
<1>2. p.mode \in {"header", "arguments"}
  BY ParserFields DEF Modes
<1>3. CASE end = close
  <2>1. p.mode = "arguments"
    BY <1>1, <1>2, <1>3, TokenInHeader
  <2>2. p.scan.phase = "complete"
    BY <1>3, <2>1, TokenInArguments
  <2>3. ~CutOff(p.buffer) /\ p.buffer # << >>
    BY <1>3, <2>1, <2>2, TokenAtEnd, ZenonT(30)
  <2>4. Push(p, <<"close">>).calls = p.calls
    BY <2>1, <2>2, <2>3, TokenAtEnd, ZenonT(30)
  <2> QED
    BY <1>3, <2>1, <2>2, <2>3, <2>4
<1>4. CASE end = <<"}", "close">>
  <2> DEFINE q == Push(p, brace)
  <2>1. brace \in Seq(B) /\ close \in Seq(B) /\ end = brace \o close
    <3>1. <<"}">> \in Seq(B) /\ <<"close">> \in Seq(B)
      BY OneIsText
    <3>2. <<"}", "close">> = <<"}">> \o <<"close">>
      BY TwoAreJoined
    <3> QED
      BY <1>4, <3>1, <3>2
  <2> HIDE DEF close
  <2>2. q.status # "failed" /\ r = Push(q, close)
    <3> HIDE DEF brace
    <3>1. /\ q.status = "failed" => Push(p, brace \o close).status = "failed"
          /\ q.status # "failed" => Alike(Push(p, brace \o close), Push(q, close))
      BY <2>1, PushTwice
    <3>2. Push(p, brace \o close) = r
      BY <2>1
    <3> HIDE DEF q, r
    <3>3. q.status # "failed" => Alike(r, Push(q, close))
      BY <3>1, <3>2
    <3>4. q.status # "failed" /\ r.status # "failed"
      BY <3>1, <3>2 DEF r
    <3> QED
      BY <3>3, <3>4 DEF Alike
  <2>3. q \in Parsers(B) /\ q.format = "hermes" /\ Rests(q)
    <3>1. q \in Parsers(B) /\ q.format = p.format
      BY <2>1, PushTyped
    <3>2. Rests(q)
      BY <2>1, <2>2, PushRests
    <3> QED
      BY <3>1, <3>2
  <2>4. p.mode = "arguments"
    <3>1. ASSUME p.mode = "header" PROVE FALSE
      BY <1>1, <2>2, <3>1, TokenInHeader
    <3> QED
      BY <1>2, <3>1
  <2>5. ASSUME p.scan.phase # "complete" PROVE FALSE
    <3>1. q.mode = "arguments" /\ q.buffer = << >>
      BY <2>2, <2>4, <2>5, TokenInArguments
    <3> HIDE DEF q
    <3>2. Push(q, <<"close">>).status # "failed" /\ Push(q, <<"close">>).mode = "text"
      BY <2>2 DEF close
    <3>3. CASE q.scan.phase = "complete"
      BY <2>3, <3>1, <3>2, <3>3, TokenAtEnd
    <3>4. CASE q.scan.phase # "complete"
      BY <2>3, <3>1, <3>2, <3>4, TokenInArguments
    <3> QED
      BY <3>3, <3>4
  <2>6. p.scan.phase = "complete"
    BY <2>5
  <2>7. /\ q.mode = "arguments" /\ q.buffer # << >> /\ ~CutOff(q.buffer) /\ q.scan = p.scan /\ q.calls = p.calls
        /\ p.buffer = << >>
    <3>1. /\ p.buffer # << >> => q.status = "failed"
          /\ p.buffer = << >> => /\ q.mode = "arguments" /\ q.buffer # << >> /\ ~CutOff(q.buffer)
                                /\ q.scan = p.scan /\ q.calls = p.calls
      BY <2>4, <2>6, TokenAtEnd, ZenonT(30)
    <3> HIDE DEF q
    <3> QED
      BY <2>2, <3>1
  <2> HIDE DEF q
  <2>8. Push(q, <<"close">>).calls = q.calls
    BY <2>3, <2>6, <2>7, TokenAtEnd, ZenonT(30)
  <2>9. end # close
    <3>1. \A x : <<x, "close">> # <<"close">>
      OBVIOUS
    <3>2. end # <<"close">>
      BY <1>4, <3>1
    <3> QED
      BY <3>2 DEF close
  <2> QED
    BY <2>2, <2>4, <2>6, <2>7, <2>8, <2>9 DEF close
<1> QED
  BY <1>3, <1>4 DEF Closings

\* What a tag in place of the end of a call comes to: it is refused at once or, when it is a marker
\* that breaks off, by whatever comes behind it.
LEMMA TagAtEnd ==
  ASSUME NEW B, NEW t \in B, t \in TagStarts, t # "close",
         NEW p \in Parsers(B), p.format = "hermes", Rests(p), p.mode = "arguments",
         p.scan.phase = "complete", p.buffer = << >> \/ t # "cut" \/ CutOff(p.buffer)
  PROVE  Push(p, <<t>>).status = "failed"
<1>1. t # "}" /\ t \notin {"nl", "close"}
  BY DEF TagStarts
<1>2. CASE p.buffer = << >>
  BY <1>1, <1>2, TokenAtEnd, ZenonT(30)
<1>3. CASE CutOff(p.buffer)
  BY <1>3, TokenAtEnd, ZenonT(30)
<1>4. CASE p.buffer # << >> /\ t # "cut"
  BY <1>1, <1>4, TokenAtEnd, ZenonT(30)
<1> QED
  BY <1>2, <1>3, <1>4

\* What ParseComplete says.
LEMMA StrictIs ==
  \A a : /\ ParseComplete("hermes", a).ok <=> ReadOf(a).status # "failed" /\ ReadOf(a).mode = "text"
         /\ ParseComplete("hermes", a).ok => ParseComplete("hermes", a) = [ok |-> TRUE, calls |-> ReadOf(a).calls]
BY DEF ParseComplete, ReadOf, MayFinish, Failure

\* A parser that has read a text is where the text leaves off.
LEMMA HasReadIs ==
  ASSUME NEW B, NEW a \in Seq(B), NEW p, HasRead(B, p, a)
  PROVE  /\ ReadOf(a) \in Parsers(B) /\ ReadOf(a) \in Accounted(B) /\ ReadOf(a).format = "hermes"
         /\ ReadOf(a).status = "waits" /\ Rests(ReadOf(a))
         /\ ReadOf(a).mode = p.mode /\ ReadOf(a).calls = p.calls /\ p.status # "failed"
         /\ \A c \in Seq(B) : Push(ReadOf(a), c) = Push(p, c)
<1>1. p \in Parsers(B) /\ p.format = "hermes" /\ p.status # "failed" /\ Waits(p) = ReadOf(a)
  BY DEF HasRead
<1>2. p \in ParserRecords(B)
  BY <1>1, ParserFields
<1>3. /\ Waits(p).mode = p.mode /\ Waits(p).calls = p.calls /\ Waits(p).status = "waits"
  BY <1>2 DEF Waits, ParserRecords
<1>4. ReadOf(a) \in Parsers(B) /\ ReadOf(a).format = "hermes"
  BY NewParserTyped, PushTyped DEF ReadOf
<1>5. Rests(ReadOf(a))
  BY <1>1, <1>3, NewParserTyped, PushRests DEF ReadOf
<1>6. ReadOf(a) \in Accounted(B)
  BY ReadAccounted DEF ReadOf
<1>7. \A c \in Seq(B) : Push(Waits(p), c) = Push(p, c)
  BY <1>1, PushTyped
<1> QED
  BY <1>1, <1>3, <1>4, <1>5, <1>6, <1>7

-----------------------------------------------------------------------------
(***************************************************************************)
(* A piece more, and a text that is cut somewhere.                          *)
(***************************************************************************)
\* A text cut behind its n-th token, and a piece of k tokens cut off what is left.
CutTwice(B, text, n, k) ==
  /\ SubSeq(text, 1, n) \in Seq(B) /\ From(text, n + 1) \in Seq(B)
  /\ Len(From(text, n + 1)) = Len(text) - n
  /\ SubSeq(From(text, n + 1), 1, k) \in Seq(B)
  /\ SubSeq(text, 1, n + k) = SubSeq(text, 1, n) \o SubSeq(From(text, n + 1), 1, k)
  /\ From(From(text, n + 1), k + 1) = From(text, (n + k) + 1)
  /\ \A i \in 1..(Len(text) - n) : From(text, n + 1)[i] = text[n + i]

\* A text up to n, and one piece more.
LEMMA OnePieceMore ==
  ASSUME NEW B, NEW text \in Seq(B), NEW n \in 0..Len(text), NEW k \in 0..(Len(text) - n)
  PROVE  CutTwice(B, text, n, k)
<1> DEFINE a == SubSeq(text, 1, n)
           rest == From(text, n + 1)
           c == SubSeq(rest, 1, k)
           left == From(rest, k + 1)
<1>1. Len(text) \in Nat /\ n \in Nat /\ k \in Nat
  OBVIOUS
<1>2. a \in Seq(B) /\ Len(a) = n /\ rest \in Seq(B) /\ Len(rest) = Len(text) - n /\ text = a \o rest
  <2>1. CutOnce(B, text, n)
    BY Cut
  <2> QED
    BY <2>1 DEF CutOnce
<1>3. \A i \in 1..(Len(text) - n) : rest[i] = text[n + i]
  <2>1. n + 1 \in 1..(Len(text) + 1)
    BY <1>1
  <2>2. \A i \in 1..(Len(text) + 1 - (n + 1)) : rest[i] = text[(n + 1) + i - 1]
    BY <2>1, FromText
  <2>3. ASSUME NEW i \in 1..(Len(text) - n) PROVE rest[i] = text[n + i]
    <3>1. i \in 1..(Len(text) + 1 - (n + 1)) /\ (n + 1) + i - 1 = n + i
      BY <1>1
    <3> HIDE DEF rest
    <3> QED
      BY <2>2, <3>1
  <2> QED
    BY <2>3
<1> HIDE DEF a, rest
<1>4. k \in 0..Len(rest) /\ Len(rest) \in Nat
  BY <1>1, <1>2
<1>5. c \in Seq(B)
  BY <1>2, <1>4, Beginning
<1>6. SubSeq(a \o rest, 1, Len(a) + k) = a \o c
  <2>1. a \in Seq(B) /\ rest \in Seq(B)
    BY <1>2
  <2>2. \A i \in 0..Len(rest) : SubSeq(a \o rest, 1, Len(a) + i) = a \o SubSeq(rest, 1, i)
    <3>1. BeginningsOf(a, rest)
      BY <2>1, JoinedBeginnings
    <3> QED
      BY <3>1 DEF BeginningsOf
  <2> QED
    BY <1>4, <2>2 DEF c
<1>7. From(a \o rest, Len(a) + (k + 1)) = From(rest, k + 1)
  <2>1. k + 1 \in 1..(Len(rest) + 1)
    BY <1>4
  <2> QED
    BY <1>2, <2>1, FromSecond
<1>8. Len(a) + (k + 1) = (n + k) + 1 /\ Len(a) + k = n + k
  BY <1>1, <1>2
<1> HIDE DEF c
<1>9. SubSeq(text, 1, n + k) = a \o c /\ From(text, (n + k) + 1) = left
  BY <1>2, <1>6, <1>7, <1>8
<1> HIDE DEF left
<1>10. /\ a \in Seq(B) /\ rest \in Seq(B) /\ Len(rest) = Len(text) - n /\ c \in Seq(B)
       /\ SubSeq(text, 1, n + k) = a \o c /\ left = From(text, (n + k) + 1)
       /\ \A i \in 1..(Len(text) - n) : rest[i] = text[n + i]
  BY <1>2, <1>3, <1>5, <1>9
<1> QED
  BY <1>10 DEF CutTwice, a, rest, c, left

\* A text up to n, and one token more.
LEMMA OneMore ==
  ASSUME NEW B, NEW text \in Seq(B), NEW n \in Nat, n + 1 \in 1..Len(text)
  PROVE  SubSeq(text, 1, n + 1) = SubSeq(text, 1, n) \o <<text[n + 1]>>
<1> DEFINE rest == From(text, n + 1)
           c == SubSeq(rest, 1, 1)
<1>1. n \in 0..Len(text) /\ 1 \in 0..(Len(text) - n) /\ 1 \in 1..(Len(text) - n)
  OBVIOUS
<1>01. CutTwice(B, text, n, 1)
  BY <1>1, OnePieceMore
<1>2. /\ rest \in Seq(B) /\ Len(rest) = Len(text) - n /\ c \in Seq(B)
      /\ SubSeq(text, 1, n + 1) = SubSeq(text, 1, n) \o c /\ rest[1] = text[n + 1]
  BY <1>1, <1>01 DEF CutTwice
<1>3. Len(c) = 1 /\ c[1] = rest[1]
  <2>1. 1 \in 0..Len(rest) /\ rest \in Seq(B)
    BY <1>1, <1>2
  <2> HIDE DEF rest
  <2> QED
    BY <2>1
<1>4. c = <<text[n + 1]>>
  <2> DEFINE t == text[n + 1]
  <2>1. c \in Seq(B) /\ Len(c) = 1 /\ c[1] = t
    BY <1>2, <1>3
  <2> HIDE DEF c, t
  <2>2. c = <<t>>
    BY <2>1
  <2> QED
    BY <2>2 DEF t
<1> QED
  BY <1>2, <1>4

\* What does not fail with more text has not failed before.
LEMMA ReadsFirst ==
  ASSUME NEW B, NEW a \in Seq(B), NEW c \in Seq(B), ReadOf(a \o c).status # "failed"
  PROVE  ReadOf(a).status # "failed" /\ HasRead(B, ReadOf(a), a) /\ Push(ReadOf(a), c) = ReadOf(a \o c)
<1> DEFINE q == ReadOf(a)
           z == NewParser("hermes")
<1>1. HasRead(B, z, << >>) /\ Push(z, a) = q
  BY HasReadFirst DEF ReadOf
<1>2. << >> \in Seq(B) /\ << >> \o a = a
  BY NoText
<1> HIDE DEF q, z
<1>3. Push(z, a).status # "failed" => HasRead(B, Push(z, a), << >> \o a)
  BY <1>1, <1>2, HasReadMore
<1>4. q.status # "failed"
  BY FailsForGood DEF q
<1>5. HasRead(B, q, a)
  BY <1>1, <1>2, <1>3, <1>4
<1>6. /\ Push(q, c).status # "failed" => Push(q, c) = ReadOf(a \o c)
      /\ Push(q, c).status = "failed" => ReadOf(a \o c).status = "failed"
  BY <1>5, HasReadMore
<1>7. Push(q, c) = ReadOf(a \o c)
  BY <1>6
<1> QED
  BY <1>4, <1>5, <1>7 DEF q

\* Where a tag stands in place of the end of a call, the arguments are whole and nothing more is read.
CutHere(a, t, end) ==
  /\ t \in TagStarts \ {"close"} /\ end \in Closings
  /\ ~ParseComplete("hermes", a).ok /\ ParseComplete("hermes", a \o end).ok

\* No more of the text can be read than up to where it fails.
LEMMA FailsFromThere ==
  ASSUME NEW B, NEW text \in Seq(B), NEW n \in 0..Len(text), NEW m \in n..Len(text),
         ReadOf(SubSeq(text, 1, n)).status = "failed"
  PROVE  ReadOf(SubSeq(text, 1, m)).status = "failed"
<1> DEFINE a == SubSeq(text, 1, n)
           c == SubSeq(From(text, n + 1), 1, m - n)
<1>1. m - n \in 0..(Len(text) - n) /\ n + (m - n) = m
  OBVIOUS
<1>01. CutTwice(B, text, n, m - n)
  BY <1>1, OnePieceMore
<1>2. a \in Seq(B) /\ c \in Seq(B) /\ SubSeq(text, 1, n + (m - n)) = a \o c
  BY <1>01 DEF CutTwice
<1> HIDE DEF c
<1>3. ReadOf(a \o c).status = "failed"
  BY <1>2, FailsForGood
<1> QED
  BY <1>1, <1>2, <1>3

-----------------------------------------------------------------------------
(***************************************************************************)
(* Where the calls of a parser are written in the text it reads: behind     *)
(* their markers, one after the other, and never past where it has read.    *)
(***************************************************************************)
\* The call is in a, from the marker at i to n: its header is at j, its arguments begin at k.
Written(a, call, i, j, k, n) ==
  /\ i < j /\ j < k /\ k + Len(call.arguments) = n + 1
  /\ a[i] = "open" /\ a[j] \in DOMAIN Header /\ Header[a[j]] = call.name
  /\ \A m \in (i + 1)..(k - 1) : m # j => a[m] = "nl"
  /\ \A m \in 1..Len(call.arguments) : call.arguments[m] = a[k + m - 1]

WrittenTo(a, call, i, n) == \E j, k \in Nat : Written(a, call, i, j, k, n)

\* The places of the markers of some calls, in a up to n.
Places(a, calls, place, n) ==
  /\ place \in [1..Len(calls) -> 1..n]
  /\ \A c \in 1..Len(calls) : \E m \in 0..n : WrittenTo(a, calls[c], place[c], m)
  /\ \A c, d \in 1..Len(calls) : c < d => place[c] < place[d]

\* A marker is behind all of them, and then there is white space only.
MarkerRead(a, place, n) ==
  \E i \in 1..n : /\ a[i] = "open" /\ \A m \in (i + 1)..n : a[m] = "nl"
                  /\ \A c \in DOMAIN place : place[c] < i

ReadTo(a, p, place, n) ==
  /\ p.buffer = From(a, n + 1)
  /\ Places(a, p.calls, place, n)
  /\ p.mode = "header" => MarkerRead(a, place, n)
  /\ p.mode = "arguments" /\ p.scan.phase # "complete" =>
       WrittenTo(a, p.calls[Len(p.calls)], place[Len(p.calls)], n)

Placed(B, a) == {p \in Parsers(B) : \E n \in 0..Len(a) : \E place : ReadTo(a, p, place, n)}

LEMMA PlacesLater ==
  ASSUME NEW a, NEW calls, NEW place, NEW n \in Nat, NEW m \in Nat, n <= m, Places(a, calls, place, n)
  PROVE  Places(a, calls, place, m)
<1>1. 1..n \subseteq 1..m /\ 0..n \subseteq 0..m
  OBVIOUS
<1> HIDE DEF WrittenTo
<1> QED
  BY <1>1 DEF Places

\* What is left of a text behind k more tokens.
LEMMA LeftOver ==
  ASSUME NEW B, NEW a \in Seq(B), NEW n \in 0..Len(a), NEW b, b = From(a, n + 1), NEW k \in 0..Len(b)
  PROVE  /\ From(b, k + 1) = From(a, (n + k) + 1) /\ n + k \in 0..Len(a) /\ n <= n + k
         /\ n \in Nat /\ k \in Nat /\ Len(a) \in Nat /\ Len(b) = Len(a) - n
         /\ \A i \in 1..k : b[i] = a[n + i]
<1>1. Len(a) \in Nat /\ n \in Nat
  OBVIOUS
<1>2. b \in Seq(B) /\ Len(b) = Len(a) - n
  <2>1. \A L \in Nat : \A m \in 0..L : 0 \in 0..(L - m)
    OBVIOUS
  <2>2. 0 \in 0..(Len(a) - n)
    BY <1>1, <2>1
  <2>3. CutTwice(B, a, n, 0)
    BY <2>2, OnePieceMore
  <2> QED
    BY <2>3 DEF CutTwice
<1>3. k \in 0..(Len(a) - n)
  BY <1>2
<1>4. /\ From(b, k + 1) = From(a, (n + k) + 1)
      /\ \A i \in 1..(Len(a) - n) : b[i] = a[n + i]
  <2>1. CutTwice(B, a, n, k)
    BY <1>3, OnePieceMore
  <2> QED
    BY <2>1 DEF CutTwice
<1> QED
  BY <1>1, <1>2, <1>3, <1>4

\* The same calls, with k tokens less left.
LEMMA PlacedSame ==
  ASSUME NEW B, NEW a \in Seq(B), NEW p \in Placed(B, a), NEW q \in Parsers(B),
         q.calls = p.calls, NEW k \in 0..Len(p.buffer), q.buffer = From(p.buffer, k + 1),
         \/ q.mode = "text"
         \/ q.mode = "arguments" /\ q.scan.phase = "complete"
         \/ q.mode = p.mode /\ q.scan = p.scan /\ k = 0
  PROVE  q \in Placed(B, a)
<1>0. PICK n \in 0..Len(a) : \E place : ReadTo(a, p, place, n)
  BY DEF Placed
<1>1. PICK place : ReadTo(a, p, place, n)
  BY <1>0
<1>2. p.buffer = From(a, n + 1) /\ Places(a, p.calls, place, n)
  BY <1>1 DEF ReadTo
<1>3. /\ q.buffer = From(a, (n + k) + 1) /\ n + k \in 0..Len(a) /\ n <= n + k
      /\ n \in Nat /\ n + k \in Nat
  BY <1>2, LeftOver
<1>4. Places(a, q.calls, place, n + k)
  BY <1>2, <1>3, PlacesLater
<1>5. ReadTo(a, q, place, n + k)
  <2>1. CASE q.mode = "text"
    BY <1>3, <1>4, <2>1 DEF ReadTo
  <2>2. CASE q.mode = "arguments" /\ q.scan.phase = "complete"
    BY <1>3, <1>4, <2>2 DEF ReadTo
  <2>3. CASE q.mode = p.mode /\ q.scan = p.scan /\ k = 0
    <3>1. n + k = n
      BY <1>3, <2>3
    <3> HIDE DEF WrittenTo, MarkerRead
    <3> QED
      BY <1>1, <1>3, <1>4, <2>3, <3>1 DEF ReadTo
  <2> QED
    BY <2>1, <2>2, <2>3
<1> QED
  BY <1>3, <1>5 DEF Placed

\* A marker, with white space behind it.
LEMMA PlacedMarker ==
  ASSUME NEW B, NEW a \in Seq(B), NEW p \in Placed(B, a), NEW q \in Parsers(B),
         q.calls = p.calls, NEW k \in 1..Len(p.buffer), q.buffer = From(p.buffer, k + 1),
         p.buffer[1] = "open", \A m \in 2..k : p.buffer[m] = "nl",
         q.mode = "header"
  PROVE  q \in Placed(B, a)
<1>0. PICK n \in 0..Len(a) : \E place : ReadTo(a, p, place, n)
  BY DEF Placed
<1>1. PICK place : ReadTo(a, p, place, n)
  BY <1>0
<1>2. p.buffer = From(a, n + 1) /\ Places(a, p.calls, place, n)
  BY <1>1 DEF ReadTo
<1>3. k \in 0..Len(p.buffer)
  OBVIOUS
<1>4. /\ q.buffer = From(a, (n + k) + 1) /\ n + k \in 0..Len(a) /\ n <= n + k
      /\ n \in Nat /\ n + k \in Nat /\ k \in Nat
      /\ \A i \in 1..k : p.buffer[i] = a[n + i]
  BY <1>2, <1>3, LeftOver
<1>5. Places(a, q.calls, place, n + k)
  BY <1>2, <1>4, PlacesLater
<1>6. MarkerRead(a, place, n + k)
  <2>1. n + 1 \in 1..(n + k) /\ k \in 1..k /\ 1 \in 1..k
    BY <1>4
  <2>2. a[n + 1] = "open"
    BY <1>4, <2>1
  <2>3. ASSUME NEW m \in (n + 2)..(n + k) PROVE a[m] = "nl"
    <3>1. m - n \in 2..k /\ m - n \in 1..k /\ n + (m - n) = m
      BY <1>4
    <3> QED
      BY <1>4, <3>1
  <2>4. \A c \in DOMAIN place : place[c] < n + 1
    <3> DEFINE l == Len(p.calls)
    <3>1. place \in [1..l -> 1..n] /\ n \in Nat
      BY <1>2, <1>4 DEF Places
    <3> HIDE DEF l
    <3> QED
      BY <3>1
  <2>5. (n + 1) + 1 = n + 2
    BY <1>4
  <2> QED
    BY <2>1, <2>2, <2>3, <2>4, <2>5 DEF MarkerRead
<1>7. ReadTo(a, q, place, n + k)
  BY <1>4, <1>5, <1>6 DEF ReadTo
<1> QED
  BY <1>4, <1>7 DEF Placed

\* A header, with white space before and behind it: a call without arguments yet.
LEMMA PlacedHeader ==
  ASSUME NEW B, NEW a \in Seq(B), NEW p \in Placed(B, a), NEW q \in Parsers(B),
         p.mode = "header", NEW k \in 1..Len(p.buffer), NEW j \in 1..k,
         p.buffer[j] \in DOMAIN Header, \A m \in 1..k : m # j => p.buffer[m] = "nl",
         q.calls = Append(p.calls, [name |-> Header[p.buffer[j]], arguments |-> << >>]),
         q.buffer = From(p.buffer, k + 1), q.mode = "arguments"
  PROVE  q \in Placed(B, a)
<1>0. PICK n \in 0..Len(a) : \E place : ReadTo(a, p, place, n)
  BY DEF Placed
<1>1. PICK place : ReadTo(a, p, place, n)
  BY <1>0
<1>2. p.buffer = From(a, n + 1) /\ Places(a, p.calls, place, n) /\ MarkerRead(a, place, n)
  BY <1>1 DEF ReadTo
<1>3. k \in 0..Len(p.buffer)
  OBVIOUS
<1>4. /\ q.buffer = From(a, (n + k) + 1) /\ n + k \in 0..Len(a) /\ n <= n + k
      /\ n \in Nat /\ n + k \in Nat /\ k \in Nat /\ j \in Nat
      /\ \A i \in 1..k : p.buffer[i] = a[n + i]
  BY <1>2, <1>3, LeftOver
<1>5. Places(a, p.calls, place, n + k)
  BY <1>2, <1>4, PlacesLater
<1>6. PICK i \in 1..n : /\ a[i] = "open" /\ \A m \in (i + 1)..n : a[m] = "nl"
                        /\ \A c \in DOMAIN place : place[c] < i
  BY <1>2 DEF MarkerRead
<1> DEFINE call == [name |-> Header[p.buffer[j]], arguments |-> << >>]
           last == Len(p.calls) + 1
           longer == [c \in 1..last |-> IF c = last THEN i ELSE place[c]]
<1>7. WrittenTo(a, call, i, n + k)
  <2>1. a[n + j] = p.buffer[j]
    BY <1>4
  <2>2. ASSUME NEW m \in (i + 1)..(n + k), m # n + j PROVE a[m] = "nl"
    <3>1. CASE m <= n
      <4>1. m \in (i + 1)..n
        BY <1>4, <3>1
      <4> QED
        BY <1>6, <4>1
    <3>2. CASE ~(m <= n)
      <4>1. m - n \in 1..k /\ n + (m - n) = m /\ m - n # j
        BY <1>4, <1>6, <2>2, <3>2
      <4> QED
        BY <1>4, <4>1
    <3> QED
      BY <3>1, <3>2
  <2>3. /\ n + j \in Nat /\ n + k + 1 \in Nat /\ i < n + j /\ n + j < n + k + 1
        /\ (n + k + 1) + 0 = (n + k) + 1 /\ (n + k + 1) - 1 = n + k
    BY <1>4, <1>6
  <2>4. call.arguments = << >> /\ Len(call.arguments) = 0 /\ call.name = Header[p.buffer[j]]
    OBVIOUS
  <2> HIDE DEF call
  <2>5. Written(a, call, i, n + j, n + k + 1, n + k)
    BY <1>6, <2>1, <2>2, <2>3, <2>4 DEF Written
  <2> QED
    BY <2>3, <2>5 DEF WrittenTo
<1>8. /\ p.calls \in Seq(ParsedCalls(B)) /\ last \in Nat /\ Len(p.calls) \in Nat
      /\ Len(q.calls) = last /\ q.calls[last] = call
      /\ \A c \in 1..Len(p.calls) : q.calls[c] = p.calls[c]
  <2>1. p \in Parsers(B)
    BY DEF Placed
  <2> DEFINE old == p.calls
             new == q.calls
             D == ParsedCalls(B)
             l == Len(old)
  <2>2. old \in Seq(D)
    BY <2>1, ParserFields
  <2> HIDE DEF call
  <2>3. new = Append(old, call)
    BY DEF call
  <2> HIDE DEF D, old, new
  <2>4. l \in Nat /\ Len(new) = l + 1 /\ new[l + 1] = call /\ \A c \in 1..l : new[c] = old[c]
    BY <2>2, <2>3
  <2>5. last = l + 1
    BY DEF old
  <2> HIDE DEF l, last
  <2>6. last \in Nat
    BY <2>4, <2>5
  <2> QED
    BY <2>2, <2>4, <2>5, <2>6 DEF l, old, new, D
<1>9. Places(a, q.calls, longer, n + k)
  <2> HIDE DEF call, WrittenTo
  <2>a. ASSUME NEW c \in 1..last, c # last PROVE c \in 1..Len(p.calls)
    <3> DEFINE l == Len(p.calls)
    <3>1. l \in Nat /\ last = l + 1
      BY <1>8
    <3> HIDE DEF l, last
    <3>2. c \in 1..l
      BY <2>a, <3>1
    <3> QED
      BY <3>2 DEF l
  <2>b. ASSUME NEW c \in 1..last, NEW d \in 1..last, c < d PROVE c # last
    <3>1. last \in Nat
      BY <1>8
    <3> HIDE DEF last
    <3> QED
      BY <2>b, <3>1
  <2>1. ASSUME NEW c \in 1..last PROVE longer[c] \in 1..(n + k) /\ \E m \in 0..(n + k) : WrittenTo(a, q.calls[c], longer[c], m)
    <3>1. CASE c = last
      <4>1. i \in 1..(n + k) /\ n + k \in 0..(n + k)
        BY <1>4, <1>6
      <4> QED
        BY <1>7, <1>8, <3>1, <4>1
    <3>2. CASE c # last
      <4>1. c \in 1..Len(p.calls)
        BY <2>a, <3>2
      <4> QED
        BY <1>5, <1>8, <3>2, <4>1 DEF Places
    <3> QED
      BY <3>1, <3>2
  <2>2. ASSUME NEW c \in 1..last, NEW d \in 1..last, c < d PROVE longer[c] < longer[d]
    <3>1. c \in 1..Len(p.calls) /\ c # last
      BY <2>2, <2>a, <2>b
    <3>2. longer[c] = place[c] /\ DOMAIN place = 1..Len(p.calls)
      BY <1>5, <3>1 DEF Places
    <3>3. CASE d = last
      BY <1>6, <3>1, <3>2, <3>3
    <3>4. CASE d # last
      <4>1. d \in 1..Len(p.calls)
        BY <2>a, <3>4
      <4> QED
        BY <1>5, <2>2, <3>1, <3>2, <3>4, <4>1 DEF Places
    <3> QED
      BY <3>3, <3>4
  <2>3. longer \in [1..last -> 1..(n + k)]
    BY <2>1
  <2> HIDE DEF longer
  <2> QED
    BY <1>8, <2>1, <2>2, <2>3 DEF Places
<1>10. WrittenTo(a, q.calls[Len(q.calls)], longer[Len(q.calls)], n + k)
  <2>1. longer[last] = i
    BY <1>8
  <2> HIDE DEF call, longer, WrittenTo
  <2> QED
    BY <1>7, <1>8, <2>1
<1>11. ReadTo(a, q, longer, n + k)
  <2> HIDE DEF call, longer, WrittenTo
  <2> QED
    BY <1>4, <1>9, <1>10 DEF ReadTo
<1> QED
  BY <1>4, <1>11 DEF Placed

\* The arguments of the last call go on with k tokens of the buffer.
GoesOn(p, q, k) ==
  LET last == Len(p.calls)
  IN  /\ Len(q.calls) = last /\ q.mode = "arguments" /\ q.buffer = From(p.buffer, k + 1)
      /\ \A c \in 1..last : c # last => q.calls[c] = p.calls[c]
      /\ q.calls[last].name = p.calls[last].name
      /\ q.calls[last].arguments = p.calls[last].arguments \o SubSeq(p.buffer, 1, k)

LEMMA PlacedArguments ==
  ASSUME NEW B, NEW a \in Seq(B), NEW p \in Placed(B, a), NEW q \in Parsers(B),
         p.mode = "arguments", p.scan.phase # "complete",
         NEW k \in 0..Len(p.buffer), GoesOn(p, q, k)
  PROVE  q \in Placed(B, a)
<1> DEFINE last == Len(p.calls)
           part == SubSeq(p.buffer, 1, k)
           old == p.calls[last].arguments
           new == q.calls[last].arguments
<1>g. /\ Len(q.calls) = last /\ q.mode = "arguments" /\ q.buffer = From(p.buffer, k + 1)
      /\ \A c \in 1..last : c # last => q.calls[c] = p.calls[c]
      /\ q.calls[last].name = p.calls[last].name /\ new = old \o part
  BY DEF GoesOn
<1> HIDE DEF last, part, old, new
<1>0. PICK n \in 0..Len(a) : \E place : ReadTo(a, p, place, n)
  BY DEF Placed
<1>1. PICK place : ReadTo(a, p, place, n)
  BY <1>0
<1>2. /\ p.buffer = From(a, n + 1) /\ Places(a, p.calls, place, n)
      /\ WrittenTo(a, p.calls[last], place[last], n)
  BY <1>1 DEF ReadTo, last
<1>3. p \in Parsers(B)
  BY DEF Placed
<1>4. /\ q.buffer = From(a, (n + k) + 1) /\ n + k \in 0..Len(a) /\ n <= n + k
      /\ n \in Nat /\ n + k \in Nat /\ k \in Nat
      /\ \A i \in 1..k : p.buffer[i] = a[n + i]
  BY <1>2, <1>g, LeftOver
<1>5. Places(a, p.calls, place, n + k)
  BY <1>2, <1>4, PlacesLater
<1>6. last \in 1..last /\ last \in Nat /\ old \in Seq(B)
  <2>1. p.calls \in Seq(ParsedCalls(B)) /\ p.calls # << >>
    BY <1>3, ParserFields DEF InStep
  <2>2. last \in 1..last /\ last \in Nat /\ p.calls[last] \in ParsedCalls(B)
    BY <2>1 DEF last
  <2> QED
    BY <2>2 DEF ParsedCalls, old
<1>7. part \in Seq(B) /\ Len(part) = k /\ \A i \in 1..k : part[i] = p.buffer[i]
  <2>1. p.buffer \in Seq(B)
    BY <1>3, ParserFields
  <2> QED
    BY <2>1, Beginning DEF part
<1>8. /\ Len(old) \in Nat /\ Len(new) = Len(old) + k
      /\ \A i \in 1..Len(old) : new[i] = old[i]
      /\ \A i \in 1..k : new[Len(old) + i] = part[i]
  <2>2. \A x, y \in Seq(B) :
           /\ Len(x) \in Nat /\ Len(x \o y) = Len(x) + Len(y)
           /\ \A i \in 1..Len(x) : (x \o y)[i] = x[i]
           /\ \A i \in 1..Len(y) : (x \o y)[Len(x) + i] = y[i]
    BY TextJoined
  <2> QED
    BY <1>6, <1>7, <1>g, <2>2
<1>9. WrittenTo(a, q.calls[last], place[last], n + k)
  <2>1. PICK j \in Nat, s \in Nat : Written(a, p.calls[last], place[last], j, s, n)
    BY <1>2 DEF WrittenTo
  <2>2. /\ place[last] < j /\ j < s /\ s + Len(old) = n + 1
        /\ a[place[last]] = "open" /\ a[j] \in DOMAIN Header /\ Header[a[j]] = p.calls[last].name
        /\ \A m \in (place[last] + 1)..(s - 1) : m # j => a[m] = "nl"
        /\ \A m \in 1..Len(old) : old[m] = a[s + m - 1]
    BY <2>1 DEF Written, old
  <2>6. s + Len(old) = n + 1
    BY <2>2
  <2>7. n \in Nat /\ k \in Nat /\ Len(old) \in Nat /\ Len(new) = Len(old) + k
    BY <1>4, <1>8
  <2>3. s + Len(new) = (n + k) + 1
    BY <2>1, <2>6, <2>7
  <2>4. ASSUME NEW m \in 1..Len(new) PROVE new[m] = a[s + m - 1]
    <3>1. CASE m <= Len(old)
      <4>1. m \in 1..Len(old)
        BY <1>4, <1>8, <3>1
      <4> QED
        BY <1>8, <2>2, <4>1
    <3>2. CASE ~(m <= Len(old))
      <4>1. m - Len(old) \in 1..k /\ Len(old) + (m - Len(old)) = m /\ n + (m - Len(old)) = s + m - 1
        BY <2>1, <2>6, <2>7, <3>2
      <4>2. new[m] = part[m - Len(old)]
        BY <1>8, <4>1
      <4>3. part[m - Len(old)] = a[n + (m - Len(old))]
        BY <1>4, <1>7, <4>1
      <4> QED
        BY <4>1, <4>2, <4>3
    <3> QED
      BY <3>1, <3>2
  <2>5. Written(a, q.calls[last], place[last], j, s, n + k)
    BY <1>g, <2>2, <2>3, <2>4 DEF Written, new
  <2> QED
    BY <2>1, <2>5 DEF WrittenTo
<1> HIDE DEF WrittenTo
<1>10. Places(a, q.calls, place, n + k)
  <2>1. ASSUME NEW c \in 1..last PROVE \E m \in 0..(n + k) : WrittenTo(a, q.calls[c], place[c], m)
    <3>1. CASE c = last
      <4>1. n + k \in 0..(n + k)
        BY <1>4
      <4> QED
        BY <1>9, <3>1, <4>1
    <3>2. CASE c # last
      BY <1>5, <1>g, <3>2 DEF Places, last
    <3> QED
      BY <3>1, <3>2
  <2> QED
    BY <1>5, <1>g, <2>1 DEF Places, last
<1>11. ReadTo(a, q, place, n + k)
  BY <1>4, <1>9, <1>10, <1>g DEF ReadTo
<1> QED
  BY <1>4, <1>11 DEF Placed

\* What waits or fails is as it was.
LEMMA PlacedStatus ==
  ASSUME NEW B, NEW a \in Seq(B), NEW p \in Placed(B, a)
  PROVE  Waits(p) \in Placed(B, a) /\ Fails(p) \in Placed(B, a)
<1>1. p \in Parsers(B)
  BY DEF Placed
<1>2. p \in ParserRecords(B) /\ p.buffer \in Seq(B)
  BY <1>1, ParserFields
<1>3. 0 \in 0..Len(p.buffer) /\ p.buffer = From(p.buffer, 0 + 1)
  BY <1>2, WholeBeginning
<1>4. ASSUME NEW status
      PROVE  LET q == [p EXCEPT !.status = status]
             IN  q.calls = p.calls /\ q.buffer = p.buffer /\ q.mode = p.mode /\ q.scan = p.scan
  BY <1>2 DEF ParserRecords
<1>5. ASSUME NEW q \in Parsers(B), q.calls = p.calls, q.buffer = p.buffer, q.mode = p.mode, q.scan = p.scan
      PROVE  q \in Placed(B, a)
  <2>1. q.buffer = From(p.buffer, 0 + 1)
    BY <1>3, <1>5
  <2> QED
    BY <1>3, <1>5, <2>1, PlacedSame
<1>6. Waits(p) \in Parsers(B) /\ Fails(p) \in Parsers(B)
  BY <1>1, WaitsTyped
<1> QED
  BY <1>4, <1>5, <1>6 DEF Waits, Fails

LEMMA TextEventPlaced ==
  ASSUME NEW B, NEW a \in Seq(B), NEW p \in Placed(B, a), p.mode = "text"
  PROVE  TextEvent(p) \in Placed(B, a)
<1> DEFINE open == First(p.buffer, "open")
           rest == From(p.buffer, 2)
           n == Spaces(p, rest)
           e == TextEvent(p)
<1>0. p \in Parsers(B)
  BY DEF Placed
<1>1. p.buffer \in Seq(B) /\ Len(p.buffer) \in Nat /\ p \in ParserRecords(B)
  BY <1>0, ParserFields
<1>2. open \in 0..Len(p.buffer) /\ (open > 0 => p.buffer[open] = "open")
  BY <1>1, FirstIs
<1>3. e =
        IF p.buffer = << >> THEN Waits(p)
        ELSE IF open = 0 THEN [p EXCEPT !.buffer = << >>]
        ELSE IF open > 1 THEN [p EXCEPT !.buffer = From(p.buffer, open)]
        ELSE IF SpaceMissing(p, rest) \/ SpaceOpen(p, rest) THEN Waits(p)
        ELSE [p EXCEPT !.mode = "header", !.buffer = From(rest, n + 1)]
  BY DEF TextEvent, First
<1>4. e \in Parsers(B)
  BY <1>0, TextEventTyped
<1>5. Waits(p) \in Placed(B, a)
  BY PlacedStatus
<1>6. ASSUME NEW k \in 0..Len(p.buffer), e = [p EXCEPT !.buffer = From(p.buffer, k + 1)]
      PROVE  e \in Placed(B, a)
  <2> HIDE DEF e
  <2>1. e.calls = p.calls /\ e.mode = "text" /\ e.buffer = From(p.buffer, k + 1)
    BY <1>1, <1>6 DEF ParserRecords
  <2> QED
    BY <1>4, <2>1, PlacedSame
<1>7. ASSUME open = 0, e = [p EXCEPT !.buffer = << >>] PROVE e \in Placed(B, a)
  <2>1. From(p.buffer, Len(p.buffer) + 1) = << >> /\ Len(p.buffer) \in 0..Len(p.buffer)
    BY <1>1, WholeBeginning
  <2> HIDE DEF e
  <2> QED
    BY <1>6, <1>7, <2>1 DEF e
<1>8. ASSUME open > 1, e = [p EXCEPT !.buffer = From(p.buffer, open)] PROVE e \in Placed(B, a)
  <2> HIDE DEF open
  <2>1. open - 1 \in 0..Len(p.buffer) /\ (open - 1) + 1 = open
    BY <1>1, <1>2, <1>8
  <2> HIDE DEF e
  <2> QED
    BY <1>6, <1>8, <2>1 DEF e
<1>9. ASSUME open = 1, ~(SpaceMissing(p, rest) \/ SpaceOpen(p, rest)),
             e = [p EXCEPT !.mode = "header", !.buffer = From(rest, n + 1)]
      PROVE  e \in Placed(B, a)
  <2>1. 1 \in 0..Len(p.buffer) /\ Len(p.buffer) > 0
    BY <1>1, <1>2, <1>9
  <2>2. rest \in Seq(B) /\ Len(rest) = Len(p.buffer) - 1 /\ Blanks(rest) \in 0..Len(rest)
        /\ \A i \in 1..Blanks(rest) : rest[i] = "nl"
    <3>1. 2 \in 1..(Len(p.buffer) + 1)
      BY <1>1, <2>1
    <3>2. rest \in Seq(B) /\ Len(rest) = Len(p.buffer) + 1 - 2
      BY <1>1, <3>1, FromText
    <3> HIDE DEF rest
    <3>3. Len(rest) = Len(p.buffer) - 1
      BY <1>1, <3>2
    <3> QED
      BY <3>2, <3>3, BlanksAre
  <2>3. n \in 0..Len(rest) /\ \A i \in 1..n : rest[i] = "nl"
    <3> HIDE DEF rest
    <3>1. n \in 0..Len(rest)
      BY <1>0, <1>9, <2>2, SpacesAre
    <3>2. CASE p.format = "qwen"
      <4>1. n = 1 /\ rest # << >> /\ Blanks(rest) # 0
        BY <1>9, <3>2 DEF Spaces, SpaceOpen, SpaceMissing
      <4>2. 1 \in 1..Blanks(rest)
        BY <2>2, <4>1
      <4> QED
        BY <2>2, <3>1, <4>1, <4>2
    <3>3. CASE p.format # "qwen"
      <4>1. n = Blanks(rest)
        BY <3>3 DEF Spaces
      <4> QED
        BY <2>2, <3>1, <4>1
    <3> QED
      BY <3>2, <3>3
  <2> HIDE DEF n
  <2>4. /\ From(rest, n + 1) = From(p.buffer, (1 + n) + 1) /\ 1 + n \in 0..Len(p.buffer) /\ n \in Nat
        /\ \A i \in 1..n : rest[i] = p.buffer[1 + i]
    <3>1. rest = From(p.buffer, 1 + 1)
      OBVIOUS
    <3> HIDE DEF rest
    <3> QED
      BY <1>1, <2>1, <2>3, <3>1, LeftOver
  <2>5. 1 + n \in 1..Len(p.buffer)
    BY <1>1, <2>4
  <2>6. ASSUME NEW m \in 2..(1 + n) PROVE p.buffer[m] = "nl"
    <3>1. m - 1 \in 1..n /\ 1 + (m - 1) = m
      BY <2>4
    <3> QED
      BY <2>3, <2>4, <3>1
  <2> HIDE DEF e, rest
  <2>7. e.calls = p.calls /\ e.mode = "header" /\ e.buffer = From(p.buffer, (1 + n) + 1)
    BY <1>1, <1>9, <2>4 DEF ParserRecords, e
  <2>8. p.buffer[1] = "open"
    <3> HIDE DEF open
    <3> QED
      BY <1>2, <1>9
  <2> QED
    BY <1>4, <2>5, <2>6, <2>7, <2>8, PlacedMarker DEF e
<1>10. open = 0 \/ open > 1 \/ open = 1
  BY <1>1, <1>2
<1> HIDE DEF e, open
<1> QED
  BY <1>3, <1>5, <1>7, <1>8, <1>9, <1>10 DEF e

LEMMA HeaderEventPlaced ==
  ASSUME NEW B, NEW a \in Seq(B), NEW p \in Placed(B, a), p.mode = "header"
  PROVE  HeaderEvent(p) \in Placed(B, a)
<1> DEFINE start == Blanks(p.buffer) + 1
           rest  == From(p.buffer, start + 1)
           r     == Blanks(rest)
           e     == HeaderEvent(p)
<1>0. p \in Parsers(B)
  BY DEF Placed
<1>1. p.buffer \in Seq(B) /\ Len(p.buffer) \in Nat /\ p \in ParserRecords(B)
  BY <1>0, ParserFields
<1>2. start \in 1..(Len(p.buffer) + 1) /\ \A i \in 1..(start - 1) : p.buffer[i] = "nl"
  <2>1. Blanks(p.buffer) \in 0..Len(p.buffer) /\ \A i \in 1..Blanks(p.buffer) : p.buffer[i] = "nl"
    BY <1>1, BlanksAre
  <2>2. start - 1 = Blanks(p.buffer) /\ start \in 1..(Len(p.buffer) + 1)
    BY <1>1, <2>1
  <2> QED
    BY <2>1, <2>2
<1>3. e =
        IF start > Len(p.buffer) THEN Waits(p)
        ELSE IF p.buffer[start] \notin DOMAIN Header \cup {"half"} THEN Fails(p)
        ELSE IF Blanks(rest) = Len(rest) THEN Waits(p)
        ELSE IF p.buffer[start] = "half" THEN Fails(p)
        ELSE [p EXCEPT !.mode = "arguments", !.scan = NewScan, !.buffer = From(rest, r + 1),
                       !.calls = Append(@, [name |-> Header[p.buffer[start]], arguments |-> << >>])]
  BY DEF HeaderEvent
<1>4. e \in Parsers(B)
  BY <1>0, HeaderEventTyped
<1>5. Waits(p) \in Placed(B, a) /\ Fails(p) \in Placed(B, a)
  BY PlacedStatus
<1> HIDE DEF start
<1>6. ASSUME ~(start > Len(p.buffer)), p.buffer[start] \in DOMAIN Header, r # Len(rest),
             e = [p EXCEPT !.mode = "arguments", !.scan = NewScan, !.buffer = From(rest, r + 1),
                           !.calls = Append(@, [name |-> Header[p.buffer[start]], arguments |-> << >>])]
      PROVE  e \in Placed(B, a)
  <2>1. start \in 0..Len(p.buffer) /\ start \in Nat
    BY <1>1, <1>2, <1>6
  <2>2. rest \in Seq(B) /\ Len(rest) \in Nat
    <3>1. start + 1 \in 1..(Len(p.buffer) + 1)
      BY <1>1, <1>2, <2>1
    <3> HIDE DEF e
    <3> QED
      BY <1>1, <3>1, FromText
  <2> HIDE DEF rest, e
  <2>3. r \in 0..Len(rest) /\ \A i \in 1..r : rest[i] = "nl"
    BY <2>2, BlanksAre
  <2> HIDE DEF r
  <2>4. /\ From(rest, r + 1) = From(p.buffer, (start + r) + 1) /\ start + r \in 0..Len(p.buffer) /\ r \in Nat
        /\ \A i \in 1..r : rest[i] = p.buffer[start + i]
    <3>1. rest = From(p.buffer, start + 1)
      BY DEF rest
    <3> QED
      BY <1>1, <2>1, <2>3, <3>1, LeftOver
  <2>5. start + r \in 1..Len(p.buffer) /\ start \in 1..(start + r)
    BY <1>1, <1>2, <2>1, <2>4
  <2>6. ASSUME NEW m \in 1..(start + r), m # start PROVE p.buffer[m] = "nl"
    <3>1. CASE m < start
      <4>1. m \in 1..(start - 1)
        BY <2>1, <2>4, <3>1
      <4> QED
        BY <1>2, <4>1
    <3>2. CASE ~(m < start)
      <4>1. m - start \in 1..r /\ start + (m - start) = m
        BY <2>1, <2>4, <2>6, <3>2
      <4> QED
        BY <2>3, <2>4, <4>1
    <3> QED
      BY <3>1, <3>2
  <2>7. /\ e.calls = Append(p.calls, [name |-> Header[p.buffer[start]], arguments |-> << >>])
        /\ e.mode = "arguments" /\ e.buffer = From(p.buffer, (start + r) + 1)
    <3> DEFINE call == [name |-> Header[p.buffer[start]], arguments |-> << >>]
               left == From(rest, r + 1)
    <3>1. e = [p EXCEPT !.mode = "arguments", !.scan = NewScan, !.buffer = left, !.calls = Append(@, call)]
      BY <1>6 DEF r
    <3> HIDE DEF call, left
    <3>2. e.calls = Append(p.calls, call) /\ e.mode = "arguments" /\ e.buffer = left
      BY <1>1, <3>1 DEF ParserRecords
    <3> QED
      BY <2>4, <3>2 DEF call, left
  <2>8. e \in Parsers(B)
    BY <1>4 DEF e
  <2>9. e \in Placed(B, a)
    BY <1>6, <2>5, <2>6, <2>7, <2>8, PlacedHeader
  <2> QED
    BY <2>9 DEF e
<1> HIDE DEF e, rest, r
<1>7. CASE start > Len(p.buffer)
  BY <1>3, <1>5, <1>7 DEF e
<1>8. CASE ~(start > Len(p.buffer)) /\ p.buffer[start] \notin DOMAIN Header
  <2>1. e = Waits(p) \/ e = Fails(p)
    BY <1>3, <1>8
  <2> QED
    BY <1>5, <2>1 DEF e
<1>9. CASE ~(start > Len(p.buffer)) /\ p.buffer[start] \in DOMAIN Header
  <2>1. CASE Blanks(rest) = Len(rest) \/ p.buffer[start] = "half"
    <3>1. e = Waits(p) \/ e = Fails(p)
      BY <1>3, <1>9, <2>1
    <3> QED
      BY <1>5, <3>1 DEF e
  <2>2. CASE ~(Blanks(rest) = Len(rest) \/ p.buffer[start] = "half")
    <3>1. r # Len(rest)
      BY <2>2 DEF r
    <3>2. e = [p EXCEPT !.mode = "arguments", !.scan = NewScan, !.buffer = From(rest, r + 1),
                        !.calls = Append(@, [name |-> Header[p.buffer[start]], arguments |-> << >>])]
      BY <1>3, <1>9, <2>2
    <3>3. e \in Placed(B, a)
      BY <1>6, <1>9, <3>1, <3>2
    <3> QED
      BY <3>3 DEF e
  <2> QED
    BY <2>1, <2>2
<1> QED
  BY <1>7, <1>8, <1>9

LEMMA CloseEventPlaced ==
  ASSUME NEW B, NEW a \in Seq(B), NEW p \in Placed(B, a)
  PROVE  CloseEvent(p) \in Placed(B, a)
<1> DEFINE rest == From(p.buffer, 2)
           n    == Spaces(p, rest)
           end  == From(rest, n + 1)
           e    == CloseEvent(p)
<1>0. p \in Parsers(B)
  BY DEF Placed
<1>1. p.buffer \in Seq(B) /\ Len(p.buffer) \in Nat /\ p \in ParserRecords(B)
  BY <1>0, ParserFields
<1>2. e =
        IF p.buffer = << >> THEN Waits(p)
        ELSE IF p.buffer[1] # "}" \/ SpaceMissing(p, rest) THEN Fails(p)
        ELSE IF SpaceOpen(p, rest) \/ end \in {<< >>, <<"cut">>} THEN Waits(p)
        ELSE IF end[1] # "close" THEN Fails(p)
        ELSE [p EXCEPT !.mode = "text", !.buffer = From(end, 2)]
  BY DEF CloseEvent
<1>3. e \in Parsers(B)
  BY <1>0, CloseEventTyped
<1>4. Waits(p) \in Placed(B, a) /\ Fails(p) \in Placed(B, a)
  BY PlacedStatus
<1>5. ASSUME p.buffer # << >>, ~SpaceOpen(p, rest), end # << >>,
             e = [p EXCEPT !.mode = "text", !.buffer = From(end, 2)]
      PROVE  e \in Placed(B, a)
  <2>1. 1 \in 0..Len(p.buffer) /\ 2 \in 1..(Len(p.buffer) + 1)
    BY <1>1, <1>5
  <2> HIDE DEF e
  <2>2. rest \in Seq(B) /\ Len(rest) \in Nat
    BY <1>1, <2>1, FromText
  <2> HIDE DEF rest
  <2>3. n \in 0..Len(rest) /\ end \in Seq(B)
    BY <1>0, <1>5, <2>2, SpacesAre
  <2> HIDE DEF n
  <2>4. end = From(p.buffer, (1 + n) + 1) /\ 1 + n \in 0..Len(p.buffer) /\ n \in Nat
    <3>1. rest = From(p.buffer, 1 + 1)
      BY DEF rest
    <3> QED
      BY <1>1, <2>1, <2>3, <3>1, LeftOver
  <2> HIDE DEF end
  <2>5. 1 \in 0..Len(end)
    BY <1>5, <2>3
  <2>6. From(end, 1 + 1) = From(p.buffer, ((1 + n) + 1) + 1) /\ (1 + n) + 1 \in 0..Len(p.buffer)
    <3> DEFINE i == 1 + n
    <3>1. end = From(p.buffer, i + 1) /\ i \in 0..Len(p.buffer)
      BY <2>4
    <3> HIDE DEF i
    <3>2. From(end, 1 + 1) = From(p.buffer, (i + 1) + 1) /\ i + 1 \in 0..Len(p.buffer)
      BY <1>1, <2>5, <3>1, LeftOver
    <3> QED
      BY <3>2 DEF i
  <2> DEFINE left == From(end, 2)
  <2>7. left = From(p.buffer, ((1 + n) + 1) + 1) /\ e = [p EXCEPT !.mode = "text", !.buffer = left]
    BY <1>5, <2>6 DEF e, n, rest, end
  <2> HIDE DEF left
  <2>8. e.calls = p.calls /\ e.mode = "text" /\ e.buffer = left
    BY <1>1, <2>7 DEF ParserRecords
  <2>9. e \in Parsers(B)
    BY <1>3 DEF e
  <2>10. e \in Placed(B, a)
    BY <2>6, <2>7, <2>8, <2>9, PlacedSame
  <2> QED
    BY <2>10 DEF e
<1> HIDE DEF e, rest, end, n
<1>6. e = Waits(p) \/ e = Fails(p) \/ (p.buffer # << >> /\ ~SpaceOpen(p, rest) /\ end # << >> /\ e = [p EXCEPT !.mode = "text", !.buffer = From(end, 2)])
  BY <1>2
<1>7. e \in Placed(B, a)
  BY <1>4, <1>5, <1>6
<1> QED
  BY <1>7 DEF e

LEMMA ArgumentsEventPlaced ==
  ASSUME NEW B, NEW a \in Seq(B), NEW p \in Placed(B, a), p.mode = "arguments", p.scan.phase # "complete"
  PROVE  ArgumentsEvent(p) \in Placed(B, a)
<1> DEFINE n == Taken(p.scan, p.buffer)
           part == SubSeq(p.buffer, 1, n)
           t == Scanned(p.scan, part)
           last == Len(p.calls)
           old == p.calls[last].arguments
           e == ArgumentsEvent(p)
<1>0. p \in Parsers(B)
  BY DEF Placed
<1>1. /\ p.buffer \in Seq(B) /\ p \in ParserRecords(B) /\ p.scan \in Scans /\ InStep(p)
      /\ p.calls \in Seq(ParsedCalls(B))
  BY <1>0, ParserFields
<1>2. e \in Parsers(B)
  BY <1>0, ArgumentsEventTyped
<1>3. Waits(p) \in Placed(B, a) /\ Fails(p) \in Placed(B, a)
  BY PlacedStatus
<1>4. n \in 0..Len(p.buffer)
  BY <1>1, TakenIs
<1>5. CASE p.buffer = << >>
  <2>1. e = Waits(p)
    BY <1>5 DEF ArgumentsEvent
  <2> QED
    BY <1>3, <2>1
<1>6. CASE p.buffer # << >> /\ t.phase = "failed"
  <2>1. e = Took(p, n)
    BY <1>6, ArgumentsEventIs
  <2> HIDE DEF e, n
  <2>2. e = Fails(p)
    BY <1>6, <2>1 DEF Took
  <2> QED
    BY <1>3, <2>2 DEF e
<1>7. CASE p.buffer # << >> /\ t.phase # "failed"
  <2>1. e = Took(p, n)
    BY <1>7, ArgumentsEventIs
  <2>2. e = [p EXCEPT !.scan = t, !.buffer = From(p.buffer, n + 1), !.calls[last].arguments = @ \o part]
    <3> HIDE DEF e
    <3> QED
      BY <1>7, <2>1 DEF Took
  <2>3. last \in 1..last /\ p.calls[last] \in ParsedCalls(B)
    BY <1>1 DEF InStep
  <2> DEFINE left == From(p.buffer, n + 1)
  <2> HIDE DEF t, n, part, e, last, left
  <2>4. /\ e.mode = p.mode /\ e.buffer = left
        /\ e.calls = [p.calls EXCEPT ![last].arguments = @ \o part]
    <3>1. e = [p EXCEPT !.scan = t, !.buffer = left, !.calls[last].arguments = @ \o part]
      BY <2>2 DEF left
    <3> QED
      BY <1>1, <3>1 DEF ParserRecords
  <2>5. /\ Len(e.calls) = last /\ e.calls[last].arguments = old \o part /\ e.calls[last].name = p.calls[last].name
        /\ \A i \in 1..last : i # last => e.calls[i] = p.calls[i]
    <3> DEFINE longer == [p.calls[last] EXCEPT !.arguments = @ \o part]
    <3>1. e.calls = [p.calls EXCEPT ![last] = longer]
      BY <2>4
    <3>2. longer.arguments = old \o part /\ longer.name = p.calls[last].name
      BY <2>3 DEF ParsedCalls
    <3> HIDE DEF longer, old
    <3>a. Len(p.calls) = last /\ p.calls \in Seq(ParsedCalls(B))
      BY <1>1 DEF last
    <3>3. Len(e.calls) = last /\ e.calls[last] = longer /\ \A i \in 1..last : i # last => e.calls[i] = p.calls[i]
      BY <2>3, <3>1, <3>a, SMTT(30)
    <3> QED
      BY <3>2, <3>3
  <2> HIDE DEF old
  <2>6. GoesOn(p, e, n)
    BY <2>4, <2>5 DEF GoesOn, last, part, old, left
  <2>7. e \in Parsers(B)
    BY <1>2 DEF e
  <2>8. n \in 0..Len(p.buffer)
    BY <1>4 DEF n
  <2>9. e \in Placed(B, a)
    BY <2>6, <2>7, <2>8, PlacedArguments
  <2> QED
    BY <2>9 DEF e
<1> QED
  BY <1>5, <1>6, <1>7

LEMMA EventPlaced ==
  ASSUME NEW B, NEW a \in Seq(B), NEW p \in Placed(B, a)
  PROVE  NextEvent(p) \in Placed(B, a)
<1>1. p.mode \in {"text", "header", "arguments"}
  <2>1. p \in Parsers(B)
    BY DEF Placed
  <2> QED
    BY <2>1, ParserFields DEF Modes
<1>2. CASE p.mode = "text"
  BY <1>2, TextEventPlaced DEF NextEvent
<1>3. CASE p.mode = "header"
  BY <1>3, HeaderEventPlaced DEF NextEvent
<1>4. CASE p.mode = "arguments" /\ p.scan.phase = "complete"
  BY <1>4, CloseEventPlaced DEF NextEvent
<1>5. CASE p.mode = "arguments" /\ p.scan.phase # "complete"
  BY <1>5, ArgumentsEventPlaced DEF NextEvent
<1> QED
  BY <1>1, <1>2, <1>3, <1>4, <1>5

\* The calls that a parser has read stand where it has read them.
LEMMA ReadPlaced ==
  ASSUME NEW B, NEW a \in Seq(B), NEW format \in {"hermes", "qwen"}
  PROVE  Push(NewParser(format), a) \in Placed(B, a)
<1> DEFINE z == NewParser(format)
           g == Give(z, a)
           K == Placed(B, a)
<1>1. /\ z \in Parsers(B) /\ z.mode = "text" /\ z.calls = << >> /\ z.buffer = << >>
  BY NewParserTyped
<1> HIDE DEF z
<1>2. /\ g \in Parsers(B) /\ g.mode = "text" /\ g.calls = << >> /\ g.buffer = a /\ g.status = "ready"
  <2>1. g \in Parsers(B)
    BY <1>1, GiveTyped
  <2>2. g.mode = z.mode /\ g.calls = z.calls /\ g.buffer = z.buffer \o a /\ g.status = "ready"
    BY <1>1, GiveIs
  <2>3. << >> \o a = a
    BY NoText
  <2> QED
    BY <1>1, <2>1, <2>2, <2>3
<1> HIDE DEF g
<1>3. g \in K
  <2>1. a = From(a, 0 + 1) /\ 0 \in 0..Len(a)
    BY WholeBeginning
  <2>2. Places(a, g.calls, << >>, 0)
    <3>1. Len(g.calls) = 0 /\ << >> \in [1..0 -> 1..0]
      BY <1>2
    <3> HIDE DEF WrittenTo
    <3> QED
      BY <3>1 DEF Places
  <2>3. ReadTo(a, g, << >>, 0)
    BY <1>2, <2>1, <2>2 DEF ReadTo
  <2> QED
    BY <1>2, <2>1, <2>3 DEF Placed
<1>4. K \in SUBSET Parsers(B)
  BY DEF Placed
<1>5. \A p \in K : p.status = "ready" => NextEvent(p) \in K
  BY EventPlaced
<1> HIDE DEF K
<1>6. Run(g) \in K
  BY <1>2, <1>3, <1>4, <1>5, RunStays
<1>7. Push(z, a) = Run(g)
  BY PushIs DEF g
<1> QED
  BY <1>6, <1>7 DEF z, K

-----------------------------------------------------------------------------
(***************************************************************************)
(* A call with whole arguments, by itself.                                  *)
(***************************************************************************)
LEMMA WholeBegins ==
  ASSUME NEW B, NEW args \in Seq(B), WholeObject(args)
  PROVE  args # << >> /\ Len(args) \in Nat /\ Len(args) > 0 /\ args[1] = "{" /\ args[1] # "nl"
<1>1. Scanned(NewScan, args).phase = "complete"
  BY DEF WholeObject
<1>2. NewScan.phase = "initial" /\ NewScan \in Scans
  BY NewScanTyped DEF NewScan
<1>3. args # << >>
  BY <1>1, <1>2, ScannedEmpty
<1>4. Len(args) \in Nat /\ Len(args) > 0 /\ 1 \in 0..Len(args) /\ args[1] \in B
  BY <1>3
<1> DEFINE t == args[1]
           rest == From(args, 2)
<1>5. rest \in Seq(B) /\ args = <<t>> \o rest
  <2>1. SubSeq(args, 1, 1) = <<t>>
    <3>1. /\ SubSeq(args, 1, 1) \in Seq(B) /\ Len(SubSeq(args, 1, 1)) = 1
          /\ \A k \in 1..1 : SubSeq(args, 1, 1)[k] = args[k]
      BY <1>4, Beginning
    <3>2. SubSeq(args, 1, 1)[1] = t
      BY <3>1
    <3>3. \A T : \A x \in Seq(T) : Len(x) = 1 => x = <<x[1]>>
      OBVIOUS
    <3> HIDE DEF t
    <3> QED
      BY <3>1, <3>2, <3>3
  <2>2. /\ From(args, 1 + 1) \in Seq(B) /\ args = SubSeq(args, 1, 1) \o From(args, 1 + 1)
    BY <1>4, Beginning
  <2>3. rest = From(args, 1 + 1)
    OBVIOUS
  <2> HIDE DEF rest, t
  <2> QED
    BY <2>1, <2>2, <2>3
<1>6. t \in B
  BY <1>4
<1> HIDE DEF rest, t
<1>7. Scanned(NewScan, args) = Scanned(Scan(NewScan, t), rest)
  <2> DEFINE one == <<t>>
  <2>1. Scanned(NewScan, one) = Scan(NewScan, t) /\ one \in Seq(B)
    BY <1>2, <1>6, OneToken
  <2>2. rest \in Seq(B) /\ NewScan \in Scans
    BY <1>2, <1>5
  <2>3. args = one \o rest
    BY <1>5
  <2> HIDE DEF one
  <2>4. one \in Seq(B)
    BY <2>1
  <2>5. Scanned(NewScan, one \o rest) = Scanned(Scanned(NewScan, one), rest)
    BY <2>2, <2>4, ScannedJoined
  <2> QED
    BY <2>1, <2>3, <2>5
<1>8. t = "{"
  <2>1. SUFFICES ASSUME t # "{" PROVE FALSE
    OBVIOUS
  <2>2. Scan(NewScan, t).phase = "failed"
    BY <2>1 DEF Scan, NewScan
  <2>3. Scan(NewScan, t) \in Scans
    BY <1>2, ScanTyped
  <2>4. Scanned(NewScan, args).phase = "failed"
    BY <1>5, <1>7, <2>2, <2>3, ScannedStays
  <2> QED
    BY <1>1, <2>4
<1>9. args[1] = "{"
  BY <1>8 DEF t
<1> QED
  BY <1>3, <1>4, <1>9

\* A whole object is taken at once.
LEMMA WholeTaken ==
  ASSUME NEW B, NEW args \in Seq(B), WholeObject(args)
  PROVE  Taken(NewScan, args) = Len(args)
<1>1. \A k \in 1..Len(args) : k < Len(args) => Scanned(NewScan, SubSeq(args, 1, k)).phase # "complete"
  BY DEF WholeObject, OpenObject
<1>2. Len(args) \in 0..Len(args)
  OBVIOUS
<1> QED
  BY <1>1, <1>2, TakenAt

\* A text behind one token.
LEMMA OneThen ==
  ASSUME NEW B, NEW t \in B, NEW c \in Seq(B)
  PROVE  /\ <<t>> \o c \in Seq(B) /\ Len(<<t>> \o c) = Len(c) + 1 /\ (<<t>> \o c)[1] = t
         /\ From(<<t>> \o c, 2) = c /\ <<t>> \o c # << >>
<1> DEFINE one == <<t>>
<1>1. one \in Seq(B) /\ Len(one) = 1 /\ one[1] = t
  OBVIOUS
<1> HIDE DEF one
<1>2. /\ one \o c \in Seq(B) /\ Len(one \o c) = Len(one) + Len(c) /\ Len(c) \in Nat
      /\ \A i \in 1..Len(one) : (one \o c)[i] = one[i]
  BY <1>1, TextJoined
<1>3. From(one \o c, 2) = c
  <2>1. 1 \in 1..(Len(c) + 1) /\ Len(one) + 1 = 2
    BY <1>1, <1>2
  <2>2. From(one \o c, Len(one) + 1) = From(c, 1)
    BY <1>1, <2>1, FromSecond
  <2>3. From(c, 1) = c
    BY WholeBeginning
  <2> QED
    BY <2>1, <2>2, <2>3
<1>4. 1 \in 1..Len(one) /\ Len(one \o c) = Len(c) + 1
  BY <1>1, <1>2
<1>5. (one \o c)[1] = t /\ one \o c # << >>
  BY <1>1, <1>2, <1>4
<1>6. one \o c \in Seq(B) /\ Len(one \o c) = Len(c) + 1 /\ (one \o c)[1] = t
      /\ From(one \o c, 2) = c /\ one \o c # << >>
  BY <1>2, <1>3, <1>4, <1>5
<1> QED
  BY <1>6 DEF one

LEMMA NoBlanks ==
  ASSUME NEW B, NEW text \in Seq(B), Len(text) > 0, text[1] # "nl"
  PROVE  Blanks(text) = 0 /\ From(text, Blanks(text) + 1) = text /\ Blanks(text) # Len(text)
<1>1. Blanks(text) = 0
  <2>1. 0 \in 0..Len(text)
    OBVIOUS
  <2> QED
    BY <2>1, BlanksAt
<1> QED
  BY <1>1, WholeBeginning

\* Its marker and its header are read.
AtArguments(q, h, args) ==
  /\ q.format = "hermes" /\ q.status = "ready" /\ q.mode = "arguments"
  /\ q.scan = NewScan /\ q.buffer = args
  /\ q.calls = Append(<< >>, [name |-> Header[h], arguments |-> << >>])

LEMMA HeaderRead ==
  ASSUME NEW B, "open" \in B, NEW h \in B, h \in DOMAIN Header, NEW args \in Seq(B), WholeObject(args),
         NEW p \in Parsers(B), p.format = "hermes", p.mode = "text", p.status = "ready", p.calls = << >>,
         NEW text \in Seq(B), text[1] = h, Len(text) = Len(args) + 1, From(text, 2) = args,
         p.buffer # << >>, p.buffer[1] = "open", From(p.buffer, 2) = text
  PROVE  \E q \in Parsers(B) : Run(p) = Run(q) /\ AtArguments(q, h, args)
<1> DEFINE call == [name |-> Header[h], arguments |-> << >>]
<1>1. p.buffer \in Seq(B) /\ 1 \in 1..Len(p.buffer)
  <2>1. p.buffer \in Seq(B)
    BY ParserFields
  <2> QED
    BY <2>1
<1>2. h # "nl" /\ h # "half"
  BY HeaderAssumption
<1>3. p \in ParserRecords(B)
  BY ParserFields
<1>4. Len(args) \in Nat /\ Len(args) > 0 /\ args[1] # "nl" /\ Len(text) > 0 /\ Len(text) \in Nat
  <2>1. Len(args) \in Nat /\ Len(args) > 0 /\ args[1] # "nl"
    BY WholeBegins
  <2> QED
    BY <2>1
<1>5. Blanks(text) = 0 /\ From(text, Blanks(text) + 1) = text /\ Blanks(text) # Len(text)
  BY <1>1, <1>2, <1>4, NoBlanks
<1>6. Blanks(args) = 0 /\ From(args, Blanks(args) + 1) = args /\ Blanks(args) # Len(args)
  BY <1>4, NoBlanks
<1> DEFINE e == [p EXCEPT !.mode = "header", !.buffer = text]
<1>7. NextEvent(p) = e
  <2>1. First(p.buffer, "open") = 1
    <3>1. \A i \in 1..(1 - 1) : p.buffer[i] # "open"
      OBVIOUS
    <3> QED
      BY <1>1, <3>1, FirstAt
  <2>2. TextEvent(p) = IF Blanks(text) = Len(text) THEN Waits(p)
                       ELSE [p EXCEPT !.mode = "header", !.buffer = From(text, Blanks(text) + 1)]
    <3> HIDE DEF e, call
    <3>1. p.buffer # << >> /\ text = From(p.buffer, 2)
      OBVIOUS
    <3> QED
      BY <2>1, <3>1, TextAtMarker
  <2>3. TextEvent(p) = e
    BY <1>5, <2>2
  <2> HIDE DEF e
  <2> QED
    BY <2>3 DEF NextEvent
<1>8. /\ e \in Parsers(B) /\ e.mode = "header" /\ e.buffer = text /\ e.status = "ready" /\ e.calls = << >>
      /\ e.format = "hermes"
  <2>1. e \in Parsers(B)
    BY <1>1, WithMode
  <2> QED
    BY <1>3, <2>1 DEF ParserRecords
<1> HIDE DEF e
<1>9. Run(p) = Run(e)
  BY <1>7, <1>8, RunStep
<1>10. e \in ParserRecords(B)
  BY <1>8, ParserFields
<1> DEFINE q == [e EXCEPT !.mode = "arguments", !.scan = NewScan, !.buffer = args,
                          !.calls = Append(@, call)]
<1>11. NextEvent(e) = q
  <2>1. HeaderEvent(e) =
          LET start == Blanks(text) + 1
              rest  == From(text, start + 1)
          IN IF start > Len(text) THEN Waits(e)
             ELSE IF text[start] \notin DOMAIN Header \cup {"half"} THEN Fails(e)
             ELSE IF Blanks(rest) = Len(rest) THEN Waits(e)
             ELSE IF text[start] = "half" THEN Fails(e)
             ELSE [e EXCEPT !.mode = "arguments", !.scan = NewScan, !.buffer = From(rest, Blanks(rest) + 1),
                            !.calls = Append(@, [name |-> Header[text[start]], arguments |-> << >>])]
    BY <1>8 DEF HeaderEvent
  <2>2. Blanks(text) + 1 = 1 /\ From(text, 1 + 1) = args /\ ~(1 > Len(text))
    BY <1>4, <1>5
  <2>3. HeaderEvent(e) =
             IF 1 > Len(text) THEN Waits(e)
             ELSE IF text[1] \notin DOMAIN Header \cup {"half"} THEN Fails(e)
             ELSE IF Blanks(args) = Len(args) THEN Waits(e)
             ELSE IF text[1] = "half" THEN Fails(e)
             ELSE [e EXCEPT !.mode = "arguments", !.scan = NewScan, !.buffer = From(args, Blanks(args) + 1),
                            !.calls = Append(@, [name |-> Header[text[1]], arguments |-> << >>])]
    BY <2>1, <2>2
  <2>4. HeaderEvent(e) = [e EXCEPT !.mode = "arguments", !.scan = NewScan, !.buffer = From(args, Blanks(args) + 1),
                                   !.calls = Append(@, [name |-> Header[text[1]], arguments |-> << >>])]
    BY <1>1, <1>2, <1>6, <2>2, <2>3
  <2>5. HeaderEvent(e) = q
    BY <1>1, <1>6, <2>4
  <2> HIDE DEF q
  <2> QED
    BY <1>8, <2>5 DEF NextEvent
<1>12. q \in Parsers(B)
  <2>1. Header[h] \in Range(Header)
    BY DEF Range
  <2> QED
    BY <1>8, <2>1, WithCall
<1>13. /\ q.format = "hermes" /\ q.status = "ready" /\ q.mode = "arguments" /\ q.scan = NewScan /\ q.buffer = args
       /\ q.calls = Append(e.calls, call)
  <2> HIDE DEF call
  <2> QED
    BY <1>8, <1>10 DEF ParserRecords
<1> HIDE DEF q, call
<1>14. Run(e) = Run(q)
  BY <1>8, <1>11, <1>12, <1>13, RunStep
<1> QED
  BY <1>8, <1>9, <1>12, <1>13, <1>14 DEF call, AtArguments

\* The arguments are read, all at once.
LEMMA WholeRead ==
  ASSUME NEW B, NEW args \in Seq(B), WholeObject(args), NEW name,
         NEW q \in Parsers(B), q.mode = "arguments", q.status = "ready",
         q.scan = NewScan, q.buffer = args,
         q.calls = Append(<< >>, [name |-> name, arguments |-> << >>])
  PROVE  /\ Run(q).mode = "arguments" /\ Run(q).scan.phase = "complete" /\ Run(q).buffer = << >>
         /\ Run(q).status = "waits" /\ Run(q).calls = <<[name |-> name, arguments |-> args]>>
<1> DEFINE t == Scanned(NewScan, args)
           call == [name |-> name, arguments |-> << >>]
           longer == [name |-> name, arguments |-> args]
           e == NextEvent(q)
<1>1. q \in ParserRecords(B)
  BY ParserFields
<1>2. NewScan.phase # "complete" /\ NewScan.phase # "failed"
  BY DEF NewScan
<1>3. t.phase = "complete"
  BY DEF WholeObject
<1>4. SubSeq(args, 1, Len(args)) = args /\ From(args, Len(args) + 1) = << >>
  BY WholeBeginning
<1>5. args # << >> /\ Taken(NewScan, args) = Len(args)
  BY WholeBegins, WholeTaken
<1>6. e = ArgumentsEvent(q)
  BY <1>2 DEF NextEvent
<1>7. e = [q EXCEPT !.scan = t, !.buffer = << >>, !.calls[Len(q.calls)].arguments = @ \o args]
  <2>1. e = Took(q, Len(args))
    BY <1>5, <1>6, ArgumentsEventIs
  <2> HIDE DEF e
  <2>2. Took(q, Len(args)) = [q EXCEPT !.scan = t, !.buffer = << >>, !.calls[Len(q.calls)].arguments = @ \o args]
    BY <1>3, <1>4 DEF Took
  <2> QED
    BY <2>1, <2>2
<1>8. /\ e.mode = "arguments" /\ e.scan = t /\ e.buffer = << >> /\ e.status = "ready"
      /\ e.calls = [q.calls EXCEPT ![Len(q.calls)].arguments = @ \o args]
  <2> DEFINE none == << >>
             last == Len(q.calls)
  <2>1. e = [q EXCEPT !.scan = t, !.buffer = none, !.calls[last].arguments = @ \o args]
    BY <1>7
  <2> HIDE DEF e, t, none, last
  <2>2. /\ e.mode = "arguments" /\ e.scan = t /\ e.buffer = none /\ e.status = "ready"
        /\ e.calls = [q.calls EXCEPT ![last].arguments = @ \o args]
    BY <1>1, <2>1 DEF ParserRecords
  <2> QED
    BY <2>2 DEF none, last
<1>9. e.calls = <<longer>>
  <2>1. q.calls = <<call>> /\ Len(q.calls) = 1
    OBVIOUS
  <2>2. << >> \o args = args
    BY NoText
  <2>3. [call EXCEPT !.arguments = @ \o args] = longer
    BY <2>2
  <2>4. e.calls = [<<call>> EXCEPT ![1].arguments = @ \o args]
    BY <1>8, <2>1
  <2>5. <<call>>[1] = call
    OBVIOUS
  <2>6. e.calls = [<<call>> EXCEPT ![1] = [call EXCEPT !.arguments = @ \o args]]
    BY <2>4, <2>5
  <2> DEFINE old == call
             new == longer
  <2>7. e.calls = [<<old>> EXCEPT ![1] = new]
    BY <2>3, <2>6
  <2> HIDE DEF old, new, e
  <2>8. e.calls = <<new>>
    BY <2>7
  <2> QED
    BY <2>8 DEF new
<1>10. e \in Parsers(B)
  BY NextEventTyped
<1> HIDE DEF e, t, longer
<1>11. Run(q) = Run(e)
  <2>1. NextEvent(q).status = "ready"
    BY <1>8 DEF e
  <2> QED
    BY <2>1, RunStep DEF e
<1>12. /\ Run(e).mode = e.mode /\ Run(e).scan = e.scan /\ Run(e).calls = e.calls
       /\ Run(e).buffer = << >> /\ Run(e).status = "waits"
  BY <1>8, <1>10, RunEmpty
<1> QED
  BY <1>3, <1>8, <1>9, <1>11, <1>12 DEF longer

\* Marker, header and arguments: the call is read, and the parser is at its end.
ReadsAlone(p, h, args) ==
  /\ p.mode = "arguments" /\ p.scan.phase = "complete" /\ p.buffer = << >>
  /\ p.status = "waits" /\ p.calls = <<[name |-> Header[h], arguments |-> args]>>

LEMMA BeginningRead ==
  ASSUME NEW B, "open" \in B, NEW h \in B, h \in DOMAIN Header, NEW args \in Seq(B), WholeObject(args)
  PROVE  ReadsAlone(ReadOf(<<"open">> \o (<<h>> \o args)), h, args)
<1> DEFINE text == <<h>> \o args
           b == <<"open">> \o text
           z == NewParser("hermes")
           g == Give(z, b)
<1>1. text \in Seq(B) /\ Len(text) = Len(args) + 1 /\ text[1] = h /\ From(text, 2) = args
  BY OneThen
<1> HIDE DEF text
<1>2. b \in Seq(B) /\ b[1] = "open" /\ From(b, 2) = text /\ b # << >>
  BY <1>1, OneThen
<1> HIDE DEF b
<1>3. /\ z \in Parsers(B) /\ z.mode = "text" /\ z.calls = << >> /\ z.buffer = << >> /\ z.format = "hermes"
  BY NewParserTyped
<1> HIDE DEF z
<1>4. /\ g \in Parsers(B) /\ g.mode = "text" /\ g.calls = << >> /\ g.buffer = b /\ g.status = "ready"
      /\ g.format = "hermes"
  <2>1. g \in Parsers(B)
    BY <1>2, <1>3, GiveTyped
  <2>2. g.mode = z.mode /\ g.calls = z.calls /\ g.buffer = z.buffer \o b /\ g.status = "ready" /\ g.format = z.format
    BY <1>2, <1>3, GiveIs
  <2>3. << >> \o b = b
    BY <1>2, NoText
  <2> QED
    BY <1>3, <2>1, <2>2, <2>3
<1> HIDE DEF g
<1>5. g.buffer # << >> /\ g.buffer[1] = "open" /\ From(g.buffer, 2) = text
  BY <1>2, <1>4
<1>6. PICK q \in Parsers(B) : Run(g) = Run(q) /\ AtArguments(q, h, args)
  <2>1. g \in Parsers(B) /\ g.format = "hermes" /\ g.mode = "text" /\ g.status = "ready" /\ g.calls = << >>
    BY <1>4
  <2>2. text \in Seq(B)
    BY <1>1
  <2> QED
    BY <1>1, <1>5, <2>1, <2>2, HeaderRead
<1>7. /\ Run(q).mode = "arguments" /\ Run(q).scan.phase = "complete" /\ Run(q).buffer = << >>
      /\ Run(q).status = "waits" /\ Run(q).calls = <<[name |-> Header[h], arguments |-> args]>>
  BY <1>6, WholeRead DEF AtArguments
<1>8. ReadOf(b) = Run(q)
  BY <1>6, PushIs DEF ReadOf, z, g
<1> QED
  BY <1>7, <1>8 DEF b, text, ReadsAlone

\* A text between two tokens and two others, at once and by and by.
Framed(s, t, c, u, v) == <<s, t>> \o c \o <<u, v>>

FramedInSteps(s, t, c, u, v) == ((<<s>> \o (<<t>> \o c)) \o <<u>>) \o <<v>>

LEMMA FourParts ==
  ASSUME NEW B, NEW s \in B, NEW t \in B, NEW c \in Seq(B), NEW u \in B, NEW v \in B
  PROVE  Framed(s, t, c, u, v) = FramedInSteps(s, t, c, u, v)
<1> DEFINE s1 == <<s>>
           s2 == <<t>>
           s3 == <<u>>
           s4 == <<v>>
<1>1. s1 \in Seq(B) /\ s2 \in Seq(B) /\ s3 \in Seq(B) /\ s4 \in Seq(B)
  BY OneIsText
<1>2. <<s, t>> = s1 \o s2 /\ <<u, v>> = s3 \o s4
  BY TwoAreJoined
<1> HIDE DEF s1, s2, s3, s4
<1>3. s2 \o c \in Seq(B) /\ s1 \o (s2 \o c) \in Seq(B)
  <2>1. s2 \o c \in Seq(B)
    BY <1>1, TextJoined
  <2> QED
    BY <1>1, <2>1, TextJoined
<1>4. (s1 \o s2) \o c = s1 \o (s2 \o c)
  <2>1. s1 \in Seq(B) /\ s2 \in Seq(B)
    BY <1>1
  <2> QED
    BY <2>1, Associates
<1>5. (s1 \o (s2 \o c)) \o (s3 \o s4) = ((s1 \o (s2 \o c)) \o s3) \o s4
  <2> DEFINE x == s1 \o (s2 \o c)
  <2>1. x \in Seq(B)
    BY <1>3
  <2> HIDE DEF x
  <2>a. s3 \in Seq(B) /\ s4 \in Seq(B)
    BY <1>1
  <2>2. (x \o s3) \o s4 = x \o (s3 \o s4)
    BY <2>1, <2>a, Associates
  <2> QED
    BY <2>2 DEF x
<1>6. <<s, t>> \o c \o <<u, v>> = ((s1 \o (s2 \o c)) \o s3) \o s4
  BY <1>2, <1>4, <1>5
<1> QED
  BY <1>6 DEF s1, s2, s3, s4, Framed, FramedInSteps

\* The tokens that a call by itself has besides its own.
Marked(B) == "open" \in B /\ "close" \in B /\ "}" \in B

IsCall(call, h, args) == h \in DOMAIN Header /\ call.name = Header[h] /\ call.arguments = args

\* A part of a text that is elsewhere.
LEMMA SamePart ==
  ASSUME NEW B, NEW text \in Seq(B), NEW args \in Seq(B), NEW k \in Nat \ {0},
         k + Len(args) <= Len(text) + 1,
         \A m \in 1..Len(args) : args[m] = text[k + m - 1]
  PROVE  SubSeq(text, k, k + Len(args) - 1) = args
<1> DEFINE n == Len(args)
           part == SubSeq(text, k, k + n - 1)
<1>1. n \in Nat /\ Len(text) \in Nat
  OBVIOUS
<1>2. args = [m \in 1..n |-> args[m]]
  <2>1. \A T : \A t \in Seq(T) : t = [i \in 1..Len(t) |-> t[i]]
    OBVIOUS
  <2> QED
    BY <2>1
<1> HIDE DEF n
<1>3. part = [m \in 1..n |-> text[k + m - 1]]
  <2>1. (k + n - 1) - k + 1 = n
    BY <1>1
  <2> QED
    BY <1>1, <2>1
<1>4. \A m \in 1..n : args[m] = text[k + m - 1]
  BY DEF n
<1>5. part = args
  BY <1>2, <1>3, <1>4
<1> QED
  BY <1>5 DEF n

-----------------------------------------------------------------------------
(***************************************************************************)
(* What is left of a text, the tags in it, and the parameters and calls of  *)
(* a GLM model that are read from it.                                       *)
(***************************************************************************)
\* What is left of a text behind its n-th token.
LeftOf(B, text, n, left) ==
  /\ left \in Seq(B) /\ Len(left) = Len(text) - n
  /\ \A k \in 1..Len(left) : left[k] = text[n + k]

LEMMA WhatIsLeft ==
  ASSUME NEW B, NEW text \in Seq(B), NEW n \in 0..Len(text)
  PROVE  LeftOf(B, text, n, From(text, n + 1))
<1> DEFINE l == Len(text)
           rest == From(text, n + 1)
           m == n + 1
<1>1. l \in Nat /\ m \in 1..(l + 1) /\ l + 1 - m = l - n
  OBVIOUS
<1>2. m \in 1..(Len(text) + 1)
  BY <1>1
<1>3. \A k \in Nat : m + k - 1 = n + k
  OBVIOUS
<1>4. rest = From(text, m)
  OBVIOUS
<1> HIDE DEF rest
<1> HIDE DEF m
<1>5. /\ From(text, m) \in Seq(B) /\ Len(From(text, m)) = l + 1 - m
      /\ \A k \in 1..(l + 1 - m) : From(text, m)[k] = text[m + k - 1]
  BY <1>2, FromText
<1> HIDE DEF l
<1>6. \A k \in 1..(l + 1 - m) : k \in Nat
  BY <1>1
<1>7. \A k \in 1..(l + 1 - m) : rest[k] = text[n + k]
  BY <1>3, <1>4, <1>5, <1>6
<1>8. Len(rest) = l - n /\ l + 1 - m = l - n
  BY <1>1, <1>4, <1>5
<1>9. rest \in Seq(B)
  BY <1>4, <1>5
<1>10. LeftOf(B, text, n, rest)
  BY <1>7, <1>8, <1>9 DEF l, LeftOf
<1> QED
  BY <1>10 DEF rest

LEMMA LeftBehind ==
  ASSUME NEW B, NEW text \in Seq(B), NEW n \in 0..Len(text)
  PROVE  /\ From(text, n + 1) \in Seq(B) /\ Len(From(text, n + 1)) = Len(text) - n
         /\ \A k \in 1..Len(From(text, n + 1)) : From(text, n + 1)[k] = text[n + k]
BY WhatIsLeft DEF LeftOf

\* A part of what is left of a text.
LEMMA PartFrom ==
  ASSUME NEW B, NEW text \in Seq(B), NEW d \in 0..Len(text), NEW rest, rest = From(text, d + 1),
         NEW i \in Nat \ {0}, NEW j \in Nat, i <= j + 1, j <= Len(rest)
  PROVE  SubSeq(rest, i, j) = SubSeq(text, d + i, d + j)
<1>1. /\ rest \in Seq(B) /\ Len(rest) = Len(text) - d /\ Len(text) \in Nat
      /\ \A k \in 1..Len(rest) : rest[k] = text[d + k]
  <2>1. Len(text) \in Nat /\ text \in Seq(B)
    OBVIOUS
  <2>2. /\ From(text, d + 1) \in Seq(B) /\ Len(From(text, d + 1)) = Len(text) - d
        /\ \A k \in 1..Len(From(text, d + 1)) : From(text, d + 1)[k] = text[d + k]
    BY LeftBehind
  <2> QED
    BY <2>1, <2>2
<1>2. SubSeq(rest, i, j) = [k \in 1..(j - i + 1) |-> rest[i + k - 1]]
  OBVIOUS
<1>3. SubSeq(text, d + i, d + j) = [k \in 1..((d + j) - (d + i) + 1) |-> text[(d + i) + k - 1]]
  OBVIOUS
<1>4. (d + j) - (d + i) + 1 = j - i + 1
  OBVIOUS
<1>5. ASSUME NEW k \in 1..(j - i + 1) PROVE rest[i + k - 1] = text[(d + i) + k - 1]
  <2>1. i + k - 1 \in 1..Len(rest) /\ d + (i + k - 1) = (d + i) + k - 1
    BY <1>1
  <2> QED
    BY <1>1, <2>1
<1> QED
  BY <1>2, <1>3, <1>4, <1>5

LEMMA PartsFrom ==
  ASSUME NEW B, NEW text \in Seq(B), NEW d \in 0..Len(text), NEW rest, rest = From(text, d + 1)
  PROVE  \A i \in Nat \ {0}, j \in Nat :
           i <= j + 1 /\ j <= Len(rest) => SubSeq(rest, i, j) = SubSeq(text, d + i, d + j)
BY PartFrom

\* The last of k tokens before which the tag `from' is open, and what stands behind it.
OpenTag(text, from, to, k, raw) ==
  \E m \in 1..k : /\ text[m] = from
                  /\ raw = SubSeq(text, m + 1, k)
                  /\ \A x \in (m + 1)..k : text[x] # to

LEMMA TagOpens ==
  ASSUME NEW B, NEW text \in Seq(B), NEW k \in 1..Len(text), NEW from, NEW to, text[k] = from
  PROVE  OpenTag(text, from, to, k, << >>)
<1>1. SubSeq(text, k + 1, k) = << >> /\ k \in 1..k /\ (k + 1)..k = {}
  OBVIOUS
<1> QED
  BY <1>1 DEF OpenTag

LEMMA TagGoesOn ==
  ASSUME NEW B, NEW text \in Seq(B), NEW k \in 1..Len(text), NEW from, NEW to, NEW raw,
         OpenTag(text, from, to, k - 1, raw), text[k] # to
  PROVE  OpenTag(text, from, to, k, Append(raw, text[k]))
<1>1. PICK m \in 1..(k - 1) : /\ text[m] = from
                              /\ raw = SubSeq(text, m + 1, k - 1)
                              /\ \A x \in (m + 1)..(k - 1) : text[x] # to
  BY DEF OpenTag
<1>2. Append(SubSeq(text, m + 1, k - 1), text[k]) = SubSeq(text, m + 1, k)
  <2> DEFINE n == k - 1 - m
  <2>1. n \in Nat /\ (k - 1) - (m + 1) + 1 = n /\ k - (m + 1) + 1 = n + 1 /\ (m + 1) + (n + 1) - 1 = k
    OBVIOUS
  <2>2. SubSeq(text, m + 1, k - 1) = [i \in 1..n |-> text[(m + 1) + i - 1]]
    BY <2>1
  <2>3. SubSeq(text, m + 1, k) = [i \in 1..(n + 1) |-> text[(m + 1) + i - 1]]
    BY <2>1
  <2>4. SubSeq(text, m + 1, k - 1) \in Seq(B) /\ Len(SubSeq(text, m + 1, k - 1)) = n
    <3>1. \A i \in 1..n : (m + 1) + i - 1 \in 1..Len(text)
      OBVIOUS
    <3>2. \A i \in 1..n : text[(m + 1) + i - 1] \in B
      BY <3>1
    <3> HIDE DEF n
    <3> QED
      BY <2>1, <2>2, <3>2
  <2> DEFINE s == SubSeq(text, m + 1, k - 1)
  <2>5. Append(s, text[k]) = [i \in 1..(n + 1) |-> IF i = n + 1 THEN text[k] ELSE s[i]]
    <3>1. Len(s) = n
      BY <2>4
    <3> HIDE DEF s, n
    <3> QED
      BY <3>1
  <2>6. \A i \in 1..n : s[i] = text[(m + 1) + i - 1]
    BY <2>2
  <2> HIDE DEF s, n
  <2>7. \A i \in 1..(n + 1) : (IF i = n + 1 THEN text[k] ELSE s[i]) = text[(m + 1) + i - 1]
    BY <2>1, <2>6
  <2>8. Append(s, text[k]) = SubSeq(text, m + 1, k)
    BY <2>3, <2>5, <2>7
  <2> QED
    BY <2>8 DEF s
<1>3. m \in 1..k /\ \A x \in (m + 1)..k : text[x] # to
  <2>1. \A x \in (m + 1)..k : x = k \/ x \in (m + 1)..(k - 1)
    OBVIOUS
  <2> QED
    BY <1>1, <2>1
<1> QED
  BY <1>1, <1>2, <1>3 DEF OpenTag

\* Names and values of parameters, as any tokens between tags make them.
RawTexts(B) == {""} \cup {Spelled(Trimmed(x)) : x \in Seq(B)}

RawValues(B, schemas) == {Converted(schemas, f, raw) : f \in RawTexts(B), raw \in RawTexts(B)}

FieldSets(B, schemas) == UNION {[D -> RawValues(B, schemas)] : D \in SUBSET RawTexts(B)}

ParameterReads(B, schemas) ==
  [at : {"gap", "key", "pair", "value", "failed"}, key : RawTexts(B), text : Seq(B),
   fields : FieldSets(B, schemas)]

\* One more field.
LEMMA FieldTyped ==
  ASSUME NEW K, NEW V, NEW f \in K, NEW v \in V, NEW fields \in UNION {[D -> V] : D \in SUBSET K}
  PROVE  WithField(fields, f, v) \in UNION {[D -> V] : D \in SUBSET K}
<1> DEFINE more == WithField(fields, f, v)
<1>1. PICK D \in SUBSET K : fields \in [D -> V]
  OBVIOUS
<1>2. more = [x \in {f} \cup D |-> IF x = f THEN v ELSE fields[x]]
  BY <1>1 DEF WithField
<1>3. more \in [{f} \cup D -> V] /\ {f} \cup D \in SUBSET K
  BY <1>1, <1>2
<1> HIDE DEF more
<1>4. [{f} \cup D -> V] \in {[E -> V] : E \in SUBSET K}
  BY <1>3
<1>5. more \in UNION {[E -> V] : E \in SUBSET K}
  BY <1>3, <1>4
<1> QED
  BY <1>5 DEF more

LEMMA ReadFields ==
  ASSUME NEW B, NEW schemas, NEW s \in ParameterReads(B, schemas)
  PROVE  /\ s.at \in {"gap", "key", "pair", "value", "failed"} /\ s.key \in RawTexts(B)
         /\ s.text \in Seq(B) /\ s.fields \in FieldSets(B, schemas)
BY DEF ParameterReads

LEMMA WithAt ==
  ASSUME NEW B, NEW schemas, NEW s \in ParameterReads(B, schemas),
         NEW where \in {"gap", "key", "pair", "value", "failed"}
  PROVE  [s EXCEPT !.at = where] \in ParameterReads(B, schemas)
BY DEF ParameterReads

LEMMA WithText ==
  ASSUME NEW B, NEW schemas, NEW s \in ParameterReads(B, schemas), NEW text \in Seq(B),
         NEW where \in {"gap", "key", "pair", "value", "failed"}
  PROVE  /\ [s EXCEPT !.text = text] \in ParameterReads(B, schemas)
         /\ [s EXCEPT !.at = where, !.text = text] \in ParameterReads(B, schemas)
BY DEF ParameterReads

LEMMA WithKey ==
  ASSUME NEW B, NEW schemas, NEW s \in ParameterReads(B, schemas), NEW key \in RawTexts(B),
         NEW where \in {"gap", "key", "pair", "value", "failed"}
  PROVE  [s EXCEPT !.at = where, !.key = key] \in ParameterReads(B, schemas)
BY DEF ParameterReads

LEMMA WithFields ==
  ASSUME NEW B, NEW schemas, NEW s \in ParameterReads(B, schemas), NEW fields \in FieldSets(B, schemas)
  PROVE  [s EXCEPT !.at = "gap", !.fields = fields] \in ParameterReads(B, schemas)
BY DEF ParameterReads

\* What a closing tag makes of the key and of the field that it ends.
KeyRead(s) == [s EXCEPT !.at = IF s.text = << >> THEN "failed" ELSE "pair", !.key = Spelled(Trimmed(s.text))]

ValueRead(s, schemas) ==
  [s EXCEPT !.at = "gap", !.fields = WithField(@, s.key, Converted(schemas, s.key, Spelled(Trimmed(s.text))))]

LEMMA ReadParameterIs ==
  ASSUME NEW s, NEW t, NEW schemas
  PROVE  ReadParameter(s, t, schemas) =
           IF s.at = "gap" /\ t = "<arg_key>" THEN [s EXCEPT !.at = "key", !.text = << >>]
           ELSE IF s.at = "key" /\ t = "</arg_key>" THEN KeyRead(s)
           ELSE IF s.at = "pair" /\ t = "<arg_value>" THEN [s EXCEPT !.at = "value", !.text = << >>]
           ELSE IF s.at = "value" /\ t = "</arg_value>" THEN ValueRead(s, schemas)
           ELSE IF s.at \in {"key", "value"} THEN [s EXCEPT !.text = Append(@, t)]
           ELSE IF s.at \in {"gap", "pair"} /\ t = "nl" THEN s
           ELSE [s EXCEPT !.at = "failed"]
BY DEF ReadParameter, KeyRead, ValueRead

LEMMA RawTyped ==
  ASSUME NEW B, NEW x \in Seq(B)
  PROVE  Spelled(Trimmed(x)) \in RawTexts(B)
BY DEF RawTexts

LEMMA ReadsTyped ==
  ASSUME NEW B, NEW schemas, NEW s \in ParameterReads(B, schemas)
  PROVE  KeyRead(s) \in ParameterReads(B, schemas) /\ ValueRead(s, schemas) \in ParameterReads(B, schemas)
<1> DEFINE raw == Spelled(Trimmed(s.text))
           value == Converted(schemas, s.key, raw)
           fields == WithField(s.fields, s.key, value)
<1>1. s.key \in RawTexts(B) /\ s.fields \in FieldSets(B, schemas) /\ raw \in RawTexts(B)
  <2>1. s.text \in Seq(B)
    BY ReadFields
  <2> QED
    BY <2>1, ReadFields, RawTyped
<1> HIDE DEF raw
<1>2. value \in RawValues(B, schemas)
  BY <1>1 DEF RawValues
<1> HIDE DEF value
<1>3. fields \in FieldSets(B, schemas)
  BY <1>1, <1>2, FieldTyped DEF FieldSets
<1> HIDE DEF fields
<1>4. [s EXCEPT !.at = "gap", !.fields = fields] \in ParameterReads(B, schemas)
  BY <1>3, WithFields
<1>5. ValueRead(s, schemas) = [s EXCEPT !.at = "gap", !.fields = fields]
  BY DEF ValueRead, fields, value, raw
<1>6. KeyRead(s) = [s EXCEPT !.at = IF s.text = << >> THEN "failed" ELSE "pair", !.key = raw]
  BY DEF KeyRead, raw
<1>7. KeyRead(s) \in ParameterReads(B, schemas)
  <2> DEFINE where == IF s.text = << >> THEN "failed" ELSE "pair"
  <2>1. where \in {"gap", "key", "pair", "value", "failed"}
    OBVIOUS
  <2>2. KeyRead(s) = [s EXCEPT !.at = where, !.key = raw]
    BY <1>6
  <2> HIDE DEF where
  <2>3. raw \in RawTexts(B)
    BY <1>1, Zenon
  <2>4. [s EXCEPT !.at = where, !.key = raw] \in ParameterReads(B, schemas)
    BY <2>1, <2>3, WithKey, Zenon
  <2> QED
    BY <2>2, <2>4, Zenon
<1> QED
  BY <1>4, <1>5, <1>7

LEMMA ParameterTyped ==
  ASSUME NEW B, NEW schemas, NEW s \in ParameterReads(B, schemas), NEW t \in B
  PROVE  ReadParameter(s, t, schemas) \in ParameterReads(B, schemas)
<1>1. << >> \in Seq(B) /\ Append(s.text, t) \in Seq(B)
  <2>1. s.text \in Seq(B)
    BY ReadFields
  <2> QED
    BY <2>1
<1>2. /\ [s EXCEPT !.at = "key", !.text = << >>] \in ParameterReads(B, schemas)
      /\ [s EXCEPT !.at = "value", !.text = << >>] \in ParameterReads(B, schemas)
  BY <1>1, WithText
<1>3. [s EXCEPT !.text = Append(@, t)] \in ParameterReads(B, schemas)
  <2>1. [s EXCEPT !.text = Append(s.text, t)] \in ParameterReads(B, schemas)
    <3> DEFINE longer == Append(s.text, t)
    <3>1. longer \in Seq(B)
      BY <1>1
    <3> HIDE DEF longer
    <3>2. [s EXCEPT !.text = longer] \in ParameterReads(B, schemas)
      BY <3>1, WithText
    <3> QED
      BY <3>2 DEF longer
  <2> QED
    BY <2>1
<1>4. [s EXCEPT !.at = "failed"] \in ParameterReads(B, schemas)
  BY WithAt
<1> QED
  BY <1>2, <1>3, <1>4, ReadsTyped, ReadParameterIs

LEMMA NothingRead ==
  ASSUME NEW B, NEW schemas
  PROVE  [at |-> "gap", key |-> "", text |-> << >>, fields |-> << >>] \in ParameterReads(B, schemas)
<1>1. << >> \in FieldSets(B, schemas)
  <2> DEFINE none == << >>
             V == RawValues(B, schemas)
             K == RawTexts(B)
  <2>1. none \in [{} -> V] /\ {} \in SUBSET K
    OBVIOUS
  <2> HIDE DEF none, V, K
  <2>2. [{} -> V] \in {[D -> V] : D \in SUBSET K}
    BY <2>1
  <2>3. none \in UNION {[D -> V] : D \in SUBSET K}
    BY <2>1, <2>2
  <2> QED
    BY <2>3 DEF FieldSets, none, V, K
<1>2. "" \in RawTexts(B) /\ << >> \in Seq(B)
  BY DEF RawTexts
<1> QED
  BY <1>1, <1>2 DEF ParameterReads

LEMMA ParametersRun ==
  ASSUME NEW B, NEW text \in Seq(B), NEW schemas
  PROVE  \E iter :
           /\ Parameters(text, schemas) = iter[1..Len(text)]
           /\ iter[1..0] = [at |-> "gap", key |-> "", text |-> << >>, fields |-> << >>]
           /\ \A k \in 1..Len(text) : iter[1..k] = ReadParameter(iter[1..(k - 1)], text[k], schemas)
           /\ \A k \in 0..Len(text) : iter[1..k] \in ParameterReads(B, schemas)
<1> DEFINE n == Len(text)
           T == ParameterReads(B, schemas)
           step == [k \in 1..n |-> [x \in T |-> ReadParameter(x, text[k], schemas)]]
           Fits(iter) == iter = [r \in SUBSET (1..n) |->
                                   IF r = {} THEN [at |-> "gap", key |-> "", text |-> << >>, fields |-> << >>] ELSE ReadParameter(iter[r \ {Max(r)}], text[Max(r)], schemas)]
           run == CHOOSE iter : Fits(iter)
<1>1. n \in Nat /\ DOMAIN text = 1..n /\ \A k \in 1..n : text[k] \in B
  OBVIOUS
<1>2. step \in [1..n -> [T -> T]]
  BY <1>1, ParameterTyped
<1>3. \A r \in SUBSET (1..n) : r # {} => Max(r) \in 1..n
  <2>1. ASSUME NEW r \in SUBSET (1..n), r # {} PROVE Max(r) \in r
    <3>1. r \in SUBSET (0..n)
      OBVIOUS
    <3> QED
      BY <1>1, <2>1, <3>1, MaxBounded
  <2> QED
    BY <2>1
<1>4. \E iter : Fits(iter)
  <2>1. [at |-> "gap", key |-> "", text |-> << >>, fields |-> << >>] \in T
    BY NothingRead
  <2>2. PICK iter \in [SUBSET (1..n) -> T] : TakesSteps(iter, step, [at |-> "gap", key |-> "", text |-> << >>, fields |-> << >>], n)
    <3> HIDE DEF step, T, n
    <3> QED
      BY <1>1, <1>2, <2>1, FoldExists
  <2>3. ASSUME NEW r \in SUBSET (1..n), r # {}
        PROVE  step[Max(r)][iter[r \ {Max(r)}]] = ReadParameter(iter[r \ {Max(r)}], text[Max(r)], schemas)
    BY <1>3, <2>3
  <2>4. Fits(iter)
    BY <2>2, <2>3 DEF TakesSteps
  <2> QED
    BY <2>4
<1>5. Fits(run)
  <2> HIDE DEF Fits
  <2> QED
    BY <1>4
<1>6. Parameters(text, schemas) = run[1..n]
  BY <1>1 DEF Parameters, FoldLeft, MapThenFoldSet
<1>7. \A r \in SUBSET (1..n) :
        run[r] = IF r = {} THEN [at |-> "gap", key |-> "", text |-> << >>, fields |-> << >>] ELSE ReadParameter(run[r \ {Max(r)}], text[Max(r)], schemas)
  <2> HIDE DEF run
  <2> QED
    BY <1>5
<1> HIDE DEF run, n, Fits, T
<1>8. run[1..0] = [at |-> "gap", key |-> "", text |-> << >>, fields |-> << >>]
  BY <1>1, <1>7, Beginnings
<1>9. ASSUME NEW k \in 1..n PROVE run[1..k] = ReadParameter(run[1..(k - 1)], text[k], schemas)
  <2>1. /\ 1..k \in SUBSET (1..n) /\ 1..k # {}
        /\ Max(1..k) = k /\ (1..k) \ {Max(1..k)} = 1..(k - 1)
    BY <1>1, Beginnings
  <2> QED
    BY <1>7, <2>1
<1>10. \A k \in 0..n : run[1..k] \in T
  <2>1. \A k \in 1..n : run[1..(k - 1)] \in T => run[1..k] \in T
    BY <1>1, <1>9, ParameterTyped DEF T
  <2>2. run[1..0] \in T
    BY <1>8, NothingRead DEF T
  <2> QED
    BY <1>1, <2>1, <2>2, RunTyped
<1> QED
  BY <1>6, <1>8, <1>9, <1>10 DEF n, T

\* How long a name a text begins with.
NameLength(text) == SelectInSeq(text \o <<"nl">>, LAMBDA t : t \in TagStarts \cup {"nl"}) - 1

LEMMA NameLengthIs ==
  ASSUME NEW B, NEW text \in Seq(B)
  PROVE  /\ NameLength(text) \in 0..Len(text)
         /\ NameLength(text) # 0 => text[1] # "nl"
<1> DEFINE C == B \cup {"nl"}
           long == text \o <<"nl">>
           I == {i \in 1..Len(long) : long[i] \in TagStarts \cup {"nl"}}
           m == Min(I)
<1>1. text \in Seq(C) /\ <<"nl">> \in Seq(C) /\ Len(<<"nl">>) = 1
  OBVIOUS
<1>2. /\ Len(long) = Len(text) + 1 /\ Len(text) \in Nat
      /\ \A i \in 1..(Len(text) + 1) : long[i] = IF i <= Len(text) THEN text[i] ELSE "nl"
  <2>1. \A i \in 1..(Len(text) + 1) : ~(i <= Len(text)) => i - Len(text) = 1
    BY <1>1
  <2> QED
    BY <1>1, <2>1, ConcatProperties
<1>3. Len(text) + 1 \in I
  BY <1>2
<1>4. m \in I /\ \A i \in I : m <= i
  <2>1. I \in SUBSET Nat /\ I # {}
    BY <1>2, <1>3
  <2> HIDE DEF I, Min
  <2> QED
    BY <2>1, MinNatural
<1>5. NameLength(text) = m - 1
  BY <1>3 DEF NameLength, SelectInSeq
<1> HIDE DEF m, long
<1>6. m \in 1..(Len(text) + 1)
  BY <1>2, <1>4
<1>7. ASSUME m - 1 # 0 PROVE text[1] # "nl"
  <2>1. 1 \in 1..(Len(text) + 1) /\ 1 <= Len(text) /\ ~(m <= 1)
    BY <1>2, <1>6, <1>7
  <2>2. 1 \notin I
    BY <1>4, <2>1
  <2>3. long[1] # "nl"
    BY <1>2, <2>1, <2>2
  <2> QED
    BY <1>2, <2>1, <2>3
<1> QED
  BY <1>2, <1>5, <1>6, <1>7

LEMMA CallOfIs ==
  ASSUME NEW body, NEW tools
  PROVE  LET text == SkipBlanks(body)
             n    == NameLength(text)
             name == Spelled(SubSeq(text, 1, n))
             got  == Parameters(From(text, n + 1), PropertiesOf(tools, name))
         IN  CallOf(body, tools) =
               IF n = 0 \/ got.at # "gap" THEN [ok |-> FALSE]
               ELSE [ok |-> TRUE, call |-> [name |-> name, object |-> [kind |-> "object", fields |-> got.fields]]]
BY DEF CallOf, NameLength

GlmCalls(B, tools) == {CallOf(x, tools).call : x \in Seq(B)}

GlmParsers(B, tools) ==
  [mode : {"text", "call", "after"}, buffer : Seq(B), calls : Seq(GlmCalls(B, tools)), status : Statuses]

LEMMA GlmFields ==
  ASSUME NEW B, NEW tools, NEW p \in GlmParsers(B, tools)
  PROVE  /\ p.mode \in {"text", "call", "after"} /\ p.buffer \in Seq(B)
         /\ p.calls \in Seq(GlmCalls(B, tools)) /\ p.status \in Statuses
BY DEF GlmParsers

LEMMA GlmMakes ==
  ASSUME NEW B, NEW tools, NEW p \in GlmParsers(B, tools)
  PROVE  /\ Waits(p) \in GlmParsers(B, tools) /\ Waits(p).calls = p.calls
         /\ Waits(p).buffer = p.buffer /\ Waits(p).mode = p.mode
         /\ Fails(p) \in GlmParsers(B, tools) /\ Fails(p).calls = p.calls
         /\ Fails(p).buffer = p.buffer /\ Fails(p).mode = p.mode
BY DEF GlmParsers, Waits, Fails, Statuses

LEMMA GlmWithBuffer ==
  ASSUME NEW B, NEW tools, NEW p \in GlmParsers(B, tools), NEW text \in Seq(B)
  PROVE  /\ [p EXCEPT !.buffer = text] \in GlmParsers(B, tools)
         /\ [p EXCEPT !.buffer = text].calls = p.calls
         /\ [p EXCEPT !.buffer = text].buffer = text
         /\ [p EXCEPT !.buffer = text].mode = p.mode
BY DEF GlmParsers

\* A call begins, and one has been read.
Opened(p, text) == [p EXCEPT !.mode = "call", !.buffer = text]

WithReadCall(p, text, call) == [p EXCEPT !.mode = "after", !.buffer = text, !.calls = Append(@, call)]

LEMMA GlmOpened ==
  ASSUME NEW B, NEW tools, NEW p \in GlmParsers(B, tools), NEW text \in Seq(B)
  PROVE  /\ Opened(p, text) \in GlmParsers(B, tools) /\ Opened(p, text).calls = p.calls
         /\ Opened(p, text).buffer = text /\ Opened(p, text).mode = "call"
BY DEF GlmParsers, Opened

LEMMA GlmWithCall ==
  ASSUME NEW B, NEW tools, NEW p \in GlmParsers(B, tools), NEW text \in Seq(B), NEW call \in GlmCalls(B, tools)
  PROVE  /\ WithReadCall(p, text, call) \in GlmParsers(B, tools)
         /\ WithReadCall(p, text, call).calls = Append(p.calls, call)
         /\ WithReadCall(p, text, call).buffer = text /\ WithReadCall(p, text, call).mode = "after"
<1> DEFINE calls == Append(p.calls, call)
           q == [p EXCEPT !.mode = "after", !.buffer = text, !.calls = calls]
<1>1. p.calls \in Seq(GlmCalls(B, tools))
  BY GlmFields
<1>2. calls \in Seq(GlmCalls(B, tools))
  BY <1>1
<1>3. WithReadCall(p, text, call) = q
  BY DEF WithReadCall
<1> HIDE DEF calls
<1>4. q \in GlmParsers(B, tools) /\ q.calls = calls /\ q.buffer = text /\ q.mode = "after"
  BY <1>2 DEF GlmParsers
<1> HIDE DEF q
<1> QED
  BY <1>3, <1>4 DEF calls

\* What is left of what is left of a text.
LEMMA FromAgain ==
  ASSUME NEW B, NEW text \in Seq(B), NEW n \in 0..Len(text), NEW rest, rest = From(text, n + 1)
  PROVE  \A k \in 0..Len(rest) : n + k \in n..Len(text) /\ From(rest, k + 1) = From(text, (n + k) + 1)
<1>1. rest \in Seq(B) /\ Len(rest) = Len(text) - n /\ Len(text) \in Nat
  <2>1. Len(text) \in Nat
    OBVIOUS
  <2>2. From(text, n + 1) \in Seq(B) /\ Len(From(text, n + 1)) = Len(text) - n
    BY LeftBehind
  <2> QED
    BY <2>1, <2>2
<1>2. \A i \in Nat \ {0}, j \in Nat :
        i <= j + 1 /\ j <= Len(rest) => SubSeq(rest, i, j) = SubSeq(text, n + i, n + j)
  BY PartsFrom
<1> TAKE k \in 0..Len(rest)
<1>3. k + 1 \in Nat \ {0} /\ Len(rest) \in Nat /\ k + 1 <= Len(rest) + 1 /\ Len(rest) <= Len(rest)
  BY <1>1
<1>4. SubSeq(rest, k + 1, Len(rest)) = SubSeq(text, n + (k + 1), n + Len(rest))
  BY <1>2, <1>3
<1>5. n + (k + 1) = (n + k) + 1 /\ n + Len(rest) = Len(text) /\ n + k \in n..Len(text)
  BY <1>1
<1> QED
  BY <1>4, <1>5 DEF From

LEMMA BodyIs ==
  ASSUME NEW B, NEW text \in Seq(B), NEW n \in 0..Len(text), NEW rest, rest = From(text, n + 1)
  PROVE  \A k \in 1..Len(rest) : SubSeq(rest, 1, k - 1) = SubSeq(text, n + 1, n + k - 1)
<1>1. rest \in Seq(B)
  BY LeftBehind
<1>2. \A i \in Nat \ {0}, j \in Nat :
        i <= j + 1 /\ j <= Len(rest) => SubSeq(rest, i, j) = SubSeq(text, n + i, n + j)
  BY PartsFrom
<1> TAKE k \in 1..Len(rest)
<1>3. 1 \in Nat \ {0} /\ k - 1 \in Nat /\ 1 <= (k - 1) + 1 /\ k - 1 <= Len(rest) /\ n + (k - 1) = n + k - 1
  BY <1>1
<1> QED
  BY <1>2, <1>3

GlmStepped(p, tools) == IF p.status = "ready" THEN NextGlmEvent(p, tools) ELSE p

\* No event leads out of K; the parser's run, then, is a sequence in K.
StaysIn(K, tools) == \A q \in K : GlmStepped(q, tools) \in K

RunIsIn(K, tools, p) ==
  \E f \in [Nat -> K] :
    /\ f[0] = p /\ \A n \in Nat : f[n + 1] = GlmStepped(f[n], tools)
    /\ RunGlm(p, tools) = f[Len(p.buffer) + 1]

LEMMA RunGlmIs ==
  ASSUME NEW K, NEW tools, StaysIn(K, tools), NEW p \in K, Len(p.buffer) \in Nat
  PROVE  RunIsIn(K, tools, p)
<1> USE DEF StaysIn, RunIsIn
<1> DEFINE step == [n \in Nat |-> [q \in K |-> GlmStepped(q, tools)]]
           Fits(g) == g = [n \in Nat |-> IF n = 0 THEN p
                             ELSE IF g[n - 1].status = "ready" THEN NextGlmEvent(g[n - 1], tools) ELSE g[n - 1]]
           after == CHOOSE g : Fits(g)
<1>2. step \in [Nat -> [K -> K]] /\ \A n \in Nat : \A q \in K : step[n][q] = GlmStepped(q, tools)
  OBVIOUS
<1> HIDE DEF step
<1>3. \E g : Fits(g)
  <2>1. PICK g \in [Nat -> K] : Iterates(g, p, step)
    BY <1>2, IterationExists
  <2>2. g[0] = p /\ \A n \in Nat : g[n + 1] = step[n + 1][g[n]]
    BY <2>1 DEF Iterates
  <2>3. \A n \in Nat \ {0} : g[n] = GlmStepped(g[n - 1], tools)
    <3>1. ASSUME NEW n \in Nat \ {0} PROVE g[n] = GlmStepped(g[n - 1], tools)
      <4>1. n - 1 \in Nat /\ (n - 1) + 1 = n
        OBVIOUS
      <4>2. g[(n - 1) + 1] = step[(n - 1) + 1][g[n - 1]]
        BY <2>2, <4>1
      <4>3. g[n] = step[n][g[n - 1]] /\ g[n - 1] \in K /\ n \in Nat
        BY <4>1, <4>2
      <4> QED
        BY <1>2, <4>3
    <3> QED
      BY <3>1
  <2>4. \A n \in Nat \ {0} : g[n] = IF g[n - 1].status = "ready" THEN NextGlmEvent(g[n - 1], tools) ELSE g[n - 1]
    BY <2>3 DEF GlmStepped
  <2>5. Fits(g)
    BY <2>2, <2>4
  <2> QED
    BY <2>5
<1>4. Fits(after)
  <2> HIDE DEF Fits
  <2> QED
    BY <1>3
<1>5. RunGlm(p, tools) = after[Len(p.buffer) + 1]
  BY DEF RunGlm
<1>6. /\ \A n \in Nat : after[n] = IF n = 0 THEN p
                        ELSE IF after[n - 1].status = "ready" THEN NextGlmEvent(after[n - 1], tools) ELSE after[n - 1]
      /\ after = [n \in Nat |-> after[n]]
  <2> HIDE DEF after
  <2> QED
    BY <1>4
<1> HIDE DEF after, Fits
<1>7. after[0] = p /\ \A n \in Nat : after[n + 1] = GlmStepped(after[n], tools)
  <2>1. ASSUME NEW n \in Nat PROVE after[n + 1] = GlmStepped(after[n], tools)
    <3>1. n + 1 \in Nat /\ n + 1 # 0 /\ (n + 1) - 1 = n
      OBVIOUS
    <3> QED
      BY <1>6, <3>1 DEF GlmStepped
  <2> QED
    BY <1>6, <2>1
<1> DEFINE S == {n \in Nat : after[n] \in K}
<1>8. Nat \subseteq S
  <2>1. 0 \in S
    BY <1>7
  <2>2. ASSUME NEW n \in Nat, n \in S PROVE n + 1 \in S
    <3>1. n + 1 \in Nat /\ after[n + 1] = GlmStepped(after[n], tools) /\ after[n] \in K
      BY <1>7, <2>2
    <3> QED
      BY <3>1
  <2> HIDE DEF S
  <2> QED
    BY <2>1, <2>2, Induction
<1>9. after \in [Nat -> K]
  BY <1>6, <1>8
<1> QED
  BY <1>5, <1>7, <1>9

\* What every event keeps, a run keeps.
LEMMA RunGlmStays ==
  ASSUME NEW K, NEW tools, \A q \in K : NextGlmEvent(q, tools) \in K, NEW p \in K, Len(p.buffer) \in Nat
  PROVE  RunGlm(p, tools) \in K
<1>1. \A q \in K : GlmStepped(q, tools) \in K
  <2> TAKE q \in K
  <2>1. GlmStepped(q, tools) = NextGlmEvent(q, tools) \/ GlmStepped(q, tools) = q
    BY DEF GlmStepped
  <2> QED
    BY <2>1
<1>2. PICK f \in [Nat -> K] : RunGlm(p, tools) = f[Len(p.buffer) + 1]
  <2>1. StaysIn(K, tools)
    BY <1>1 DEF StaysIn
  <2>2. RunIsIn(K, tools, p)
    BY <2>1, RunGlmIs
  <2> QED
    BY <2>2 DEF RunIsIn
<1>3. Len(p.buffer) + 1 \in Nat
  OBVIOUS
<1> QED
  BY <1>2, <1>3

LEMMA NoFailedCalls == Failure.calls = << >> /\ ~Failure.ok
BY DEF Failure

-----------------------------------------------------------------------------
(***************************************************************************)
(* What the GLM parser makes of a text, without its steps (CallIsRead,      *)
(* AfterIsRead): a call up to its end, white space, and the next one.       *)
(***************************************************************************)
GlmState(mode, buffer, calls, status) ==
  [mode |-> mode, buffer |-> buffer, calls |-> calls, status |-> status]

LEMMA GlmStateTyped ==
  ASSUME NEW B, NEW tools, NEW m \in {"text", "call", "after"}, NEW b \in Seq(B),
         NEW cs \in Seq(GlmCalls(B, tools)), NEW st \in Statuses
  PROVE  GlmState(m, b, cs, st) \in GlmParsers(B, tools)
BY DEF GlmState, GlmParsers

LEMMA GlmStateIs ==
  ASSUME NEW B, NEW tools, NEW p \in GlmParsers(B, tools)
  PROVE  p = GlmState(p.mode, p.buffer, p.calls, p.status)
BY DEF GlmState, GlmParsers

LEMMA GlmStateFields ==
  ASSUME NEW m, NEW b, NEW cs, NEW st
  PROVE  LET p == GlmState(m, b, cs, st)
         IN  p.mode = m /\ p.buffer = b /\ p.calls = cs /\ p.status = st
BY DEF GlmState

LEMMA GlmStateEnds ==
  ASSUME NEW m, NEW b, NEW cs
  PROVE  LET p == GlmState(m, b, cs, "ready")
         IN  Waits(p) = GlmState(m, b, cs, "waits") /\ Fails(p) = GlmState(m, b, cs, "failed")
BY DEF GlmState, Waits, Fails

LEMMA GlmStateSkips ==
  ASSUME NEW m, NEW b, NEW cs, NEW x, NEW p, p = GlmState(m, b, cs, "ready")
  PROVE  [p EXCEPT !.buffer = x] = GlmState(m, x, cs, "ready")
BY DEF GlmState

LEMMA GlmStateOpens ==
  ASSUME NEW m, NEW b, NEW cs, NEW x, NEW p, p = GlmState(m, b, cs, "ready")
  PROVE  Opened(p, x) = GlmState("call", x, cs, "ready")
<1> DEFINE q == [p EXCEPT !.mode = "call", !.buffer = x]
           r == GlmState("call", x, cs, "ready")
<1>1. DOMAIN q = DOMAIN r
  BY DEF GlmState
<1>2. q.mode = r.mode /\ q.buffer = r.buffer /\ q.calls = r.calls /\ q.status = r.status
  BY DEF GlmState
<1> QED
  BY <1>1, <1>2 DEF GlmState, Opened

LEMMA GlmStateReads ==
  ASSUME NEW m, NEW b, NEW cs, NEW x, NEW call, NEW p, p = GlmState(m, b, cs, "ready")
  PROVE  WithReadCall(p, x, call) = GlmState("after", x, Append(cs, call), "ready")
<1> DEFINE q == [p EXCEPT !.mode = "after", !.buffer = x, !.calls = Append(@, call)]
           r == GlmState("after", x, Append(cs, call), "ready")
<1>1. DOMAIN q = DOMAIN r
  BY DEF GlmState
<1>2. q.mode = r.mode /\ q.buffer = r.buffer /\ q.calls = r.calls /\ q.status = r.status
  BY DEF GlmState
<1> QED
  BY <1>1, <1>2 DEF GlmState, WithReadCall

LEMMA TextEventIs ==
  ASSUME NEW b, NEW cs
  PROVE  GlmTextEvent(GlmState("text", b, cs, "ready")) =
           IF b = << >> THEN GlmState("text", b, cs, "waits")
           ELSE IF First(b, "open") = 0 THEN GlmState("text", << >>, cs, "ready")
           ELSE IF First(b, "open") > 1 THEN GlmState("text", From(b, First(b, "open")), cs, "ready")
           ELSE GlmState("call", From(b, 2), cs, "ready")
<1> DEFINE p == GlmState("text", b, cs, "ready")
<1>1. GlmTextEvent(p) =
        IF p.buffer = << >> THEN Waits(p)
        ELSE IF First(p.buffer, "open") = 0 THEN [p EXCEPT !.buffer = << >>]
        ELSE IF First(p.buffer, "open") > 1 THEN [p EXCEPT !.buffer = From(p.buffer, First(p.buffer, "open"))]
        ELSE Opened(p, From(p.buffer, 2))
  BY DEF GlmTextEvent, Opened
<1>2. p.buffer = b
  BY GlmStateFields
<1>3. /\ Waits(p) = GlmState("text", b, cs, "waits")
      /\ [p EXCEPT !.buffer = << >>] = GlmState("text", << >>, cs, "ready")
      /\ [p EXCEPT !.buffer = From(b, First(b, "open"))] = GlmState("text", From(b, First(b, "open")), cs, "ready")
      /\ Opened(p, From(b, 2)) = GlmState("call", From(b, 2), cs, "ready")
  <2> DEFINE x == From(b, First(b, "open"))
             y == From(b, 2)
             none == << >>
  <2> HIDE DEF x, y, none
  <2>0. p = GlmState("text", b, cs, "ready")
    OBVIOUS
  <2>1. Waits(p) = GlmState("text", b, cs, "waits")
    BY GlmStateEnds
  <2> HIDE DEF p
  <2>2. [p EXCEPT !.buffer = none] = GlmState("text", none, cs, "ready")
    BY <2>0, GlmStateSkips
  <2>3. [p EXCEPT !.buffer = x] = GlmState("text", x, cs, "ready")
    BY <2>0, GlmStateSkips
  <2>4. Opened(p, y) = GlmState("call", y, cs, "ready")
    BY <2>0, GlmStateOpens
  <2> QED
    BY <2>1, <2>2, <2>3, <2>4 DEF x, y, none
<1> HIDE DEF p
<1> QED
  BY <1>1, <1>2, <1>3 DEF p

LEMMA CallEventIs ==
  ASSUME NEW b, NEW cs, NEW tools
  PROVE  CallEvent(GlmState("call", b, cs, "ready"), tools) =
           IF First(b, "close") = 0 THEN GlmState("call", b, cs, "waits")
           ELSE IF ~CallOf(SubSeq(b, 1, First(b, "close") - 1), tools).ok THEN GlmState("call", b, cs, "failed")
           ELSE GlmState("after", From(b, First(b, "close") + 1),
                         Append(cs, CallOf(SubSeq(b, 1, First(b, "close") - 1), tools).call), "ready")
<1> DEFINE p == GlmState("call", b, cs, "ready")
           close == First(p.buffer, "close")
           found == CallOf(SubSeq(p.buffer, 1, close - 1), tools)
           call == CallOf(SubSeq(b, 1, First(b, "close") - 1), tools).call
           more == Append(cs, call)
<1>1. CallEvent(p, tools) =
        IF close = 0 THEN Waits(p)
        ELSE IF ~found.ok THEN Fails(p)
        ELSE WithReadCall(p, From(p.buffer, close + 1), found.call)
  BY DEF CallEvent, WithReadCall
<1>2. p.buffer = b /\ p.calls = cs
  BY GlmStateFields
<1>3. /\ Waits(p) = GlmState("call", b, cs, "waits") /\ Fails(p) = GlmState("call", b, cs, "failed")
      /\ WithReadCall(p, From(b, First(b, "close") + 1), call) = GlmState("after", From(b, First(b, "close") + 1), more, "ready")
  <2> DEFINE x == From(b, First(b, "close") + 1)
  <2> HIDE DEF call, x
  <2>0. p = GlmState("call", b, cs, "ready")
    OBVIOUS
  <2>1. Waits(p) = GlmState("call", b, cs, "waits") /\ Fails(p) = GlmState("call", b, cs, "failed")
    BY GlmStateEnds
  <2> HIDE DEF p
  <2>2. WithReadCall(p, x, call) = GlmState("after", x, more, "ready")
    BY <2>0, GlmStateReads
  <2> QED
    BY <2>1, <2>2 DEF x
<1> HIDE DEF p
<1>4. close = First(b, "close") /\ found = CallOf(SubSeq(b, 1, First(b, "close") - 1), tools)
      /\ found.call = call
  BY <1>2
<1> HIDE DEF close, found, more, call
<1>5. close # 0 /\ found.ok => CallEvent(p, tools) = GlmState("after", From(b, First(b, "close") + 1), more, "ready")
  BY <1>1, <1>2, <1>3, <1>4
<1>6. close = 0 => CallEvent(p, tools) = GlmState("call", b, cs, "waits")
  BY <1>1, <1>3
<1>7. close # 0 /\ ~found.ok => CallEvent(p, tools) = GlmState("call", b, cs, "failed")
  BY <1>1, <1>3
<1> QED
  BY <1>4, <1>5, <1>6, <1>7 DEF p, more, call

LEMMA AfterEventIs ==
  ASSUME NEW b, NEW cs
  PROVE  AfterCallEvent(GlmState("after", b, cs, "ready")) =
           IF SkipBlanks(b) = << >> THEN GlmState("after", b, cs, "waits")
           ELSE IF SkipBlanks(b)[1] = "open" THEN GlmState("call", From(SkipBlanks(b), 2), cs, "ready")
           ELSE GlmState("after", << >>, cs, "ready")
<1> DEFINE p == GlmState("after", b, cs, "ready")
           rest == SkipBlanks(p.buffer)
<1>1. AfterCallEvent(p) =
        IF rest = << >> THEN Waits(p)
        ELSE IF rest[1] = "open" THEN Opened(p, From(rest, 2))
        ELSE [p EXCEPT !.buffer = << >>]
  BY DEF AfterCallEvent, Opened
<1>2. p.buffer = b
  BY GlmStateFields
<1>3. /\ Waits(p) = GlmState("after", b, cs, "waits")
      /\ [p EXCEPT !.buffer = << >>] = GlmState("after", << >>, cs, "ready")
      /\ Opened(p, From(SkipBlanks(b), 2)) = GlmState("call", From(SkipBlanks(b), 2), cs, "ready")
  <2> DEFINE y == From(SkipBlanks(b), 2)
             none == << >>
  <2> HIDE DEF y, none
  <2>0. p = GlmState("after", b, cs, "ready")
    OBVIOUS
  <2>1. Waits(p) = GlmState("after", b, cs, "waits")
    BY GlmStateEnds
  <2> HIDE DEF p
  <2>2. [p EXCEPT !.buffer = none] = GlmState("after", none, cs, "ready")
    BY <2>0, GlmStateSkips
  <2>3. Opened(p, y) = GlmState("call", y, cs, "ready")
    BY <2>0, GlmStateOpens
  <2> QED
    BY <2>1, <2>2, <2>3 DEF y, none
<1> HIDE DEF p
<1> QED
  BY <1>1, <1>2, <1>3 DEF p

LEMMA NextGlmEventIs ==
  ASSUME NEW b, NEW cs, NEW tools
  PROVE  /\ NextGlmEvent(GlmState("text", b, cs, "ready"), tools) = GlmTextEvent(GlmState("text", b, cs, "ready"))
         /\ NextGlmEvent(GlmState("call", b, cs, "ready"), tools) = CallEvent(GlmState("call", b, cs, "ready"), tools)
         /\ NextGlmEvent(GlmState("after", b, cs, "ready"), tools) = AfterCallEvent(GlmState("after", b, cs, "ready"))
BY GlmStateFields DEF NextGlmEvent

\* Every event that does not end it takes something off the buffer.
GlmShrinks(p, q) == q.status = "ready" => Len(q.buffer) < Len(p.buffer)

LEMMA BehindBlanks ==
  ASSUME NEW B, NEW b \in Seq(B), NEW rest, rest = SkipBlanks(b)
  PROVE  rest \in Seq(B) /\ Len(rest) <= Len(b) /\ Len(rest) \in Nat /\ Len(b) \in Nat
<1> DEFINE k == Blanks(b)
<1>1. k \in 0..Len(b) /\ Len(b) \in Nat
  BY BlanksAre
<1>2. rest = From(b, k + 1)
  BY DEF SkipBlanks
<1> HIDE DEF k
<1>3. From(b, k + 1) \in Seq(B) /\ Len(From(b, k + 1)) = Len(b) - k
  BY <1>1, LeftBehind
<1> QED
  BY <1>1, <1>2, <1>3

LEMMA GlmEventTyped ==
  ASSUME NEW B, NEW tools, NEW p \in GlmParsers(B, tools), p.status = "ready"
  PROVE  NextGlmEvent(p, tools) \in GlmParsers(B, tools) /\ GlmShrinks(p, NextGlmEvent(p, tools))
<1> DEFINE b == p.buffer
           cs == p.calls
<1>1. b \in Seq(B) /\ Len(b) \in Nat /\ cs \in Seq(GlmCalls(B, tools)) /\ p.mode \in {"text", "call", "after"}
  <2>1. b \in Seq(B) /\ cs \in Seq(GlmCalls(B, tools)) /\ p.mode \in {"text", "call", "after"}
    BY GlmFields
  <2> QED
    BY <2>1
<1>2. p = GlmState(p.mode, b, cs, "ready")
  BY GlmStateIs
<1> HIDE DEF b, cs
<1>st. {"ready", "waits", "failed"} = Statuses
  BY DEF Statuses
<1>3. \A m, x, ds, st : LET q == GlmState(m, x, ds, st)
                        IN  q.buffer = x /\ q.status = st
  BY GlmStateFields
<1>4. \A x \in Seq(B), ds \in Seq(GlmCalls(B, tools)), m \in {"text", "call", "after"}, st \in Statuses :
        Len(x) < Len(b) \/ st # "ready" =>
          GlmState(m, x, ds, st) \in GlmParsers(B, tools) /\ GlmShrinks(p, GlmState(m, x, ds, st))
  BY <1>3, GlmStateTyped DEF GlmShrinks, b
<1>5. << >> \in Seq(B) /\ (b # << >> => Len(<< >>) < Len(b))
  BY <1>1
<1>6. \A n \in 2..(Len(b) + 1) : From(b, n) \in Seq(B) /\ Len(From(b, n)) < Len(b)
  <2> TAKE n \in 2..(Len(b) + 1)
  <2>1. n - 1 \in 0..Len(b) /\ (n - 1) + 1 = n /\ Len(b) - (n - 1) < Len(b)
    BY <1>1
  <2>2. From(b, (n - 1) + 1) \in Seq(B) /\ Len(From(b, (n - 1) + 1)) = Len(b) - (n - 1)
    <3> DEFINE d == n - 1
    <3>1. d \in 0..Len(b)
      BY <2>1
    <3> HIDE DEF d
    <3>2. From(b, d + 1) \in Seq(B) /\ Len(From(b, d + 1)) = Len(b) - d
      BY <1>1, <3>1, LeftBehind
    <3> QED
      BY <3>2 DEF d
  <2> QED
    BY <2>1, <2>2
<1>7. CASE p.mode = "text"
  <2> DEFINE open == First(b, "open")
  <2>1. open \in 0..Len(b)
    BY <1>1, FirstIs
  <2>2. NextGlmEvent(p, tools) =
           IF b = << >> THEN GlmState("text", b, cs, "waits")
           ELSE IF open = 0 THEN GlmState("text", << >>, cs, "ready")
           ELSE IF open > 1 THEN GlmState("text", From(b, open), cs, "ready")
           ELSE GlmState("call", From(b, 2), cs, "ready")
    BY <1>2, <1>7, NextGlmEventIs, TextEventIs
  <2> HIDE DEF open
  <2>3. open > 1 => open \in 2..(Len(b) + 1)
    BY <1>1, <2>1
  <2>4. b # << >> => 2 \in 2..(Len(b) + 1)
    BY <1>1
  <2> QED
    BY <1>1, <1>st, <1>4, <1>5, <1>6, <2>2, <2>3, <2>4
<1>8. CASE p.mode = "call"
  <2> DEFINE close == First(b, "close")
             body == SubSeq(b, 1, close - 1)
             call == CallOf(body, tools).call
  <2>1. close \in 0..Len(b)
    BY <1>1, FirstIs
  <2>2. NextGlmEvent(p, tools) =
           IF close = 0 THEN GlmState("call", b, cs, "waits")
           ELSE IF ~CallOf(body, tools).ok THEN GlmState("call", b, cs, "failed")
           ELSE GlmState("after", From(b, close + 1), Append(cs, call), "ready")
    BY <1>2, <1>8, NextGlmEventIs, CallEventIs
  <2>3. close # 0 => Append(cs, call) \in Seq(GlmCalls(B, tools)) /\ close + 1 \in 2..(Len(b) + 1)
    <3> HIDE DEF close
    <3>1. SUFFICES ASSUME close # 0
                   PROVE  Append(cs, call) \in Seq(GlmCalls(B, tools)) /\ close + 1 \in 2..(Len(b) + 1)
      OBVIOUS
    <3>2. close - 1 \in 0..Len(b) /\ close + 1 \in 2..(Len(b) + 1)
      BY <1>1, <2>1, <3>1
    <3>3. body \in Seq(B)
      BY <1>1, <3>2, Beginning
    <3>4. call \in GlmCalls(B, tools)
      BY <3>3 DEF GlmCalls
    <3> HIDE DEF call
    <3> QED
      BY <1>1, <3>2, <3>4
  <2> HIDE DEF close, body, call
  <2> QED
    BY <1>1, <1>st, <1>4, <1>6, <2>2, <2>3
<1>9. CASE p.mode = "after"
  <2> DEFINE rest == SkipBlanks(b)
  <2>1. NextGlmEvent(p, tools) =
           IF rest = << >> THEN GlmState("after", b, cs, "waits")
           ELSE IF rest[1] = "open" THEN GlmState("call", From(rest, 2), cs, "ready")
           ELSE GlmState("after", << >>, cs, "ready")
    BY <1>2, <1>9, NextGlmEventIs, AfterEventIs
  <2>2. rest \in Seq(B) /\ Len(rest) <= Len(b) /\ Len(rest) \in Nat
    BY <1>1, BehindBlanks
  <2> HIDE DEF rest
  <2>3. rest # << >> => From(rest, 2) \in Seq(B) /\ Len(From(rest, 2)) < Len(b) /\ b # << >>
    <3>1. SUFFICES ASSUME rest # << >> PROVE From(rest, 2) \in Seq(B) /\ Len(From(rest, 2)) < Len(b) /\ b # << >>
      OBVIOUS
    <3>2. Len(rest) > 0 /\ 2 \in 1..(Len(rest) + 1) /\ Len(rest) + 1 - 2 < Len(b) /\ Len(b) # 0
      BY <1>1, <2>2, <3>1
    <3>3. From(rest, 2) \in Seq(B) /\ Len(From(rest, 2)) = Len(rest) + 1 - 2
      BY <2>2, <3>2, FromText
    <3>4. b # << >>
      BY <3>2
    <3> QED
      BY <3>2, <3>3, <3>4
  <2> QED
    BY <1>1, <1>st, <1>4, <1>5, <2>1, <2>3
<1> QED
  BY <1>1, <1>7, <1>8, <1>9

\* A run is what it is behind its first event, and nothing where it has ended.
LEMMA RunGlmNext ==
  ASSUME NEW B, NEW tools, NEW p \in GlmParsers(B, tools)
  PROVE  /\ RunGlm(p, tools) = RunGlm(GlmStepped(p, tools), tools)
         /\ p.status # "ready" => RunGlm(p, tools) = p
<1> DEFINE K == GlmParsers(B, tools)
           Going == {q \in K : q.status = "ready"}
           step == [q \in K |-> GlmStepped(q, tools)]
           size == [q \in K |-> Len(q.buffer)]
<1>1. \A q \in K : GlmStepped(q, tools) \in K /\ Len(q.buffer) \in Nat
  <2> TAKE q \in K
  <2>1. q.buffer \in Seq(B)
    BY GlmFields
  <2>2. q.status = "ready" => NextGlmEvent(q, tools) \in K
    BY GlmEventTyped
  <2> QED
    BY <2>1, <2>2 DEF GlmStepped
<1>2. \A q \in K : GlmStepped(q, tools).status = "ready" => Len(GlmStepped(q, tools).buffer) < Len(q.buffer)
  BY GlmEventTyped DEF GlmStepped, GlmShrinks
<1>3. \A q \in K : q.status # "ready" => GlmStepped(q, tools) = q
  BY DEF GlmStepped
<1> HIDE DEF K
<1>4. step \in [K -> K] /\ size \in [K -> Nat] /\ \A q \in K : step[q] = GlmStepped(q, tools) /\ size[q] = Len(q.buffer)
  BY <1>1
<1>5. \A q \in K \ Going : step[q] = q
  BY <1>3
<1>6. \A q \in K : step[q] \in Going => size[step[q]] < size[q]
  BY <1>1, <1>2
<1> HIDE DEF step, size, Going
<1>7. \A q \in K : \E f \in [Nat -> K] : f[0] = q /\ Repeats(f, step) /\ RunGlm(q, tools) = f[size[q] + 1]
  <2> TAKE q \in K
  <2>1. Len(q.buffer) \in Nat
    BY <1>1
  <2>2. PICK f \in [Nat -> K] :
          /\ f[0] = q /\ \A n \in Nat : f[n + 1] = GlmStepped(f[n], tools)
          /\ RunGlm(q, tools) = f[Len(q.buffer) + 1]
    <3>1. StaysIn(K, tools)
      BY <1>1 DEF StaysIn
    <3>2. RunIsIn(K, tools, q)
      BY <2>1, <3>1, RunGlmIs
    <3> QED
      BY <3>2 DEF RunIsIn
  <2>3. Repeats(f, step)
    BY <1>4, <2>2 DEF Repeats
  <2>4. RunGlm(q, tools) = f[size[q] + 1]
    BY <1>4, <2>2
  <2> QED
    BY <2>2, <2>3, <2>4
<1>8. p \in K /\ step[p] \in K /\ step[p] = GlmStepped(p, tools)
  BY <1>4 DEF K
<1>9. PICK f \in [Nat -> K] : f[0] = p /\ Repeats(f, step) /\ RunGlm(p, tools) = f[size[p] + 1]
  BY <1>7, <1>8
<1>10. PICK g \in [Nat -> K] :
         g[0] = step[p] /\ Repeats(g, step) /\ RunGlm(step[p], tools) = g[size[step[p]] + 1]
  BY <1>7, <1>8
<1>11. f[size[f[0]] + 1] = g[size[g[0]] + 1]
  <2>1. g[0] = step[f[0]] /\ f \in [Nat -> K] /\ g \in [Nat -> K] /\ Repeats(f, step) /\ Repeats(g, step)
    BY <1>9, <1>10
  <2>2. Shrinking(K, step, Going, size)
    BY <1>4, <1>5, <1>6 DEF Shrinking
  <2> QED
    BY <2>1, <2>2, SameEnd
<1>12. RunGlm(p, tools) = RunGlm(step[p], tools)
  BY <1>9, <1>10, <1>11
<1>13. p.status # "ready" => RunGlm(p, tools) = p
  <2>1. SUFFICES ASSUME p.status # "ready" PROVE RunGlm(p, tools) = p
    OBVIOUS
  <2>2. f[0] \notin Going
    BY <1>9, <2>1 DEF Going
  <2>3. \A n \in Nat : f[n] = f[0]
    <3>1. Shrinking(K, step, Going, size)
      BY <1>4, <1>5, <1>6 DEF Shrinking
    <3>2. f \in [Nat -> K] /\ Repeats(f, step)
      BY <1>9
    <3>3. Still(f)
      BY <2>2, <3>1, <3>2, EndedFirst
    <3> QED
      BY <3>3 DEF Still
  <2>4. size[p] + 1 \in Nat
    <3>1. size[p] \in Nat
      BY <1>4, <1>8
    <3> QED
      BY <3>1
  <2> QED
    BY <1>9, <2>3, <2>4
<1> QED
  BY <1>8, <1>12, <1>13

(***************************************************************************)
(* What becomes of a parser in this mode with this text before it, behind   *)
(* the calls it has read.                                                   *)
(***************************************************************************)
Outcome(m, b, cs, tools) == GlmFinished(RunGlm(GlmState(m, b, cs, "ready"), tools))

AllRead(calls) == [ok |-> TRUE, calls |-> calls]

Behind(b, cs, tools) ==
  LET rest == SkipBlanks(b)
  IN  IF rest = << >> \/ rest[1] # "open" THEN AllRead(cs) ELSE Outcome("call", From(rest, 2), cs, tools)

LEMMA ParseGlmIs ==
  ASSUME NEW text, NEW tools
  PROVE  ParseGlm(text, tools) = Outcome("text", text, << >>, tools)
BY DEF ParseGlm, Outcome, GlmState

LEMMA FinishedIs ==
  ASSUME NEW m, NEW b, NEW cs
  PROVE  /\ GlmFinished(GlmState(m, b, cs, "failed")) = Failure
         /\ GlmFinished(GlmState(m, b, cs, "waits")) =
              IF m = "call" /\ b # << >> THEN Failure ELSE AllRead(cs)
BY DEF GlmFinished, GlmState, AllRead

\* By the first event: the parser ends with it, or the outcome is that of what it leaves.
LEMMA OutcomeIs ==
  ASSUME NEW B, NEW tools, NEW m \in {"text", "call", "after"}, NEW b \in Seq(B), NEW cs \in Seq(GlmCalls(B, tools)),
         NEW m2 \in {"text", "call", "after"}, NEW b2 \in Seq(B), NEW cs2 \in Seq(GlmCalls(B, tools)), NEW st \in Statuses,
         NextGlmEvent(GlmState(m, b, cs, "ready"), tools) = GlmState(m2, b2, cs2, st)
  PROVE  Outcome(m, b, cs, tools) =
           IF st = "ready" THEN Outcome(m2, b2, cs2, tools) ELSE GlmFinished(GlmState(m2, b2, cs2, st))
<1> DEFINE p == GlmState(m, b, cs, "ready")
           e == GlmState(m2, b2, cs2, st)
<1>1. p \in GlmParsers(B, tools) /\ e \in GlmParsers(B, tools)
  <2>1. "ready" \in Statuses
    BY DEF Statuses
  <2> QED
    BY <2>1, GlmStateTyped
<1>2. p.status = "ready" /\ e.status = st
  BY GlmStateFields
<1>3. GlmStepped(p, tools) = e
  BY <1>2 DEF GlmStepped
<1> HIDE DEF p, e
<1>4. RunGlm(p, tools) = RunGlm(e, tools) /\ (st # "ready" => RunGlm(e, tools) = e)
  BY <1>1, <1>2, <1>3, RunGlmNext
<1>5. Outcome(m, b, cs, tools) = GlmFinished(RunGlm(e, tools))
  BY <1>4 DEF Outcome, p
<1>6. st = "ready" => Outcome(m2, b2, cs2, tools) = GlmFinished(RunGlm(e, tools))
  BY DEF Outcome, e
<1> QED
  BY <1>4, <1>5, <1>6 DEF e

LEMMA AfterIsRead ==
  ASSUME NEW B, NEW tools, NEW b \in Seq(B), NEW cs \in Seq(GlmCalls(B, tools))
  PROVE  Outcome("after", b, cs, tools) = Behind(b, cs, tools)
<1> DEFINE rest == SkipBlanks(b)
<1>st. {"ready", "waits", "failed"} = Statuses
  BY DEF Statuses
<1>1. rest \in Seq(B) /\ Len(rest) \in Nat
  BY BehindBlanks
<1>2. NextGlmEvent(GlmState("after", b, cs, "ready"), tools) =
           IF rest = << >> THEN GlmState("after", b, cs, "waits")
           ELSE IF rest[1] = "open" THEN GlmState("call", From(rest, 2), cs, "ready")
           ELSE GlmState("after", << >>, cs, "ready")
  BY NextGlmEventIs, AfterEventIs
<1>3. Behind(b, cs, tools) = IF rest = << >> \/ rest[1] # "open" THEN AllRead(cs)
                             ELSE Outcome("call", From(rest, 2), cs, tools)
  BY DEF Behind
<1> HIDE DEF rest
<1>4. ASSUME NEW x \in Seq(B), NextGlmEvent(GlmState("after", x, cs, "ready"), tools) = GlmState("after", x, cs, "waits")
      PROVE  Outcome("after", x, cs, tools) = AllRead(cs)
  BY <1>st, <1>4, OutcomeIs, FinishedIs
<1>5. CASE rest = << >>
  BY <1>2, <1>3, <1>4, <1>5
<1>6. CASE rest # << >> /\ rest[1] = "open"
  <2>1. From(rest, 2) \in Seq(B)
    <3>1. 2 \in 1..(Len(rest) + 1)
      BY <1>1, <1>6
    <3> QED
      BY <1>1, <3>1, FromText
  <2>2. NextGlmEvent(GlmState("after", b, cs, "ready"), tools) = GlmState("call", From(rest, 2), cs, "ready")
    BY <1>2, <1>6
  <2>3. Outcome("after", b, cs, tools) = Outcome("call", From(rest, 2), cs, tools)
    BY <1>st, <2>1, <2>2, OutcomeIs
  <2> QED
    BY <1>3, <1>6, <2>3
<1>7. CASE rest # << >> /\ rest[1] # "open"
  <2> DEFINE none == << >>
  <2>1. none \in Seq(B)
    OBVIOUS
  <2>2. NextGlmEvent(GlmState("after", b, cs, "ready"), tools) = GlmState("after", none, cs, "ready")
    BY <1>2, <1>7
  <2>3. SkipBlanks(none) = << >>
    <3>1. Blanks(none) = 0
      <4>1. Blanks(none) \in 0..Len(none)
        BY <2>1, BlanksAre
      <4> QED
        BY <4>1
    <3>2. From(none, 1) = << >>
      BY <2>1, WholeBeginning
    <3> QED
      BY <3>1, <3>2 DEF SkipBlanks
  <2>4. NextGlmEvent(GlmState("after", none, cs, "ready"), tools) = GlmState("after", none, cs, "waits")
    <3> HIDE DEF none
    <3> QED
      BY <2>3, NextGlmEventIs, AfterEventIs
  <2> HIDE DEF none
  <2>5. Outcome("after", b, cs, tools) = Outcome("after", none, cs, tools)
    BY <1>st, <2>1, <2>2, OutcomeIs
  <2> QED
    BY <1>3, <1>4, <1>7, <2>1, <2>4, <2>5
<1> QED
  BY <1>5, <1>6, <1>7

LEMMA CallIsRead ==
  ASSUME NEW B, NEW tools, NEW b \in Seq(B), NEW cs \in Seq(GlmCalls(B, tools))
  PROVE  LET close == First(b, "close")
             found == CallOf(SubSeq(b, 1, close - 1), tools)
         IN  /\ Outcome("call", b, cs, tools) =
                  IF close = 0 THEN IF b = << >> THEN AllRead(cs) ELSE Failure
                  ELSE IF ~found.ok THEN Failure
                  ELSE Behind(From(b, close + 1), Append(cs, found.call), tools)
             /\ close # 0 => /\ close \in 1..Len(b) /\ From(b, close + 1) \in Seq(B)
                             /\ Append(cs, found.call) \in Seq(GlmCalls(B, tools))
<1> DEFINE close == First(b, "close")
           body == SubSeq(b, 1, close - 1)
           found == CallOf(body, tools)
           rest == From(b, close + 1)
           more == Append(cs, found.call)
<1>st. {"ready", "waits", "failed"} = Statuses
  BY DEF Statuses
<1>1. close \in 0..Len(b) /\ Len(b) \in Nat
  BY FirstIs
<1>2. NextGlmEvent(GlmState("call", b, cs, "ready"), tools) =
           IF close = 0 THEN GlmState("call", b, cs, "waits")
           ELSE IF ~found.ok THEN GlmState("call", b, cs, "failed")
           ELSE GlmState("after", rest, more, "ready")
  BY NextGlmEventIs, CallEventIs
<1> HIDE DEF close
<1>3. close # 0 => close \in 1..Len(b) /\ rest \in Seq(B) /\ more \in Seq(GlmCalls(B, tools))
  <2>1. SUFFICES ASSUME close # 0
                 PROVE  close \in 1..Len(b) /\ rest \in Seq(B) /\ more \in Seq(GlmCalls(B, tools))
    OBVIOUS
  <2>2. close \in 1..Len(b) /\ close - 1 \in 0..Len(b) /\ close + 1 \in 1..(Len(b) + 1)
    BY <1>1, <2>1
  <2>3. body \in Seq(B)
    BY <2>2, Beginning
  <2>4. found.call \in GlmCalls(B, tools)
    BY <2>3 DEF GlmCalls
  <2>5. rest \in Seq(B)
    BY <2>2, FromText
  <2> HIDE DEF found, rest, body
  <2> QED
    BY <2>2, <2>4, <2>5
<1> HIDE DEF rest, more, body, found
<1>4. Outcome("call", b, cs, tools) =
                  IF close = 0 THEN IF b = << >> THEN AllRead(cs) ELSE Failure
                  ELSE IF ~found.ok THEN Failure
                  ELSE Behind(rest, more, tools)
  <2>1. CASE close = 0
    <3>1. Outcome("call", b, cs, tools) = GlmFinished(GlmState("call", b, cs, "waits"))
      BY <1>st, <1>2, <2>1, OutcomeIs
    <3> QED
      BY <2>1, <3>1, FinishedIs
  <2>2. CASE close # 0 /\ ~found.ok
    <3>1. Outcome("call", b, cs, tools) = GlmFinished(GlmState("call", b, cs, "failed"))
      BY <1>st, <1>2, <2>2, OutcomeIs
    <3> QED
      BY <2>2, <3>1, FinishedIs
  <2>3. CASE close # 0 /\ found.ok
    <3>1. Outcome("call", b, cs, tools) = Outcome("after", rest, more, tools)
      BY <1>st, <1>2, <1>3, <2>3, OutcomeIs
    <3> QED
      BY <1>3, <2>3, <3>1, AfterIsRead
  <2> QED
    BY <2>1, <2>2, <2>3
<1> QED
  BY <1>3, <1>4 DEF rest, more, found, body, close

LEMMA TextIsRead ==
  ASSUME NEW B, NEW tools, NEW b \in Seq(B), NEW cs \in Seq(GlmCalls(B, tools))
  PROVE  Outcome("text", b, cs, tools) =
           IF First(b, "open") = 0 THEN AllRead(cs)
           ELSE Outcome("call", From(b, First(b, "open") + 1), cs, tools)
<1> DEFINE open == First(b, "open")
<1>st. {"ready", "waits", "failed"} = Statuses
  BY DEF Statuses
<1>1. open \in 0..Len(b) /\ Len(b) \in Nat /\ (open > 0 => b[open] = "open")
  BY FirstIs
<1>2. \A x \in Seq(B) : NextGlmEvent(GlmState("text", x, cs, "ready"), tools) =
           IF x = << >> THEN GlmState("text", x, cs, "waits")
           ELSE IF First(x, "open") = 0 THEN GlmState("text", << >>, cs, "ready")
           ELSE IF First(x, "open") > 1 THEN GlmState("text", From(x, First(x, "open")), cs, "ready")
           ELSE GlmState("call", From(x, 2), cs, "ready")
  BY NextGlmEventIs, TextEventIs
<1> HIDE DEF open
<1>3. Outcome("text", << >>, cs, tools) = AllRead(cs)
  <2> DEFINE none == << >>
  <2>1. none \in Seq(B) /\ none = << >>
    OBVIOUS
  <2> HIDE DEF none
  <2>2. NextGlmEvent(GlmState("text", none, cs, "ready"), tools) = GlmState("text", none, cs, "waits")
    BY <1>2, <2>1
  <2>3. ASSUME NEW x \in Seq(B), NextGlmEvent(GlmState("text", x, cs, "ready"), tools) = GlmState("text", x, cs, "waits")
        PROVE  Outcome("text", x, cs, tools) = AllRead(cs)
    BY <1>st, <2>3, OutcomeIs, FinishedIs
  <2> QED
    BY <2>1, <2>2, <2>3
<1>4. \A x \in Seq(B) : x # << >> /\ First(x, "open") = 1 =>
        Outcome("text", x, cs, tools) = Outcome("call", From(x, 2), cs, tools)
  <2> TAKE x \in Seq(B)
  <2>1. SUFFICES ASSUME x # << >>, First(x, "open") = 1
                 PROVE  Outcome("text", x, cs, tools) = Outcome("call", From(x, 2), cs, tools)
    OBVIOUS
  <2>2. From(x, 2) \in Seq(B)
    <3>1. 2 \in 1..(Len(x) + 1)
      BY <2>1
    <3> QED
      BY <3>1, FromText
  <2>3. NextGlmEvent(GlmState("text", x, cs, "ready"), tools) = GlmState("call", From(x, 2), cs, "ready")
    BY <1>2, <2>1
  <2> QED
    BY <1>st, <2>2, <2>3, OutcomeIs
<1>5. CASE b = << >>
  <2>1. open = 0
    BY <1>1, <1>5
  <2> QED
    BY <1>3, <1>5, <2>1 DEF open
<1>6. CASE b # << >> /\ open = 0
  <2> DEFINE none == << >>
  <2>1. none \in Seq(B) /\ NextGlmEvent(GlmState("text", b, cs, "ready"), tools) = GlmState("text", none, cs, "ready")
    BY <1>2, <1>6 DEF open
  <2> HIDE DEF none
  <2>2. Outcome("text", b, cs, tools) = Outcome("text", none, cs, tools)
    BY <1>st, <2>1, OutcomeIs
  <2> QED
    BY <1>3, <1>6, <2>2 DEF open, none
<1>7. CASE b # << >> /\ open = 1
  <2>1. open + 1 = 2
    BY <1>7
  <2> QED
    BY <1>4, <1>7, <2>1 DEF open
<1>8. CASE b # << >> /\ open > 1
  <2> DEFINE k == open - 1
             skip == From(b, open)
  <2>1. k \in 0..Len(b) /\ k + 1 = open /\ Len(b) - k > 0 /\ k + 1 \in Nat
    BY <1>1, <1>8
  <2> HIDE DEF k
  <2>2. From(b, k + 1) \in Seq(B) /\ Len(From(b, k + 1)) = Len(b) - k
        /\ \A x \in 1..Len(From(b, k + 1)) : From(b, k + 1)[x] = b[k + x]
    BY <2>1, LeftBehind
  <2>3. skip \in Seq(B) /\ Len(skip) = Len(b) - k /\ \A x \in 1..Len(skip) : skip[x] = b[k + x]
    BY <2>1, <2>2
  <2> HIDE DEF skip
  <2>4. 1 \in 1..Len(skip) /\ 1 \in 0..Len(skip) /\ skip[1] = "open" /\ skip # << >>
    <3>1. Len(skip) \in Nat /\ Len(skip) > 0
      BY <2>1, <2>3
    <3>2. 1 \in 1..Len(skip) /\ 1 \in 0..Len(skip)
      BY <3>1
    <3>3. skip[1] = b[k + 1]
      BY <2>3, <3>2
    <3> QED
      BY <1>1, <1>8, <2>1, <3>1, <3>2, <3>3
  <2>5. First(skip, "open") = 1
    <3>1. \A i \in 1..(1 - 1) : skip[i] # "open"
      OBVIOUS
    <3> QED
      BY <2>3, <2>4, <3>1, FirstAt
  <2>6. From(skip, 2) = From(b, open + 1)
    <3> DEFINE one == 1
    <3>1. one \in 0..Len(skip) /\ one + 1 = 2 /\ (k + one) + 1 = open + 1
      BY <2>1, <2>4
    <3> HIDE DEF one
    <3>2. skip = From(b, k + 1)
      BY <2>1 DEF skip
    <3>3. From(skip, one + 1) = From(b, (k + one) + 1)
      BY <2>1, <3>1, <3>2, FromAgain
    <3> QED
      BY <3>1, <3>3
  <2>7. NextGlmEvent(GlmState("text", b, cs, "ready"), tools) = GlmState("text", skip, cs, "ready")
    <3>1. ~(open = 0)
      BY <1>8
    <3> QED
      BY <1>2, <1>8, <3>1 DEF open, skip
  <2>8. Outcome("text", b, cs, tools) = Outcome("text", skip, cs, tools)
    BY <1>st, <2>3, <2>7, OutcomeIs
  <2>9. Outcome("text", skip, cs, tools) = Outcome("call", From(b, open + 1), cs, tools)
    BY <1>4, <2>3, <2>4, <2>5, <2>6
  <2> QED
    BY <1>1, <1>8, <2>8, <2>9 DEF open
<1> QED
  BY <1>1, <1>5, <1>6, <1>7, <1>8

-----------------------------------------------------------------------------
(***************************************************************************)
(* Calls are read one by one: what is read of a text behind other calls is  *)
(* read as if it stood alone (ReadsOn), and when each end of a text was     *)
(* that of a call, what comes behind it is read behind them (RowReads).     *)
(***************************************************************************)
IsOutcome(B, tools, o) == o = Failure \/ \E calls \in Seq(GlmCalls(B, tools)) : o = AllRead(calls)

LEMMA OutcomeTyped ==
  ASSUME NEW B, NEW tools, NEW b \in Seq(B), NEW cs \in Seq(GlmCalls(B, tools)), NEW m \in {"text", "call", "after"}
  PROVE  IsOutcome(B, tools, Outcome(m, b, cs, tools))
<1> DEFINE p == GlmState(m, b, cs, "ready")
           q == RunGlm(p, tools)
           K == GlmParsers(B, tools)
<1>1. p \in K /\ p.buffer = b
  <2>1. "ready" \in Statuses
    BY DEF Statuses
  <2> QED
    BY <2>1, GlmStateTyped, GlmStateFields
<1>2. \A x \in K : GlmStepped(x, tools) \in K
  BY GlmEventTyped DEF GlmStepped
<1>3. Len(p.buffer) \in Nat
  BY <1>1
<1> HIDE DEF p, K
<1>4. PICK f \in [Nat -> K] : q = f[Len(p.buffer) + 1]
  <2>1. StaysIn(K, tools)
    BY <1>2 DEF StaysIn
  <2>2. p \in K
    BY <1>1
  <2>3. RunIsIn(K, tools, p)
    BY <1>3, <2>1, <2>2, RunGlmIs
  <2> QED
    BY <2>3 DEF RunIsIn, q
<1>5. q \in K
  BY <1>3, <1>4
<1>6. q.calls \in Seq(GlmCalls(B, tools))
  BY <1>5, GlmFields DEF K
<1>7. Outcome(m, b, cs, tools) = GlmFinished(q)
  BY DEF Outcome, p
<1> HIDE DEF q
<1>8. GlmFinished(q) = Failure \/ GlmFinished(q) = AllRead(q.calls)
  BY DEF GlmFinished, AllRead
<1> QED
  BY <1>6, <1>7, <1>8 DEF IsOutcome

LEMMA AllReadIs ==
  ASSUME NEW calls
  PROVE  AllRead(calls).ok /\ AllRead(calls).calls = calls /\ ~Failure.ok
BY DEF AllRead, Failure

\* The text behind the marker of the next call.
NextCall(b) == From(SkipBlanks(b), 2)

Goes(b) == SkipBlanks(b) # << >> /\ SkipBlanks(b)[1] = "open"

LEMMA NextCallIs ==
  ASSUME NEW B, NEW b \in Seq(B), Goes(b)
  PROVE  NextCall(b) \in Seq(B) /\ Len(NextCall(b)) < Len(b)
<1> DEFINE rest == SkipBlanks(b)
<1>1. rest \in Seq(B) /\ Len(rest) <= Len(b) /\ Len(rest) \in Nat /\ Len(b) \in Nat
  BY BehindBlanks
<1>2. rest # << >>
  BY DEF Goes
<1>3. NextCall(b) = From(rest, 2)
  BY DEF NextCall
<1> HIDE DEF rest
<1> DEFINE one == 1
<1>4. one \in 0..Len(rest) /\ one + 1 = 2 /\ Len(rest) - one < Len(b)
  BY <1>1, <1>2
<1> HIDE DEF one
<1>5. From(rest, one + 1) \in Seq(B) /\ Len(From(rest, one + 1)) = Len(rest) - one
  BY <1>1, <1>4, LeftBehind
<1> QED
  BY <1>3, <1>4, <1>5

LEMMA BehindIs ==
  ASSUME NEW b, NEW cs, NEW tools
  PROVE  Behind(b, cs, tools) = IF Goes(b) THEN Outcome("call", NextCall(b), cs, tools) ELSE AllRead(cs)
BY DEF Behind, Goes, NextCall

\* How the outcome behind other calls is that of the text alone.
Added(cs, o) == IF o.ok THEN AllRead(cs \o o.calls) ELSE Failure

LEMMA AddedTwice ==
  ASSUME NEW B, NEW tools, NEW cs \in Seq(GlmCalls(B, tools)), NEW call \in GlmCalls(B, tools), NEW o,
         o = Failure \/ \E calls \in Seq(GlmCalls(B, tools)) : o = AllRead(calls)
  PROVE  Added(Append(cs, call), o) = Added(cs, Added(<<call>>, o))
<1>1. CASE o = Failure
  BY <1>1, AllReadIs DEF Added
<1>2. CASE \E calls \in Seq(GlmCalls(B, tools)) : o = AllRead(calls)
  <2>1. PICK calls \in Seq(GlmCalls(B, tools)) : o = AllRead(calls)
    BY <1>2
  <2>2. Append(cs, call) = cs \o <<call>> /\ <<call>> \in Seq(GlmCalls(B, tools))
    BY AppendIsConcat
  <2>3. (cs \o <<call>>) \o calls = cs \o (<<call>> \o calls)
    BY <2>2, ConcatAssociative
  <2>4. Added(Append(cs, call), o) = AllRead(Append(cs, call) \o calls)
    BY <2>1, AllReadIs DEF Added
  <2>5. Added(<<call>>, o) = AllRead(<<call>> \o calls)
    BY <2>1, AllReadIs DEF Added
  <2>6. Added(cs, Added(<<call>>, o)) = AllRead(cs \o (<<call>> \o calls))
    BY <2>5, AllReadIs DEF Added
  <2> QED
    BY <2>2, <2>3, <2>4, <2>6
<1> QED
  BY <1>1, <1>2

LEMMA AddedNone ==
  ASSUME NEW B, NEW cs \in Seq(B)
  PROVE  Added(cs, AllRead(<< >>)) = AllRead(cs) /\ Added(cs, Failure) = Failure
<1>1. cs \o << >> = cs
  BY ConcatEmptySeq
<1> QED
  BY <1>1, AllReadIs DEF Added

LEMMA ReadsOn ==
  ASSUME NEW B, NEW tools
  PROVE  \A b \in Seq(B) : \A cs \in Seq(GlmCalls(B, tools)) :
           Outcome("call", b, cs, tools) = Added(cs, Outcome("call", b, << >>, tools))
<1> DEFINE D == Seq(GlmCalls(B, tools))
           Good(b) == \A cs \in D : Outcome("call", b, cs, tools) = Added(cs, Outcome("call", b, << >>, tools))
           S == {n \in Nat : \A b \in Seq(B) : Len(b) = n => Good(b)}
           none == << >>
<1>0. none \in D
  OBVIOUS
<1>1. ASSUME NEW n \in Nat, \A k \in Nat : k < n => k \in S PROVE n \in S
  <2>1. SUFFICES ASSUME NEW b \in Seq(B), Len(b) = n, NEW cs \in D
                 PROVE  Outcome("call", b, cs, tools) = Added(cs, Outcome("call", b, none, tools))
    OBVIOUS
  <2> DEFINE close == First(b, "close")
             found == CallOf(SubSeq(b, 1, close - 1), tools)
             rest == From(b, close + 1)
  <2>2. \A ds \in D : /\ Outcome("call", b, ds, tools) =
                             IF close = 0 THEN IF b = << >> THEN AllRead(ds) ELSE Failure
                             ELSE IF ~found.ok THEN Failure
                             ELSE Behind(rest, Append(ds, found.call), tools)
                      /\ close # 0 => close \in 1..Len(b) /\ rest \in Seq(B) /\ Append(ds, found.call) \in D
    BY CallIsRead
  <2>3. CASE close = 0 \/ ~found.ok
    <3>1. CASE close = 0 /\ b = << >>
      <4>1. Outcome("call", b, cs, tools) = AllRead(cs) /\ Outcome("call", b, none, tools) = AllRead(none)
        BY <1>0, <2>2, <3>1
      <4> QED
        BY <4>1, AddedNone
    <3>2. CASE ~(close = 0 /\ b = << >>)
      <4>1. Outcome("call", b, cs, tools) = Failure /\ Outcome("call", b, none, tools) = Failure
        BY <1>0, <2>2, <2>3, <3>2
      <4> QED
        BY <4>1, AddedNone
    <3> QED
      BY <3>1, <3>2
  <2>4. CASE close # 0 /\ found.ok
    <3> DEFINE call == found.call
    <3>0. close \in 1..Len(b) /\ rest \in Seq(B)
      BY <1>0, <2>2, <2>4
    <3>1. call \in GlmCalls(B, tools)
      <4>1. close - 1 \in 0..Len(b)
        BY <3>0
      <4> HIDE DEF close
      <4>2. SubSeq(b, 1, close - 1) \in Seq(B)
        BY <4>1, Beginning
      <4> QED
        BY <4>2 DEF GlmCalls
    <3>2. \A ds \in D : Outcome("call", b, ds, tools) = Behind(rest, Append(ds, call), tools)
      BY <2>2, <2>4
    <3>3. Append(none, call) = <<call>> /\ <<call>> \in D /\ Append(cs, call) \in D
      BY <3>1
    <3>4. Len(rest) < Len(b) /\ Len(rest) \in Nat
      <4> HIDE DEF close
      <4>1. close \in 0..Len(b) /\ Len(b) - close < Len(b)
        BY <3>0
      <4>2. Len(From(b, close + 1)) = Len(b) - close
        BY <4>1, LeftBehind
      <4> QED
        BY <4>1, <4>2
    <3> HIDE DEF close, found, rest, call, D, Good, none
    <3>5. Outcome("call", b, cs, tools) = Behind(rest, Append(cs, call), tools)
          /\ Outcome("call", b, none, tools) = Behind(rest, <<call>>, tools)
      BY <1>0, <3>2, <3>3
    <3>6. CASE Goes(rest)
      <4> DEFINE next == NextCall(rest)
                 o == Outcome("call", next, none, tools)
      <4>1. next \in Seq(B) /\ Len(next) < Len(rest)
        BY <3>0, <3>6, NextCallIs
      <4>2. Len(next) \in Nat /\ Len(next) < n
        BY <2>1, <3>4, <4>1
      <4>3. Good(next)
        BY <1>1, <4>1, <4>2
      <4>4. Behind(rest, Append(cs, call), tools) = Outcome("call", next, Append(cs, call), tools)
            /\ Behind(rest, <<call>>, tools) = Outcome("call", next, <<call>>, tools)
        BY <3>6, BehindIs
      <4> HIDE DEF next
      <4>5. Outcome("call", next, Append(cs, call), tools) = Added(Append(cs, call), o)
            /\ Outcome("call", next, <<call>>, tools) = Added(<<call>>, o)
        BY <3>3, <4>3 DEF Good, none
      <4>6. o = Failure \/ \E calls \in Seq(GlmCalls(B, tools)) : o = AllRead(calls)
        BY <1>0, <4>1, OutcomeTyped DEF D, IsOutcome
      <4> HIDE DEF o
      <4>7. Added(Append(cs, call), o) = Added(cs, Added(<<call>>, o))
        BY <2>1, <3>1, <4>6, AddedTwice DEF D
      <4> QED
        BY <3>5, <4>4, <4>5, <4>7
    <3>7. CASE ~Goes(rest)
      <4>1. Behind(rest, Append(cs, call), tools) = AllRead(Append(cs, call))
            /\ Behind(rest, <<call>>, tools) = AllRead(<<call>>)
        BY <3>7, BehindIs
      <4>2. Append(cs, call) = cs \o <<call>>
        BY <2>1, AppendIsConcat DEF D
      <4>3. Added(cs, AllRead(<<call>>)) = AllRead(cs \o <<call>>)
        BY AllReadIs DEF Added
      <4> QED
        BY <3>5, <4>1, <4>2, <4>3
    <3> QED
      BY <3>6, <3>7
  <2> QED
    BY <2>3, <2>4
<1>2. Nat \subseteq S
  <2> HIDE DEF S
  <2> QED
    BY <1>1, StrongInduction
<1> HIDE DEF Good
<1>3. ASSUME NEW b \in Seq(B) PROVE Good(b)
  <2>1. Len(b) \in Nat
    OBVIOUS
  <2> QED
    BY <1>2, <2>1
<1> QED
  BY <1>3 DEF Good

\* The ends of calls behind position x.
EndsBehind(row, x) == {i \in 1..Len(row) : i > x /\ row[i] = "close"}

LEMMA EndsCount ==
  ASSUME NEW B, NEW row \in Seq(B)
  PROVE  /\ \A x \in Nat : Cardinality(EndsBehind(row, x)) \in Nat
         /\ \A x, y \in Nat : x <= y => Cardinality(EndsBehind(row, y)) <= Cardinality(EndsBehind(row, x))
         /\ \A x \in Nat : \A z \in 1..Len(row) : x < z /\ row[z] = "close" =>
              Cardinality(EndsBehind(row, z)) + 1 <= Cardinality(EndsBehind(row, x))
<1>1. IsFiniteSet(1..Len(row))
  <2>1. 1 \in Int /\ Len(row) \in Int
    OBVIOUS
  <2> QED
    BY <2>1, FS_Interval
<1>2. \A x \in Nat : IsFiniteSet(EndsBehind(row, x)) /\ Cardinality(EndsBehind(row, x)) \in Nat
  <2> TAKE x \in Nat
  <2>1. EndsBehind(row, x) \in SUBSET (1..Len(row))
    BY DEF EndsBehind
  <2>2. IsFiniteSet(EndsBehind(row, x))
    BY <1>1, <2>1, FS_Subset
  <2> QED
    BY <2>2, FS_CardinalityType
<1>3. \A x, y \in Nat : x <= y => Cardinality(EndsBehind(row, y)) <= Cardinality(EndsBehind(row, x))
  <2> TAKE x, y \in Nat
  <2>1. x <= y => EndsBehind(row, y) \in SUBSET EndsBehind(row, x)
    BY DEF EndsBehind
  <2> QED
    BY <1>2, <2>1, FS_Subset
<1>4. ASSUME NEW x \in Nat, NEW z \in 1..Len(row), x < z, row[z] = "close"
      PROVE  Cardinality(EndsBehind(row, z)) + 1 <= Cardinality(EndsBehind(row, x))
  <2> DEFINE more == EndsBehind(row, z) \cup {z}
  <2>0. z \in Nat
    OBVIOUS
  <2>1. z \notin EndsBehind(row, z)
    BY DEF EndsBehind
  <2>2. more \in SUBSET EndsBehind(row, x)
    BY <1>4 DEF EndsBehind
  <2>3. Cardinality(more) = Cardinality(EndsBehind(row, z)) + 1
    BY <1>2, <2>0, <2>1, FS_AddElement
  <2> HIDE DEF more
  <2>4. Cardinality(more) <= Cardinality(EndsBehind(row, x))
    BY <1>2, <2>2, FS_Subset
  <2> QED
    BY <2>3, <2>4
<1> QED
  BY <1>2, <1>3, <1>4

\* Skipping white space and a marker goes to a later position of the row.
LEMMA GoesTo ==
  ASSUME NEW B, NEW row \in Seq(B), NEW x \in 0..Len(row), Goes(From(row, x + 1))
  PROVE  \E y \in x + 1..Len(row) : NextCall(From(row, x + 1)) = From(row, y + 1) /\ row[y] = "open"
<1> DEFINE b == From(row, x + 1)
           k == Blanks(b)
           rest == From(b, k + 1)
           one == 1
<1>0. x \in Nat /\ Len(row) \in Nat
  OBVIOUS
<1>a. LeftOf(B, row, x, b)
  BY WhatIsLeft
<1> HIDE DEF b
<1>1. b \in Seq(B) /\ Len(b) = Len(row) - x /\ \A i \in 1..Len(b) : b[i] = row[x + i]
  BY <1>a DEF LeftOf
<1>2. k \in 0..Len(b)
  BY <1>1, BlanksAre
<1>3. SkipBlanks(b) = rest
  BY DEF SkipBlanks
<1> HIDE DEF k
<1>4. rest \in Seq(B) /\ Len(rest) = Len(b) - k /\ \A i \in 1..Len(rest) : rest[i] = b[k + i]
  <2>1. b \in Seq(B)
    BY <1>1
  <2>2. LeftOf(B, b, k, rest)
    BY <1>2, <2>1, WhatIsLeft
  <2> HIDE DEF rest
  <2> QED
    BY <2>2 DEF LeftOf
<1>5. rest # << >> /\ rest[1] = "open"
  BY <1>3 DEF Goes, b
<1>6. NextCall(b) = From(rest, 2)
  BY <1>3 DEF NextCall
<1>7. one \in 0..Len(rest) /\ one \in 1..Len(rest) /\ k + 1 \in 1..Len(b) /\ Len(b) - k > 0
  <2>1. Len(rest) \in Nat /\ Len(rest) # 0
    BY <1>4, <1>5
  <2> QED
    BY <1>2, <1>4, <2>1
<1>8. rest[1] = b[k + 1] /\ b[k + 1] = row[x + (k + 1)]
  BY <1>1, <1>4, <1>7
<1> HIDE DEF rest
<1> DEFINE m == k + one
           y == x + m
<1>9. m \in 0..Len(b) /\ From(rest, one + 1) = From(b, m + 1)
  <2>0. rest = From(b, k + 1) /\ b \in Seq(B) /\ k \in 0..Len(b)
    BY <1>1, <1>2 DEF rest
  <2>1. k + one \in k..Len(b) /\ From(rest, one + 1) = From(b, (k + one) + 1)
    BY <1>7, <2>0, FromAgain
  <2>2. From(rest, one + 1) = From(b, (k + one) + 1)
    BY <2>1
  <2>3. m \in 0..Len(b)
    BY <1>2, <1>7
  <2> QED
    BY <2>2, <2>3
<1>10. From(b, m + 1) = From(row, y + 1)
  <2> HIDE DEF m
  <2>1. \A i \in 0..Len(b) : From(b, i + 1) = From(row, (x + i) + 1)
    BY FromAgain DEF b
  <2> QED
    BY <1>9, <2>1
<1>11. y \in x + 1..Len(row) /\ y = x + (k + 1)
  BY <1>0, <1>1, <1>2, <1>7
<1> QED
  BY <1>5, <1>6, <1>8, <1>9, <1>10, <1>11 DEF b

\* More text behind does not change where the next call begins.
LEMMA NextCallJoined ==
  ASSUME NEW B, NEW b \in Seq(B), NEW tail \in Seq(B), Goes(b)
  PROVE  Goes(b \o tail) /\ NextCall(b \o tail) = NextCall(b) \o tail
<1> DEFINE k == Blanks(b)
           rest == From(b, k + 1)
<1>1. k \in 0..Len(b) /\ Len(b) \in Nat
  BY BlanksAre
<1>2. rest = SkipBlanks(b) /\ rest # << >> /\ rest[1] = "open"
  BY DEF SkipBlanks, Goes
<1> HIDE DEF k
<1>3. rest \in Seq(B) /\ Len(rest) = Len(b) - k
  BY <1>1, LeftBehind
<1>4. Len(rest) \in Nat /\ Len(rest) # 0
  BY <1>2, <1>3
<1>5. k < Len(b) /\ k + 1 \in 1..(Len(b) + 1) /\ 2 \in 1..(Len(rest) + 1) /\ 1 \in 1..Len(rest)
  BY <1>1, <1>3, <1>4
<1>6. Blanks(b \o tail) = k
  BY <1>5, BlanksJoined DEF k
<1>7. From(b \o tail, k + 1) = rest \o tail
  BY <1>5, FromJoined
<1> HIDE DEF rest
<1>8. SkipBlanks(b \o tail) = rest \o tail
  BY <1>6, <1>7 DEF SkipBlanks
<1>9. rest \o tail # << >> /\ (rest \o tail)[1] = "open"
  <2>1. rest \in Seq(B) /\ tail \in Seq(B) /\ Len(tail) \in Nat
    BY <1>3
  <2>2. Len(rest \o tail) = Len(rest) + Len(tail) /\ \A i \in 1..Len(rest) : (rest \o tail)[i] = rest[i]
    BY <2>1, TextJoined
  <2>3. Len(rest \o tail) # 0 /\ (rest \o tail)[1] = rest[1]
    BY <1>4, <1>5, <2>1, <2>2
  <2> QED
    BY <1>2, <2>3
<1>10. From(rest \o tail, 2) = From(rest, 2) \o tail
  BY <1>3, <1>5, FromJoined
<1> QED
  BY <1>2, <1>8, <1>9, <1>10 DEF Goes, NextCall

\* The calls read behind a position are no more than the ends that come behind it; and if
\* they are as many and the row ends with one, what follows is read behind them.
RowRead(row, tail, x, cs, tools) ==
  LET o == Outcome("call", From(row, x + 1), cs, tools)
  IN  o.ok =>
        /\ Len(o.calls) <= Len(cs) + Cardinality(EndsBehind(row, x))
        /\ /\ Len(o.calls) = Len(cs) + Cardinality(EndsBehind(row, x))
           /\ x < Len(row) /\ row[Len(row)] = "close"
           => Outcome("call", From(row, x + 1) \o tail, cs, tools) = Behind(tail, o.calls, tools)

LEMMA RowReads ==
  ASSUME NEW B, NEW tools, NEW row \in Seq(B), NEW tail \in Seq(B)
  PROVE  \A x \in 0..Len(row) : \A cs \in Seq(GlmCalls(B, tools)) : RowRead(row, tail, x, cs, tools)
<1> DEFINE D == Seq(GlmCalls(B, tools))
           N == Len(row)
           Count(x) == Cardinality(EndsBehind(row, x))
           S == {n \in Nat : \A x \in 0..N : N - x = n => \A cs \in D : RowRead(row, tail, x, cs, tools)}
<1>0. N \in Nat
  OBVIOUS
<1>1. /\ \A x \in Nat : Count(x) \in Nat
      /\ \A x, y \in Nat : x <= y => Count(y) <= Count(x)
      /\ \A x \in Nat : \A z \in 1..N : x < z /\ row[z] = "close" => Count(z) + 1 <= Count(x)
  BY EndsCount
<1>2. ASSUME NEW n \in Nat, \A k \in Nat : k < n => k \in S PROVE n \in S
  <2>1. SUFFICES ASSUME NEW x \in 0..N, N - x = n, NEW cs \in D
                 PROVE  RowRead(row, tail, x, cs, tools)
    OBVIOUS
  <2> DEFINE b == From(row, x + 1)
             o == Outcome("call", b, cs, tools)
             close == First(b, "close")
             found == CallOf(SubSeq(b, 1, close - 1), tools)
             more == Append(cs, found.call)
             z == x + close
  <2>2. b \in Seq(B) /\ Len(b) = N - x /\ \A i \in 1..Len(b) : b[i] = row[x + i]
    BY LeftBehind
  <2>3. x \in Nat /\ x <= N
    OBVIOUS
  <2> HIDE DEF b
  <2>4. /\ o = IF close = 0 THEN IF b = << >> THEN AllRead(cs) ELSE Failure
               ELSE IF ~found.ok THEN Failure
               ELSE Behind(From(b, close + 1), more, tools)
        /\ close # 0 => close \in 1..Len(b) /\ From(b, close + 1) \in Seq(B) /\ more \in D
    BY <2>2, CallIsRead
  <2>5. close \in 0..Len(b) /\ (close = 0 => \A i \in 1..Len(b) : b[i] # "close") /\ (close > 0 => b[close] = "close")
    BY <2>2, FirstIs
  <2> HIDE DEF o, D
  <2>c. Len(cs) \in Nat /\ Count(x) \in Nat
    BY <1>1, <2>1, <2>3 DEF D
  <2>6. CASE close = 0 /\ b = << >>
    <3>1. o = AllRead(cs)
      BY <2>4, <2>6
    <3>2. ~(x < N)
      BY <2>2, <2>6
    <3> HIDE DEF close
    <3>3. o.ok /\ o.calls = cs
      BY <3>1, AllReadIs
    <3>4. Len(o.calls) <= Len(cs) + Count(x)
      BY <2>c, <3>3
    <3> QED
      BY <3>2, <3>4 DEF RowRead, o, b
  <2>7. CASE (close = 0 /\ b # << >>) \/ (close # 0 /\ ~found.ok)
    <3>1. o = Failure
      BY <2>4, <2>7
    <3> HIDE DEF close, found
    <3>2. ~o.ok
      BY <3>1, AllReadIs
    <3> QED
      BY <3>2 DEF RowRead, o, b
  <2>8. CASE close # 0 /\ found.ok
    <3>1. close \in 1..Len(b) /\ more \in D /\ Len(more) = Len(cs) + 1
      <4>1. close \in 1..Len(b) /\ more \in D
        BY <2>4, <2>8
      <4>2. Len(more) = Len(cs) + 1
        BY <2>1 DEF D
      <4> QED
        BY <4>1, <4>2
    <3>2. z \in x + 1..N /\ z \in 1..N /\ z \in Nat /\ x < z /\ z \in 0..N
      BY <2>2, <2>3, <3>1
    <3>3. row[z] = "close"
      BY <2>2, <2>5, <3>1
    <3> DEFINE rest == From(row, z + 1)
    <3>4. From(b, close + 1) = rest
      <4> HIDE DEF close
      <4>1. \A i \in 0..Len(b) : From(b, i + 1) = From(row, (x + i) + 1)
        BY <2>2, FromAgain DEF b
      <4>2. close \in 0..Len(b)
        BY <3>1
      <4> QED
        BY <4>1, <4>2
    <3>5. o = Behind(rest, more, tools)
      BY <2>4, <2>8, <3>4
    <3>6. Count(z) + 1 <= Count(x) /\ Count(z) \in Nat
      BY <1>1, <2>3, <3>2, <3>3
    <3>7. rest \in Seq(B) /\ Len(rest) = N - z /\ \A i \in 1..Len(rest) : rest[i] = row[z + i]
      BY <3>2, LeftBehind
    \* With something behind it, the same call is read, and then the rest with what is behind it.
    <3>8. Outcome("call", b \o tail, cs, tools) = Behind(rest \o tail, more, tools)
      <4> DEFINE long == b \o tail
      <4>1. First(long, "close") = close
        BY <2>2, <3>1, FirstJoined
      <4>2. close - 1 \in 0..Len(b) /\ close + 1 \in 1..(Len(b) + 1)
        BY <2>2, <3>1
      <4>3. SubSeq(long, 1, close - 1) = SubSeq(b, 1, close - 1)
        <5> HIDE DEF close
        <5> QED
          BY <2>2, <4>2, JoinedBeginning
      <4>4. From(long, close + 1) = rest \o tail
        <5> HIDE DEF close
        <5>1. From(long, close + 1) = From(b, close + 1) \o tail
          BY <2>2, <4>2, FromJoined
        <5> QED
          BY <3>4, <5>1
      <4>5. long \in Seq(B)
        BY <2>2
      <4> HIDE DEF close, long, rest
      <4>6. Outcome("call", long, cs, tools) =
              IF First(long, "close") = 0 THEN IF long = << >> THEN AllRead(cs) ELSE Failure
              ELSE IF ~CallOf(SubSeq(long, 1, First(long, "close") - 1), tools).ok THEN Failure
              ELSE Behind(From(long, First(long, "close") + 1),
                          Append(cs, CallOf(SubSeq(long, 1, First(long, "close") - 1), tools).call), tools)
        BY <2>1, <4>5, CallIsRead DEF D
      <4> QED
        BY <2>8, <4>1, <4>3, <4>4, <4>6 DEF long
    <3> HIDE DEF close, found, more
    <3>9. CASE Goes(rest)
      <4>1. PICK y \in z + 1..N : NextCall(rest) = From(row, y + 1) /\ row[y] = "open"
        BY <3>2, <3>9, GoesTo
      <4>2. y \in 0..N /\ y \in Nat /\ z <= y /\ x < y /\ N - y \in Nat /\ N - y < n
        BY <2>1, <2>3, <3>2, <4>1
      <4>3. RowRead(row, tail, y, more, tools)
        BY <1>2, <3>1, <4>2
      <4>4. o = Outcome("call", From(row, y + 1), more, tools)
        BY <3>5, <3>9, <4>1, BehindIs
      <4>5. SUFFICES ASSUME o.ok PROVE RowRead(row, tail, x, cs, tools)
        BY DEF RowRead, o, b
      <4>6. /\ Len(o.calls) <= Len(more) + Count(y)
            /\ /\ Len(o.calls) = Len(more) + Count(y)
               /\ y < N /\ row[N] = "close"
               => Outcome("call", From(row, y + 1) \o tail, more, tools) = Behind(tail, o.calls, tools)
        BY <4>3, <4>4, <4>5 DEF RowRead
      <4>7. Count(y) <= Count(z) /\ Count(y) \in Nat
        BY <1>1, <3>2, <4>2
      <4>8. Len(o.calls) \in Nat
        <5>1. o = Failure \/ \E calls \in Seq(GlmCalls(B, tools)) : o = AllRead(calls)
          BY <2>1, <2>2, OutcomeTyped DEF o, D, IsOutcome
        <5>2. PICK calls \in Seq(GlmCalls(B, tools)) : o = AllRead(calls)
          BY <4>5, <5>1, AllReadIs
        <5> QED
          BY <5>2, AllReadIs
      <4> HIDE DEF Count
      <4>c. /\ Len(o.calls) <= Len(cs) + Count(x)
            /\ Len(o.calls) = Len(cs) + Count(x) => Len(o.calls) = Len(more) + Count(y)
        <5> DEFINE l == Len(o.calls)
                   before == Len(cs)
                   behind == Len(more)
                   cx == Count(x)
                   cy == Count(y)
                   cz == Count(z)
        <5>1. /\ l \in Nat /\ before \in Nat /\ behind = before + 1 /\ cx \in Nat /\ cy \in Nat /\ cz \in Nat
              /\ cz + 1 <= cx /\ cy <= cz /\ l <= behind + cy
          BY <2>c, <3>1, <3>6, <4>6, <4>7, <4>8
        <5> HIDE DEF l, before, behind, cx, cy, cz
        <5>2. l <= before + cx /\ (l = before + cx => l = behind + cy)
          BY <5>1
        <5> QED
          BY <5>2 DEF l, before, behind, cx, cy, cz
      <4>9. Len(o.calls) <= Len(cs) + Count(x)
        BY <4>c
      <4>10. ASSUME Len(o.calls) = Len(cs) + Count(x), x < N, row[N] = "close"
             PROVE  Outcome("call", b \o tail, cs, tools) = Behind(tail, o.calls, tools)
        <5>1. Len(o.calls) = Len(more) + Count(y)
          BY <4>c, <4>10
        <5>2. y < N
          <6>1. y # N
            BY <4>1, <4>10
          <6> QED
            BY <4>2, <6>1
        <5>3. Outcome("call", From(row, y + 1) \o tail, more, tools) = Behind(tail, o.calls, tools)
          BY <4>6, <4>10, <5>1, <5>2
        <5>4. Goes(rest \o tail) /\ NextCall(rest \o tail) = NextCall(rest) \o tail
          BY <3>7, <3>9, NextCallJoined
        <5>5. Behind(rest \o tail, more, tools) = Outcome("call", From(row, y + 1) \o tail, more, tools)
          BY <4>1, <5>4, BehindIs
        <5> QED
          BY <3>8, <5>3, <5>5
      <4> QED
        BY <4>9, <4>10 DEF RowRead, o, b, Count
    <3>10. CASE ~Goes(rest)
      <4>1. o = AllRead(more)
        BY <3>5, <3>10, BehindIs
      <4>2. o.calls = more
        BY <4>1, AllReadIs
      <4> HIDE DEF Count
      <4>3. Len(o.calls) <= Len(cs) + Count(x)
        BY <2>c, <3>1, <3>6, <4>2
      <4>4. ASSUME Len(o.calls) = Len(cs) + Count(x), x < N, row[N] = "close"
            PROVE  Outcome("call", b \o tail, cs, tools) = Behind(tail, o.calls, tools)
        <5>1. Count(z) = 0
          BY <2>c, <3>1, <3>6, <4>2, <4>4
        <5>2. ~(z < N)
          <6>1. SUFFICES ASSUME z < N PROVE FALSE
            OBVIOUS
          <6>2. N \in 1..N /\ N \in Nat
            BY <3>2
          <6>3. Count(N) + 1 <= Count(z) /\ Count(N) \in Nat
            BY <1>1, <3>2, <4>4, <6>1, <6>2
          <6> QED
            BY <5>1, <6>3
        <5>3. rest \o tail = tail
          <6>1. Len(rest) = 0
            BY <3>2, <3>7, <5>2
          <6>2. rest = << >>
            BY <3>7, <6>1
          <6> QED
            BY <6>2
        <5> QED
          BY <3>8, <4>2, <5>3
      <4> QED
        BY <4>3, <4>4 DEF RowRead, o, b, Count
    <3> QED
      BY <3>9, <3>10
  <2> QED
    BY <2>6, <2>7, <2>8
<1>3. Nat \subseteq S
  <2> HIDE DEF S
  <2> QED
    BY <1>2, StrongInduction
<1>4. ASSUME NEW x \in 0..N PROVE \A cs \in D : RowRead(row, tail, x, cs, tools)
  <2>1. N - x \in Nat
    OBVIOUS
  <2>2. N - x \in S
    BY <1>3, <2>1
  <2> QED
    BY <2>2
<1> QED
  BY <1>4

\* What is read of a text that begins with a call; one without an end is no more than its marker.
LEMMA CallParsed ==
  ASSUME NEW B, NEW tools, NEW rest \in Seq(B), rest # << >>, rest[1] = "open"
  PROVE  /\ ParseGlm(rest, tools) = Outcome("call", From(rest, 2), << >>, tools)
         /\ ParseGlm(rest, tools).ok => "close" \in Range(rest) \/ rest = <<"open">>
<1> DEFINE none == << >>
           b == From(rest, 2)
           one == 1
<1>1. Len(rest) \in Nat /\ Len(rest) # 0 /\ none \in Seq(GlmCalls(B, tools))
  OBVIOUS
<1>2. one \in 1..Len(rest) /\ one \in 0..Len(rest) /\ one + 1 = 2 /\ \A i \in 1..(one - 1) : rest[i] # "open"
  BY <1>1
<1>3. First(rest, "open") = one
  <2>1. rest[one] = "open"
    OBVIOUS
  <2> HIDE DEF one
  <2> QED
    BY <1>2, <2>1, FirstAt
<1>4. ParseGlm(rest, tools) = Outcome("call", b, none, tools)
  <2>1. First(rest, "open") + 1 = 2 /\ First(rest, "open") # 0
    BY <1>3
  <2>2. ParseGlm(rest, tools) = Outcome("text", rest, none, tools)
    BY ParseGlmIs
  <2> HIDE DEF none
  <2>3. Outcome("text", rest, none, tools) = IF First(rest, "open") = 0 THEN AllRead(none)
          ELSE Outcome("call", From(rest, First(rest, "open") + 1), none, tools)
    BY <1>1, TextIsRead
  <2> QED
    BY <2>1, <2>2, <2>3
<1>5. b \in Seq(B) /\ Len(b) = Len(rest) - one /\ \A i \in 1..Len(b) : b[i] = rest[one + i]
  <2> HIDE DEF one
  <2>1. From(rest, one + 1) \in Seq(B) /\ Len(From(rest, one + 1)) = Len(rest) - one
        /\ \A i \in 1..Len(From(rest, one + 1)) : From(rest, one + 1)[i] = rest[one + i]
    BY <1>2, LeftBehind
  <2> QED
    BY <1>2, <2>1
<1>6. ASSUME ParseGlm(rest, tools).ok, "close" \notin Range(rest) PROVE rest = <<"open">>
  <2>1. \A i \in 1..Len(rest) : rest[i] # "close"
    BY <1>6 DEF Range
  <2>2. \A i \in 1..Len(b) : b[i] # "close"
    <3>1. \A i \in 1..Len(b) : one + i \in 1..Len(rest)
      BY <1>1, <1>5
    <3> QED
      BY <1>5, <2>1, <3>1
  <2> HIDE DEF b
  <2>3. First(b, "close") = 0
    BY <1>5, <2>2, FirstIs
  <2>4. Outcome("call", b, none, tools) = IF b = << >> THEN AllRead(none) ELSE Failure
    <3> HIDE DEF none
    <3>1. Outcome("call", b, none, tools) =
            IF First(b, "close") = 0 THEN IF b = << >> THEN AllRead(none) ELSE Failure
            ELSE IF ~CallOf(SubSeq(b, 1, First(b, "close") - 1), tools).ok THEN Failure
            ELSE Behind(From(b, First(b, "close") + 1),
                        Append(none, CallOf(SubSeq(b, 1, First(b, "close") - 1), tools).call), tools)
      BY <1>1, <1>5, CallIsRead
    <3> QED
      BY <2>3, <3>1
  <2>5. b = << >>
    BY <1>4, <1>6, <2>4, AllReadIs
  <2>6. Len(rest) = 1
    BY <1>1, <1>5, <2>5
  <2> QED
    BY <2>6
<1> QED
  BY <1>4, <1>6

-----------------------------------------------------------------------------
(***************************************************************************)
(* Every call that is read is what CallOf makes of a part of the text that  *)
(* begins somewhere and goes up to the next end (ReadFrom).                 *)
(***************************************************************************)
Body(text, x) == SubSeq(From(text, x + 1), 1, First(From(text, x + 1), "close") - 1)

ReadFrom(text, tools, call) ==
  \E x \in 0..Len(text) : /\ First(From(text, x + 1), "close") # 0
                          /\ CallOf(Body(text, x), tools).ok /\ CallOf(Body(text, x), tools).call = call

AllFrom(text, tools, calls) == \A n \in 1..Len(calls) : ReadFrom(text, tools, calls[n])

LEMMA OneMoreFrom ==
  ASSUME NEW B, NEW text, NEW tools, NEW cs \in Seq(B), NEW call, AllFrom(text, tools, cs), ReadFrom(text, tools, call)
  PROVE  AllFrom(text, tools, Append(cs, call))
<1> DEFINE l == Len(cs)
           more == Append(cs, call)
<1>1. l \in Nat /\ Len(more) = l + 1 /\ more[l + 1] = call /\ \A n \in 1..l : more[n] = cs[n]
  OBVIOUS
<1>2. \A n \in 1..(l + 1) : n = l + 1 \/ n \in 1..l
  BY <1>1
<1> HIDE DEF more
<1> QED
  BY <1>1, <1>2 DEF AllFrom, more

LEMMA CallsFrom ==
  ASSUME NEW B, NEW tools, NEW text \in Seq(B)
  PROVE  \A x \in 0..Len(text) : \A cs \in Seq(GlmCalls(B, tools)) :
           AllFrom(text, tools, cs) => AllFrom(text, tools, Outcome("call", From(text, x + 1), cs, tools).calls)
<1> DEFINE D == Seq(GlmCalls(B, tools))
           N == Len(text)
           Good(x, cs) == AllFrom(text, tools, cs) => AllFrom(text, tools, Outcome("call", From(text, x + 1), cs, tools).calls)
           S == {n \in Nat : \A x \in 0..N : N - x = n => \A cs \in D : Good(x, cs)}
<1>0. N \in Nat
  OBVIOUS
<1>1. AllFrom(text, tools, Failure.calls)
  <2>1. Failure.calls = << >> /\ Len(<< >>) = 0
    BY DEF Failure
  <2> QED
    BY <2>1 DEF AllFrom
<1>2. ASSUME NEW n \in Nat, \A k \in Nat : k < n => k \in S PROVE n \in S
  <2>1. SUFFICES ASSUME NEW x \in 0..N, N - x = n, NEW cs \in D, AllFrom(text, tools, cs)
                 PROVE  AllFrom(text, tools, Outcome("call", From(text, x + 1), cs, tools).calls)
    OBVIOUS
  <2> DEFINE b == From(text, x + 1)
             o == Outcome("call", b, cs, tools)
             close == First(b, "close")
             found == CallOf(SubSeq(b, 1, close - 1), tools)
             more == Append(cs, found.call)
             z == x + close
             rest == From(text, z + 1)
  <2>2. b \in Seq(B) /\ Len(b) = N - x
    BY LeftBehind
  <2> HIDE DEF b
  <2>3. /\ o = IF close = 0 THEN IF b = << >> THEN AllRead(cs) ELSE Failure
               ELSE IF ~found.ok THEN Failure
               ELSE Behind(From(b, close + 1), more, tools)
        /\ close # 0 => close \in 1..Len(b) /\ From(b, close + 1) \in Seq(B) /\ more \in D
    BY <2>2, CallIsRead
  <2> HIDE DEF o, D
  <2>4. CASE close = 0 \/ ~found.ok
    <3>1. o = AllRead(cs) \/ o = Failure
      BY <2>3, <2>4
    <3>2. o.calls = cs \/ o.calls = Failure.calls
      BY <3>1, AllReadIs
    <3> QED
      BY <1>1, <2>1, <3>2 DEF o, b
  <2>5. CASE close # 0 /\ found.ok
    <3>1. close \in 1..Len(b) /\ more \in D
      BY <2>3, <2>5
    <3>2. z \in x + 1..N /\ z \in 0..N /\ z \in Nat
      BY <2>2, <3>1
    <3>3. From(b, close + 1) = rest
      <4> HIDE DEF close
      <4>1. \A i \in 0..Len(b) : From(b, i + 1) = From(text, (x + i) + 1)
        BY <2>2, FromAgain DEF b
      <4>2. close \in 0..Len(b)
        BY <3>1
      <4> QED
        BY <4>1, <4>2
    <3>4. o = Behind(rest, more, tools)
      BY <2>3, <2>5, <3>3
    <3>5. ReadFrom(text, tools, found.call)
      BY <2>5 DEF ReadFrom, Body, b
    <3>6. AllFrom(text, tools, more)
      <4> DEFINE call == found.call
      <4>1. ReadFrom(text, tools, call)
        BY <3>5
      <4> HIDE DEF call
      <4>2. AllFrom(text, tools, Append(cs, call))
        BY <2>1, <4>1, OneMoreFrom DEF D
      <4> QED
        BY <4>2 DEF call
    <3> HIDE DEF close, found, more, rest, Good
    <3>7. CASE Goes(rest)
      <4>1. PICK y \in z + 1..N : NextCall(rest) = From(text, y + 1)
        BY <3>2, <3>7, GoesTo DEF rest
      <4>2. y \in 0..N /\ N - y \in Nat /\ N - y < n
        BY <2>1, <3>2, <4>1
      <4>3. Good(y, more)
        BY <1>2, <3>1, <4>2
      <4>4. o = Outcome("call", From(text, y + 1), more, tools)
        BY <3>4, <3>7, <4>1, BehindIs
      <4> QED
        BY <3>6, <4>3, <4>4 DEF o, b, Good
    <3>8. CASE ~Goes(rest)
      <4>1. o = AllRead(more)
        BY <3>4, <3>8, BehindIs
      <4> QED
        BY <3>6, <4>1, AllReadIs DEF o, b
    <3> QED
      BY <3>7, <3>8
  <2> QED
    BY <2>4, <2>5
<1>3. Nat \subseteq S
  <2> HIDE DEF S
  <2> QED
    BY <1>2, StrongInduction
<1>4. ASSUME NEW x \in 0..N PROVE \A cs \in D : Good(x, cs)
  <2>1. N - x \in Nat
    OBVIOUS
  <2> QED
    BY <1>3, <2>1
<1> QED
  BY <1>4

\* What is read as a type is of this type, or any JSON for an object or an array.
LEMMA ReadAsType ==
  ASSUME NEW raw, NEW type \in TypeNames, NEW value \in AsType(raw, type)
  PROVE  type \in {"object", "array"} \/ MatchesType(value, type)
<1>1. CASE type = "string"
  <2>1. type \notin TypeNames \ {"string"}
    BY <1>1
  <2>2. AsType(raw, type) = {JsonString(raw)}
    BY <2>1 DEF AsType
  <2>3. value.kind = "string"
    BY <2>2 DEF JsonString
  <2> QED
    BY <1>1, <2>3 DEF MatchesType
<1>2. CASE type \in {"integer", "number", "boolean"}
  <2>1. type \in TypeNames \ {"string"} /\ type # "object" /\ type # "array" /\ type # "null"
        /\ type \notin {"object", "array"} /\ type # "json"
    BY <1>2
  <2>2. AsType(raw, type) = IF Reads(raw, type) THEN {Readings[raw][type]} ELSE {}
    BY <2>1 DEF AsType
  <2>3. Reads(raw, type) /\ value = Readings[raw][type]
    BY <2>2
  <2>4. raw \in DOMAIN Readings /\ type \in DOMAIN Readings[raw] \ {"json"}
    BY <2>1, <2>3 DEF Reads
  <2> QED
    BY <2>3, <2>4, ReadingsAssumption
<1>3. CASE type = "null"
  <2>1. type \in TypeNames \ {"string"} /\ type # "object" /\ type # "array"
    BY <1>3
  <2>2. AsType(raw, type) = {}
    BY <1>3, <2>1 DEF AsType
  <2> QED
    BY <2>2
<1> QED
  BY <1>1, <1>2, <1>3 DEF TypeNames

LEMMA CallsReadFrom ==
  ASSUME NEW B, NEW tools, NEW text \in Seq(B), NEW call \in Range(ParseGlm(text, tools).calls)
  PROVE  ReadFrom(text, tools, call)
<1> DEFINE none == << >>
           open == First(text, "open")
           calls == ParseGlm(text, tools).calls
<1>1. none \in Seq(GlmCalls(B, tools)) /\ Len(none) = 0
  OBVIOUS
<1>2. AllFrom(text, tools, none)
  BY <1>1 DEF AllFrom
<1> HIDE DEF none
<1>3. ParseGlm(text, tools) = IF open = 0 THEN AllRead(none) ELSE Outcome("call", From(text, open + 1), none, tools)
  BY <1>1, ParseGlmIs, TextIsRead DEF none
<1>4. open \in 0..Len(text)
  BY FirstIs
<1> HIDE DEF open
<1>5. AllFrom(text, tools, calls)
  <2>1. CASE open = 0
    BY <1>2, <1>3, <2>1, AllReadIs
  <2>2. CASE open # 0
    BY <1>1, <1>2, <1>3, <1>4, <2>2, CallsFrom
  <2> QED
    BY <2>1, <2>2
<1>6. DOMAIN calls = 1..Len(calls)
  <2>1. ParseGlm(text, tools) = Outcome("text", text, none, tools) /\ "text" \in {"text", "call", "after"}
    BY ParseGlmIs DEF none
  <2>2. ParseGlm(text, tools) = Failure \/ \E cs \in Seq(GlmCalls(B, tools)) : ParseGlm(text, tools) = AllRead(cs)
    <3>1. Outcome("text", text, none, tools) = Failure
          \/ \E cs \in Seq(GlmCalls(B, tools)) : Outcome("text", text, none, tools) = AllRead(cs)
      <4>1. "text" \in {"text", "call", "after"} /\ none \in Seq(GlmCalls(B, tools))
        BY <1>1
      <4>2. IsOutcome(B, tools, Outcome("text", text, none, tools))
        BY <4>1, OutcomeTyped
      <4> QED
        BY <4>2 DEF IsOutcome
    <3> QED
      BY <2>1, <3>1
  <2>3. calls = << >> \/ calls \in Seq(GlmCalls(B, tools))
    BY <2>2, AllReadIs DEF Failure
  <2> HIDE DEF calls
  <2> QED
    BY <2>3
<1> QED
  BY <1>5, <1>6 DEF AllFrom, Range

-----------------------------------------------------------------------------
(***************************************************************************)
(* What the schema check accepts is what the keywords mean.                 *)
(***************************************************************************)
\* The check is stricter at one level if it is at the next.
LEMMA PassesMeans ==
  ASSUME NEW value, NEW schema, NEW deeper, NEW conforming, deeper \subseteq conforming,
         Passes(value, schema, deeper),
         ~Has(schema, "malformed"),
         Has(schema, "type") => Range(schema.type) \subseteq TypeNames
  PROVE  Means(value, schema, conforming)
<1>1. Has(schema, "enum") => \E v \in schema.enum : Number(v) = Number(value)
  BY DEF Passes
<1>2. Has(schema, "type") =>
        \/ Number(value).kind \in Range(schema.type)
        \/ value.kind \in {"integer", "whole", "fraction"} /\ "number" \in Range(schema.type)
  <2>1. SUFFICES ASSUME Has(schema, "type")
                 PROVE  \/ Number(value).kind \in Range(schema.type)
                        \/ value.kind \in {"integer", "whole", "fraction"} /\ "number" \in Range(schema.type)
    OBVIOUS
  <2>2. PICK type \in Range(schema.type) : MatchesType(value, type)
    BY <2>1 DEF Passes
  <2>3. type \in TypeNames
    BY <2>1
  <2>4. CASE value.kind = type
    <3>1. type # "whole"
      BY <2>3 DEF TypeNames
    <3>2. Number(value) = value
      BY <2>4, <3>1 DEF Number
    <3> QED
      BY <2>4, <3>2
  <2>5. CASE type = "number" /\ value.kind \in {"integer", "whole", "fraction"}
    BY <2>5
  <2> QED
    BY <2>2, <2>3, <2>4, <2>5 DEF MatchesType
<1>3. ASSUME value.kind = "object"
      PROVE  /\ Has(schema, "required") => schema.required \subseteq DOMAIN value.fields
             /\ \A f \in DOMAIN value.fields :
                  \E sub \in MayHold(schema, f) : sub = AnySchema \/ <<value.fields[f], sub>> \in conforming
  <2>1. ASSUME Has(schema, "required") PROVE schema.required \subseteq DOMAIN value.fields
    BY <2>1 DEF Passes, ImpliesObject
  <2>2. ASSUME NEW f \in DOMAIN value.fields
        PROVE  \E sub \in MayHold(schema, f) : sub = AnySchema \/ <<value.fields[f], sub>> \in conforming
    <3>1. CASE Has(schema, "properties") /\ f \in DOMAIN schema.properties
      <4>1. <<value.fields[f], schema.properties[f]>> \in deeper
        BY <3>1 DEF Passes, ImpliesObject
      <4> QED
        BY <3>1, <4>1 DEF MayHold
    <3>2. CASE ~(Has(schema, "properties") /\ f \in DOMAIN schema.properties) /\ Has(schema, "additionalProperties")
      <4>1. f \in Additional(value, schema)
        BY <3>2 DEF Additional
      <4>2. PICK sub \in schema.additionalProperties : <<value.fields[f], sub>> \in deeper
        BY <3>2, <4>1 DEF Passes, ImpliesObject
      <4>3. MayHold(schema, f) = schema.additionalProperties
        BY <3>2 DEF MayHold
      <4> QED
        BY <4>2, <4>3
    <3>3. CASE ~(Has(schema, "properties") /\ f \in DOMAIN schema.properties) /\ ~Has(schema, "additionalProperties")
      BY <3>3 DEF MayHold
    <3> QED
      BY <3>1, <3>2, <3>3
  <2> QED
    BY <2>1, <2>2
<1>4. ASSUME value.kind = "array", Has(schema, "items")
      PROVE  \A item \in Range(value.items) : <<item, schema.items>> \in conforming
  BY <1>4 DEF Passes, ImpliesArray, Range
<1> QED
  BY <1>1, <1>2, <1>3, <1>4 DEF Means

\* The sets of pairs that the two checks are computed from.
Levels(f, base, step, N) == f = [n \in 0..N |-> IF n = 0 THEN base ELSE step[f[n - 1]]]

LEMMA LevelsExist ==
  ASSUME NEW T, NEW base \in T, NEW step \in [T -> T], NEW N \in Nat
  PROVE  \E f \in [0..N -> T] : Levels(f, base, step, N)
<1> DEFINE steps == [n \in Nat |-> step]
<1>1. PICK f \in [Nat -> T] : Iterates(f, base, steps)
  <2>1. steps \in [Nat -> [T -> T]]
    OBVIOUS
  <2> HIDE DEF steps
  <2> QED
    BY <2>1, IterationExists
<1> DEFINE g == [n \in 0..N |-> f[n]]
<1>2. ASSUME NEW n \in 0..N PROVE g[n] = IF n = 0 THEN base ELSE step[g[n - 1]]
  <2>1. CASE n = 0
    BY <1>1, <2>1 DEF Iterates
  <2>2. CASE n # 0
    <3>1. n - 1 \in Nat /\ n - 1 \in 0..N /\ (n - 1) + 1 = n
      BY <2>2
    <3>2. f[(n - 1) + 1] = steps[(n - 1) + 1][f[n - 1]]
      BY <1>1, <3>1 DEF Iterates
    <3> QED
      BY <2>2, <3>1, <3>2
  <2> QED
    BY <2>1, <2>2
<1>3. g = [n \in 0..N |-> g[n]] /\ g \in [0..N -> T]
  OBVIOUS
<1> HIDE DEF g
<1>4. Levels(g, base, step, N)
  BY <1>2, <1>3 DEF Levels
<1> QED
  BY <1>3, <1>4

LEMMA ValidConforms ==
  ASSUME NEW value, NEW schema, ShapeOK(schema), Valid(value, schema)
  PROVE  Conforms(value, schema)
<1> DEFINE pairs == PairsWithin(value, schema)
           T == SUBSET pairs
           Checked(deeper) == {pair \in pairs : Passes(pair[1], pair[2], deeper)}
           Meant(deeper) == {pair \in pairs : Means(pair[1], pair[2], deeper)}
           FitsCheck(f) == f = [n \in 0..Nesting |-> IF n = 0 THEN {} ELSE Checked(f[n - 1])]
           FitsMeaning(f) == f = [n \in 0..Nesting |-> IF n = 0 THEN {} ELSE Meant(f[n - 1])]
           valid == CHOOSE f : FitsCheck(f)
           conforming == CHOOSE f : FitsMeaning(f)
           S == {n \in Nat : n <= Nesting => valid[n] \subseteq conforming[n]}
<1>0. Nesting \in Nat
  BY NestingAssumption
<1>1. FitsCheck(valid)
  <2> DEFINE step == [deeper \in T |-> Checked(deeper)]
  <2>1. step \in [T -> T] /\ {} \in T
    OBVIOUS
  <2>2. PICK f \in [0..Nesting -> T] : Levels(f, {}, step, Nesting)
    <3> HIDE DEF step, T
    <3> QED
      BY <1>0, <2>1, LevelsExist
  <2>3. \A n \in 0..Nesting : n # 0 => step[f[n - 1]] = Checked(f[n - 1])
    <3>1. ASSUME NEW n \in 0..Nesting, n # 0 PROVE f[n - 1] \in T
      <4>1. n - 1 \in 0..Nesting
        BY <1>0, <3>1
      <4> HIDE DEF T
      <4> QED
        BY <2>2, <4>1
    <3> QED
      BY <3>1
  <2>4. FitsCheck(f)
    <3> HIDE DEF Checked, step
    <3> QED
      BY <2>2, <2>3 DEF Levels
  <2> HIDE DEF FitsCheck
  <2> QED
    BY <2>4
<1>2. FitsMeaning(conforming)
  <2> DEFINE step == [deeper \in T |-> Meant(deeper)]
  <2>1. step \in [T -> T] /\ {} \in T
    OBVIOUS
  <2>2. PICK f \in [0..Nesting -> T] : Levels(f, {}, step, Nesting)
    <3> HIDE DEF step, T
    <3> QED
      BY <1>0, <2>1, LevelsExist
  <2>3. \A n \in 0..Nesting : n # 0 => step[f[n - 1]] = Meant(f[n - 1])
    <3>1. ASSUME NEW n \in 0..Nesting, n # 0 PROVE f[n - 1] \in T
      <4>1. n - 1 \in 0..Nesting
        BY <1>0, <3>1
      <4> HIDE DEF T
      <4> QED
        BY <2>2, <4>1
    <3> QED
      BY <3>1
  <2>4. FitsMeaning(f)
    <3> HIDE DEF Meant, step
    <3> QED
      BY <2>2, <2>3 DEF Levels
  <2> HIDE DEF FitsMeaning
  <2> QED
    BY <2>4
<1>3. 0 \in S
  <2> HIDE DEF Checked, Meant, valid, conforming
  <2> QED
    BY <1>0, <1>1
<1>4. ASSUME NEW n \in Nat, n \in S PROVE n + 1 \in S
  <2>1. SUFFICES ASSUME n + 1 <= Nesting PROVE valid[n + 1] \subseteq conforming[n + 1]
    <3> HIDE DEF valid, conforming
    <3> QED
      OBVIOUS
  <2>2. valid[n] \subseteq conforming[n] /\ n + 1 \in 0..Nesting /\ n + 1 # 0 /\ (n + 1) - 1 = n
    <3> HIDE DEF valid, conforming
    <3> QED
      BY <1>0, <1>4, <2>1
  <2>3. valid[n + 1] = Checked(valid[n]) /\ conforming[n + 1] = Meant(conforming[n])
    <3> HIDE DEF valid, conforming, Checked, Meant
    <3> QED
      BY <1>1, <1>2, <2>2
  <2>4. ASSUME NEW pair \in Checked(valid[n]) PROVE pair \in Meant(conforming[n])
    <3> HIDE DEF valid, conforming
    <3>1. pair \in pairs /\ Passes(pair[1], pair[2], valid[n])
      OBVIOUS
    <3>2. pair[2] \in SchemasWithin(schema)
      BY <3>1 DEF PairsWithin
    <3>3. ~Has(pair[2], "malformed") /\ (Has(pair[2], "type") => Range(pair[2].type) \subseteq TypeNames)
      BY <3>2 DEF ShapeOK
    <3>4. Means(pair[1], pair[2], conforming[n])
      BY <2>2, <3>1, <3>3, PassesMeans
    <3> QED
      BY <3>1, <3>4
  <2> HIDE DEF valid, conforming, Checked, Meant
  <2> QED
    BY <2>3, <2>4
<1>5. Nesting \in S
  <2> HIDE DEF S
  <2> QED
    BY <1>0, <1>3, <1>4, Induction
<1>6. <<value, schema>> \in valid[Nesting]
  BY DEF Valid
<1>7. <<value, schema>> \in conforming[Nesting]
  <2> HIDE DEF valid, conforming
  <2> QED
    BY <1>5, <1>6
<1> QED
  BY <1>7 DEF Conforms

=============================================================================
