-------------------------- MODULE ToolCalls_proofs --------------------------
(***************************************************************************)
(* Proofs about ToolCalls, for every request and every answer.              *)
(*                                                                         *)
(* The lenient parser.  The pieces that are pushed do not matter, as what   *)
(* has been read of a text does not depend on them (HasRead); LenientInv    *)
(* says so at every step.                                                   *)
(*                                                                         *)
(* Where calls stand.  Between the place that a parser keeps for a call and *)
(* what is left of the text the call is written (ReadStands, and GlmPlaced  *)
(* and GlmStands for the calls of a GLM model); StandInv keeps it up to the *)
(* calls that the client gets.                                              *)
(*                                                                         *)
(* A GLM model's calls.  They are read one by one (RowsAreRead), and each   *)
(* parameter as the type that its schema declares (DeclaredFields).         *)
(***************************************************************************)
EXTENDS ToolCalls, Parsers_proofs

-----------------------------------------------------------------------------
(***************************************************************************)
(* The scanner of the lenient parser looks at the same arguments once more: *)
(* the two agree on where an object ends.                                   *)
(***************************************************************************)
Fed(f, text) == FoldLeft(Feed, f, text)

LEMMA FeedTyped ==
  ASSUME NEW f \in Feeds, NEW t
  PROVE  Feed(f, t) \in Feeds
<1>1. f.started \in BOOLEAN /\ f.depth \in Nat /\ f.inString \in BOOLEAN
  BY DEF Feeds
<1>3. [f EXCEPT !.inString = t \notin {"quote", "string"}] \in Feeds
  BY <1>1 DEF Feeds
<1>4. [f EXCEPT !.inString = TRUE, !.started = TRUE] \in Feeds
  BY <1>1 DEF Feeds
<1>5. [f EXCEPT !.depth = @ + 1, !.started = TRUE] \in Feeds
  <2> DEFINE more == f.depth + 1
  <2>1. more \in Nat
    BY <1>1
  <2> HIDE DEF more
  <2>2. [f EXCEPT !.depth = more, !.started = TRUE] \in Feeds
    BY <1>1, <2>1 DEF Feeds
  <2> QED
    BY <2>2 DEF more
<1>6. [f EXCEPT !.depth = IF @ = 0 THEN 0 ELSE @ - 1] \in Feeds
  <2> DEFINE less == IF f.depth = 0 THEN 0 ELSE f.depth - 1
  <2>1. less \in Nat
    BY <1>1
  <2> HIDE DEF less
  <2>2. [f EXCEPT !.depth = less] \in Feeds
    BY <1>1, <2>1 DEF Feeds
  <2> QED
    BY <2>2 DEF less
<1>7. [f EXCEPT !.started = @ \/ t # "nl"] \in Feeds
  BY <1>1 DEF Feeds
<1> QED
  BY <1>1, <1>3, <1>4, <1>5, <1>6, <1>7, Zenon DEF Feed

LEMMA FedRun ==
  ASSUME NEW B, NEW text \in Seq(B), NEW f \in Feeds
  PROVE  \E iter :
           /\ Fed(f, text) = iter[1..Len(text)]
           /\ iter[1..0] = f
           /\ \A k \in 1..Len(text) : iter[1..k] = Feed(iter[1..(k - 1)], text[k])
           /\ \A k \in 0..Len(text) : iter[1..k] \in Feeds
<1> DEFINE n == Len(text)
           T == Feeds
           step == [k \in 1..n |-> [x \in T |-> Feed(x, text[k])]]
           Fits(iter) == iter = [r \in SUBSET (1..n) |->
                                   IF r = {} THEN f ELSE Feed(iter[r \ {Max(r)}], text[Max(r)])]
           run == CHOOSE iter : Fits(iter)
<1>1. n \in Nat /\ DOMAIN text = 1..n /\ \A k \in 1..n : text[k] \in B
  OBVIOUS
<1>2. step \in [1..n -> [T -> T]]
  BY <1>1, FeedTyped
<1>3. \A r \in SUBSET (1..n) : r # {} => Max(r) \in 1..n
  <2>1. ASSUME NEW r \in SUBSET (1..n), r # {} PROVE Max(r) \in r
    <3>1. r \in SUBSET (0..n)
      OBVIOUS
    <3> QED
      BY <1>1, <2>1, <3>1, MaxBounded
  <2> QED
    BY <2>1
<1>4. \E iter : Fits(iter)
  <2>1. f \in T
    OBVIOUS
  <2>2. PICK iter \in [SUBSET (1..n) -> T] : TakesSteps(iter, step, f, n)
    <3> HIDE DEF step, T, n
    <3> QED
      BY <1>1, <1>2, <2>1, FoldExists
  <2>3. ASSUME NEW r \in SUBSET (1..n), r # {}
        PROVE  step[Max(r)][iter[r \ {Max(r)}]] = Feed(iter[r \ {Max(r)}], text[Max(r)])
    BY <1>3, <2>3
  <2>4. Fits(iter)
    BY <2>2, <2>3 DEF TakesSteps
  <2> QED
    BY <2>4
<1>5. Fits(run)
  <2> HIDE DEF Fits
  <2> QED
    BY <1>4
<1>6. Fed(f, text) = run[1..n]
  BY <1>1 DEF Fed, FoldLeft, MapThenFoldSet
<1>7. \A r \in SUBSET (1..n) :
        run[r] = IF r = {} THEN f ELSE Feed(run[r \ {Max(r)}], text[Max(r)])
  <2> HIDE DEF run
  <2> QED
    BY <1>5
<1> HIDE DEF run, n, Fits, T
<1>8. run[1..0] = f
  BY <1>1, <1>7, Beginnings
<1>9. ASSUME NEW k \in 1..n PROVE run[1..k] = Feed(run[1..(k - 1)], text[k])
  <2>1. /\ 1..k \in SUBSET (1..n) /\ 1..k # {}
        /\ Max(1..k) = k /\ (1..k) \ {Max(1..k)} = 1..(k - 1)
    BY <1>1, Beginnings
  <2> QED
    BY <1>7, <2>1
<1>10. \A k \in 0..n : run[1..k] \in T
  <2>1. \A k \in 1..n : run[1..(k - 1)] \in T => run[1..k] \in T
    BY <1>1, <1>9, FeedTyped DEF T
  <2>2. run[1..0] \in T
    BY <1>8 DEF T
  <2> QED
    BY <1>1, <2>1, <2>2, RunTyped
<1> QED
  BY <1>6, <1>8, <1>9, <1>10 DEF n, T

LEMMA FedTyped ==
  ASSUME NEW B, NEW text \in Seq(B), NEW f \in Feeds
  PROVE  Fed(f, text) \in Feeds
<1>1. Len(text) \in 0..Len(text)
  OBVIOUS
<1> QED
  BY <1>1, FedRun, SMTT(30)

LEMMA FedEmpty ==
  ASSUME NEW f \in Feeds
  PROVE  Fed(f, << >>) = f
<1>1. << >> \in Seq({0})
  OBVIOUS
<1>2. PICK iter : /\ Fed(f, << >>) = iter[1..Len(<< >>)]
                  /\ iter[1..0] = f
                  /\ \A k \in 1..Len(<< >>) : iter[1..k] = Feed(iter[1..(k - 1)], << >>[k])
                  /\ \A k \in 0..Len(<< >>) : iter[1..k] \in Feeds
  BY <1>1, FedRun, Zenon
<1>3. Len(<< >>) = 0
  OBVIOUS
<1> QED
  BY <1>2, <1>3

LEMMA FedAppend ==
  ASSUME NEW B, NEW text \in Seq(B), NEW t \in B, NEW f \in Feeds
  PROVE  Fed(f, Append(text, t)) = Feed(Fed(f, text), t)
<1> DEFINE n == Len(text)
           longer == Append(text, t)
<1>1. /\ n \in Nat /\ longer \in Seq(B) /\ Len(longer) = n + 1 /\ longer[n + 1] = t
      /\ \A k \in 1..n : longer[k] = text[k]
  OBVIOUS
<1>2. PICK a : /\ Fed(f, text) = a[1..n]
               /\ a[1..0] = f
               /\ \A k \in 1..n : a[1..k] = Feed(a[1..(k - 1)], text[k])
  BY FedRun
<1> HIDE DEF longer
<1>3. PICK c : /\ Fed(f, longer) = c[1..(n + 1)]
               /\ c[1..0] = f
               /\ \A k \in 1..(n + 1) : c[1..k] = Feed(c[1..(k - 1)], longer[k])
  BY <1>1, FedRun, SMTT(30)
<1> HIDE DEF n
<1>4. \A k \in 0..n : c[1..k] = a[1..k]
  <2>1. \A k \in 1..n : k \in 1..(n + 1)
    BY <1>1
  <2>2. \A k \in 1..n : Agree(a, c, k - 1) => Agree(a, c, k)
    BY <1>1, <1>2, <1>3, <2>1 DEF Agree
  <2>3. Agree(a, c, 0)
    BY <1>2, <1>3 DEF Agree
  <2>4. n \in Nat
    BY <1>1
  <2>5. \A k \in 0..n : Agree(a, c, k)
    BY <2>2, <2>3, <2>4, SameRuns
  <2> QED
    BY <2>5 DEF Agree
<1>5. c[1..(n + 1)] = Feed(c[1..n], t)
  <2>1. n + 1 \in 1..(n + 1) /\ (n + 1) - 1 = n
    BY <1>1
  <2> QED
    BY <1>1, <1>3, <2>1
<1>6. c[1..n] = a[1..n]
  <2>1. n \in 0..n
    BY <1>1
  <2> QED
    BY <1>4, <2>1
<1> QED
  BY <1>2, <1>3, <1>5, <1>6 DEF longer

LEMMA AlongStep ==
  ASSUME NEW s \in Scans, NEW f \in Feeds, NEW t, Along(s, f), s.phase # "complete"
  PROVE  Along(Scan(s, t), Feed(f, t))
<1>1. /\ s.phase \in Phases /\ s.objects \in Int /\ s.arrays \in Int /\ s.inString \in BOOLEAN
      /\ f.started \in BOOLEAN /\ f.depth \in Nat /\ f.inString \in BOOLEAN
  BY DEF Scans, Feeds
<1> DEFINE r == Scan(s, t)
           g == Feed(f, t)
<1>2. t \in DOMAIN Header => t \notin {"[", "]", "{", "}", "quote", "escaped", "string", "half"}
  BY HeaderAssumption
<1>3. CASE s.phase = "failed"
  <2>1. r = s
    BY <1>3 DEF Scan
  <2> QED
    BY <1>3, <2>1 DEF Along, r, g
<1>4. CASE s.phase = "initial"
  <2>1. s = NewScan /\ f = NotFed
    BY <1>4 DEF Along
  <2>2. CASE t = "{"
    <3>1. r = [s EXCEPT !.phase = "scanning", !.objects = 1]
      BY <1>4, <2>2 DEF Scan
    <3>2. g = [f EXCEPT !.depth = @ + 1, !.started = TRUE]
      BY <2>1, <2>2 DEF Feed, NotFed
    <3> HIDE DEF r, g
    <3>3. /\ r.phase = "scanning" /\ r.objects = 1 /\ r.arrays = s.arrays /\ r.inString = s.inString
          /\ g.started /\ g.depth = f.depth + 1 /\ g.inString = f.inString
      BY <3>1, <3>2 DEF Scans, Feeds
    <3>4. s.arrays = 0 /\ f.depth = 0 /\ f.inString = s.inString
      BY <2>1 DEF NewScan, NotFed
    <3>5. /\ r.phase = "scanning" /\ r.objects = 1 /\ r.arrays = 0
          /\ g.started /\ g.depth = 1 /\ g.inString = r.inString
      BY <3>3, <3>4
    <3>6. Along(r, g)
      BY <3>5 DEF Along
    <3> QED
      BY <3>6 DEF r, g
  <2>3. CASE t # "{"
    <3>1. r = [s EXCEPT !.phase = "failed"]
      BY <1>4, <2>3 DEF Scan
    <3>2. r.phase = "failed"
      BY <3>1 DEF Scans
    <3> HIDE DEF r
    <3> QED
      BY <3>2 DEF Along, r, g
  <2> QED
    BY <2>2, <2>3
<1>5. CASE s.phase = "scanning"
  <2>1. /\ s.objects >= 1 /\ s.arrays >= 0 /\ f.started /\ f.depth = s.objects + s.arrays
        /\ f.inString = s.inString
    BY <1>5 DEF Along
  <2>2. s.phase \notin {"complete", "failed", "initial"}
    BY <1>5
  <2>3. CASE s.inString
    <3>1. r = [s EXCEPT !.inString = t \notin {"quote", "string"}]
      BY <2>2, <2>3 DEF Scan
    <3>2. g = [f EXCEPT !.inString = t \notin {"quote", "string"}]
      BY <2>1, <2>3 DEF Feed
    <3> DEFINE b == t \notin {"quote", "string"}
    <3>3. /\ r.phase = s.phase /\ r.objects = s.objects /\ r.arrays = s.arrays /\ r.inString = b
          /\ g.started = f.started /\ g.depth = f.depth /\ g.inString = b
      <4> HIDE DEF b, r, g
      <4> QED
        BY <3>1, <3>2 DEF Scans, Feeds, b
    <3> HIDE DEF b, r, g
    <3> QED
      BY <1>5, <2>1, <3>3 DEF Along, r, g
  <2>4. CASE ~s.inString
    <3>1. ~f.inString
      BY <2>1, <2>4
    <3>2. CASE t \in {"quote", "escaped", "string"}
      <4>1. r = [s EXCEPT !.inString = TRUE]
        BY <2>2, <2>4, <3>2 DEF Scan
      <4>2. g = [f EXCEPT !.inString = TRUE, !.started = TRUE]
        BY <3>1, <3>2 DEF Feed
      <4> HIDE DEF r, g
      <4>3. /\ r.phase = s.phase /\ r.objects = s.objects /\ r.arrays = s.arrays /\ r.inString = TRUE
            /\ g.started = TRUE /\ g.depth = f.depth /\ g.inString = TRUE
        BY <4>1, <4>2 DEF Scans, Feeds
      <4> QED
        BY <1>5, <2>1, <4>3 DEF Along, r, g
    <3>3. CASE t \in DOMAIN Header \cup {"{", "half"}
      <4>1. t \notin {"quote", "escaped", "string"}
        BY <1>2, <3>3
      <4>2. r = [s EXCEPT !.objects = @ + 1]
        BY <2>2, <2>4, <3>3, <4>1, Zenon DEF Scan
      <4>3. g = [f EXCEPT !.depth = @ + 1, !.started = TRUE]
        BY <3>1, <3>3, <4>1, Zenon DEF Feed
      <4> HIDE DEF r, g
      <4>4. /\ r.phase = s.phase /\ r.objects = s.objects + 1 /\ r.arrays = s.arrays /\ r.inString = s.inString
            /\ g.started = TRUE /\ g.depth = f.depth + 1 /\ g.inString = f.inString
        BY <4>2, <4>3 DEF Scans, Feeds
      <4> QED
        BY <1>1, <1>5, <2>1, <4>4 DEF Along, r, g
    <3>4. CASE t = "}"
      <4>1. t \notin {"quote", "escaped", "string"} /\ t \notin DOMAIN Header \cup {"{", "half", "["}
        BY <1>2, <3>4
      <4> DEFINE ended == IF s.objects > 1 THEN s.phase ELSE IF s.arrays = 0 THEN "complete" ELSE "failed"
                 less == IF f.depth = 0 THEN 0 ELSE f.depth - 1
      <4>2. r = [s EXCEPT !.objects = @ - 1, !.phase = ended]
        BY <2>2, <2>4, <3>4, <4>1, Zenon DEF Scan
      <4>3. g = [f EXCEPT !.depth = less]
        BY <3>1, <3>4, <4>1, Zenon DEF Feed
      <4>4. /\ r.phase = ended /\ r.objects = s.objects - 1 /\ r.arrays = s.arrays /\ r.inString = s.inString
            /\ g.started = f.started /\ g.depth = less /\ g.inString = f.inString
        <5> HIDE DEF r, g, ended, less
        <5> QED
          BY <4>2, <4>3 DEF Scans, Feeds
      <4>5. less = f.depth - 1
        BY <1>1, <2>1
      <4> HIDE DEF r, g, less
      <4>6. ended \in {"scanning", "complete", "failed"} /\ (ended = "scanning" => s.objects > 1)
            /\ (ended = "complete" => s.objects = 1 /\ s.arrays = 0)
        BY <1>1, <1>5, <2>1
      <4> HIDE DEF ended
      <4> QED
        BY <1>1, <2>1, <2>4, <4>4, <4>5, <4>6 DEF Along, r, g
    <3>5. CASE t = "["
      <4>1. t \notin {"quote", "escaped", "string", "}"} /\ t \notin DOMAIN Header \cup {"{", "half"}
        BY <1>2, <3>5
      <4>2. r = [s EXCEPT !.arrays = @ + 1]
        BY <2>2, <2>4, <3>5, <4>1, Zenon DEF Scan
      <4>3. g = [f EXCEPT !.depth = @ + 1, !.started = TRUE]
        BY <3>1, <3>5, <4>1, Zenon DEF Feed
      <4> HIDE DEF r, g
      <4>4. /\ r.phase = s.phase /\ r.objects = s.objects /\ r.arrays = s.arrays + 1 /\ r.inString = s.inString
            /\ g.started = TRUE /\ g.depth = f.depth + 1 /\ g.inString = f.inString
        BY <4>2, <4>3 DEF Scans, Feeds
      <4> QED
        BY <1>1, <1>5, <2>1, <4>4 DEF Along, r, g
    <3>6. CASE t = "]"
      <4>1. t \notin {"quote", "escaped", "string", "}", "["} /\ t \notin DOMAIN Header \cup {"{", "half", "["}
        BY <1>2, <3>6
      <4>2. CASE s.arrays = 0
        <5>1. r = [s EXCEPT !.phase = "failed"]
          BY <2>2, <2>4, <3>6, <4>1, <4>2, Zenon DEF Scan
        <5> HIDE DEF r
        <5>2. r.phase = "failed"
          BY <5>1 DEF Scans
        <5> QED
          BY <5>2 DEF Along, r, g
      <4>3. CASE s.arrays # 0
        <5> DEFINE less == IF f.depth = 0 THEN 0 ELSE f.depth - 1
        <5>1. r = [s EXCEPT !.arrays = @ - 1]
          BY <2>2, <2>4, <3>6, <4>1, <4>3, Zenon DEF Scan
        <5>2. g = [f EXCEPT !.depth = less]
          BY <3>1, <3>6, <4>1, Zenon DEF Feed
        <5>3. less = f.depth - 1
          BY <1>1, <2>1
        <5> HIDE DEF less, r, g
        <5>4. /\ r.phase = s.phase /\ r.objects = s.objects /\ r.arrays = s.arrays - 1 /\ r.inString = s.inString
              /\ g.started = f.started /\ g.depth = less /\ g.inString = f.inString
          BY <5>1, <5>2 DEF Scans, Feeds
        <5> QED
          BY <1>1, <1>5, <2>1, <4>3, <5>3, <5>4 DEF Along, r, g
      <4> QED
        BY <4>2, <4>3
    <3>7. CASE t \notin {"quote", "escaped", "string", "}", "[", "]"} /\ t \notin DOMAIN Header \cup {"{", "half"}
      <4>1. r = s
        BY <2>2, <2>4, <3>7, Zenon DEF Scan
      <4>2. g = [f EXCEPT !.started = @ \/ t # "nl"]
        BY <3>1, <3>7 DEF Feed
      <4>3. g.started = TRUE /\ g.depth = f.depth /\ g.inString = f.inString
        <5> HIDE DEF g
        <5> QED
          BY <2>1, <4>2 DEF Feeds
      <4> HIDE DEF r, g
      <4> QED
        BY <1>5, <2>1, <4>1, <4>3 DEF Along, r, g
    <3> QED
      BY <3>2, <3>3, <3>4, <3>5, <3>6, <3>7
  <2> QED
    BY <1>1, <2>3, <2>4
<1> QED
  BY <1>1, <1>3, <1>4, <1>5 DEF Phases

LEMMA FedAlong ==
  ASSUME NEW B, NEW s \in Scans, NEW f \in Feeds, Along(s, f), NEW text \in Seq(B),
         \A k \in 0..Len(text) : k < Len(text) => Scanned(s, SubSeq(text, 1, k)).phase # "complete"
  PROVE  Along(Scanned(s, text), Fed(f, text))
<1> DEFINE Open(x) == \A k \in 0..Len(x) : k < Len(x) => Scanned(s, SubSeq(x, 1, k)).phase # "complete"
           S == {x \in Seq(B) : Open(x) => Along(Scanned(s, x), Fed(f, x))}
<1>1. << >> \in S
  BY ScannedEmpty, FedEmpty
<1>2. ASSUME NEW x \in Seq(B), NEW t \in B, x \in S PROVE Append(x, t) \in S
  <2> DEFINE y == Append(x, t)
             n == Len(x)
  <2>1. /\ y \in Seq(B) /\ Len(y) = n + 1 /\ n \in Nat
        /\ \A k \in 0..n : SubSeq(y, 1, k) = SubSeq(x, 1, k)
    <3>1. y = x \o <<t>> /\ <<t>> \in Seq(B)
      OBVIOUS
    <3>2. \A k \in 0..n : SubSeq(x \o <<t>>, 1, k) = SubSeq(x, 1, k)
      BY <3>1, JoinedBeginning
    <3>3. y \in Seq(B) /\ Len(y) = n + 1 /\ n \in Nat
      OBVIOUS
    <3> HIDE DEF y
    <3> QED
      BY <3>1, <3>2, <3>3
  <2>2. SubSeq(x, 1, n) = x
    BY WholeBeginning
  <2>3. Scanned(s, y) = Scan(Scanned(s, x), t) /\ Fed(f, y) = Feed(Fed(f, x), t)
    BY ScannedAppend, FedAppend
  <2>4. Scanned(s, x) \in Scans /\ Fed(f, x) \in Feeds
    BY ScannedTyped, FedTyped
  <2> HIDE DEF y, n
  <2>5. ASSUME Open(y) PROVE Along(Scanned(s, y), Fed(f, y))
    <3>0. \A k \in 0..n : k \in 0..(n + 1) /\ k < n + 1
      BY <2>1
    <3>00. \A k \in 0..n : Scanned(s, SubSeq(y, 1, k)).phase # "complete"
      BY <2>1, <2>5, <3>0
    <3>1. \A k \in 0..n : Scanned(s, SubSeq(x, 1, k)).phase # "complete"
      BY <2>1, <3>00
    <3>2. Open(x)
      BY <2>1, <3>1 DEF n
    <3>3. Scanned(s, x).phase # "complete"
      <4>1. n \in 0..n /\ SubSeq(x, 1, n) = x
        BY <2>1, <2>2 DEF n
      <4> QED
        BY <3>1, <4>1
    <3>4. Along(Scanned(s, x), Fed(f, x))
      BY <1>2, <3>2
    <3> QED
      BY <2>3, <2>4, <3>3, <3>4, AlongStep
  <2>6. Append(x, t) \in Seq(B)
    OBVIOUS
  <2> QED
    BY <2>5, <2>6 DEF y
<1>3. Seq(B) \subseteq S
  <2> HIDE DEF S
  <2> QED
    BY <1>1, <1>2, SequenceInduction
<1> QED
  BY <1>3

\* The arguments are complete, as the lenient parser sees it, where their object has ended.
LEMMA CompleteCalls ==
  ASSUME NEW B, NEW p \in Accounted(B)
  PROVE  /\ p.mode = "arguments" => (ArgumentsComplete(p.calls) <=> p.scan.phase = "complete")
         /\ ArgumentsComplete(p.calls) => \A i \in 1..Len(p.calls) : WholeObject(p.calls[i].arguments)
<1> DEFINE a == LastArguments(p)
           f == Fed(NotFed, a)
<1>1. /\ p \in Parsers(B) /\ WholeCalls(p)
      /\ p.mode = "arguments" => p.scan.phase # "failed" /\ OpenObject(a)
  BY AccountedFields
<1>2. p.calls \in Seq(ParsedCalls(B)) /\ InStep(p) /\ p.scan \in Scans
  BY <1>1, ParserFields
<1>3. ASSUME p.mode = "arguments" PROVE ArgumentsComplete(p.calls) <=> p.scan.phase = "complete"
  <2>1. p.calls # << >> /\ p.scan = Scanned(NewScan, a)
    BY <1>2, <1>3 DEF InStep, LastArguments
  <2>2. a \in Seq(B)
    <3>1. p.calls[Len(p.calls)] \in ParsedCalls(B)
      BY <1>2, <2>1
    <3> QED
      BY <3>1 DEF ParsedCalls, LastArguments
  <2>3. NewScan \in Scans /\ NotFed \in Feeds /\ Along(NewScan, NotFed)
    BY NewScanTyped DEF NotFed, Feeds, Along, NewScan
  <2> HIDE DEF a
  <2>4. Along(p.scan, f)
    BY <1>1, <1>3, <2>1, <2>2, <2>3, FedAlong DEF OpenObject
  <2>5. f \in Feeds
    BY <2>2, <2>3, FedTyped
  <2>6. ArgumentsComplete(p.calls) <=> f.started /\ f.depth = 0 /\ ~f.inString
    BY <2>1 DEF ArgumentsComplete, Fed, NotFed, a, LastArguments
  <2> HIDE DEF f
  <2>7. CASE p.scan.phase = "initial"
    BY <2>4, <2>6, <2>7 DEF Along, NotFed
  <2>8. CASE p.scan.phase = "scanning"
    <3>1. f.depth # 0
      BY <1>2, <2>4, <2>8 DEF Along, Scans
    <3> QED
      BY <2>6, <2>8, <3>1
  <2>9. CASE p.scan.phase = "complete"
    BY <2>4, <2>6, <2>9 DEF Along
  <2>10. p.scan.phase \in Phases /\ p.scan.phase # "failed"
    BY <1>1, <1>2, <1>3 DEF Scans
  <2> QED
    BY <2>7, <2>8, <2>9, <2>10 DEF Phases
<1>4. ASSUME ArgumentsComplete(p.calls), NEW i \in 1..Len(p.calls) PROVE WholeObject(p.calls[i].arguments)
  <2>1. CASE p.mode # "arguments" \/ i < Len(p.calls)
    BY <1>1, <2>1 DEF WholeCalls
  <2>2. CASE p.mode = "arguments" /\ i = Len(p.calls)
    <3>1. p.scan = Scanned(NewScan, p.calls[i].arguments) /\ p.scan.phase = "complete"
      BY <1>2, <1>3, <1>4, <2>2 DEF InStep
    <3> QED
      BY <1>1, <2>2, <3>1 DEF WholeObject, LastArguments
  <2> QED
    BY <1>2, <2>1, <2>2
<1> QED
  BY <1>3, <1>4

-----------------------------------------------------------------------------
(***************************************************************************)
(* The lenient parser has read the text up to where the rest is unread, and *)
(* ends with all of it, or with a piece that cannot be read.                *)
(***************************************************************************)
Tokens == Range(job.text) \cup {"close", "}"}

Before(n) == SubSeq(job.text, 1, n)

ReadsAll == HasRead(Tokens, parser, job.text) /\ read = Recovered(parser)

ReadsUpTo ==
  \E n, m \in 0..Len(job.text) :
    /\ n < m
    /\ HasRead(Tokens, parser, Before(n))
    /\ ReadOf(Before(m)).status = "failed"
    /\ \A k \in (n + 2)..m : job.text[k] \notin TagStarts
    /\ read = IF ArgumentsComplete(parser.calls) THEN [ok |-> TRUE, calls |-> parser.calls] ELSE Failure

LenientInv ==
  /\ job.text \in Seq(Tokens)
  /\ at \in {"context", "native"} => parser = NewParser("hermes")
  /\ at = "native" => job.format # "hermes" /\ unread = job.text
  /\ at = "hermes" =>
       \E n \in 0..Len(job.text) :
         unread = From(job.text, n + 1) /\ HasRead(Tokens, parser, Before(n))
  /\ at = "judge" /\ UsesHermes => ReadsAll \/ ReadsUpTo

LEMMA InitLenient == Init => LenientInv
<1> SUFFICES ASSUME Init PROVE LenientInv
  OBVIOUS
<1>1. PICK jobs \in Jobs : job \in jobs
  BY DEF Init
<1>2. job.text \in Seq(Range(job.text))
  BY <1>1, JobsAssumption
<1>3. job.text \in Seq(Tokens)
  <2> DEFINE R == Range(job.text)
             x == job.text
             T == R \cup {"close", "}"}
  <2>1. x \in Seq(R)
    BY <1>2
  <2>3. R \subseteq T
    OBVIOUS
  <2> HIDE DEF R, x, T
  <2>4. x \in Seq(T)
    BY <2>1, <2>3, LargerTexts
  <2> QED
    BY <2>4 DEF R, x, T, Tokens
<1> QED
  BY <1>3 DEF Init, LenientInv

\* The first piece of what is unread.
LEMMA PieceEndIs ==
  ASSUME NEW B, NEW text \in Seq(B), text # << >>
  PROVE  /\ PieceEnd(text) \in 1..Len(text)
         /\ \A k \in 2..PieceEnd(text) : text[k] \notin TagStarts
<1> DEFINE Fits(n) ==
             /\ n = Len(text) \/ text[n + 1] \in TagStarts
             /\ \A m \in 1 .. n - 1 : text[m + 1] \notin TagStarts
           S == {n \in 1..Len(text) : n = Len(text) \/ text[n + 1] \in TagStarts}
<1>1. Len(text) \in Nat /\ Len(text) >= 1 /\ DOMAIN text = 1..Len(text)
  OBVIOUS
<1>2. S \in SUBSET Nat /\ Len(text) \in S
  BY <1>1
<1>3. PICK n \in S : \A m \in S : n <= m
  <2> HIDE DEF S
  <2> QED
    BY <1>2, LeastNatural
<1>4. n \in 1..Len(text) /\ Fits(n)
  <2>1. ASSUME NEW m \in 1 .. n - 1 PROVE text[m + 1] \notin TagStarts
    <3>1. n \in 1..Len(text) /\ Len(text) \in Nat
      BY <1>1
    <3>2. m \in 1..Len(text) /\ ~(n <= m)
      <4> HIDE DEF S
      <4> QED
        BY <3>1
    <3>3. m \notin S
      <4> HIDE DEF S
      <4> QED
        BY <1>3, <3>2
    <3>4. \A k \in 1..Len(text) : text[k + 1] \in TagStarts => k \in S
      OBVIOUS
    <3> HIDE DEF S
    <3> QED
      BY <3>2, <3>3, <3>4, Zenon
  <2>2. n \in 1..Len(text) /\ (n = Len(text) \/ text[n + 1] \in TagStarts)
    OBVIOUS
  <2> QED
    BY <2>1, <2>2, Zenon
<1>5. PieceEnd(text) = CHOOSE k \in DOMAIN text : Fits(k)
  BY DEF PieceEnd
<1>6. \E k \in DOMAIN text : Fits(k)
  BY <1>1, <1>4
<1>7. PieceEnd(text) \in DOMAIN text /\ Fits(PieceEnd(text))
  <2> HIDE DEF Fits
  <2> QED
    BY <1>5, <1>6
<1>8. ASSUME NEW k \in 2..PieceEnd(text) PROVE text[k] \notin TagStarts
  <2> DEFINE e == PieceEnd(text)
  <2>1. e \in Nat
    <3>1. e \in 1..Len(text)
      BY <1>1, <1>7
    <3>2. \A j \in Nat : \A i \in 1..j : i \in Nat
      OBVIOUS
    <3>3. Len(text) \in Nat
      BY <1>1
    <3> HIDE DEF e
    <3> QED
      BY <3>1, <3>2, <3>3, ZenonT(30)
  <2>a. \A m \in 1 .. e - 1 : text[m + 1] \notin TagStarts
    BY <1>7, Zenon
  <2> HIDE DEF e
  <2>2. k \in 2..e
    BY DEF e
  <2>3. k - 1 \in 1 .. e - 1 /\ (k - 1) + 1 = k
    BY <2>1, <2>2
  <2>4. text[(k - 1) + 1] \notin TagStarts
    BY <2>3, <2>a, Zenon
  <2> QED
    BY <2>3, <2>4, Zenon
<1> QED
  BY <1>1, <1>7, <1>8

LEMMA NextLenient == LenientInv /\ [Next]_vars => LenientInv'
<1> SUFFICES ASSUME LenientInv, [Next]_vars PROVE LenientInv'
  OBVIOUS
<1>1. job' = job
  BY DEF Next, vars, Refuse, AnswerPlainly, OfferTools, ParseNative, PushPiece, FinishText, Judge
<1>2. job.text \in Seq(Tokens) /\ Tokens' = Tokens /\ job'.text \in Seq(Tokens')
  BY <1>1 DEF LenientInv, Tokens
<1>3. CASE Refuse \/ AnswerPlainly \/ Judge
  BY <1>2, <1>3 DEF Refuse, AnswerPlainly, Judge, Conclude, LenientInv
<1>4. CASE UNCHANGED vars
  BY <1>4 DEF vars, LenientInv, Tokens, Before, ReadsAll, ReadsUpTo, UsesHermes, Settled
<1>5. \A x : x = NewParser("hermes") =>
        /\ HasRead(Tokens, x, Before(0)) /\ job.text = From(job.text, 0 + 1) /\ 0 \in 0..Len(job.text)
  <2>1. HasRead(Tokens, NewParser("hermes"), << >>)
    BY HasReadFirst
  <2>2. job.text = From(job.text, 1)
    BY <1>2, WholeBeginning
  <2>3. Before(0) = << >>
    BY DEF Before
  <2>4. Len(job.text) \in Nat
    BY <1>2
  <2> QED
    BY <2>1, <2>2, <2>3, <2>4
<1>6. CASE OfferTools
  <2>1. parser' = NewParser("hermes") /\ unread' = job.text /\ at' = IF job.format = "hermes" THEN "hermes" ELSE "native"
    BY <1>6 DEF OfferTools, LenientInv
  <2>2. HasRead(Tokens', parser', Before(0)') /\ unread' = From(job'.text, 0 + 1) /\ 0 \in 0..Len(job'.text)
    BY <1>1, <1>2, <1>5, <2>1 DEF Before
  <2> QED
    BY <1>1, <1>2, <2>1, <2>2 DEF LenientInv
<1>7. CASE ParseNative
  <2>1. parser = NewParser("hermes") /\ parser' = parser /\ unread' = unread /\ unread = job.text
        /\ job.format # "hermes"
    BY <1>7 DEF ParseNative, LenientInv
  <2>2. at' = IF Settled(native') THEN "judge" ELSE "hermes"
    BY <1>7 DEF ParseNative
  <2>3. HasRead(Tokens', parser', Before(0)') /\ unread' = From(job'.text, 0 + 1) /\ 0 \in 0..Len(job'.text)
    BY <1>1, <1>2, <1>5, <2>1 DEF Before
  <2>4. CASE Settled(native')
    <3>1. ~UsesHermes'
      BY <1>1, <2>1, <2>4 DEF UsesHermes, Settled
    <3> QED
      BY <1>2, <2>2, <2>4, <3>1 DEF LenientInv
  <2>5. CASE ~Settled(native')
    BY <1>2, <2>2, <2>3, <2>5 DEF LenientInv
  <2> QED
    BY <2>4, <2>5
<1>8. CASE PushPiece
  <2> DEFINE text == job.text
             k == PieceEnd(unread)
             c == SubSeq(unread, 1, k)
             pushed == Push(parser, c)
  <2>1. PICK n \in 0..Len(text) : unread = From(text, n + 1) /\ HasRead(Tokens, parser, Before(n))
    BY <1>8 DEF PushPiece, LenientInv
  <2>2. unread # << >> /\ at = "hermes" /\ native' = native
    BY <1>8 DEF PushPiece
  <2>3. /\ unread \in Seq(Tokens) /\ Len(unread) = Len(text) - n /\ Len(text) \in Nat
        /\ \A i \in 1..(Len(text) - n) : unread[i] = text[n + i]
    <3>1. text \in Seq(Tokens) /\ 0 \in 0..(Len(text) - n) /\ Len(text) \in Nat
      BY <1>2
    <3>2. CutTwice(Tokens, text, n, 0)
      <4> HIDE DEF text
      <4>1. n \in 0..Len(text)
        BY <2>1 DEF text
      <4> QED
        BY <3>1, <4>1, OnePieceMore
    <3> QED
      BY <2>1, <3>1, <3>2 DEF CutTwice
  <2>4. k \in 1..Len(unread) /\ \A i \in 2..k : unread[i] \notin TagStarts
    BY <2>2, <2>3, PieceEndIs
  <2> HIDE DEF k
  <2>5. k \in 0..(Len(text) - n) /\ n + k \in 0..Len(text) /\ n < n + k
    BY <2>3, <2>4
  <2>6. /\ Before(n) \in Seq(Tokens) /\ c \in Seq(Tokens) /\ Before(n + k) = Before(n) \o c
        /\ From(unread, k + 1) = From(text, (n + k) + 1)
    <3> DEFINE rest == From(text, n + 1)
    <3>1. text \in Seq(Tokens) /\ k \in 0..(Len(text) - n) /\ unread = rest
      BY <1>2, <2>1, <2>5
    <3>2. Before(n) = SubSeq(text, 1, n) /\ Before(n + k) = SubSeq(text, 1, n + k)
      BY DEF Before
    <3> HIDE DEF text
    <3>3. /\ SubSeq(text, 1, n) \in Seq(Tokens) /\ SubSeq(rest, 1, k) \in Seq(Tokens)
          /\ SubSeq(text, 1, n + k) = SubSeq(text, 1, n) \o SubSeq(rest, 1, k)
          /\ From(rest, k + 1) = From(text, (n + k) + 1)
      <4>1. n \in 0..Len(text)
        BY <2>1 DEF text
      <4>2. CutTwice(Tokens, text, n, k)
        BY <3>1, <4>1, OnePieceMore
      <4> QED
        BY <4>2 DEF CutTwice
    <3> HIDE DEF rest
    <3> QED
      BY <3>1, <3>2, <3>3
  <2> HIDE DEF c
  <2>7. /\ pushed.status # "failed" => HasRead(Tokens, pushed, Before(n + k))
        /\ pushed.status = "failed" => ReadOf(Before(n + k)).status = "failed"
    <3>1. Before(n) \in Seq(Tokens)
      BY <2>6
    <3>2. c \in Seq(Tokens)
      BY <2>6
    <3>3. HasRead(Tokens, parser, Before(n))
      BY <2>1
    <3>4. /\ pushed.status # "failed" => HasRead(Tokens, pushed, Before(n) \o c)
          /\ pushed.status = "failed" => ReadOf(Before(n) \o c).status = "failed"
      BY <3>1, <3>2, <3>3, HasReadMore
    <3> QED
      BY <2>6, <3>4
  <2>8. \A m : Before(m)' = Before(m)
    BY <1>1 DEF Before
  <2>9. CASE pushed.status # "failed"
    <3>1. parser' = pushed /\ unread' = From(unread, k + 1) /\ at' = "hermes"
      BY <1>8, <2>9 DEF PushPiece, k, c
    <3>5. PICK m \in 0..Len(text) : m = n + k
      BY <2>5
    <3>2. HasRead(Tokens, pushed, Before(m))
      BY <2>7, <2>9, <3>5
    <3> HIDE DEF pushed
    <3>3. HasRead(Tokens', parser', Before(m)')
      BY <1>2, <2>8, <3>1, <3>2
    <3>4. m \in 0..Len(job'.text) /\ unread' = From(job'.text, m + 1)
      BY <1>1, <2>6, <3>1, <3>5
    <3> QED
      BY <1>2, <3>1, <3>3, <3>4 DEF LenientInv
  <2>10. CASE pushed.status = "failed"
    <3>1. /\ read' = IF ArgumentsComplete(parser.calls) THEN [ok |-> TRUE, calls |-> parser.calls] ELSE Failure
          /\ at' = "judge" /\ parser' = parser
      BY <1>8, <2>10 DEF PushPiece, k, c
    <3>2. ASSUME NEW i \in (n + 2)..(n + k) PROVE text[i] \notin TagStarts
      <4>1. i - n \in 2..k /\ i - n \in 1..(Len(text) - n) /\ n + (i - n) = i
        BY <2>3, <2>4
      <4> QED
        BY <2>3, <2>4, <4>1
    <3>3. ReadsUpTo'
      <4>7. PICK m \in 0..Len(text) : m = n + k
        BY <2>5
      <4>1. n \in 0..Len(text) /\ m \in 0..Len(text) /\ n < m
        BY <2>5, <4>7
      <4>2. HasRead(Tokens, parser, Before(n)) /\ ReadOf(Before(m)).status = "failed"
        BY <2>1, <2>7, <2>10, <4>7
      <4>3. \A i \in (n + 2)..m : text[i] \notin TagStarts
        BY <3>2, <4>7
      <4>4. HasRead(Tokens', parser', Before(n)') /\ ReadOf(Before(m)').status = "failed"
        BY <1>2, <2>8, <3>1, <4>2
      <4>5. n \in 0..Len(job'.text) /\ m \in 0..Len(job'.text) /\ \A i \in (n + 2)..m : job'.text[i] \notin TagStarts
        BY <1>1, <4>1, <4>3
      <4>6. read' = IF ArgumentsComplete(parser'.calls) THEN [ok |-> TRUE, calls |-> parser'.calls] ELSE Failure
        BY <3>1
      <4> QED
        BY <4>1, <4>4, <4>5, <4>6 DEF ReadsUpTo
    <3> QED
      BY <1>2, <3>1, <3>3 DEF LenientInv
  <2> QED
    BY <2>9, <2>10
<1>9. CASE FinishText
  <2>1. unread = << >> /\ at = "hermes" /\ read' = Recovered(parser) /\ at' = "judge" /\ parser' = parser
    BY <1>9 DEF FinishText
  <2>2. PICK n \in 0..Len(job.text) : unread = From(job.text, n + 1) /\ HasRead(Tokens, parser, Before(n))
    BY <2>1 DEF LenientInv
  <2>3. Before(n) = job.text
    <3>1. n \in 0..Len(job.text) /\ Len(job.text) \in Nat
      BY <1>2
    <3>2. Len(From(job.text, n + 1)) = Len(job.text) - n
      BY <1>2, <3>1, Beginning
    <3>3. Len(From(job.text, n + 1)) = 0
      BY <2>1, <2>2
    <3>4. n = Len(job.text)
      BY <3>1, <3>2, <3>3
    <3>5. SubSeq(job.text, 1, Len(job.text)) = job.text
      BY <1>2, WholeBeginning
    <3> QED
      BY <3>4, <3>5 DEF Before
  <2>4. ReadsAll'
    BY <1>1, <1>2, <2>1, <2>2, <2>3 DEF ReadsAll
  <2> QED
    BY <1>2, <2>1, <2>4 DEF LenientInv
<1> QED
  BY <1>3, <1>4, <1>6, <1>7, <1>8, <1>9 DEF Next

\* What has been read is what the strict parser reads, and so is what it reads of the closing marker.
LEMMA RecoveredIsStrict ==
  ASSUME NEW B, "close" \in B, NEW p, NEW a \in Seq(B), HasRead(B, p, a),
         NEW end \in {<< >>, <<"close">>}, ParseComplete("hermes", a \o end).ok
  PROVE  Recovered(p) = ParseComplete("hermes", a \o end)
<1> DEFINE close == <<"close">>
           closed == Push(p, close)
<1>1. /\ ReadOf(a).mode = p.mode /\ ReadOf(a).calls = p.calls /\ p.status # "failed"
      /\ ReadOf(a) \in Parsers(B) /\ ReadOf(a).format = "hermes" /\ Rests(ReadOf(a))
      /\ \A c \in Seq(B) : Push(ReadOf(a), c) = Push(p, c)
  BY HasReadIs
<1>2. close \in Seq(B)
  BY OneIsText
<1> HIDE DEF close
<1>3. \A x : ParseComplete("hermes", x).ok =>
               /\ ReadOf(x).status # "failed" /\ ReadOf(x).mode = "text"
               /\ ParseComplete("hermes", x) = [ok |-> TRUE, calls |-> ReadOf(x).calls]
  BY StrictIs
<1>4. CASE end = << >>
  <2>1. a \o end = a
    BY <1>4
  <2>2. ParseComplete("hermes", a).ok
    BY <2>1
  <2>3. p.mode = "text" /\ ParseComplete("hermes", a) = [ok |-> TRUE, calls |-> p.calls]
    BY <1>1, <1>3, <2>2
  <2>4. Recovered(p) = [ok |-> TRUE, calls |-> p.calls]
    BY <1>1, <2>3 DEF Recovered, MayFinish
  <2> QED
    BY <2>1, <2>3, <2>4
<1>5. CASE end = close
  <2>1. /\ ReadOf(a \o close).status # "failed" /\ ReadOf(a \o close).mode = "text"
        /\ ParseComplete("hermes", a \o close) = [ok |-> TRUE, calls |-> ReadOf(a \o close).calls]
    BY <1>3, <1>5
  <2>2. closed.status # "failed" /\ closed = ReadOf(a \o close)
    <3>1. /\ closed.status # "failed" => closed = ReadOf(a \o close)
          /\ closed.status = "failed" => ReadOf(a \o close).status = "failed"
      BY <1>2, HasReadMore
    <3> HIDE DEF closed
    <3> QED
      BY <2>1, <3>1
  <2>3. MayFinish(closed)
    <3> HIDE DEF closed
    <3> QED
      BY <2>1, <2>2 DEF MayFinish
  <2>4. CASE MayFinish(p)
    <3>1. ReadOf(a).mode = "text" /\ Push(ReadOf(a), close) = closed
      BY <1>1, <1>2, <2>4 DEF MayFinish
    <3> HIDE DEF closed
    <3>2. Push(ReadOf(a), <<"close">>).status # "failed"
      BY <2>2, <3>1 DEF close
    <3>3. Push(ReadOf(a), <<"close">>).calls = ReadOf(a).calls
      <4> DEFINE q == ReadOf(a)
      <4>1. q \in Parsers(B)
        BY <1>1
      <4>2. q.format = "hermes" /\ Rests(q) /\ q.mode = "text"
        BY <1>1, <3>1
      <4>3. Push(q, <<"close">>).status # "failed"
        BY <3>2
      <4> HIDE DEF q
      <4>4. Push(q, <<"close">>).calls = q.calls
        BY <4>1, <4>2, <4>3, CloseInText
      <4> QED
        BY <4>4 DEF q
    <3>4. closed.calls = p.calls
      BY <1>1, <3>1, <3>3 DEF close
    <3>5. Recovered(p) = [ok |-> TRUE, calls |-> p.calls]
      BY <2>4 DEF Recovered
    <3> QED
      BY <1>5, <2>1, <2>2, <3>4, <3>5
  <2>5. CASE ~MayFinish(p)
    <3>1. Recovered(p) = [ok |-> TRUE, calls |-> closed.calls]
      BY <2>3, <2>5 DEF Recovered, close
    <3> HIDE DEF closed
    <3> QED
      BY <1>5, <2>1, <2>2, <3>1
  <2> QED
    BY <2>4, <2>5
<1> QED
  BY <1>4, <1>5 DEF close

StopsHere(a, t, end) ==
  /\ ReadOf(a).status # "failed" /\ ReadOf(a \o <<t>>).status = "failed"
  /\ ArgumentsComplete(ReadOf(a).calls)
  /\ ParseComplete("hermes", a \o end) = [ok |-> TRUE, calls |-> ReadOf(a).calls]

\* A closing marker breaks off: that is nothing yet, and the call is as it was.
BreaksHere(a, t, end) ==
  /\ ReadOf(a).status # "failed" /\ ArgumentsComplete(ReadOf(a).calls)
  /\ ParseComplete("hermes", a \o end) = [ok |-> TRUE, calls |-> ReadOf(a).calls]
  /\ t = "cut" /\ end = <<"close">>
  /\ ReadOf(a \o <<t>>).status = "waits" /\ ReadOf(a \o <<t>>).mode = "arguments"
  /\ ReadOf(a \o <<t>>).scan.phase = "complete" /\ CutOff(ReadOf(a \o <<t>>).buffer)
  /\ ReadOf(a \o <<t>>).calls = ReadOf(a).calls

LEMMA HasReadOn ==
  ASSUME NEW B, NEW q, NEW a \in Seq(B), NEW c \in Seq(B), HasRead(B, q, a), Push(q, c).status # "failed"
  PROVE  Push(q, c) = ReadOf(a \o c)
BY HasReadMore

LEMMA CutShort ==
  ASSUME NEW B, "close" \in B, "}" \in B, NEW a \in Seq(B), NEW t \in B, NEW end, CutHere(a, t, end)
  PROVE  \/ StopsHere(a, t, end) /\ ~(t = "cut" /\ end = <<"close">>)
         \/ BreaksHere(a, t, end)
<1> DEFINE q == ReadOf(a)
           r == ReadOf(a \o end)
<1>13. /\ t \in TagStarts /\ t # "close" /\ end \in Closings
       /\ ~ParseComplete("hermes", a).ok /\ ParseComplete("hermes", a \o end).ok
  BY DEF CutHere
<1>1. end \in Seq(B)
  BY <1>13, OneIsText, TwoIsText DEF Closings
<1>2. <<t>> \in Seq(B)
  BY OneIsText
<1>3. /\ r.status # "failed" /\ r.mode = "text"
      /\ ParseComplete("hermes", a \o end) = [ok |-> TRUE, calls |-> r.calls]
  BY <1>13, StrictIs
<1>4. q.status # "failed" /\ HasRead(B, q, a) /\ Push(q, end) = r
  <2> HIDE DEF q, r
  <2>1. ReadOf(a \o end).status # "failed"
    BY <1>3 DEF r
  <2> QED
    BY <1>1, <2>1, ReadsFirst DEF q, r
<1>5. HasRead(B, q, a)
  BY <1>4
<1>6. q \in Parsers(B) /\ q \in Accounted(B) /\ q.format = "hermes" /\ Rests(q)
  BY <1>5, HasReadIs
<1>7. q.mode # "text"
  BY <1>4, <1>13, StrictIs
<1>8. Push(q, end) = r
  BY <1>4
<1>9. /\ Push(q, <<t>>).status = "failed" => ReadOf(a \o <<t>>).status = "failed"
      /\ Push(q, <<t>>).status # "failed" => Push(q, <<t>>) = ReadOf(a \o <<t>>)
  <2> HIDE DEF q, r
  <2>1. Push(q, <<t>>).status = "failed" => ReadOf(a \o <<t>>).status = "failed"
    BY <1>2, <1>5, HasReadMore
  <2>2. Push(q, <<t>>).status # "failed" => Push(q, <<t>>) = ReadOf(a \o <<t>>)
    BY <1>2, <1>5, HasReadOn
  <2> QED
    BY <2>1, <2>2
<1> HIDE DEF q, r
<1>10. /\ q.mode = "arguments" /\ q.scan.phase = "complete" /\ r.calls = q.calls
       /\ end = <<"close">> => q.buffer # << >> /\ ~CutOff(q.buffer)
       /\ end # <<"close">> => q.buffer = << >>
  <2>1. q \in Parsers(B)
    BY <1>6
  <2>2. q.format = "hermes" /\ Rests(q) /\ q.mode # "text"
    BY <1>6, <1>7
  <2>3. Push(q, end).status # "failed" /\ Push(q, end).mode = "text"
    BY <1>3, <1>8
  <2>4. /\ q.mode = "arguments" /\ q.scan.phase = "complete" /\ Push(q, end).calls = q.calls
        /\ end = <<"close">> => q.buffer # << >> /\ ~CutOff(q.buffer)
        /\ end # <<"close">> => q.buffer = << >>
    BY <1>13, <2>1, <2>2, <2>3, EndOfCall
  <2> QED
    BY <1>8, <2>4
<1>12. ArgumentsComplete(q.calls)
  BY <1>6, <1>10, CompleteCalls
<1>11. CASE t # "cut" \/ end # <<"close">>
  <2>1. q \in Parsers(B)
    BY <1>6
  <2>2. q.format = "hermes" /\ Rests(q) /\ q.mode = "arguments" /\ q.scan.phase = "complete"
    BY <1>6, <1>10
  <2>3. q.buffer = << >> \/ t # "cut"
    BY <1>10, <1>11
  <2>4. Push(q, <<t>>).status = "failed"
    BY <1>13, <2>1, <2>2, <2>3, TagAtEnd
  <2> QED
    BY <1>3, <1>4, <1>9, <1>10, <1>11, <1>12, <2>4 DEF q, StopsHere
<1>14. CASE t = "cut" /\ end = <<"close">>
  <2>1. q \in Parsers(B)
    BY <1>6
  <2>2. q.format = "hermes" /\ Rests(q) /\ q.mode = "arguments" /\ q.scan.phase = "complete"
    BY <1>6, <1>10
  <2>3. q.buffer # << >> /\ ~CutOff(q.buffer)
    BY <1>10, <1>14
  <2> DEFINE z == Push(q, <<t>>)
  <2>4. /\ z.status = "waits" /\ z.mode = "arguments" /\ CutOff(z.buffer)
        /\ z.scan = q.scan /\ z.calls = q.calls
    BY <1>14, <2>1, <2>2, <2>3, TokenAtEnd, ZenonT(30)
  <2> HIDE DEF z
  <2>5. z = ReadOf(a \o <<t>>)
    BY <1>9, <2>4 DEF z
  <2>6. z.scan.phase = "complete"
    BY <2>2, <2>4
  <2> QED
    BY <1>3, <1>4, <1>10, <1>12, <1>14, <2>4, <2>5, <2>6 DEF q, BreaksHere
<1> QED
  BY <1>11, <1>14

\* Whatever comes behind such a marker is refused, the marker pushed at the end of the text too.
LEMMA RefusedBehind ==
  ASSUME NEW B, "close" \in B, NEW a \in Seq(B), NEW t \in B, NEW end, BreaksHere(a, t, end)
  PROVE  /\ \A u \in B : ReadOf((a \o <<t>>) \o <<u>>).status = "failed"
         /\ \A p : HasRead(B, p, a \o <<t>>) => Recovered(p) = Failure
<1> DEFINE c == <<t>>
           b == a \o c
           q == ReadOf(b)
<1>1. c \in Seq(B)
  BY OneIsText
<1>2. b \in Seq(B) /\ ReadOf(b \o << >>) = q
  BY <1>1, TextJoined, NoText
<1>3. /\ q.status = "waits" /\ q.mode = "arguments" /\ q.scan.phase = "complete" /\ CutOff(q.buffer)
  BY DEF BreaksHere
<1>4. HasRead(B, q, b)
  <2>1. << >> \in Seq(B) /\ ReadOf(b \o << >>).status # "failed"
    BY <1>2, <1>3, NoText
  <2> HIDE DEF b, q
  <2> QED
    BY <1>2, <2>1, ReadsFirst DEF q
<1> HIDE DEF b, q
<1>5. q \in Parsers(B) /\ q.format = "hermes" /\ Rests(q)
  BY <1>2, <1>4, HasReadIs DEF q
<1>6. ASSUME NEW u \in B PROVE Push(q, <<u>>).status = "failed"
  BY <1>3, <1>5, TokenAtEnd, ZenonT(30)
<1>7. ASSUME NEW u \in B PROVE ReadOf(b \o <<u>>).status = "failed"
  <2>1. <<u>> \in Seq(B)
    BY OneIsText
  <2> QED
    BY <1>2, <1>4, <1>6, <2>1, HasReadMore
<1>8. ASSUME NEW p, HasRead(B, p, b) PROVE Recovered(p) = Failure
  <2>1. /\ p.mode = q.mode /\ \A x \in Seq(B) : Push(q, x) = Push(p, x)
    BY <1>2, <1>8, HasReadIs DEF q
  <2>2. <<"close">> \in Seq(B)
    BY OneIsText
  <2>3. Push(p, <<"close">>).status = "failed"
    BY <1>6, <2>1, <2>2
  <2> QED
    BY <1>3, <2>1, <2>3 DEF Recovered, MayFinish
<1> QED
  BY <1>7, <1>8 DEF b

LEMMA SafeLenient == LenientInv => LenientReading
<1> DEFINE Strict(n, end) == ParseComplete("hermes", Before(n) \o end)
           CutAt(n) == /\ job.text[n + 1] \in TagStarts \ {"close"}
                       /\ ~ParseComplete("hermes", Before(n)).ok
           Breaks(n) == job.text[n + 1] = "cut" /\ n + 1 = Len(job.text)
<1> SUFFICES ASSUME LenientInv, at = "judge", UsesHermes
             PROVE  /\ \A end \in {<< >>, <<"close">>} :
                         ParseComplete("hermes", job.text \o end).ok =>
                           read = ParseComplete("hermes", job.text \o end)
                    /\ \A n \in 1 .. Len(job.text) - 1 :
                         CutAt(n) =>
                           /\ Strict(n, <<"close">>).ok =>
                                read = IF Breaks(n) THEN Failure ELSE Strict(n, <<"close">>)
                           /\ Strict(n, <<"}", "close">>).ok => read = Strict(n, <<"}", "close">>)
  BY DEF LenientReading, Before
<1> DEFINE text == job.text
<1>8. text \in Seq(Tokens)
  BY DEF LenientInv
<1>1. text \in Seq(Tokens) /\ Len(text) \in Nat /\ Before(Len(text)) = text
  BY WholeBeginning DEF LenientInv, Before
<1>9. \A L \in Nat : \A n \in 1 .. L - 1 :
        n \in Nat /\ n \in 0..L /\ n + 1 \in 0..L /\ n + 1 \in 1..L
  OBVIOUS
<1>10. \A L \in Nat : \A i, n \in 0..L :
        /\ n <= i => i \in n..L
        /\ i \in Nat
  OBVIOUS
<1>11. \A i \in 1..Len(text) : text[i] \in Tokens
  BY <1>1
<1>2. "close" \in Tokens /\ "}" \in Tokens
  BY DEF Tokens
<1>3. ReadsAll \/ ReadsUpTo
  BY DEF LenientInv
<1>4. ASSUME NEW n \in 0..Len(text), NEW m \in n..Len(text), ReadOf(Before(n)).status = "failed"
      PROVE  ReadOf(Before(m)).status = "failed"
  BY <1>1, <1>4, FailsFromThere DEF Before
<1> HIDE DEF text
<1>5. ASSUME NEW n \in 0..Len(text), HasRead(Tokens, parser, Before(n))
      PROVE  ReadOf(Before(n)).status = "waits" /\ ReadOf(Before(n)).calls = parser.calls
  <2>1. Before(n) \in Seq(Tokens)
    BY <1>1, Beginning DEF Before, text
  <2> QED
    BY <1>5, <2>1, HasReadIs
<1>6. ASSUME NEW end \in {<< >>, <<"close">>}, ParseComplete("hermes", text \o end).ok
      PROVE  read = ParseComplete("hermes", text \o end)
  <2>1. CASE ReadsAll
    <3>1. HasRead(Tokens, parser, text) /\ read = Recovered(parser)
      BY <2>1 DEF ReadsAll, text
    <3> QED
      BY <1>1, <1>2, <1>6, <3>1, RecoveredIsStrict
  <2>2. CASE ReadsUpTo
    <3>1. PICK m \in 0..Len(text) : ReadOf(Before(m)).status = "failed"
      BY <2>2 DEF ReadsUpTo, text
    <3>2. ReadOf(text).status = "failed"
      <4>1. Len(text) \in m..Len(text)
        BY <1>1, <3>1
      <4>2. ReadOf(Before(Len(text))).status = "failed"
        BY <1>4, <3>1, <4>1
      <4> QED
        BY <1>1, <4>2
    <3>3. end \in Seq(Tokens)
      BY <1>2, OneIsText, NoText
    <3>4. ReadOf(text \o end).status = "failed"
      BY <1>1, <3>2, <3>3, FailsForGood
    <3>5. FALSE
      BY <1>6, <3>4, StrictIs
    <3> QED
      BY <3>5
  <2> QED
    BY <1>3, <2>1, <2>2
<1>7. ASSUME NEW n \in 1 .. Len(text) - 1, NEW end, CutHere(Before(n), text[n + 1], end)
      PROVE  read = IF Breaks(n) /\ end = <<"close">> THEN Failure ELSE Strict(n, end)
  <2> DEFINE a == Before(n)
             t == text[n + 1]
  <2>1. n \in 0..Len(text) /\ n + 1 \in 0..Len(text) /\ n + 1 \in 1..Len(text) /\ n \in Nat
    BY <1>1, <1>9
  <2>2. a \in Seq(Tokens) /\ t \in Tokens /\ Before(n + 1) = a \o <<t>>
    <3>1. t \in Tokens
      BY <1>1, <2>1, <1>11
    <3>2. a \in Seq(Tokens)
      BY <1>1, <2>1, Beginning DEF Before, text
    <3>3. Before(n + 1) = a \o <<t>>
      BY <1>1, <2>1, OneMore DEF Before, text
    <3> QED
      BY <3>1, <3>2, <3>3
  <2> HIDE DEF a, t
  <2>3. \/ StopsHere(a, t, end) /\ ~(t = "cut" /\ end = <<"close">>)
        \/ BreaksHere(a, t, end)
    <3>1. CutHere(a, t, end)
      BY <1>7 DEF a, t
    <3> QED
      BY <1>2, <2>2, <3>1, CutShort
  <2>4. /\ ReadOf(a).status # "failed" /\ ArgumentsComplete(ReadOf(a).calls)
        /\ Strict(n, end) = [ok |-> TRUE, calls |-> ReadOf(a).calls]
    BY <2>3 DEF a, StopsHere, BreaksHere
  <2> HIDE DEF Strict, Breaks
  \* Where the text cannot be read any further, these calls are what has been read.
  <2>5. ASSUME NEW k \in {n + 1, n + 2}, k \in 0..Len(text), ReadOf(Before(k)).status = "failed",
               k = n + 2 => ReadOf(Before(n + 1)).calls = ReadOf(a).calls
        PROVE  read = Strict(n, end)
    <3>1. CASE ReadsAll
      <4>1. HasRead(Tokens, parser, Before(Len(text))) /\ Len(text) \in 0..Len(text)
        <5>1. HasRead(Tokens, parser, text)
          BY <3>1 DEF ReadsAll, text
        <5>2. \A L \in Nat : L \in 0..L
          OBVIOUS
        <5> QED
          BY <1>1, <5>1, <5>2
      <4>2. ReadOf(Before(Len(text))).status = "waits"
        BY <1>5, <4>1
      <4>3. Len(text) \in k..Len(text)
        BY <1>1, <1>10, <2>5, <4>1
      <4>4. ReadOf(Before(Len(text))).status = "failed"
        BY <1>4, <2>5, <4>3
      <4> QED
        BY <4>2, <4>4
    <3>2. CASE ReadsUpTo
      <4>1. PICK i \in 0..Len(text), m \in 0..Len(text) :
              /\ i < m
              /\ HasRead(Tokens, parser, Before(i))
              /\ ReadOf(Before(m)).status = "failed"
              /\ \A x \in (i + 2)..m : text[x] \notin TagStarts
              /\ read = IF ArgumentsComplete(parser.calls) THEN [ok |-> TRUE, calls |-> parser.calls] ELSE Failure
        BY <3>2 DEF ReadsUpTo, text
      <4>2. ReadOf(Before(i)).status = "waits" /\ ReadOf(Before(i)).calls = parser.calls
        BY <1>5, <4>1
      <4>3. ASSUME k <= i PROVE FALSE
        <5>1. i \in k..Len(text)
          BY <1>1, <1>10, <2>5, <4>1, <4>3
        <5>2. ReadOf(Before(i)).status = "failed"
          BY <1>4, <2>5, <5>1
        <5> QED
          BY <4>2, <5>2
      <4>4. ASSUME m <= n PROVE FALSE
        <5>1. n \in m..Len(text)
          BY <1>1, <1>10, <2>1, <4>1, <4>4
        <5>2. ReadOf(Before(n)).status = "failed"
          BY <1>4, <4>1, <5>1
        <5> QED
          BY <2>4, <5>2 DEF a
      <4>5. n + 1 \notin (i + 2)..m
        BY <1>7, <4>1 DEF CutHere
      <4>6. i = n \/ (i = n + 1 /\ k = n + 2)
        <5>1. i \in Nat /\ m \in Nat /\ n \in Nat
          BY <1>1, <1>10, <2>1, <4>1
        <5>2. \A x, y, z \in Nat : z + 1 \in (x + 2)..y \/ y <= z \/ x >= z
          OBVIOUS
        <5>3. i >= n
          BY <4>4, <4>5, <5>1, <5>2
        <5>4. i < k
          BY <4>3, <5>1, <2>5
        <5> QED
          BY <2>5, <5>1, <5>3, <5>4
      <4>7. parser.calls = ReadOf(a).calls
        BY <2>5, <4>2, <4>6 DEF a
      <4> QED
        BY <2>4, <4>1, <4>7
    <3> QED
      BY <1>3, <3>1, <3>2
  <2>6. CASE StopsHere(a, t, end) /\ ~(t = "cut" /\ end = <<"close">>)
    <3>1. ReadOf(Before(n + 1)).status = "failed"
      BY <2>2, <2>6 DEF StopsHere
    <3>2. n + 1 # n + 2
      BY <2>1
    <3>3. read = Strict(n, end)
      BY <2>1, <2>5, <3>1, <3>2
    <3> QED
      BY <2>6, <3>3 DEF Breaks, t, text
  <2>7. CASE BreaksHere(a, t, end)
    <3>1. /\ ReadOf(Before(n + 1)).status = "waits" /\ ReadOf(Before(n + 1)).calls = ReadOf(a).calls
          /\ t = "cut" /\ end = <<"close">>
      BY <2>2, <2>7 DEF BreaksHere
    <3>2. /\ \A u \in Tokens : ReadOf(Before(n + 1) \o <<u>>).status = "failed"
          /\ \A p : HasRead(Tokens, p, Before(n + 1)) => Recovered(p) = Failure
      <4>1. \A u \in Tokens : ReadOf((a \o <<t>>) \o <<u>>).status = "failed"
        BY <1>2, <2>2, <2>7, RefusedBehind, ZenonT(30)
      <4>2. \A p : HasRead(Tokens, p, a \o <<t>>) => Recovered(p) = Failure
        BY <1>2, <2>2, <2>7, RefusedBehind, ZenonT(30)
      <4> QED
        BY <2>2, <4>1, <4>2
    <3>3. CASE n + 1 = Len(text)
      <4>1. Before(n + 1) = text
        BY <1>1, <3>3
      <4>2. Breaks(n)
        BY <3>1, <3>3 DEF Breaks, t, text
      <4>3. CASE ReadsAll
        <5>1. HasRead(Tokens, parser, text) /\ read = Recovered(parser)
          BY <4>3 DEF ReadsAll, text
        <5> QED
          BY <3>1, <3>2, <4>1, <4>2, <5>1
      <4>4. CASE ReadsUpTo
        <5>1. PICK m \in 0..Len(text) : ReadOf(Before(m)).status = "failed"
          BY <4>4 DEF ReadsUpTo, text
        <5>2. Len(text) \in m..Len(text)
          BY <1>1, <5>1
        <5>3. ReadOf(Before(Len(text))).status = "failed"
          BY <1>4, <5>1, <5>2
        <5> QED
          BY <3>1, <3>3, <5>3
      <4> QED
        BY <1>3, <4>3, <4>4
    <3>4. CASE n + 1 # Len(text)
      <4>1. n + 2 \in 1..Len(text) /\ n + 2 \in 0..Len(text) /\ n + 1 \in Nat /\ (n + 1) + 1 = n + 2
        BY <1>1, <2>1, <3>4
      <4>2. text[n + 2] \in Tokens
        BY <1>1, <1>11, <4>1
      <4>3. Before(n + 2) = Before(n + 1) \o <<text[n + 2]>>
        <5>1. SubSeq(job.text, 1, (n + 1) + 1) = SubSeq(job.text, 1, n + 1) \o <<job.text[(n + 1) + 1]>>
          BY <1>1, <4>1, OneMore DEF text
        <5> QED
          BY <4>1, <5>1 DEF Before, text
      <4>4. ReadOf(Before(n + 2)).status = "failed"
        BY <3>2, <4>2, <4>3
      <4>5. read = Strict(n, end)
        BY <2>5, <3>1, <4>1, <4>4
      <4> QED
        BY <3>4, <4>5 DEF Breaks, text
    <3> QED
      BY <3>3, <3>4
  <2> QED
    BY <2>3, <2>6, <2>7
<1>12. ASSUME NEW n \in 1 .. Len(job.text) - 1, CutAt(n)
       PROVE  /\ Strict(n, <<"close">>).ok =>
                   read = IF Breaks(n) THEN Failure ELSE Strict(n, <<"close">>)
              /\ Strict(n, <<"}", "close">>).ok => read = Strict(n, <<"}", "close">>)
  <2>1. \A end \in Closings : Strict(n, end).ok => CutHere(Before(n), text[n + 1], end)
    BY <1>12 DEF CutHere, text
  <2>2. \A x : <<x, "close">> # <<"close">>
    OBVIOUS
  <2> HIDE DEF Strict, Breaks
  <2>3. \A end \in Closings : Strict(n, end).ok =>
          read = IF Breaks(n) /\ end = <<"close">> THEN Failure ELSE Strict(n, end)
    BY <1>7, <2>1 DEF text
  <2> QED
    BY <2>2, <2>3 DEF Closings
<1> QED
  BY <1>6, <1>12 DEF text

(***************************************************************************)
(* The lenient parser reads what the strict one does, whatever pieces it is *)
(* given (LenientToolParser and its finish, tools.rs).                       *)
(***************************************************************************)
THEOREM LenientTheorem == Spec => []LenientReading
<1>1. Spec => []LenientInv
  BY InitLenient, NextLenient, PTL DEF Spec
<1>2. LenientInv => LenientReading
  BY SafeLenient
<1> QED
  BY <1>1, <1>2, PTL

LEMMA AloneRead ==
  ASSUME NEW B, Marked(B), NEW h \in B, NEW args \in Seq(B), WholeObject(args),
         NEW call, IsCall(call, h, args)
  PROVE  ParseComplete("hermes", Alone(call, h)).calls = <<[name |-> Header[h], arguments |-> args]>>
<1> DEFINE a == <<"open">> \o (<<h>> \o args)
           calls == <<[name |-> Header[h], arguments |-> args]>>
           p == ReadOf(a)
           q == Push(p, <<"}">>)
           r == Push(q, <<"close">>)
<1>1. /\ p.mode = "arguments" /\ p.scan.phase = "complete" /\ p.buffer = << >>
      /\ p.status = "waits" /\ p.calls = calls
  <2>1. ReadsAlone(p, h, args)
    BY BeginningRead DEF Marked, IsCall
  <2> HIDE DEF p, a
  <2> QED
    BY <2>1 DEF ReadsAlone
<1>2. a \in Seq(B) /\ <<"}">> \in Seq(B) /\ <<"close">> \in Seq(B)
  <2>1. <<h>> \o args \in Seq(B)
    BY OneThen
  <2>2. a \in Seq(B)
    BY <2>1, OneThen DEF Marked
  <2> QED
    BY <2>2, OneIsText DEF Marked
<1>3. Alone(call, h) = (a \o <<"}">>) \o <<"close">>
  <2>1. /\ "open" \in B /\ "}" \in B /\ "close" \in B
    BY DEF Marked
  <2>2. Alone(call, h) = Framed("open", h, args, "}", "close")
    BY DEF Alone, IsCall, Framed
  <2>3. Framed("open", h, args, "}", "close") = FramedInSteps("open", h, args, "}", "close")
    <3> DEFINE s == "open"
               u == "}"
               v == "close"
    <3>1. s \in B /\ u \in B /\ v \in B
      BY <2>1
    <3> HIDE DEF s, u, v
    <3>2. Framed(s, h, args, u, v) = FramedInSteps(s, h, args, u, v)
      BY <3>1, FourParts
    <3> QED
      BY <3>2 DEF s, u, v
  <2>4. FramedInSteps("open", h, args, "}", "close") = (a \o <<"}">>) \o <<"close">>
    BY DEF FramedInSteps
  <2> QED
    BY <2>2, <2>3, <2>4
<1> HIDE DEF a, calls
<1>4. HasRead(B, p, a) /\ p \in Parsers(B) /\ p.format = "hermes" /\ Rests(p)
  <2>1. ReadOf(a \o << >>).status # "failed"
    BY <1>1, <1>2, NoText
  <2>2. << >> \in Seq(B)
    BY NoText
  <2>3. HasRead(B, p, a)
    <3> HIDE DEF p
    <3> QED
      BY <1>2, <2>1, <2>2, ReadsFirst DEF p
  <2>4. NewParser("hermes") \in Parsers(B)
    BY NewParserTyped
  <2>5. Rests(p)
    BY <1>1, <1>2, <2>4, PushRests DEF ReadOf
  <2> QED
    BY <2>3, <2>5 DEF HasRead
<1> HIDE DEF p
<1>5. /\ q.status = "waits" /\ q.mode = "arguments" /\ q.buffer # << >> /\ q.scan = p.scan /\ q.calls = p.calls
      /\ ~CutOff(q.buffer) /\ q \in Parsers(B) /\ q.format = "hermes" /\ Rests(q)
  <2>1. /\ q.status = "waits" /\ q.mode = "arguments" /\ q.buffer # << >> /\ q.scan = p.scan /\ q.calls = p.calls
        /\ ~CutOff(q.buffer)
    BY <1>1, <1>4, TokenAtEnd, ZenonT(30) DEF Marked
  <2>2. q \in Parsers(B) /\ q.format = p.format
    BY <1>2, <1>4, PushTyped
  <2>3. Rests(q)
    BY <1>2, <1>4, <2>1, PushRests
  <2> QED
    BY <1>4, <2>1, <2>2, <2>3
<1> DEFINE ab == a \o <<"}">>
<1>6. HasRead(B, q, ab) /\ ab \in Seq(B)
  <2>1. q.status # "failed"
    BY <1>5
  <2>2. HasRead(B, q, ab)
    BY <1>2, <1>4, <2>1, HasReadMore
  <2>3. ab \in Seq(B)
    BY <1>2, TextJoined
  <2> QED
    BY <2>2, <2>3
<1> HIDE DEF q, ab
<1>7. r.status = "waits" /\ r.mode = "text" /\ r.calls = q.calls
  BY <1>1, <1>5, TokenAtEnd, ZenonT(30) DEF Marked
<1> DEFINE text == ab \o <<"close">>
<1>8. r = ReadOf(text)
  <2> DEFINE end == <<"close">>
  <2>1. r = Push(q, end) /\ text = ab \o end /\ end \in Seq(B)
    BY <1>2
  <2>2. Push(q, end).status # "failed"
    BY <1>7
  <2> HIDE DEF end, r, text
  <2>3. Push(q, end) = ReadOf(ab \o end)
    BY <1>6, <2>1, <2>2, HasReadMore
  <2> QED
    BY <2>1, <2>3
<1> HIDE DEF r, text
<1>9. ReadOf(text).status # "failed" /\ ReadOf(text).mode = "text" /\ ReadOf(text).calls = calls
  BY <1>1, <1>5, <1>7, <1>8
<1>10. ParseComplete("hermes", text) = [ok |-> TRUE, calls |-> ReadOf(text).calls]
  <2>1. ParseComplete("hermes", text).ok
    BY <1>9, StrictIs
  <2> QED
    BY <2>1, StrictIs
<1>11. ParseComplete("hermes", text).calls = calls
  <2>1. \A x : [ok |-> TRUE, calls |-> x].calls = x
    OBVIOUS
  <2>2. ReadOf(text).calls = calls
    BY <1>9
  <2> QED
    BY <1>10, <2>1, <2>2
<1> QED
  BY <1>3, <1>11 DEF text, ab, calls

-----------------------------------------------------------------------------
(***************************************************************************)
(* Calls stand in the answer where they are written.                        *)
(***************************************************************************)
\* CallsStandInText for some calls.
Standing(calls) ==
  \E place \in [DOMAIN calls -> DOMAIN job.text] :
    /\ \A n \in DOMAIN calls : StandsAt(calls[n], place[n])
    /\ \A m, n \in DOMAIN calls : m < n => place[m] < place[n]

LEMMA NoneStands == Standing(<< >>)
<1> DEFINE none == << >>
<1>1. none \in [DOMAIN none -> DOMAIN job.text] /\ DOMAIN none = {}
  OBVIOUS
<1> HIDE DEF none
<1>2. Standing(none)
  BY <1>1 DEF Standing
<1> QED
  BY <1>2 DEF none

LEMMA WrittenStands ==
  ASSUME NEW B, Marked(B), job.text \in Seq(B), NEW m \in 0..Len(job.text),
         NEW call \in ParsedCalls(B), WholeObject(call.arguments),
         NEW i \in Nat \ {0}, NEW n \in 0..m, WrittenTo(Before(m), call, i, n)
  PROVE  i \in DOMAIN job.text /\ StandsAt(call, i)
<1> DEFINE text == job.text
           a == Before(m)
           args == call.arguments
<1>1. args \in Seq(B) /\ call = [name |-> call.name, arguments |-> args] /\ "object" \notin DOMAIN call
  BY DEF ParsedCalls
<1>2. Len(text) \in Nat /\ m \in Nat /\ n \in Nat /\ n <= m /\ m <= Len(text) /\ DOMAIN text = 1..Len(text)
  OBVIOUS
<1>3. Len(args) \in Nat /\ Len(args) > 0
  BY <1>1, WholeBegins
<1>4. \A x \in 1..m : a[x] = text[x]
  BY Beginning DEF Before
<1>5. PICK j \in Nat, k \in Nat : Written(a, call, i, j, k, n)
  BY DEF WrittenTo
<1>6. k + Len(args) = n + 1
  BY <1>5 DEF Written
<1>7. i < j /\ j < k
  BY <1>5 DEF Written
<1>8. /\ i \in 1..m /\ j \in 1..m /\ k \in 1..m
      /\ i \in 1..Len(text) /\ j \in (i + 1)..Len(text)
      /\ k \in (i + 2)..(Len(text) - Len(args) + 1)
      /\ k + Len(args) <= Len(text) + 1
  <2> HIDE DEF args, text
  <2> QED
    BY <1>2, <1>3, <1>5, <1>6, <1>7
<1>9. /\ a[i] = "open" /\ a[j] \in DOMAIN Header /\ Header[a[j]] = call.name
      /\ \A x \in (i + 1)..(k - 1) : x # j => a[x] = "nl"
      /\ \A x \in 1..Len(args) : args[x] = a[k + x - 1]
  BY <1>5 DEF Written
<1>10. text[i] = "open" /\ text[j] = a[j]
  BY <1>4, <1>8, <1>9
<1>11. ASSUME NEW x \in (i + 1)..(k - 1), x # j PROVE text[x] = "nl"
  <2>1. x \in 1..m
    BY <1>8
  <2> QED
    BY <1>4, <1>9, <1>11, <2>1
<1>12. SubSeq(text, k, k + Len(args) - 1) = args
  <2>1. ASSUME NEW x \in 1..Len(args) PROVE args[x] = text[k + x - 1]
    <3>1. k + x - 1 \in 1..m
      <4> HIDE DEF args
      <4> QED
        BY <1>2, <1>3, <1>5, <1>6, <1>8
    <3> QED
      BY <1>4, <1>9, <3>1
  <2>2. text \in Seq(B) /\ k \in Nat \ {0} /\ args \in Seq(B)
    BY <1>1, <1>8
  <2>3. k + Len(args) <= Len(text) + 1
    BY <1>8
  <2> HIDE DEF args, text, a
  <2>4. k \in Nat \ {0}
    BY <2>2
  <2> QED
    BY <2>1, <2>2, <2>3, <2>4, SamePart
<1>13. ParseComplete("hermes", Alone(call, text[j])).calls = <<call>>
  <2> DEFINE h == text[j]
  <2>1. h \in B /\ IsCall(call, h, args)
    <3>1. h \in B
      <4>1. j \in 1..Len(text)
        BY <1>2, <1>8
      <4>2. \A T : \A t \in Seq(T) : \A x \in 1..Len(t) : t[x] \in T
        OBVIOUS
      <4> QED
        BY <4>1, <4>2
    <3> QED
      BY <1>9, <1>10, <3>1 DEF IsCall
  <2> HIDE DEF h, args
  <2>2. ParseComplete("hermes", Alone(call, h)).calls = <<[name |-> Header[h], arguments |-> args]>>
    <3>1. WholeObject(args)
      BY DEF args
    <3> QED
      BY <1>1, <2>1, <3>1, AloneRead
  <2>3. [name |-> Header[h], arguments |-> args] = call
    BY <1>1, <2>1 DEF IsCall
  <2> QED
    BY <2>2, <2>3 DEF h
<1>14. JsonStandsAt(call, i)
  <2>1. text[j] \in DOMAIN Header /\ Header[text[j]] = call.name
    BY <1>9, <1>10
  <2> HIDE DEF a
  <2> QED
    BY <1>7, <1>8, <1>11, <1>12, <1>13, <2>1 DEF JsonStandsAt
<1> QED
  BY <1>1, <1>2, <1>8, <1>10, <1>14 DEF StandsAt

\* What a parser has read of the answer stands there, if the arguments are whole.
LEMMA ReadStands ==
  ASSUME NEW B, Marked(B), job.text \in Seq(B), NEW m \in 0..Len(job.text),
         NEW format \in {"hermes", "qwen"}, NEW calls, calls = Push(NewParser(format), Before(m)).calls,
         \A i \in 1..Len(calls) : WholeObject(calls[i].arguments)
  PROVE  Standing(calls)
<1> DEFINE a == Before(m)
           p == Push(NewParser(format), a)
<1>1. a \in Seq(B) /\ Len(a) = m
  BY Beginning DEF Before
<1>2. p \in Placed(B, a)
  BY <1>1, ReadPlaced
<1> HIDE DEF p, a
<1>3. p.calls = calls /\ calls \in Seq(ParsedCalls(B)) /\ DOMAIN calls = 1..Len(calls)
  <2>1. p \in Parsers(B) /\ p.calls = calls
    BY <1>2 DEF Placed, p, a
  <2>2. calls \in Seq(ParsedCalls(B))
    BY <2>1, ParserFields
  <2> QED
    BY <2>1, <2>2
<1>4. PICK n \in 0..m : \E place : ReadTo(a, p, place, n)
  BY <1>1, <1>2 DEF Placed
<1>5. PICK place : ReadTo(a, p, place, n)
  BY <1>4
<1>6. Places(a, calls, place, n)
  BY <1>3, <1>5 DEF ReadTo
<1>7. /\ place \in [1..Len(calls) -> 1..n]
      /\ \A c \in 1..Len(calls) : \E x \in 0..n : WrittenTo(a, calls[c], place[c], x)
      /\ \A c, d \in 1..Len(calls) : c < d => place[c] < place[d]
  BY <1>6 DEF Places
<1>8. ASSUME NEW c \in 1..Len(calls)
      PROVE  place[c] \in DOMAIN job.text /\ StandsAt(calls[c], place[c])
  <2>1. PICK x \in 0..n : WrittenTo(a, calls[c], place[c], x)
    BY <1>7
  <2>2. x \in 0..m /\ place[c] \in Nat \ {0}
    <3>1. place \in [1..Len(calls) -> 1..n]
      BY <1>7
    <3>2. place[c] \in 1..n
      BY <3>1
    <3>3. n \in Nat /\ m \in Nat /\ n <= m
      OBVIOUS
    <3> QED
      BY <3>2, <3>3
  <2>3. calls[c] \in ParsedCalls(B) /\ WholeObject(calls[c].arguments)
    BY <1>3
  <2>4. WrittenTo(Before(m), calls[c], place[c], x)
    BY <2>1 DEF a
  <2> QED
    BY <2>2, <2>3, <2>4, WrittenStands
<1>9. place \in [DOMAIN calls -> DOMAIN job.text]
  BY <1>3, <1>7, <1>8
<1> QED
  BY <1>3, <1>7, <1>8, <1>9 DEF Standing

-----------------------------------------------------------------------------
(***************************************************************************)
(* Where the calls of a GLM model stand.  A parameter's name and its value  *)
(* stand between tags (OpenTag, BetweenTags), whatever type it is read as   *)
(* (ConvertedMeans).                                                        *)
(***************************************************************************)
LEMMA TypedMeans ==
  ASSUME NEW raw, NEW type
  PROVE  AsType(raw, type) \subseteq Meanings(raw)
<1> DEFINE others == {"null", "boolean", "integer", "number", "array", "object"}
<1>1. CASE type \in others
  <2>1. AsType(raw, type) \in {AsType(raw, t) : t \in others}
    BY <1>1
  <2> HIDE DEF others
  <2>2. AsType(raw, type) \subseteq UNION {AsType(raw, t) : t \in others}
    BY <2>1
  <2> QED
    BY <2>2 DEF Meanings, others
<1>2. CASE type \notin others
  <2>1. type \notin TypeNames \ {"string"}
    BY <1>2 DEF TypeNames
  <2>2. AsType(raw, type) = {JsonString(raw)}
    BY <2>1 DEF AsType
  <2> QED
    BY <2>2 DEF Meanings
<1> QED
  BY <1>1, <1>2

\* Whatever its schema declares, a parameter is read as something that its text can mean.
LEMMA ConvertedMeans ==
  ASSUME NEW schemas, NEW f, NEW raw
  PROVE  Converted(schemas, f, raw) \in Meanings(raw)
<1> DEFINE types == IF f \in DOMAIN schemas THEN Types(schemas[f]) ELSE << >>
           first == {k \in DOMAIN types : /\ AsType(raw, types[k]) # {}
                                          /\ \A m \in DOMAIN types : m < k => AsType(raw, types[m]) = {}}
           found == UNION {AsType(raw, types[k]) : k \in first}
<1>1. Converted(schemas, f, raw) =
        IF raw = "null" THEN [kind |-> "null"]
        ELSE IF first = {} THEN JsonString(raw) ELSE CHOOSE v \in found : TRUE
  BY DEF Converted
<1>2. \A k \in first : AsType(raw, types[k]) # {}
  OBVIOUS
<1> HIDE DEF types, first
<1>3. found \subseteq Meanings(raw)
  BY TypedMeans
<1>4. first # {} => found # {}
  BY <1>2
<1> HIDE DEF found
<1>5. first # {} => (CHOOSE v \in found : TRUE) \in Meanings(raw)
  BY <1>3, <1>4
<1>6. JsonString(raw) \in Meanings(raw)
  BY DEF Meanings
<1>7. raw = "null" => [kind |-> "null"] \in Meanings(raw)
  <2>1. SUFFICES ASSUME raw = "null" PROVE [kind |-> "null"] \in Meanings(raw)
    OBVIOUS
  <2> DEFINE last == IF raw = "null" THEN {[kind |-> "null"]} ELSE {}
  <2>2. [kind |-> "null"] \in last
    BY <2>1
  <2>3. last \subseteq Meanings(raw)
    BY Zenon DEF Meanings
  <2> HIDE DEF last
  <2> QED
    BY <2>2, <2>3
<1> QED
  BY <1>1, <1>5, <1>6, <1>7

\* What an open tag holds where it is closed, in a text and in what is left of a longer one.
LEMMA BetweenTags ==
  ASSUME NEW B, NEW body \in Seq(B), NEW d \in 0..Len(body), NEW text, text = From(body, d + 1),
         NEW k \in 1..Len(text), NEW from, NEW to, NEW raw,
         OpenTag(text, from, to, k - 1, raw), text[k] = to
  PROVE  Spelled(Trimmed(raw)) \in Between(body, from, to)
<1>1. PICK m \in 1..(k - 1) : /\ text[m] = from
                              /\ raw = SubSeq(text, m + 1, k - 1)
                              /\ \A x \in (m + 1)..(k - 1) : text[x] # to
  BY DEF OpenTag
<1>2. /\ text \in Seq(B) /\ Len(text) = Len(body) - d /\ Len(body) \in Nat
      /\ \A x \in 1..Len(text) : text[x] = body[d + x]
  <2>1. Len(body) \in Nat /\ body \in Seq(B)
    OBVIOUS
  <2>2. /\ From(body, d + 1) \in Seq(B) /\ Len(From(body, d + 1)) = Len(body) - d
        /\ \A x \in 1..Len(From(body, d + 1)) : From(body, d + 1)[x] = body[d + x]
    BY LeftBehind
  <2> QED
    BY <2>1, <2>2
<1> DEFINE n == d + m
           rest == From(body, n + 1)
<1>3. n \in 1..Len(body) /\ m \in 1..Len(text) /\ k - m \in Nat \ {0}
      /\ d + (k - 1) = n + (k - m) - 1 /\ d + (m + 1) = n + 1
  <2>1. Len(text) \in Nat /\ Len(body) \in Nat /\ d \in Nat /\ k \in Nat /\ m \in Nat
        /\ k <= Len(text) /\ m >= 1 /\ m <= k - 1 /\ d + Len(text) = Len(body)
    BY <1>2
  <2> QED
    BY <2>1
<1>4. rest \in Seq(B) /\ Len(rest) = Len(body) - n /\ \A x \in 1..Len(rest) : rest[x] = body[n + x]
  <2>1. n \in 0..Len(body)
    BY <1>2, <1>3
  <2> HIDE DEF n
  <2> QED
    BY <2>1, LeftBehind
<1>5. k - m \in 1..Len(rest)
  BY <1>2, <1>4
<1>6. \A x \in 1..(k - m) : rest[x] = text[m + x]
  <2>1. \A x \in 1..(k - m) : x \in 1..Len(rest) /\ m + x \in 1..Len(text) /\ n + x = d + (m + x)
    BY <1>2, <1>5, <1>4
  <2> HIDE DEF rest, n
  <2> QED
    BY <1>2, <1>4, <2>1
<1> HIDE DEF rest
<1>7. rest[k - m] = to /\ \A x \in 1..((k - m) - 1) : rest[x] # to
  <2>1. m + (k - m) = k /\ k - m \in 1..(k - m)
    BY <1>5
  <2>2. \A x \in 1..((k - m) - 1) : x \in 1..(k - m) /\ m + x \in (m + 1)..(k - 1)
    OBVIOUS
  <2>3. rest[k - m] = text[m + (k - m)]
    BY <1>6, <2>1
  <2> QED
    BY <1>1, <1>6, <2>1, <2>2, <2>3
<1>8. First(rest, to) = k - m
  BY <1>4, <1>5, <1>7, FirstAt
<1>9. SubSeq(text, m + 1, k - 1) = SubSeq(body, n + 1, n + First(rest, to) - 1)
  <2>1. SubSeq(text, m + 1, k - 1) = SubSeq(body, d + (m + 1), d + (k - 1))
    <3>1. m + 1 \in Nat \ {0} /\ k - 1 \in Nat /\ m + 1 <= (k - 1) + 1 /\ k - 1 <= Len(text)
      BY <1>2
    <3> HIDE DEF n
    <3> QED
      BY <3>1, PartFrom
  <2> QED
    BY <1>3, <1>8, <2>1
<1>10. to \in Range(rest) /\ body[n] = from /\ n \in DOMAIN body
  <2>1. body[n] = from
    BY <1>1, <1>2, <1>3
  <2>2. to \in Range(rest)
    <3>1. DOMAIN rest = 1..Len(rest)
      BY <1>4
    <3> QED
      BY <1>5, <1>7, <3>1 DEF Range
  <2> QED
    BY <1>3, <2>1, <2>2
<1> HIDE DEF n
<1>11. n \in {x \in DOMAIN body : body[x] = from /\ to \in Range(From(body, x + 1))}
  BY <1>10 DEF rest
<1> QED
  BY <1>1, <1>9, <1>11 DEF Between, rest

\* The fields that have been read stand in the body.
FieldsStand(fields, body) ==
  \A f \in DOMAIN fields :
    /\ f \in Between(body, "<arg_key>", "</arg_key>")
    /\ \E raw \in Between(body, "<arg_value>", "</arg_value>") : fields[f] \in Meanings(raw)

\* And each of them is what its schema makes of a text that stands there.
FieldsRead(fields, schemas, body) ==
  \A f \in DOMAIN fields :
    /\ f \in Between(body, "<arg_key>", "</arg_key>")
    /\ \E raw \in Between(body, "<arg_value>", "</arg_value>") : fields[f] = Converted(schemas, f, raw)

LEMMA ReadFieldsStand ==
  ASSUME NEW fields, NEW schemas, NEW body, FieldsRead(fields, schemas, body)
  PROVE  FieldsStand(fields, body)
BY ConvertedMeans DEF FieldsStand, FieldsRead

\* How far the first k tokens of a text, which is the end of a body, have been read.
ReadSoFarOf(s, text, k, schemas, body) ==
  /\ s.at = "key" => OpenTag(text, "<arg_key>", "</arg_key>", k, s.text)
  /\ s.at = "value" => OpenTag(text, "<arg_value>", "</arg_value>", k, s.text)
  /\ s.at \in {"pair", "value"} => s.key \in Between(body, "<arg_key>", "</arg_key>")
  /\ FieldsRead(s.fields, schemas, body)

LEMMA FieldStands ==
  ASSUME NEW body, NEW fields, NEW schemas, FieldsRead(fields, schemas, body),
         NEW f \in Between(body, "<arg_key>", "</arg_key>"),
         NEW raw \in Between(body, "<arg_value>", "</arg_value>"), NEW v, v = Converted(schemas, f, raw)
  PROVE  FieldsRead(WithField(fields, f, v), schemas, body)
<1> DEFINE more == WithField(fields, f, v)
<1>1. DOMAIN more = {f} \cup DOMAIN fields /\ more[f] = v /\ \A x \in DOMAIN fields : x # f => more[x] = fields[x]
  BY DEF WithField
<1> HIDE DEF more
<1>2. FieldsRead(more, schemas, body)
  BY <1>1 DEF FieldsRead
<1> QED
  BY <1>2 DEF more

LEMMA ParameterStands ==
  ASSUME NEW B, NEW schemas, NEW body \in Seq(B), NEW d \in 0..Len(body), NEW text, text = From(body, d + 1),
         NEW k \in 1..Len(text), NEW s \in ParameterReads(B, schemas), ReadSoFarOf(s, text, k - 1, schemas, body)
  PROVE  ReadSoFarOf(ReadParameter(s, text[k], schemas), text, k, schemas, body)
<1> DEFINE t == text[k]
           q == ReadParameter(s, t, schemas)
           raw == Spelled(Trimmed(s.text))
<1> SUFFICES ReadSoFarOf(q, text, k, schemas, body)
  OBVIOUS
<1>1. text \in Seq(B)
  BY LeftBehind
<1>2. /\ s.at = "key" => OpenTag(text, "<arg_key>", "</arg_key>", k - 1, s.text)
      /\ s.at = "value" => OpenTag(text, "<arg_value>", "</arg_value>", k - 1, s.text)
      /\ s.at \in {"pair", "value"} => s.key \in Between(body, "<arg_key>", "</arg_key>")
      /\ FieldsRead(s.fields, schemas, body)
  BY Zenon DEF ReadSoFarOf
<1>3. q = IF s.at = "gap" /\ t = "<arg_key>" THEN [s EXCEPT !.at = "key", !.text = << >>]
          ELSE IF s.at = "key" /\ t = "</arg_key>" THEN KeyRead(s)
          ELSE IF s.at = "pair" /\ t = "<arg_value>" THEN [s EXCEPT !.at = "value", !.text = << >>]
          ELSE IF s.at = "value" /\ t = "</arg_value>" THEN ValueRead(s, schemas)
          ELSE IF s.at \in {"key", "value"} THEN [s EXCEPT !.text = Append(@, t)]
          ELSE IF s.at \in {"gap", "pair"} /\ t = "nl" THEN s
          ELSE [s EXCEPT !.at = "failed"]
  BY ReadParameterIs
<1>4. s = [at |-> s.at, key |-> s.key, text |-> s.text, fields |-> s.fields]
  BY DEF ParameterReads
<1>5. CASE s.at = "gap" /\ t = "<arg_key>"
  <2>1. OpenTag(text, "<arg_key>", "</arg_key>", k, << >>)
    BY <1>1, <1>5, TagOpens
  <2>2. q.at = "key" /\ q.text = << >> /\ q.fields = s.fields
    BY <1>3, <1>4, <1>5
  <2> HIDE DEF q
  <2> QED
    BY <1>2, <2>1, <2>2 DEF ReadSoFarOf
<1>6. CASE s.at = "key" /\ t = "</arg_key>"
  <2>1. raw \in Between(body, "<arg_key>", "</arg_key>")
    BY <1>2, <1>6, BetweenTags
  <2>2. q.at \in {"failed", "pair"} /\ q.key = raw /\ q.fields = s.fields
    <3>1. q = KeyRead(s)
      BY <1>3, <1>6
    <3> QED
      BY <1>4, <3>1 DEF KeyRead
  <2> HIDE DEF q, raw
  <2> QED
    BY <1>2, <2>1, <2>2 DEF ReadSoFarOf
<1>7. CASE s.at = "pair" /\ t = "<arg_value>"
  <2>1. OpenTag(text, "<arg_value>", "</arg_value>", k, << >>)
    BY <1>1, <1>7, TagOpens
  <2>2. q.at = "value" /\ q.text = << >> /\ q.fields = s.fields /\ q.key = s.key
    <3>1. q = [s EXCEPT !.at = "value", !.text = << >>]
      BY <1>3, <1>7
    <3> QED
      BY <1>4, <3>1
  <2> HIDE DEF q
  <2> QED
    BY <1>2, <1>7, <2>1, <2>2 DEF ReadSoFarOf
<1>8. CASE s.at = "value" /\ t = "</arg_value>"
  <2> DEFINE v == Converted(schemas, s.key, raw)
             more == WithField(s.fields, s.key, v)
  <2>1. raw \in Between(body, "<arg_value>", "</arg_value>")
    BY <1>2, <1>8, BetweenTags
  <2>2. v = Converted(schemas, s.key, raw)
    OBVIOUS
  <2>3. s.key \in Between(body, "<arg_key>", "</arg_key>")
    BY <1>2, <1>8
  <2>4. q.at = "gap" /\ q.fields = more
    <3>1. q = ValueRead(s, schemas)
      BY <1>3, <1>8
    <3> QED
      BY <1>4, <3>1 DEF ValueRead
  <2> HIDE DEF v, raw
  <2>5. FieldsRead(more, schemas, body)
    BY <1>2, <2>1, <2>2, <2>3, FieldStands
  <2> HIDE DEF q, more
  <2> QED
    BY <2>4, <2>5 DEF ReadSoFarOf
<1>9. CASE s.at = "key" /\ t # "</arg_key>"
  <2>1. OpenTag(text, "<arg_key>", "</arg_key>", k, Append(s.text, t))
    BY <1>1, <1>2, <1>9, TagGoesOn
  <2>2. q.at = "key" /\ q.text = Append(s.text, t) /\ q.fields = s.fields
    <3>1. q = [s EXCEPT !.text = Append(@, t)]
      BY <1>3, <1>9
    <3> QED
      BY <1>4, <1>9, <3>1
  <2> HIDE DEF q, t
  <2> QED
    BY <1>2, <2>1, <2>2 DEF ReadSoFarOf
<1>10. CASE s.at = "value" /\ t # "</arg_value>"
  <2>1. OpenTag(text, "<arg_value>", "</arg_value>", k, Append(s.text, t))
    BY <1>1, <1>2, <1>10, TagGoesOn
  <2>2. q.at = "value" /\ q.text = Append(s.text, t) /\ q.fields = s.fields /\ q.key = s.key
    <3>1. q = [s EXCEPT !.text = Append(@, t)]
      BY <1>3, <1>10
    <3> QED
      BY <1>4, <1>10, <3>1
  <2> HIDE DEF q, t
  <2> QED
    BY <1>2, <1>10, <2>1, <2>2 DEF ReadSoFarOf
<1>11. CASE /\ s.at \notin {"key", "value"}
            /\ ~(s.at = "gap" /\ t = "<arg_key>") /\ ~(s.at = "pair" /\ t = "<arg_value>")
  <2>1. q = s \/ q = [s EXCEPT !.at = "failed"]
    BY <1>3, <1>11
  <2>2. q.fields = s.fields /\ q.key = s.key /\ q.at \in {s.at, "failed"}
    BY <1>4, <2>1
  <2> HIDE DEF q, t
  <2>3. q.at \notin {"key", "value"} /\ (q.at = "pair" => s.at = "pair")
    BY <1>11, <2>2
  <2> QED
    BY <1>2, <2>2, <2>3 DEF ReadSoFarOf
<1> QED
  BY <1>5, <1>6, <1>7, <1>8, <1>9, <1>10, <1>11

\* The parameters of a call, read from the end of its body, stand there.
LEMMA ParametersStand ==
  ASSUME NEW B, NEW schemas, NEW body \in Seq(B), NEW d \in 0..Len(body), NEW text, text = From(body, d + 1)
  PROVE  FieldsRead(Parameters(text, schemas).fields, schemas, body)
<1> DEFINE none == [at |-> "gap", key |-> "", text |-> << >>, fields |-> << >>]
<1>1. text \in Seq(B) /\ Len(text) \in Nat
  <2>1. text \in Seq(B)
    BY LeftBehind
  <2> QED
    BY <2>1
<1>2. PICK iter : /\ Parameters(text, schemas) = iter[1..Len(text)]
                  /\ iter[1..0] = none
                  /\ \A k \in 1..Len(text) : iter[1..k] = ReadParameter(iter[1..(k - 1)], text[k], schemas)
                  /\ \A k \in 0..Len(text) : iter[1..k] \in ParameterReads(B, schemas)
  BY <1>1, ParametersRun
<1> DEFINE Good(k) == ReadSoFarOf(iter[1..k], text, k, schemas, body)
           S == {k \in Nat : k <= Len(text) => Good(k)}
<1>3. Good(0)
  <2>1. none.at = "gap" /\ none.fields = << >>
    OBVIOUS
  <2> HIDE DEF none
  <2>2. FieldsRead(none.fields, schemas, body)
    BY <2>1 DEF FieldsRead
  <2> QED
    BY <1>2, <2>1, <2>2 DEF ReadSoFarOf
<1> HIDE DEF none
<1>4. ASSUME NEW k \in Nat, k \in S PROVE k + 1 \in S
  <2>1. SUFFICES ASSUME k + 1 <= Len(text) PROVE Good(k + 1)
    OBVIOUS
  <2>2. k \in 0..Len(text) /\ k + 1 \in 1..Len(text) /\ (k + 1) - 1 = k
    BY <1>1, <2>1
  <2>3. Good(k)
    BY <1>4, <2>2
  <2>4. iter[1..k] \in ParameterReads(B, schemas)
    BY <1>2, <2>2
  <2>5. iter[1..(k + 1)] = ReadParameter(iter[1..k], text[k + 1], schemas)
    BY <1>2, <2>2
  <2> DEFINE s == iter[1..k]
             n == k + 1
  <2>6. s \in ParameterReads(B, schemas) /\ n \in 1..Len(text) /\ ReadSoFarOf(s, text, n - 1, schemas, body)
    BY <2>2, <2>3, <2>4
  <2> HIDE DEF s, n
  <2>7. ReadSoFarOf(ReadParameter(s, text[n], schemas), text, n, schemas, body)
    BY <2>6, ParameterStands
  <2> QED
    BY <2>5, <2>7 DEF s, n
<1>5. Nat \subseteq S
  <2>1. 0 \in S
    BY <1>3
  <2> HIDE DEF S
  <2> QED
    BY <1>4, <2>1, Induction
<1>6. Good(Len(text))
  BY <1>1, <1>5
<1> QED
  BY <1>2, <1>6 DEF ReadSoFarOf

LEMMA NameAtIs ==
  ASSUME NEW B, NEW body \in Seq(B), NEW b, b = Blanks(body), b < Len(body)
  PROVE  NameAt(body) = b + 1
<1> DEFINE I == {i \in 1..Len(body) : body[i] # "nl"}
           m == Min(I)
<1>1. Len(body) \in Nat /\ b \in 0..Len(body) /\ body[b + 1] # "nl" /\ \A i \in 1..b : body[i] = "nl"
  BY BlanksAre
<1>2. b + 1 \in I
  BY <1>1
<1>3. m \in I /\ \A i \in I : m <= i
  <2>1. I \in SUBSET Nat /\ I # {}
    BY <1>2
  <2> HIDE DEF I, Min
  <2> QED
    BY <2>1, MinNatural
<1>4. NameAt(body) = m
  BY <1>2 DEF NameAt, SelectInSeq
<1> HIDE DEF m
<1>5. m <= b + 1 /\ m \in 1..Len(body) /\ body[m] # "nl"
  BY <1>2, <1>3
<1>6. ~(m <= b)
  <2>1. m <= b => m \in 1..b
    BY <1>1, <1>5
  <2> QED
    BY <1>1, <1>5, <2>1
<1> QED
  BY <1>1, <1>4, <1>5, <1>6

\* A call stands in its body.
CallStands(call, body) ==
  /\ NameAt(body) > 0
  /\ \E n \in NameAt(body)..Len(body) : Spelled(SubSeq(body, NameAt(body), n)) = call.name
  /\ FieldsStand(call.object.fields, body)

LEMMA ReadCallStands ==
  ASSUME NEW B, NEW body \in Seq(B), NEW tools, CallOf(body, tools).ok
  PROVE  LET call == CallOf(body, tools).call
         IN  /\ "object" \in DOMAIN call /\ CallStands(call, body)
             /\ FieldsRead(call.object.fields, PropertiesOf(tools, call.name), body)
<1> DEFINE b    == Blanks(body)
           text == SkipBlanks(body)
           n    == NameLength(text)
           name == Spelled(SubSeq(text, 1, n))
           schemas == PropertiesOf(tools, name)
           fields  == Parameters(From(text, n + 1), schemas).fields
           call == CallOf(body, tools).call
<1>1. n # 0 /\ call = [name |-> name, object |-> [kind |-> "object", fields |-> fields]]
  BY CallOfIs
<1>2. b \in 0..Len(body) /\ Len(body) \in Nat
  BY BlanksAre
<1>3. text \in Seq(B) /\ Len(text) = Len(body) - b /\ text = From(body, b + 1)
  <2>1. text = From(body, b + 1)
    BY DEF SkipBlanks
  <2> HIDE DEF text, b
  <2> QED
    BY <1>2, <2>1, LeftBehind
<1> HIDE DEF b, text
<1>part. \A i \in Nat \ {0}, j \in Nat :
        i <= j + 1 /\ j <= Len(text) => SubSeq(text, i, j) = SubSeq(body, b + i, b + j)
  <2> DEFINE rest == From(body, b + 1)
  <2>1. b \in 0..Len(body)
    BY <1>2
  <2>2. \A i \in Nat \ {0}, j \in Nat :
          i <= j + 1 /\ j <= Len(rest) => SubSeq(rest, i, j) = SubSeq(body, b + i, b + j)
    BY <2>1, PartsFrom, SMTT(30)
  <2>3. text = rest
    BY <1>3
  <2> HIDE DEF rest
  <2> QED
    BY <2>2, <2>3
<1>4. n \in 1..Len(text)
  <2>1. n \in 0..Len(text)
    BY <1>3, NameLengthIs
  <2> QED
    BY <1>1, <2>1
<1> HIDE DEF n
<1>5. NameAt(body) = b + 1
  <2>1. b < Len(body)
    BY <1>2, <1>3, <1>4
  <2> QED
    BY <2>1, NameAtIs DEF b
<1>6. From(text, n + 1) = From(body, b + n + 1) /\ b + n \in 0..Len(body)
  <2>1. b + n \in 0..Len(body) /\ b + n <= Len(body)
    BY <1>2, <1>3, <1>4
  <2>2. SubSeq(text, n + 1, Len(text)) = SubSeq(body, b + (n + 1), b + Len(text))
    <3>1. n + 1 \in Nat \ {0} /\ Len(text) \in Nat /\ n + 1 <= Len(text) + 1 /\ Len(text) <= Len(text)
      BY <1>2, <1>3, <1>4
    <3> QED
      BY <1>part, <3>1
  <2>3. b + (n + 1) = b + n + 1 /\ b + Len(text) = Len(body)
    BY <1>2, <1>3, <1>4
  <2> QED
    BY <2>1, <2>2, <2>3 DEF From
<1>7. FieldsRead(fields, schemas, body)
  <2> DEFINE d == b + n
             end == From(body, d + 1)
  <2>1. d \in 0..Len(body)
    BY <1>6
  <2>2. fields = Parameters(end, schemas).fields
    BY <1>6
  <2> HIDE DEF d, schemas
  <2>3. FieldsRead(Parameters(end, schemas).fields, schemas, body)
    BY <2>1, ParametersStand
  <2> QED
    BY <2>2, <2>3
<1>8. Spelled(SubSeq(body, b + 1, b + n)) = name
  <2>1. 1 \in Nat \ {0} /\ n \in Nat /\ 1 <= n + 1 /\ n <= Len(text)
    BY <1>4
  <2>2. SubSeq(text, 1, n) = SubSeq(body, b + 1, b + n)
    BY <1>part, <2>1
  <2> QED
    BY <2>2
<1>9. b + n \in (b + 1)..Len(body) /\ b + 1 > 0
  BY <1>2, <1>3, <1>4
<1> HIDE DEF call, fields, name
<1>10. "object" \in DOMAIN call /\ call.name = name /\ call.object.fields = fields
  BY <1>1
<1>11. CallStands(call, body)
  <2>1. FieldsStand(fields, body)
    BY <1>7, ReadFieldsStand
  <2> QED
    BY <1>5, <1>8, <1>9, <1>10, <2>1 DEF CallStands
<1>12. FieldsRead(call.object.fields, PropertiesOf(tools, call.name), body)
  BY <1>7, <1>10
<1> QED
  BY <1>10, <1>11, <1>12 DEF call

\* The calls stand in the first n tokens of the answer, each behind the one before.
GlmPlaces(calls, place, n) ==
  /\ place \in [1..Len(calls) -> 1..n]
  /\ \A c \in 1..Len(calls) : StandsAt(calls[c], place[c])
  /\ \A c, d \in 1..Len(calls) : c < d => place[c] < place[d]

\* So far has a parser read the answer: a call is open at the marker read last.
GlmReadTo(p, place, n) ==
  /\ p.buffer = From(job.text, n + 1)
  /\ GlmPlaces(p.calls, place, n)
  /\ p.mode = "call" =>
       n > 0 /\ job.text[n] = "open" /\ \A c \in 1..Len(p.calls) : place[c] < n

GlmPlaced(B, tools) ==
  {p \in GlmParsers(B, tools) : \E n \in 0..Len(job.text) : \E place : GlmReadTo(p, place, n)}

\* The same calls, further on.
LEMMA GlmLater ==
  ASSUME NEW B, NEW tools, NEW p, NEW place, NEW n \in 0..Len(job.text), GlmReadTo(p, place, n),
         NEW q \in GlmParsers(B, tools), q.calls = p.calls,
         NEW m \in n..Len(job.text), q.buffer = From(job.text, m + 1),
         q.mode = "call" => (m = n /\ p.mode = "call") \/ (m > n /\ job.text[m] = "open")
  PROVE  q \in GlmPlaced(B, tools)
<1> DEFINE calls == p.calls
           l == Len(calls)
<1>1. GlmPlaces(calls, place, n)
  BY DEF GlmReadTo
<1>2. /\ place \in [1..l -> 1..n]
      /\ \A c \in 1..l : StandsAt(calls[c], place[c])
      /\ \A c, d \in 1..l : c < d => place[c] < place[d]
  BY <1>1 DEF GlmPlaces
<1> HIDE DEF l
<1>3. \A x \in 1..n : x \in 1..m
  OBVIOUS
<1>4. place \in [1..l -> 1..m]
  BY <1>2, <1>3
<1>5. GlmPlaces(calls, place, m)
  BY <1>2, <1>4 DEF GlmPlaces, l
<1>6. ASSUME q.mode = "call"
      PROVE  m > 0 /\ job.text[m] = "open" /\ \A c \in 1..l : place[c] < m
  <2>1. CASE m = n /\ p.mode = "call"
    <3>1. n > 0 /\ job.text[n] = "open" /\ \A c \in 1..l : place[c] < n
      BY <2>1 DEF GlmReadTo, l
    <3> QED
      BY <2>1, <3>1
  <2>2. CASE m > n /\ job.text[m] = "open"
    <3>1. \A x \in 1..n : x < m
      BY <2>2
    <3>2. \A c \in 1..l : place[c] < m
      BY <1>2, <3>1
    <3> QED
      BY <2>2, <3>2
  <2> QED
    BY <1>6, <2>1, <2>2
<1> HIDE DEF calls
<1>7. q.calls = calls /\ Len(calls) = l
  BY DEF calls, l
<1>8. GlmReadTo(q, place, m)
  BY <1>5, <1>6, <1>7 DEF GlmReadTo
<1>9. m \in 0..Len(job.text)
  OBVIOUS
<1> QED
  BY <1>8, <1>9 DEF GlmPlaced

\* Where a parser has read up to.
LEMMA GlmAt ==
  ASSUME NEW B, job.text \in Seq(B), NEW tools, NEW p \in GlmPlaced(B, tools)
  PROVE  /\ p \in GlmParsers(B, tools) /\ p.buffer \in Seq(B) /\ Len(job.text) \in Nat
         /\ \E n \in 0..Len(job.text) : \E place :
              GlmReadTo(p, place, n) /\ p.buffer = From(job.text, n + 1) /\ Len(p.buffer) = Len(job.text) - n
<1>1. p \in GlmParsers(B, tools) /\ p.buffer \in Seq(B)
  BY GlmFields DEF GlmPlaced
<1>2. PICK n \in 0..Len(job.text) : \E place : GlmReadTo(p, place, n)
  BY DEF GlmPlaced
<1>3. PICK place : GlmReadTo(p, place, n)
  BY <1>2
<1>4. p.buffer = From(job.text, n + 1)
  BY <1>3 DEF GlmReadTo
<1>5. Len(From(job.text, n + 1)) = Len(job.text) - n
  BY LeftBehind
<1>6. Len(job.text) \in Nat
  OBVIOUS
<1> QED
  BY <1>1, <1>3, <1>4, <1>5, <1>6

\* An event that takes k tokens off the buffer and reads no call.
LEMMA GlmTakes ==
  ASSUME NEW B, job.text \in Seq(B), NEW tools, NEW p \in GlmPlaced(B, tools),
         NEW k \in 0..Len(p.buffer),
         NEW q \in GlmParsers(B, tools), q.calls = p.calls, q.buffer = From(p.buffer, k + 1),
         q.mode = "call" => (k = 0 /\ p.mode = "call") \/ (k > 0 /\ p.buffer[k] = "open")
  PROVE  q \in GlmPlaced(B, tools)
<1> DEFINE text == job.text
<1>1. PICK n \in 0..Len(text) : \E place :
        GlmReadTo(p, place, n) /\ p.buffer = From(text, n + 1) /\ Len(p.buffer) = Len(text) - n
  BY GlmAt
<1>2. PICK place : GlmReadTo(p, place, n) /\ p.buffer = From(text, n + 1) /\ Len(p.buffer) = Len(text) - n
  BY <1>1
<1> DEFINE m == n + k
<1>3. m \in n..Len(text) /\ From(p.buffer, k + 1) = From(text, m + 1)
  <2>1. text \in Seq(B) /\ n \in 0..Len(text) /\ p.buffer = From(text, n + 1) /\ k \in 0..Len(p.buffer)
    BY <1>2
  <2> QED
    BY <2>1, FromAgain
<1>4. \A x \in 1..Len(p.buffer) : p.buffer[x] = text[n + x]
  <2>1. \A x \in 1..Len(From(text, n + 1)) : From(text, n + 1)[x] = text[n + x]
    BY LeftBehind
  <2>2. p.buffer = From(text, n + 1)
    BY <1>2
  <2> QED
    BY <2>1, <2>2
<1>5. q.mode = "call" => (m = n /\ p.mode = "call") \/ (m > n /\ text[m] = "open")
  <2>1. k > 0 => k \in 1..Len(p.buffer) /\ n + k > n
    OBVIOUS
  <2> QED
    BY <1>4, <2>1
<1> HIDE DEF m
<1>6. q.buffer = From(text, m + 1)
  BY <1>3
<1> QED
  BY <1>2, <1>3, <1>5, <1>6, GlmLater

\* All that is left is thrown away.
LEMMA GlmDrops ==
  ASSUME NEW B, job.text \in Seq(B), NEW tools, NEW p \in GlmPlaced(B, tools), p.mode # "call"
  PROVE  [p EXCEPT !.buffer = << >>] \in GlmPlaced(B, tools)
<1> DEFINE k == Len(p.buffer)
           none == << >>
           q == [p EXCEPT !.buffer = none]
<1>1. p \in GlmParsers(B, tools) /\ p.buffer \in Seq(B)
  BY GlmAt
<1>2. << >> \in Seq(B) /\ k \in 0..Len(p.buffer)
  BY <1>1
<1> HIDE DEF none
<1>3. q \in GlmParsers(B, tools) /\ q.calls = p.calls /\ q.buffer = none /\ q.mode = p.mode
  <2>1. none \in Seq(B)
    BY <1>2 DEF none
  <2> QED
    BY <1>1, <2>1, GlmWithBuffer
<1>4. From(p.buffer, k + 1) = << >>
  BY <1>1, WholeBeginning
<1> HIDE DEF k, q
<1>5. q.buffer = From(p.buffer, k + 1) /\ q.mode # "call"
  BY <1>3, <1>4 DEF none
<1>6. q \in GlmPlaced(B, tools)
  BY <1>2, <1>3, <1>5, GlmTakes
<1> QED
  BY <1>6 DEF q, none

LEMMA GlmWaits ==
  ASSUME NEW B, job.text \in Seq(B), NEW tools, NEW p \in GlmPlaced(B, tools)
  PROVE  Waits(p) \in GlmPlaced(B, tools) /\ Fails(p) \in GlmPlaced(B, tools)
<1>1. p \in GlmParsers(B, tools) /\ p.buffer \in Seq(B)
  BY GlmAt
<1>2. From(p.buffer, 1) = p.buffer
  BY <1>1, WholeBeginning
<1>3. ASSUME NEW q \in GlmParsers(B, tools), q.calls = p.calls, q.buffer = p.buffer, q.mode = p.mode
      PROVE  q \in GlmPlaced(B, tools)
  <2> DEFINE k == 0
  <2>1. k \in 0..Len(p.buffer) /\ k + 1 = 1
    BY <1>1
  <2>2. q.buffer = From(p.buffer, k + 1)
    BY <1>2, <1>3
  <2>3. q.mode = "call" => (k = 0 /\ p.mode = "call")
    BY <1>3
  <2> HIDE DEF k
  <2> QED
    BY <1>3, <2>1, <2>2, <2>3, GlmTakes
<1>4. /\ Waits(p) \in GlmParsers(B, tools) /\ Waits(p).calls = p.calls
      /\ Waits(p).buffer = p.buffer /\ Waits(p).mode = p.mode
      /\ Fails(p) \in GlmParsers(B, tools) /\ Fails(p).calls = p.calls
      /\ Fails(p).buffer = p.buffer /\ Fails(p).mode = p.mode
  BY <1>1, GlmMakes
<1> QED
  BY <1>3, <1>4

\* A marker that is the token k of the buffer begins a call.
LEMMA GlmOpens ==
  ASSUME NEW B, job.text \in Seq(B), NEW tools, NEW p \in GlmPlaced(B, tools)
  PROVE  \A k \in 1..Len(p.buffer) :
           p.buffer[k] = "open" => [p EXCEPT !.mode = "call", !.buffer = From(p.buffer, k + 1)] \in GlmPlaced(B, tools)
<1>1. p \in GlmParsers(B, tools) /\ p.buffer \in Seq(B)
  BY GlmAt
<1> TAKE k \in 1..Len(p.buffer)
<1>3. SUFFICES ASSUME p.buffer[k] = "open"
               PROVE  [p EXCEPT !.mode = "call", !.buffer = From(p.buffer, k + 1)] \in GlmPlaced(B, tools)
  OBVIOUS
<1> DEFINE text == From(p.buffer, k + 1)
           q == Opened(p, text)
<1>4. k \in 0..Len(p.buffer) /\ k > 0
  BY <1>1
<1>5. text \in Seq(B)
  BY <1>1, <1>4, LeftBehind
<1> HIDE DEF text
<1>6. q \in GlmParsers(B, tools) /\ q.calls = p.calls /\ q.buffer = text /\ q.mode = "call"
  BY <1>1, <1>5, GlmOpened
<1> HIDE DEF q
<1>7. q.buffer = From(p.buffer, k + 1)
  BY <1>6 DEF text
<1>8. q \in GlmPlaced(B, tools)
  BY <1>3, <1>4, <1>6, <1>7, GlmTakes
<1> QED
  BY <1>8 DEF q, text, Opened

LEMMA GlmTextPlaced ==
  ASSUME NEW B, job.text \in Seq(B), NEW tools, NEW p \in GlmPlaced(B, tools), p.mode # "call"
  PROVE  GlmTextEvent(p) \in GlmPlaced(B, tools)
<1> DEFINE open == First(p.buffer, "open")
           skip == From(p.buffer, open)
           q == [p EXCEPT !.buffer = skip]
<1>1. p \in GlmParsers(B, tools) /\ p.buffer \in Seq(B) /\ Len(p.buffer) \in Nat
  <2>1. p \in GlmParsers(B, tools) /\ p.buffer \in Seq(B)
    BY GlmAt
  <2> QED
    BY <2>1
<1>2. open \in 0..Len(p.buffer) /\ (open > 0 => p.buffer[open] = "open")
  BY <1>1, FirstIs
<1>3. GlmTextEvent(p) =
        IF p.buffer = << >> THEN Waits(p)
        ELSE IF open = 0 THEN [p EXCEPT !.buffer = << >>]
        ELSE IF open > 1 THEN q
        ELSE [p EXCEPT !.mode = "call", !.buffer = From(p.buffer, 2)]
  BY DEF GlmTextEvent
<1> HIDE DEF open
<1>4. ASSUME open > 1 PROVE q \in GlmPlaced(B, tools)
  <2> DEFINE k == open - 1
  <2>1. k \in 0..Len(p.buffer) /\ k + 1 = open
    BY <1>1, <1>2, <1>4
  <2>2. skip \in Seq(B)
    <3>1. From(p.buffer, k + 1) \in Seq(B)
      <4> HIDE DEF k
      <4> QED
        BY <1>1, <2>1, LeftBehind
    <3> QED
      BY <2>1, <3>1
  <2> HIDE DEF k, skip
  <2>3. q \in GlmParsers(B, tools) /\ q.calls = p.calls /\ q.buffer = skip /\ q.mode = p.mode
    BY <1>1, <2>2, GlmWithBuffer
  <2> HIDE DEF q
  <2>4. q.buffer = From(p.buffer, k + 1) /\ q.mode # "call"
    BY <2>1, <2>3 DEF skip
  <2> QED
    BY <2>1, <2>3, <2>4, GlmTakes
<1>5. ASSUME open # 0, ~(open > 1) PROVE [p EXCEPT !.mode = "call", !.buffer = From(p.buffer, 2)] \in GlmPlaced(B, tools)
  <2> DEFINE k == 1
             r == [p EXCEPT !.mode = "call", !.buffer = From(p.buffer, 2)]
  <2>1. open = 1
    BY <1>1, <1>2, <1>5
  <2>2. k \in 1..Len(p.buffer) /\ p.buffer[k] = "open" /\ k + 1 = 2
    BY <1>1, <1>2, <2>1
  <2>3. r = [p EXCEPT !.mode = "call", !.buffer = From(p.buffer, k + 1)]
    BY <2>2
  <2> HIDE DEF k, r
  <2>4. r \in GlmPlaced(B, tools)
    BY <2>2, <2>3, GlmOpens
  <2> QED
    BY <2>4 DEF r
<1>6. [p EXCEPT !.buffer = << >>] \in GlmPlaced(B, tools)
  BY GlmDrops
<1> HIDE DEF q
<1> QED
  BY <1>3, <1>4, <1>5, <1>6, GlmWaits

LEMMA AfterCallPlaced ==
  ASSUME NEW B, job.text \in Seq(B), NEW tools, NEW p \in GlmPlaced(B, tools), p.mode # "call"
  PROVE  AfterCallEvent(p) \in GlmPlaced(B, tools)
<1> DEFINE b == Blanks(p.buffer)
           rest == From(p.buffer, b + 1)
           q == [p EXCEPT !.mode = "call", !.buffer = From(rest, 2)]
<1>1. p \in GlmParsers(B, tools) /\ p.buffer \in Seq(B) /\ Len(p.buffer) \in Nat
  <2>1. p \in GlmParsers(B, tools) /\ p.buffer \in Seq(B)
    BY GlmAt
  <2> QED
    BY <2>1
<1>2. b \in 0..Len(p.buffer)
  BY <1>1, BlanksAre
<1>3. AfterCallEvent(p) =
        IF rest = << >> THEN Waits(p)
        ELSE IF rest[1] = "open" THEN q
        ELSE [p EXCEPT !.buffer = << >>]
  BY DEF AfterCallEvent, SkipBlanks
<1> HIDE DEF b
<1>4. rest \in Seq(B) /\ Len(rest) = Len(p.buffer) - b /\ \A x \in 1..Len(rest) : rest[x] = p.buffer[b + x]
  BY <1>1, <1>2, LeftBehind
<1>5. ASSUME rest # << >>, rest[1] = "open" PROVE q \in GlmPlaced(B, tools)
  <2> DEFINE k == b + 1
             one == 1
  <2>1. k \in 1..Len(p.buffer) /\ 1 \in 1..Len(rest)
    <3> HIDE DEF rest
    <3> QED
      BY <1>1, <1>2, <1>4, <1>5
  <2>2. p.buffer[k] = "open"
    <3>1. rest[1] = p.buffer[b + 1]
      BY <1>4, <2>1
    <3> QED
      BY <1>5, <3>1
  <2>3. From(rest, 2) = From(p.buffer, k + 1)
    <3>1. one \in 0..Len(rest) /\ one + 1 = 2
      BY <2>1
    <3> HIDE DEF one
    <3>2. From(rest, one + 1) = From(p.buffer, (b + one) + 1)
      <4> DEFINE r == rest
      <4>1. r = From(p.buffer, b + 1) /\ p.buffer \in Seq(B) /\ one \in 0..Len(r)
        BY <1>1, <3>1
      <4> HIDE DEF r
      <4>2. From(r, one + 1) = From(p.buffer, (b + one) + 1)
        BY <1>2, <4>1, FromAgain
      <4> QED
        BY <4>2 DEF r
    <3> QED
      BY <3>1, <3>2 DEF one
  <2>4. q = [p EXCEPT !.mode = "call", !.buffer = From(p.buffer, k + 1)]
    BY <2>3
  <2> HIDE DEF k, q
  <2> QED
    BY <2>1, <2>2, <2>4, GlmOpens
<1>6. [p EXCEPT !.buffer = << >>] \in GlmPlaced(B, tools)
  BY GlmDrops
<1> HIDE DEF q, rest
<1> QED
  BY <1>3, <1>5, <1>6, GlmWaits

LEMMA CallEventPlaced ==
  ASSUME NEW B, job.text \in Seq(B), NEW tools, NEW p \in GlmPlaced(B, tools), p.mode = "call"
  PROVE  CallEvent(p, tools) \in GlmPlaced(B, tools)
<1> DEFINE text  == job.text
           close == First(p.buffer, "close")
           body  == SubSeq(p.buffer, 1, close - 1)
           found == CallOf(body, tools)
           call  == found.call
           rest  == From(p.buffer, close + 1)
           q == WithReadCall(p, rest, call)
<1>1. p \in GlmParsers(B, tools) /\ p.buffer \in Seq(B) /\ Len(p.buffer) \in Nat /\ Len(text) \in Nat
  <2>1. p \in GlmParsers(B, tools) /\ p.buffer \in Seq(B) /\ Len(text) \in Nat
    BY GlmAt
  <2> QED
    BY <2>1
<1>2. CallEvent(p, tools) = IF close = 0 THEN Waits(p) ELSE IF ~found.ok THEN Fails(p) ELSE q
  BY DEF CallEvent, WithReadCall
<1>3. close \in 0..Len(p.buffer)
  BY <1>1, FirstIs
<1>4. ASSUME close # 0, found.ok PROVE q \in GlmPlaced(B, tools)
  <2>1. PICK n \in 0..Len(text) : \E place :
          GlmReadTo(p, place, n) /\ p.buffer = From(text, n + 1) /\ Len(p.buffer) = Len(text) - n
    BY GlmAt
  <2>2. PICK place : GlmReadTo(p, place, n) /\ p.buffer = From(text, n + 1) /\ Len(p.buffer) = Len(text) - n
    BY <2>1
  <2>3. n > 0 /\ text[n] = "open" /\ (\A c \in 1..Len(p.calls) : place[c] < n) /\ GlmPlaces(p.calls, place, n)
    BY <2>2 DEF GlmReadTo
  <2> DEFINE m == n + close
  <2>4. m \in n..Len(text) /\ rest = From(text, m + 1)
    <3>1. text \in Seq(B) /\ n \in 0..Len(text) /\ p.buffer = From(text, n + 1) /\ close \in 0..Len(p.buffer)
      BY <1>3, <2>2
    <3> HIDE DEF close
    <3> QED
      BY <3>1, FromAgain
  <2>5. body = SubSeq(text, n + 1, n + close - 1)
    <3> HIDE DEF close
    <3>1. text \in Seq(B) /\ n \in 0..Len(text) /\ p.buffer = From(text, n + 1)
      BY <2>2
    <3>2. \A k \in 1..Len(p.buffer) : SubSeq(p.buffer, 1, k - 1) = SubSeq(text, n + 1, n + k - 1)
      BY <3>1, BodyIs
    <3>3. close \in 1..Len(p.buffer)
      BY <1>1, <1>3, <1>4
    <3> QED
      BY <3>2, <3>3
  <2>6. body \in Seq(B)
    <3>1. close - 1 \in 0..Len(p.buffer)
      <4> HIDE DEF close
      <4> QED
        BY <1>1, <1>3, <1>4
    <3> HIDE DEF close
    <3> QED
      BY <1>1, <3>1, Beginning
  <2>7. First(From(text, n + 1), "close") = close
    BY <2>2
  <2> HIDE DEF close, body
  <2>8. "object" \in DOMAIN call /\ CallStands(call, body)
    BY <1>4, <2>6, ReadCallStands
  <2>9. call \in GlmCalls(B, tools)
    BY <2>6 DEF GlmCalls
  <2> HIDE DEF found, call, text
  <2>10. GlmStandsAt(call, n)
    <3>1. body = SubSeq(job.text, n + 1, n + First(From(job.text, n + 1), "close") - 1)
      BY <2>5, <2>7 DEF text
    <3> QED
      BY <2>8, <3>1 DEF GlmStandsAt, CallStands, NameAt, FieldsStand
  <2>11. StandsAt(call, n)
    BY <2>3, <2>8, <2>10 DEF StandsAt, text
  <2>12. rest \in Seq(B)
    <3> HIDE DEF rest, m
    <3>1. text \in Seq(B) /\ m \in 0..Len(text)
      <4>1. n \in Nat
        OBVIOUS
      <4> QED
        BY <1>1, <2>4, <4>1 DEF text
    <3> QED
      BY <2>4, <3>1, LeftBehind
  <2> HIDE DEF rest, m
  <2>13. q \in GlmParsers(B, tools) /\ q.calls = Append(p.calls, call) /\ q.buffer = rest /\ q.mode = "after"
    BY <1>1, <2>9, <2>12, GlmWithCall
  <2>14. p.calls \in Seq(GlmCalls(B, tools))
    BY <1>1, GlmFields
  <2> HIDE DEF q
  <2> DEFINE l == Len(p.calls)
             more == [c \in 1..(l + 1) |-> IF c = l + 1 THEN n ELSE place[c]]
             calls == Append(p.calls, call)
  <2>15. l \in Nat /\ Len(calls) = l + 1 /\ calls[l + 1] = call /\ \A c \in 1..l : calls[c] = p.calls[c]
    BY <2>14
  <2>16. /\ place \in [1..l -> 1..n]
         /\ \A c \in 1..l : StandsAt(p.calls[c], place[c])
         /\ \A c, d \in 1..l : c < d => place[c] < place[d]
    BY <2>3 DEF GlmPlaces
  <2>17. \A c \in 1..l : place[c] < n
    BY <2>3
  <2> HIDE DEF l, calls
  <2>18. GlmPlaces(calls, more, m)
    <3>1. \A c \in 1..(l + 1) : c # l + 1 => c \in 1..l
      BY <2>15
    <3>2. (\A x \in 1..n : x \in 1..m) /\ n \in 1..m
      BY <1>1, <2>3, <2>4
    <3>3. more \in [1..(l + 1) -> 1..m]
      BY <2>16, <3>1, <3>2
    <3>4. more[l + 1] = n /\ \A c \in 1..l : more[c] = place[c]
      <4>1. l + 1 \in 1..(l + 1) /\ \A c \in 1..l : c \in 1..(l + 1) /\ c # l + 1
        BY <2>15
      <4> QED
        BY <4>1
    <3> HIDE DEF more
    <3>5. \A c \in 1..(l + 1) : StandsAt(calls[c], more[c])
      BY <2>11, <2>15, <2>16, <3>1, <3>4
    <3>6. ASSUME NEW c \in 1..(l + 1), NEW d \in 1..(l + 1), c < d PROVE more[c] < more[d]
      <4>1. c \in 1..l
        BY <2>15, <3>6
      <4>2. CASE d = l + 1
        BY <2>17, <3>4, <4>1, <4>2
      <4>3. CASE d # l + 1
        <5>1. d \in 1..l
          BY <3>1, <4>3
        <5>2. more[c] = place[c] /\ more[d] = place[d]
          BY <3>4, <4>1, <5>1
        <5> QED
          BY <2>16, <3>6, <4>1, <5>1, <5>2
      <4> QED
        BY <4>2, <4>3
    <3> QED
      BY <2>15, <3>3, <3>5, <3>6 DEF GlmPlaces
  <2>19. GlmReadTo(q, more, m)
    <3> HIDE DEF more
    <3> QED
      BY <2>4, <2>13, <2>18 DEF GlmReadTo, calls, text
  <2>20. m \in 0..Len(job.text)
    BY <1>1, <2>4 DEF text
  <2> QED
    BY <2>13, <2>19, <2>20 DEF GlmPlaced
<1> HIDE DEF q, found, close
<1> QED
  BY <1>2, <1>4, GlmWaits

LEMMA GlmEventPlaced ==
  ASSUME NEW B, job.text \in Seq(B), NEW tools, NEW p \in GlmPlaced(B, tools)
  PROVE  NextGlmEvent(p, tools) \in GlmPlaced(B, tools)
<1>1. CASE p.mode = "call"
  <2>1. NextGlmEvent(p, tools) = CallEvent(p, tools)
    BY <1>1 DEF NextGlmEvent
  <2> QED
    BY <1>1, <2>1, CallEventPlaced
<1>2. CASE p.mode # "call"
  <2>1. NextGlmEvent(p, tools) \in {GlmTextEvent(p), AfterCallEvent(p)}
    BY <1>2 DEF NextGlmEvent
  <2> QED
    BY <1>2, <2>1, GlmTextPlaced, AfterCallPlaced
<1> QED
  BY <1>1, <1>2

\* What a GLM model's answer is read as stands there.
LEMMA GlmStands ==
  ASSUME NEW B, job.text \in Seq(B), NEW tools
  PROVE  Standing(ParseGlm(job.text, tools).calls)
<1> DEFINE first == [mode |-> "text", buffer |-> job.text, calls |-> << >>, status |-> "ready"]
           p == RunGlm(first, tools)
<1>1. first \in GlmParsers(B, tools) /\ first.mode = "text" /\ first.buffer = job.text /\ first.calls = << >>
  <2>1. << >> \in Seq(GlmCalls(B, tools))
    OBVIOUS
  <2> QED
    BY <2>1 DEF GlmParsers, Statuses
<1> HIDE DEF first
<1>2. first \in GlmPlaced(B, tools)
  <2> DEFINE zero == 0
             none == << >>
  <2>1. zero \in 0..Len(job.text) /\ zero + 1 = 1 /\ From(job.text, 1) = job.text
    BY WholeBeginning
  <2>2. none \in [1..Len(none) -> 1..zero] /\ 1..Len(none) = {}
    OBVIOUS
  <2> HIDE DEF zero, none
  <2>3. GlmPlaces(none, none, zero)
    BY <2>2 DEF GlmPlaces
  <2>4. GlmReadTo(first, none, zero)
    BY <1>1, <2>1, <2>3 DEF GlmReadTo, none
  <2> QED
    BY <1>1, <2>1, <2>4 DEF GlmPlaced
<1>3. p \in GlmPlaced(B, tools)
  <2>1. Len(first.buffer) \in Nat
    BY <1>1
  <2> DEFINE K == GlmPlaced(B, tools)
  <2>2. \A x \in K : NextGlmEvent(x, tools) \in K
    BY GlmEventPlaced
  <2>3. first \in K
    BY <1>2
  <2> HIDE DEF K
  <2>4. p \in K
    BY <2>1, <2>2, <2>3, RunGlmStays
  <2> QED
    BY <2>4 DEF K
<1> HIDE DEF p
<1>4. Standing(p.calls)
  <2>1. PICK n \in 0..Len(job.text) : \E place : GlmReadTo(p, place, n)
    BY <1>3 DEF GlmPlaced
  <2>2. PICK place : GlmReadTo(p, place, n)
    BY <2>1
  <2>3. GlmPlaces(p.calls, place, n)
    BY <2>2 DEF GlmReadTo
  <2> DEFINE calls == p.calls
  <2>4. /\ place \in [1..Len(calls) -> 1..n]
        /\ \A c \in 1..Len(calls) : StandsAt(calls[c], place[c])
        /\ \A c, d \in 1..Len(calls) : c < d => place[c] < place[d]
    BY <2>3 DEF GlmPlaces
  <2>5. calls \in Seq(GlmCalls(B, tools))
    <3>1. p \in GlmParsers(B, tools)
      BY <1>3 DEF GlmPlaced
    <3> QED
      BY <3>1, GlmFields
  <2> HIDE DEF calls
  <2>6. DOMAIN calls = 1..Len(calls)
    BY <2>5
  <2>7. place \in [DOMAIN calls -> DOMAIN job.text]
    <3>1. DOMAIN job.text = 1..Len(job.text) /\ \A x \in 1..n : x \in 1..Len(job.text)
      OBVIOUS
    <3> QED
      BY <2>4, <2>6, <3>1
  <2>8. Standing(calls)
    BY <2>4, <2>6, <2>7 DEF Standing
  <2> QED
    BY <2>8 DEF calls
<1>5. ParseGlm(job.text, tools) = Failure \/ ParseGlm(job.text, tools) = [ok |-> TRUE, calls |-> p.calls]
  BY DEF ParseGlm, GlmFinished, p, first
<1>6. Failure.calls = << >>
  BY DEF Failure
<1>7. ParseGlm(job.text, tools).calls \in {<< >>, p.calls}
  BY <1>5, <1>6
<1> QED
  BY <1>4, <1>7, NoneStands

-----------------------------------------------------------------------------
(***************************************************************************)
(* The calls that are kept stand in the answer, at every step.              *)
(***************************************************************************)
StandInv ==
  /\ job.format \in {"hermes", "qwen", "glm"}
  /\ Standing(native.calls)
  /\ Standing(read.calls)
  /\ Standing(result.calls)

LEMMA FailureStands == Standing(Failure.calls)
BY NoneStands, NoFailedCalls

LEMMA ValidatedStands ==
  ASSUME NEW j, NEW parsed, Standing(parsed.calls)
  PROVE  Standing(Validated(j, parsed).calls)
<1>1. Validated(j, parsed) = parsed \/ Validated(j, parsed) = Failure
  BY DEF Validated
<1> QED
  BY <1>1, FailureStands

\* The markers are in the set of tokens that the lemmas are about.
LEMMA AnswerMarked ==
  ASSUME job.text \in Seq(Tokens)
  PROVE  Marked(Tokens \cup {"open"}) /\ job.text \in Seq(Tokens \cup {"open"})
<1> DEFINE T == Tokens
           B == T \cup {"open"}
           x == job.text
<1>1. Marked(B)
  BY DEF Marked, Tokens
<1>2. x \in Seq(T) /\ T \subseteq B
  OBVIOUS
<1> HIDE DEF T, B, x
<1>3. x \in Seq(B)
  BY <1>2, LargerTexts
<1> QED
  BY <1>1, <1>3 DEF T, B, x

\* Calls with whole arguments that a parser has read stand in the text.
LEMMA WholeStand ==
  ASSUME job.text \in Seq(Tokens), NEW n \in 0..Len(job.text), NEW format \in {"hermes", "qwen"},
         NEW calls, calls = Push(NewParser(format), Before(n)).calls,
         \A i \in 1..Len(calls) : WholeObject(calls[i].arguments)
  PROVE  Standing(calls)
<1> DEFINE B == Tokens \cup {"open"}
<1>1. Marked(B) /\ job.text \in Seq(B)
  BY AnswerMarked
<1> HIDE DEF B
<1> QED
  BY <1>1, ReadStands

\* What the lenient parser has read, if it ends there.
LEMMA KeptStands ==
  ASSUME job.text \in Seq(Tokens), NEW n \in 0..Len(job.text), NEW p, HasRead(Tokens, p, Before(n))
  PROVE  /\ ArgumentsComplete(p.calls) => Standing(p.calls)
         /\ Standing(Recovered(p).calls)
<1> DEFINE a == Before(n)
           q == ReadOf(a)
           close == <<"close">>
           closed == Push(p, close)
<1>1. a \in Seq(Tokens)
  BY Beginning DEF Before
<1> HIDE DEF a
<1>2. /\ q \in Parsers(Tokens) /\ q \in Accounted(Tokens) /\ q.format = "hermes" /\ Rests(q)
      /\ q.mode = p.mode /\ q.calls = p.calls /\ p.status # "failed"
      /\ \A c \in Seq(Tokens) : Push(q, c) = Push(p, c)
  <2>1. HasRead(Tokens, p, a)
    BY DEF a
  <2> QED
    BY <1>1, <2>1, HasReadIs
<1>3. p.calls = Push(NewParser("hermes"), Before(n)).calls
  BY <1>2 DEF ReadOf, a
<1> HIDE DEF q
<1>4. (\A i \in 1..Len(p.calls) : WholeObject(p.calls[i].arguments)) => Standing(p.calls)
  BY <1>3, WholeStand
<1>5. ArgumentsComplete(p.calls) => \A i \in 1..Len(p.calls) : WholeObject(p.calls[i].arguments)
  <2>1. ArgumentsComplete(q.calls) => \A i \in 1..Len(q.calls) : WholeObject(q.calls[i].arguments)
    BY <1>2, CompleteCalls
  <2> QED
    BY <1>2, <2>1
<1>6. "close" \in Tokens /\ "}" \in Tokens /\ close \in Seq(Tokens) /\ close \in Closings
  <2>1. "close" \in Tokens /\ "}" \in Tokens
    BY DEF Tokens
  <2> QED
    BY <2>1, OneIsText DEF Closings
<1> HIDE DEF close
<1>7. CASE MayFinish(p)
  <2>1. q.mode = "text"
    BY <1>2, <1>7 DEF MayFinish
  <2>2. \A i \in 1..Len(q.calls) : WholeObject(q.calls[i].arguments)
    BY <1>2, <2>1 DEF Accounted, WholeCalls
  <2>3. Standing(p.calls)
    BY <1>2, <1>4, <2>2
  <2>4. Recovered(p).calls = p.calls
    BY <1>7 DEF Recovered
  <2> QED
    BY <2>3, <2>4
<1>8. CASE ~MayFinish(p) /\ MayFinish(closed)
  <2>1. q.mode # "text"
    BY <1>2, <1>8 DEF MayFinish
  <2>2. closed = Push(q, close)
    BY <1>2, <1>6
  <2>3. Push(q, close).status # "failed" /\ Push(q, close).mode = "text"
    BY <1>8, <2>2 DEF MayFinish
  <2>4. q.mode = "arguments" /\ q.scan.phase = "complete" /\ Push(q, close).calls = q.calls
    BY <1>2, <1>6, <2>1, <2>3, EndOfCall
  <2>5. ArgumentsComplete(q.calls)
    BY <1>2, <2>4, CompleteCalls
  <2>6. Standing(p.calls)
    BY <1>2, <1>4, <1>5, <2>5
  <2>7. Recovered(p).calls = closed.calls
    BY <1>8 DEF Recovered, close
  <2> QED
    BY <1>2, <1>4, <1>5, <2>2, <2>4, <2>6, <2>7
<1>9. CASE ~MayFinish(p) /\ ~MayFinish(closed)
  <2>1. Recovered(p) = Failure
    BY <1>9 DEF Recovered, close
  <2> QED
    BY <1>4, <1>5, <2>1, FailureStands
<1> QED
  BY <1>7, <1>8, <1>9

\* What the parser of the model's own format reads.
LEMMA NativeStands ==
  ASSUME job.text \in Seq(Tokens), job.format \in {"hermes", "qwen", "glm"}
  PROVE  Standing(ReadNatively.calls)
<1>1. CASE job.format = "glm"
  <2>1. Standing(ParseGlm(job.text, Offered(job.tools, job.choice)).calls)
    BY GlmStands
  <2> QED
    BY <1>1, <2>1 DEF ReadNatively, InGlm
<1>2. CASE job.format # "glm"
  <2> DEFINE f == job.format
             p == Push(NewParser(f), job.text)
  <2>1. f \in {"hermes", "qwen"}
    BY <1>2
  <2>2. ReadNatively = IF MayFinish(p) THEN [ok |-> TRUE, calls |-> p.calls] ELSE Failure
    BY <1>2 DEF ReadNatively, ParseComplete
  <2>3. Before(Len(job.text)) = job.text /\ Len(job.text) \in 0..Len(job.text)
    <3>1. Before(Len(job.text)) = job.text
      BY WholeBeginning DEF Before
    <3>2. Len(job.text) \in Nat
      OBVIOUS
    <3> QED
      BY <3>1, <3>2
  <2> HIDE DEF f
  <2>4. p \in Accounted(Tokens)
    BY <2>1, ReadAccounted
  <2>5. p.calls = Push(NewParser(f), Before(Len(job.text))).calls
    BY <2>3
  <2> HIDE DEF p
  <2>6. CASE MayFinish(p)
    <3>1. \A i \in 1..Len(p.calls) : WholeObject(p.calls[i].arguments)
      BY <2>4, <2>6 DEF Accounted, WholeCalls, MayFinish
    <3>2. Standing(p.calls)
      BY <2>1, <2>3, <2>5, <3>1, WholeStand
    <3> QED
      BY <2>2, <2>6, <3>2
  <2>7. CASE ~MayFinish(p)
    BY <2>2, <2>7, FailureStands
  <2> QED
    BY <2>6, <2>7
<1> QED
  BY <1>1, <1>2

LEMMA InitStand == Init => StandInv
<1> SUFFICES ASSUME Init PROVE StandInv
  OBVIOUS
<1>1. PICK jobs \in Jobs : job \in jobs
  BY DEF Init
<1>2. job.format \in {"hermes", "qwen", "glm"}
  BY <1>1, JobsAssumption
<1>3. native = Failure /\ read = Failure /\ result.calls = << >>
  BY DEF Init
<1> QED
  BY <1>2, <1>3, NoneStands, FailureStands DEF StandInv

LEMMA SameStanding ==
  ASSUME job' = job, NEW c
  PROVE  Standing(c)' <=> Standing(c)
<1>1. \A call, i : JsonStandsAt(call, i)' <=> JsonStandsAt(call, i)
  BY DEF JsonStandsAt
<1>2. \A call, i : GlmStandsAt(call, i)' <=> GlmStandsAt(call, i)
  BY DEF GlmStandsAt
<1>3. \A call, i : StandsAt(call, i)' <=> StandsAt(call, i)
  BY <1>1, <1>2 DEF StandsAt
<1> QED
  BY <1>3 DEF Standing

LEMMA NextStand == LenientInv /\ StandInv /\ [Next]_vars => StandInv'
<1> SUFFICES ASSUME LenientInv, StandInv, [Next]_vars PROVE StandInv'
  OBVIOUS
<1>1. job' = job
  BY DEF Next, vars, Refuse, AnswerPlainly, OfferTools, ParseNative, PushPiece, FinishText, Judge
<1>2. job.text \in Seq(Tokens)
  BY DEF LenientInv
<1>3. job.format \in {"hermes", "qwen", "glm"}
      /\ Standing(native.calls) /\ Standing(read.calls) /\ Standing(result.calls)
  BY DEF StandInv
<1>4. SUFFICES Standing(native'.calls) /\ Standing(read'.calls) /\ Standing(result'.calls)
  <2>1. \A c : Standing(c)' <=> Standing(c)
    BY <1>1, SameStanding
  <2> QED
    BY <1>1, <1>3, <2>1 DEF StandInv
<1>5. CASE UNCHANGED vars
  BY <1>3, <1>5 DEF vars
<1>6. CASE Refuse
  BY <1>3, <1>6, NoneStands DEF Refuse, Conclude
<1>7. CASE AnswerPlainly
  BY <1>3, <1>7, NoneStands DEF AnswerPlainly, Conclude
<1>8. CASE OfferTools
  BY <1>3, <1>8 DEF OfferTools
<1>9. CASE ParseNative
  <2>1. Standing(native'.calls)
    BY <1>2, <1>3, <1>9, NativeStands, ValidatedStands DEF ParseNative
  <2> QED
    BY <1>3, <1>9, <2>1 DEF ParseNative
<1>10. CASE PushPiece
  <2>1. PICK n \in 0..Len(job.text) : HasRead(Tokens, parser, Before(n))
    BY <1>10 DEF PushPiece, LenientInv
  <2>2. ArgumentsComplete(parser.calls) => Standing(parser.calls)
    BY <1>2, <2>1, KeptStands
  <2>3. /\ \/ read' = read
           \/ read' = IF ArgumentsComplete(parser.calls) THEN [ok |-> TRUE, calls |-> parser.calls] ELSE Failure
        /\ native' = native /\ result' = result
    BY <1>10 DEF PushPiece
  <2>4. Standing(read'.calls)
    BY <1>3, <2>2, <2>3, FailureStands
  <2> QED
    BY <1>3, <2>3, <2>4
<1>11. CASE FinishText
  <2>1. PICK n \in 0..Len(job.text) : HasRead(Tokens, parser, Before(n))
    BY <1>11 DEF FinishText, LenientInv
  <2>2. Standing(Recovered(parser).calls)
    BY <1>2, <2>1, KeptStands
  <2> QED
    BY <1>3, <1>11, <2>2 DEF FinishText
<1>12. CASE Judge
  <2>1. Standing(Judged.calls)
    <3>1. Standing(Validated(job, read).calls)
      BY <1>3, ValidatedStands
    <3> QED
      BY <1>3, <3>1 DEF Judged
  <2>2. result'.calls = << >> \/ result'.calls = Judged.calls
    BY <1>12 DEF Judge, Conclude
  <2>3. Standing(result'.calls)
    BY <2>1, <2>2, NoneStands
  <2> QED
    BY <1>3, <1>12, <2>3 DEF Judge
<1> QED
  BY <1>5, <1>6, <1>7, <1>8, <1>9, <1>10, <1>11, <1>12 DEF Next

LEMMA SafeStand == StandInv => CallsStandInText
<1> SUFFICES ASSUME StandInv, NEW calls \in {read.calls, result.calls} PROVE Standing(calls)
  BY DEF CallsStandInText, Standing
<1> QED
  BY DEF StandInv

(***************************************************************************)
(* The calls that the lenient parser reads, and those that the client gets, *)
(* stand in the model's answer, in this order, each behind a marker, with   *)
(* arguments that are an object by themselves or, in GLM's format, with the *)
(* parameters that stand there (parse_model_tool_calls and                  *)
(* LenientToolParser, tools.rs; json/mod.rs and glm_xml/mod.rs).            *)
(***************************************************************************)
THEOREM StandTheorem == Spec => []CallsStandInText
<1>1. Spec => []LenientInv
  BY InitLenient, NextLenient, PTL DEF Spec
<1>2. Spec => []StandInv
  BY <1>1, InitStand, NextStand, PTL DEF Spec
<1>3. StandInv => CallsStandInText
  BY SafeStand
<1> QED
  BY <1>2, <1>3, PTL

-----------------------------------------------------------------------------
(***************************************************************************)
(* A row of calls of a GLM model, and the types of their parameters.        *)
(***************************************************************************)
\* What comes behind a row of calls is read behind them.
LEMMA RowParsed ==
  ASSUME NEW B, NEW tools, NEW row \in Seq(B), NEW tail \in Seq(B), row # << >>,
         ParseGlm(row, tools).ok, IsRow(row, ParseGlm(row, tools).calls)
  PROVE  ParseGlm(row \o tail, tools) = Behind(tail, ParseGlm(row, tools).calls, tools)
<1> DEFINE none == << >>
           first == ParseGlm(row, tools)
           open == First(row, "open")
           N == Len(row)
           b == From(row, open + 1)
           Count(x) == Cardinality(EndsBehind(row, x))
           text == row \o tail
<1>1. N \in Nat /\ N \in 1..N /\ row[N] = "close" /\ none \in Seq(GlmCalls(B, tools)) /\ Len(none) = 0
  <2>1. N \in Nat /\ N # 0
    OBVIOUS
  <2>2. row[N] = "close"
    BY DEF IsRow, Last
  <2> QED
    BY <2>1, <2>2
<1>2. Count(0) = Len(first.calls)
  <2>1. {n \in DOMAIN row : row[n] = "close"} = EndsBehind(row, 0)
    BY DEF EndsBehind
  <2> QED
    BY <2>1 DEF IsRow
<1>3. /\ \A x \in Nat : Count(x) \in Nat
      /\ \A x, y \in Nat : x <= y => Count(y) <= Count(x)
      /\ \A x \in Nat : \A z \in 1..N : x < z /\ row[z] = "close" => Count(z) + 1 <= Count(x)
  BY EndsCount
<1>4. open \in 0..N /\ (open > 0 => row[open] = "open")
  BY FirstIs
<1> HIDE DEF Count
<1>5. first = IF open = 0 THEN AllRead(none) ELSE Outcome("call", b, none, tools)
  BY <1>1, ParseGlmIs, TextIsRead
<1>6. open # 0
  <2>1. SUFFICES ASSUME open = 0 PROVE FALSE
    OBVIOUS
  <2>2. first = AllRead(none)
    BY <1>5, <2>1
  <2>3. first.calls = none
    BY <2>2, AllReadIs
  <2> HIDE DEF first
  <2>4. 0 \in Nat /\ 0 < N /\ N \in Nat
    BY <1>1
  <2>5. Count(N) + 1 <= Count(0) /\ Count(N) \in Nat
    BY <1>1, <1>3, <2>4
  <2> QED
    BY <1>1, <1>2, <2>3, <2>5
<1>7. open \in Nat /\ open < N /\ open > 0
  <2>1. open # N
    BY <1>1, <1>4, <1>6
  <2> QED
    BY <1>1, <1>4, <1>6, <2>1
<1>8. RowRead(row, tail, open, none, tools)
  BY <1>1, <1>4, RowReads
<1>9. first = Outcome("call", b, none, tools)
  BY <1>5, <1>6
<1>10. first.ok
  OBVIOUS
<1>11. Len(first.calls) \in Nat
  BY <1>2, <1>3
<1> HIDE DEF first, open
<1>12. /\ Len(first.calls) <= Len(none) + Count(open)
       /\ Len(first.calls) = Len(none) + Count(open) =>
            Outcome("call", b \o tail, none, tools) = Behind(tail, first.calls, tools)
  BY <1>1, <1>7, <1>8, <1>9, <1>10 DEF RowRead, Count
<1>13. Count(open) <= Count(0) /\ Count(open) \in Nat
  BY <1>3, <1>7
<1>14. Len(first.calls) = Len(none) + Count(open)
  BY <1>1, <1>2, <1>11, <1>12, <1>13
<1>15. ParseGlm(text, tools) = Outcome("call", b \o tail, none, tools)
  <2>1. text \in Seq(B)
    OBVIOUS
  <2>2. First(text, "open") = open
    BY <1>7, FirstJoined DEF open
  <2>3. From(text, open + 1) = b \o tail
    <3>1. open + 1 \in 1..(N + 1)
      BY <1>7, <1>1
    <3> QED
      BY <3>1, FromJoined
  <2> HIDE DEF text, b
  <2>4. ParseGlm(text, tools) = IF First(text, "open") = 0 THEN AllRead(none)
                                ELSE Outcome("call", From(text, First(text, "open") + 1), none, tools)
    BY <1>1, <2>1, ParseGlmIs, TextIsRead
  <2> QED
    BY <1>6, <2>2, <2>3, <2>4
<1> QED
  BY <1>12, <1>14, <1>15 DEF first, text

LEMMA RowsAreRead ==
  ASSUME NEW B, NEW tools, NEW text \in Seq(B), NEW n \in 1..(Len(text) - 1)
  PROVE  LET row   == SubSeq(text, 1, n)
             rest  == SkipBlanks(From(text, n + 1))
             first == ParseGlm(row, tools)
             next  == ParseGlm(rest, tools)
         IN  first.ok /\ IsRow(row, first.calls) =>
               ParseGlm(text, tools) =
                 IF rest = << >> \/ rest[1] # "open" THEN first
                 ELSE IF next.ok /\ ("close" \in Range(rest) \/ rest = <<"open">>)
                 THEN [ok |-> TRUE, calls |-> first.calls \o next.calls]
                 ELSE Failure
<1> DEFINE row   == SubSeq(text, 1, n)
           rest  == SkipBlanks(From(text, n + 1))
           first == ParseGlm(row, tools)
           next  == ParseGlm(rest, tools)
<1> SUFFICES ASSUME first.ok, IsRow(row, first.calls)
             PROVE  ParseGlm(text, tools) =
                      IF rest = << >> \/ rest[1] # "open" THEN first
                      ELSE IF next.ok /\ ("close" \in Range(rest) \/ rest = <<"open">>)
                      THEN [ok |-> TRUE, calls |-> first.calls \o next.calls]
                      ELSE Failure
  OBVIOUS
<1> DEFINE tail == From(text, n + 1)
<1>1. n \in 0..Len(text) /\ n > 0
  OBVIOUS
<1>2. row \in Seq(B) /\ Len(row) = n /\ tail \in Seq(B) /\ text = row \o tail
  <2>1. CutOnce(B, text, n)
    BY <1>1, Cut
  <2> QED
    BY <2>1 DEF CutOnce
<1>3. row # << >>
  BY <1>1, <1>2
<1>r. rest = SkipBlanks(tail)
  OBVIOUS
<1> HIDE DEF tail, row, rest
<1>4. ParseGlm(text, tools) = Behind(tail, first.calls, tools)
  BY <1>2, <1>3, RowParsed
<1>5. rest = SkipBlanks(tail) /\ rest \in Seq(B)
  BY <1>2, <1>r, BehindBlanks
<1>6. \E calls \in Seq(GlmCalls(B, tools)) : first = AllRead(calls)
  <2> DEFINE none == << >>
  <2>1. none \in Seq(GlmCalls(B, tools))
    OBVIOUS
  <2> HIDE DEF none
  <2>2. first = Outcome("text", row, none, tools)
    BY ParseGlmIs DEF none
  <2>3. first = Failure \/ \E calls \in Seq(GlmCalls(B, tools)) : first = AllRead(calls)
    <3>1. "text" \in {"text", "call", "after"}
      OBVIOUS
    <3>2. Outcome("text", row, none, tools) = Failure
          \/ \E calls \in Seq(GlmCalls(B, tools)) : Outcome("text", row, none, tools) = AllRead(calls)
      <4>1. row \in Seq(B)
        BY <1>2
      <4>2. IsOutcome(B, tools, Outcome("text", row, none, tools))
        BY <2>1, <3>1, <4>1, OutcomeTyped
      <4> QED
        BY <4>2 DEF IsOutcome
    <3> QED
      BY <2>2, <3>2
  <2> QED
    BY <2>3, AllReadIs
<1>7. first = AllRead(first.calls) /\ first.calls \in Seq(GlmCalls(B, tools))
  BY <1>6, AllReadIs
<1> HIDE DEF first
<1>8. CASE rest = << >> \/ rest[1] # "open"
  <2>1. ~Goes(tail)
    BY <1>5, <1>8 DEF Goes
  <2> QED
    BY <1>4, <1>7, <1>8, <2>1, BehindIs
<1>9. CASE rest # << >> /\ rest[1] = "open"
  <2> DEFINE more == NextCall(tail)
  <2>1. Goes(tail) /\ more = From(rest, 2)
    BY <1>5, <1>9 DEF Goes, NextCall
  <2>2. ParseGlm(text, tools) = Outcome("call", more, first.calls, tools)
    BY <1>4, <2>1, BehindIs
  <2>3. more \in Seq(B)
    BY <1>2, <2>1, NextCallIs
  <2> HIDE DEF more
  <2>4. next = Outcome("call", more, << >>, tools) /\ (next.ok => "close" \in Range(rest) \/ rest = <<"open">>)
    BY <1>5, <1>9, <2>1, CallParsed
  <2>5. Outcome("call", more, first.calls, tools) = Added(first.calls, Outcome("call", more, << >>, tools))
    BY <1>7, <2>3, ReadsOn
  <2>6. ParseGlm(text, tools) = IF next.ok THEN AllRead(first.calls \o next.calls) ELSE Failure
    BY <2>2, <2>4, <2>5 DEF Added
  <2> QED
    BY <1>9, <2>4, <2>6 DEF AllRead
<1> QED
  BY <1>8, <1>9

\* What stands between two tags in a beginning of what is left of a text stands there too.
LEMMA BetweenPart ==
  ASSUME NEW B, NEW text \in Seq(B), NEW x \in 0..Len(text), NEW m \in 0..Len(From(text, x + 1)),
         NEW from, NEW to
  PROVE  Between(SubSeq(From(text, x + 1), 1, m), from, to) \subseteq Between(text, from, to)
<1> DEFINE rest == From(text, x + 1)
           body == SubSeq(rest, 1, m)
<1> SUFFICES ASSUME NEW raw \in Between(body, from, to) PROVE raw \in Between(text, from, to)
  OBVIOUS
<1>1. rest \in Seq(B) /\ Len(rest) \in Nat
  BY LeftBehind
<1>0. rest = From(text, x + 1) /\ m \in 0..Len(rest)
  OBVIOUS
<1> HIDE DEF rest
<1>2. body \in Seq(B) /\ Len(body) = m /\ \A k \in 1..m : body[k] = rest[k]
  BY <1>0, <1>1, Beginning
<1> HIDE DEF body
<1>3. PICK n \in DOMAIN body :
        /\ body[n] = from /\ to \in Range(From(body, n + 1))
        /\ raw = Spelled(Trimmed(SubSeq(body, n + 1, n + First(From(body, n + 1), to) - 1)))
  BY DEF Between
<1> DEFINE tail == From(body, n + 1)
           j == First(tail, to)
           k == n + j
<1>4. n \in 1..m /\ n \in 0..Len(body)
  BY <1>2
<1>5. tail \in Seq(B) /\ Len(tail) = m - n /\ \A i \in 1..Len(tail) : tail[i] = body[n + i]
  <2>1. body \in Seq(B) /\ n \in 0..Len(body)
    BY <1>2, <1>4
  <2>2. From(body, n + 1) \in Seq(B) /\ Len(From(body, n + 1)) = Len(body) - n
        /\ \A i \in 1..Len(From(body, n + 1)) : From(body, n + 1)[i] = body[n + i]
    BY <2>1, LeftBehind
  <2> QED
    BY <1>2, <2>2
<1>6. to \in Range(tail)
  BY <1>3
<1> HIDE DEF tail
<1>7. j \in 1..Len(tail) /\ tail[j] = to /\ \A i \in 1..(j - 1) : tail[i] # to
  <2>1. \E i \in 1..Len(tail) : tail[i] = to
    BY <1>5, <1>6 DEF Range
  <2>2. j \in 0..Len(tail) /\ (j = 0 <=> \A i \in 1..Len(tail) : tail[i] # to)
        /\ (j > 0 => tail[j] = to /\ \A i \in 1..(j - 1) : tail[i] # to)
    BY <1>5, FirstIs
  <2> HIDE DEF j
  <2>3. j # 0 /\ Len(tail) \in Nat
    BY <1>5, <2>1, <2>2
  <2>4. j \in 1..Len(tail) /\ j > 0
    BY <2>2, <2>3
  <2> QED
    BY <2>2, <2>4
<1> DEFINE part == SubSeq(rest, n + 1, k - 1)
<1>8. raw = Spelled(Trimmed(SubSeq(body, n + 1, k - 1)))
  <2>1. raw = Spelled(Trimmed(SubSeq(body, n + 1, n + First(From(body, n + 1), to) - 1)))
    BY <1>3
  <2>2. First(From(body, n + 1), to) = j
    BY DEF tail
  <2> HIDE DEF j
  <2>3. raw = Spelled(Trimmed(SubSeq(body, n + 1, n + j - 1)))
    BY <2>1, <2>2
  <2>4. n + j - 1 = k - 1
    BY <1>4, <1>7
  <2> QED
    BY <2>3, <2>4
<1> HIDE DEF j
<1>9. k \in 1..m /\ k \in 1..Len(rest) /\ n \in 1..(k - 1) /\ k \in Nat /\ m \in Nat
  <2>1. m \in Nat /\ m <= Len(rest) /\ Len(rest) \in Nat
    BY <1>0, <1>1
  <2>2. n \in Nat /\ n >= 1 /\ n <= m
    BY <1>4, <2>1
  <2>3. j \in Nat /\ j >= 1 /\ j <= m - n
    BY <1>5, <1>7, <2>1, <2>2
  <2> QED
    BY <2>1, <2>2, <2>3
<1>10. rest[k] = to
  BY <1>2, <1>5, <1>7, <1>9
<1>11. ASSUME NEW i \in (n + 1)..(k - 1) PROVE rest[i] # to
  <2>0. n \in Nat /\ j \in Nat /\ j <= m - n /\ Len(tail) = m - n
    BY <1>4, <1>5, <1>7, <1>9
  <2>1. i - n \in 1..(j - 1) /\ i - n \in 1..Len(tail) /\ n + (i - n) = i /\ i \in 1..m
    <3>0. m \in Nat
      BY <1>9
    <3>1. m \in Nat /\ i \in Nat /\ n + 1 <= i /\ i <= k - 1 /\ k - 1 = (n + j) - 1
      BY <2>0, <3>0
    <3> QED
      BY <2>0, <3>1
  <2>2. tail[i - n] = body[i] /\ body[i] = rest[i]
    BY <1>2, <1>5, <2>1
  <2> QED
    BY <1>7, <2>1, <2>2
<1>12. SubSeq(body, n + 1, k - 1) = part
  <2> DEFINE u == n + 1
             v == k - 1
  <2>1. u \in Nat \ {0} /\ v \in Nat /\ v <= m
    BY <1>4, <1>9
  <2> HIDE DEF u, v
  <2>2. \A i \in 1..(v - u + 1) : u + i - 1 \in 1..m
    BY <1>9, <2>1
  <2>3. \A i \in 1..(v - u + 1) : body[u + i - 1] = rest[u + i - 1]
    BY <1>2, <2>2
  <2>4. SubSeq(body, u, v) = [i \in 1..(v - u + 1) |-> body[u + i - 1]]
        /\ SubSeq(rest, u, v) = [i \in 1..(v - u + 1) |-> rest[u + i - 1]]
    BY <2>1
  <2>5. SubSeq(body, u, v) = SubSeq(rest, u, v)
    BY <2>3, <2>4
  <2> QED
    BY <2>5 DEF u, v
<1>13. OpenTag(rest, from, to, k - 1, part)
  <2>1. rest[n] = from
    BY <1>2, <1>3, <1>4
  <2> QED
    BY <1>9, <1>11, <2>1 DEF OpenTag
<1> HIDE DEF k, part
<1>14. Spelled(Trimmed(part)) \in Between(text, from, to)
  BY <1>0, <1>9, <1>10, <1>13, BetweenTags
<1> QED
  BY <1>8, <1>12, <1>14

\* A text can be read as a type if the conversion reads it as one.
LEMMA CanBeIs ==
  ASSUME NEW raw, NEW type \in TypeNames
  PROVE  CanBe(raw, type) <=> AsType(raw, type) # {}
<1> DEFINE reading == IF type \in {"object", "array"} THEN "json" ELSE type
<1>1. AsType(raw, type) =
        IF type \notin TypeNames \ {"string"} THEN {JsonString(raw)}
        ELSE IF type = "object" /\ raw = "" THEN {[kind |-> "object", fields |-> << >>]}
        ELSE IF type = "array" /\ raw = "" THEN {[kind |-> "array", items |-> << >>]}
        ELSE IF type # "null" /\ Reads(raw, reading) THEN {Readings[raw][reading]} ELSE {}
  BY DEF AsType
<1>2. CASE type = "string"
  <2>1. AsType(raw, type) = {JsonString(raw)}
    BY <1>1, <1>2
  <2> QED
    BY <1>2, <2>1 DEF CanBe
<1>3. CASE type \in {"integer", "number", "boolean"}
  <2>1. type \in TypeNames \ {"string"} /\ type # "object" /\ type # "array" /\ type # "null" /\ reading = type
    BY <1>3
  <2> HIDE DEF reading
  <2>2. AsType(raw, type) = IF Reads(raw, type) THEN {Readings[raw][type]} ELSE {}
    BY <1>1, <2>1
  <2>3. CanBe(raw, type) <=> Reads(raw, type)
    BY <1>3 DEF CanBe
  <2> QED
    BY <2>2, <2>3
<1>4. CASE type \in {"object", "array"}
  <2>1. type \in TypeNames \ {"string"} /\ type # "null" /\ reading = "json"
    BY <1>4
  <2> HIDE DEF reading
  <2>2. raw = "" => AsType(raw, type) # {}
    BY <1>1, <1>4, <2>1
  <2>3. raw # "" => AsType(raw, type) = IF Reads(raw, "json") THEN {Readings[raw]["json"]} ELSE {}
    BY <1>1, <2>1
  <2>4. CanBe(raw, type) <=> raw = "" \/ Reads(raw, "json")
    BY <1>4 DEF CanBe
  <2> QED
    BY <2>2, <2>3, <2>4
<1>5. CASE type = "null"
  <2>1. type \in TypeNames \ {"string"} /\ type # "object" /\ type # "array"
    BY <1>5
  <2>2. AsType(raw, type) = {}
    BY <1>1, <1>5, <2>1
  <2>3. ~CanBe(raw, type)
    BY <1>5 DEF CanBe
  <2> QED
    BY <2>2, <2>3
<1> QED
  BY <1>2, <1>3, <1>4, <1>5 DEF TypeNames

LEMMA ConvertedAsDeclared ==
  ASSUME NEW schemas, NEW f \in DOMAIN schemas, NEW raw
  PROVE  ReadAsDeclared(Converted(schemas, f, raw), Types(schemas[f]), raw)
<1> DEFINE types == Types(schemas[f])
           value == Converted(schemas, f, raw)
           first == {k \in DOMAIN types : /\ AsType(raw, types[k]) # {}
                                          /\ \A m \in DOMAIN types : m < k => AsType(raw, types[m]) = {}}
           values == UNION {AsType(raw, types[k]) : k \in first}
           possible == {k \in DOMAIN types : CanBe(raw, types[k])}
           leading  == {k \in possible : \A m \in possible : ~(m < k)}
<1>1. value = IF raw = "null" THEN [kind |-> "null"]
              ELSE IF first = {} THEN JsonString(raw) ELSE CHOOSE v \in values : TRUE
  BY DEF Converted
<1>2. value \in Meanings(raw)
  BY ConvertedMeans
<1> HIDE DEF types, value
<1>3. ASSUME raw # "null", Range(types) \subseteq TypeNames
      PROVE  IF leading = {} THEN value = JsonString(raw)
             ELSE \E k \in leading : types[k] \in {"object", "array"} \/ MatchesType(value, types[k])
  <2>1. \A k \in DOMAIN types : types[k] \in TypeNames
    BY <1>3 DEF Range
  <2>2. \A k \in DOMAIN types : CanBe(raw, types[k]) <=> AsType(raw, types[k]) # {}
    BY <2>1, CanBeIs
  <2>3. leading = first
    BY <2>2
  <2>4. CASE first = {}
    BY <1>1, <1>3, <2>3, <2>4
  <2>5. CASE first # {}
    <3>1. \A k \in first : k \in DOMAIN types /\ AsType(raw, types[k]) # {}
      OBVIOUS
    <3> HIDE DEF first
    <3>2. values # {}
      BY <2>5, <3>1
    <3> HIDE DEF values
    <3>3. value \in values
      BY <1>1, <1>3, <2>5, <3>2
    <3>4. PICK k \in first : value \in AsType(raw, types[k])
      BY <3>3 DEF values
    <3>5. types[k] \in {"object", "array"} \/ MatchesType(value, types[k])
      BY <2>1, <3>1, <3>4, ReadAsType
    <3> HIDE DEF leading
    <3> QED
      BY <2>3, <2>5, <3>5
  <2> QED
    BY <2>4, <2>5
<1>4. ReadAsDeclared(value, types, raw)
  BY <1>2, <1>3 DEF ReadAsDeclared
<1> QED
  BY <1>4 DEF value, types

\* The fields of a call that is read, and the texts that they are read from.
LEMMA DeclaredFields ==
  ASSUME NEW B, NEW tools, NEW text \in Seq(B), NEW call, ReadFrom(text, tools, call), NEW schemas,
         schemas = PropertiesOf(tools, call.name), NEW f \in DOMAIN call.object.fields \cap DOMAIN schemas
  PROVE  \E raw \in Between(text, "<arg_value>", "</arg_value>") :
           ReadAsDeclared(call.object.fields[f], Types(schemas[f]), raw)
<1>1. PICK x \in 0..Len(text) : /\ First(From(text, x + 1), "close") # 0
                                /\ CallOf(Body(text, x), tools).ok /\ CallOf(Body(text, x), tools).call = call
  BY DEF ReadFrom
<1> DEFINE rest == From(text, x + 1)
           m == First(rest, "close") - 1
           body == Body(text, x)
<1>2. rest \in Seq(B) /\ Len(rest) \in Nat
  BY LeftBehind
<1>3. m \in 0..Len(rest) /\ body = SubSeq(rest, 1, m)
  <2>1. First(rest, "close") \in 0..Len(rest)
    BY <1>2, FirstIs
  <2>2. First(rest, "close") # 0
    BY <1>1
  <2>3. body = SubSeq(rest, 1, m)
    BY DEF Body
  <2> HIDE DEF rest, body
  <2> QED
    BY <1>2, <2>1, <2>2, <2>3
<1> HIDE DEF m, body
<1>4. body \in Seq(B)
  <2> HIDE DEF rest
  <2> QED
    BY <1>2, <1>3, Beginning
<1>5. CallOf(body, tools).ok /\ CallOf(body, tools).call = call
  BY <1>1 DEF body
<1>6. FieldsRead(call.object.fields, schemas, body)
  BY <1>4, <1>5, ReadCallStands
<1>7. PICK raw \in Between(body, "<arg_value>", "</arg_value>") :
        call.object.fields[f] = Converted(schemas, f, raw)
  BY <1>6 DEF FieldsRead
<1>8. raw \in Between(text, "<arg_value>", "</arg_value>")
  <2>1. \A from, to : Between(SubSeq(rest, 1, m), from, to) \subseteq Between(text, from, to)
    BY <1>3, BetweenPart
  <2> QED
    BY <1>3, <1>7, <2>1
<1>9. ReadAsDeclared(call.object.fields[f], Types(schemas[f]), raw)
  BY <1>7, ConvertedAsDeclared
<1> QED
  BY <1>8, <1>9

LEMMA SafeGlm == LenientInv => GlmReading
<1> SUFFICES ASSUME LenientInv, job.format = "glm" PROVE GlmReading
  BY DEF GlmReading
<1> DEFINE tools == Offered(job.tools, job.choice)
           text == job.text
<1>1. text \in Seq(Tokens)
  BY DEF LenientInv
<1> HIDE DEF text, tools
<1>2. \A x : InGlm(x) = ParseGlm(x, tools)
  BY DEF InGlm, tools
<1>3. ReadNatively = ParseGlm(text, tools)
  BY <1>2 DEF ReadNatively, text
<1>4. \A n \in 1 .. Len(text) - 1 :
        \A row \in {SubSeq(text, 1, n)}, rest \in {SkipBlanks(From(text, n + 1))} :
          \A first \in {InGlm(row)}, next \in {InGlm(rest)} :
              first.ok /\ IsRow(row, first.calls) =>
                InGlm(text) =
                  IF rest = << >> \/ rest[1] # "open" THEN first
                  ELSE IF next.ok /\ ("close" \in Range(rest) \/ rest = <<"open">>)
                  THEN [ok |-> TRUE, calls |-> first.calls \o next.calls]
                  ELSE Failure
  <2> TAKE n \in 1 .. Len(text) - 1
  <2> TAKE row \in {SubSeq(text, 1, n)}, rest \in {SkipBlanks(From(text, n + 1))}
  <2> TAKE first \in {InGlm(row)}, next \in {InGlm(rest)}
  <2>1. /\ row = SubSeq(text, 1, n) /\ rest = SkipBlanks(From(text, n + 1))
        /\ first = ParseGlm(row, tools) /\ next = ParseGlm(rest, tools) /\ InGlm(text) = ParseGlm(text, tools)
    BY <1>2
  <2>2. LET a == SubSeq(text, 1, n)
            r == SkipBlanks(From(text, n + 1))
            c == ParseGlm(a, tools)
            d == ParseGlm(r, tools)
        IN  c.ok /\ IsRow(a, c.calls) =>
              ParseGlm(text, tools) =
                IF r = << >> \/ r[1] # "open" THEN c
                ELSE IF d.ok /\ ("close" \in Range(r) \/ r = <<"open">>)
                THEN [ok |-> TRUE, calls |-> c.calls \o d.calls]
                ELSE Failure
    BY <1>1, RowsAreRead
  <2> QED
    BY <2>1, <2>2
<1>5. \A call \in Range(ReadNatively.calls) :
        LET schemas == PropertiesOf(tools, call.name)
        IN  \A f \in DOMAIN call.object.fields \cap DOMAIN schemas :
              \E raw \in Between(text, "<arg_value>", "</arg_value>") :
                ReadAsDeclared(call.object.fields[f], Types(schemas[f]), raw)
  <2> TAKE call \in Range(ReadNatively.calls)
  <2> DEFINE schemas == PropertiesOf(tools, call.name)
  <2> SUFFICES ASSUME NEW f \in DOMAIN call.object.fields \cap DOMAIN schemas
               PROVE  \E raw \in Between(text, "<arg_value>", "</arg_value>") :
                        ReadAsDeclared(call.object.fields[f], Types(schemas[f]), raw)
    OBVIOUS
  <2>1. ReadFrom(text, tools, call)
    BY <1>1, <1>3, CallsReadFrom
  <2> QED
    BY <1>1, <2>1, DeclaredFields
<1> QED
  BY <1>4, <1>5 DEF GlmReading, text, tools

(***************************************************************************)
(* A GLM model's calls are read one by one as long as only white space is   *)
(* between them: what comes behind a row of calls is read behind them as if *)
(* it stood alone, and fails all if it cannot be read.  The value of a      *)
(* parameter of an offered function is a text between its tags, as the      *)
(* first type that its schema lists and the text can be read as             *)
(* (glm_xml/mod.rs and parameters.rs).                                      *)
(***************************************************************************)
THEOREM GlmTheorem == Spec => []GlmReading
<1>1. Spec => []LenientInv
  BY InitLenient, NextLenient, PTL DEF Spec
<1>2. LenientInv => GlmReading
  BY SafeGlm
<1> QED
  BY <1>1, <1>2, PTL

-----------------------------------------------------------------------------
(***************************************************************************)
(* The calls that are read and accepted.                                    *)
(***************************************************************************)
AllValid(j, calls) == \A n \in DOMAIN calls : ValidCall(j, calls[n])

\* Nothing is read unless the tools of the request are offered.
Offers == ~RefusesTools /\ ~IsPlain(job, job.tools, job.choice)

CallsInv ==
  /\ at \in {"native", "hermes", "judge"} \/ result.calls # << >> => Offers
  /\ AllValid(job, native.calls)
  /\ AllValid(job, result.calls)

LEMMA NoCalls ==
  ASSUME NEW j
  PROVE  Failure.calls = << >> /\ ~Failure.ok /\ AllValid(j, << >>)
BY DEF Failure, AllValid

LEMMA ValidatedIsValid ==
  ASSUME NEW j, NEW parsed
  PROVE  AllValid(j, Validated(j, parsed).calls)
<1>1. CASE parsed.ok /\ \A i \in DOMAIN parsed.calls : ValidCall(j, parsed.calls[i])
  BY <1>1 DEF Validated, AllValid
<1>2. CASE ~(parsed.ok /\ \A i \in DOMAIN parsed.calls : ValidCall(j, parsed.calls[i]))
  BY <1>2, NoCalls DEF Validated
<1> QED
  BY <1>1, <1>2

LEMMA InitCalls == Init => CallsInv
<1> SUFFICES ASSUME Init PROVE CallsInv
  OBVIOUS
<1>1. result.calls = << >> /\ native = Failure /\ at = "context"
  BY DEF Init
<1> QED
  BY <1>1, NoCalls DEF CallsInv

LEMMA NextCalls == CallsInv /\ [Next]_vars => CallsInv'
<1> SUFFICES ASSUME CallsInv, [Next]_vars PROVE CallsInv'
  OBVIOUS
<1>1. job' = job /\ Offers' = Offers
  <2>1. job' = job
    BY DEF Next, Refuse, AnswerPlainly, OfferTools, ParseNative, PushPiece, FinishText, Judge, vars
  <2> QED
    BY <2>1 DEF Offers, RefusesTools
<1>2. CASE UNCHANGED vars
  BY <1>1, <1>2 DEF CallsInv, vars
<1>3. CASE Refuse
  BY <1>1, <1>3, NoCalls DEF CallsInv, Refuse, Conclude
<1>4. CASE AnswerPlainly
  BY <1>1, <1>4, NoCalls DEF CallsInv, AnswerPlainly, Conclude
<1>5. CASE OfferTools
  BY <1>1, <1>5 DEF CallsInv, OfferTools, Offers
<1>6. CASE ParseNative
  <2>1. AllValid(job, native'.calls)
    BY <1>6, ValidatedIsValid DEF ParseNative
  <2> QED
    BY <1>1, <1>6, <2>1 DEF CallsInv, ParseNative
<1>7. CASE PushPiece
  BY <1>1, <1>7 DEF CallsInv, PushPiece
<1>8. CASE FinishText
  BY <1>1, <1>8 DEF CallsInv, FinishText
<1>9. CASE Judge
  <2>1. AllValid(job, Judged.calls)
    <3>1. AllValid(job, Validated(job, read).calls)
      BY ValidatedIsValid
    <3> QED
      BY <3>1 DEF Judged, CallsInv
  <2>2. result'.calls = << >> \/ result'.calls = Judged.calls
    BY <1>9 DEF Judge, Conclude
  <2>3. AllValid(job, result'.calls)
    BY <2>1, <2>2, NoCalls
  <2> QED
    BY <1>1, <1>9, <2>3 DEF CallsInv, Judge
<1> QED
  BY <1>2, <1>3, <1>4, <1>5, <1>6, <1>7, <1>8, <1>9 DEF Next

LEMMA SafeCalls == CallsInv => AcceptedCallsConform
<1> SUFFICES ASSUME CallsInv, NEW n \in DOMAIN result.calls
             PROVE  LET call == result.calls[n]
                    IN \E i \in DOMAIN job.tools :
                         /\ job.tools[i].name = call.name
                         /\ job.choice \in {Automatic, Required, Function(call.name)}
                         /\ Arguments(call).ok
                         /\ job.validate => Conforms(Arguments(call).value, job.tools[i].schema)
  BY DEF AcceptedCallsConform
<1> DEFINE call == result.calls[n]
<1>1. Offers /\ ValidCall(job, call)
  <2>1. result.calls # << >>
    OBVIOUS
  <2> QED
    BY <2>1 DEF CallsInv, AllValid
<1> HIDE DEF call
<1>2. PICK tool \in Offered(job.tools, job.choice) :
             /\ tool.name = call.name
             /\ Arguments(call).ok
             /\ job.validate => Valid(Arguments(call).value, tool.schema)
  BY <1>1 DEF ValidCall
<1>3. PICK i \in DOMAIN job.tools : tool = job.tools[i]
  BY <1>2 DEF Offered, Range
<1>4. job.choice \in {Automatic, Required, Function(tool.name)}
  BY <1>2 DEF Offered
<1>5. job.validate => ShapeOK(job.tools[i].schema)
  BY <1>1 DEF Offers, RefusesTools, IsRefused
<1>6. job.validate => Conforms(Arguments(call).value, tool.schema)
  BY <1>2, <1>3, <1>5, ValidConforms
<1> QED
  BY <1>2, <1>3, <1>4, <1>6 DEF call

THEOREM CallsTheorem == Spec => []AcceptedCallsConform
<1>1. CallsInv => AcceptedCallsConform
  BY SafeCalls
<1> QED
  BY <1>1, InitCalls, NextCalls, PTL DEF Spec

=============================================================================
