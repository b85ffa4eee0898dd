--------------------------- MODULE SequenceLemmas ---------------------------
(***************************************************************************)
(* Facts that several proofs rest on: least and greatest elements, what a   *)
(* property of 0 and of successors says of all naturals, and that recursion *)
(* along a sequence is well defined.                                        *)
(*                                                                         *)
(* Predicates are sets and operators are functions here, so that the facts  *)
(* are of first order.                                                      *)
(***************************************************************************)
EXTENDS SequencesExt, SequenceTheorems, FiniteSetTheorems, WellFoundedInduction, TLAPS

-----------------------------------------------------------------------------
(***************************************************************************)
(* Least and greatest elements, for what CHOOSE picks.                      *)
(***************************************************************************)
LEMMA LeastNatural ==
  ASSUME NEW T \in SUBSET Nat, T # {}
  PROVE  \E m \in T : \A k \in T : m <= k
<1>1. PICK m \in T : \A k \in T : ~(<<k, m>> \in OpToRel(<, Nat))
  BY WFMin, NatLessThanWellFounded
<1>2. \A k \in T : ~(k < m)
  BY <1>1 DEF OpToRel
<1> QED
  BY <1>2

LEMMA GreatestBounded ==
  ASSUME NEW n \in Nat, NEW T \in SUBSET (0..n), T # {}
  PROVE  \E m \in T : \A k \in T : k <= m
<1> DEFINE U == {n - k : k \in T}
<1>1. U \in SUBSET Nat /\ U # {}
  <2>1. \A k \in T : n - k \in Nat
    OBVIOUS
  <2> QED
    BY <2>1
<1>2. PICK u \in U : \A v \in U : u <= v
  BY <1>1, LeastNatural
<1>3. PICK m \in T : u = n - m
  BY <1>2
<1>4. \A k \in T : n - m <= n - k
  BY <1>2, <1>3
<1> QED
  BY <1>3, <1>4

LEMMA MaxBounded ==
  ASSUME NEW n \in Nat, NEW T \in SUBSET (0..n), T # {}
  PROVE  Max(T) \in T /\ \A k \in T : k <= Max(T)
<1>1. PICK m \in T : \A k \in T : k <= m
  BY GreatestBounded
<1> QED
  BY <1>1 DEF Max

LEMMA MinNatural ==
  ASSUME NEW T \in SUBSET Nat, T # {}
  PROVE  Min(T) \in T /\ \A k \in T : Min(T) <= k
BY LeastNatural DEF Min

LEMMA MaxOfInterval ==
  ASSUME NEW n \in Nat \ {0}
  PROVE  Max(1..n) = n /\ (1..n) \ {n} = 1..(n - 1)
<1>1. 1..n \in SUBSET (0..n) /\ 1..n # {} /\ n \in 1..n
  OBVIOUS
<1>2. Max(1..n) \in 1..n /\ \A k \in 1..n : k <= Max(1..n)
  <2> HIDE DEF Max
  <2> QED
    BY <1>1, MaxBounded
<1> QED
  BY <1>1, <1>2

-----------------------------------------------------------------------------
(***************************************************************************)
(* Induction: a set that contains 0 and the successors of its elements      *)
(* contains all naturals; one that contains n if it contains all smaller    *)
(* numbers does, too.                                                       *)
(***************************************************************************)
LEMMA Induction ==
  ASSUME NEW S, 0 \in S, \A n \in Nat : n \in S => n + 1 \in S
  PROVE  Nat \subseteq S
<1>1. SUFFICES ASSUME Nat \ S # {} PROVE FALSE
  OBVIOUS
<1>2. PICK m \in Nat \ S : \A k \in Nat \ S : m <= k
  <2>1. Nat \ S \in SUBSET Nat
    OBVIOUS
  <2> QED
    BY <1>1, <2>1, LeastNatural
<1>3. m # 0 /\ m - 1 \in Nat /\ m - 1 \in S => (m - 1) + 1 \in S
  OBVIOUS
<1> QED
  BY <1>2, <1>3

LEMMA StrongInduction ==
  ASSUME NEW S, \A n \in Nat : (\A k \in Nat : k < n => k \in S) => n \in S
  PROVE  Nat \subseteq S
<1>1. SUFFICES ASSUME Nat \ S # {} PROVE FALSE
  OBVIOUS
<1>2. PICK m \in Nat \ S : \A k \in Nat \ S : m <= k
  <2>1. Nat \ S \in SUBSET Nat
    OBVIOUS
  <2> QED
    BY <1>1, <2>1, LeastNatural
<1> QED
  BY <1>2

-----------------------------------------------------------------------------
(***************************************************************************)
(* A set that contains the empty sequence, and with a sequence all that are *)
(* longer by one element, contains all sequences.                           *)
(***************************************************************************)
LEMMA SequenceInduction ==
  ASSUME NEW B, NEW S, << >> \in S,
         \A s \in Seq(B) : \A b \in B : s \in S => Append(s, b) \in S
  PROVE  Seq(B) \subseteq S
<1> DEFINE Good(n) == \A s \in Seq(B) : Len(s) = n => s \in S
           T == {n \in Nat : Good(n)}
<1>1. 0 \in T
  OBVIOUS
<1>2. ASSUME NEW n \in Nat, n \in T PROVE n + 1 \in T
  <2>1. ASSUME NEW s \in Seq(B), Len(s) = n + 1 PROVE s \in S
    <3> DEFINE front == SubSeq(s, 1, n)
    <3>1. front \in Seq(B) /\ Len(front) = n /\ s[n + 1] \in B
      BY <2>1
    <3>2. s = Append(front, s[n + 1])
      BY <2>1, <3>1
    <3> HIDE DEF front
    <3> QED
      BY <1>2, <3>1, <3>2
  <2> QED
    BY <2>1
<1>3. Nat \subseteq T
  <2> HIDE DEF T
  <2> QED
    BY <1>1, <1>2, Induction
<1> QED
  BY <1>3

-----------------------------------------------------------------------------
(***************************************************************************)
(* A sequence in parts.                                                     *)
(***************************************************************************)
LEMMA AppendBehind ==
  ASSUME NEW B, NEW s \in Seq(B), NEW t \in Seq(B), NEW b \in B
  PROVE  s \o Append(t, b) = Append(s \o t, b)
<1>1. s \o t \in Seq(B) /\ <<b>> \in Seq(B)
  OBVIOUS
<1>2. Append(t, b) = t \o <<b>> /\ Append(s \o t, b) = (s \o t) \o <<b>>
  BY <1>1, AppendIsConcat
<1>3. (s \o t) \o <<b>> = s \o (t \o <<b>>)
  BY <1>1, ConcatAssociative
<1> QED
  BY <1>2, <1>3

LEMMA CutInTwo ==
  ASSUME NEW B, NEW s \in Seq(B), NEW n \in 1..(Len(s) + 1), NEW m \in 0..(Len(s) + 1 - n)
  PROVE  /\ SubSeq(s, n, n + m - 1) \in Seq(B) /\ SubSeq(s, n + m, Len(s)) \in Seq(B)
         /\ SubSeq(s, n, Len(s)) = SubSeq(s, n, n + m - 1) \o SubSeq(s, n + m, Len(s))
<1>0. Len(s) \in Nat /\ n \in Nat \ {0} /\ m \in Nat /\ n + m <= Len(s) + 1
  OBVIOUS
<1>1. /\ SubSeq(s, n, n + m - 1) \in Seq(B) /\ Len(SubSeq(s, n, n + m - 1)) = m
      /\ \A k \in 1..m : SubSeq(s, n, n + m - 1)[k] = s[n + k - 1]
  <2> DEFINE l == n + m - 1
  <2>1. l \in Nat /\ l <= Len(s) /\ l + 1 - n = m
    BY <1>0
  <2> HIDE DEF l
  <2>2. /\ SubSeq(s, n, l) \in Seq(B) /\ Len(SubSeq(s, n, l)) = l + 1 - n
        /\ \A k \in 1..(l + 1 - n) : SubSeq(s, n, l)[k] = s[n + k - 1]
    BY <1>0, <2>1
  <2> QED
    BY <2>1, <2>2 DEF l
<1>2. /\ SubSeq(s, n + m, Len(s)) \in Seq(B) /\ Len(SubSeq(s, n + m, Len(s))) = Len(s) + 1 - n - m
      /\ \A k \in 1..(Len(s) + 1 - n - m) : SubSeq(s, n + m, Len(s))[k] = s[n + m + k - 1]
  OBVIOUS
<1>3. /\ SubSeq(s, n, Len(s)) \in Seq(B) /\ Len(SubSeq(s, n, Len(s))) = Len(s) + 1 - n
      /\ \A k \in 1..(Len(s) + 1 - n) : SubSeq(s, n, Len(s))[k] = s[n + k - 1]
  OBVIOUS
<1> DEFINE a == SubSeq(s, n, n + m - 1)
           b == SubSeq(s, n + m, Len(s))
           c == SubSeq(s, n, Len(s))
<1>a. a \in Seq(B) /\ Len(a) = m /\ \A k \in 1..m : a[k] = s[n + k - 1]
  BY <1>1
<1>b. /\ b \in Seq(B) /\ Len(b) = Len(s) + 1 - n - m
      /\ \A k \in 1..(Len(s) + 1 - n - m) : b[k] = s[n + m + k - 1]
  BY <1>2
<1>c. c \in Seq(B) /\ Len(c) = Len(s) + 1 - n /\ \A k \in 1..(Len(s) + 1 - n) : c[k] = s[n + k - 1]
  BY <1>3
<1> HIDE DEF a, b, c
<1>4. /\ a \o b \in Seq(B) /\ Len(a \o b) = Len(c)
      /\ \A k \in 1..Len(c) : (a \o b)[k] = IF k <= m THEN a[k] ELSE b[k - m]
  <2>1. Len(a) + Len(b) = Len(c)
    BY <1>0, <1>a, <1>b, <1>c
  <2> QED
    BY <1>a, <1>b, <2>1, ConcatProperties
<1>5. ASSUME NEW k \in 1..Len(c) PROVE (a \o b)[k] = c[k]
  <2>0. k \in 1..(Len(s) + 1 - n) /\ c[k] = s[n + k - 1]
    BY <1>c
  <2>1. CASE k <= m
    <3>1. k \in 1..m
      BY <1>0, <2>0, <2>1
    <3> QED
      BY <1>4, <1>a, <2>0, <2>1, <3>1
  <2>2. CASE ~(k <= m)
    <3>1. k - m \in 1..(Len(s) + 1 - n - m) /\ n + m + (k - m) - 1 = n + k - 1
      BY <1>0, <2>0, <2>2
    <3>2. b[k - m] = s[n + m + (k - m) - 1]
      BY <1>b, <3>1
    <3> QED
      BY <1>4, <2>0, <2>2, <3>1, <3>2
  <2> QED
    BY <2>1, <2>2
<1>6. a \o b = c
  BY <1>4, <1>5, <1>c, SeqEqual
<1> QED
  BY <1>1, <1>2, <1>6 DEF a, b, c

\* What stands in two sequences joined stands in one of them.
LEMMA JoinedParts ==
  ASSUME NEW B, NEW s \in Seq(B), NEW t \in Seq(B), NEW k \in DOMAIN (s \o t)
  PROVE  \/ k \in DOMAIN s /\ (s \o t)[k] = s[k]
         \/ \E j \in DOMAIN t : (s \o t)[k] = t[j]
<1>1. /\ s \o t \in Seq(B) /\ Len(s \o t) = Len(s) + Len(t)
      /\ (s \o t)[k] = IF k <= Len(s) THEN s[k] ELSE t[k - Len(s)]
  BY ConcatProperties
<1>2. /\ DOMAIN s = 1..Len(s) /\ DOMAIN t = 1..Len(t) /\ k \in 1..(Len(s) + Len(t))
      /\ Len(s) \in Nat /\ Len(t) \in Nat
  BY <1>1
<1>3. CASE k <= Len(s)
  BY <1>1, <1>2, <1>3
<1>4. CASE ~(k <= Len(s))
  <2>1. k - Len(s) \in DOMAIN t
    BY <1>2, <1>4
  <2> QED
    BY <1>1, <1>4, <2>1
<1> QED
  BY <1>3, <1>4

\* The m-th element of the second of two sequences joined.
LEMMA JoinedBehind ==
  ASSUME NEW B, NEW s \in Seq(B), NEW t \in Seq(B), NEW m \in 1..Len(t)
  PROVE  (s \o t)[Len(s) + m] = t[m]
<1>1. Len(s) \in Nat /\ Len(t) \in Nat
  OBVIOUS
<1>2. Len(s) + m \in 1..(Len(s) + Len(t)) /\ ~(Len(s) + m <= Len(s)) /\ Len(s) + m - Len(s) = m
  BY <1>1
<1>3. \A i \in 1..(Len(s) + Len(t)) : (s \o t)[i] = IF i <= Len(s) THEN s[i] ELSE t[i - Len(s)]
  BY ConcatProperties
<1> QED
  BY <1>2, <1>3

LEMMA ConcatIsPrefix ==
  ASSUME NEW B, NEW s \in Seq(B), NEW t \in Seq(B)
  PROVE  IsPrefix(s, s \o t)
<1>1. s \o t \in Seq(B) /\ Len(s \o t) = Len(s) + Len(t)
  OBVIOUS
<1>2. SubSeq(s, 1, Len(s)) = s /\ SubSeq(s \o t, 1, Len(s)) = s
  OBVIOUS
<1> QED
  BY <1>1, <1>2 DEF IsPrefix

-----------------------------------------------------------------------------
(***************************************************************************)
(* FoldLeft goes through the sets of the indexes that are left, the         *)
(* greatest first.  step[k] is what element k does to a value of T: there   *)
(* is a function that takes these steps.                                    *)
(***************************************************************************)
TakesSteps(iter, step, base, n) ==
  \A s \in SUBSET (1..n) :
    iter[s] = IF s = {} THEN base ELSE step[Max(s)][iter[s \ {Max(s)}]]

LEMMA FoldExists ==
  ASSUME NEW T, NEW base \in T, NEW n \in Nat, NEW step \in [1..n -> [T -> T]]
  PROVE  \E iter \in [SUBSET (1..n) -> T] : TakesSteps(iter, step, base, n)
<1> DEFINE Folds(iter, m) ==
             \A s \in SUBSET (1..m) :
               iter[s] = IF s = {} THEN base ELSE step[Max(s)][iter[s \ {Max(s)}]]
           Some(m) == \E iter \in [SUBSET (1..m) -> T] : Folds(iter, m)
           S == {m \in Nat : m <= n => Some(m)}
<1>1. 0 \in S
  <2> DEFINE iter == [s \in SUBSET (1..0) |-> base]
  <2>1. 1..0 = {} /\ SUBSET (1..0) = {{}}
    OBVIOUS
  <2>2. iter \in [SUBSET (1..0) -> T] /\ Folds(iter, 0)
    BY <2>1
  <2>3. Some(0)
    BY <2>2
  <2> HIDE DEF Some
  <2> QED
    BY <2>3
<1>2. ASSUME NEW m \in Nat, m \in S PROVE m + 1 \in S
  <2>1. SUFFICES ASSUME m + 1 <= n PROVE Some(m + 1)
    <3> HIDE DEF Some
    <3> QED
      OBVIOUS
  <2>2. PICK old \in [SUBSET (1..m) -> T] : Folds(old, m)
    <3>1. Some(m)
      <4> HIDE DEF Some
      <4> QED
        BY <1>2, <2>1
    <3> QED
      BY <3>1
  <2> DEFINE iter == [s \in SUBSET (1..(m + 1)) |->
                        IF m + 1 \in s THEN step[m + 1][old[s \ {m + 1}]] ELSE old[s]]
  <2>3. ASSUME NEW s \in SUBSET (1..(m + 1))
        PROVE  /\ s \ {m + 1} \in SUBSET (1..m)
               /\ m + 1 \in s => Max(s) = m + 1
               /\ m + 1 \notin s => s \in SUBSET (1..m)
               /\ s # {} => Max(s) \in s
    <3>1. s \in SUBSET (0..(m + 1))
      OBVIOUS
    <3>2. ASSUME s # {} PROVE Max(s) \in s /\ \A k \in s : k <= Max(s)
      <4>1. m + 1 \in Nat
        OBVIOUS
      <4> QED
        BY <3>1, <3>2, <4>1, MaxBounded
    <3>3. s \ {m + 1} \in SUBSET (1..m) /\ (m + 1 \notin s => s \in SUBSET (1..m))
      OBVIOUS
    <3>4. ASSUME m + 1 \in s PROVE Max(s) = m + 1
      <4>1. Max(s) \in s /\ m + 1 <= Max(s)
        BY <3>2, <3>4
      <4>2. ASSUME NEW k \in s PROVE k \in Int /\ k <= m + 1
        OBVIOUS
      <4>3. Max(s) \in Int /\ Max(s) <= m + 1
        BY <4>1, <4>2
      <4> QED
        BY <4>1, <4>3
    <3> QED
      BY <3>2, <3>3, <3>4
  <2>4. m + 1 \in 1..n /\ step[m + 1] \in [T -> T]
    BY <2>1
  <2>5. iter \in [SUBSET (1..(m + 1)) -> T]
    BY <2>3, <2>4
  <2>6. ASSUME NEW s \in SUBSET (1..(m + 1))
        PROVE  iter[s] = IF s = {} THEN base ELSE step[Max(s)][iter[s \ {Max(s)}]]
    <3>1. CASE m + 1 \in s
      <4>1. Max(s) = m + 1 /\ s \ {m + 1} \in SUBSET (1..m) /\ s \ {m + 1} \in SUBSET (1..(m + 1))
        BY <2>3, <3>1
      <4>2. iter[s \ {m + 1}] = old[s \ {m + 1}]
        BY <4>1
      <4> QED
        BY <3>1, <4>1, <4>2
    <3>2. CASE m + 1 \notin s
      <4>1. s \in SUBSET (1..m) /\ iter[s] = old[s]
        BY <2>3, <3>2
      <4>2. s # {} => /\ s \ {Max(s)} \in SUBSET (1..m) /\ s \ {Max(s)} \in SUBSET (1..(m + 1))
                      /\ m + 1 \notin s \ {Max(s)}
        BY <4>1, <3>2
      <4>3. s # {} => iter[s \ {Max(s)}] = old[s \ {Max(s)}]
        BY <4>2
      <4> QED
        BY <2>2, <4>1, <4>3
    <3> QED
      BY <3>1, <3>2
  <2> QED
    BY <2>5, <2>6
<1>3. n \in S
  <2> HIDE DEF S
  <2> QED
    BY <1>1, <1>2, Induction
<1>4. Some(n)
  <2> HIDE DEF Some
  <2> QED
    BY <1>3
<1> QED
  BY <1>4 DEF TakesSteps

\* One step adds the last element of a beginning.
LEMMA Beginnings ==
  ASSUME NEW n \in Nat
  PROVE  /\ 1..0 = {} /\ 1..0 \in SUBSET (1..n)
         /\ \A k \in 1..n : /\ 1..k \in SUBSET (1..n) /\ 1..k # {}
                            /\ Max(1..k) = k /\ (1..k) \ {Max(1..k)} = 1..(k - 1)
<1>0. 1..0 = {} /\ 1..0 \in SUBSET (1..n)
  OBVIOUS
<1> SUFFICES ASSUME NEW k \in 1..n
             PROVE  /\ 1..k \in SUBSET (1..n) /\ 1..k # {}
                    /\ Max(1..k) = k /\ (1..k) \ {Max(1..k)} = 1..(k - 1)
  BY <1>0
<1>1. Max(1..k) = k /\ (1..k) \ {k} = 1..(k - 1)
  BY MaxOfInterval
<1>2. k \in 1..k
  OBVIOUS
<1> HIDE DEF Max
<1> QED
  BY <1>1, <1>2

\* What each step keeps holds of the value on every beginning.
LEMMA RunTyped ==
  ASSUME NEW T, NEW n \in Nat, NEW a, a[1..0] \in T,
         \A k \in 1..n : a[1..(k - 1)] \in T => a[1..k] \in T
  PROVE  \A k \in 0..n : a[1..k] \in T
<1> DEFINE Good(m) == a[1..m] \in T
           S == {m \in Nat : m <= n => Good(m)}
<1>1. 0 \in S
  OBVIOUS
<1>2. ASSUME NEW m \in Nat, m \in S PROVE m + 1 \in S
  <2>1. SUFFICES ASSUME m + 1 <= n PROVE Good(m + 1)
    <3> HIDE DEF Good
    <3> QED
      OBVIOUS
  <2>2. Good(m)
    <3> HIDE DEF Good
    <3> QED
      BY <1>2, <2>1
  <2>3. m + 1 \in 1..n /\ (m + 1) - 1 = m
    BY <2>1
  <2> QED
    BY <2>2, <2>3
<1>3. Nat \subseteq S
  <2> HIDE DEF S
  <2> QED
    BY <1>1, <1>2, Induction
<1>4. \A m \in 0..n : Good(m)
  <2> HIDE DEF Good
  <2> QED
    BY <1>3
<1> QED
  BY <1>4

\* Two functions that take the same steps have the same values on beginnings.
Agree(a, b, k) == a[1..k] = b[1..k]

LEMMA SameRuns ==
  ASSUME NEW n \in Nat, NEW a, NEW b, Agree(a, b, 0),
         \A k \in 1..n : Agree(a, b, k - 1) => Agree(a, b, k)
  PROVE  \A k \in 0..n : Agree(a, b, k)
<1> DEFINE Same(m) == Agree(a, b, m)
           S == {m \in Nat : m <= n => Same(m)}
<1>1. 0 \in S
  OBVIOUS
<1>2. ASSUME NEW m \in Nat, m \in S PROVE m + 1 \in S
  <2>1. SUFFICES ASSUME m + 1 <= n PROVE Same(m + 1)
    <3> HIDE DEF Same
    <3> QED
      OBVIOUS
  <2>2. Same(m)
    <3> HIDE DEF Same
    <3> QED
      BY <1>2, <2>1
  <2>3. m + 1 \in 1..n /\ (m + 1) - 1 = m
    BY <2>1
  <2> QED
    BY <2>2, <2>3
<1>3. Nat \subseteq S
  <2> HIDE DEF S
  <2> QED
    BY <1>1, <1>2, Induction
<1>4. \A m \in 0..n : m \in S
  <2> HIDE DEF S
  <2> QED
    BY <1>3
<1> QED
  BY <1>4

-----------------------------------------------------------------------------
(***************************************************************************)
(* A value to begin with and a step for each number make an infinite        *)
(* sequence of values, and only one.                                        *)
(***************************************************************************)
Follows(f, base, step, n) ==
  f[0] = base /\ \A k \in 1..n : f[k] = step[k][f[k - 1]]

LEMMA FollowsOnce ==
  ASSUME NEW base, NEW step, NEW n \in Nat, NEW f, NEW g,
         Follows(f, base, step, n), Follows(g, base, step, n)
  PROVE  \A k \in 0..n : f[k] = g[k]
<1> DEFINE S == {k \in Nat : k <= n => f[k] = g[k]}
<1>1. 0 \in S
  BY DEF Follows
<1>2. ASSUME NEW k \in Nat, k \in S PROVE k + 1 \in S
  <2>1. SUFFICES ASSUME k + 1 <= n PROVE f[k + 1] = g[k + 1]
    OBVIOUS
  <2>2. k + 1 \in 1..n /\ (k + 1) - 1 = k /\ f[k] = g[k]
    BY <1>2, <2>1
  <2>3. f[k + 1] = step[k + 1][f[(k + 1) - 1]] /\ g[k + 1] = step[k + 1][g[(k + 1) - 1]]
    BY <2>2 DEF Follows
  <2> QED
    BY <2>2, <2>3
<1>3. Nat \subseteq S
  <2> HIDE DEF S
  <2> QED
    BY <1>1, <1>2, Induction
<1> QED
  BY <1>3

Iterates(f, base, step) ==
  f[0] = base /\ \A n \in Nat : f[n + 1] = step[n + 1][f[n]]

LEMMA IterationExists ==
  ASSUME NEW T, NEW base \in T, NEW step \in [Nat -> [T -> T]]
  PROVE  \E f \in [Nat -> T] : Iterates(f, base, step)
<1> DEFINE Some(n) == \E f \in [0..n -> T] : Follows(f, base, step, n)
           S == {n \in Nat : Some(n)}
<1>1. 0 \in S
  <2>1. [k \in 0..0 |-> base] \in [0..0 -> T] /\ Follows([k \in 0..0 |-> base], base, step, 0)
    BY DEF Follows
  <2> QED
    BY <2>1
<1>2. ASSUME NEW n \in Nat, n \in S PROVE n + 1 \in S
  <2>1. PICK f \in [0..n -> T] : Follows(f, base, step, n)
    BY <1>2
  <2> DEFINE g == [k \in 0..(n + 1) |-> IF k = n + 1 THEN step[n + 1][f[n]] ELSE f[k]]
  <2>2. g \in [0..(n + 1) -> T]
    OBVIOUS
  <2>3. ASSUME NEW k \in 1..(n + 1) PROVE g[k] = step[k][g[k - 1]]
    <3>1. k - 1 \in 0..n /\ g[k - 1] = f[k - 1]
      OBVIOUS
    <3>2. CASE k = n + 1
      BY <3>1, <3>2
    <3>3. CASE k # n + 1
      <4>1. k \in 1..n /\ g[k] = f[k]
        BY <3>3
      <4> QED
        BY <2>1, <3>1, <4>1 DEF Follows
    <3> QED
      BY <3>2, <3>3
  <2>4. g[0] = base
    BY <2>1 DEF Follows
  <2>5. Follows(g, base, step, n + 1)
    <3> HIDE DEF g
    <3> QED
      BY <2>3, <2>4 DEF Follows
  <2> HIDE DEF g
  <2> QED
    BY <2>2, <2>5
<1>3. ASSUME NEW n \in Nat PROVE Some(n)
  <2>1. Nat \subseteq S
    <3> HIDE DEF S
    <3> QED
      BY <1>1, <1>2, Induction
  <2> QED
    BY <2>1
<1> DEFINE part[n \in Nat] == CHOOSE f \in [0..n -> T] : Follows(f, base, step, n)
           whole == [n \in Nat |-> part[n][n]]
<1>4. ASSUME NEW n \in Nat PROVE part[n] \in [0..n -> T] /\ Follows(part[n], base, step, n)
  BY <1>3
<1> HIDE DEF part, Some, S
<1>5. whole \in [Nat -> T]
  <2>1. ASSUME NEW n \in Nat PROVE part[n][n] \in T
    BY <1>4
  <2> QED
    BY <2>1
<1>6. whole[0] = base
  BY <1>4 DEF Follows
<1>7. ASSUME NEW n \in Nat PROVE whole[n + 1] = step[n + 1][whole[n]]
  <2>1. n + 1 \in Nat /\ n + 1 \in 1..(n + 1) /\ (n + 1) - 1 = n /\ n \in 0..n
    OBVIOUS
  <2>2. part[n + 1][n + 1] = step[n + 1][part[n + 1][n]]
    <3>1. Follows(part[n + 1], base, step, n + 1)
      BY <1>4, <2>1
    <3> QED
      BY <2>1, <3>1 DEF Follows
  <2>3. Follows(part[n + 1], base, step, n)
    <3>1. Follows(part[n + 1], base, step, n + 1) /\ \A k \in 1..n : k \in 1..(n + 1)
      BY <1>4, <2>1
    <3> QED
      BY <3>1 DEF Follows
  <2>4. part[n + 1][n] = part[n][n]
    BY <1>4, <2>1, <2>3, FollowsOnce
  <2> QED
    BY <2>1, <2>2, <2>4
<1> HIDE DEF whole
<1> QED
  BY <1>5, <1>6, <1>7 DEF Iterates

-----------------------------------------------------------------------------
(***************************************************************************)
(* Steps that are taken again and again.  What has ended stays, and what    *)
(* goes on gets smaller: so it ends, always in the same way.                *)
(***************************************************************************)
Repeats(f, step) == \A n \in Nat : f[n + 1] = step[f[n]]

Shrinking(K, step, Going, size) ==
  /\ step \in [K -> K] /\ \A q \in K \ Going : step[q] = q
  /\ size \in [K -> Nat] /\ \A q \in K : step[q] \in Going => size[step[q]] < size[q]

LEMMA EndedStays ==
  ASSUME NEW K, NEW step \in [K -> K], NEW Going, \A q \in K \ Going : step[q] = q,
         NEW f \in [Nat -> K], Repeats(f, step), NEW a \in Nat, f[a] \notin Going
  PROVE  \A n \in Nat : f[a + n] = f[a]
<1> DEFINE S == {n \in Nat : f[a + n] = f[a]}
<1>1. 0 \in S
  OBVIOUS
<1>2. ASSUME NEW n \in Nat, n \in S PROVE n + 1 \in S
  <2>1. a + n \in Nat /\ (a + n) + 1 = a + (n + 1) /\ n + 1 \in Nat /\ f[a] \in K
    OBVIOUS
  <2>2. f[(a + n) + 1] = step[f[a + n]] /\ f[a + n] = f[a]
    BY <1>2, <2>1 DEF Repeats
  <2>3. f[a + (n + 1)] = f[a]
    BY <2>1, <2>2
  <2> QED
    BY <2>1, <2>3
<1>3. Nat \subseteq S
  <2> HIDE DEF S
  <2> QED
    BY <1>1, <1>2, Induction
<1> QED
  BY <1>3

LEMMA EndedOnce ==
  ASSUME NEW K, NEW step \in [K -> K], NEW Going, \A q \in K \ Going : step[q] = q,
         NEW f \in [Nat -> K], Repeats(f, step),
         NEW a \in Nat, f[a] \notin Going, NEW b \in Nat, f[b] \notin Going
  PROVE  f[a] = f[b]
<1>1. (\A n \in Nat : f[a + n] = f[a]) /\ (\A n \in Nat : f[b + n] = f[b])
  <2>1. \A n \in Nat : f[a + n] = f[a]
    BY EndedStays
  <2>2. \A n \in Nat : f[b + n] = f[b]
    BY EndedStays
  <2> QED
    BY <2>1, <2>2
<1>2. CASE a <= b
  <2>1. b - a \in Nat /\ a + (b - a) = b
    BY <1>2
  <2>2. f[a + (b - a)] = f[a]
    BY <1>1, <2>1
  <2> QED
    BY <2>1, <2>2
<1>3. CASE b <= a
  <2>1. a - b \in Nat /\ b + (a - b) = a
    BY <1>3
  <2>2. f[b + (a - b)] = f[b]
    BY <1>1, <2>1
  <2> QED
    BY <2>1, <2>2
<1> QED
  BY <1>2, <1>3

LEMMA EndsInTime ==
  ASSUME NEW K, NEW step \in [K -> K], NEW Going, \A q \in K \ Going : step[q] = q,
         NEW size \in [K -> Nat], \A q \in K : step[q] \in Going => size[step[q]] < size[q],
         NEW f \in [Nat -> K], Repeats(f, step)
  PROVE  size[f[0]] + 1 \in Nat /\ f[size[f[0]] + 1] \notin Going
<1> DEFINE l == size[f[0]]
           S == {n \in Nat : f[n] \in Going => size[f[n]] + n <= l}
<1>0. \A n \in Nat : f[n] \in K /\ size[f[n]] \in Nat
  OBVIOUS
<1>1. 0 \in S
  <2>1. size[f[0]] + 0 <= l
    BY <1>0
  <2> QED
    BY <2>1
<1>2. ASSUME NEW n \in Nat, n \in S PROVE n + 1 \in S
  <2>1. n + 1 \in Nat /\ f[n + 1] = step[f[n]]
    BY DEF Repeats
  <2>2. SUFFICES ASSUME f[n + 1] \in Going PROVE size[f[n + 1]] + (n + 1) <= l
    BY <2>1
  <2>3. f[n] \in Going
    BY <1>0, <2>1, <2>2
  <2>4. size[f[n + 1]] < size[f[n]]
    BY <1>0, <2>1, <2>2
  <2>5. size[f[n]] + n <= l
    BY <1>2, <2>3
  <2>6. \A i, j, k \in Nat : i < j /\ j + n <= k => i + (n + 1) <= k
    OBVIOUS
  <2>7. size[f[n + 1]] \in Nat /\ size[f[n]] \in Nat /\ l \in Nat
    BY <1>0, <2>1
  <2> QED
    BY <2>4, <2>5, <2>6, <2>7
<1>3. Nat \subseteq S
  <2> HIDE DEF S
  <2> QED
    BY <1>1, <1>2, Induction
<1>4. l \in Nat /\ l + 1 \in Nat
  BY <1>0
<1>5. f[l + 1] \in Going => size[f[l + 1]] + (l + 1) <= l
  BY <1>3, <1>4
<1>6. \A i \in Nat : ~(i + (l + 1) <= l)
  BY <1>4
<1>7. f[l + 1] \notin Going
  BY <1>0, <1>4, <1>5, <1>6
<1> QED
  BY <1>4, <1>7

\* From any value and from its next one, the end is the same.
LEMMA SameEnd ==
  ASSUME NEW K, NEW step, NEW Going, NEW size, Shrinking(K, step, Going, size),
         NEW f \in [Nat -> K], Repeats(f, step),
         NEW g \in [Nat -> K], Repeats(g, step), g[0] = step[f[0]]
  PROVE  f[size[f[0]] + 1] = g[size[g[0]] + 1]
<1> USE DEF Shrinking
<1> DEFINE S == {n \in Nat : g[n] = f[n + 1]}
           k == size[g[0]] + 1
<1>1. 0 \in S
  BY DEF Repeats
<1>2. ASSUME NEW n \in Nat, n \in S PROVE n + 1 \in S
  <2>1. n + 1 \in Nat
    OBVIOUS
  <2>2. g[n + 1] = step[g[n]] /\ f[(n + 1) + 1] = step[f[n + 1]]
    BY <2>1 DEF Repeats
  <2> QED
    BY <1>2, <2>1, <2>2
<1>3. Nat \subseteq S
  <2> HIDE DEF S
  <2> QED
    BY <1>1, <1>2, Induction
<1>4. size[f[0]] + 1 \in Nat /\ f[size[f[0]] + 1] \notin Going
  BY EndsInTime
<1>5. k \in Nat /\ g[k] \notin Going
  BY EndsInTime
<1> HIDE DEF k
<1>6. k + 1 \in Nat /\ g[k] = f[k + 1]
  BY <1>3, <1>5
<1>7. f[k + 1] \notin Going
  BY <1>5, <1>6
<1>8. f[size[f[0]] + 1] = f[k + 1]
  <2> DEFINE a == size[f[0]] + 1
             c == k + 1
  <2>1. a \in Nat /\ f[a] \notin Going /\ c \in Nat /\ f[c] \notin Going
    BY <1>4, <1>6, <1>7
  <2> HIDE DEF a, c, S, Shrinking
  <2>2. step \in [K -> K] /\ \A q \in K \ Going : step[q] = q
    BY DEF Shrinking
  <2>3. f[a] = f[c]
    BY <2>1, <2>2, EndedOnce
  <2> QED
    BY <2>3 DEF a, c
<1> QED
  BY <1>6, <1>8 DEF k

\* What has ended before it begins is its own end.
Still(f) == \A n \in Nat : f[n] = f[0]

LEMMA EndedFirst ==
  ASSUME NEW K, NEW step, NEW Going, NEW size, Shrinking(K, step, Going, size),
         NEW f \in [Nat -> K], Repeats(f, step), f[0] \notin Going
  PROVE  Still(f)
<1>0. step \in [K -> K] /\ \A q \in K \ Going : step[q] = q
  BY DEF Shrinking
<1> DEFINE a == 0
<1>1. a \in Nat /\ f[a] \notin Going /\ \A n \in Nat : a + n = n
  OBVIOUS
<1> HIDE DEF a
<1>2. \A n \in Nat : f[a + n] = f[a]
  BY <1>0, <1>1, EndedStays
<1>3. \A n \in Nat : f[n] = f[a]
  BY <1>1, <1>2
<1> QED
  BY <1>3 DEF Still, a

=============================================================================
