----------------------------- MODULE DataLemmas -----------------------------
(***************************************************************************)
(* Lemmas about sequences, finite sets, sums, powers of two and division,  *)
(* and about the critical sections of rdb::BoundedQueue (QueueOps), for    *)
(* the proofs about the other modules.                                     *)
(***************************************************************************)
EXTENDS QueueOps, SequencesExt, SequenceTheorems, FiniteSetTheorems,
        WellFoundedInduction, TLAPS

\* An element is what stands at some index.
LEMMA InToSet ==
    ASSUME NEW S, NEW s \in Seq(S), NEW e
    PROVE  e \in ToSet(s) <=> \E i \in 1..Len(s) : s[i] = e
BY DEF ToSet

\* The elements of a sequence over S are in S.
LEMMA ToSetType ==
    ASSUME NEW S, NEW s \in Seq(S)
    PROVE  ToSet(s) \subseteq S
BY DEF ToSet

\* The empty sequence has no elements.
LEMMA ToSetEmpty == ToSet(<<>>) = {}
BY DEF ToSet

\* The elements of a sequence with one more at the end.
LEMMA ToSetAppend ==
    ASSUME NEW S, NEW s \in Seq(S), NEW e \in S
    PROVE  ToSet(Append(s, e)) = ToSet(s) \cup {e}
<1> DEFINE t == Append(s, e)
<1>1. /\ t \in Seq(S) /\ Len(s) \in Nat /\ Len(t) = Len(s) + 1 /\ t[Len(s) + 1] = e
      /\ \A i \in 1..Len(s) : t[i] = s[i]
  OBVIOUS
<1> HIDE DEF t
<1>2. ASSUME NEW x PROVE x \in ToSet(t) <=> x \in ToSet(s) \cup {e}
  <2>1. x \in ToSet(t) <=> \E i \in 1..Len(t) : t[i] = x
    BY <1>1, InToSet
  <2>2. x \in ToSet(s) <=> \E i \in 1..Len(s) : s[i] = x
    BY InToSet
  <2>3. QED
    BY <1>1, <2>1, <2>2
<1>3. QED
  BY <1>2 DEF t

\* The elements of two sequences in a row.
LEMMA ToSetConcat ==
    ASSUME NEW S, NEW s \in Seq(S), NEW t \in Seq(S)
    PROVE  ToSet(s \o t) = ToSet(s) \cup ToSet(t)
<1> DEFINE u == s \o t
           m == Len(s)
           n == Len(t)
<1>1. /\ u \in Seq(S) /\ m \in Nat /\ n \in Nat /\ Len(u) = m + n
      /\ \A i \in 1..m : u[i] = s[i]
      /\ \A i \in 1..n : u[m + i] = t[i]
  OBVIOUS
<1> HIDE DEF u, m, n
<1>2. ASSUME NEW x PROVE x \in ToSet(u) <=> x \in ToSet(s) \cup ToSet(t)
  <2>1. /\ x \in ToSet(u) <=> \E i \in 1..(m + n) : u[i] = x
        /\ x \in ToSet(s) <=> \E i \in 1..m : s[i] = x
        /\ x \in ToSet(t) <=> \E i \in 1..n : t[i] = x
    <3>1. x \in ToSet(u) <=> \E i \in 1..Len(u) : u[i] = x
      BY <1>1, InToSet
    <3>2. /\ x \in ToSet(s) <=> \E i \in 1..m : s[i] = x
          /\ x \in ToSet(t) <=> \E i \in 1..n : t[i] = x
      BY InToSet DEF m, n
    <3>3. QED
      BY <1>1, <3>1, <3>2
  <2>2. ASSUME NEW i \in 1..(m + n), u[i] = x
        PROVE  x \in ToSet(s) \cup ToSet(t)
    <3>1. CASE i <= m
      BY <1>1, <2>1, <2>2, <3>1
    <3>2. CASE i > m
      <4>1. i - m \in 1..n /\ m + (i - m) = i
        BY <1>1, <3>2
      <4>2. QED
        BY <1>1, <2>1, <2>2, <4>1
    <3>3. QED
      BY <1>1, <3>1, <3>2
  <2>3. ASSUME x \in ToSet(s) PROVE x \in ToSet(u)
    BY <1>1, <2>1, <2>3
  <2>4. ASSUME x \in ToSet(t) PROVE x \in ToSet(u)
    <3>1. PICK i \in 1..n : t[i] = x
      BY <2>1, <2>4
    <3>2. m + i \in 1..(m + n) /\ u[m + i] = x
      BY <1>1, <3>1
    <3>3. QED
      BY <2>1, <3>2
  <2>5. QED
    BY <2>1, <2>2, <2>3, <2>4
<1>3. QED
  BY <1>2 DEF u

\* A sequence that is not empty is its head before its tail.
LEMMA ToSetHeadTail ==
    ASSUME NEW S, NEW s \in Seq(S), s # <<>>
    PROVE  /\ Head(s) \in S /\ Tail(s) \in Seq(S)
           /\ ToSet(s) = {Head(s)} \cup ToSet(Tail(s))
<1> DEFINE t == Tail(s)
<1>1. /\ t \in Seq(S) /\ Len(s) \in Nat /\ Len(s) >= 1 /\ Len(t) = Len(s) - 1
      /\ Head(s) = s[1] /\ Head(s) \in S
      /\ \A i \in 1..Len(t) : t[i] = s[i + 1]
  OBVIOUS
<1> HIDE DEF t
<1>2. ASSUME NEW x PROVE x \in ToSet(s) <=> x \in {Head(s)} \cup ToSet(t)
  <2>1. /\ x \in ToSet(s) <=> \E i \in 1..Len(s) : s[i] = x
        /\ x \in ToSet(t) <=> \E i \in 1..Len(t) : t[i] = x
    BY <1>1, InToSet
  <2>2. ASSUME NEW i \in 1..Len(s), s[i] = x
        PROVE  x \in {Head(s)} \cup ToSet(t)
    <3>1. CASE i = 1
      BY <1>1, <2>2, <3>1
    <3>2. CASE i > 1
      <4>1. i - 1 \in 1..Len(t) /\ (i - 1) + 1 = i
        BY <1>1, <3>2
      <4>2. QED
        BY <1>1, <2>1, <2>2, <4>1
    <3>3. QED
      BY <3>1, <3>2
  <2>3. ASSUME NEW i \in 1..Len(t), t[i] = x
        PROVE  x \in ToSet(s)
    <3>1. i + 1 \in 1..Len(s) /\ s[i + 1] = x
      BY <1>1, <2>3
    <3>2. QED
      BY <2>1, <3>1
  <2>4. Head(s) \in ToSet(s)
    <3>1. 1 \in 1..Len(s)
      BY <1>1
    <3>2. QED
      BY <1>1, <3>1, InToSet
  <2>5. QED
    BY <2>1, <2>2, <2>3, <2>4
<1>3. QED
  BY <1>1, <1>2 DEF t

\* No element stands at two places.
Distinct(s) == \A i, j \in DOMAIN s : s[i] = s[j] => i = j

\* A sequence without its last element.
LEMMA ToSetFront ==
    ASSUME NEW S, NEW s \in Seq(S), s # <<>>, Distinct(s)
    PROVE  LET t == SubSeq(s, 1, Len(s) - 1)
               e == s[Len(s)]
           IN  /\ t \in Seq(S) /\ e \in S /\ Distinct(t)
               /\ e \in ToSet(s) /\ ToSet(t) = ToSet(s) \ {e}
<1> DEFINE t == SubSeq(s, 1, Len(s) - 1)
           e == s[Len(s)]
           n == Len(s)
<1>1. n \in Nat /\ n >= 1 /\ DOMAIN s = 1..n
  OBVIOUS
<1>2. /\ t \in Seq(S) /\ e \in S /\ Len(t) = n - 1 /\ DOMAIN t = 1..(n - 1)
      /\ \A i \in 1..(n - 1) : t[i] = s[i]
  BY <1>1
<1> HIDE DEF t
<1>3. Distinct(t)
  BY <1>1, <1>2 DEF Distinct
<1>4. ASSUME NEW x PROVE x \in ToSet(t) <=> x \in ToSet(s) /\ x # e
  BY <1>1, <1>2 DEF Distinct, ToSet
<1>5. e \in ToSet(s)
  BY <1>1 DEF ToSet
<1>6. QED
  BY <1>2, <1>3, <1>4, <1>5 DEF t

\* A new element at the end.
LEMMA DistinctAppend ==
    ASSUME NEW S, NEW s \in Seq(S), NEW e \in S, Distinct(s), e \notin ToSet(s)
    PROVE  Distinct(Append(s, e))
<1> DEFINE t == Append(s, e)
<1>1. /\ Len(s) \in Nat /\ DOMAIN s = 1..Len(s) /\ DOMAIN t = 1..(Len(s) + 1)
      /\ \A i \in 1..Len(s) : t[i] = s[i]
      /\ t[Len(s) + 1] = e
  OBVIOUS
<1>2. \A i \in 1..Len(s) : s[i] # e
  BY <1>1 DEF ToSet
<1> HIDE DEF t
<1>3. Distinct(t)
  BY <1>1, <1>2 DEF Distinct
<1>4. QED
  BY <1>3 DEF t

\* How often an element occurs in a sequence without repetitions.
LEMMA DistinctCount ==
    ASSUME NEW S, NEW s \in Seq(S), Distinct(s), NEW e
    PROVE  Cardinality({i \in DOMAIN s : s[i] = e}) = IF e \in ToSet(s) THEN 1 ELSE 0
<1>1. CASE e \in ToSet(s)
  <2>1. PICK i \in DOMAIN s : s[i] = e
    BY <1>1 DEF ToSet
  <2>2. {j \in DOMAIN s : s[j] = e} = {i}
    BY <2>1 DEF Distinct
  <2>3. QED
    BY <1>1, <2>2, FS_Singleton
<1>2. CASE e \notin ToSet(s)
  <2>1. {j \in DOMAIN s : s[j] = e} = {}
    BY <1>2 DEF ToSet
  <2>2. QED
    BY <1>2, <2>1, FS_EmptySet
<1>3. QED
  BY <1>1, <1>2

-----------------------------------------------------------------------------
(* Induction over natural numbers, stated for a set instead of a predicate: *)
(* a lemma about a set can be cited.                                        *)

\* Every set of natural numbers has a least element.
LEMMA LeastNat ==
    ASSUME NEW T, T \subseteq Nat, T # {}
    PROVE  \E x \in T : \A y \in T : x <= y
<1> DEFINE R == OpToRel(<, Nat)
<1>1. IsWellFoundedOn(R, Nat)
  BY NatLessThanWellFounded
<1>2. \A x, y \in Nat : y < x => <<y, x>> \in R
  BY DEF OpToRel
<1> HIDE DEF R
<1>3. PICK x \in T : \A y \in T : ~(<<y, x>> \in R)
  BY <1>1, WFMin
<1>4. \A y \in T : ~(y < x)
  BY <1>2, <1>3, Zenon
<1>5. QED
  BY <1>4

\* What holds of 0, and of a number with its predecessor, holds up to n.
LEMMA InductionUpTo ==
    ASSUME NEW n \in Nat, NEW T, 0 \in T, \A i \in 0..(n - 1) : i \in T => i + 1 \in T
    PROVE  \A i \in 0..n : i \in T
<1> DEFINE F == {i \in 0..n : i \notin T}
<1> SUFFICES ASSUME F # {} PROVE FALSE
  OBVIOUS
<1>1. F \subseteq Nat
  OBVIOUS
<1>2. PICK x \in F : \A y \in F : x <= y
  BY <1>1, LeastNat
<1>3. x \in 1..n /\ x - 1 \in 0..(n - 1) /\ (x - 1) + 1 = x
  OBVIOUS
<1>4. x - 1 \notin F
  BY <1>2, <1>3
<1>5. x - 1 \in T
  BY <1>3, <1>4
<1>6. QED
  BY <1>3, <1>5

\* The values that a loop of n steps computes.
Loop(f, n, base, step) == f[0] = base /\ \A i \in 1..n : f[i] = step[i][f[i - 1]]

\* A loop of n steps computes something.
LEMMA LoopDefined ==
    ASSUME NEW S, NEW n \in Nat, NEW base \in S, NEW step \in [1..n -> [S -> S]]
    PROVE  \E f \in [0..n -> S] : Loop(f, n, base, step)
<1> USE DEF Loop
<1> DEFINE Run(f, m) == Loop(f, m, base, step)
           T == {m \in 0..n : \E f \in [0..m -> S] : Run(f, m)}
<1>1. 0 \in T
  <2> DEFINE f == [i \in 0..0 |-> base]
  <2>1. f \in [0..0 -> S] /\ Run(f, 0) /\ 0 \in 0..n
    OBVIOUS
  <2> HIDE DEF f, Run, Loop
  <2>2. QED
    BY <2>1
<1>2. ASSUME NEW m \in 0..(n - 1), m \in T
      PROVE  m + 1 \in T
  <2>1. PICK f \in [0..m -> S] : Run(f, m)
    BY <1>2
  <2> DEFINE e == step[m + 1][f[m]]
             g == [i \in 0..(m + 1) |-> IF i <= m THEN f[i] ELSE e]
  <2>2. m \in 0..m /\ m + 1 \in 1..n
    OBVIOUS
  <2>3. e \in S
    BY <2>2
  <2> HIDE DEF e
  <2>4. g \in [0..(m + 1) -> S]
    BY <2>3
  <2>5. (\A i \in 0..m : g[i] = f[i]) /\ g[m + 1] = e
    OBVIOUS
  <2> HIDE DEF g
  <2>6. g[0] = base
    BY <2>1, <2>5
  <2>7. ASSUME NEW i \in 1..(m + 1) PROVE g[i] = step[i][g[i - 1]]
    <3>1. CASE i <= m
      <4>1. i \in 1..m /\ i \in 0..m /\ i - 1 \in 0..m
        BY <3>1
      <4>2. f[i] = step[i][f[i - 1]]
        BY <2>1, <4>1
      <4>3. QED
        BY <2>5, <4>1, <4>2
    <3>2. CASE i = m + 1
      <4>1. i - 1 = m
        BY <3>2
      <4>2. QED
        BY <2>2, <2>5, <3>2, <4>1 DEF e
    <3>3. QED
      BY <3>1, <3>2
  <2>8. QED
    BY <2>2, <2>4, <2>6, <2>7, SMTT(30)
<1>3. \A m \in 0..n : m \in T
  <2> HIDE DEF T
  <2>1. QED
    BY <1>1, <1>2, InductionUpTo
<1>4. QED
  BY <1>3

-----------------------------------------------------------------------------
(* Operators of SequencesExt. *)

\* One sequence made of several has their elements.
LEMMA FlattenElements ==
    ASSUME NEW S, NEW ss \in Seq(Seq(S))
    PROVE  /\ FlattenSeq(ss) \in Seq(S)
           /\ ToSet(FlattenSeq(ss)) = UNION {ToSet(ss[i]) : i \in 1..Len(ss)}
<1> DEFINE n == Len(ss)
<1>1. n \in Nat /\ \A i \in 1..n : ss[i] \in Seq(S)
  OBVIOUS
<1>2. CASE n = 0
  <2>1. ss = <<>> /\ FlattenSeq(ss) = ss
    BY <1>2 DEF FlattenSeq
  <2>2. UNION {ToSet(ss[i]) : i \in 1..n} = {}
    BY <1>2
  <2>3. ToSet(ss) = {} /\ ss \in Seq(S)
    BY <2>1, ToSetEmpty
  <2>4. QED
    BY <2>1, <2>2, <2>3
<1>3. CASE n # 0
  <2> DEFINE step == [i \in 1..n |-> [x \in Seq(S) |-> x \o ss[i]]]
             base == <<>>
  <2>1. base \in Seq(S) /\ step \in [1..n -> [Seq(S) -> Seq(S)]]
    BY <1>1
  <2>2. \A i \in 1..n : \A x \in Seq(S) : step[i][x] = x \o ss[i]
    OBVIOUS
  <2>3. \A x \in Seq(S) : base \o x = x
    OBVIOUS
  <2>4. ToSet(base) = {}
    BY ToSetEmpty
  <2> HIDE DEF step, base, n
  <2>5. PICK f \in [0..n -> Seq(S)] : f[0] = base /\ \A i \in 1..n : f[i] = step[i][f[i - 1]]
    <3> DEFINE Q == Seq(S)
    <3>1. base \in Q /\ step \in [1..n -> [Q -> Q]]
      BY <2>1
    <3> HIDE DEF Q
    <3>2. \E f \in [0..n -> Q] : Loop(f, n, base, step)
      BY <1>1, <3>1, LoopDefined
    <3>3. QED
      BY <3>2 DEF Q, Loop
  <2>6. /\ \A i \in 0..n : f[i] \in Seq(S)
        /\ \A i \in 1..n : f[i] = f[i - 1] \o ss[i]
    <3>1. \A i \in 1..n : i - 1 \in 0..n
      BY <1>1
    <3>2. QED
      BY <2>2, <2>5, <3>1
  <2> DEFINE Rec(h) == h = [i \in 1..n |-> IF i = 1 THEN ss[i] ELSE h[i - 1] \o ss[i]]
             h == CHOOSE k : Rec(k)
  <2>7. \E k : Rec(k)
    <3> DEFINE k == [i \in 1..n |-> f[i]]
    <3>1. \A i \in 1..n : k[i] = IF i = 1 THEN ss[i] ELSE k[i - 1] \o ss[i]
      <4>1. f[1] = ss[1]
        <5>1. 1 \in 1..n /\ 1 - 1 = 0
          BY <1>1, <1>3
        <5>2. f[1] = f[0] \o ss[1]
          BY <2>6, <5>1
        <5>3. QED
          BY <1>1, <2>3, <2>5, <5>1, <5>2
      <4>2. \A i \in 1..n : i # 1 => i - 1 \in 1..n
        BY <1>1
      <4>3. QED
        BY <2>6, <4>1, <4>2
    <3>2. k = [i \in 1..n |-> k[i]]
      OBVIOUS
    <3> HIDE DEF k
    <3>3. Rec(k)
      BY <3>1, <3>2
    <3>4. QED
      BY <3>3
  <2>8. Rec(h)
    BY <2>7
  <2>9. FlattenSeq(ss) = h[n]
    BY <1>1, <1>3 DEF FlattenSeq, n
  <2> HIDE DEF h
  <2>10. \A i \in 1..n : h[i] = IF i = 1 THEN ss[i] ELSE h[i - 1] \o ss[i]
    BY <2>8
  <2> HIDE DEF Rec
  <2> DEFINE T == {i \in 0..n : /\ i > 0 => h[i] \in Seq(S)
                                /\ i > 0 => \A x : x \in ToSet(h[i]) <=> \E j \in 1..i : x \in ToSet(ss[j])}
  <2>11. \A i \in 0..n : i \in T
    <3>1. 0 \in T
      BY <1>1
    <3>2. ASSUME NEW i \in 0..(n - 1), i \in T
          PROVE  i + 1 \in T
      <4>1. i + 1 \in 1..n /\ i \in Nat
        BY <1>1
      <4>2. CASE i = 0
        <5>1. h[1] = ss[1] /\ 1 \in 1..n
          BY <2>10, <4>1, <4>2
        <5>2. \A j \in 1..1 : j = 1
          OBVIOUS
        <5>3. QED
          BY <1>1, <4>2, <5>1, <5>2
      <4>3. CASE i # 0
        <5>1. i \in 1..n /\ i > 0 /\ i + 1 # 1 /\ (i + 1) - 1 = i
          BY <1>1, <4>3
        <5>2. h[i + 1] = h[i] \o ss[i + 1]
          BY <2>10, <4>1, <5>1
        <5>3. h[i] \in Seq(S) /\ \A x : x \in ToSet(h[i]) <=> \E j \in 1..i : x \in ToSet(ss[j])
          BY <3>2, <5>1
        <5>4. h[i + 1] \in Seq(S) /\ ToSet(h[i + 1]) = ToSet(h[i]) \cup ToSet(ss[i + 1])
          BY <1>1, <4>1, <5>2, <5>3, ToSetConcat
        <5>5. 1..(i + 1) = (1..i) \cup {i + 1}
          BY <4>1
        <5>6. \A x : x \in ToSet(h[i + 1]) <=> \E j \in 1..(i + 1) : x \in ToSet(ss[j])
          BY <5>3, <5>4, <5>5
        <5>7. QED
          BY <4>1, <5>4, <5>6, SMTT(30)
      <4>4. QED
        BY <4>2, <4>3
    <3> HIDE DEF T
    <3>3. QED
      BY <1>1, <3>1, <3>2, InductionUpTo
  <2>12. n \in 0..n /\ n > 0
    BY <1>1, <1>3
  <2>13. h[n] \in Seq(S) /\ \A x : x \in ToSet(h[n]) <=> \E j \in 1..n : x \in ToSet(ss[j])
    BY <2>11, <2>12
  <2>14. ToSet(h[n]) = UNION {ToSet(ss[j]) : j \in 1..n}
    BY <2>13
  <2>15. QED
    BY <2>9, <2>13, <2>14 DEF n
<1>4. QED
  BY <1>2, <1>3

\* A sequence without the first occurrence of an element.
LEMMA RemoveFirstElements ==
    ASSUME NEW S, NEW s \in Seq(S), NEW e
    PROVE  /\ RemoveFirst(s, e) \in Seq(S)
           /\ ToSet(RemoveFirst(s, e)) \subseteq ToSet(s)
           /\ Distinct(s) => /\ Distinct(RemoveFirst(s, e))
                             /\ ToSet(RemoveFirst(s, e)) = ToSet(s) \ {e}
<1>1. CASE ~\E i \in 1..Len(s) : s[i] = e
  <2>1. RemoveFirst(s, e) = s
    BY <1>1 DEF RemoveFirst
  <2>2. e \notin ToSet(s)
    BY <1>1, InToSet
  <2>3. QED
    BY <2>1, <2>2
<1>2. CASE \E i \in 1..Len(s) : s[i] = e
  <2> DEFINE I == {i \in 1..Len(s) : s[i] = e}
             m == Min(I)
             n == Len(s)
  <2>1. RemoveFirst(s, e) = SubSeq(s, 1, m - 1) \o SubSeq(s, m + 1, n)
    BY <1>2 DEF RemoveFirst, SelectInSeq, RemoveAt
  <2>2. I \subseteq Nat /\ I # {}
    BY <1>2
  <2>3. m \in I
    BY <2>2, LeastNat DEF Min
  <2> HIDE DEF m
  <2>4. n \in Nat /\ m \in 1..n /\ s[m] = e
    BY <2>3
  <2> DEFINE r == SubSeq(s, 1, m - 1) \o SubSeq(s, m + 1, n)
  <2>5. /\ r \in Seq(S) /\ Len(r) = n - 1
        /\ \A i \in 1..(n - 1) : r[i] = IF i < m THEN s[i] ELSE s[i + 1]
    <3> DEFINE a == SubSeq(s, 1, m - 1)
               b == SubSeq(s, m + 1, n)
    <3>1. /\ a \in Seq(S) /\ Len(a) = m - 1
          /\ \A i \in 1..(m - 1) : a[i] = s[i]
      BY <2>4
    <3>2. /\ b \in Seq(S) /\ Len(b) = n - m
          /\ \A i \in 1..(n - m) : b[i] = s[m + i]
      BY <2>4
    <3> HIDE DEF a, b
    <3> DEFINE k == Len(a)
               l == Len(b)
    <3>3. r = a \o b
      BY DEF a, b
    <3> HIDE DEF r
    <3>4. /\ r \in Seq(S) /\ Len(r) = k + l
          /\ \A i \in 1..k : r[i] = a[i]
          /\ \A i \in 1..l : r[k + i] = b[i]
      <4>1. a \in Seq(S) /\ b \in Seq(S)
        BY <3>1, <3>2
      <4>2. k \in Nat /\ l \in Nat /\ Len(a \o b) = k + l /\ a \o b \in Seq(S)
        BY <4>1
      <4>3. /\ \A i \in 1..k : (a \o b)[i] = a[i]
            /\ \A i \in 1..l : (a \o b)[k + i] = b[i]
        BY <4>1, <4>2
      <4>4. QED
        BY <3>3, <4>2, <4>3
    <3>5. k = m - 1 /\ l = n - m
      BY <3>1, <3>2
    <3> HIDE DEF k, l
    <3>6. ASSUME NEW i \in 1..(n - 1) PROVE r[i] = IF i < m THEN s[i] ELSE s[i + 1]
      <4>1. CASE i < m
        <5>1. i \in 1..(m - 1) /\ i \in 1..k
          BY <2>4, <3>5, <4>1
        <5>2. QED
          BY <3>1, <3>4, <4>1, <5>1
      <4>2. CASE ~(i < m)
        <5> DEFINE j == i - (m - 1)
        <5>1. j \in 1..(n - m) /\ j \in 1..l /\ m + j = i + 1 /\ k + j = i
          BY <2>4, <3>5, <4>2
        <5> HIDE DEF j
        <5>2. r[k + j] = s[m + j]
          BY <3>2, <3>4, <5>1
        <5>3. QED
          BY <4>2, <5>1, <5>2
      <4>3. QED
        BY <4>1, <4>2
    <3>7. Len(r) = n - 1
      BY <2>4, <3>4, <3>5
    <3>8. QED
      BY <3>4, <3>6, <3>7
  <2> HIDE DEF r
  <2>6. ToSet(r) \subseteq ToSet(s)
    <3>1. ASSUME NEW x \in ToSet(r) PROVE x \in ToSet(s)
      <4>1. PICK i \in 1..(n - 1) : r[i] = x
        BY <2>5, InToSet
      <4>2. i \in 1..n /\ i + 1 \in 1..n
        BY <2>4
      <4>3. QED
        BY <2>5, <4>1, <4>2, InToSet
    <3>2. QED
      BY <3>1
  <2>7. ASSUME Distinct(s) PROVE Distinct(r) /\ ToSet(r) = ToSet(s) \ {e}
    <3>1. \A i, j \in 1..n : s[i] = s[j] => i = j
      BY <2>7 DEF Distinct
    <3>2. Distinct(r)
      <4>1. DOMAIN r = 1..(n - 1)
        BY <2>5
      <4>2. QED
        BY <2>4, <2>5, <3>1, <4>1 DEF Distinct
    <3>3. e \notin ToSet(r)
      <4>1. \A i \in 1..(n - 1) : r[i] # e
        BY <2>4, <2>5, <3>1
      <4>2. QED
        BY <2>5, <4>1, InToSet
    <3>4. ASSUME NEW x \in ToSet(s), x # e PROVE x \in ToSet(r)
      <4>1. PICK i \in 1..n : s[i] = x
        BY InToSet
      <4>2. CASE i < m
        <5>1. i \in 1..(n - 1) /\ r[i] = x
          BY <2>4, <2>5, <4>1, <4>2
        <5>2. QED
          BY <2>5, <5>1, InToSet
      <4>3. CASE i > m
        <5>1. i - 1 \in 1..(n - 1) /\ ~(i - 1 < m) /\ (i - 1) + 1 = i
          BY <2>4, <4>3
        <5>2. r[i - 1] = x
          BY <2>5, <4>1, <5>1
        <5>3. QED
          BY <2>5, <5>1, <5>2, InToSet
      <4>4. QED
        BY <2>4, <3>4, <4>1, <4>2, <4>3
    <3>5. QED
      BY <2>6, <3>2, <3>3, <3>4
  <2>8. QED
    BY <2>1, <2>5, <2>6, <2>7 DEF r
<1>3. QED
  BY <1>1, <1>2


-----------------------------------------------------------------------------
(* Sums over a finite set. *)

\* One unit for everything that f counts at the elements of T.
Units(f, T) == {u \in T \X Nat : 1 <= u[2] /\ u[2] <= f[u[1]]}

\* One element more.
LEMMA UnitsAdd ==
    ASSUME NEW S, NEW f \in [S -> Nat], NEW T \in SUBSET S, NEW x \in S, x \notin T,
           IsFiniteSet(Units(f, T))
    PROVE  /\ IsFiniteSet(Units(f, T \cup {x}))
           /\ Cardinality(Units(f, T \cup {x})) = Cardinality(Units(f, T)) + f[x]
<1> DEFINE A == Units(f, T)
           B == {x} \X (1..f[x])
           C == Units(f, T \cup {x})
           n == f[x]
<1>1. n \in Nat
  OBVIOUS
<1>2. C = A \cup B
  <2>1. \A u \in C : u \in A \/ u \in B
    BY DEF Units
  <2>2. \A u \in A : u \in C
    BY DEF Units
  <2>3. \A u \in B : u \in C
    BY DEF Units
  <2>4. QED
    BY <2>1, <2>2, <2>3
<1>3. A \cap B = {}
  BY DEF Units
<1>4. IsFiniteSet(B) /\ Cardinality(B) = n
  <2>1. IsFiniteSet({x}) /\ Cardinality({x}) = 1
    BY FS_Singleton
  <2>2. IsFiniteSet(1..n) /\ Cardinality(1..n) = n
    BY <1>1, FS_Interval
  <2>3. IsFiniteSet({x} \X (1..n)) /\ Cardinality({x} \X (1..n)) = Cardinality({x}) * Cardinality(1..n)
    BY <2>1, <2>2, FS_Product
  <2>4. QED
    BY <1>1, <2>1, <2>2, <2>3
<1> HIDE DEF A, B, C, n
<1>5. IsFiniteSet(A) /\ Cardinality(A) \in Nat
  BY FS_CardinalityType DEF A
<1>6. /\ IsFiniteSet(A \cup B)
      /\ Cardinality(A \cup B) = Cardinality(A) + Cardinality(B) - Cardinality(A \cap B)
  BY <1>4, <1>5, FS_Union
<1>7. Cardinality(A \cap B) = 0
  BY <1>3, FS_EmptySet
<1>8. IsFiniteSet(C) /\ Cardinality(C) = Cardinality(A) + n
  BY <1>1, <1>2, <1>4, <1>5, <1>6, <1>7
<1>9. QED
  BY <1>8 DEF A, C, n

\* No elements, no units.
LEMMA UnitsEmpty == \A f : Units(f, {}) = {}
BY DEF Units

\* The units are finitely many.
LEMMA UnitsFinite ==
    ASSUME NEW S, IsFiniteSet(S), NEW f \in [S -> Nat]
    PROVE  \A T \in SUBSET S : IsFiniteSet(Units(f, T))
<1> DEFINE m == Cardinality(S)
           P == {k \in 0..m : \A T \in SUBSET S : Cardinality(T) = k => IsFiniteSet(Units(f, T))}
<1>1. m \in Nat
  BY FS_CardinalityType
<1>2. \A T \in SUBSET S : IsFiniteSet(T) /\ Cardinality(T) \in 0..m
  <2>1. ASSUME NEW T \in SUBSET S
        PROVE  IsFiniteSet(T) /\ Cardinality(T) \in 0..m
    <3>1. IsFiniteSet(T) /\ Cardinality(T) <= m
      BY FS_Subset
    <3>2. Cardinality(T) \in Nat
      BY <3>1, FS_CardinalityType
    <3>3. QED
      BY <1>1, <3>1, <3>2
  <2>2. QED
    BY <2>1
<1> HIDE DEF m
<1>3. 0 \in P
  <2>1. ASSUME NEW T \in SUBSET S, Cardinality(T) = 0
        PROVE  IsFiniteSet(Units(f, T))
    BY <1>2, <2>1, FS_EmptySet, UnitsEmpty
  <2>2. QED
    BY <1>1, <2>1
<1>4. \A k \in 0..(m - 1) : k \in P => k + 1 \in P
  <2> SUFFICES ASSUME NEW k \in 0..(m - 1), k \in P, NEW T \in SUBSET S, Cardinality(T) = k + 1
               PROVE  IsFiniteSet(Units(f, T))
    BY <1>1
  <2>1. T # {}
    <3>1. Cardinality({}) = 0 /\ k + 1 # 0
      BY <1>1, FS_EmptySet
    <3>2. QED
      BY <3>1
  <2>2. PICK x \in T : TRUE
    BY <2>1
  <2> DEFINE U == T \ {x}
  <2>3. Cardinality(U) = k /\ U \in SUBSET S /\ x \in S /\ x \notin U /\ T = U \cup {x}
    BY <1>1, <1>2, <2>2, FS_RemoveElement
  <2> HIDE DEF U
  <2>4. IsFiniteSet(Units(f, U))
    BY <2>3
  <2>5. QED
    BY <2>3, <2>4, UnitsAdd
<1> HIDE DEF P
<1>5. \A k \in 0..m : k \in P
  BY <1>1, <1>3, <1>4, InductionUpTo
<1>6. QED
  BY <1>2, <1>5 DEF P


\* What the folds of FiniteSetsExt compute when they add up f: the element that CHOOSE
\* picks, and the sum of the rest.
SumFn(h, f, S) ==
    h = [T \in SUBSET S |->
           IF T = {} THEN 0
           ELSE f[CHOOSE x \in T : TRUE] + h[T \ {CHOOSE x \in T : TRUE}]]

\* There is such a function: it counts units.
LEMMA SumDefined ==
    ASSUME NEW S, IsFiniteSet(S), NEW f \in [S -> Nat]
    PROVE  \E h : SumFn(h, f, S)
<1> DEFINE h == [T \in SUBSET S |-> Cardinality(Units(f, T))]
<1>1. ASSUME NEW T \in SUBSET S
      PROVE  Cardinality(Units(f, T)) =
               IF T = {} THEN 0
               ELSE f[CHOOSE x \in T : TRUE] + h[T \ {CHOOSE x \in T : TRUE}]
  <2>1. CASE T = {}
    BY <2>1, UnitsEmpty, FS_EmptySet
  <2>2. CASE T # {}
    <3> DEFINE x == CHOOSE x \in T : TRUE
               U == T \ {x}
    <3>1. x \in T
      BY <2>2
    <3> HIDE DEF x
    <3>2. U \in SUBSET S /\ x \in S /\ x \notin U /\ T = U \cup {x}
      BY <3>1
    <3>3. h[U] = Cardinality(Units(f, U))
      BY <3>2
    <3> HIDE DEF U, h
    <3>4. IsFiniteSet(Units(f, U)) /\ f[x] \in Nat
      BY <3>2, UnitsFinite
    <3>5. Cardinality(Units(f, T)) = Cardinality(Units(f, U)) + f[x]
      BY <3>2, <3>4, UnitsAdd
    <3>6. Cardinality(Units(f, U)) \in Nat
      BY <3>4, FS_CardinalityType
    <3>7. Cardinality(Units(f, T)) = f[x] + h[U]
      BY <3>3, <3>4, <3>5, <3>6
    <3>8. QED
      BY <2>2, <3>7 DEF x, U
  <2>3. QED
    BY <2>1, <2>2
<1>2. SumFn(h, f, S)
  BY <1>1, Zenon DEF SumFn
<1>3. QED
  BY <1>2

\* Every such function counts units.
LEMMA SumCounts ==
    ASSUME NEW S, IsFiniteSet(S), NEW f \in [S -> Nat], NEW h, SumFn(h, f, S)
    PROVE  h[S] = Cardinality(Units(f, S))
<1> DEFINE m == Cardinality(S)
           P == {k \in 0..m : \A T \in SUBSET S :
                                  Cardinality(T) = k => h[T] = Cardinality(Units(f, T))}
<1>1. m \in Nat
  BY FS_CardinalityType
<1>2. \A T \in SUBSET S : IsFiniteSet(T)
  BY FS_Subset
<1> HIDE DEF m
<1>3. 0 \in P
  <2>1. ASSUME NEW T \in SUBSET S, Cardinality(T) = 0
        PROVE  h[T] = Cardinality(Units(f, T))
    <3>1. T = {}
      BY <1>2, <2>1, FS_EmptySet
    <3>2. h[T] = 0
      BY <3>1 DEF SumFn
    <3>3. QED
      BY <3>1, <3>2, FS_EmptySet, UnitsEmpty
  <2>2. QED
    BY <1>1, <2>1
<1>4. \A k \in 0..(m - 1) : k \in P => k + 1 \in P
  <2> SUFFICES ASSUME NEW k \in 0..(m - 1), k \in P, NEW T \in SUBSET S, Cardinality(T) = k + 1
               PROVE  h[T] = Cardinality(Units(f, T))
    BY <1>1
  <2>1. T # {}
    <3>1. Cardinality({}) = 0 /\ k + 1 # 0
      BY <1>1, FS_EmptySet
    <3>2. QED
      BY <3>1
  <2> DEFINE x == CHOOSE x \in T : TRUE
             U == T \ {x}
  <2>2. x \in T
    BY <2>1
  <2>3. h[T] = f[x] + h[U]
    BY <2>1 DEF SumFn
  <2> HIDE DEF x
  <2>4. Cardinality(U) = k /\ U \in SUBSET S /\ x \in S /\ x \notin U /\ T = U \cup {x}
    <3>1. Cardinality(U) = Cardinality(T) - 1
      BY <1>2, <2>2, FS_RemoveElement
    <3>2. (k + 1) - 1 = k
      BY <1>1
    <3>3. QED
      BY <2>2, <3>1, <3>2
  <2> HIDE DEF U
  <2>5. h[U] = Cardinality(Units(f, U))
    BY <2>4
  <2>6. IsFiniteSet(Units(f, U)) /\ f[x] \in Nat
    BY <2>4, UnitsFinite
  <2>7. Cardinality(Units(f, T)) = Cardinality(Units(f, U)) + f[x]
    BY <2>4, <2>6, UnitsAdd
  <2>8. Cardinality(Units(f, U)) \in Nat
    BY <2>6, FS_CardinalityType
  <2>9. QED
    BY <2>3, <2>5, <2>6, <2>7, <2>8
<1> HIDE DEF P
<1>5. \A k \in 0..m : k \in P
  BY <1>1, <1>3, <1>4, InductionUpTo
<1>6. m \in P
  BY <1>1, <1>5
<1>7. QED
  BY <1>6 DEF P, m

\* One more at each element of R makes as many units more as R has elements.
LEMMA UnitsGrow ==
    ASSUME NEW S, IsFiniteSet(S), NEW f \in [S -> Nat], NEW g \in [S -> Nat], NEW R \in SUBSET S,
           \A x \in S : g[x] = IF x \in R THEN f[x] + 1 ELSE f[x]
    PROVE  /\ IsFiniteSet(R) /\ Cardinality(R) \in Nat /\ Cardinality(Units(f, S)) \in Nat
           /\ Cardinality(Units(g, S)) = Cardinality(Units(f, S)) + Cardinality(R)
<1> DEFINE A == Units(f, S)
           B == {<<x, f[x] + 1>> : x \in R}
           h == [x \in R |-> <<x, f[x] + 1>>]
<1>1. IsFiniteSet(A) /\ Cardinality(A) \in Nat
  BY UnitsFinite, FS_CardinalityType
<1>2. IsFiniteSet(R) /\ Cardinality(R) \in Nat
  BY FS_Subset, FS_CardinalityType
<1>3. IsFiniteSet(B) /\ Cardinality(B) = Cardinality(R)
  <2>1. h \in Bijection(R, B)
    <3>1. h \in [R -> B]
      OBVIOUS
    <3>2. \A x, y \in R : h[x] = h[y] => x = y
      OBVIOUS
    <3>3. \A b \in B : \E x \in R : h[x] = b
      OBVIOUS
    <3> HIDE DEF h, B
    <3>4. QED
      BY <3>1, <3>2, <3>3, Zenon DEF Bijection, Injection, IsInjective, Surjection
  <2>2. ExistsBijection(R, B)
    BY <2>1 DEF ExistsBijection
  <2> HIDE DEF B
  <2>3. QED
    BY <1>2, <2>2, FS_Bijection
<1>4. Units(g, S) = A \cup B
  <2>1. ASSUME NEW u \in Units(g, S)
        PROVE  u \in A \/ u \in B
    <3>1. PICK x \in S, i \in Nat : u = <<x, i>> /\ 1 <= i /\ i <= g[x]
      BY <2>1 DEF Units
    <3>2. CASE i <= f[x]
      BY <3>1, <3>2 DEF Units
    <3>3. CASE ~(i <= f[x])
      <4>1. f[x] \in Nat
        OBVIOUS
      <4>2. x \in R /\ i = f[x] + 1
        BY <3>1, <3>3, <4>1
      <4>3. QED
        BY <3>1, <4>2
    <3>4. QED
      BY <3>2, <3>3
  <2>2. ASSUME NEW u \in A
        PROVE  u \in Units(g, S)
    <3>1. PICK x \in S, i \in Nat : u = <<x, i>> /\ 1 <= i /\ i <= f[x]
      BY <2>2 DEF Units
    <3>2. f[x] \in Nat /\ g[x] \in Nat /\ f[x] <= g[x]
      OBVIOUS
    <3>3. QED
      BY <3>1, <3>2 DEF Units
  <2>3. ASSUME NEW u \in B
        PROVE  u \in Units(g, S)
    <3>1. PICK x \in R : u = <<x, f[x] + 1>>
      BY <2>3
    <3>2. x \in S /\ f[x] \in Nat /\ g[x] = f[x] + 1
      OBVIOUS
    <3>3. QED
      BY <3>1, <3>2 DEF Units
  <2>4. QED
    BY <2>1, <2>2, <2>3
<1>5. A \cap B = {}
  <2> SUFFICES ASSUME NEW u \in A, u \in B
               PROVE  FALSE
    OBVIOUS
  <2>1. PICK x \in R : u = <<x, f[x] + 1>>
    OBVIOUS
  <2>2. f[x] \in Nat /\ u[1] = x /\ u[2] = f[x] + 1
    BY <2>1
  <2>3. u[2] <= f[u[1]]
    BY DEF Units
  <2>4. QED
    BY <2>2, <2>3
<1> HIDE DEF A, B
<1>6. Cardinality(A \cup B) = Cardinality(A) + Cardinality(B) - Cardinality(A \cap B)
  BY <1>1, <1>2, <1>3, FS_Union
<1>7. Cardinality(A \cap B) = 0
  BY <1>5, FS_EmptySet
<1>8. Cardinality(Units(g, S)) = Cardinality(A) + Cardinality(R)
  BY <1>1, <1>2, <1>3, <1>4, <1>6, <1>7
<1>9. QED
  BY <1>1, <1>2, <1>8 DEF A

-----------------------------------------------------------------------------
(* The critical sections of QueueOps. *)

\* A full queue holds something: a capacity is never 0.
LEMMA FullIsNotEmpty ==
    ASSUME NEW S, NEW x \in Queue(S), IsFull(x)
    PROVE  x.items # <<>> /\ Len(x.items) >= 1
BY DEF Queue, IsFull

\* Updates of a queue's fields.
LEMMA SetItemsType ==
    ASSUME NEW S, NEW x \in Queue(S), NEW i \in Seq(S)
    PROVE  [x EXCEPT !.items = i] \in Queue(S)
BY DEF Queue

\* The same for items_ and high_water_ together.
LEMMA SetItemsHighWaterType ==
    ASSUME NEW S, NEW x \in Queue(S), NEW i \in Seq(S), NEW h \in Nat
    PROVE  [x EXCEPT !.items = i, !.highWater = h] \in Queue(S)
BY DEF Queue

\* The same for items_ and dropped_ together.
LEMMA SetItemsDroppedType ==
    ASSUME NEW S, NEW x \in Queue(S), NEW i \in Seq(S), NEW d \in Nat
    PROVE  [x EXCEPT !.items = i, !.dropped = d] \in Queue(S)
BY DEF Queue

\* What each critical section does to each member, and that it yields a queue.
LEMMA EnqueueProperties ==
    ASSUME NEW S, NEW x \in Queue(S), NEW v \in S
    PROVE  /\ Enqueue(x, v) \in Queue(S)
           /\ Enqueue(x, v).items = Append(x.items, v)
           /\ Len(Enqueue(x, v).items) = Len(x.items) + 1
           /\ Enqueue(x, v).highWater = IF Len(x.items) + 1 > x.highWater
                                        THEN Len(x.items) + 1 ELSE x.highWater
           /\ Enqueue(x, v).capacity = x.capacity
           /\ Enqueue(x, v).closed = x.closed
           /\ Enqueue(x, v).policy = x.policy
           /\ Enqueue(x, v).dropped = x.dropped
<1>1. Append(x.items, v) \in Seq(S) /\ Len(x.items) \in Nat /\ x.highWater \in Nat
  BY DEF Queue
<1>2. Enqueue(x, v) \in Queue(S)
  <2> DEFINE h == IF Len(x.items) + 1 > x.highWater THEN Len(x.items) + 1 ELSE x.highWater
  <2>1. h \in Nat
    BY <1>1
  <2> HIDE DEF h
  <2>2. [x EXCEPT !.items = Append(x.items, v), !.highWater = h] \in Queue(S)
    BY <1>1, <2>1, SetItemsHighWaterType, Zenon
  <2>3. QED
    BY <2>2 DEF Enqueue, h
<1>3. Enqueue(x, v).items = Append(x.items, v)
  BY DEF Enqueue, Queue
<1>4. Len(Enqueue(x, v).items) = Len(x.items) + 1
  BY <1>1, <1>3 DEF Queue
<1>5. Enqueue(x, v).highWater = IF Len(x.items) + 1 > x.highWater
                                THEN Len(x.items) + 1 ELSE x.highWater
  BY DEF Enqueue, Queue
<1>6. /\ Enqueue(x, v).capacity = x.capacity /\ Enqueue(x, v).closed = x.closed
      /\ Enqueue(x, v).policy = x.policy /\ Enqueue(x, v).dropped = x.dropped
  BY DEF Enqueue, Queue
<1>7. QED
  BY <1>2, <1>3, <1>4, <1>5, <1>6

\* What the eviction of push_until under DropOldest does, field by field.
LEMMA EvictEnqueueProperties ==
    ASSUME NEW S, NEW x \in Queue(S), NEW v \in S, x.items # <<>>
    PROVE  /\ EvictEnqueue(x, v) \in Queue(S)
           /\ EvictEnqueue(x, v).items = Append(Tail(x.items), v)
           /\ Len(EvictEnqueue(x, v).items) = Len(x.items)
           /\ EvictEnqueue(x, v).dropped = x.dropped + 1
           /\ EvictEnqueue(x, v).highWater = x.highWater
           /\ EvictEnqueue(x, v).capacity = x.capacity
           /\ EvictEnqueue(x, v).closed = x.closed
           /\ EvictEnqueue(x, v).policy = x.policy
<1>1. /\ Append(Tail(x.items), v) \in Seq(S) /\ x.dropped + 1 \in Nat
      /\ Len(Append(Tail(x.items), v)) = Len(x.items)
  BY DEF Queue
<1>2. EvictEnqueue(x, v) \in Queue(S)
  BY <1>1, SetItemsDroppedType, Zenon DEF EvictEnqueue
<1>3. EvictEnqueue(x, v).items = Append(Tail(x.items), v)
  BY DEF EvictEnqueue, Queue
<1>4. EvictEnqueue(x, v).dropped = x.dropped + 1
  BY DEF EvictEnqueue, Queue
<1>5. /\ EvictEnqueue(x, v).highWater = x.highWater
      /\ EvictEnqueue(x, v).capacity = x.capacity
      /\ EvictEnqueue(x, v).closed = x.closed /\ EvictEnqueue(x, v).policy = x.policy
  BY DEF EvictEnqueue, Queue
<1>6. QED
  BY <1>1, <1>2, <1>3, <1>4, <1>5

\* What the refusal of push_until under DropNewest does.
LEMMA RejectNewestProperties ==
    ASSUME NEW S, NEW x \in Queue(S)
    PROVE  /\ RejectNewest(x) \in Queue(S)
           /\ RejectNewest(x).dropped = x.dropped + 1
           /\ RejectNewest(x).items = x.items
           /\ RejectNewest(x).highWater = x.highWater
           /\ RejectNewest(x).capacity = x.capacity
           /\ RejectNewest(x).closed = x.closed
           /\ RejectNewest(x).policy = x.policy
BY DEF RejectNewest, Queue

\* What pop_until does to a queue that holds something.
LEMMA DequeueProperties ==
    ASSUME NEW S, NEW x \in Queue(S), x.items # <<>>
    PROVE  /\ Dequeue(x) \in Queue(S)
           /\ Dequeue(x).items = Tail(x.items)
           /\ Len(Dequeue(x).items) = Len(x.items) - 1
           /\ Head(x.items) \in S
           /\ Dequeue(x).dropped = x.dropped
           /\ Dequeue(x).highWater = x.highWater
           /\ Dequeue(x).capacity = x.capacity
           /\ Dequeue(x).closed = x.closed
           /\ Dequeue(x).policy = x.policy
<1>1. Tail(x.items) \in Seq(S) /\ Len(Tail(x.items)) = Len(x.items) - 1
  BY DEF Queue
<1>2. Dequeue(x) \in Queue(S)
  BY <1>1, SetItemsType DEF Dequeue
<1>3. Dequeue(x).items = Tail(x.items)
  BY DEF Dequeue, Queue
<1>4. /\ Dequeue(x).dropped = x.dropped /\ Dequeue(x).highWater = x.highWater
      /\ Dequeue(x).capacity = x.capacity /\ Dequeue(x).closed = x.closed
      /\ Dequeue(x).policy = x.policy
  BY DEF Dequeue, Queue
<1>5. Head(x.items) \in S
  BY DEF Queue
<1>6. QED
  BY <1>1, <1>2, <1>3, <1>4, <1>5

\* close() touches nothing but closed_.
LEMMA CloseQueueProperties ==
    ASSUME NEW S, NEW x \in Queue(S)
    PROVE  /\ CloseQueue(x) \in Queue(S)
           /\ CloseQueue(x).closed = TRUE
           /\ CloseQueue(x).items = x.items
           /\ CloseQueue(x).dropped = x.dropped
           /\ CloseQueue(x).highWater = x.highWater
           /\ CloseQueue(x).capacity = x.capacity
           /\ CloseQueue(x).policy = x.policy
<1>1. CloseQueue(x) \in Queue(S)
  BY DEF CloseQueue, Queue
<1>2. CloseQueue(x).closed = TRUE
  BY Zenon DEF CloseQueue, Queue
<1>3. QED
  BY <1>1, <1>2 DEF CloseQueue, Queue

\* clear() touches nothing but items_.
LEMMA ClearQueueProperties ==
    ASSUME NEW S, NEW x \in Queue(S)
    PROVE  /\ ClearQueue(x) \in Queue(S)
           /\ ClearQueue(x).items = <<>>
           /\ ClearQueue(x).dropped = x.dropped
           /\ ClearQueue(x).highWater = x.highWater
           /\ ClearQueue(x).capacity = x.capacity
           /\ ClearQueue(x).closed = x.closed
           /\ ClearQueue(x).policy = x.policy
<1>1. <<>> \in Seq(S)
  OBVIOUS
<1>2. ClearQueue(x) \in Queue(S)
  BY <1>1, SetItemsType DEF ClearQueue
<1>3. ClearQueue(x).items = <<>>
  BY Zenon DEF ClearQueue, Queue
<1>4. QED
  BY <1>2, <1>3 DEF ClearQueue, Queue

\* A queue as its constructor leaves it.
LEMMA NewQueueProperties ==
    ASSUME NEW S, NEW c \in Nat, NEW p \in OverflowPolicy
    PROVE  /\ NewQueue(c, p) \in Queue(S)
           /\ NewQueue(c, p).items = <<>>
           /\ NewQueue(c, p).closed = FALSE
           /\ NewQueue(c, p).dropped = 0
           /\ NewQueue(c, p).highWater = 0
           /\ NewQueue(c, p).capacity = IF c = 0 THEN 1 ELSE c
           /\ NewQueue(c, p).policy = p
<1>1. <<>> \in Seq(S)
  OBVIOUS
<1> DEFINE k == IF c = 0 THEN 1 ELSE c
<1>2. k \in Nat \ {0}
  OBVIOUS
<1> HIDE DEF k
<1>3. NewQueue(c, p) = [items |-> <<>>, closed |-> FALSE, dropped |-> 0, highWater |-> 0,
                        capacity |-> k, policy |-> p]
  BY DEF NewQueue, k
<1>4. NewQueue(c, p) \in Queue(S)
  BY <1>1, <1>2, <1>3 DEF Queue
<1>5. NewQueue(c, p).closed = FALSE
  BY Zenon DEF NewQueue
<1>6. /\ NewQueue(c, p).items = <<>>
      /\ NewQueue(c, p).dropped = 0 /\ NewQueue(c, p).highWater = 0
      /\ NewQueue(c, p).capacity = k /\ NewQueue(c, p).policy = p
  BY <1>3
<1>7. QED
  BY <1>4, <1>5, <1>6 DEF k

-----------------------------------------------------------------------------
(* Sums, powers of two, division, least and greatest elements. *)

\* Induction over a finite set, stated for a set of its subsets.
LEMMA FiniteInduction ==
    ASSUME NEW S, IsFiniteSet(S), NEW P, {} \in P,
           \A T \in SUBSET S : T \in P => \A x \in S \ T : T \cup {x} \in P
    PROVE  S \in P
<1> DEFINE m == Cardinality(S)
           K == {k \in 0..m : \A T \in SUBSET S : Cardinality(T) = k => T \in P}
<1>1. m \in Nat
  BY FS_CardinalityType
<1>2. \A T \in SUBSET S : IsFiniteSet(T)
  BY FS_Subset
<1> HIDE DEF m
<1>3. 0 \in K
  <2>1. \A T \in SUBSET S : Cardinality(T) = 0 => T = {}
    BY <1>2, FS_EmptySet
  <2>2. QED
    BY <1>1, <2>1
<1>4. \A k \in 0..(m - 1) : k \in K => k + 1 \in K
  <2> SUFFICES ASSUME NEW k \in 0..(m - 1), k \in K, NEW T \in SUBSET S, Cardinality(T) = k + 1
               PROVE  T \in P
    BY <1>1
  <2>1. T # {}
    <3>1. Cardinality({}) = 0 /\ k + 1 # 0
      BY <1>1, FS_EmptySet
    <3>2. QED
      BY <3>1
  <2>2. PICK x \in T : TRUE
    BY <2>1
  <2> DEFINE U == T \ {x}
  <2>3. Cardinality(U) = k /\ U \in SUBSET S /\ x \in S \ U /\ T = U \cup {x}
    <3>1. Cardinality(U) = Cardinality(T) - 1
      BY <1>2, <2>2, FS_RemoveElement
    <3>2. (k + 1) - 1 = k
      BY <1>1
    <3>3. QED
      BY <2>2, <3>1, <3>2
  <2> HIDE DEF U
  <2>4. U \in P
    BY <2>3
  <2>5. QED
    BY <2>3, <2>4
<1> HIDE DEF K
<1>5. m \in K
  BY <1>1, <1>3, <1>4, InductionUpTo
<1>6. QED
  BY <1>5 DEF K, m

-----------------------------------------------------------------------------
(* SumFunctionOnSet of the community modules. *)

\* It counts units.
LEMMA SumIsUnits ==
    ASSUME NEW T, IsFiniteSet(T), NEW f, \A x \in T : f[x] \in Nat
    PROVE  SumFunctionOnSet(f, T) = Cardinality(Units(f, T))
<1> DEFINE g == [x \in T |-> f[x]]
           Rec(h) == h = [U \in SUBSET T |->
                            IF U = {} THEN 0
                            ELSE f[CHOOSE x \in U : TRUE] + h[U \ {CHOOSE x \in U : TRUE}]]
           k == CHOOSE h : Rec(h)
<1>1. g \in [T -> Nat]
  OBVIOUS
<1>2. \A U \in SUBSET T : U # {} => g[CHOOSE x \in U : TRUE] = f[CHOOSE x \in U : TRUE]
  OBVIOUS
<1>3. Units(g, T) = Units(f, T)
  BY DEF Units
<1>4. SumFunctionOnSet(f, T) = k[T]
  BY DEF SumFunctionOnSet, FoldFunctionOnSet, MapThenFoldSet
<1> HIDE DEF g
<1>5. PICK h : SumFn(h, g, T)
  BY <1>1, SumDefined
<1>6. ASSUME NEW j
      PROVE  Rec(j) <=> SumFn(j, g, T)
  <2> DEFINE A(U) == IF U = {} THEN 0
                     ELSE f[CHOOSE x \in U : TRUE] + j[U \ {CHOOSE x \in U : TRUE}]
             B(U) == IF U = {} THEN 0
                     ELSE g[CHOOSE x \in U : TRUE] + j[U \ {CHOOSE x \in U : TRUE}]
  <2>1. ASSUME NEW U \in SUBSET T
        PROVE  A(U) = B(U)
    BY <1>2
  <2>2. Rec(j) <=> j = [U \in SUBSET T |-> A(U)]
    OBVIOUS
  <2>3. SumFn(j, g, T) <=> j = [U \in SUBSET T |-> B(U)]
    BY DEF SumFn
  <2> HIDE DEF A, B, Rec
  <2>4. [U \in SUBSET T |-> A(U)] = [U \in SUBSET T |-> B(U)]
    BY <2>1
  <2>5. QED
    BY <2>2, <2>3, <2>4
<1>7. Rec(k)
  <2>1. Rec(h)
    BY <1>5, <1>6
  <2> HIDE DEF Rec
  <2>2. QED
    BY <2>1
<1> HIDE DEF k, Rec
<1>8. SumFn(k, g, T)
  BY <1>6, <1>7
<1>9. k[T] = Cardinality(Units(g, T))
  BY <1>1, <1>8, SumCounts
<1>10. QED
  BY <1>3, <1>4, <1>9

\* A sum of natural numbers is one.
LEMMA SumType ==
    ASSUME NEW T, IsFiniteSet(T), NEW f, \A x \in T : f[x] \in Nat
    PROVE  SumFunctionOnSet(f, T) \in Nat
<1> DEFINE g == [x \in T |-> f[x]]
<1>1. g \in [T -> Nat] /\ T \in SUBSET T
  OBVIOUS
<1>2. Units(g, T) = Units(f, T)
  BY DEF Units
<1> HIDE DEF g
<1>3. IsFiniteSet(Units(g, T))
  BY <1>1, UnitsFinite
<1>4. QED
  BY <1>2, <1>3, SumIsUnits, FS_CardinalityType

\* The sum over nothing.
LEMMA SumEmpty == \A f : SumFunctionOnSet(f, {}) = 0
<1> SUFFICES ASSUME NEW f
             PROVE  SumFunctionOnSet(f, {}) = 0
  OBVIOUS
<1>1. SumFunctionOnSet(f, {}) = Cardinality(Units(f, {}))
  BY SumIsUnits, FS_EmptySet
<1>2. QED
  BY <1>1, UnitsEmpty, FS_EmptySet

\* One element more.
LEMMA SumInsert ==
    ASSUME NEW T, IsFiniteSet(T), NEW x, x \notin T, NEW f, \A y \in T \cup {x} : f[y] \in Nat
    PROVE  /\ IsFiniteSet(T \cup {x})
           /\ SumFunctionOnSet(f, T \cup {x}) = SumFunctionOnSet(f, T) + f[x]
<1> DEFINE V == T \cup {x}
           g == [y \in V |-> f[y]]
<1>1. IsFiniteSet(V)
  BY FS_AddElement
<1>2. g \in [V -> Nat] /\ T \in SUBSET V /\ x \in V /\ g[x] = f[x] /\ V = T \cup {x}
  OBVIOUS
<1>3. Units(g, T) = Units(f, T) /\ Units(g, V) = Units(f, V)
  BY DEF Units
<1>4. \A y \in V : f[y] \in Nat
  OBVIOUS
<1> HIDE DEF g, V
<1>5. IsFiniteSet(Units(g, T))
  BY <1>1, <1>2, UnitsFinite
<1>6. Cardinality(Units(g, T \cup {x})) = Cardinality(Units(g, T)) + g[x]
  BY <1>2, <1>5, UnitsAdd
<1>7. SumFunctionOnSet(f, V) = Cardinality(Units(f, V))
  BY <1>1, <1>4, SumIsUnits
<1>8. SumFunctionOnSet(f, T) = Cardinality(Units(f, T))
  BY <1>2, <1>4, SumIsUnits
<1>9. QED
  BY <1>1, <1>2, <1>3, <1>6, <1>7, <1>8

\* Sums of equal summands are equal.
LEMMA SumSame ==
    ASSUME NEW T, IsFiniteSet(T), NEW f, NEW g, \A x \in T : f[x] \in Nat /\ g[x] = f[x]
    PROVE  SumFunctionOnSet(g, T) = SumFunctionOnSet(f, T)
<1>1. Units(g, T) = Units(f, T)
  BY DEF Units
<1>2. QED
  BY <1>1, SumIsUnits

\* A sum of sums.
LEMMA SumPlus ==
    ASSUME NEW S, IsFiniteSet(S), NEW f, NEW g, NEW h,
           \A x \in S : f[x] \in Nat /\ g[x] \in Nat /\ h[x] = f[x] + g[x]
    PROVE  SumFunctionOnSet(h, S) = SumFunctionOnSet(f, S) + SumFunctionOnSet(g, S)
<1> DEFINE P == {T \in SUBSET S : SumFunctionOnSet(h, T)
                                    = SumFunctionOnSet(f, T) + SumFunctionOnSet(g, T)}
<1>0. \A x \in S : h[x] \in Nat
  OBVIOUS
<1>1. {} \in P
  BY SumEmpty
<1>2. ASSUME NEW T \in SUBSET S, T \in P, NEW x \in S \ T
      PROVE  T \cup {x} \in P
  <2>1. IsFiniteSet(T) /\ x \notin T
    BY FS_Subset
  <2>2. \A y \in T \cup {x} : f[y] \in Nat /\ g[y] \in Nat /\ h[y] \in Nat
    BY <1>0
  <2>3. /\ SumFunctionOnSet(f, T \cup {x}) = SumFunctionOnSet(f, T) + f[x]
        /\ SumFunctionOnSet(g, T \cup {x}) = SumFunctionOnSet(g, T) + g[x]
        /\ SumFunctionOnSet(h, T \cup {x}) = SumFunctionOnSet(h, T) + h[x]
    BY <2>1, <2>2, SumInsert
  <2>4. SumFunctionOnSet(f, T) \in Nat /\ SumFunctionOnSet(g, T) \in Nat
    BY <2>1, <2>2, SumType
  <2>5. SumFunctionOnSet(h, T \cup {x}) = SumFunctionOnSet(f, T \cup {x}) + SumFunctionOnSet(g, T \cup {x})
    <3>1. SumFunctionOnSet(h, T) = SumFunctionOnSet(f, T) + SumFunctionOnSet(g, T)
      BY <1>2
    <3>2. f[x] \in Nat /\ g[x] \in Nat /\ h[x] = f[x] + g[x]
      OBVIOUS
    <3>3. QED
      BY <2>3, <2>4, <3>1, <3>2
  <2>6. QED
    BY <2>5
<1> HIDE DEF P
<1>3. S \in P
  BY <1>1, <1>2, FiniteInduction
<1>4. QED
  BY <1>3 DEF P

\* The sum over two sets that have nothing in common.
LEMMA SumUnion ==
    ASSUME NEW A, IsFiniteSet(A), NEW B, IsFiniteSet(B), A \cap B = {},
           NEW f, \A x \in A \cup B : f[x] \in Nat
    PROVE  /\ IsFiniteSet(A \cup B)
           /\ SumFunctionOnSet(f, A \cup B) = SumFunctionOnSet(f, A) + SumFunctionOnSet(f, B)
<1> DEFINE P == {T \in SUBSET B : SumFunctionOnSet(f, A \cup T)
                                    = SumFunctionOnSet(f, A) + SumFunctionOnSet(f, T)}
<1>0. IsFiniteSet(A \cup B) /\ SumFunctionOnSet(f, A) \in Nat
  BY FS_Union, SumType
<1>1. {} \in P
  <2>1. A \cup {} = A
    OBVIOUS
  <2>2. QED
    BY <1>0, <2>1, SumEmpty
<1>2. ASSUME NEW T \in SUBSET B, T \in P, NEW x \in B \ T
      PROVE  T \cup {x} \in P
  <2> DEFINE C == A \cup T
  <2>1. IsFiniteSet(T) /\ x \notin T /\ x \notin C /\ C \in SUBSET (A \cup B)
    BY FS_Subset
  <2>2. IsFiniteSet(C)
    BY <1>0, <2>1, FS_Subset
  <2>3. A \cup (T \cup {x}) = C \cup {x}
    OBVIOUS
  <2>4. (\A y \in T \cup {x} : f[y] \in Nat) /\ (\A y \in C \cup {x} : f[y] \in Nat) /\ f[x] \in Nat
    OBVIOUS
  <2>5. SumFunctionOnSet(f, C) = SumFunctionOnSet(f, A) + SumFunctionOnSet(f, T)
    BY <1>2
  <2> HIDE DEF C
  <2>6. /\ SumFunctionOnSet(f, T \cup {x}) = SumFunctionOnSet(f, T) + f[x]
        /\ SumFunctionOnSet(f, C \cup {x}) = SumFunctionOnSet(f, C) + f[x]
    BY <2>1, <2>2, <2>4, SumInsert
  <2>7. SumFunctionOnSet(f, T) \in Nat
    BY <2>1, <2>4, SumType
  <2>8. SumFunctionOnSet(f, C \cup {x}) = SumFunctionOnSet(f, A) + SumFunctionOnSet(f, T \cup {x})
    BY <1>0, <2>4, <2>5, <2>6, <2>7
  <2>9. QED
    BY <2>3, <2>8
<1> HIDE DEF P
<1>3. B \in P
  BY <1>1, <1>2, FiniteInduction
<1>4. QED
  BY <1>0, <1>3 DEF P

\* The sum over a larger set is not smaller, and where the summands are 0 it is the same.
LEMMA SumSubset ==
    ASSUME NEW B, IsFiniteSet(B), NEW A \in SUBSET B, NEW f, \A x \in B : f[x] \in Nat
    PROVE  /\ SumFunctionOnSet(f, A) <= SumFunctionOnSet(f, B)
           /\ (\A x \in B \ A : f[x] = 0) => SumFunctionOnSet(f, A) = SumFunctionOnSet(f, B)
<1> DEFINE C == B \ A
           Z == [x \in C |-> 0]
<1>1. IsFiniteSet(A) /\ IsFiniteSet(C) /\ A \cap C = {} /\ A \cup C = B
  BY FS_Subset
<1>2. (\A x \in A \cup C : f[x] \in Nat) /\ (\A x \in A : f[x] \in Nat) /\ (\A x \in C : f[x] \in Nat)
  OBVIOUS
<1> HIDE DEF C
<1>3. SumFunctionOnSet(f, A \cup C) = SumFunctionOnSet(f, A) + SumFunctionOnSet(f, C)
  BY <1>1, <1>2, SumUnion
<1>4. SumFunctionOnSet(f, A) \in Nat /\ SumFunctionOnSet(f, C) \in Nat
  BY <1>1, <1>2, SumType
<1>5. ASSUME \A x \in C : f[x] = 0
      PROVE  SumFunctionOnSet(f, C) = 0
  <2>1. Units(f, C) = {}
    <3> SUFFICES ASSUME NEW u \in Units(f, C)
                 PROVE  FALSE
      OBVIOUS
    <3>1. PICK x \in C, i \in Nat : 1 <= i /\ i <= f[x]
      BY DEF Units
    <3>2. QED
      BY <1>5, <3>1
  <2>2. QED
    BY <1>1, <1>2, <2>1, SumIsUnits, FS_EmptySet
<1>6. SumFunctionOnSet(f, B) = SumFunctionOnSet(f, A) + SumFunctionOnSet(f, C)
  BY <1>1, <1>3
<1>7. SumFunctionOnSet(f, A) <= SumFunctionOnSet(f, B)
  BY <1>4, <1>6
<1>8. (\A x \in B \ A : f[x] = 0) => SumFunctionOnSet(f, A) = SumFunctionOnSet(f, B)
  BY <1>4, <1>5, <1>6 DEF C
<1>9. QED
  BY <1>7, <1>8

\* One summand changes.
LEMMA SumChange ==
    ASSUME NEW T, IsFiniteSet(T), NEW x \in T, NEW f, NEW g,
           \A y \in T : f[y] \in Nat /\ g[y] \in Nat, \A y \in T \ {x} : g[y] = f[y]
    PROVE  SumFunctionOnSet(g, T) + f[x] = SumFunctionOnSet(f, T) + g[x]
<1> DEFINE U == T \ {x}
<1>1. IsFiniteSet(U) /\ x \notin U /\ U \cup {x} = T
  BY FS_Subset
<1>2. \A y \in U \cup {x} : f[y] \in Nat /\ g[y] \in Nat
  OBVIOUS
<1>3. \A y \in U : f[y] \in Nat /\ g[y] = f[y]
  OBVIOUS
<1> HIDE DEF U
<1>4. /\ SumFunctionOnSet(f, U \cup {x}) = SumFunctionOnSet(f, U) + f[x]
      /\ SumFunctionOnSet(g, U \cup {x}) = SumFunctionOnSet(g, U) + g[x]
  BY <1>1, <1>2, SumInsert
<1>5. SumFunctionOnSet(g, U) = SumFunctionOnSet(f, U) /\ SumFunctionOnSet(f, U) \in Nat
  BY <1>1, <1>3, SumSame, SumType
<1>6. f[x] \in Nat /\ g[x] \in Nat
  OBVIOUS
<1>7. SumFunctionOnSet(f, T) = SumFunctionOnSet(f, U) + f[x] /\ SumFunctionOnSet(g, T) = SumFunctionOnSet(f, U) + g[x]
  BY <1>1, <1>4, <1>5
<1>8. \A a, b, c, p, q \in Int : p = a + b /\ q = a + c => q + b = p + c
  OBVIOUS
<1>9. SumFunctionOnSet(f, T) \in Int /\ SumFunctionOnSet(g, T) \in Int /\ SumFunctionOnSet(f, U) \in Int
  BY <1>5, <1>6, <1>7
<1>10. QED
  BY <1>6, <1>7, <1>8, <1>9

Class(S, class, j) == {x \in S : class[x] = j}

ClassUpTo(S, class, j) == {x \in S : class[x] <= j}

\* A sum over the elements of S, taken class by class.
LEMMA SumClasses ==
    ASSUME NEW S, IsFiniteSet(S), NEW f, \A x \in S : f[x] \in Nat,
           NEW class \in [S -> Nat], NEW n \in Nat,
           NEW c, \A j \in 0..n : c[j] = SumFunctionOnSet(f, Class(S, class, j))
    PROVE  \A i \in 0..n : SumFunctionOnSet(c, 0..i) = SumFunctionOnSet(f, ClassUpTo(S, class, i))
<1> DEFINE C(j) == {x \in S : class[x] = j}
           D(j) == {x \in S : class[x] <= j}
           P == {i \in 0..n : SumFunctionOnSet(c, 0..i) = SumFunctionOnSet(f, D(i))}
<1>1. \A j \in Nat : /\ IsFiniteSet(C(j)) /\ IsFiniteSet(D(j))
                     /\ (\A x \in C(j) : f[x] \in Nat) /\ (\A x \in D(j) : f[x] \in Nat)
  BY FS_Subset
<1>2. \A j \in 0..n : c[j] = SumFunctionOnSet(f, C(j)) /\ c[j] \in Nat
  <2>1. ASSUME NEW j \in 0..n
        PROVE  c[j] = SumFunctionOnSet(f, C(j)) /\ c[j] \in Nat
    <3>1. j \in Nat /\ c[j] = SumFunctionOnSet(f, C(j))
      <4>1. j \in Nat /\ c[j] = SumFunctionOnSet(f, C(j))
        BY DEF Class
      <4>2. QED
        BY <4>1
    <3>2. IsFiniteSet(C(j)) /\ \A x \in C(j) : f[x] \in Nat
      BY <1>1, <3>1
    <3> HIDE DEF C
    <3>3. QED
      BY <3>1, <3>2, SumType
  <2>2. QED
    BY <2>1
<1>3. \A i \in Nat : IsFiniteSet(0..i)
  BY FS_Interval
<1>4. 0 \in P
  <2>0. 0..0 = {} \cup {0} /\ D(0) = C(0) /\ 0 \in 0..n
    OBVIOUS
  <2>1. 0..0 = {} \cup {0} /\ D(0) = C(0) /\ c[0] \in Nat /\ 0 \in 0..n
    BY <1>2, <2>0
  <2>2. SumFunctionOnSet(c, {} \cup {0}) = SumFunctionOnSet(c, {}) + c[0]
    <3>1. \A y \in {} \cup {0} : c[y] \in Nat
      BY <2>1
    <3>2. QED
      BY <3>1, SumInsert, FS_EmptySet, ZenonT(40)
  <2>3. SumFunctionOnSet(c, 0..0) = c[0]
    BY <2>1, <2>2, SumEmpty
  <2>4. c[0] = SumFunctionOnSet(f, C(0))
    BY <1>2, <2>1
  <2> HIDE DEF C, D
  <2>5. QED
    BY <2>1, <2>3, <2>4
<1>5. \A i \in 0..(n - 1) : i \in P => i + 1 \in P
  <2> SUFFICES ASSUME NEW i \in 0..(n - 1), i \in P
               PROVE  SumFunctionOnSet(c, 0..(i + 1)) = SumFunctionOnSet(f, D(i + 1)) /\ i + 1 \in 0..n
    OBVIOUS
  <2> DEFINE m == i + 1
             I == 0..i
  <2>1. m \in 0..n /\ m \in Nat /\ i \in Nat /\ 0..m = I \cup {m} /\ m \notin I /\ IsFiniteSet(I)
    BY <1>3
  <2>2. \A j \in I \cup {m} : c[j] \in Nat
    <3>1. I \cup {m} \subseteq 0..n
      OBVIOUS
    <3>2. QED
      BY <1>2, <3>1
  <2>3. D(m) = D(i) \cup C(m) /\ D(i) \cap C(m) = {}
    <3>1. \A k \in Nat : k <= m <=> (k <= i \/ k = m)
      OBVIOUS
    <3>2. \A k \in Nat : ~(k <= i /\ k = m)
      OBVIOUS
    <3> HIDE DEF m
    <3>3. QED
      BY <3>1, <3>2
  <2>4. /\ IsFiniteSet(D(i)) /\ IsFiniteSet(C(m)) /\ \A x \in D(i) \cup C(m) : f[x] \in Nat
    BY <1>1, <2>1
  <2>5. SumFunctionOnSet(c, I) = SumFunctionOnSet(f, D(i))
    OBVIOUS
  <2>6. c[m] = SumFunctionOnSet(f, C(m))
    BY <1>2, <2>1
  <2> HIDE DEF m, I, C, D
  <2>7. SumFunctionOnSet(c, I \cup {m}) = SumFunctionOnSet(c, I) + c[m]
    BY <2>1, <2>2, SumInsert, ZenonT(40)
  <2>8. SumFunctionOnSet(f, D(i) \cup C(m)) = SumFunctionOnSet(f, D(i)) + SumFunctionOnSet(f, C(m))
    BY <2>3, <2>4, SumUnion, ZenonT(40)
  <2>9. SumFunctionOnSet(c, 0..m) = SumFunctionOnSet(f, D(m)) /\ m \in 0..n
    BY <2>1, <2>3, <2>5, <2>6, <2>7, <2>8
  <2>10. QED
    BY <2>9 DEF m
<1> HIDE DEF P
<1>6. \A i \in 0..n : i \in P
  BY <1>4, <1>5, InductionUpTo
<1>7. \A i \in 0..n : ClassUpTo(S, class, i) = D(i)
  BY DEF ClassUpTo
<1> HIDE DEF D
<1>8. QED
  BY <1>6, <1>7 DEF P

-----------------------------------------------------------------------------
(* Powers of two.  The provers know nothing of them but that they count       *)
(* subsets.                                                                   *)

\* The subsets of a set with one element more are twice as many.
LEMMA TwiceAsMany ==
    ASSUME NEW S, IsFiniteSet(S), NEW x, x \notin S
    PROVE  /\ Cardinality(SUBSET S) \in Nat
           /\ Cardinality(SUBSET (S \cup {x})) = Cardinality(SUBSET S) + Cardinality(SUBSET S)
<1> DEFINE A == SUBSET S
           B == {T \cup {x} : T \in A}
           h == [T \in A |-> T \cup {x}]
<1>1. IsFiniteSet(A) /\ Cardinality(A) \in Nat
  BY FS_SUBSET, FS_CardinalityType
<1>2. SUBSET (S \cup {x}) = A \cup B
  <2>1. ASSUME NEW U \in SUBSET (S \cup {x})
        PROVE  U \in A \cup B
    <3>1. CASE x \notin U
      BY <3>1
    <3>2. CASE x \in U
      <4>1. U \ {x} \in A /\ U = (U \ {x}) \cup {x}
        BY <3>2
      <4>2. QED
        BY <4>1
    <3>3. QED
      BY <3>1, <3>2
  <2>2. QED
    BY <2>1
<1>3. A \cap B = {}
  OBVIOUS
<1>4. IsFiniteSet(B) /\ Cardinality(B) = Cardinality(A)
  <2>1. h \in Bijection(A, B)
    <3>1. h \in [A -> B]
      OBVIOUS
    <3>2. ASSUME NEW T \in A, NEW U \in A, h[T] = h[U]
          PROVE  T = U
      <4>1. T = (T \cup {x}) \ {x} /\ U = (U \cup {x}) \ {x}
        OBVIOUS
      <4>2. T \cup {x} = U \cup {x}
        BY <3>2
      <4>3. QED
        BY <4>1, <4>2
    <3>3. \A b \in B : \E T \in A : h[T] = b
      OBVIOUS
    <3> HIDE DEF h, B, A
    <3>4. QED
      BY <3>1, <3>2, <3>3, Zenon DEF Bijection, Injection, IsInjective, Surjection
  <2>2. ExistsBijection(A, B)
    BY <2>1 DEF ExistsBijection
  <2> HIDE DEF A, B
  <2>3. QED
    BY <1>1, <2>2, FS_Bijection
<1> HIDE DEF A, B
<1>5. Cardinality(A \cup B) = Cardinality(A) + Cardinality(B) - Cardinality(A \cap B)
  BY <1>1, <1>4, FS_Union
<1>6. Cardinality(A \cap B) = 0
  BY <1>3, FS_EmptySet
<1>7. \A a \in Nat : a + a - 0 = a + a
  OBVIOUS
<1>8. QED
  BY <1>1, <1>2, <1>4, <1>5, <1>6, <1>7 DEF A

\* What powers of two are.
LEMMA PowerStep ==
    /\ 2^0 = 1
    /\ \A n \in Nat : 2^n \in Nat /\ 2^n >= 1 /\ 2^(n + 1) = 2 * 2^n
<1> DEFINE Q(n) == Cardinality(SUBSET (1..n))
<1>1. \A n \in Nat : IsFiniteSet(1..n) /\ Cardinality(1..n) = n
  BY FS_Interval
<1>2. \A n \in Nat : 2^n = Q(n)
  BY <1>1, FS_SUBSET
<1>3. ASSUME NEW n \in Nat
      PROVE  Q(n) \in Nat /\ Q(n + 1) = Q(n) + Q(n)
  <2> DEFINE m == n + 1
             S == 1..n
  <2>1. m \notin S /\ 1..m = S \cup {m} /\ IsFiniteSet(S)
    BY <1>1
  <2> HIDE DEF m, S
  <2>2. Cardinality(SUBSET S) \in Nat /\ Cardinality(SUBSET (S \cup {m})) = Cardinality(SUBSET S) + Cardinality(SUBSET S)
    BY <2>1, TwiceAsMany
  <2>3. Q(n) = Cardinality(SUBSET S) /\ Q(n + 1) = Cardinality(SUBSET (1..m))
    BY DEF m, S
  <2>4. QED
    BY <2>1, <2>2, <2>3
<1>4. Q(0) = 1
  <2>1. SUBSET (1..0) = {{}}
    OBVIOUS
  <2>2. QED
    BY <2>1, FS_Singleton
<1> HIDE DEF Q
<1> DEFINE K == {n \in Nat : Q(n) >= 1}
<1>5. ASSUME NEW n \in Nat
      PROVE  Q(n) >= 1
  <2>1. 0 \in K
    BY <1>4
  <2>2. \A i \in 0..(n - 1) : i \in K => i + 1 \in K
    BY <1>3
  <2> HIDE DEF K
  <2>3. n \in K
    BY <2>1, <2>2, InductionUpTo
  <2>4. QED
    BY <2>3 DEF K
<1>6. ASSUME NEW n \in Nat
      PROVE  2^n \in Nat /\ 2^n >= 1 /\ 2^(n + 1) = 2 * 2^n
  <2>1. 2^n = Q(n) /\ 2^(n + 1) = Q(n + 1)
    BY <1>2
  <2>2. Q(n) \in Nat /\ Q(n) >= 1 /\ Q(n + 1) = 2 * Q(n)
    BY <1>3, <1>5
  <2>3. QED
    BY <2>1, <2>2
<1>7. 2^0 = 1
  BY <1>2, <1>4
<1>8. QED
  BY <1>6, <1>7

\* Exponents add up.
LEMMA PowerAdd ==
    ASSUME NEW a \in Nat, NEW b \in Nat
    PROVE  2^(a + b) = 2^a * 2^b
<1> DEFINE K == {n \in Nat : 2^(a + n) = 2^a * 2^n}
<1>1. 0 \in K
  <2>1. a + 0 = a /\ 2^a \in Nat /\ 2^0 = 1
    BY PowerStep
  <2>2. QED
    BY <2>1
<1>2. ASSUME NEW n \in 0..(b - 1), n \in K
      PROVE  n + 1 \in K
  <2> DEFINE x == 2^a
             y == 2^n
             z == 2^(a + n)
  <2>1. x \in Nat /\ y \in Nat /\ z = x * y
    BY <1>2, PowerStep
  <2>2. 2^(n + 1) = 2 * y
    BY PowerStep
  <2>3. 2^((a + n) + 1) = 2 * z
    BY PowerStep
  <2>4. a + (n + 1) = (a + n) + 1
    OBVIOUS
  <2> HIDE DEF x, y, z
  <2>5. 2 * z = x * (2 * y)
    BY <2>1
  <2>6. 2^(a + (n + 1)) = x * 2^(n + 1)
    BY <2>2, <2>3, <2>4, <2>5
  <2>7. QED
    BY <2>6 DEF x
<1> HIDE DEF K
<1>3. b \in K
  BY <1>1, <1>2, InductionUpTo
<1>4. QED
  BY <1>3 DEF K

\* Powers grow.
LEMMA PowerGrows ==
    ASSUME NEW a \in Nat, NEW b \in Nat, a <= b
    PROVE  2^a <= 2^b
<1> DEFINE c == b - a
<1>1. c \in Nat /\ b = a + c
  OBVIOUS
<1> HIDE DEF c
<1>2. 2^b = 2^a * 2^c /\ 2^a \in Nat /\ 2^c \in Nat /\ 2^c >= 1
  BY <1>1, PowerAdd, PowerStep
<1>3. \A x, y \in Nat : y >= 1 => x <= x * y
  OBVIOUS
<1>4. QED
  BY <1>2, <1>3

-----------------------------------------------------------------------------
(* Quotients, minima and maxima. *)

\* A quotient, from the number that it is the quotient of.
LEMMA DivIs ==
    ASSUME NEW B \in Nat, B >= 1, NEW a \in Nat, NEW r \in Nat, r < B
    PROVE  (a * B + r) \div B = a /\ (a * B + r) % B = r
<1> DEFINE x == a * B + r
           q == x \div B
           s == x % B
<1>1. x \in Nat
  OBVIOUS
<1> HIDE DEF x
<1>2. x = B * q + s /\ q \in Int /\ s \in 0..(B - 1)
  BY <1>1
<1> HIDE DEF q, s
<1>3. B * q + s = B * a + r
  BY <1>2 DEF x
<1>4. q = a
  <2>1. ASSUME q >= a + 1 PROVE FALSE
    <3>1. B * q >= B * (a + 1)
      BY <1>2, <2>1
    <3>2. B * (a + 1) = B * a + B
      OBVIOUS
    <3>3. QED
      BY <1>2, <1>3, <3>1, <3>2
  <2>2. ASSUME a >= q + 1 PROVE FALSE
    <3>1. B * a >= B * (q + 1)
      BY <1>2, <2>2
    <3>2. B * (q + 1) = B * q + B
      BY <1>2
    <3>3. QED
      BY <1>2, <1>3, <3>1, <3>2
  <2>3. QED
    BY <1>2, <2>1, <2>2
<1>5. s = r
  BY <1>2, <1>3, <1>4
<1>6. QED
  BY <1>4, <1>5 DEF q, s, x

\* Every number is a multiple and a rest.
LEMMA DivMod ==
    ASSUME NEW x \in Nat, NEW B \in Nat, B >= 1
    PROVE  \E a \in Nat, r \in 0..(B - 1) : x = a * B + r
<1> DEFINE a == x \div B
           r == x % B
<1>1. x = B * a + r /\ a \in Int /\ r \in 0..(B - 1)
  OBVIOUS
<1> HIDE DEF a, r
<1>2. a \in Nat
  <2>1. ASSUME a <= -1 PROVE FALSE
    <3>1. B * a <= B * (-1)
      BY <1>1, <2>1
    <3>2. QED
      BY <1>1, <3>1
  <2>2. QED
    BY <1>1, <2>1
<1>3. x = a * B + r
  BY <1>1
<1>4. QED
  BY <1>1, <1>2, <1>3

\* The least element.
LEMMA MinIs ==
    ASSUME NEW S, S \subseteq Int, NEW x \in S, \A y \in S : x <= y
    PROVE  Min(S) = x
<1>1. \A z \in S : (\A y \in S : z <= y) => z = x
  <2>1. ASSUME NEW z \in S, \A y \in S : z <= y
        PROVE  z = x
    <3>1. z <= x /\ x <= z /\ z \in Int /\ x \in Int
      BY <2>1
    <3>2. QED
      BY <3>1
  <2>2. QED
    BY <2>1
<1>2. QED
  BY <1>1 DEF Min

\* The greatest element.
LEMMA MaxIs ==
    ASSUME NEW S, S \subseteq Int, NEW x \in S, \A y \in S : x >= y
    PROVE  Max(S) = x
<1>1. \A z \in S : (\A y \in S : z >= y) => z = x
  <2>1. ASSUME NEW z \in S, \A y \in S : z >= y
        PROVE  z = x
    <3>1. z >= x /\ x >= z /\ z \in Int /\ x \in Int
      BY <2>1
    <3>2. QED
      BY <3>1
  <2>2. QED
    BY <2>1
<1>2. QED
  BY <1>1 DEF Max

\* A set of numbers has a least element.
LEMMA MinOf ==
    ASSUME NEW S, S \subseteq Nat, S # {}
    PROVE  Min(S) \in S /\ \A y \in S : Min(S) <= y
<1>1. PICK x \in S : \A y \in S : x <= y
  BY LeastNat
<1>2. S \subseteq Int
  OBVIOUS
<1>3. Min(S) = x
  BY <1>1, <1>2, MinIs
<1>4. QED
  BY <1>1, <1>3

\* A set of bounded numbers has a greatest element.
LEMMA MaxOf ==
    ASSUME NEW n \in Nat, NEW S, S \subseteq 0..n, S # {}
    PROVE  Max(S) \in S /\ \A y \in S : Max(S) >= y
<1> DEFINE T == {t \in 0..n : n - t \in S}
<1>0. \A x \in S : x \in 0..n /\ n - x \in 0..n /\ n - (n - x) = x
  OBVIOUS
<1>1. T \subseteq Nat /\ T # {}
  <2>1. PICK y \in S : TRUE
    OBVIOUS
  <2>2. n - y \in T
    BY <1>0, <2>1
  <2>3. T \subseteq Nat
    OBVIOUS
  <2> HIDE DEF T
  <2>4. QED
    BY <2>2, <2>3
<1>2. PICK t \in T : \A y \in T : t <= y
  <2> HIDE DEF T
  <2>1. QED
    BY <1>1, LeastNat
<1> DEFINE x == n - t
<1>3. x \in S /\ t = n - x
  BY <1>2
<1>4. \A y \in S : x >= y
  <2>1. ASSUME NEW y \in S
        PROVE  x >= y
    <3>1. n - y \in T /\ x \in Nat /\ y \in Nat /\ t \in Nat
      BY <1>0, <1>2, <1>3
    <3> HIDE DEF T, x
    <3>2. t <= n - y
      BY <1>2, <3>1
    <3>3. QED
      BY <1>3, <3>1, <3>2
  <2>2. QED
    BY <2>1
<1>5. S \subseteq Int
  OBVIOUS
<1> HIDE DEF x, T
<1>6. Max(S) = x
  BY <1>3, <1>4, <1>5, MaxIs
<1>7. QED
  BY <1>3, <1>4, <1>6
=============================================================================
