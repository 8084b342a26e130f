----------------------------- MODULE ListLemmas -----------------------------
(***************************************************************************)
(* Facts about sets of numbers and about lists that the proofs of several  *)
(* components use: least, largest and k-th elements, induction over a      *)
(* bounded set of numbers, lists put together from pieces, and lists with  *)
(* elements left out or put in order.                                      *)
(***************************************************************************)
EXTENDS Integers, Lists, SequencesExt, FiniteSetTheorems, SequenceTheorems, WellFoundedInduction, TLAPS

\* A nonempty set of numbers up to N has a largest one: N minus the least
\* distance from N.
LEMMA LargestExists ==
  ASSUME NEW N \in Nat, NEW S \in SUBSET (0 .. N), S # {}
  PROVE  \E v \in S : \A w \in S : w <= v
<1> DEFINE T == {N - v : v \in S}
<1> DEFINE Less == {ss \in Nat \X Nat : ss[1] < ss[2]}
<1>0. IsWellFoundedOn(Less, Nat)
  BY NatLessThanWellFounded DEF OpToRel
<1>1. \A v \in S : v \in Nat /\ N - v \in Nat
  OBVIOUS
<1>2. T \subseteq Nat /\ T # {}
  BY <1>1
<1>3. PICK t \in T : \A u \in T : ~ (<<u, t>> \in Less)
  <2> HIDE DEF T, Less
  <2> QED
    BY <1>0, <1>2, WFMin
<1>4. PICK v \in S : t = N - v
  OBVIOUS
<1>5. \A w \in S : w <= v
  <2> SUFFICES ASSUME NEW w \in S, ~ (w <= v) PROVE FALSE
    OBVIOUS
  <2>1. N - w < N - v
    BY <1>1
  <2>2. N - w \in T
    OBVIOUS
  <2>3. <<N - w, t>> \in Less
    BY <1>2, <1>4, <2>1, <2>2
  <2> QED
    BY <1>3, <2>2, <2>3
<1> QED
  BY <1>5

\* Every nonempty set of natural numbers has a least one.
LEMMA LeastExists ==
  ASSUME NEW S \in SUBSET Nat, S # {}
  PROVE  \E v \in S : \A w \in S : v <= w
<1> DEFINE Less == {ss \in Nat \X Nat : ss[1] < ss[2]}
<1>1. IsWellFoundedOn(Less, Nat)
  BY NatLessThanWellFounded DEF OpToRel
<1>2. PICK v \in S : \A w \in S : ~ (<<w, v>> \in Less)
  <2> HIDE DEF Less
  <2> QED
    BY <1>1, WFMin
<1>3. ASSUME NEW w \in S, ~ (v <= w)
      PROVE  FALSE
  <2>1. w \in Nat /\ v \in Nat /\ w < v
    BY <1>3
  <2>2. <<w, v>> \in Less
    BY <2>1
  <2> QED
    BY <1>2, <2>2
<1> QED
  BY <1>3

\* What is listed in finitely many places is bounded: the first place up to
\* which there is no bound would have one behind the place before it.
LEMMA BoundExists ==
  ASSUME NEW n \in Nat, NEW f, \A k \in 1 .. n : f[k] \in Nat
  PROVE  \E b \in Nat : \A k \in 1 .. n : f[k] <= b
<1> DEFINE Bounded(m) == \E b \in Nat : \A k \in 1 .. m : f[k] <= b
           Bad == {m \in 0 .. n : ~ Bounded(m)}
<1> SUFFICES ASSUME Bad # {}
             PROVE  FALSE
  <2>1. n \in 0 .. n
    OBVIOUS
  <2> QED
    BY <2>1
<1>1. PICK m \in Bad : \A w \in Bad : m <= w
  <2>1. Bad \in SUBSET Nat
    OBVIOUS
  <2> HIDE DEF Bad
  <2> QED
    BY <2>1, LeastExists
<1>2. m \in 0 .. n /\ ~ Bounded(m)
  OBVIOUS
<1>3. m # 0
  <2>1. Bounded(0)
    <3>1. 0 \in Nat /\ \A k \in 1 .. 0 : f[k] <= 0
      OBVIOUS
    <3> QED
      BY <3>1
  <2> QED
    BY <1>2, <2>1
<1>4. Bounded(m - 1)
  <2>1. m - 1 \in 0 .. n /\ ~ (m <= m - 1)
    BY <1>2, <1>3
  <2>2. m - 1 \notin Bad
    BY <1>1, <2>1
  <2> QED
    BY <2>1, <2>2
<1>5. PICK b \in Nat : \A k \in 1 .. m - 1 : f[k] <= b
  BY <1>4
<1>6. m \in 1 .. n /\ f[m] \in Nat
  BY <1>2, <1>3
<1>7. b + f[m] \in Nat /\ \A k \in 1 .. m : f[k] <= b + f[m]
  <2> SUFFICES ASSUME NEW k \in 1 .. m
               PROVE  f[k] <= b + f[m]
    BY <1>6
  <2>1. CASE k = m
    BY <1>6, <2>1
  <2>2. CASE k # m
    <3>1. k \in 1 .. m - 1 /\ f[k] \in Nat
      BY <1>6, <2>2
    <3> QED
      BY <1>5, <1>6, <3>1
  <2> QED
    BY <2>1, <2>2
<1> QED
  BY <1>2, <1>7

-----------------------------------------------------------------------------
\* The numbers of I up to i.
UpTo(I, i) == {j \in I : j <= i}

\* A finite set of n numbers has a k-th smallest one for k up to n: the least one
\* with at least k numbers up to it.
LEMMA KthExists ==
  ASSUME NEW N \in Nat, NEW I \in SUBSET (0 .. N), NEW k \in 1 .. Cardinality(I)
  PROVE  \E i \in I : Cardinality(UpTo(I, i)) = k
<1>1. IsFiniteSet(I) /\ Cardinality(I) \in Nat /\ I \subseteq Nat
  <2>1. IsFiniteSet(0 .. N)
    BY FS_Interval
  <2>2. IsFiniteSet(I)
    BY <2>1, FS_Subset
  <2> QED
    BY <2>2, FS_CardinalityType
<1>2. \A i \in I : IsFiniteSet(UpTo(I, i)) /\ Cardinality(UpTo(I, i)) \in Nat
  <2> TAKE i \in I
  <2>1. UpTo(I, i) \in SUBSET I
    BY DEF UpTo
  <2>2. IsFiniteSet(UpTo(I, i))
    BY <1>1, <2>1, FS_Subset
  <2> QED
    BY <2>2, FS_CardinalityType
<1> DEFINE T == {i \in I : Cardinality(UpTo(I, i)) >= k}
<1>3. T # {}
  <2>1. I # {}
    BY <1>1, FS_EmptySet
  <2>2. PICK v \in I : \A w \in I : w <= v
    BY <2>1, LargestExists
  <2>3. UpTo(I, v) = I
    BY <2>2 DEF UpTo
  <2>4. Cardinality(UpTo(I, v)) >= k
    BY <1>1, <2>3
  <2> QED
    BY <2>4
<1>4. PICK i \in T : \A w \in T : i <= w
  <2>1. T \in SUBSET Nat
    BY <1>1
  <2> HIDE DEF T
  <2> QED
    BY <1>3, <2>1, LeastExists
<1> DEFINE B == UpTo(I, i) \ {i}
<1>5. /\ i \in I /\ Cardinality(UpTo(I, i)) >= k
      /\ \A w \in I : Cardinality(UpTo(I, w)) >= k => i <= w
  BY <1>4
<1>6. i \in UpTo(I, i) /\ i \in Nat
  BY <1>1, <1>5 DEF UpTo
<1>7. IsFiniteSet(B) /\ Cardinality(B) = Cardinality(UpTo(I, i)) - 1
  BY <1>2, <1>5, <1>6, FS_RemoveElement
<1>8. CASE Cardinality(UpTo(I, i)) = k
  BY <1>5, <1>8
<1>9. CASE Cardinality(UpTo(I, i)) # k
  <2>1. Cardinality(B) \in Nat /\ Cardinality(B) >= k /\ Cardinality(B) # 0
    BY <1>2, <1>5, <1>7, <1>9
  <2>2. B # {} /\ B \in SUBSET (0 .. N)
    BY <1>7, <2>1, FS_EmptySet DEF UpTo
  <2> HIDE DEF B
  <2>3. PICK p \in B : \A w \in B : w <= p
    BY <2>2, LargestExists
  <2>4. p \in I /\ p < i /\ UpTo(I, p) = B
    <3>1. \A j : j \in B <=> j \in I /\ j < i
      <4>1. \A j \in I : j \in Nat /\ (j < i <=> j <= i /\ j # i)
        BY <1>1, <1>6
      <4>2. B = {j \in I : j <= i} \ {i}
        BY DEF UpTo, B
      <4> QED
        BY <4>1, <4>2
    <3>2. p \in I /\ p < i /\ \A j \in B : j <= p
      BY <2>3, <3>1
    <3>3. \A j \in I : j <= p <=> j \in B
      BY <1>1, <1>5, <3>1, <3>2
    <3>4. B \subseteq I
      BY <3>1
    <3> QED
      BY <3>2, <3>3, <3>4 DEF UpTo
  <2> QED
    BY <1>1, <1>5, <1>6, <2>1, <2>4
<1> QED
  BY <1>8, <1>9

\* Induction up to n, over the set of the numbers for which something holds.
LEMMA UpToInduction ==
  ASSUME NEW n \in Nat, NEW P, 0 \in P, \A k \in 1 .. n : k - 1 \in P => k \in P
  PROVE  \A k \in 0 .. n : k \in P
<1> DEFINE Bad == {k \in 0 .. n : k \notin P}
<1> SUFFICES ASSUME Bad # {} PROVE FALSE
  OBVIOUS
<1>1. PICK m \in Bad : \A w \in Bad : m <= w
  <2>1. Bad \in SUBSET Nat
    OBVIOUS
  <2> HIDE DEF Bad
  <2> QED
    BY <2>1, LeastExists
<1>2. m \in 1 .. n /\ m \notin P
  OBVIOUS
<1>3. m - 1 \in 0 .. n /\ ~ (m <= m - 1)
  BY <1>2
<1>4. m - 1 \in P
  BY <1>1, <1>3
<1> QED
  BY <1>2, <1>4

\* Induction from n down: what holds of a number if it holds of all larger ones.
LEMMA DownInduction ==
  ASSUME NEW n \in Nat, NEW P,
         \A k \in 0 .. n : (\A j \in 0 .. n : k < j => j \in P) => k \in P
  PROVE  \A k \in 0 .. n : k \in P
<1> DEFINE Bad == {k \in 0 .. n : k \notin P}
<1> SUFFICES ASSUME Bad # {} PROVE FALSE
  OBVIOUS
<1>1. PICK m \in Bad : \A w \in Bad : w <= m
  <2>1. Bad \in SUBSET (0 .. n)
    OBVIOUS
  <2> HIDE DEF Bad
  <2> QED
    BY <2>1, LargestExists
<1>2. m \in 0 .. n /\ m \notin P
  OBVIOUS
<1>3. ASSUME NEW j \in 0 .. n, m < j
      PROVE  j \in P
  BY <1>1, <1>2, <1>3
<1> QED
  BY <1>2, <1>3

-----------------------------------------------------------------------------
\* u is s with t behind it.
IsConcat(u, s, t) ==
    /\ Len(s) \in Nat /\ Len(t) \in Nat /\ Len(u) = Len(s) + Len(t)
    /\ \A i \in 1 .. Len(s) : u[i] = s[i]
    /\ \A j \in 1 .. Len(t) : u[Len(s) + j] = t[j]

\* s \o t is s with t behind it.
LEMMA ConcatAt ==
  ASSUME NEW X, NEW s \in Seq(X), NEW t \in Seq(X)
  PROVE  s \o t \in Seq(X) /\ IsConcat(s \o t, s, t)
  BY DEF IsConcat

\* r has the n elements of s behind the first a.
IsPart(r, s, a, n) == Len(r) = n /\ \A j \in 1 .. n : r[j] = s[a + j]

\* SubSeq(s, a + 1, i) has the elements of s behind the first a, up to the i-th.
LEMMA PartAt ==
  ASSUME NEW X, NEW s \in Seq(X), NEW a \in Nat, NEW i \in Nat, a <= i, i <= Len(s)
  PROVE  SubSeq(s, a + 1, i) \in Seq(X) /\ IsPart(SubSeq(s, a + 1, i), s, a, i - a)
<1>0. Len(s) \in Nat
  BY LenProperties
<1> DEFINE r == SubSeq(s, a + 1, i)
<1>1. a + 1 \in 1 .. Len(s) + 1 /\ i \in (a + 1) - 1 .. Len(s) /\ i - (a + 1) + 1 = i - a
  BY <1>0
<1>2. r \in Seq(X) /\ Len(r) = i - (a + 1) + 1 /\ \A j \in 1 .. i - (a + 1) + 1 : r[j] = s[(a + 1) + j - 1]
  BY <1>1, SubSeqProperties
<1>3. \A j \in 1 .. i - a : (a + 1) + j - 1 = a + j
  OBVIOUS
<1> HIDE DEF r
<1>4. r \in Seq(X) /\ Len(r) = i - a /\ \A j \in 1 .. i - a : r[j] = s[a + j]
  BY <1>1, <1>2, <1>3
<1> QED
  BY <1>4 DEF r, IsPart

\* A sequence that starts like another has it as its first part.
LEMMA PrefixIs ==
  ASSUME NEW X, NEW s \in Seq(X), NEW t \in Seq(X), Len(t) <= Len(s), \A i \in 1 .. Len(t) : s[i] = t[i]
  PROVE  SubSeq(s, 1, Len(t)) = t
<1>0. PICK n \in Nat : n = Len(t)
  BY LenProperties
<1>1. Len(s) \in Nat
  BY LenProperties
<1> DEFINE r == SubSeq(s, 1, n)
<1>2. r \in Seq(X) /\ Len(r) = n /\ \A i \in 1 .. n : r[i] = s[i]
  <2>1. 1 \in 1 .. Len(s) + 1 /\ n \in 1 - 1 .. Len(s) /\ n - 1 + 1 = n /\ \A i \in 1 .. n : 1 + i - 1 = i
    BY <1>0, <1>1
  <2>2. r \in Seq(X) /\ Len(r) = n - 1 + 1 /\ \A i \in 1 .. n - 1 + 1 : r[i] = s[1 + i - 1]
    BY <2>1, SubSeqProperties
  <2> HIDE DEF r
  <2> QED
    BY <2>1, <2>2
<1> HIDE DEF r
<1>3. \A i \in 1 .. Len(r) : r[i] = t[i]
  BY <1>0, <1>2
<1>4. r = t
  BY <1>0, <1>2, <1>3, SeqEqual
<1> QED
  BY <1>0, <1>4 DEF r

-----------------------------------------------------------------------------
\* Where the pieces of cs end when they are put one behind the other.
EndsOf(cs, e) ==
    /\ e \in [0 .. Len(cs) -> Nat]
    /\ e[0] = 0
    /\ \A k \in 1 .. Len(cs) : e[k] = e[k - 1] + Len(cs[k])

\* Pieces that are put one behind the other end somewhere.
LEMMA EndsExist ==
  ASSUME NEW X, NEW cs \in Seq(Seq(X))
  PROVE  \E e : EndsOf(cs, e)
<1> DEFINE Good(e, n) == /\ e \in [0 .. n -> Nat]
                         /\ e[0] = 0
                         /\ \A k \in 1 .. n : e[k] = e[k - 1] + Len(cs[k])
           P == {n \in 0 .. Len(cs) : \E e : Good(e, n)}
<1>0. Len(cs) \in Nat /\ \A k \in 1 .. Len(cs) : Len(cs[k]) \in Nat
  BY ElementOfSeq, LenProperties
<1>1. 0 \in P
  <2>1. Good([k \in 0 .. 0 |-> 0], 0)
    OBVIOUS
  <2> HIDE DEF Good
  <2> QED
    BY <1>0, <2>1
<1>2. ASSUME NEW n \in 1 .. Len(cs), n - 1 \in P
      PROVE  n \in P
  <2>1. PICK d : Good(d, n - 1)
    BY <1>2
  <2> DEFINE e == [k \in 0 .. n |-> IF k = n THEN d[n - 1] + Len(cs[n]) ELSE d[k]]
  <2>0. n \in Nat /\ n # 0 /\ n - 1 \in Nat /\ Len(cs[n]) \in Nat /\ d[n - 1] \in Nat
    <3>1. n \in Nat /\ n # 0 /\ n - 1 \in Nat /\ Len(cs[n]) \in Nat
      BY <1>0
    <3> QED
      BY <2>1, <3>1
  <2>2. e \in [0 .. n -> Nat]
    <3>1. ASSUME NEW k \in 0 .. n PROVE e[k] \in Nat
      <4>1. CASE k = n
        BY <2>0, <4>1
      <4>2. CASE k # n
        <5>1. k \in 0 .. n - 1
          BY <2>0, <4>2
        <5> QED
          BY <2>1, <4>2, <5>1
      <4> QED
        BY <4>1, <4>2
    <3> QED
      BY <3>1
  <2>3. e[0] = 0
    BY <2>0, <2>1
  <2>4. ASSUME NEW k \in 1 .. n PROVE e[k] = e[k - 1] + Len(cs[k])
    <3>1. k \in 0 .. n /\ k - 1 \in 0 .. n /\ k - 1 # n
      BY <2>0
    <3>2. e[k - 1] = d[k - 1]
      BY <3>1
    <3>3. CASE k = n
      BY <3>1, <3>2, <3>3
    <3>4. CASE k # n
      <4>1. k \in 1 .. n - 1
        BY <2>0, <3>4
      <4>2. e[k] = d[k]
        BY <3>1, <3>4
      <4> QED
        BY <2>1, <3>2, <4>1, <4>2
    <3> QED
      BY <3>3, <3>4
  <2>5. Good(e, n)
    BY <2>2, <2>3, <2>4
  <2> HIDE DEF Good, e
  <2> QED
    BY <2>5
<1>3. Len(cs) \in P
  <2> HIDE DEF P
  <2>1. \A n \in 0 .. Len(cs) : n \in P
    BY <1>0, <1>1, <1>2, UpToInduction
  <2> QED
    BY <1>0, <2>1
<1> QED
  BY <1>3 DEF EndsOf

\* FlattenSeq satisfies the equation it is defined by.
LEMMA FlattenDefined ==
  ASSUME NEW cs, Len(cs) \in Nat, Len(cs) # 0
  PROVE  \E f : /\ f = [i \in 1 .. Len(cs) |-> IF i = 1 THEN cs[i] ELSE f[i - 1] \o cs[i]]
                /\ FlattenSeq(cs) = f[Len(cs)]
<1> DEFINE Good(f, n) == f = [i \in 1 .. n |-> IF i = 1 THEN cs[i] ELSE f[i - 1] \o cs[i]]
           P == {n \in 0 .. Len(cs) : \E f : Good(f, n)}
<1>1. 0 \in P
  <2>1. Good([i \in 1 .. 0 |-> 0], 0)
    OBVIOUS
  <2> HIDE DEF Good
  <2> QED
    BY <2>1
<1>2. ASSUME NEW n \in 1 .. Len(cs), n - 1 \in P
      PROVE  n \in P
  <2>1. PICK g : Good(g, n - 1)
    BY <1>2
  <2> DEFINE f == [i \in 1 .. n |-> IF i = n THEN (IF i = 1 THEN cs[i] ELSE g[i - 1] \o cs[i]) ELSE g[i]]
  <2>0. n \in Nat /\ n # 0
    OBVIOUS
  <2>2. ASSUME NEW i \in 1 .. n
        PROVE  f[i] = IF i = 1 THEN cs[i] ELSE f[i - 1] \o cs[i]
    <3>1. CASE i = 1 /\ i = n
      BY <3>1
    <3>2. CASE i = 1 /\ i # n
      <4>1. i \in 1 .. n - 1
        BY <2>0, <3>2
      <4>2. f[i] = g[i] /\ g[i] = cs[i]
        BY <2>1, <3>2, <4>1
      <4> QED
        BY <3>2, <4>2
    <3>3. CASE i # 1 /\ i = n
      <4>1. i - 1 \in 1 .. n /\ i - 1 # n
        BY <2>0, <3>3
      <4>2. f[i - 1] = g[i - 1]
        BY <4>1
      <4> QED
        BY <3>3, <4>2
    <3>4. CASE i # 1 /\ i # n
      <4>1. i - 1 \in 1 .. n /\ i - 1 # n /\ i \in 1 .. n - 1
        BY <2>0, <3>4
      <4>2. f[i - 1] = g[i - 1] /\ f[i] = g[i]
        BY <3>4, <4>1
      <4>3. g[i] = g[i - 1] \o cs[i]
        BY <2>1, <3>4, <4>1
      <4> QED
        BY <3>4, <4>2, <4>3
    <3> QED
      BY <3>1, <3>2, <3>3, <3>4
  <2>3. f = [i \in 1 .. n |-> f[i]]
    OBVIOUS
  <2>4. Good(f, n)
    <3> HIDE DEF f
    <3> QED
      BY <2>2, <2>3
  <2> HIDE DEF Good, f
  <2> QED
    BY <2>4
<1>3. Len(cs) \in P
  <2> HIDE DEF P
  <2>1. \A n \in 0 .. Len(cs) : n \in P
    BY <1>1, <1>2, UpToInduction
  <2> QED
    BY <2>1
<1> DEFINE F == CHOOSE f : Good(f, Len(cs))
<1>4. Good(F, Len(cs))
  <2>1. \E f : Good(f, Len(cs))
    BY <1>3
  <2> HIDE DEF Good
  <2> QED
    BY <2>1
<1>5. FlattenSeq(cs) = F[Len(cs)]
  BY DEF FlattenSeq
<1> HIDE DEF F
<1> QED
  BY <1>4, <1>5

\* What the pieces make: the j-th element of piece c is where the pieces before it end.
LEMMA FlattenAt ==
  ASSUME NEW X, NEW cs \in Seq(Seq(X)), NEW e, EndsOf(cs, e)
  PROVE  /\ FlattenSeq(cs) \in Seq(X)
         /\ Len(FlattenSeq(cs)) = e[Len(cs)]
         /\ \A c \in 1 .. Len(cs) : \A j \in 1 .. Len(cs[c]) :
               /\ e[c - 1] + j \in 1 .. Len(FlattenSeq(cs))
               /\ FlattenSeq(cs)[e[c - 1] + j] = cs[c][j]
<1>0. /\ Len(cs) \in Nat
      /\ \A k \in 1 .. Len(cs) : cs[k] \in Seq(X) /\ Len(cs[k]) \in Nat
  BY ElementOfSeq, LenProperties
<1>a. /\ e \in [0 .. Len(cs) -> Nat] /\ e[0] = 0
      /\ \A k \in 1 .. Len(cs) : e[k] = e[k - 1] + Len(cs[k])
  BY DEF EndsOf
<1>1. CASE Len(cs) = 0
  <2>1. cs = <<>>
    BY <1>1, EmptySeq
  <2>2. FlattenSeq(cs) = <<>>
    BY <1>1, <2>1 DEF FlattenSeq
  <2> QED
    BY <1>1, <1>a, <2>2
<1>2. CASE Len(cs) # 0
  <2>1. PICK f : /\ f = [i \in 1 .. Len(cs) |-> IF i = 1 THEN cs[i] ELSE f[i - 1] \o cs[i]]
                 /\ FlattenSeq(cs) = f[Len(cs)]
    BY <1>0, <1>2, FlattenDefined
  <2> DEFINE Good(k) == /\ f[k] \in Seq(X)
                        /\ Len(f[k]) = e[k]
                        /\ \A c \in 1 .. k : \A j \in 1 .. Len(cs[c]) :
                              e[c - 1] + j \in 1 .. e[k] /\ f[k][e[c - 1] + j] = cs[c][j]
             P == {k \in 0 .. Len(cs) : k # 0 => Good(k)}
  <2>2. 0 \in P
    BY <1>0
  <2>3. ASSUME NEW k \in 1 .. Len(cs), k - 1 \in P
        PROVE  k \in P
    <3>0. /\ k \in Nat /\ k # 0 /\ k - 1 \in 0 .. Len(cs) /\ k \in 0 .. Len(cs)
          /\ e[k] = e[k - 1] + Len(cs[k]) /\ e[k] \in Nat /\ e[k - 1] \in Nat
          /\ cs[k] \in Seq(X) /\ Len(cs[k]) \in Nat
      <4>1. k \in Nat /\ k # 0 /\ k - 1 \in 0 .. Len(cs) /\ k \in 0 .. Len(cs)
        BY <1>0
      <4> QED
        BY <1>0, <1>a, <4>1
    <3>1. CASE k = 1
      <4>1. f[k] = cs[k] /\ e[k - 1] = 0 /\ e[k] = Len(cs[k])
        BY <1>a, <2>1, <3>0, <3>1
      <4>2. ASSUME NEW c \in 1 .. k, NEW j \in 1 .. Len(cs[c])
            PROVE  e[c - 1] + j \in 1 .. e[k] /\ f[k][e[c - 1] + j] = cs[c][j]
        <5>1. c = k
          BY <3>1
        <5> QED
          BY <3>0, <4>1, <5>1
      <4> QED
        BY <3>0, <4>1, <4>2
    <3>2. CASE k # 1
      <4>1. Good(k - 1)
        BY <2>3, <3>0, <3>2
      <4>2. f[k] = f[k - 1] \o cs[k]
        BY <2>1, <3>0, <3>2
      <4>3. /\ f[k] \in Seq(X) /\ Len(f[k]) = e[k]
            /\ \A i \in 1 .. e[k] : f[k][i] = IF i <= e[k - 1] THEN f[k - 1][i] ELSE cs[k][i - e[k - 1]]
        <5>1. f[k - 1] \in Seq(X) /\ Len(f[k - 1]) = e[k - 1]
          BY <4>1
        <5>2. /\ f[k - 1] \o cs[k] \in Seq(X)
              /\ Len(f[k - 1] \o cs[k]) = Len(f[k - 1]) + Len(cs[k])
              /\ \A i \in 1 .. Len(f[k - 1]) + Len(cs[k]) :
                    (f[k - 1] \o cs[k])[i] = IF i <= Len(f[k - 1]) THEN f[k - 1][i] ELSE cs[k][i - Len(f[k - 1])]
          BY <3>0, <5>1, ConcatProperties
        <5> QED
          BY <3>0, <4>2, <5>1, <5>2
      <4>4. ASSUME NEW c \in 1 .. k, NEW j \in 1 .. Len(cs[c])
            PROVE  e[c - 1] + j \in 1 .. e[k] /\ f[k][e[c - 1] + j] = cs[c][j]
        <5>1. CASE c = k
          <6>1. /\ j \in Nat /\ 1 <= j /\ j <= Len(cs[k])
            BY <3>0, <5>1
          <6>2. /\ e[k - 1] + j \in 1 .. e[k] /\ ~ (e[k - 1] + j <= e[k - 1])
                /\ (e[k - 1] + j) - e[k - 1] = j
            <7>1. PICK x \in Nat, y \in Nat, z \in Nat : x = e[k - 1] /\ y = Len(cs[k]) /\ z = e[k]
              BY <3>0
            <7>2. z = x + y /\ j \in Nat /\ 1 <= j /\ j <= y
              BY <3>0, <6>1, <7>1
            <7>3. x + j \in 1 .. z /\ ~ (x + j <= x) /\ (x + j) - x = j
              BY <7>2
            <7> QED
              BY <7>1, <7>3
          <6> QED
            BY <4>3, <5>1, <6>2
        <5>2. CASE c # k
          <6>1. c \in 1 .. k - 1
            BY <3>0, <5>2
          <6>2. e[c - 1] + j \in 1 .. e[k - 1] /\ f[k - 1][e[c - 1] + j] = cs[c][j]
            BY <4>1, <6>1
          <6>3. e[c - 1] + j \in 1 .. e[k] /\ e[c - 1] + j <= e[k - 1]
            <7>1. PICK x \in Nat, y \in Nat, z \in Nat : x = e[k - 1] /\ y = Len(cs[k]) /\ z = e[k] /\ z = x + y
              BY <3>0
            <7>2. PICK i : i = e[c - 1] + j
              OBVIOUS
            <7>3. i \in 1 .. x
              BY <6>2, <7>1, <7>2
            <7>4. i \in 1 .. z /\ i <= x
              BY <7>1, <7>3
            <7> QED
              BY <7>1, <7>2, <7>4
          <6> QED
            BY <4>3, <6>2, <6>3
        <5> QED
          BY <5>1, <5>2
      <4> QED
        BY <3>0, <4>3, <4>4
    <3> QED
      BY <3>1, <3>2
  <2>4. Len(cs) \in P
    <3> HIDE DEF P
    <3>1. \A k \in 0 .. Len(cs) : k \in P
      BY <1>0, <2>2, <2>3, UpToInduction
    <3> QED
      BY <1>0, <3>1
  <2>5. Good(Len(cs))
    BY <1>2, <2>4
  <2> QED
    BY <1>0, <2>1, <2>5
<1> QED
  BY <1>1, <1>2

\* A sequence in which the pieces lie one behind the other is what they make.
LEMMA FlattenIs ==
  ASSUME NEW X, NEW cs \in Seq(Seq(X)), NEW e, EndsOf(cs, e), NEW s \in Seq(X), Len(s) = e[Len(cs)],
         \A c \in 1 .. Len(cs) : \A j \in 1 .. Len(cs[c]) : s[e[c - 1] + j] = cs[c][j]
  PROVE  FlattenSeq(cs) = s
<1> DEFINE t == FlattenSeq(cs)
<1>0. /\ Len(cs) \in Nat
      /\ \A k \in 1 .. Len(cs) : Len(cs[k]) \in Nat
  BY ElementOfSeq, LenProperties
<1>1. /\ t \in Seq(X) /\ Len(t) = e[Len(cs)]
      /\ \A c \in 1 .. Len(cs) : \A j \in 1 .. Len(cs[c]) : t[e[c - 1] + j] = cs[c][j]
  BY FlattenAt
<1>a. /\ e \in [0 .. Len(cs) -> Nat] /\ e[0] = 0
      /\ \A k \in 1 .. Len(cs) : e[k] = e[k - 1] + Len(cs[k])
  BY DEF EndsOf
<1> HIDE DEF t
<1> DEFINE P == {k \in 0 .. Len(cs) : \A i \in 1 .. e[k] : t[i] = s[i]}
<1>2. 0 \in P
  BY <1>0, <1>a
<1>3. ASSUME NEW k \in 1 .. Len(cs), k - 1 \in P
      PROVE  k \in P
  <2>0. /\ k - 1 \in 0 .. Len(cs) /\ k \in 0 .. Len(cs)
        /\ e[k] = e[k - 1] + Len(cs[k]) /\ e[k] \in Nat /\ e[k - 1] \in Nat /\ Len(cs[k]) \in Nat
    <3>1. k - 1 \in 0 .. Len(cs) /\ k \in 0 .. Len(cs)
      BY <1>0
    <3> QED
      BY <1>0, <1>a, <3>1
  <2>1. ASSUME NEW i \in 1 .. e[k] PROVE t[i] = s[i]
    <3>1. CASE i <= e[k - 1]
      BY <1>3, <2>0, <3>1
    <3>2. CASE ~ (i <= e[k - 1])
      <4>1. i - e[k - 1] \in 1 .. Len(cs[k]) /\ e[k - 1] + (i - e[k - 1]) = i
        <5>1. PICK x \in Nat, y \in Nat : x = e[k - 1] /\ y = Len(cs[k]) /\ e[k] = x + y
          BY <2>0
        <5>2. i \in Nat /\ i <= x + y /\ ~ (i <= x)
          BY <2>0, <3>2, <5>1
        <5>3. i - x \in 1 .. y /\ x + (i - x) = i
          BY <5>2
        <5> QED
          BY <5>1, <5>3
      <4> QED
        BY <1>1, <4>1
    <3> QED
      BY <3>1, <3>2
  <2> QED
    BY <2>0, <2>1
<1>4. Len(cs) \in P
  <2> HIDE DEF P
  <2>1. \A k \in 0 .. Len(cs) : k \in P
    BY <1>0, <1>2, <1>3, UpToInduction
  <2> QED
    BY <1>0, <2>1
<1>5. \A i \in 1 .. Len(t) : t[i] = s[i]
  BY <1>1, <1>4
<1>6. t = s
  BY <1>1, <1>5, SeqEqual
<1> QED
  BY <1>6 DEF t

\* The ends do not decrease, and every place up to the last is in a piece.
LEMMA PieceOf ==
  ASSUME NEW X, NEW cs \in Seq(Seq(X)), NEW e, EndsOf(cs, e)
  PROVE  /\ \A j, k \in 0 .. Len(cs) : j <= k => e[j] <= e[k]
         /\ \A i \in 1 .. e[Len(cs)] : \E k \in 1 .. Len(cs) : e[k - 1] < i /\ i <= e[k]
<1>0. /\ Len(cs) \in Nat
      /\ \A k \in 1 .. Len(cs) : Len(cs[k]) \in Nat
  BY ElementOfSeq, LenProperties
<1>a. /\ e \in [0 .. Len(cs) -> Nat] /\ e[0] = 0
      /\ \A k \in 1 .. Len(cs) : e[k] = e[k - 1] + Len(cs[k])
  BY DEF EndsOf
<1> DEFINE Good(k) == /\ \A j \in 0 .. k : e[j] <= e[k]
                      /\ \A i \in 1 .. e[k] : \E h \in 1 .. k : e[h - 1] < i /\ i <= e[h]
           P == {k \in 0 .. Len(cs) : Good(k)}
<1>1. 0 \in P
  <2>1. Good(0)
    BY <1>a
  <2> HIDE DEF Good
  <2> QED
    BY <1>0, <2>1
<1>2. ASSUME NEW k \in 1 .. Len(cs), k - 1 \in P
      PROVE  k \in P
  <2>0. /\ k \in Nat /\ k # 0 /\ k - 1 \in 0 .. Len(cs) /\ k \in 0 .. Len(cs)
        /\ e[k] = e[k - 1] + Len(cs[k]) /\ e[k] \in Nat /\ e[k - 1] \in Nat /\ Len(cs[k]) \in Nat
    <3>1. k \in Nat /\ k # 0 /\ k - 1 \in 0 .. Len(cs) /\ k \in 0 .. Len(cs)
      BY <1>0
    <3> QED
      BY <1>0, <1>a, <3>1
  <2>1. Good(k - 1)
    BY <1>2
  <2>2. ASSUME NEW j \in 0 .. k PROVE e[j] <= e[k]
    <3>1. CASE j = k
      BY <2>0, <3>1
    <3>2. CASE j # k
      <4>1. j \in 0 .. k - 1 /\ j \in 0 .. Len(cs)
        BY <1>0, <2>0, <3>2
      <4>2. e[j] <= e[k - 1] /\ e[j] \in Nat
        BY <1>a, <2>1, <4>1
      <4> QED
        BY <2>0, <4>2
    <3> QED
      BY <3>1, <3>2
  <2>3. ASSUME NEW i \in 1 .. e[k] PROVE \E h \in 1 .. k : e[h - 1] < i /\ i <= e[h]
    <3>1. CASE i <= e[k - 1]
      <4>1. i \in 1 .. e[k - 1]
        BY <2>0, <3>1
      <4>2. PICK h \in 1 .. k - 1 : e[h - 1] < i /\ i <= e[h]
        BY <2>1, <4>1
      <4>3. h \in 1 .. k
        BY <2>0
      <4> QED
        BY <4>2, <4>3
    <3>2. CASE ~ (i <= e[k - 1])
      <4>1. k \in 1 .. k /\ e[k - 1] < i /\ i <= e[k]
        BY <2>0, <3>2
      <4> QED
        BY <4>1
    <3> QED
      BY <3>1, <3>2
  <2>4. Good(k)
    BY <2>2, <2>3
  <2> HIDE DEF Good
  <2> QED
    BY <2>0, <2>4
<1>3. \A k \in 0 .. Len(cs) : k \in P
  <2> HIDE DEF P
  <2> QED
    BY <1>0, <1>1, <1>2, UpToInduction
<1>4. \A k \in 0 .. Len(cs) : Good(k)
  BY <1>3
<1>5. \A j, k \in 0 .. Len(cs) : j <= k => j \in 0 .. k
  BY <1>0
<1> QED
  BY <1>0, <1>4, <1>5

-----------------------------------------------------------------------------
\* e goes up: it says where in a longer sequence the elements of a shorter one are.
Increasing(e, n) == \A i, j \in 1 .. n : i < j => e[i] < e[j]

\* Numbers that go up by one at least are as far apart as their places.
LEMMA Spread ==
  ASSUME NEW n \in Nat, NEW e, \A i \in 1 .. n : e[i] \in Nat, Increasing(e, n),
         NEW i \in 1 .. n, NEW j \in 1 .. n, i <= j
  PROVE  e[i] + (j - i) <= e[j]
<1> DEFINE P == {d \in 0 .. n : i + d <= n => e[i] + d <= e[i + d]}
<1>1. 0 \in P
  <2>1. i + 0 = i /\ e[i] \in Nat
    OBVIOUS
  <2> QED
    BY <2>1
<1>2. ASSUME NEW d \in 1 .. n, d - 1 \in P
      PROVE  d \in P
  <2>1. SUFFICES ASSUME i + d <= n PROVE e[i] + d <= e[i + d]
    OBVIOUS
  <2>2. i + (d - 1) \in 1 .. n /\ i + d \in 1 .. n /\ i + (d - 1) < i + d /\ i + (d - 1) <= n
    BY <2>1
  <2>3. e[i] + (d - 1) <= e[i + (d - 1)]
    BY <1>2, <2>2
  <2>4. e[i + (d - 1)] < e[i + d]
    BY <2>2 DEF Increasing
  <2>5. e[i] \in Nat /\ e[i + (d - 1)] \in Nat /\ e[i + d] \in Nat
    BY <2>2
  <2> QED
    BY <2>3, <2>4, <2>5
<1>3. j - i \in 0 .. n /\ i + (j - i) = j /\ j <= n
  OBVIOUS
<1>4. j - i \in P
  <2> HIDE DEF P
  <2>1. \A d \in 0 .. n : d \in P
    BY <1>1, <1>2, UpToInduction
  <2> QED
    BY <1>3, <2>1
<1> QED
  BY <1>3, <1>4

\* Where they are no farther apart than their places, they follow each other.
LEMMA Squeeze ==
  ASSUME NEW n \in Nat, NEW e, \A i \in 1 .. n : e[i] \in Nat, Increasing(e, n),
         NEW i \in 1 .. n, NEW j \in 1 .. n, i <= j, e[j] = e[i] + (j - i),
         NEW h \in i .. j
  PROVE  e[h] = e[i] + (h - i)
<1>1. h \in 1 .. n /\ i <= h /\ h <= j
  OBVIOUS
<1>2. e[i] + (h - i) <= e[h]
  BY <1>1, Spread
<1>3. e[h] + (j - h) <= e[j]
  BY <1>1, Spread
<1>4. e[i] \in Nat /\ e[h] \in Nat /\ e[j] \in Nat
  BY <1>1
<1> QED
  BY <1>1, <1>2, <1>3, <1>4

-----------------------------------------------------------------------------
\* f[k] is what is left of the first k elements of s.
OnlyUpTo(f, s, S) ==
    f = [k \in 0 .. Len(s) |->
           IF k = 0 THEN <<>> ELSE IF s[k] \in S THEN Append(f[k - 1], s[k]) ELSE f[k - 1]]

\* Only satisfies the equation it is defined by.
LEMMA OnlyDefined ==
  ASSUME NEW s, Len(s) \in Nat, NEW S
  PROVE  \E f : OnlyUpTo(f, s, S) /\ Only(s, S) = f[Len(s)]
<1> DEFINE Good(f, n) ==
               f = [k \in 0 .. n |->
                      IF k = 0 THEN <<>> ELSE IF s[k] \in S THEN Append(f[k - 1], s[k]) ELSE f[k - 1]]
           P == {n \in 0 .. Len(s) : \E f : Good(f, n)}
<1>1. 0 \in P
  <2> DEFINE f == [k \in 0 .. 0 |-> <<>>]
  <2>1. \A k \in 0 .. 0 : k = 0 /\ f[k] = <<>>
    OBVIOUS
  <2>2. Good(f, 0)
    BY <2>1
  <2> HIDE DEF Good, f
  <2> QED
    BY <2>2
<1>2. ASSUME NEW n \in 1 .. Len(s), n - 1 \in P
      PROVE  n \in P
  <2>1. PICK g : Good(g, n - 1)
    BY <1>2
  <2> DEFINE f == [k \in 0 .. n |->
                     IF k = n THEN IF s[k] \in S THEN Append(g[k - 1], s[k]) ELSE g[k - 1] ELSE g[k]]
  <2>0. n \in Nat /\ n # 0
    OBVIOUS
  <2>2. ASSUME NEW k \in 0 .. n
        PROVE  f[k] = IF k = 0 THEN <<>> ELSE IF s[k] \in S THEN Append(f[k - 1], s[k]) ELSE f[k - 1]
    <3>1. CASE k = 0
      <4>1. k \in 0 .. n - 1 /\ k # n
        BY <2>0, <3>1
      <4>2. f[k] = g[k] /\ g[k] = <<>>
        BY <2>1, <3>1, <4>1
      <4> QED
        BY <3>1, <4>2
    <3>2. CASE k # 0 /\ k = n
      <4>1. k - 1 \in 0 .. n /\ k - 1 # n
        BY <2>0, <3>2
      <4>2. f[k - 1] = g[k - 1]
        BY <4>1
      <4> QED
        BY <3>2, <4>2
    <3>3. CASE k # 0 /\ k # n
      <4>1. k - 1 \in 0 .. n /\ k - 1 # n /\ k \in 0 .. n - 1
        BY <2>0, <3>3
      <4>2. f[k - 1] = g[k - 1] /\ f[k] = g[k]
        BY <3>3, <4>1
      <4>3. g[k] = IF s[k] \in S THEN Append(g[k - 1], s[k]) ELSE g[k - 1]
        BY <2>1, <3>3, <4>1
      <4> QED
        BY <3>3, <4>2, <4>3
    <3> QED
      BY <3>1, <3>2, <3>3
  <2>3. f = [k \in 0 .. n |-> f[k]]
    OBVIOUS
  <2>4. Good(f, n)
    <3> HIDE DEF f
    <3> QED
      BY <2>2, <2>3
  <2> HIDE DEF Good, f
  <2> QED
    BY <2>4
<1>3. Len(s) \in P
  <2> HIDE DEF P
  <2>1. \A n \in 0 .. Len(s) : n \in P
    BY <1>1, <1>2, UpToInduction
  <2> QED
    BY <2>1
<1> DEFINE F == CHOOSE f : Good(f, Len(s))
<1>4. Good(F, Len(s))
  <2>1. \E f : Good(f, Len(s))
    BY <1>3
  <2> HIDE DEF Good
  <2> QED
    BY <2>1
<1>5. Only(s, S) = F[Len(s)]
  BY DEF Only
<1> HIDE DEF F
<1> QED
  BY <1>4, <1>5 DEF OnlyUpTo

\* Only goes through the list from its start, one element after the other.
LEMMA OnlyStep ==
  ASSUME NEW s, Len(s) \in Nat, NEW S, NEW f, OnlyUpTo(f, s, S)
  PROVE  /\ f[0] = <<>>
         /\ \A k \in 1 .. Len(s) : f[k] = IF s[k] \in S THEN Append(f[k - 1], s[k]) ELSE f[k - 1]
<1>1. \A k \in 0 .. Len(s) :
         f[k] = IF k = 0 THEN <<>> ELSE IF s[k] \in S THEN Append(f[k - 1], s[k]) ELSE f[k - 1]
  BY DEF OnlyUpTo
<1>2. 0 \in 0 .. Len(s) /\ \A k \in 1 .. Len(s) : k \in 0 .. Len(s) /\ k # 0
  OBVIOUS
<1> QED
  BY <1>1, <1>2

\* What is left of the first elements depends on no others.
LEMMA OnlySame ==
  ASSUME NEW s, Len(s) \in Nat, NEW S, NEW f, OnlyUpTo(f, s, S),
         NEW t, Len(t) \in Nat, NEW T, NEW g, OnlyUpTo(g, t, T),
         NEW n \in Nat, n <= Len(s), n <= Len(t),
         \A k \in 1 .. n : s[k] = t[k] /\ (s[k] \in S <=> t[k] \in T)
  PROVE  \A k \in 0 .. n : f[k] = g[k]
<1>1. /\ f[0] = <<>> /\ g[0] = <<>>
      /\ \A k \in 1 .. Len(s) : f[k] = IF s[k] \in S THEN Append(f[k - 1], s[k]) ELSE f[k - 1]
      /\ \A k \in 1 .. Len(t) : g[k] = IF t[k] \in T THEN Append(g[k - 1], t[k]) ELSE g[k - 1]
  BY OnlyStep
<1> DEFINE P == {k \in 0 .. n : f[k] = g[k]}
<1>2. 0 \in P
  BY <1>1
<1>3. ASSUME NEW k \in 1 .. n, k - 1 \in P
      PROVE  k \in P
  <2>1. k \in 1 .. Len(s) /\ k \in 1 .. Len(t) /\ k \in 0 .. n
    OBVIOUS
  <2>2. f[k - 1] = g[k - 1]
    BY <1>3
  <2>3. f[k] = g[k]
    BY <1>1, <2>1, <2>2
  <2> QED
    BY <2>1, <2>3
<1> HIDE DEF P
<1>4. \A k \in 0 .. n : k \in P
  BY <1>2, <1>3, UpToInduction
<1> QED
  BY <1>4 DEF P

\* Two sets that agree on the elements of s leave the same.
LEMMA OnlyAgree ==
  ASSUME NEW s, Len(s) \in Nat, NEW S, NEW T, \A k \in 1 .. Len(s) : s[k] \in S <=> s[k] \in T
  PROVE  Only(s, S) = Only(s, T)
<1>1. PICK f : OnlyUpTo(f, s, S) /\ Only(s, S) = f[Len(s)]
  BY OnlyDefined
<1>2. PICK g : OnlyUpTo(g, s, T) /\ Only(s, T) = g[Len(s)]
  BY OnlyDefined
<1>3. \A k \in 0 .. Len(s) : f[k] = g[k]
  BY <1>1, <1>2, OnlySame
<1> QED
  BY <1>1, <1>2, <1>3

\* What is left are the elements of s that are in S, each as often as in s.
LEMMA OnlyElements ==
  ASSUME NEW X, NEW s \in Seq(X), NEW S
  PROVE  /\ Only(s, S) \in Seq(X)
         /\ \A j \in 1 .. Len(Only(s, S)) :
               Only(s, S)[j] \in S /\ \E i \in 1 .. Len(s) : Only(s, S)[j] = s[i]
         /\ \A i \in 1 .. Len(s) : s[i] \in S => \E j \in 1 .. Len(Only(s, S)) : Only(s, S)[j] = s[i]
         /\ (\A i, j \in 1 .. Len(s) : s[i] = s[j] => i = j)
               => \A i, j \in 1 .. Len(Only(s, S)) : Only(s, S)[i] = Only(s, S)[j] => i = j
<1>0. Len(s) \in Nat /\ \A k \in 1 .. Len(s) : s[k] \in X
  BY ElementOfSeq, LenProperties
<1>1. PICK f : OnlyUpTo(f, s, S) /\ Only(s, S) = f[Len(s)]
  BY <1>0, OnlyDefined
<1>2. /\ f[0] = <<>>
      /\ \A k \in 1 .. Len(s) : f[k] = IF s[k] \in S THEN Append(f[k - 1], s[k]) ELSE f[k - 1]
  BY <1>0, <1>1, OnlyStep
<1> DEFINE Left(t, k) ==
             /\ t \in Seq(X)
             /\ \A j \in 1 .. Len(t) : t[j] \in S /\ \E i \in 1 .. k : t[j] = s[i]
             /\ \A i \in 1 .. k : s[i] \in S => \E j \in 1 .. Len(t) : t[j] = s[i]
             /\ (\A i, j \in 1 .. Len(s) : s[i] = s[j] => i = j)
                   => \A i, j \in 1 .. Len(t) : t[i] = t[j] => i = j
           P == {k \in 0 .. Len(s) : Left(f[k], k)}
<1>3. 0 \in P
  <2>1. Left(<<>>, 0)
    BY EmptySeq
  <2>2. Left(f[0], 0)
    BY <1>2, <2>1
  <2> HIDE DEF Left
  <2> QED
    BY <1>0, <2>2
<1>4. ASSUME NEW k \in 1 .. Len(s), k - 1 \in P
      PROVE  k \in P
  <2> DEFINE t == f[k - 1]
             u == f[k]
  <2>0. k \in Nat /\ k # 0 /\ k - 1 \in 0 .. Len(s) /\ k \in 0 .. Len(s)
    BY <1>0
  <2>1. Left(t, k - 1)
    BY <1>4
  <2>2. u = IF s[k] \in S THEN Append(t, s[k]) ELSE t
    BY <1>2
  <2> HIDE DEF t, u
  <2>3. Left(u, k)
    <3>0. \A i \in 1 .. k - 1 : i \in 1 .. k /\ i \in 1 .. Len(s) /\ i # k
      BY <1>0, <2>0
    <3>1. CASE s[k] \notin S
      <4>1. u = t
        BY <2>2, <3>1
      <4>2. \A i \in 1 .. k : i = k \/ i \in 1 .. k - 1
        BY <2>0
      <4> QED
        BY <2>1, <3>0, <3>1, <4>1, <4>2
    <3>2. CASE s[k] \in S
      <4>1. /\ u \in Seq(X) /\ Len(u) = Len(t) + 1 /\ Len(t) \in Nat
            /\ \A j \in 1 .. Len(t) : u[j] = t[j]
            /\ u[Len(t) + 1] = s[k]
        BY <1>0, <2>1, <2>2, <3>2
      <4>2. \A j \in 1 .. Len(u) : j \in 1 .. Len(t) \/ j = Len(t) + 1
        BY <4>1
      <4>3. ASSUME NEW j \in 1 .. Len(u) PROVE u[j] \in S /\ \E i \in 1 .. k : u[j] = s[i]
        <5>1. CASE j = Len(t) + 1
          <6>1. k \in 1 .. k
            BY <2>0
          <6> QED
            BY <3>2, <4>1, <5>1, <6>1
        <5>2. CASE j \in 1 .. Len(t)
          <6>1. PICK i \in 1 .. k - 1 : t[j] = s[i]
            BY <2>1, <5>2
          <6>2. u[j] = t[j] /\ t[j] \in S
            BY <2>1, <4>1, <5>2
          <6> QED
            BY <3>0, <6>1, <6>2
        <5> QED
          BY <4>2, <5>1, <5>2
      <4>4. ASSUME NEW i \in 1 .. k, s[i] \in S PROVE \E j \in 1 .. Len(u) : u[j] = s[i]
        <5>1. CASE i = k
          <6>1. Len(t) + 1 \in 1 .. Len(u)
            BY <4>1
          <6> QED
            BY <4>1, <5>1, <6>1
        <5>2. CASE i # k
          <6>1. i \in 1 .. k - 1
            BY <2>0, <5>2
          <6>2. PICK j \in 1 .. Len(t) : t[j] = s[i]
            BY <2>1, <4>4, <6>1
          <6>3. j \in 1 .. Len(u)
            BY <4>1
          <6> QED
            BY <4>1, <6>2, <6>3
        <5> QED
          BY <5>1, <5>2
      <4>5. ASSUME \A i, j \in 1 .. Len(s) : s[i] = s[j] => i = j,
                   NEW i \in 1 .. Len(u), NEW j \in 1 .. Len(u), u[i] = u[j]
            PROVE  i = j
        <5>1. ASSUME NEW h \in 1 .. Len(t) PROVE t[h] # s[k]
          <6>1. PICK a \in 1 .. k - 1 : t[h] = s[a]
            BY <2>1
          <6> QED
            BY <3>0, <4>5, <6>1
        <5>2. \A a, b \in 1 .. Len(t) : t[a] = t[b] => a = b
          BY <2>1, <4>5
        <5>3. \A a \in 1 .. Len(t) : u[a] = t[a] /\ u[a] # u[Len(t) + 1]
          BY <4>1, <5>1
        <5> QED
          BY <4>2, <4>5, <5>2, <5>3
      <4> QED
        BY <4>1, <4>3, <4>4, <4>5
    <3> QED
      BY <3>1, <3>2
  <2> QED
    BY <2>0, <2>3 DEF u
<1>5. Left(f[Len(s)], Len(s))
  <2> HIDE DEF P
  <2>1. \A k \in 0 .. Len(s) : k \in P
    BY <1>0, <1>3, <1>4, UpToInduction
  <2>2. Len(s) \in P
    BY <1>0, <2>1
  <2> QED
    BY <2>2 DEF P
<1> QED
  BY <1>1, <1>5

\* An appended element is a list of one behind the others.
LEMMA AppendConcat ==
  ASSUME NEW X, NEW a \in Seq(X), NEW b \in Seq(X), NEW c \in X
  PROVE  Append(a \o b, c) = a \o Append(b, c) /\ Append(b, c) \in Seq(X)
<1>1. /\ Append(a \o b, c) \in Seq(X) /\ a \o Append(b, c) \in Seq(X)
      /\ Len(Append(a \o b, c)) = Len(a \o Append(b, c))
  OBVIOUS
<1>2. \A i \in 1 .. Len(Append(a \o b, c)) : Append(a \o b, c)[i] = (a \o Append(b, c))[i]
  OBVIOUS
<1>3. Append(b, c) \in Seq(X)
  OBVIOUS
<1> QED
  BY <1>1, <1>2, <1>3, SeqEqual

\* Of two sequences one behind the other, what is left is left of the one and of the other.
LEMMA OnlyConcat ==
  ASSUME NEW X, NEW s \in Seq(X), NEW t \in Seq(X), NEW S
  PROVE  Only(s \o t, S) = Only(s, S) \o Only(t, S)
<1> DEFINE u == s \o t
<1>0. /\ Len(s) \in Nat /\ Len(t) \in Nat
      /\ \A k \in 1 .. Len(t) : t[k] \in X
  BY ElementOfSeq, LenProperties
<1>1. /\ u \in Seq(X) /\ Len(u) = Len(s) + Len(t)
      /\ \A k \in 1 .. Len(s) : u[k] = s[k]
      /\ \A k \in 1 .. Len(t) : u[Len(s) + k] = t[k]
  BY <1>0
<1> HIDE DEF u
<1>2. PICK f : OnlyUpTo(f, s, S) /\ Only(s, S) = f[Len(s)]
  BY <1>0, OnlyDefined
<1>3. PICK g : OnlyUpTo(g, t, S) /\ Only(t, S) = g[Len(t)]
  BY <1>0, OnlyDefined
<1>4. PICK h : OnlyUpTo(h, u, S) /\ Only(u, S) = h[Len(u)]
  <2>1. Len(u) \in Nat
    BY <1>0, <1>1
  <2> QED
    BY <2>1, OnlyDefined
<1>5. h[Len(s)] = f[Len(s)]
  <2>1. Len(u) \in Nat /\ Len(s) <= Len(u) /\ Len(s) <= Len(s)
    BY <1>0, <1>1
  <2>2. \A k \in 1 .. Len(s) : s[k] = u[k] /\ (s[k] \in S <=> u[k] \in S)
    BY <1>1
  <2>3. \A k \in 0 .. Len(s) : f[k] = h[k]
    BY <1>0, <1>2, <1>4, <2>1, <2>2, OnlySame
  <2> QED
    BY <1>0, <2>3
<1>6. f[Len(s)] \in Seq(X)
  BY <1>2, OnlyElements
<1> DEFINE a == f[Len(s)]
           P == {k \in 0 .. Len(t) : g[k] \in Seq(X) /\ h[Len(s) + k] = a \o g[k]}
<1> HIDE DEF a
<1>7. /\ g[0] = <<>>
      /\ \A k \in 1 .. Len(t) : g[k] = IF t[k] \in S THEN Append(g[k - 1], t[k]) ELSE g[k - 1]
      /\ \A k \in 1 .. Len(u) : h[k] = IF u[k] \in S THEN Append(h[k - 1], u[k]) ELSE h[k - 1]
  <2>1. Len(u) \in Nat
    BY <1>0, <1>1
  <2> QED
    BY <1>0, <1>3, <1>4, <2>1, OnlyStep
<1>8. 0 \in P
  <2>1. Len(s) + 0 = Len(s) /\ 0 \in 0 .. Len(t)
    BY <1>0
  <2>2. a \o <<>> = a /\ <<>> \in Seq(X)
    BY <1>6, ConcatEmptySeq, EmptySeq DEF a
  <2> QED
    BY <1>5, <1>7, <2>1, <2>2 DEF a
<1>9. ASSUME NEW k \in 1 .. Len(t), k - 1 \in P
      PROVE  k \in P
  <2>0. /\ k \in 0 .. Len(t) /\ k - 1 \in 0 .. Len(t) /\ Len(s) + k \in 1 .. Len(u)
        /\ (Len(s) + k) - 1 = Len(s) + (k - 1)
    BY <1>0, <1>1
  <2>1. g[k - 1] \in Seq(X) /\ h[Len(s) + (k - 1)] = a \o g[k - 1] /\ t[k] \in X /\ a \in Seq(X)
    BY <1>0, <1>6, <1>9 DEF a
  <2>2. h[Len(s) + k] = IF t[k] \in S THEN Append(a \o g[k - 1], t[k]) ELSE a \o g[k - 1]
    BY <1>1, <1>7, <2>0, <2>1
  <2>3. Append(a \o g[k - 1], t[k]) = a \o Append(g[k - 1], t[k]) /\ Append(g[k - 1], t[k]) \in Seq(X)
    <3>1. \A p, q \in Seq(X), c \in X : Append(p \o q, c) = p \o Append(q, c) /\ Append(q, c) \in Seq(X)
      BY AppendConcat
    <3> QED
      BY <2>1, <3>1
  <2>4. g[k] = IF t[k] \in S THEN Append(g[k - 1], t[k]) ELSE g[k - 1]
    BY <1>7
  <2>5. g[k] \in Seq(X) /\ h[Len(s) + k] = a \o g[k]
    BY <2>1, <2>2, <2>3, <2>4
  <2> QED
    BY <2>0, <2>5
<1>10. Len(t) \in P
  <2> HIDE DEF P
  <2>1. \A k \in 0 .. Len(t) : k \in P
    BY <1>0, <1>8, <1>9, UpToInduction
  <2> QED
    BY <1>0, <2>1
<1>11. h[Len(u)] = a \o g[Len(t)]
  BY <1>1, <1>10
<1> QED
  BY <1>2, <1>3, <1>4, <1>11 DEF a, u

\* If all are in S, all are left, and if none is, nothing is.
LEMMA OnlyAll ==
  ASSUME NEW X, NEW s \in Seq(X), NEW S
  PROVE  /\ (\A k \in 1 .. Len(s) : s[k] \in S) => Only(s, S) = s
         /\ (\A k \in 1 .. Len(s) : s[k] \notin S) => Only(s, S) = <<>>
<1>0. Len(s) \in Nat /\ \A k \in 1 .. Len(s) : s[k] \in X
  BY ElementOfSeq, LenProperties
<1>1. PICK f : OnlyUpTo(f, s, S) /\ Only(s, S) = f[Len(s)]
  BY <1>0, OnlyDefined
<1>2. /\ f[0] = <<>>
      /\ \A k \in 1 .. Len(s) : f[k] = IF s[k] \in S THEN Append(f[k - 1], s[k]) ELSE f[k - 1]
  BY <1>0, <1>1, OnlyStep
<1>3. ASSUME \A k \in 1 .. Len(s) : s[k] \notin S
      PROVE  Only(s, S) = <<>>
  <2>1. Only(s, S) \in Seq(X) /\ \A j \in 1 .. Len(Only(s, S)) :
               Only(s, S)[j] \in S /\ \E i \in 1 .. Len(s) : Only(s, S)[j] = s[i]
    BY OnlyElements
  <2>2. Len(Only(s, S)) \in Nat /\ ~ (1 \in 1 .. Len(Only(s, S)))
    BY <1>3, <2>1, LenProperties
  <2>3. Len(Only(s, S)) = 0
    BY <2>2
  <2> QED
    BY <2>1, <2>3, EmptySeq
<1>4. ASSUME \A k \in 1 .. Len(s) : s[k] \in S
      PROVE  Only(s, S) = s
  <2> DEFINE Same(t, k) == t \in Seq(X) /\ Len(t) = k /\ \A i \in 1 .. k : t[i] = s[i]
             P == {k \in 0 .. Len(s) : Same(f[k], k)}
  <2>1. 0 \in P
    <3>1. Same(<<>>, 0)
      BY EmptySeq
    <3>2. Same(f[0], 0)
      BY <1>2, <3>1
    <3> HIDE DEF Same
    <3> QED
      BY <1>0, <3>2
  <2>2. ASSUME NEW k \in 1 .. Len(s), k - 1 \in P
        PROVE  k \in P
    <3> DEFINE t == f[k - 1]
    <3>0. k \in Nat /\ k # 0 /\ k \in 0 .. Len(s) /\ s[k] \in X
      BY <1>0
    <3>1. Same(t, k - 1)
      BY <2>2
    <3>2. f[k] = Append(t, s[k])
      BY <1>2, <1>4
    <3> HIDE DEF t
    <3>3. Same(Append(t, s[k]), k)
      <4>1. Append(t, s[k]) \in Seq(X) /\ Len(Append(t, s[k])) = k
        BY <3>0, <3>1
      <4>2. ASSUME NEW i \in 1 .. k PROVE Append(t, s[k])[i] = s[i]
        <5>1. i = k \/ i \in 1 .. k - 1
          BY <3>0
        <5> QED
          BY <3>0, <3>1, <5>1
      <4> QED
        BY <4>1, <4>2
    <3> QED
      BY <3>0, <3>2, <3>3
  <2>3. Same(f[Len(s)], Len(s))
    <3> HIDE DEF P
    <3>1. \A k \in 0 .. Len(s) : k \in P
      BY <1>0, <2>1, <2>2, UpToInduction
    <3>2. Len(s) \in P
      BY <1>0, <3>1
    <3> QED
      BY <3>2 DEF P
  <2> QED
    BY <1>1, <2>3, SeqEqual
<1> QED
  BY <1>3, <1>4

-----------------------------------------------------------------------------
(***************************************************************************)
(* Numbers in order.                                                       *)
(***************************************************************************)
\* Of two numbers of a set the larger has more numbers up to it.
LEMMA CountGrows ==
  ASSUME NEW N \in Nat, NEW S \in SUBSET (0 .. N), NEW x \in S, NEW y \in S, x < y
  PROVE  Cardinality(UpTo(S, x)) < Cardinality(UpTo(S, y))
<1>1. IsFiniteSet(S) /\ \A i \in S : i \in Nat
  <2>1. IsFiniteSet(0 .. N)
    BY FS_Interval
  <2>2. IsFiniteSet(S)
    BY <2>1, FS_Subset
  <2>3. \A i \in S : i \in Nat
    OBVIOUS
  <2> QED
    BY <2>2, <2>3
<1>2. \A i \in S : IsFiniteSet(UpTo(S, i)) /\ Cardinality(UpTo(S, i)) \in Nat
  <2> TAKE i \in S
  <2>1. UpTo(S, i) \in SUBSET S
    BY DEF UpTo
  <2>2. IsFiniteSet(UpTo(S, i))
    BY <1>1, <2>1, FS_Subset
  <2> QED
    BY <2>2, FS_CardinalityType
<1> DEFINE B == UpTo(S, y) \ {y}
<1>3. y \in UpTo(S, y) /\ UpTo(S, x) \in SUBSET B
  <2>1. y <= y /\ \A j \in S : j <= x => j <= y /\ j # y
    BY <1>1
  <2> QED
    BY <2>1 DEF UpTo
<1>4. IsFiniteSet(B) /\ Cardinality(B) = Cardinality(UpTo(S, y)) - 1
  BY <1>2, <1>3, FS_RemoveElement
<1> HIDE DEF B
<1>5. Cardinality(UpTo(S, x)) <= Cardinality(B)
  BY <1>3, <1>4, FS_Subset
<1> QED
  BY <1>2, <1>4, <1>5

\* The first n of e go up, and S is the set of them.
GoesThrough(e, n, S, N) ==
    (\A i \in 1 .. n : e[i] \in 0 .. N) /\ Increasing(e, n) /\ S = {e[i] : i \in 1 .. n}

\* A strictly increasing list is the order of its numbers.
LEMMA OrderOf ==
  ASSUME NEW N \in Nat, NEW n \in Nat, NEW e, NEW S, GoesThrough(e, n, S, N)
  PROVE  Cardinality(S) = n /\ InOrder(S) = [k \in 1 .. n |-> e[k]]
<1>h. (\A i \in 1 .. n : e[i] \in 0 .. N) /\ Increasing(e, n) /\ S = {e[i] : i \in 1 .. n}
  BY DEF GoesThrough
<1> USE <1>h
<1>0. \A i \in 1 .. n : e[i] \in Nat
  OBVIOUS
<1>1. \A i, j \in 1 .. n : (e[i] = e[j] => i = j) /\ (e[i] <= e[j] <=> i <= j)
  <2> SUFFICES ASSUME NEW i \in 1 .. n, NEW j \in 1 .. n
               PROVE  (e[i] = e[j] => i = j) /\ (e[i] <= e[j] <=> i <= j)
    OBVIOUS
  <2>1. i < j \/ i = j \/ j < i
    OBVIOUS
  <2>2. (i < j => e[i] < e[j]) /\ (j < i => e[j] < e[i])
    BY DEF Increasing
  <2> QED
    BY <1>0, <2>1, <2>2
<1>2. ASSUME NEW i \in 0 .. n PROVE IsFiniteSet({e[h] : h \in 1 .. i}) /\ Cardinality({e[h] : h \in 1 .. i}) = i
  <2> DEFINE f == [k \in 1 .. i |-> e[k]]
             B == {e[h] : h \in 1 .. i}
  <2>1. f \in [1 .. i -> B] /\ (\A t \in B : \E k \in 1 .. i : f[k] = t) /\ \A k \in 1 .. i : k \in 1 .. n
    OBVIOUS
  <2>2. \A j, k \in 1 .. i : f[j] = f[k] => j = k
    BY <1>1, <2>1
  <2> HIDE DEF f, B
  <2>3. f \in Bijection(1 .. i, B)
    BY <2>1, <2>2 DEF Bijection, Injection, Surjection, IsInjective
  <2>4. ExistsBijection(1 .. i, B)
    BY <2>3 DEF ExistsBijection
  <2>5. IsFiniteSet(1 .. i) /\ Cardinality(1 .. i) = i
    BY FS_Interval
  <2>6. IsFiniteSet(B) /\ Cardinality(B) = i
    BY <2>4, <2>5, FS_Bijection
  <2> QED
    BY <2>6 DEF B
<1>3. Cardinality(S) = n
  BY <1>2
<1>4. ASSUME NEW i \in 1 .. n PROVE Cardinality({j \in S : j <= e[i]}) = i
  <2>1. \A h \in 1 .. n : e[h] <= e[i] <=> h \in 1 .. i
    <3>1. \A h \in 1 .. n : h <= i <=> h \in 1 .. i
      OBVIOUS
    <3> QED
      BY <1>1, <3>1
  <2>2. \A h \in 1 .. i : h \in 1 .. n
    OBVIOUS
  <2>3. {j \in S : j <= e[i]} = {e[h] : h \in 1 .. i}
    BY <2>1, <2>2
  <2>4. i \in 0 .. n
    OBVIOUS
  <2> QED
    BY <1>2, <2>3, <2>4
<1>5. ASSUME NEW k \in 1 .. n PROVE nth(S, k) = e[k]
  <2>1. \E i \in S : Cardinality({j \in S : j <= i}) = k
    BY <1>4
  <2>2. nth(S, k) \in S /\ Cardinality({j \in S : j <= nth(S, k)}) = k
    BY <2>1 DEF nth
  <2>3. PICK i \in 1 .. n : nth(S, k) = e[i]
    BY <2>2
  <2>4. i = k
    BY <1>4, <2>2, <2>3
  <2> QED
    BY <2>3, <2>4
<1> QED
  BY <1>3, <1>5 DEF InOrder

\* The order of a set of numbers, and of the set with one more behind them all.
LEMMA OrderIs ==
  ASSUME NEW N \in Nat, NEW S \in SUBSET (0 .. N)
  PROVE  /\ InOrder(S) \in Seq(S) /\ Len(InOrder(S)) = Cardinality(S) /\ Cardinality(S) \in Nat
         /\ Increasing(InOrder(S), Cardinality(S))
         /\ S = {InOrder(S)[k] : k \in 1 .. Cardinality(S)}
<1>1. IsFiniteSet(S) /\ Cardinality(S) \in Nat /\ \A x \in S : x \in Nat
  <2>1. IsFiniteSet(0 .. N)
    BY FS_Interval
  <2>2. IsFiniteSet(S)
    BY <2>1, FS_Subset
  <2> QED
    BY <2>2, FS_CardinalityType
<1>n. PICK n \in Nat : n = Cardinality(S)
  BY <1>1
<1>2. ASSUME NEW k \in 1 .. n PROVE nth(S, k) \in S /\ Cardinality(UpTo(S, nth(S, k))) = k
  <2>1. \E i \in S : Cardinality(UpTo(S, i)) = k
    BY <1>n, KthExists
  <2>2. nth(S, k) = CHOOSE i \in S : Cardinality(UpTo(S, i)) = k
    BY DEF nth, UpTo
  <2> QED
    BY <2>1, <2>2
<1>3. \A x, y \in S : x < y => Cardinality(UpTo(S, x)) < Cardinality(UpTo(S, y))
  BY CountGrows
<1>4. \A x, y \in S : x < y \/ x = y \/ y < x
  BY <1>1
<1>5. \A x \in S : Cardinality(UpTo(S, x)) \in 1 .. n
  <2> SUFFICES ASSUME NEW x \in S PROVE Cardinality(UpTo(S, x)) \in 1 .. n
    OBVIOUS
  <2>1. UpTo(S, x) \in SUBSET S /\ x \in UpTo(S, x)
    BY <1>1 DEF UpTo
  <2>2. IsFiniteSet(UpTo(S, x)) /\ Cardinality(UpTo(S, x)) <= n
    BY <1>1, <1>n, <2>1, FS_Subset
  <2>3. Cardinality(UpTo(S, x)) \in Nat /\ Cardinality(UpTo(S, x)) # 0
    BY <2>1, <2>2, FS_CardinalityType, FS_EmptySet
  <2> QED
    BY <2>2, <2>3
<1>6. \A x \in S : nth(S, Cardinality(UpTo(S, x))) = x
  <2> SUFFICES ASSUME NEW x \in S PROVE nth(S, Cardinality(UpTo(S, x))) = x
    OBVIOUS
  <2>1. PICK k \in 1 .. n : k = Cardinality(UpTo(S, x))
    BY <1>5
  <2>2. PICK z : z = nth(S, k)
    OBVIOUS
  <2>3. z \in S /\ Cardinality(UpTo(S, z)) = k
    BY <1>2, <2>2
  <2>4. ~ (k < k)
    OBVIOUS
  <2>5. z = x
    BY <1>3, <1>4, <2>1, <2>3, <2>4
  <2> QED
    BY <2>1, <2>2, <2>5
<1> DEFINE t == InOrder(S)
<1>7. t = [k \in 1 .. n |-> nth(S, k)]
  BY <1>n DEF InOrder
<1> HIDE DEF t
<1>8. t \in [1 .. n -> S] /\ \A k \in 1 .. n : t[k] = nth(S, k)
  BY <1>2, <1>7
<1>9. t \in Seq(S) /\ Len(t) = n
  BY <1>8
<1>10. Increasing(t, n)
  <2> SUFFICES ASSUME NEW i \in 1 .. n, NEW j \in 1 .. n, i < j PROVE t[i] < t[j]
    BY DEF Increasing
  <2>1. t[i] \in S /\ t[j] \in S /\ Cardinality(UpTo(S, t[i])) = i /\ Cardinality(UpTo(S, t[j])) = j
    BY <1>2, <1>8
  <2>2. t[i] # t[j] /\ ~ (t[j] < t[i])
    <3>1. i # j /\ ~ (j < i)
      OBVIOUS
    <3> QED
      BY <1>3, <2>1, <3>1
  <2> QED
    BY <1>4, <2>1, <2>2
<1>11. S = {t[k] : k \in 1 .. n}
  <2>1. \A x \in S : t[Cardinality(UpTo(S, x))] = x
    BY <1>5, <1>6, <1>8
  <2> QED
    BY <1>5, <1>8, <2>1
<1> QED
  BY <1>9, <1>10, <1>11, <1>n DEF t

\* A number larger than all of the set comes last.
LEMMA OrderMore ==
  ASSUME NEW N \in Nat, NEW S \in SUBSET (0 .. N), NEW m \in Nat, \A x \in S : x < m
  PROVE  InOrder(S \cup {m}) = Append(InOrder(S), m)
<1> DEFINE t == InOrder(S)
           u == Append(t, m)
<1>n. PICK n \in Nat : n = Cardinality(S)
  BY OrderIs
<1>1. t \in Seq(S) /\ Len(t) = n /\ Increasing(t, n) /\ S = {t[k] : k \in 1 .. n}
  <2>1. /\ InOrder(S) \in Seq(S) /\ Len(InOrder(S)) = Cardinality(S) /\ Increasing(InOrder(S), Cardinality(S))
        /\ S = {InOrder(S)[k] : k \in 1 .. Cardinality(S)}
    BY OrderIs
  <2>2. t = InOrder(S)
    OBVIOUS
  <2> HIDE DEF t
  <2> QED
    BY <1>n, <2>1, <2>2
<1> HIDE DEF t
<1>2. \A x \in S : x \in Nat
  OBVIOUS
<1>3. t \in Seq(Nat) /\ \A k \in 1 .. n : t[k] \in S
  <2>1. \A k \in 1 .. n : t[k] \in S
    BY <1>1, ElementOfSeq
  <2>2. t = [k \in 1 .. n |-> t[k]]
    BY <1>1
  <2>3. t \in [1 .. n -> Nat]
    BY <1>2, <2>1, <2>2
  <2>4. t \in Seq(Nat)
    BY <2>3
  <2> QED
    BY <2>1, <2>4
<1>4. u \in Seq(Nat) /\ Len(u) = n + 1 /\ u[n + 1] = m /\ \A k \in 1 .. n : u[k] = t[k]
  BY <1>1, <1>3, AppendProperties
<1> HIDE DEF u
<1>5. \A k \in 1 .. n + 1 : k = n + 1 \/ (k \in 1 .. n /\ k # n + 1)
  OBVIOUS
<1>6. PICK M \in Nat : M = N + m
  OBVIOUS
<1>7. \A k \in 1 .. n + 1 : u[k] \in 0 .. M
  <2>1. m \in 0 .. M /\ \A x \in S : x \in 0 .. M
    BY <1>6
  <2> QED
    BY <1>3, <1>4, <1>5, <2>1
<1>8. Increasing(u, n + 1)
  <2> SUFFICES ASSUME NEW i \in 1 .. n + 1, NEW j \in 1 .. n + 1, i < j PROVE u[i] < u[j]
    BY DEF Increasing
  <2>1. i \in 1 .. n
    OBVIOUS
  <2>2. CASE j = n + 1
    BY <1>3, <1>4, <2>1, <2>2
  <2>3. CASE j # n + 1
    <3>1. j \in 1 .. n
      BY <2>3
    <3> QED
      BY <1>1, <1>4, <2>1, <3>1 DEF Increasing
  <2> QED
    BY <2>2, <2>3
<1>9. S \cup {m} = {u[k] : k \in 1 .. n + 1}
  <2>1. \A k \in 1 .. n : k \in 1 .. n + 1
    OBVIOUS
  <2>2. n + 1 \in 1 .. n + 1
    OBVIOUS
  <2> QED
    BY <1>1, <1>4, <1>5, <2>1, <2>2
<1>10. InOrder(S \cup {m}) = [k \in 1 .. n + 1 |-> u[k]]
  <2>1. PICK n1 \in Nat : n1 = n + 1
    OBVIOUS
  <2>2. PICK T : T = S \cup {m}
    OBVIOUS
  <2>3. (\A k \in 1 .. n1 : u[k] \in 0 .. M) /\ Increasing(u, n1) /\ T = {u[k] : k \in 1 .. n1}
    BY <1>7, <1>8, <1>9, <2>1, <2>2
  <2>4. GoesThrough(u, n1, T, M)
    BY <2>3 DEF GoesThrough
  <2>5. InOrder(T) = [k \in 1 .. n1 |-> u[k]]
    BY <2>4, OrderOf
  <2> QED
    BY <2>1, <2>2, <2>5
<1>11. u = [k \in 1 .. n + 1 |-> u[k]]
  BY <1>4
<1> QED
  BY <1>10, <1>11 DEF t, u
=============================================================================
