------------------------------ MODULE Folding ------------------------------
(***************************************************************************)
(* Induction without an operator to instantiate: over the naturals and     *)
(* over the subsets of a finite set, each for the set of those a fact      *)
(* holds of; and what it gives of the recursive functions behind the       *)
(* community modules' folds: that there is one, and what it comes to.      *)
(***************************************************************************)
EXTENDS SequencesExt, FiniteSetTheorems, WellFoundedInduction, SequenceTheorems, TLAPS

\* What holds of 0, and of the next of each it holds of, holds of every natural.
LEMMA NatSetInduction ==
  ASSUME NEW P, 0 \in P, \A n \in Nat : n \in P => n + 1 \in P
  PROVE  Nat \subseteq P
<1> SUFFICES ASSUME Nat \ P # {} PROVE FALSE
  OBVIOUS
<1>1. IsWellFoundedOn({ss \in Nat \X Nat : ss[1] < ss[2]}, Nat)
  BY NatLessThanWellFounded DEF OpToRel
<1>2. PICK m \in Nat \ P : \A y \in Nat \ P : ~(<<y, m>> \in {ss \in Nat \X Nat : ss[1] < ss[2]})
  BY <1>1, WFMin, Zenon
<1>3. m # 0 /\ m - 1 \in Nat /\ m - 1 < m /\ (m - 1) + 1 = m
  OBVIOUS
<1>4. m - 1 \notin P
  BY <1>3
<1> QED BY <1>2, <1>3, <1>4

\* What holds of the empty set, and of a set if of all those with one element fewer,
\* holds of every subset of a finite set.
LEMMA SubsetInduction ==
  ASSUME NEW S, IsFiniteSet(S), NEW P, {} \in P,
         \A s \in SUBSET S : s # {} /\ (\A x \in s : s \ {x} \in P) => s \in P
  PROVE  SUBSET S \subseteq P
<1> DEFINE Left == (SUBSET S) \ P
<1> SUFFICES ASSUME Left # {} PROVE FALSE
  OBVIOUS
<1>1. IsWellFoundedOn(StrictSubsetOrdering(S), SUBSET S)
  BY FS_StrictSubsetOrderingWellFounded, FS_FiniteSubsetsOfFinite, Zenon
<1>2. PICK m \in Left : \A y \in Left : ~(<<y, m>> \in StrictSubsetOrdering(S))
  <2>1. Left \subseteq SUBSET S
    OBVIOUS
  <2> HIDE DEF Left
  <2> QED BY <1>1, <2>1, WFMin, Zenon
<1>3. ASSUME NEW x \in m PROVE m \ {x} \in P
  <2>1. m \ {x} \in SUBSET S /\ m \in SUBSET S /\ m \ {x} \subseteq m /\ m \ {x} # m
    BY <1>3
  <2>2. <<m \ {x}, m>> \in StrictSubsetOrdering(S)
    BY <2>1 DEF StrictSubsetOrdering
  <2> QED BY <1>2, <2>1, <2>2
<1> QED BY <1>3

-----------------------------------------------------------------------------
(* A fold over a finite set, element by element as chosen.                 *)

\* C takes one of every subset; and a function folds from b, by G, taking those.
ChoosesFrom(C, S) == \A s \in SUBSET S : s # {} => C[s] \in s

FoldsBy(iter, S, b, C, G) ==
  /\ iter[{}] = b
  /\ \A s \in SUBSET S : s # {} => iter[s] = G[C[s]][iter[s \ {C[s]}]]

\* There is a function that folds every subset of a finite set into T.
LEMMA FoldExists ==
  ASSUME NEW S, NEW T, NEW b, NEW C, NEW G,
         IsFiniteSet(S), b \in T, ChoosesFrom(C, S), G \in [S -> [T -> T]]
  PROVE  \E iter \in [SUBSET S -> T] : FoldsBy(iter, S, b, C, G)
<1> USE DEF ChoosesFrom
<1> DEFINE Up(n) == {s \in SUBSET S : Cardinality(s) <= n}
           Step(f, s) == IF s = {} THEN b ELSE G[C[s]][f[s \ {C[s]}]]
           P == {n \in Nat : \E f \in [Up(n) -> T] : \A s \in Up(n) : f[s] = Step(f, s)}
<1>1. \A s \in SUBSET S : /\ IsFiniteSet(s) /\ Cardinality(s) \in Nat
                          /\ Cardinality(s) = 0 <=> s = {}
  BY FS_Subset, FS_CardinalityType, FS_EmptySet
<1>2. \A s \in SUBSET S : s # {} =>
        /\ C[s] \in S /\ s \ {C[s]} \in SUBSET S
        /\ Cardinality(s \ {C[s]}) = Cardinality(s) - 1
  BY <1>1, FS_RemoveElement
<1>3. 0 \in P
  <2>1. \A s \in Up(0) : s = {}
    BY <1>1
  <2>2. [s \in Up(0) |-> b] \in [Up(0) -> T]
    OBVIOUS
  <2> QED BY <2>1, <2>2
<1>4. ASSUME NEW n \in Nat, n \in P PROVE n + 1 \in P
  <2>1. PICK f \in [Up(n) -> T] : \A s \in Up(n) : f[s] = Step(f, s)
    BY <1>4
  <2> DEFINE g == [s \in Up(n + 1) |-> Step(f, s)]
  <2>2. ASSUME NEW s \in Up(n + 1), s # {} PROVE s \ {C[s]} \in Up(n)
    BY <1>1, <1>2, <2>2
  <2>3. g \in [Up(n + 1) -> T]
    <3>1. ASSUME NEW s \in Up(n + 1) PROVE Step(f, s) \in T
      BY <1>2, <2>2, <3>1
    <3> QED BY <3>1
  <2>4. ASSUME NEW s \in Up(n) PROVE g[s] = f[s]
    <3>1. s \in Up(n + 1)
      BY <1>1, <2>4
    <3> QED BY <2>1, <3>1
  <2>5. ASSUME NEW s \in Up(n + 1) PROVE g[s] = Step(g, s)
    BY <2>2, <2>4, <2>5
  <2>6. \E h \in [Up(n + 1) -> T] : \A s \in Up(n + 1) : h[s] = Step(h, s)
    <3> HIDE DEF g, Step, Up
    <3> QED BY <2>3, <2>5
  <2>7. n + 1 \in Nat
    OBVIOUS
  <2> HIDE DEF g, Step, Up
  <2> QED BY <2>6, <2>7, Zenon
<1>5. Cardinality(S) \in P
  <2>1. Nat \subseteq P
    <3> HIDE DEF P
    <3> QED BY <1>3, <1>4, NatSetInduction
  <2> QED BY <1>1, <2>1
<1>6. Up(Cardinality(S)) = SUBSET S
  BY FS_Subset
<1>7. PICK f \in [SUBSET S -> T] : \A s \in SUBSET S : f[s] = Step(f, s)
  BY <1>5, <1>6
<1> QED BY <1>7 DEF FoldsBy

\* The greatest of some of 1 .. n, the one a fold from the left leaves for last.
LEMMA MaxIsOne ==
  ASSUME NEW n \in Nat, NEW d \in SUBSET (1 .. n), d # {}
  PROVE  Max(d) \in d
<1> DEFINE P == {k \in Nat : \A e \in SUBSET (1 .. k) :
                   e # {} => \E m \in e : \A y \in e : m >= y}
<1>1. 0 \in P
  <2>1. 1 .. 0 = {}
    OBVIOUS
  <2> QED BY <2>1
<1>2. ASSUME NEW k \in Nat, k \in P PROVE k + 1 \in P
  <2>1. ASSUME NEW e \in SUBSET (1 .. k + 1), e # {}
        PROVE \E m \in e : \A y \in e : m >= y
    <3>1. CASE k + 1 \in e
      BY <3>1
    <3>2. CASE k + 1 \notin e
      <4>1. e \in SUBSET (1 .. k)
        BY <3>2
      <4> QED BY <1>2, <2>1, <4>1
    <3> QED BY <3>1, <3>2
  <2> QED BY <2>1
<1>3. n \in P
  <2> HIDE DEF P
  <2> QED BY <1>1, <1>2, NatSetInduction
<1> QED BY <1>3 DEF Max

\* A function that folds into T, as a recursive definition of one has it, is of T.
LEMMA FoldType ==
  ASSUME NEW S, IsFiniteSet(S), NEW T, NEW C, NEW iter,
         ChoosesFrom(C, S), iter[{}] \in T,
         \A s \in SUBSET S : s # {} /\ iter[s \ {C[s]}] \in T => iter[s] \in T
  PROVE  iter[S] \in T
<1> DEFINE P == {s \in SUBSET S : iter[s] \in T}
<1>1. {} \in P
  OBVIOUS
<1>2. \A s \in SUBSET S : s # {} /\ (\A x \in s : s \ {x} \in P) => s \in P
  BY DEF ChoosesFrom
<1>3. SUBSET S \subseteq P
  <2> HIDE DEF P
  <2> QED BY <1>1, <1>2, SubsetInduction
<1> QED BY <1>3

\* The same, from the left along a sequence of n: the greatest place comes last.
FoldsLeft(iter, n, b, G) ==
  \A d \in SUBSET (1 .. n) : iter[d] = IF d = {} THEN b ELSE G[Max(d)][iter[d \ {Max(d)}]]

LEMMA FoldLeftExists ==
  ASSUME NEW n, NEW T, NEW b, NEW G, n \in Nat, b \in T, G \in [1 .. n -> [T -> T]]
  PROVE  \E iter \in [SUBSET (1 .. n) -> T] : FoldsLeft(iter, n, b, G)
<1> DEFINE D == 1 .. n
           C == [d \in SUBSET D |-> Max(d)]
<1>1. IsFiniteSet(D)
  BY FS_Interval
<1>2. ChoosesFrom(C, D)
  BY MaxIsOne DEF ChoosesFrom
<1>3. \A d \in SUBSET D : C[d] = Max(d)
  OBVIOUS
<1>4. G \in [D -> [T -> T]]
  OBVIOUS
<1> HIDE DEF D, C
<1>5. PICK iter \in [SUBSET D -> T] : FoldsBy(iter, D, b, C, G)
  BY <1>1, <1>2, <1>4, FoldExists
<1>6. \A d \in SUBSET D : iter[d] = IF d = {} THEN b ELSE G[Max(d)][iter[d \ {Max(d)}]]
  BY <1>3, <1>5 DEF FoldsBy
<1> QED BY <1>6 DEF D, FoldsLeft

\* The places up to one, and it the greatest of them.
LEMMA UpTo ==
  ASSUME NEW n \in Nat, NEW k \in 1 .. n
  PROVE  /\ 1 .. k \in SUBSET (1 .. n) /\ 1 .. k # {}
         /\ Max(1 .. k) = k /\ (1 .. k) \ {k} = 1 .. k - 1
<1>1. 1 .. k # {} /\ k \in 1 .. k /\ \A y \in 1 .. k : k >= y
  OBVIOUS
<1>2. Max(1 .. k) \in 1 .. k /\ \A y \in 1 .. k : Max(1 .. k) >= y
  BY <1>1 DEF Max
<1> QED BY <1>1, <1>2

\* A fold from the left, as far as what it comes to is of T.
FoldsOver(iter, n, T, b, G) ==
  /\ iter[{}] = b
  /\ \A d \in SUBSET (1 .. n) : d # {} /\ iter[d \ {Max(d)}] \in T =>
       iter[d] = G[Max(d)][iter[d \ {Max(d)}]]

\* What holds at the start, and after each step of what it held before.
EachStepKeeps(I, n, T, b, G) ==
  b \in I[0] /\ \A k \in 1 .. n : \A x \in T : x \in I[k - 1] => G[k][x] \in I[k]

\* What every step of a fold from the left keeps, its result has.
LEMMA FoldKeeps ==
  ASSUME NEW n \in Nat, NEW T, NEW b \in T, NEW G \in [1 .. n -> [T -> T]],
         NEW I, EachStepKeeps(I, n, T, b, G), NEW iter, FoldsOver(iter, n, T, b, G)
  PROVE  iter[1 .. n] \in T /\ iter[1 .. n] \in I[n]
<1> USE DEF EachStepKeeps, FoldsOver
<1> DEFINE P == {k \in Nat : k <= n => iter[1 .. k] \in T /\ iter[1 .. k] \in I[k]}
<1>1. 0 \in P
  <2>1. 1 .. 0 = {}
    OBVIOUS
  <2> QED BY <2>1
<1>2. \A k \in Nat : k \in P => k + 1 \in P
  <2> SUFFICES ASSUME NEW k \in Nat, k \in P, k + 1 <= n
               PROVE iter[1 .. k + 1] \in T /\ iter[1 .. k + 1] \in I[k + 1]
    OBVIOUS
  <2>1. k + 1 \in 1 .. n /\ (k + 1) - 1 = k /\ iter[1 .. k] \in T /\ iter[1 .. k] \in I[k]
    OBVIOUS
  <2>2. /\ 1 .. k + 1 \in SUBSET (1 .. n) /\ 1 .. k + 1 # {}
        /\ Max(1 .. k + 1) = k + 1 /\ (1 .. k + 1) \ {k + 1} = 1 .. k
    BY <2>1, UpTo
  <2>3. iter[1 .. k + 1] = G[k + 1][iter[1 .. k]]
    BY <2>1, <2>2
  <2> QED BY <2>1, <2>3
<1>3. Nat \subseteq P
  <2> HIDE DEF P
  <2> QED BY <1>1, <1>2, NatSetInduction
<1> QED BY <1>3

\* What is counted place by place from b, up to each of n.
Steps(f, n, b, G) == f[0] = b /\ \A k \in 1 .. n : f[k] = G[k][f[k - 1]]

LEMMA StepsExist ==
  ASSUME NEW n \in Nat, NEW T, NEW b \in T, NEW G \in [1 .. n -> [T -> T]]
  PROVE  \E f \in [0 .. n -> T] : Steps(f, n, b, G)
<1>1. PICK iter \in [SUBSET (1 .. n) -> T] : FoldsLeft(iter, n, b, G)
  BY FoldLeftExists
<1> DEFINE f == [k \in 0 .. n |-> iter[1 .. k]]
<1>2. f \in [0 .. n -> T]
  <2>1. \A k \in 0 .. n : 1 .. k \in SUBSET (1 .. n)
    OBVIOUS
  <2> QED BY <2>1
<1>3. f[0] = b
  <2>1. 1 .. 0 = {} /\ 0 \in 0 .. n /\ {} \in SUBSET (1 .. n)
    OBVIOUS
  <2> QED BY <1>1, <2>1 DEF FoldsLeft
<1>4. ASSUME NEW k \in 1 .. n PROVE f[k] = G[k][f[k - 1]]
  <2>1. k \in 0 .. n /\ k - 1 \in 0 .. n
    OBVIOUS
  <2>2. iter[1 .. k] = G[k][iter[1 .. k - 1]]
    BY <1>1, UpTo DEF FoldsLeft
  <2> QED BY <2>1, <2>2
<1> HIDE DEF f
<1> QED BY <1>2, <1>3, <1>4 DEF Steps

\* The least of some naturals is one of them.
LEMMA LeastIsOne ==
  ASSUME NEW d \in SUBSET Nat, d # {}
  PROVE  \E i \in d : \A j \in d : i <= j
<1>1. IsWellFoundedOn({ss \in Nat \X Nat : ss[1] < ss[2]}, Nat)
  BY NatLessThanWellFounded DEF OpToRel
<1>2. PICK i \in d : \A j \in d : ~(<<j, i>> \in {ss \in Nat \X Nat : ss[1] < ss[2]})
  BY <1>1, WFMin, Zenon
<1>3. i \in Nat /\ \A j \in d : j \in Nat /\ ~(j < i)
  BY <1>2
<1>4. \A j \in d : i <= j
  BY <1>3
<1> QED BY <1>4

-----------------------------------------------------------------------------
(* Sequences.                                                              *)

\* A sequence with another element put into it.
LEMMA InsertAtType ==
  ASSUME NEW A, NEW s \in Seq(A), NEW i \in 1 .. Len(s), NEW e \in A
  PROVE  InsertAt(s, i, e) \in Seq(A)
<1>1. i \in Int /\ Len(s) \in Nat /\ \A j \in 1 .. Len(s) : s[j] \in A
  BY ElementOfSeq, LenProperties
<1>2. SubSeq(s, 1, i - 1) \in Seq(A) /\ SubSeq(s, i, Len(s)) \in Seq(A)
  BY <1>1, SubSeqProperties
<1>3. <<e>> \in Seq(A)
  OBVIOUS
<1> QED BY <1>2, <1>3, ConcatProperties DEF InsertAt

\* Sequences strung together.
LEMMA FlattenSeqType ==
  ASSUME NEW A, NEW seqs \in Seq(Seq(A))
  PROVE  FlattenSeq(seqs) \in Seq(A)
<1> DEFINE n == Len(seqs)
           To(f, i) == IF i = 1 THEN seqs[i] ELSE f[i - 1] \o seqs[i]
           Is(f) == f = [i \in 1 .. n |-> To(f, i)]
           flatten == CHOOSE f : Is(f)
           P == {k \in Nat : \E f \in [1 .. k -> Seq(A)] : \A i \in 1 .. k : f[i] = To(f, i)}
<1>1. n \in Nat /\ \A i \in 1 .. n : seqs[i] \in Seq(A)
  BY ElementOfSeq, LenProperties
<1>2. CASE n = 0
  <2>1. seqs = << >>
    BY <1>2, EmptySeq
  <2> QED BY <1>2, <2>1 DEF FlattenSeq
<1>3. CASE n # 0
  <2> DEFINE Q == {k \in Nat : k <= n => k \in P}
  <2>1. 0 \in Q
    <3>1. [i \in 1 .. 0 |-> << >>] \in [1 .. 0 -> Seq(A)] /\ 1 .. 0 = {}
      OBVIOUS
    <3> QED BY <3>1
  <2>2. ASSUME NEW k \in Nat, k \in Q PROVE k + 1 \in Q
    <3>1. SUFFICES ASSUME k + 1 <= n PROVE k + 1 \in P
      <4> HIDE DEF P, n
      <4> QED BY <2>2
    <3>2. PICK f \in [1 .. k -> Seq(A)] : \A i \in 1 .. k : f[i] = To(f, i)
      <4>1. k \in P
        <5> HIDE DEF P, n
        <5> QED BY <1>1, <2>2, <3>1
      <4> HIDE DEF To
      <4> QED BY <4>1
    <3> DEFINE g == [i \in 1 .. k + 1 |-> To(f, i)]
    <3>3. ASSUME NEW i \in 1 .. k + 1 PROVE To(f, i) \in Seq(A)
      <4>1. CASE i = 1
        BY <1>1, <1>3, <4>1
      <4>2. CASE i # 1
        <5>1. i - 1 \in 1 .. k /\ i \in 1 .. n
          BY <1>1, <3>1, <4>2
        <5> QED BY <1>1, <4>2, <5>1, ConcatProperties
      <4> QED BY <4>1, <4>2
    <3>4. g \in [1 .. k + 1 -> Seq(A)]
      <4> HIDE DEF To
      <4> QED BY <3>3
    <3>5. ASSUME NEW i \in 1 .. k PROVE g[i] = f[i]
      <4>1. i \in 1 .. k + 1
        OBVIOUS
      <4> HIDE DEF To
      <4> QED BY <3>2, <4>1
    <3>6. ASSUME NEW i \in 1 .. k + 1 PROVE g[i] = To(g, i)
      <4>1. g[i] = To(f, i)
        OBVIOUS
      <4>2. i # 1 => i - 1 \in 1 .. k
        OBVIOUS
      <4> HIDE DEF g
      <4> QED BY <3>5, <4>1, <4>2
    <3>7. \E h \in [1 .. k + 1 -> Seq(A)] : \A i \in 1 .. k + 1 : h[i] = To(h, i)
      <4> HIDE DEF g, To
      <4> QED BY <3>4, <3>6
    <3>8. k + 1 \in Nat
      OBVIOUS
    <3> HIDE DEF To
    <3> QED BY <3>7, <3>8, Zenon
  <2>3. n \in P
    <3>1. n \in Q
      <4> HIDE DEF Q, n
      <4> QED BY <1>1, <2>1, <2>2, NatSetInduction
    <3> HIDE DEF P, n
    <3> QED BY <1>1, <3>1
  <2>4. PICK f \in [1 .. n -> Seq(A)] : \A i \in 1 .. n : f[i] = To(f, i)
    <3> HIDE DEF n, To
    <3> QED BY <2>3
  <2>5. Is(f)
    <3> HIDE DEF n, To
    <3> QED BY <2>4
  <2>6. Is(flatten)
    <3> HIDE DEF Is
    <3> QED BY <2>5
  <2>7. \A i \in 1 .. n : flatten[i] = To(flatten, i)
    <3> HIDE DEF n, To, flatten
    <3> QED BY <2>6
  <2> DEFINE R == {k \in Nat : k = 0 \/ (k <= n => flatten[k] \in Seq(A))}
  <2>8. ASSUME NEW k \in Nat, k \in R PROVE k + 1 \in R
    <3> SUFFICES ASSUME k + 1 <= n PROVE flatten[k + 1] \in Seq(A)
      OBVIOUS
    <3>1. k + 1 \in 1 .. n /\ flatten[k + 1] = To(flatten, k + 1) /\ seqs[k + 1] \in Seq(A)
      <4> HIDE DEF flatten, To
      <4> QED BY <1>1, <2>7
    <3> HIDE DEF flatten
    <3>2. CASE k = 0
      BY <3>1, <3>2
    <3>3. CASE k # 0
      <4>1. flatten[k] \in Seq(A)
        BY <1>1, <2>8, <3>3
      <4>2. To(flatten, k + 1) = flatten[k] \o seqs[k + 1]
        <5>1. k + 1 # 1 /\ (k + 1) - 1 = k
          BY <3>3
        <5> QED BY <5>1
      <4> QED BY <3>1, <4>1, <4>2, ConcatProperties
    <3> QED BY <3>2, <3>3
  <2>9. n \in R
    <3>1. 0 \in R
      OBVIOUS
    <3> HIDE DEF R, n
    <3> QED BY <1>1, <2>8, <3>1, NatSetInduction
  <2>10. flatten[n] \in Seq(A)
    <3> HIDE DEF flatten
    <3> QED BY <1>1, <1>3, <2>9
  <2> QED BY <1>3, <2>10 DEF FlattenSeq
<1> QED BY <1>2, <1>3

\* One element of a sequence without repeats taken out of it.
LEMMA RemoveFirstIs ==
  ASSUME NEW A, NEW s \in Seq(A), IsInjective(s), NEW e
  PROVE  /\ RemoveFirst(s, e) \in Seq(A) /\ IsInjective(RemoveFirst(s, e))
         /\ ToSet(RemoveFirst(s, e)) = ToSet(s) \ {e}
<1> DEFINE n == Len(s)
           At == {i \in 1 .. n : s[i] = e}
<1>1. n \in Nat /\ DOMAIN s = 1 .. n /\ \A i \in 1 .. n : s[i] \in A
  BY ElementOfSeq, LenProperties
<1>2. CASE At = {}
  <2>1. RemoveFirst(s, e) = s
    BY <1>2 DEF RemoveFirst
  <2> QED BY <1>1, <1>2, <2>1 DEF ToSet
<1>3. CASE At # {}
  <2> DEFINE k == Min(At)
             b == SubSeq(s, 1, k - 1)
             a == SubSeq(s, k + 1, n)
             t == b \o a
  <2>1. k \in 1 .. n /\ s[k] = e
    <3>1. At \in SUBSET Nat
      BY <1>1
    <3>2. \E i \in At : \A j \in At : i <= j
      <4> HIDE DEF At
      <4> QED BY <1>3, <3>1, LeastIsOne
    <3>3. k \in At
      <4> HIDE DEF At
      <4> QED BY <3>2 DEF Min
    <3> QED BY <3>3
  <2>2. RemoveFirst(s, e) = t
    <3>1. \E i \in 1 .. Len(s) : s[i] = e
      BY <1>3
    <3>2. SelectInSeq(s, LAMBDA v : v = e) = k
      BY <1>3 DEF SelectInSeq
    <3> HIDE DEF k
    <3> QED BY <3>1, <3>2 DEF RemoveFirst, RemoveAt
  <2> HIDE DEF k
  <2>3. /\ b \in Seq(A) /\ Len(b) = k - 1 /\ \A j \in 1 .. k - 1 : b[j] = s[j]
        /\ a \in Seq(A) /\ Len(a) = n - k /\ \A j \in 1 .. n - k : a[j] = s[k + j]
    <3>1. 1 \in Int /\ k - 1 \in Int /\ k + 1 \in Int /\ n \in Int
      BY <1>1, <2>1
    <3>2. /\ b \in Seq(A) /\ Len(b) = k - 1 /\ \A j \in 1 .. k - 1 : b[j] = s[j]
      <4>1. \A j \in 1 .. k - 1 : s[j] \in A
        BY <1>1, <2>1
      <4>2. (IF 1 <= k - 1 THEN (k - 1) - 1 + 1 ELSE 0) = k - 1
        BY <2>1
      <4>3. \A j \in 1 .. k - 1 : 1 + j - 1 = j
        BY <2>1
      <4> QED BY <3>1, <4>1, <4>2, <4>3, SubSeqProperties
    <3>3. /\ a \in Seq(A) /\ Len(a) = n - k /\ \A j \in 1 .. n - k : a[j] = s[k + j]
      <4> HIDE DEF n
      <4>0. k \in Nat /\ 1 <= k /\ k <= n
        BY <1>1, <2>1
      <4>1. \A j \in k + 1 .. n : s[j] \in A
        <5>1. \A j \in k + 1 .. n : j \in 1 .. n
          BY <1>1, <4>0
        <5> QED BY <1>1, <5>1
      <4>2. (IF k + 1 <= n THEN n - (k + 1) + 1 ELSE 0) = n - k
        BY <1>1, <4>0
      <4>3. \A j \in 1 .. n - k : (k + 1) + j - 1 = k + j
        BY <1>1, <2>1
      <4> QED BY <3>1, <4>1, <4>2, <4>3, SubSeqProperties
    <3> QED BY <3>2, <3>3
  <2> HIDE DEF a, b, n
  <2>4. /\ t \in Seq(A) /\ Len(t) = n - 1 /\ DOMAIN t = 1 .. n - 1
        /\ \A j \in 1 .. n - 1 : t[j] = IF j < k THEN s[j] ELSE s[j + 1]
    <3>1. t \in Seq(A) /\ Len(t) = Len(b) + Len(a)
          /\ \A j \in 1 .. Len(b) + Len(a) : t[j] = IF j <= Len(b) THEN b[j] ELSE a[j - Len(b)]
      BY <2>3, ConcatProperties
    <3>2. Len(b) + Len(a) = n - 1
      BY <1>1, <2>1, <2>3
    <3>3. ASSUME NEW j \in 1 .. n - 1 PROVE t[j] = IF j < k THEN s[j] ELSE s[j + 1]
      <4>1. CASE j < k
        BY <1>1, <2>1, <2>3, <3>1, <3>2, <4>1
      <4>2. CASE ~(j < k)
        <5>1. j - (k - 1) \in 1 .. n - k /\ k + (j - (k - 1)) = j + 1
          BY <1>1, <2>1, <4>2
        <5> QED BY <1>1, <2>1, <2>3, <3>1, <3>2, <4>2, <5>1
      <4> QED BY <4>1, <4>2
    <3>4. DOMAIN t = 1 .. n - 1
      BY <3>1, <3>2, LenProperties
    <3> QED BY <3>1, <3>2, <3>3, <3>4
  <2> HIDE DEF t
  <2>5. IsInjective(t)
    <3>1. \A i, j \in 1 .. n : s[i] = s[j] => i = j
      BY <1>1 DEF IsInjective
    <3> QED BY <1>1, <2>1, <2>4, <3>1 DEF IsInjective
  <2>6. ToSet(t) = ToSet(s) \ {e}
    <3>1. \A i, j \in 1 .. n : s[i] = s[j] => i = j
      BY <1>1 DEF IsInjective
    <3>2. ASSUME NEW j \in 1 .. n - 1 PROVE t[j] \in ToSet(s) \ {e}
      <4>1. j \in 1 .. n /\ j + 1 \in 1 .. n
        BY <1>1
      <4> QED BY <1>1, <2>1, <2>4, <3>1, <4>1 DEF ToSet
    <3>3. ASSUME NEW i \in 1 .. n, s[i] # e PROVE \E j \in 1 .. n - 1 : t[j] = s[i]
      <4>1. CASE i < k
        <5>1. i \in 1 .. n - 1
          BY <1>1, <2>1, <4>1
        <5> QED BY <2>4, <4>1, <5>1
      <4>2. CASE i > k
        <5>1. i - 1 \in 1 .. n - 1 /\ ~(i - 1 < k) /\ (i - 1) + 1 = i
          BY <1>1, <2>1, <4>2
        <5> QED BY <2>4, <5>1
      <4>3. i # k
        BY <2>1, <3>3
      <4> QED BY <2>1, <4>1, <4>2, <4>3
    <3>4. ToSet(t) = {t[j] : j \in 1 .. n - 1} /\ ToSet(s) = {s[i] : i \in 1 .. n}
      BY <1>1, <2>4 DEF ToSet
    <3> QED BY <3>2, <3>3, <3>4
  <2> QED BY <2>2, <2>4, <2>5, <2>6
<1> QED BY <1>2, <1>3

\* One put last.
LEMMA AppendIs ==
  ASSUME NEW A, NEW s \in Seq(A), IsInjective(s), NEW e \in A, e \notin ToSet(s)
  PROVE  /\ Append(s, e) \in Seq(A) /\ IsInjective(Append(s, e))
         /\ ToSet(Append(s, e)) = ToSet(s) \cup {e}
         /\ Len(Append(s, e)) \in Nat \ {0} /\ Append(s, e)[Len(Append(s, e))] = e
<1> DEFINE n == Len(s)
           t == Append(s, e)
<1>1. n \in Nat /\ DOMAIN s = 1 .. n
  BY LenProperties
<1>2. /\ t \in Seq(A) /\ Len(t) = n + 1 /\ DOMAIN t = 1 .. n + 1
      /\ \A i \in 1 .. n : t[i] = s[i]
      /\ t[n + 1] = e
  BY AppendProperties, LenProperties
<1>3. \A i \in 1 .. n : s[i] \in ToSet(s)
  BY <1>1 DEF ToSet
<1> HIDE DEF t, n
<1>4. \A i \in 1 .. n + 1 : i = n + 1 \/ i \in 1 .. n
  BY <1>1
<1>5. IsInjective(t)
  BY <1>1, <1>2, <1>3, <1>4 DEF IsInjective
<1>6. ToSet(t) = ToSet(s) \cup {e}
  BY <1>1, <1>2, <1>4 DEF ToSet
<1>7. Len(t) \in Nat \ {0} /\ t[Len(t)] = e
  BY <1>1, <1>2
<1> QED BY <1>2, <1>5, <1>6, <1>7 DEF t

\* What is left of a sequence without its first n.
LEMMA SuffixIs ==
  ASSUME NEW A, NEW s \in Seq(A), IsInjective(s), NEW n \in 0 .. Len(s) - 1
  PROVE  /\ SubSeq(s, n + 1, Len(s)) \in Seq(A) /\ IsInjective(SubSeq(s, n + 1, Len(s)))
         /\ ToSet(SubSeq(s, n + 1, Len(s))) \subseteq ToSet(s)
         /\ s[Len(s)] \in ToSet(SubSeq(s, n + 1, Len(s)))
         /\ n = Len(s) - 1 => ToSet(SubSeq(s, n + 1, Len(s))) = {s[Len(s)]}
<1> DEFINE l == Len(s)
           t == SubSeq(s, n + 1, l)
<1>1. l \in Nat /\ DOMAIN s = 1 .. l /\ \A i \in 1 .. l : s[i] \in A
  BY ElementOfSeq, LenProperties
<1>2. n \in Nat /\ n < l
  BY <1>1
<1>3. /\ t \in Seq(A) /\ Len(t) = l - n /\ DOMAIN t = 1 .. l - n
      /\ \A j \in 1 .. l - n : t[j] = s[n + j]
  <2>1. n + 1 \in Int /\ l \in Int /\ \A j \in n + 1 .. l : s[j] \in A
    BY <1>1, <1>2
  <2>2. (IF n + 1 <= l THEN l - (n + 1) + 1 ELSE 0) = l - n
    BY <1>1, <1>2
  <2>3. \A j \in 1 .. l - n : (n + 1) + j - 1 = n + j
    BY <1>1, <1>2
  <2>4. /\ t \in Seq(A) /\ Len(t) = l - n
        /\ \A j \in 1 .. l - n : t[j] = s[n + j]
    <3> HIDE DEF l
    <3> QED BY <2>1, <2>2, <2>3, SubSeqProperties
  <2> QED BY <2>4, LenProperties
<1> HIDE DEF t, l
<1>4. \A j \in 1 .. l - n : n + j \in 1 .. l
  BY <1>1, <1>2
<1>5. IsInjective(t)
  BY <1>1, <1>2, <1>3, <1>4 DEF IsInjective
<1>6. ToSet(t) \subseteq ToSet(s)
  BY <1>1, <1>3, <1>4 DEF ToSet
<1>7. s[l] \in ToSet(t)
  <2>1. l - n \in 1 .. l - n /\ n + (l - n) = l
    BY <1>1, <1>2
  <2> QED BY <1>3, <2>1 DEF ToSet
<1>8. ASSUME n = l - 1 PROVE ToSet(t) = {s[l]}
  <2>1. \A j \in 1 .. l - n : n + j = l
    BY <1>1, <1>2, <1>8
  <2> QED BY <1>3, <1>7, <2>1 DEF ToSet
<1> QED BY <1>3, <1>5, <1>6, <1>7, <1>8 DEF t, l

-----------------------------------------------------------------------------
(* What a function comes to over a finite set, whichever is counted first. *)

SumOf(f, S) == MapThenSumSet(LAMBDA x : f[x], S)

\* One function of the set's subsets sums them all.
Sums(sum, f, S, C) ==
  /\ ChoosesFrom(C, S) /\ sum[{}] = 0
  /\ \A s \in SUBSET S : s # {} => sum[s] = f[C[s]] + sum[s \ {C[s]}]
  /\ \A s \in SUBSET S : SumOf(f, s) = sum[s]

LEMMA SumFolds ==
  ASSUME NEW S, IsFiniteSet(S), NEW f, \A x \in S : f[x] \in Nat
  PROVE  \E sum \in [SUBSET S -> Nat] : \E C : Sums(sum, f, S, C)
<1> DEFINE C == [s \in SUBSET S |-> CHOOSE x \in s : TRUE]
           G == [x \in S |-> [k \in Nat |-> f[x] + k]]
<1>1. ChoosesFrom(C, S)
  BY DEF ChoosesFrom
<1>2. \A s \in SUBSET S : C[s] = CHOOSE x \in s : TRUE
  OBVIOUS
<1>3. G \in [S -> [Nat -> Nat]] /\ \A x \in S : \A k \in Nat : G[x][k] = f[x] + k
  OBVIOUS
<1> HIDE DEF C, G
<1>4. PICK sum \in [SUBSET S -> Nat] : FoldsBy(sum, S, 0, C, G)
  BY <1>1, <1>3, FoldExists
<1>5. /\ sum[{}] = 0
      /\ \A s \in SUBSET S : s # {} => sum[s] = f[C[s]] + sum[s \ {C[s]}]
  <2>1. ASSUME NEW s \in SUBSET S, s # {} PROVE sum[s] = f[C[s]] + sum[s \ {C[s]}]
    <3>1. C[s] \in S /\ s \ {C[s]} \in SUBSET S /\ sum[s \ {C[s]}] \in Nat
      BY <1>1, <2>1 DEF ChoosesFrom
    <3> QED BY <1>3, <1>4, <2>1, <3>1 DEF FoldsBy
  <2> QED BY <1>4, <2>1 DEF FoldsBy
<1>6. ASSUME NEW T \in SUBSET S PROVE SumOf(f, T) = sum[T]
  <2> DEFINE Is(h) == h = [s \in SUBSET T |->
                             IF s = {} THEN 0
                             ELSE LET x == CHOOSE y \in s : TRUE IN f[x] + h[s \ {x}]]
             iter == CHOOSE h : Is(h)
             part == [s \in SUBSET T |-> sum[s]]
  <2>1. Is(part)
    <3>1. ASSUME NEW s \in SUBSET T, s # {}
          PROVE  part[s] = f[CHOOSE y \in s : TRUE] + part[s \ {CHOOSE y \in s : TRUE}]
      <4>1. s \in SUBSET S /\ C[s] = (CHOOSE y \in s : TRUE) /\ s \ {C[s]} \in SUBSET T
        BY <1>2
      <4> QED BY <1>5, <3>1, <4>1
    <3>2. part[{}] = 0 /\ {} \in SUBSET T
      BY <1>5
    <3>3. part = [s \in SUBSET T |-> part[s]]
      OBVIOUS
    <3> HIDE DEF part
    <3> QED BY <3>1, <3>2, <3>3
  <2>2. Is(iter)
    <3> HIDE DEF Is
    <3> QED BY <2>1
  <2>3. SumOf(f, T) = iter[T]
    BY DEF SumOf, MapThenSumSet, MapThenFoldSet
  <2>4. iter[{}] = 0
    <3> HIDE DEF iter
    <3> QED BY <2>2
  <2>5. ASSUME NEW s \in SUBSET T, s # {} PROVE iter[s] = f[C[s]] + iter[s \ {C[s]}]
    <3>1. C[s] = CHOOSE y \in s : TRUE
      BY <1>2
    <3> HIDE DEF iter
    <3> QED BY <2>2, <2>5, <3>1
  <2> HIDE DEF iter
  <2> DEFINE P == {s \in SUBSET T : iter[s] = sum[s]}
  <2>6. {} \in P
    BY <1>5, <2>4
  <2>7. ASSUME NEW s \in SUBSET T, s # {}, \A x \in s : s \ {x} \in P PROVE s \in P
    <3>1. C[s] \in s /\ s \in SUBSET S
      BY <1>1, <2>7 DEF ChoosesFrom
    <3>2. iter[s \ {C[s]}] = sum[s \ {C[s]}]
      BY <2>7, <3>1
    <3> QED BY <1>5, <2>5, <2>7, <3>1, <3>2
  <2>8. IsFiniteSet(T)
    BY FS_Subset
  <2>9. SUBSET T \subseteq P
    <3> HIDE DEF P
    <3> QED BY <2>6, <2>7, <2>8, SubsetInduction
  <2> QED BY <2>3, <2>9
<1>7. Sums(sum, f, S, C)
  BY <1>1, <1>5, <1>6 DEF Sums
<1> QED BY <1>7

\* Nothing sums to 0, and any one may be counted first.
LEMMA SumSplits ==
  ASSUME NEW S, IsFiniteSet(S), NEW f, \A x \in S : f[x] \in Nat
  PROVE  /\ SumOf(f, {}) = 0 /\ SumOf(f, S) \in Nat
         /\ \A x \in S : SumOf(f, S) = f[x] + SumOf(f, S \ {x})
<1>1. PICK sum \in [SUBSET S -> Nat] : \E C : Sums(sum, f, S, C)
  BY SumFolds
<1>2. PICK C : Sums(sum, f, S, C)
  BY <1>1
<1>3. /\ ChoosesFrom(C, S) /\ sum[{}] = 0
      /\ \A s \in SUBSET S : s # {} => sum[s] = f[C[s]] + sum[s \ {C[s]}]
      /\ \A s \in SUBSET S : SumOf(f, s) = sum[s]
  BY <1>2 DEF Sums
<1> DEFINE P == {s \in SUBSET S : \A x \in s : sum[s] = f[x] + sum[s \ {x}]}
<1>4. {} \in P
  OBVIOUS
<1>5. ASSUME NEW s \in SUBSET S, s # {}, \A x \in s : s \ {x} \in P PROVE s \in P
  <2> SUFFICES ASSUME NEW x \in s PROVE sum[s] = f[x] + sum[s \ {x}]
    OBVIOUS
  <2> DEFINE c == C[s]
  <2>1. c \in s /\ sum[s] = f[c] + sum[s \ {c}]
    BY <1>3, <1>5 DEF ChoosesFrom
  <2>2. CASE x = c
    BY <2>1, <2>2
  <2>3. CASE x # c
    <3> HIDE DEF c
    <3>1. x \in s \ {c} /\ c \in s \ {x} /\ (s \ {c}) \ {x} = (s \ {x}) \ {c}
      BY <2>1, <2>3
    <3>2. sum[s \ {c}] = f[x] + sum[(s \ {c}) \ {x}]
      BY <1>5, <2>1, <3>1
    <3>3. sum[s \ {x}] = f[c] + sum[(s \ {x}) \ {c}]
      BY <1>5, <2>1, <3>1
    <3>4. f[x] \in Nat /\ f[c] \in Nat /\ sum[(s \ {c}) \ {x}] \in Nat
      BY <1>3, <2>1
    <3> DEFINE k == sum[(s \ {c}) \ {x}]
    <3>5. sum[s] = f[c] + (f[x] + k) /\ sum[s \ {x}] = f[c] + k
      BY <2>1, <3>1, <3>2, <3>3
    <3> HIDE DEF k
    <3>6. k \in Nat
      BY <3>4 DEF k
    <3> QED BY <3>4, <3>5, <3>6
  <2> QED BY <2>2, <2>3
<1>6. SUBSET S \subseteq P
  <2> HIDE DEF P
  <2> QED BY <1>4, <1>5, SubsetInduction
<1>7. S \in SUBSET S /\ {} \in SUBSET S /\ \A x \in S : S \ {x} \in SUBSET S
  OBVIOUS
<1>8. S \in P
  BY <1>6, <1>7
<1> QED BY <1>3, <1>7, <1>8

\* Two functions, one of which is nowhere greater; or agrees where it isn't 0.
LEMMA SumMonotone ==
  ASSUME NEW S, IsFiniteSet(S), NEW f, NEW g,
         \A x \in S : f[x] \in Nat /\ g[x] \in Nat /\ f[x] <= g[x]
  PROVE  SumOf(f, S) <= SumOf(g, S)
<1> DEFINE P == {s \in SUBSET S : SumOf(f, s) <= SumOf(g, s)}
<1>1. \A s \in SUBSET S : IsFiniteSet(s)
  BY FS_Subset
<1>2. ASSUME NEW s \in SUBSET S
      PROVE  /\ SumOf(f, {}) = 0 /\ SumOf(f, s) \in Nat
             /\ SumOf(g, {}) = 0 /\ SumOf(g, s) \in Nat
             /\ \A x \in s : SumOf(f, s) = f[x] + SumOf(f, s \ {x})
             /\ \A x \in s : SumOf(g, s) = g[x] + SumOf(g, s \ {x})
  <2>1. IsFiniteSet(s) /\ (\A x \in s : f[x] \in Nat) /\ \A x \in s : g[x] \in Nat
    BY <1>1
  <2> QED BY <2>1, SumSplits
<1>3. {} \in P
  BY <1>2
<1>4. ASSUME NEW s \in SUBSET S, s # {}, \A x \in s : s \ {x} \in P PROVE s \in P
  <2>1. PICK x \in s : TRUE
    BY <1>4
  <2>2. /\ SumOf(f, s \ {x}) <= SumOf(g, s \ {x}) /\ f[x] <= g[x]
        /\ f[x] \in Nat /\ g[x] \in Nat
        /\ SumOf(f, s \ {x}) \in Nat /\ SumOf(g, s \ {x}) \in Nat
    BY <1>2, <1>4
  <2>3. SumOf(f, s) = f[x] + SumOf(f, s \ {x}) /\ SumOf(g, s) = g[x] + SumOf(g, s \ {x})
    BY <1>2
  <2> QED BY <2>2, <2>3
<1>5. SUBSET S \subseteq P
  <2> HIDE DEF P
  <2> QED BY <1>3, <1>4, SubsetInduction
<1>6. S \in SUBSET S
  OBVIOUS
<1> QED BY <1>5, <1>6

LEMMA SumWhereNotNone ==
  ASSUME NEW S, IsFiniteSet(S), NEW A \in SUBSET S, NEW f, NEW g,
         \A x \in S : f[x] \in Nat /\ g[x] = IF x \in A THEN f[x] ELSE 0
  PROVE  SumOf(g, S) = SumOf(f, A)
<1> DEFINE P == {s \in SUBSET S : SumOf(g, s) = SumOf(f, s \cap A)}
<1>1. ASSUME NEW s \in SUBSET S
      PROVE  /\ SumOf(f, {}) = 0 /\ SumOf(g, {}) = 0 /\ SumOf(f, s) \in Nat
             /\ \A x \in s : SumOf(f, s) = f[x] + SumOf(f, s \ {x})
             /\ \A x \in s : SumOf(g, s) = g[x] + SumOf(g, s \ {x})
  <2>1. IsFiniteSet(s) /\ (\A x \in s : f[x] \in Nat) /\ \A x \in s : g[x] \in Nat
    BY FS_Subset
  <2> QED BY <2>1, SumSplits
<1>2. {} \in P
  <2>1. {} \cap A = {} /\ {} \in SUBSET S
    OBVIOUS
  <2> QED BY <1>1, <2>1
<1>3. ASSUME NEW s \in SUBSET S, s # {}, \A x \in s : s \ {x} \in P PROVE s \in P
  <2>1. PICK x \in s : TRUE
    BY <1>3
  <2>2. SumOf(g, s) = g[x] + SumOf(f, (s \ {x}) \cap A)
    BY <1>1, <1>3
  <2>3. CASE x \in A
    <3>1. s \cap A \in SUBSET S /\ x \in s \cap A /\ (s \ {x}) \cap A = (s \cap A) \ {x}
      BY <2>3
    <3>2. SumOf(f, s \cap A) = f[x] + SumOf(f, (s \cap A) \ {x})
      BY <1>1, <3>1
    <3> QED BY <2>2, <2>3, <3>1, <3>2
  <2>4. CASE x \notin A
    <3>1. (s \ {x}) \cap A = s \cap A /\ g[x] = 0 /\ s \cap A \in SUBSET S
      BY <2>4
    <3>2. SumOf(f, s \cap A) \in Nat
      BY <1>1, <3>1
    <3> QED BY <2>2, <3>1, <3>2
  <2> QED BY <2>3, <2>4
<1>4. SUBSET S \subseteq P
  <2> HIDE DEF P
  <2> QED BY <1>2, <1>3, SubsetInduction
<1>5. S \in P /\ S \cap A = A
  <2>1. S \in SUBSET S
    OBVIOUS
  <2>2. S \in P
    <3> HIDE DEF P
    <3> QED BY <1>4, <2>1
  <2> QED BY <2>2
<1> QED BY <1>5

\* Nothing summed.
LEMMA SumOfNone ==
  ASSUME NEW S, IsFiniteSet(S), NEW f, \A x \in S : f[x] = 0
  PROVE  SumOf(f, S) = 0
<1>1. PICK A \in SUBSET S : A = {}
  OBVIOUS
<1>2. \A x \in S : f[x] \in Nat /\ f[x] = IF x \in A THEN f[x] ELSE 0
  BY <1>1
<1>3. SumOf(f, S) = SumOf(f, A)
  BY <1>2, SumWhereNotNone
<1>4. SumOf(f, A) = 0
  BY <1>1, SumSplits, FS_EmptySet
<1> QED BY <1>3, <1>4
=============================================================================
