----------------------------- MODULE DataLemmas -----------------------------
(***************************************************************************)
(* What the proofs need to know of sequences without repetition, and of    *)
(* folds over finite sets: the sums that MapThenSumSet computes, and the   *)
(* elements FoldSet takes out of a sequence.  A fold recurs over the       *)
(* subsets of the set, which the strict subset relation orders well: what  *)
(* is false of a subset is false of a least one, and this stands for       *)
(* induction in every proof below.                                         *)
(***************************************************************************)
EXTENDS Integers, SequencesExt, FiniteSetTheorems, SequenceTheorems,
        WellFoundedInduction, TLAPS

-----------------------------------------------------------------------------
(* Sequences without repetition, and the sets of their elements *)

\* The empty sequence is the only one without elements.
LEMMA ToSetEmpty ==
  ASSUME NEW S, NEW s \in Seq(S)
  PROVE  /\ ToSet(<<>>) = {}
         /\ IsInjective(<<>>)
         /\ ToSet(s) \subseteq S
         /\ s # <<>> => Head(s) \in ToSet(s)
  BY DEF ToSet, IsInjective

\* Append adds one element, and repeats none when it is new.
LEMMA ToSetAppend ==
  ASSUME NEW S, NEW s \in Seq(S), NEW e \in S
  PROVE  /\ Append(s, e) \in Seq(S)
         /\ ToSet(Append(s, e)) = ToSet(s) \cup {e}
         /\ IsInjective(s) /\ e \notin ToSet(s) => IsInjective(Append(s, e))
<1> DEFINE t == Append(s, e)
<1>1. /\ t \in Seq(S)
      /\ Len(t) = Len(s) + 1
      /\ DOMAIN s = 1 .. Len(s) /\ DOMAIN t = 1 .. Len(s) + 1
      /\ \A i \in 1 .. Len(s) : t[i] = s[i]
      /\ t[Len(s) + 1] = e
      /\ Len(s) \in Nat
  BY AppendProperties
<1> HIDE DEF t
<1>2. ToSet(t) = ToSet(s) \cup {e}
  BY <1>1 DEF ToSet
<1>3. IsInjective(s) /\ e \notin ToSet(s) => IsInjective(t)
  BY <1>1 DEF ToSet, IsInjective
<1>4. QED
  BY <1>1, <1>2, <1>3 DEF t

\* Tail drops the head, and nothing else, of a sequence without repetition.
LEMMA ToSetTail ==
  ASSUME NEW S, NEW s \in Seq(S), s # <<>>, IsInjective(s)
  PROVE  /\ Head(s) \in S /\ Head(s) \in ToSet(s)
         /\ Tail(s) \in Seq(S)
         /\ ToSet(Tail(s)) = ToSet(s) \ {Head(s)}
         /\ IsInjective(Tail(s))
<1> DEFINE t == Tail(s)
<1>1. /\ t \in Seq(S)
      /\ Head(s) \in S /\ Head(s) = s[1]
      /\ DOMAIN s = 1 .. Len(s) /\ DOMAIN t = 1 .. Len(s) - 1
      /\ \A i \in 1 .. Len(s) - 1 : t[i] = s[i + 1]
      /\ Len(s) \in Nat \ {0}
  BY HeadTailProperties, EmptySeq
<1> HIDE DEF t
<1>2. ToSet(t) \subseteq ToSet(s) \ {s[1]}
  BY <1>1 DEF ToSet, IsInjective
<1>3. ToSet(s) \ {s[1]} \subseteq ToSet(t)
  <2>1. SUFFICES ASSUME NEW i \in 1 .. Len(s), s[i] # s[1]
                 PROVE  s[i] \in ToSet(t)
    BY <1>1 DEF ToSet
  <2>2. i - 1 \in 1 .. Len(s) - 1 /\ t[i - 1] = s[i]
    BY <1>1, <2>1
  <2>3. QED
    BY <1>1, <2>2 DEF ToSet
<1>4. IsInjective(t)
  <2>1. SUFFICES ASSUME NEW i \in 1 .. Len(s) - 1, NEW j \in 1 .. Len(s) - 1, t[i] = t[j]
                 PROVE  i = j
    BY <1>1 DEF IsInjective
  <2>2. i + 1 \in DOMAIN s /\ j + 1 \in DOMAIN s /\ s[i + 1] = s[j + 1]
    BY <1>1, <2>1
  <2>3. QED
    BY <2>2 DEF IsInjective
<1>5. Head(s) \in ToSet(s)
  BY <1>1 DEF ToSet
<1>6. QED
  BY <1>1, <1>2, <1>3, <1>4, <1>5 DEF t

\* RemoveFirst removes the element it is asked to, and nothing else.
LEMMA ToSetRemoveFirst ==
  ASSUME NEW S, NEW s \in Seq(S), NEW e, IsInjective(s)
  PROVE  /\ RemoveFirst(s, e) \in Seq(S)
         /\ ToSet(RemoveFirst(s, e)) = ToSet(s) \ {e}
         /\ IsInjective(RemoveFirst(s, e))
<1>1. CASE \A i \in 1 .. Len(s) : s[i] # e
  <2>1. RemoveFirst(s, e) = s
    BY <1>1 DEF RemoveFirst
  <2>2. e \notin ToSet(s)
    BY <1>1 DEF ToSet
  <2>3. QED
    BY <2>1, <2>2
<1>2. ASSUME NEW i \in 1 .. Len(s), s[i] = e
      PROVE  /\ RemoveFirst(s, e) \in Seq(S)
             /\ ToSet(RemoveFirst(s, e)) = ToSet(s) \ {e}
             /\ IsInjective(RemoveFirst(s, e))
  <2> DEFINE t == SubSeq(s, 1, i - 1) \o SubSeq(s, i + 1, Len(s))
  <2>1. {j \in 1 .. Len(s) : s[j] = e} = {i}
    BY <1>2 DEF IsInjective
  <2>2. Min({i}) = i
    BY DEF Min
  <2>3. RemoveFirst(s, e) = t
    BY <1>2, <2>1, <2>2 DEF RemoveFirst, RemoveAt, SelectInSeq
  <2>4. /\ Len(s) \in Nat
        /\ SubSeq(s, 1, i - 1) \in Seq(S) /\ Len(SubSeq(s, 1, i - 1)) = i - 1
        /\ SubSeq(s, i + 1, Len(s)) \in Seq(S) /\ Len(SubSeq(s, i + 1, Len(s))) = Len(s) - i
        /\ \A j \in 1 .. i - 1 : SubSeq(s, 1, i - 1)[j] = s[j]
        /\ \A j \in 1 .. Len(s) - i : SubSeq(s, i + 1, Len(s))[j] = s[i + j]
    BY SubSeqProperties
  <2>5. /\ t \in Seq(S)
        /\ DOMAIN t = 1 .. Len(s) - 1
        /\ \A j \in 1 .. Len(s) - 1 : t[j] = IF j < i THEN s[j] ELSE s[j + 1]
    <3> DEFINE l == SubSeq(s, 1, i - 1)
               r == SubSeq(s, i + 1, Len(s))
    <3>1. /\ l \in Seq(S) /\ Len(l) = i - 1
          /\ r \in Seq(S) /\ Len(r) = Len(s) - i
          /\ \A j \in 1 .. i - 1 : l[j] = s[j]
          /\ \A j \in 1 .. Len(s) - i : r[j] = s[i + j]
      BY <2>4
    <3> HIDE DEF l, r
    <3>2. /\ l \o r \in Seq(S) /\ Len(l \o r) = Len(s) - 1
          /\ DOMAIN (l \o r) = 1 .. Len(s) - 1
      <4>1. l \o r \in Seq(S) /\ Len(l \o r) = Len(l) + Len(r)
        BY <3>1, ConcatProperties
      <4>2. Len(l) + Len(r) = Len(s) - 1
        BY <2>4, <3>1
      <4>3. QED
        BY <4>1, <4>2
    <3>3. ASSUME NEW j \in 1 .. Len(s) - 1
          PROVE  (l \o r)[j] = IF j < i THEN s[j] ELSE s[j + 1]
      <4>1. (l \o r)[j] = IF j <= i - 1 THEN l[j] ELSE r[j - (i - 1)]
        BY <2>4, <3>1, ConcatProperties
      <4>2. CASE j < i
        BY <2>4, <3>1, <4>1, <4>2
      <4>3. CASE ~(j < i)
        <5>1. j - (i - 1) \in 1 .. Len(s) - i /\ i + (j - (i - 1)) = j + 1
          BY <2>4, <4>3
        <5>2. (l \o r)[j] = r[j - (i - 1)]
          BY <2>4, <4>1, <4>3
        <5>3. r[j - (i - 1)] = s[i + (j - (i - 1))]
          BY <3>1, <5>1
        <5>4. QED
          BY <4>3, <5>1, <5>2, <5>3
      <4>4. QED
        BY <4>2, <4>3
    <3>4. QED
      BY <3>2, <3>3 DEF l, r
  <2> HIDE DEF t
  <2>6. ToSet(t) \subseteq ToSet(s) \ {e}
    <3>1. SUFFICES ASSUME NEW j \in 1 .. Len(s) - 1
                   PROVE  \E k \in 1 .. Len(s) : t[j] = s[k] /\ s[k] # e
      BY <2>5 DEF ToSet
    <3>2. CASE j < i
      BY <2>1, <2>4, <2>5, <3>2
    <3>3. CASE ~(j < i)
      <4>1. j + 1 \in 1 .. Len(s) /\ t[j] = s[j + 1] /\ j + 1 # i
        BY <2>4, <2>5, <3>3
      <4>2. QED
        BY <2>1, <4>1
    <3>4. QED
      BY <3>2, <3>3
  <2>7. ToSet(s) \ {e} \subseteq ToSet(t)
    <3> DEFINE Kept(j) == \E k \in 1 .. Len(s) - 1 : t[k] = s[j]
    <3>1. SUFFICES ASSUME NEW j \in 1 .. Len(s), s[j] # e
                   PROVE  Kept(j)
      <4>1. ASSUME \A j \in 1 .. Len(s) : s[j] # e => Kept(j),
                   NEW x \in ToSet(s) \ {e}
            PROVE  x \in ToSet(t)
        <5>1. PICK j \in 1 .. Len(s) : x = s[j]
          BY <2>4 DEF ToSet
        <5>2. PICK k \in 1 .. Len(s) - 1 : t[k] = s[j]
          BY <4>1, <5>1
        <5>3. QED
          BY <2>5, <5>1, <5>2 DEF ToSet
      <4>2. QED
        BY <4>1
    <3>2. CASE j < i
      <4>1. j \in 1 .. Len(s) - 1 /\ t[j] = s[j]
        BY <2>4, <2>5, <3>2
      <4>2. QED
        BY <4>1
    <3>3. CASE i < j
      <4>1. j - 1 \in 1 .. Len(s) - 1 /\ t[j - 1] = s[j]
        BY <2>4, <2>5, <3>3
      <4>2. QED
        BY <4>1
    <3>4. QED
      BY <1>2, <3>1, <3>2, <3>3
  <2>8. IsInjective(t)
    <3>1. SUFFICES ASSUME NEW j \in 1 .. Len(s) - 1, NEW k \in 1 .. Len(s) - 1, t[j] = t[k]
                   PROVE  j = k
      BY <2>5 DEF IsInjective
    <3>2. \A m, n \in 1 .. Len(s) : s[m] = s[n] => m = n
      BY <2>4 DEF IsInjective
    <3>3. j + 1 \in 1 .. Len(s) /\ k + 1 \in 1 .. Len(s) /\ j \in 1 .. Len(s) /\ k \in 1 .. Len(s)
      BY <2>4
    <3>4. QED
      BY <2>5, <3>1, <3>2, <3>3
  <2>9. QED
    BY <2>3, <2>5, <2>6, <2>7, <2>8
<1>3. QED
  BY <1>1, <1>2

\* Front drops the last element, and nothing else.
LEMMA FrontElements ==
  ASSUME NEW S, NEW s \in Seq(S), s # <<>>
  PROVE  /\ Front(s) \in Seq(S)
         /\ Len(s) \in Nat \ {0} /\ Len(Front(s)) = Len(s) - 1
         /\ s[Len(s)] \in S
         /\ \A i \in 1 .. Len(s) - 1 : Front(s)[i] = s[i]
<1>1. Len(s) \in Nat \ {0}
  BY EmptySeq
<1>2. /\ SubSeq(s, 1, Len(s) - 1) \in Seq(S)
      /\ Len(SubSeq(s, 1, Len(s) - 1)) = Len(s) - 1
      /\ \A i \in 1 .. Len(s) - 1 : SubSeq(s, 1, Len(s) - 1)[i] = s[i]
  <2> DEFINE n == Len(s) - 1
  <2>1. n \in Nat /\ \A i \in 1 .. n : s[i] \in S
    BY <1>1
  <2> HIDE DEF n
  <2>2. /\ SubSeq(s, 1, n) \in Seq(S)
        /\ Len(SubSeq(s, 1, n)) = IF 1 <= n THEN n - 1 + 1 ELSE 0
        /\ \A i \in 1 .. n - 1 + 1 : SubSeq(s, 1, n)[i] = s[1 + i - 1]
    BY <2>1, SubSeqProperties
  <2>3. Len(SubSeq(s, 1, n)) = n /\ n - 1 + 1 = n /\ \A i \in 1 .. n : 1 + i - 1 = i
    BY <2>1, <2>2
  <2>4. \A i \in 1 .. n : SubSeq(s, 1, n)[i] = s[i]
    BY <2>2, <2>3
  <2> QED
    BY <2>2, <2>3, <2>4 DEF n
<1>3. s[Len(s)] \in S
  BY <1>1, ElementOfSeq
<1> QED
  BY <1>1, <1>2, <1>3 DEF Front

-----------------------------------------------------------------------------
(* Folds *)

\* A set of subsets of a finite set has a member that no other one is within.
LEMMA LeastSubset ==
  ASSUME NEW S, IsFiniteSet(S), NEW B \in SUBSET (SUBSET S), B # {}
  PROVE  \E T \in B : \A U \in B : U \subseteq T => U = T
<1>1. IsWellFoundedOn(StrictSubsetOrdering(S), SUBSET S)
  BY FS_StrictSubsetOrderingWellFounded, FS_FiniteSubsetsOfFinite
<1>2. \E T \in B : \A U \in B : ~(<<U, T>> \in StrictSubsetOrdering(S))
  BY <1>1, WFMin
<1>3. PICK T \in B : \A U \in B : ~(<<U, T>> \in StrictSubsetOrdering(S))
  BY <1>2
<1>4. ASSUME NEW U \in B, U \subseteq T
      PROVE  U = T
  <2>1. U \in SUBSET S /\ T \in SUBSET S
    OBVIOUS
  <2> QED
    BY <1>3, <1>4, <2>1 DEF StrictSubsetOrdering
<1> QED
  BY <1>4

\* Naturals below a bound have a least one among them.
LEMMA MinLeast ==
  ASSUME NEW L \in Nat, NEW N \in SUBSET (0 .. L), N # {}
  PROVE  Min(N) \in N /\ \A n \in N : Min(N) <= n
<1> DEFINE B == {1 .. n : n \in N}
<1>1. /\ IsFiniteSet(1 .. L)
      /\ B \in SUBSET (SUBSET (1 .. L))
      /\ B # {}
  <2>1. IsFiniteSet(1 .. L)
    BY FS_Interval
  <2>2. ASSUME NEW n \in N
        PROVE  1 .. n \subseteq 1 .. L
    OBVIOUS
  <2> QED
    BY <2>1, <2>2
<1>2. PICK T \in B : \A U \in B : U \subseteq T => U = T
  <2>1. \E T \in B : \A U \in B : U \subseteq T => U = T
    <3> DEFINE R == 1 .. L
    <3>1. IsFiniteSet(R) /\ B \in SUBSET (SUBSET R) /\ B # {}
      BY <1>1
    <3> HIDE DEF B, R
    <3> QED
      BY <3>1, LeastSubset
  <2> QED
    BY <2>1
<1>3. PICK m \in N : T = 1 .. m
  BY <1>2
<1>4. ASSUME NEW n \in N
      PROVE  m <= n
  <2>1. m \in Nat /\ n \in Nat
    OBVIOUS
  <2>2. CASE n < m
    <3>1. 1 .. n \subseteq 1 .. m
      BY <2>1, <2>2
    <3>2. 1 .. n = 1 .. m
      BY <1>2, <1>3, <3>1
    <3>3. m \in 1 .. m /\ m \notin 1 .. n
      BY <2>1, <2>2
    <3> QED
      BY <3>2, <3>3
  <2> QED
    BY <2>1, <2>2
<1>5. \E x \in N : \A y \in N : x <= y
  BY <1>4
<1> QED
  BY <1>5 DEF Min

\* What the fold takes next from a set, and the recursion it stands for: step[x][n]
\* is what taking x makes of n.
NextOf(T) == CHOOSE x \in T : TRUE
Folds(step, base, T, g) ==
  g = [U \in SUBSET T |->
         IF U = {} THEN base ELSE step[NextOf(U)][g[U \ {NextOf(U)}]]]

\* What comes next in a set that is not empty is one of its members.
LEMMA NextOfIn == ASSUME NEW U, U # {} PROVE NextOf(U) \in U
BY DEF NextOf

\* Induction over the subsets of a finite set, one element at a time.
LEMMA SubsetsByNext ==
  ASSUME NEW S, IsFiniteSet(S), NEW G, {} \in G,
         \A U \in SUBSET S : U # {} /\ U \ {NextOf(U)} \in G => U \in G
  PROVE  SUBSET S \subseteq G
<1> DEFINE B == (SUBSET S) \ G
<1>1. ASSUME B # {}
      PROVE  FALSE
  <2>1. PICK T \in B : \A V \in B : V \subseteq T => V = T
    <3>1. B \in SUBSET (SUBSET S)
      OBVIOUS
    <3> HIDE DEF B
    <3> QED
      BY <1>1, <3>1, LeastSubset
  <2>2. T # {} /\ NextOf(T) \in T
    BY NextOfIn
  <2>3. T \ {NextOf(T)} \in G
    BY <2>1, <2>2
  <2> QED
    BY <2>2, <2>3
<1> QED
  BY <1>1

\* The recursion has at most one solution on a finite set.
LEMMA FoldsUnique ==
  ASSUME NEW step, NEW base, NEW T, IsFiniteSet(T), NEW g, NEW h, Folds(step, base, T, g), Folds(step, base, T, h)
  PROVE  g = h
<1> DEFINE B == {U \in SUBSET T : g[U] # h[U]}
<1>1. ASSUME B # {}
      PROVE  FALSE
  <2>1. PICK U \in B : \A V \in B : V \subseteq U => V = U
    <3>1. B \in SUBSET (SUBSET T)
      OBVIOUS
    <3> HIDE DEF B
    <3> QED
      BY <1>1, <3>1, LeastSubset
  <2>2. U # {}
    BY DEF Folds
  <2>3. g[U \ {NextOf(U)}] = h[U \ {NextOf(U)}]
    BY <2>1, <2>2, NextOfIn
  <2> QED
    BY <2>1, <2>2, <2>3 DEF Folds
<1>2. \A U \in SUBSET T : g[U] = h[U]
  BY <1>1
<1> QED
  BY <1>2 DEF Folds

\* A solution on a set is one on each of its subsets.
LEMMA FoldsRestricts ==
  ASSUME NEW step, NEW base, NEW T, NEW g, Folds(step, base, T, g), NEW W \in SUBSET T
  PROVE  Folds(step, base, W, [U \in SUBSET W |-> g[U]])
<1> DEFINE r == [U \in SUBSET W |-> g[U]]
<1>1. \A U \in SUBSET W : g[U] = IF U = {} THEN base ELSE step[NextOf(U)][g[U \ {NextOf(U)}]]
  BY DEF Folds
<1>2. \A U \in SUBSET W : U # {} => g[U \ {NextOf(U)}] = r[U \ {NextOf(U)}]
  OBVIOUS
<1>3. \A U \in SUBSET W : r[U] = IF U = {} THEN base ELSE step[NextOf(U)][r[U \ {NextOf(U)}]]
  BY <1>1, <1>2
<1> QED
  BY <1>3 DEF Folds

\* The recursion has a solution on every finite set.
LEMMA FoldsExists ==
  ASSUME NEW step, NEW base, NEW S, IsFiniteSet(S)
  PROVE  \E g : Folds(step, base, S, g)
<1> DEFINE B == {T \in SUBSET S : ~\E g : Folds(step, base, T, g)}
<1>1. ASSUME B # {}
      PROVE  FALSE
  <2>1. PICK T \in B : \A V \in B : V \subseteq T => V = T
    <3>1. B \in SUBSET (SUBSET S)
      OBVIOUS
    <3> HIDE DEF B
    <3> QED
      BY <1>1, <3>1, LeastSubset
  <2> DEFINE sol(U) == CHOOSE g : Folds(step, base, U, g)
             total(U) == sol(U)[U]
             whole == [U \in SUBSET T |-> IF U = {} THEN base ELSE step[NextOf(U)][total(U \ {NextOf(U)})]]
  <2>2. \A V \in SUBSET T : V # T => Folds(step, base, V, sol(V))
    <3>1. \A V \in SUBSET T : V # T => \E g : Folds(step, base, V, g)
      BY <2>1
    <3> QED
      BY <3>1
  <2>3. ASSUME NEW V \in SUBSET T, V # T
        PROVE  total(V) = whole[V]
    <3>1. Folds(step, base, V, sol(V))
      BY <2>2, <2>3
    <3>2. CASE V = {}
      BY <3>1, <3>2 DEF Folds
    <3>3. CASE V # {}
      <4> DEFINE W == V \ {NextOf(V)}
      <4>1. W \in SUBSET T /\ W # T /\ W \in SUBSET V
        BY <3>3, NextOfIn
      <4>2. Folds(step, base, W, [U \in SUBSET W |-> sol(V)[U]])
        BY <3>1, <4>1, FoldsRestricts
      <4>3. IsFiniteSet(W)
        BY <4>1, FS_Subset
      <4>4. Folds(step, base, W, sol(W))
        BY <2>2, <4>1
      <4>5. sol(W) = [U \in SUBSET W |-> sol(V)[U]]
        <5> HIDE DEF sol, W
        <5> QED BY <4>2, <4>3, <4>4, FoldsUnique
      <4>6. total(W) = sol(V)[W]
        BY <4>5
      <4>7. sol(V)[V] = step[NextOf(V)][sol(V)[W]]
        BY <3>1, <3>3 DEF Folds
      <4> QED
        BY <3>3, <4>6, <4>7
    <3> QED
      BY <3>2, <3>3
  <2>4. \A U \in SUBSET T : U # {} => total(U \ {NextOf(U)}) = whole[U \ {NextOf(U)}]
    BY <2>3, NextOfIn
  <2>5. whole = [U \in SUBSET T |-> whole[U]]
    OBVIOUS
  <2>6. \A U \in SUBSET T : whole[U] = IF U = {} THEN base ELSE step[NextOf(U)][whole[U \ {NextOf(U)}]]
    <3>1. \A U \in SUBSET T : whole[U] = IF U = {} THEN base ELSE step[NextOf(U)][total(U \ {NextOf(U)})]
      OBVIOUS
    <3> HIDE DEF whole, total
    <3> QED
      BY <2>4, <3>1
  <2>7. Folds(step, base, T, whole)
    <3> HIDE DEF whole
    <3> QED
      BY <2>5, <2>6 DEF Folds
  <2> QED
    BY <2>1, <2>7
<1>2. S \notin B
  BY <1>1
<1> QED
  BY <1>2
\* What the fold of a set is.
FoldOf(step, base, S) == (CHOOSE g : Folds(step, base, S, g))[S]

\* Folding nothing leaves the base, and anything else what comes next and the rest.
LEMMA FoldEmpty ==
  ASSUME NEW step, NEW base
  PROVE  FoldOf(step, base, {}) = base
<1>1. Folds(step, base, {}, CHOOSE g : Folds(step, base, {}, g))
  BY FoldsExists, FS_EmptySet
<1> QED
  BY <1>1 DEF Folds, FoldOf

\* It does not matter of which larger set the fold is a part.
LEMMA FoldPart ==
  ASSUME NEW step, NEW base, NEW T, IsFiniteSet(T), NEW g, Folds(step, base, T, g),
         NEW W \in SUBSET T
  PROVE  FoldOf(step, base, W) = g[W]
<1> DEFINE h == CHOOSE h : Folds(step, base, W, h)
<1>1. IsFiniteSet(W)
  BY FS_Subset
<1>2. Folds(step, base, W, h)
  BY <1>1, FoldsExists
<1>3. Folds(step, base, W, [U \in SUBSET W |-> g[U]])
  BY FoldsRestricts
<1>4. h = [U \in SUBSET W |-> g[U]]
  <2> HIDE DEF h
  <2> QED
    BY <1>1, <1>2, <1>3, FoldsUnique
<1> QED
  BY <1>4 DEF FoldOf

\* A fold over a set that is not empty takes one member and folds the rest.
LEMMA FoldNext ==
  ASSUME NEW step, NEW base, NEW S, IsFiniteSet(S), S # {}
  PROVE  FoldOf(step, base, S) = step[NextOf(S)][FoldOf(step, base, S \ {NextOf(S)})]
<1>1. PICK g : Folds(step, base, S, g)
  BY FoldsExists
<1>2. FoldOf(step, base, S) = g[S] /\ FoldOf(step, base, S \ {NextOf(S)}) = g[S \ {NextOf(S)}]
  BY <1>1, FoldPart
<1>3. g[S] = step[NextOf(S)][g[S \ {NextOf(S)}]]
  BY <1>1 DEF Folds
<1> QED
  BY <1>2, <1>3

-----------------------------------------------------------------------------
(* Sums *)

Sum(f, S) == MapThenSumSet(LAMBDA x : f[x], S)

\* The recursion MapThenSumSet stands for, and its steps.
Adds(f, T, g) ==
  g = [U \in SUBSET T |-> IF U = {} THEN 0 ELSE f[NextOf(U)] + g[U \ {NextOf(U)}]]
Plus(f, S) == [x \in S |-> [n \in Int |-> f[x] + n]]

\* The community module's recursion is the one Adds states.
LEMMA SumIsAdds ==
  ASSUME NEW f, NEW S
  PROVE  Sum(f, S) = (CHOOSE g : Adds(f, S, g))[S]
BY DEF Sum, MapThenSumSet, MapThenFoldSet, Adds, NextOf

\* Which is a fold, as long as the summands are integers.
LEMMA SumIsFold ==
  ASSUME NEW S, IsFiniteSet(S), NEW f, \A x \in S : f[x] \in Int, NEW T \in SUBSET S
  PROVE  Sum(f, T) = FoldOf(Plus(f, S), 0, T)
<1> DEFINE step == Plus(f, S)
<1>1. IsFiniteSet(T)
  BY FS_Subset
<1>2. \A x \in T, n \in Int : step[x][n] = f[x] + n /\ f[x] \in Int
  BY DEF Plus
<1> HIDE DEF step
<1>3. ASSUME NEW h, Adds(f, T, h) \/ Folds(step, 0, T, h)
      PROVE  \A U \in SUBSET T : h[U] \in Int
  <2> DEFINE G == {U \in SUBSET T : h[U] \in Int}
  <2>1. {} \in G
    <3>1. {} \in SUBSET T
      OBVIOUS
    <3>2. h[{}] = 0
      BY <1>3, <3>1 DEF Adds, Folds
    <3> QED
      BY <3>1, <3>2
  <2>2. ASSUME NEW U \in SUBSET T, U # {}, U \ {NextOf(U)} \in G
        PROVE  U \in G
    <3>1. NextOf(U) \in T /\ h[U \ {NextOf(U)}] \in Int
      BY <2>2, NextOfIn
    <3>2. \/ h[U] = f[NextOf(U)] + h[U \ {NextOf(U)}]
          \/ h[U] = step[NextOf(U)][h[U \ {NextOf(U)}]]
      BY <1>3, <2>2 DEF Adds, Folds
    <3> QED
      BY <1>2, <3>1, <3>2
  <2>3. SUBSET T \subseteq G
    <3> HIDE DEF G
    <3> QED
      BY <1>1, <2>1, <2>2, SubsetsByNext
  <2> QED
    BY <2>3
<1>4. ASSUME NEW h, \A U \in SUBSET T : h[U] \in Int
      PROVE  Adds(f, T, h) <=> Folds(step, 0, T, h)
  <2>1. \A U \in SUBSET T : U # {} =>
           step[NextOf(U)][h[U \ {NextOf(U)}]] = f[NextOf(U)] + h[U \ {NextOf(U)}]
    BY <1>2, <1>4, NextOfIn
  <2> QED
    BY <2>1 DEF Adds, Folds
<1>5. \A h : Adds(f, T, h) <=> Folds(step, 0, T, h)
  BY <1>3, <1>4
<1> DEFINE g == CHOOSE g : Adds(f, T, g)
<1>6. \E h : Adds(f, T, h)
  BY <1>1, <1>5, FoldsExists
<1>7. Adds(f, T, g)
  BY <1>6
<1>8. Folds(step, 0, T, g)
  BY <1>5, <1>7
<1>9. FoldOf(step, 0, T) = g[T]
  <2> HIDE DEF g
  <2> QED
    BY <1>1, <1>8, FoldPart
<1> QED
  BY <1>9, SumIsAdds DEF step

\* The sum of nothing is 0, and of anything else what comes next and the rest.
LEMMA SumEmpty ==
  ASSUME NEW f
  PROVE  Sum(f, {}) = 0
<1>1. Sum(f, {}) = FoldOf(Plus(f, {}), 0, {})
  BY SumIsFold, FS_EmptySet
<1> QED
  BY <1>1, FoldEmpty

\* A sum over a set that is not empty: one summand, and the sum of the rest.
LEMMA SumNext ==
  ASSUME NEW S, IsFiniteSet(S), S # {}, NEW f, \A x \in S : f[x] \in Int
  PROVE  /\ Sum(f, S) = f[NextOf(S)] + Sum(f, S \ {NextOf(S)})
         /\ Sum(f, S) \in Int /\ Sum(f, S \ {NextOf(S)}) \in Int
<1> DEFINE step == Plus(f, S)
           total(U) == FoldOf(step, 0, U)
           G == {U \in SUBSET S : total(U) \in Int}
<1>1. \A x \in S, n \in Int : step[x][n] = f[x] + n /\ f[x] \in Int
  BY DEF Plus
<1>2. \A U \in SUBSET S : Sum(f, U) = total(U)
  BY SumIsFold
<1>3. \A U \in SUBSET S : U # {} => total(U) = step[NextOf(U)][total(U \ {NextOf(U)})]
  <2>1. \A U \in SUBSET S : IsFiniteSet(U)
    BY FS_Subset
  <2> QED
    BY <2>1, FoldNext
<1>4. {} \in G
  BY FoldEmpty
<1> HIDE DEF total, step
<1>5. \A U \in SUBSET S : U # {} /\ U \ {NextOf(U)} \in G => U \in G
  BY <1>1, <1>3, NextOfIn
<1>6. SUBSET S \subseteq G
  <2> HIDE DEF G
  <2> QED
    BY <1>4, <1>5, SubsetsByNext
<1>7. total(S) \in Int /\ total(S \ {NextOf(S)}) \in Int
  BY <1>6
<1>8. total(S) = f[NextOf(S)] + total(S \ {NextOf(S)})
  BY <1>1, <1>3, <1>7, NextOfIn
<1> QED
  BY <1>2, <1>7, <1>8

\* Summands that are integers have one for their sum.
LEMMA SumType ==
  ASSUME NEW S, IsFiniteSet(S), NEW f, \A x \in S : f[x] \in Int
  PROVE  Sum(f, S) \in Int
<1>1. CASE S = {}
  BY <1>1, SumEmpty
<1>2. CASE S # {}
  BY <1>2, SumNext
<1> QED
  BY <1>1, <1>2

\* Any element may be taken out first.
LEMMA SumTake ==
  ASSUME NEW S, IsFiniteSet(S), NEW f, \A x \in S : f[x] \in Int, NEW x \in S
  PROVE  Sum(f, S) = f[x] + Sum(f, S \ {x})
<1> DEFINE B == {T \in SUBSET S : \E y \in T : Sum(f, T) # f[y] + Sum(f, T \ {y})}
<1>1. ASSUME B # {}
      PROVE  FALSE
  <2>1. PICK T \in B : \A V \in B : V \subseteq T => V = T
    <3>1. B \in SUBSET (SUBSET S)
      OBVIOUS
    <3> HIDE DEF B
    <3> QED
      BY <1>1, <3>1, LeastSubset
  <2>2. PICK y \in T : Sum(f, T) # f[y] + Sum(f, T \ {y})
    OBVIOUS
  <2> DEFINE n == NextOf(T)
             both == (T \ {n}) \ {y}
  <2>3. IsFiniteSet(T) /\ T \in SUBSET S /\ n \in T /\ Sum(f, T) = f[n] + Sum(f, T \ {n})
    BY FS_Subset, NextOfIn, SumNext
  <2>4. n # y
    BY <2>2, <2>3
  <2>5. Sum(f, T \ {n}) = f[y] + Sum(f, both)
    <3>1. T \ {n} \notin B
      BY <2>1, <2>3
    <3> QED
      BY <2>3, <2>4, <3>1
  <2>6. Sum(f, T \ {y}) = f[n] + Sum(f, both)
    <3>1. T \ {y} \notin B
      BY <2>1, <2>2
    <3>2. both = (T \ {y}) \ {n}
      OBVIOUS
    <3> QED
      BY <2>3, <2>4, <3>1, <3>2
  <2>7. Sum(f, both) \in Int
    <3>1. both \in SUBSET S /\ IsFiniteSet(both)
      BY <2>3, FS_Subset
    <3> QED
      BY <3>1, SumType
  <2>8. f[n] \in Int /\ f[y] \in Int
    BY <2>3
  <2> HIDE DEF n, both
  <2> QED
    BY <2>2, <2>3, <2>5, <2>6, <2>7, <2>8
<1> QED
  BY <1>1

\* Only the summands matter.
LEMMA SumSame ==
  ASSUME NEW S, IsFiniteSet(S), NEW f, NEW g, \A x \in S : f[x] = g[x] /\ f[x] \in Int
  PROVE  Sum(f, S) = Sum(g, S)
<1> DEFINE G == {U \in SUBSET S : Sum(f, U) = Sum(g, U)}
<1>1. {} \in G
  BY SumEmpty
<1>2. ASSUME NEW U \in SUBSET S, U # {}, U \ {NextOf(U)} \in G
      PROVE  U \in G
  <2>1. IsFiniteSet(U) /\ NextOf(U) \in U
    BY <1>2, FS_Subset, NextOfIn
  <2>2. /\ Sum(f, U) = f[NextOf(U)] + Sum(f, U \ {NextOf(U)})
        /\ Sum(g, U) = g[NextOf(U)] + Sum(g, U \ {NextOf(U)})
    BY <1>2, <2>1, SumNext
  <2> QED
    BY <1>2, <2>1, <2>2
<1>3. SUBSET S \subseteq G
  <2> HIDE DEF G
  <2> QED
    BY <1>1, <1>2, SubsetsByNext
<1> QED
  BY <1>3

\* One more element adds its summand.
LEMMA SumAdd ==
  ASSUME NEW S, IsFiniteSet(S), NEW x, x \notin S, NEW f, \A y \in S \cup {x} : f[y] \in Int
  PROVE  Sum(f, S \cup {x}) = Sum(f, S) + f[x]
<1>1. IsFiniteSet(S \cup {x}) /\ (S \cup {x}) \ {x} = S
  BY FS_AddElement
<1>2. Sum(f, S \cup {x}) = f[x] + Sum(f, S)
  BY <1>1, SumTake
<1> QED
  BY <1>2, SumType

\* A part and the rest make the whole.
LEMMA SumSplit ==
  ASSUME NEW S, IsFiniteSet(S), NEW R \in SUBSET S, NEW f, \A x \in S : f[x] \in Int
  PROVE  Sum(f, S) = Sum(f, R) + Sum(f, S \ R)
<1> DEFINE B == {T \in SUBSET R : Sum(f, S) # Sum(f, T) + Sum(f, S \ T)}
<1>0. IsFiniteSet(R)
  BY FS_Subset
<1>1. ASSUME B # {}
      PROVE  FALSE
  <2>1. PICK T \in B : \A V \in B : V \subseteq T => V = T
    <3>1. B \in SUBSET (SUBSET R)
      OBVIOUS
    <3> HIDE DEF B
    <3> QED
      BY <1>0, <1>1, <3>1, LeastSubset
  <2> DEFINE n == NextOf(T)
             W == T \ {n}
  <2>2. T # {}
    <3>1. Sum(f, S) = Sum(f, {}) + Sum(f, S \ {})
      <4>1. S \ {} = S
        OBVIOUS
      <4> QED
        BY <4>1, SumEmpty, SumType
    <3> QED
      BY <3>1
  <2>3. n \in T /\ n \in S /\ IsFiniteSet(T) /\ IsFiniteSet(S \ W) /\ IsFiniteSet(W) /\ IsFiniteSet(S \ T)
    BY <2>2, <1>0, NextOfIn, FS_Subset
  <2>4. Sum(f, T) = f[n] + Sum(f, W)
    BY <2>3, SumTake
  <2>5. Sum(f, S \ W) = f[n] + Sum(f, S \ T)
    <3>1. (S \ W) \ {n} = S \ T /\ n \in S \ W
      BY <2>3
    <3>2. \A x \in S \ W : f[x] \in Int
      OBVIOUS
    <3> QED
      BY <2>3, <3>1, <3>2, SumTake
  <2>6. Sum(f, S) = Sum(f, W) + Sum(f, S \ W)
    BY <2>1, <2>3
  <2>7. f[n] \in Int /\ Sum(f, W) \in Int /\ Sum(f, S \ T) \in Int
    BY <2>3, SumType
  <2>8. Sum(f, S) # Sum(f, T) + Sum(f, S \ T)
    OBVIOUS
  <2> HIDE DEF n, W
  <2> QED
    BY <2>4, <2>5, <2>6, <2>7, <2>8
<1> QED
  BY <1>1

\* Summands that are not negative have no negative sum.
LEMMA SumNat ==
  ASSUME NEW S, IsFiniteSet(S), NEW f, \A x \in S : f[x] \in Nat
  PROVE  Sum(f, S) \in Nat
<1> DEFINE G == {U \in SUBSET S : Sum(f, U) \in Nat}
<1>1. {} \in G
  BY SumEmpty
<1>2. ASSUME NEW U \in SUBSET S, U # {}, U \ {NextOf(U)} \in G
      PROVE  U \in G
  <2>1. IsFiniteSet(U) /\ NextOf(U) \in U
    BY <1>2, FS_Subset, NextOfIn
  <2>2. Sum(f, U) = f[NextOf(U)] + Sum(f, U \ {NextOf(U)})
    <3>1. \A x \in U : f[x] \in Int
      OBVIOUS
    <3> QED
      BY <1>2, <2>1, <3>1, SumNext
  <2>3. f[NextOf(U)] \in Nat /\ Sum(f, U \ {NextOf(U)}) \in Nat
    BY <1>2, <2>1
  <2> QED
    BY <2>2, <2>3
<1>3. SUBSET S \subseteq G
  <2> HIDE DEF G
  <2> QED
    BY <1>1, <1>2, SubsetsByNext
<1> QED
  BY <1>3

-----------------------------------------------------------------------------
(* Taking elements out of a sequence *)

\* Every element of V is removed, one after the other.
Without(s, V) == FoldSet(LAMBDA k, kept : RemoveFirst(kept, k), s, V)

\* The recursion FoldSet stands for, and its steps.
Pops(s, T, g) ==
  g = [U \in SUBSET T |-> IF U = {} THEN s ELSE RemoveFirst(g[U \ {NextOf(U)}], NextOf(U))]
Distinct(K) == {q \in Seq(K) : IsInjective(q)}
Removal(K, V) == [k \in V |-> [q \in Distinct(K) |-> RemoveFirst(q, k)]]

\* The community module's recursion is the one Pops states.
LEMMA WithoutIsPops ==
  ASSUME NEW s, NEW V
  PROVE  Without(s, V) = (CHOOSE g : Pops(s, V, g))[V]
BY DEF Without, FoldSet, MapThenFoldSet, Pops, NextOf

\* What is left is the rest, without repetition.
LEMMA WithoutElements ==
  ASSUME NEW K, NEW s \in Seq(K), IsInjective(s), NEW V, IsFiniteSet(V)
  PROVE  /\ Without(s, V) \in Seq(K)
         /\ ToSet(Without(s, V)) = ToSet(s) \ V
         /\ IsInjective(Without(s, V))
<1> DEFINE step == Removal(K, V)
           D == Distinct(K)
<1>1. \A k \in V, q \in D : step[k][q] = RemoveFirst(q, k)
  BY DEF Removal
<1>2. \A q \in D : \A k : RemoveFirst(q, k) \in D /\ ToSet(RemoveFirst(q, k)) = ToSet(q) \ {k}
  BY ToSetRemoveFirst DEF Distinct
<1>3. s \in D
  BY DEF Distinct
<1> HIDE DEF step, D
<1>4. ASSUME NEW h, Pops(s, V, h) \/ Folds(step, s, V, h)
      PROVE  \A U \in SUBSET V : h[U] \in D /\ ToSet(h[U]) = ToSet(s) \ U
  <2> DEFINE G == {U \in SUBSET V : h[U] \in D /\ ToSet(h[U]) = ToSet(s) \ U}
  <2>1. {} \in G
    <3>1. h[{}] = s
      BY <1>4 DEF Pops, Folds
    <3> QED
      BY <1>3, <3>1
  <2>2. ASSUME NEW U \in SUBSET V, U # {}, U \ {NextOf(U)} \in G
        PROVE  U \in G
    <3> DEFINE W == U \ {NextOf(U)}
    <3>1. NextOf(U) \in U /\ h[W] \in D /\ ToSet(h[W]) = ToSet(s) \ W
      BY <2>2, NextOfIn
    <3>2. h[U] = RemoveFirst(h[W], NextOf(U)) \/ h[U] = step[NextOf(U)][h[W]]
      BY <1>4, <2>2 DEF Pops, Folds
    <3>3. h[U] = RemoveFirst(h[W], NextOf(U))
      BY <1>1, <3>1, <3>2
    <3>4. h[U] \in D /\ ToSet(h[U]) = ToSet(h[W]) \ {NextOf(U)}
      BY <1>2, <3>1, <3>3
    <3>5. (ToSet(s) \ W) \ {NextOf(U)} = ToSet(s) \ U
      BY <3>1
    <3> HIDE DEF W
    <3>6. QED
      BY <3>1, <3>4, <3>5
  <2>3. SUBSET V \subseteq G
    <3> HIDE DEF G
    <3> QED
      BY <2>1, <2>2, SubsetsByNext
  <2> QED
    BY <2>3
<1>5. ASSUME NEW h, \A U \in SUBSET V : h[U] \in D
      PROVE  Pops(s, V, h) <=> Folds(step, s, V, h)
  <2>1. \A U \in SUBSET V : U # {} =>
           step[NextOf(U)][h[U \ {NextOf(U)}]] = RemoveFirst(h[U \ {NextOf(U)}], NextOf(U))
    BY <1>1, <1>5, NextOfIn
  <2> QED
    BY <2>1 DEF Pops, Folds
<1> DEFINE g == CHOOSE g : Pops(s, V, g)
<1>6. \E h : Pops(s, V, h)
  <2>1. PICK h : Folds(step, s, V, h)
    BY FoldsExists
  <2> QED
    BY <1>4, <1>5, <2>1
<1>7. Pops(s, V, g)
  BY <1>6
<1>8. g[V] \in D /\ ToSet(g[V]) = ToSet(s) \ V
  <2> HIDE DEF g
  <2> QED
    BY <1>4, <1>7
<1> QED
  BY <1>8, WithoutIsPops DEF D, Distinct

=============================================================================
