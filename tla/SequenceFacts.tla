---------------------------- MODULE SequenceFacts ----------------------------
(***************************************************************************)
(* Facts about lists and sums that proofs of several components need.  What a *)
(* recursive function computes is proved by induction over a set of        *)
(* numbers: the library's induction theorems range over an operator, which *)
(* the provers cannot instantiate.                                         *)
(***************************************************************************)
EXTENDS Lists, FiniteSetTheorems, TLAPS

\* Induction: a set with 0 that has n + 1 whenever it has n has every number.
LEMMA SetInduction ==
    ASSUME NEW S, 0 \in S, \A n \in Nat : n \in S => n + 1 \in S
    PROVE  Nat \subseteq S
<1> DEFINE T == Nat \ S
<1> SUFFICES ASSUME T # {} PROVE FALSE
  OBVIOUS
<1>1. PICK x \in T : \A y \in T : ~ (<<y, x>> \in OpToRel(<, Nat))
  <2> HIDE DEF T
  <2>1. T \subseteq Nat
    BY DEF T
  <2> QED BY <2>1, NatLessThanWellFounded, WFMin, Zenon
<1>2. x \in Nat /\ x # 0 /\ x - 1 \in Nat
  OBVIOUS
<1>3. <<x - 1, x>> \in OpToRel(<, Nat)
  <2>1. <<x - 1, x>> \in Nat \X Nat /\ x - 1 < x
    BY <1>2
  <2> QED BY <2>1 DEF OpToRel
<1>4. x - 1 \notin T
  BY <1>1, <1>3
<1>5. x - 1 \in S /\ (x - 1) + 1 = x
  BY <1>2, <1>4
<1> QED BY <1>1, <1>2, <1>5
-----------------------------------------------------------------------------
\* The loop of Filtered, as far as it has got.
Filters(f, s, kept, n) ==
    f = [i \in 0 .. n |-> IF i = 0 THEN <<>>
                          ELSE IF s[i] \in kept THEN Append(f[i - 1], s[i]) ELSE f[i - 1]]

\* The loop runs to the end of the list.
LEMMA FilterExists ==
    ASSUME NEW s, NEW kept, NEW n \in Nat
    PROVE  \E f : Filters(f, s, kept, n)
<1> DEFINE S == {k \in Nat : \E f : Filters(f, s, kept, k)}
<1>1. 0 \in S
  <2>1. Filters([i \in 0 .. 0 |-> <<>>], s, kept, 0)
    BY DEF Filters
  <2> QED BY <2>1
<1>2. ASSUME NEW k \in Nat, k \in S PROVE k + 1 \in S
  <2> PICK f : Filters(f, s, kept, k)
    BY <1>2
  <2> DEFINE next(g, i) == IF s[i] \in kept THEN Append(g[i - 1], s[i]) ELSE g[i - 1]
             g == [i \in 0 .. k + 1 |-> IF i = k + 1 THEN next(f, i) ELSE f[i]]
  <2>1. \A i \in 0 .. k : f[i] = IF i = 0 THEN <<>> ELSE next(f, i)
    BY DEF Filters
  <2>2. \A i \in 0 .. k : g[i] = f[i]
    OBVIOUS
  <2>3. ASSUME NEW i \in 0 .. k + 1 PROVE g[i] = IF i = 0 THEN <<>> ELSE next(g, i)
    <3>1. CASE i = k + 1
      <4>1. g[k] = f[k] /\ i - 1 = k /\ i # 0
        BY <2>2, <3>1
      <4> QED BY <3>1, <4>1
    <3>2. CASE i # k + 1 /\ i = 0
      BY <2>1, <2>2, <3>2
    <3>3. CASE i # k + 1 /\ i # 0
      <4>1. i \in 0 .. k /\ i - 1 \in 0 .. k
        BY <3>3
      <4>2. g[i] = f[i] /\ g[i - 1] = f[i - 1]
        BY <2>2, <4>1
      <4> HIDE DEF g
      <4> QED BY <2>1, <3>3, <4>1, <4>2
    <3> QED BY <3>1, <3>2, <3>3
  <2>4. g = [i \in 0 .. k + 1 |-> g[i]]
    OBVIOUS
  <2>5. Filters(g, s, kept, k + 1)
    <3> HIDE DEF g
    <3> QED BY <2>3, <2>4 DEF Filters
  <2> QED BY <2>5
<1>3. Nat \subseteq S
  <2> HIDE DEF S
  <2> QED BY <1>1, <1>2, SetInduction
<1> QED BY <1>3

\* Filtering returns elements of the list, and only those asked for.
LEMMA FilteredType ==
    ASSUME NEW A, NEW s \in Seq(A), NEW kept
    PROVE  Filtered(s, kept) \in Seq({x \in A : x \in kept})
<1> DEFINE B == {x \in A : x \in kept}
           f == CHOOSE upTo : Filters(upTo, s, kept, Len(s))
           S == {k \in Nat : k <= Len(s) => f[k] \in Seq(B)}
<1>1. Len(s) \in Nat /\ \A i \in 1 .. Len(s) : s[i] \in A
  OBVIOUS
<1>2. Filters(f, s, kept, Len(s))
  BY <1>1, FilterExists
<1>3. Filtered(s, kept) = f[Len(s)]
  BY Zenon DEF Filtered, Filters
<1> HIDE DEF f
<1>4. \A i \in 0 .. Len(s) : f[i] = IF i = 0 THEN <<>>
                                    ELSE IF s[i] \in kept THEN Append(f[i - 1], s[i]) ELSE f[i - 1]
  BY <1>2 DEF Filters
<1>5. 0 \in S
  <2>1. f[0] = <<>> /\ <<>> \in Seq(B)
    BY <1>1, <1>4
  <2> QED BY <2>1
<1>6. ASSUME NEW k \in Nat, k \in S PROVE k + 1 \in S
  <2> SUFFICES ASSUME k + 1 <= Len(s) PROVE f[k + 1] \in Seq(B)
    OBVIOUS
  <2>1. /\ k + 1 \in 1 .. Len(s) /\ k + 1 # 0 /\ k + 1 \in 0 .. Len(s) /\ (k + 1) - 1 = k
        /\ f[k] \in Seq(B)
    BY <1>1, <1>6
  <2>2. f[k + 1] = IF s[k + 1] \in kept THEN Append(f[k], s[k + 1]) ELSE f[k]
    BY <1>4, <2>1
  <2>3. s[k + 1] \in kept => s[k + 1] \in B
    BY <1>1, <2>1
  <2> HIDE DEF B
  <2>4. CASE s[k + 1] \in kept
    BY <2>1, <2>2, <2>3, <2>4
  <2>5. CASE s[k + 1] \notin kept
    BY <2>1, <2>2, <2>5
  <2> QED BY <2>4, <2>5
<1>7. Nat \subseteq S
  <2> HIDE DEF S
  <2> QED BY <1>5, <1>6, SetInduction
<1> QED BY <1>1, <1>3, <1>7
-----------------------------------------------------------------------------
\* The loop of FlattenSeq, as far as it has got.
Flattens(f, seqs, n) ==
    f = [i \in 1 .. n |-> IF i = 1 THEN seqs[i] ELSE f[i - 1] \o seqs[i]]

\* The loop runs to the end of the list.
LEMMA FlattenExists ==
    ASSUME NEW seqs, NEW n \in Nat
    PROVE  \E f : Flattens(f, seqs, n)
<1> DEFINE S == {k \in Nat : \E f : Flattens(f, seqs, k)}
<1>1. 0 \in S
  <2>1. Flattens([i \in 1 .. 0 |-> <<>>], seqs, 0)
    BY DEF Flattens
  <2> QED BY <2>1
<1>2. ASSUME NEW k \in Nat, k \in S PROVE k + 1 \in S
  <2> PICK f : Flattens(f, seqs, k)
    BY <1>2
  <2> DEFINE next(g, i) == IF i = 1 THEN seqs[i] ELSE g[i - 1] \o seqs[i]
             g == [i \in 1 .. k + 1 |-> IF i = k + 1 THEN next(f, i) ELSE f[i]]
  <2>1. \A i \in 1 .. k : f[i] = next(f, i)
    BY DEF Flattens
  <2>2. \A i \in 1 .. k : g[i] = f[i]
    OBVIOUS
  <2>3. ASSUME NEW i \in 1 .. k + 1 PROVE g[i] = next(g, i)
    <3>1. CASE i = k + 1 /\ i = 1
      BY <3>1
    <3>2. CASE i = k + 1 /\ i # 1
      <4>1. g[k] = f[k] /\ i - 1 = k
        BY <2>2, <3>2
      <4> QED BY <3>2, <4>1
    <3>3. CASE i # k + 1 /\ i = 1
      BY <2>1, <2>2, <3>3
    <3>4. CASE i # k + 1 /\ i # 1
      <4>1. i \in 1 .. k /\ i - 1 \in 1 .. k
        BY <3>4
      <4>2. g[i] = f[i] /\ g[i - 1] = f[i - 1]
        BY <2>2, <4>1
      <4> HIDE DEF g
      <4> QED BY <2>1, <3>4, <4>1, <4>2
    <3> QED BY <3>1, <3>2, <3>3, <3>4
  <2>4. g = [i \in 1 .. k + 1 |-> g[i]]
    OBVIOUS
  <2>5. Flattens(g, seqs, k + 1)
    <3> HIDE DEF g
    <3> QED BY <2>3, <2>4 DEF Flattens
  <2> QED BY <2>5
<1>3. Nat \subseteq S
  <2> HIDE DEF S
  <2> QED BY <1>1, <1>2, SetInduction
<1> QED BY <1>3

\* Lists put one after the other are a list of their elements.
LEMMA FlattenSeqType ==
    ASSUME NEW A, NEW seqs \in Seq(Seq(A))
    PROVE  FlattenSeq(seqs) \in Seq(A)
<1>1. Len(seqs) \in Nat /\ \A i \in 1 .. Len(seqs) : seqs[i] \in Seq(A)
  OBVIOUS
<1>2. CASE Len(seqs) = 0
  <2>1. FlattenSeq(seqs) = seqs
    BY <1>2, Zenon DEF FlattenSeq
  <2>2. seqs = <<>> /\ <<>> \in Seq(A)
    BY <1>2
  <2> QED BY <2>1, <2>2
<1>3. CASE Len(seqs) # 0
  <2> DEFINE f == CHOOSE flatten : Flattens(flatten, seqs, Len(seqs))
             S == {k \in Nat : k + 1 <= Len(seqs) => f[k + 1] \in Seq(A)}
  <2>1. Flattens(f, seqs, Len(seqs))
    BY <1>1, FlattenExists
  <2>2. FlattenSeq(seqs) = f[Len(seqs)]
    BY <1>3, Zenon DEF FlattenSeq, Flattens
  <2> HIDE DEF f
  <2>3. \A i \in 1 .. Len(seqs) : f[i] = IF i = 1 THEN seqs[i] ELSE f[i - 1] \o seqs[i]
    BY <2>1 DEF Flattens
  <2>4. 0 \in S
    BY <1>1, <2>3
  <2>5. ASSUME NEW k \in Nat, k \in S PROVE k + 1 \in S
    <3> SUFFICES ASSUME (k + 1) + 1 <= Len(seqs) PROVE f[(k + 1) + 1] \in Seq(A)
      OBVIOUS
    <3>1. /\ (k + 1) + 1 \in 1 .. Len(seqs) /\ (k + 1) + 1 # 1 /\ ((k + 1) + 1) - 1 = k + 1
          /\ f[k + 1] \in Seq(A)
      BY <1>1, <2>5
    <3>2. f[(k + 1) + 1] = f[k + 1] \o seqs[(k + 1) + 1]
      BY <2>3, <3>1
    <3>3. seqs[(k + 1) + 1] \in Seq(A)
      BY <1>1, <3>1
    <3> QED BY <3>1, <3>2, <3>3
  <2>6. Nat \subseteq S
    <3> HIDE DEF S
    <3> QED BY <2>4, <2>5, SetInduction
  <2>7. Len(seqs) - 1 \in S /\ (Len(seqs) - 1) + 1 = Len(seqs)
    <3> HIDE DEF S
    <3>1. Len(seqs) - 1 \in Nat /\ (Len(seqs) - 1) + 1 = Len(seqs)
      BY <1>1, <1>3
    <3> QED BY <2>6, <3>1
  <2> QED BY <1>1, <2>2, <2>7
<1> QED BY <1>2, <1>3
-----------------------------------------------------------------------------
\* What has the positions 1 to n is a list, and so is what has elements of a set.
LEMMA ListOf ==
    /\ \A f : \A n \in Nat : f = [i \in 1 .. n |-> f[i]] => IsList(f)
    /\ \A A : \A s \in Seq(A) : IsList(s)
    /\ \A s : IsList(s) => Len(s) \in Nat /\ DOMAIN s = 1 .. Len(s)
<1>1. ASSUME NEW f, NEW n \in Nat, f = [i \in 1 .. n |-> f[i]] PROVE IsList(f)
  <2>1. ToSet(f) = {f[i] : i \in 1 .. n}
    BY <1>1 DEF ToSet
  <2>2. f \in [1 .. n -> ToSet(f)]
    BY <1>1, <2>1
  <2> HIDE DEF ToSet
  <2> QED BY <2>2 DEF IsList
<1>2. ASSUME NEW A, NEW s \in Seq(A) PROVE IsList(s)
  <2>1. s = [i \in 1 .. Len(s) |-> s[i]] /\ Len(s) \in Nat
    OBVIOUS
  <2> QED BY <1>1, <2>1
<1>3. ASSUME NEW s, IsList(s) PROVE Len(s) \in Nat /\ DOMAIN s = 1 .. Len(s)
  BY <1>3 DEF IsList
<1> QED BY <1>1, <1>2, <1>3

\* Two lists, one after the other.
LEMMA ConcatIsList ==
    ASSUME NEW s, NEW t, IsList(s), IsList(t)
    PROVE  IsList(s \o t)
<1> DEFINE A == ToSet(s) \cup ToSet(t)
<1>1. s \in Seq(ToSet(s)) /\ t \in Seq(ToSet(t))
  BY DEF IsList
<1>2. s \in Seq(A) /\ t \in Seq(A)
  <2> HIDE DEF ToSet
  <2> QED BY <1>1
<1> HIDE DEF A
<1>3. s \o t \in Seq(A)
  BY <1>2
<1> QED BY <1>3, ListOf

\* The lists of a list, one after the other.
LEMMA FlattenSeqIsList ==
    ASSUME NEW seqs, IsList(seqs), \A i \in DOMAIN seqs : IsList(seqs[i])
    PROVE  IsList(FlattenSeq(seqs))
<1> DEFINE A == UNION {ToSet(seqs[i]) : i \in DOMAIN seqs}
<1>1. Len(seqs) \in Nat /\ DOMAIN seqs = 1 .. Len(seqs)
  BY ListOf
<1>2. ASSUME NEW i \in DOMAIN seqs PROVE seqs[i] \in Seq(A)
  <2>1. seqs[i] \in Seq(ToSet(seqs[i])) /\ ToSet(seqs[i]) \subseteq A
    BY DEF IsList
  <2> HIDE DEF A
  <2> QED BY <2>1
<1> HIDE DEF A
<1>3. seqs \in Seq(Seq(A))
  <2>1. seqs \in Seq(ToSet(seqs))
    BY DEF IsList
  <2>2. ToSet(seqs) \subseteq Seq(A)
    BY <1>2 DEF ToSet
  <2> HIDE DEF ToSet
  <2> QED BY <2>1, <2>2
<1>4. FlattenSeq(seqs) \in Seq(A)
  BY <1>3, FlattenSeqType
<1> QED BY <1>4, ListOf
-----------------------------------------------------------------------------
\* The recursion of SumFunctionOnSet over the subsets of S with up to n elements.
Pick(T) == CHOOSE x \in T : TRUE
Upto(S, n) == {T \in SUBSET S : Cardinality(T) <= n}
Sums(g, f, D) ==
    g = [T \in D |-> IF T = {} THEN 0 ELSE f[Pick(T)] + g[T \ {Pick(T)}]]
SumsAll(g, f, S) == Sums(g, f, SUBSET S)

\* What is left of a finite set without the picked element.
LEMMA WithoutPick ==
    ASSUME NEW S, IsFiniteSet(S), S # {}
    PROVE  /\ Pick(S) \in S /\ IsFiniteSet(S \ {Pick(S)})
           /\ Cardinality(S) \in Nat /\ Cardinality(S \ {Pick(S)}) \in Nat
           /\ Cardinality(S) = Cardinality(S \ {Pick(S)}) + 1
<1>1. Pick(S) \in S
  BY DEF Pick
<1>2. Cardinality(S) \in Nat
  BY FS_CardinalityType
<1>3. /\ IsFiniteSet(S \ {Pick(S)})
      /\ Cardinality(S \ {Pick(S)}) = Cardinality(S) - 1
  BY <1>1, FS_RemoveElement
<1>4. Cardinality(S \ {Pick(S)}) \in Nat
  BY <1>3, FS_CardinalityType
<1> QED BY <1>1, <1>2, <1>3, <1>4

\* The recursion runs through the subsets of a finite set.
LEMMA SumsExists ==
    ASSUME NEW f, NEW S, IsFiniteSet(S)
    PROVE  \E g : Sums(g, f, SUBSET S)
<1> DEFINE N == {n \in Nat : \E g : Sums(g, f, Upto(S, n))}
<1>1. ASSUME NEW T \in SUBSET S PROVE IsFiniteSet(T) /\ Cardinality(T) \in Nat
  BY FS_Subset, FS_CardinalityType
<1>2. 0 \in N
  <2>1. \A T \in Upto(S, 0) : T = {}
    <3> SUFFICES ASSUME NEW T \in Upto(S, 0) PROVE T = {}
      OBVIOUS
    <3>1. T \in SUBSET S /\ Cardinality(T) <= 0
      BY DEF Upto
    <3>2. IsFiniteSet(T) /\ Cardinality(T) = 0
      BY <1>1, <3>1
    <3> QED BY <3>2, FS_EmptySet
  <2>2. Sums([T \in Upto(S, 0) |-> 0], f, Upto(S, 0))
    BY <2>1 DEF Sums
  <2> QED BY <2>2
<1>3. ASSUME NEW n \in Nat, n \in N PROVE n + 1 \in N
  <2> PICK g : Sums(g, f, Upto(S, n))
    BY <1>3
  <2> DEFINE next(k, T) == IF T = {} THEN 0 ELSE f[Pick(T)] + k[T \ {Pick(T)}]
             h == [T \in Upto(S, n + 1) |-> next(g, T)]
  <2>1. \A T \in Upto(S, n) : g[T] = next(g, T)
    BY DEF Sums
  <2>2. \A T \in Upto(S, n) : T \in Upto(S, n + 1) /\ h[T] = g[T]
    <3>1. \A T \in Upto(S, n) : T \in Upto(S, n + 1)
      BY <1>1 DEF Upto
    <3> QED BY <2>1, <3>1
  <2>3. ASSUME NEW T \in Upto(S, n + 1) PROVE h[T] = next(h, T)
    <3>1. CASE T = {}
      BY <3>1
    <3>2. CASE T # {}
      <4>1. T \in SUBSET S /\ Cardinality(T) <= n + 1 /\ IsFiniteSet(T)
        BY <1>1 DEF Upto
      <4>2. T \ {Pick(T)} \in Upto(S, n)
        <5>1. /\ T \ {Pick(T)} \in SUBSET S
              /\ Cardinality(T) \in Nat /\ Cardinality(T \ {Pick(T)}) \in Nat
              /\ Cardinality(T) = Cardinality(T \ {Pick(T)}) + 1
          BY <3>2, <4>1, WithoutPick
        <5>2. Cardinality(T \ {Pick(T)}) <= n
          BY <4>1, <5>1
        <5> QED BY <5>1, <5>2 DEF Upto
      <4>3. h[T \ {Pick(T)}] = g[T \ {Pick(T)}]
        BY <2>2, <4>2
      <4> QED BY <3>2, <4>3
    <3> QED BY <3>1, <3>2
  <2>4. h = [T \in Upto(S, n + 1) |-> h[T]]
    OBVIOUS
  <2>5. Sums(h, f, Upto(S, n + 1))
    <3> HIDE DEF h
    <3> QED BY <2>3, <2>4 DEF Sums
  <2> QED BY <2>5
<1>4. Nat \subseteq N
  <2> HIDE DEF N
  <2> QED BY <1>2, <1>3, SetInduction
<1>5. Cardinality(S) \in Nat /\ Upto(S, Cardinality(S)) = SUBSET S
  BY FS_Subset, FS_CardinalityType DEF Upto
<1> QED BY <1>4, <1>5

\* Over how large a set the recursion started does not matter.
LEMMA SumsAgree ==
    ASSUME NEW f, NEW S, IsFiniteSet(S), NEW R, R \subseteq S,
           NEW g, NEW h, SumsAll(g, f, S), SumsAll(h, f, R)
    PROVE  g[R] = h[R]
<1> DEFINE N == {n \in Nat : \A U \in SUBSET R : Cardinality(U) = n => g[U] = h[U]}
<1>1. ASSUME NEW U \in SUBSET R PROVE IsFiniteSet(U) /\ Cardinality(U) \in Nat
  BY FS_Subset, FS_CardinalityType
<1>2. ASSUME NEW U \in SUBSET R
      PROVE  /\ g[U] = IF U = {} THEN 0 ELSE f[Pick(U)] + g[U \ {Pick(U)}]
             /\ h[U] = IF U = {} THEN 0 ELSE f[Pick(U)] + h[U \ {Pick(U)}]
  BY DEF Sums, SumsAll
<1>3. 0 \in N
  BY <1>1, <1>2, FS_EmptySet
<1>4. ASSUME NEW n \in Nat, n \in N PROVE n + 1 \in N
  <2> SUFFICES ASSUME NEW U \in SUBSET R, Cardinality(U) = n + 1 PROVE g[U] = h[U]
    OBVIOUS
  <2>1. U # {}
    <3>1. Cardinality({}) = 0 /\ n + 1 # 0
      BY FS_EmptySet
    <3> QED BY <3>1
  <2>2. /\ Pick(U) \in U /\ U \ {Pick(U)} \in SUBSET R
        /\ Cardinality(U \ {Pick(U)}) = n
    BY <1>1, <2>1, WithoutPick
  <2>3. g[U \ {Pick(U)}] = h[U \ {Pick(U)}]
    BY <1>4, <2>2
  <2> QED BY <1>2, <2>1, <2>2, <2>3
<1>5. Nat \subseteq N
  <2> HIDE DEF N
  <2> QED BY <1>3, <1>4, SetInduction
<1> QED BY <1>1, <1>5

\* A sum is one summand and the sum of the others.
LEMMA SumStep ==
    ASSUME NEW f, NEW S, IsFiniteSet(S)
    PROVE  SumFunctionOnSet(f, S) = IF S = {} THEN 0
             ELSE f[Pick(S)] + SumFunctionOnSet(f, S \ {Pick(S)})
<1> DEFINE sums(D) == CHOOSE g : SumsAll(g, f, D)
<1>1. ASSUME NEW D PROVE SumFunctionOnSet(f, D) = sums(D)[D]
  BY Zenon DEF SumFunctionOnSet, FoldFunctionOnSet, MapThenFoldSet, Sums, SumsAll, Pick
<1>2. ASSUME NEW D, IsFiniteSet(D) PROVE SumsAll(sums(D), f, D)
  BY <1>2, SumsExists DEF SumsAll
<1> HIDE DEF sums
<1>3. sums(S)[S] = IF S = {} THEN 0 ELSE f[Pick(S)] + sums(S)[S \ {Pick(S)}]
  BY <1>2 DEF Sums, SumsAll
<1>4. ASSUME S # {} PROVE sums(S)[S \ {Pick(S)}] = sums(S \ {Pick(S)})[S \ {Pick(S)}]
  <2>1. ASSUME NEW rest, rest \subseteq S, IsFiniteSet(rest)
        PROVE  sums(S)[rest] = sums(rest)[rest]
    BY <1>2, <2>1, SumsAgree
  <2>2. IsFiniteSet(S \ {Pick(S)})
    BY <1>4, WithoutPick
  <2> QED BY <2>1, <2>2
<1> QED BY <1>1, <1>3, <1>4

\* Induction over the parts of a finite set, one element less at a time.
LEMMA BySize ==
    ASSUME NEW S, IsFiniteSet(S), NEW good,
           {} \in good,
           \A T \in SUBSET S : T # {} /\ (\A x \in T : T \ {x} \in good) => T \in good
    PROVE  S \in good
<1> DEFINE N == {n \in Nat : \A T \in SUBSET S : Cardinality(T) = n => T \in good}
<1>1. ASSUME NEW T \in SUBSET S PROVE IsFiniteSet(T) /\ Cardinality(T) \in Nat
  BY FS_Subset, FS_CardinalityType
<1>2. 0 \in N
  BY <1>1, FS_EmptySet
<1>3. ASSUME NEW n \in Nat, n \in N PROVE n + 1 \in N
  <2> SUFFICES ASSUME NEW T \in SUBSET S, Cardinality(T) = n + 1 PROVE T \in good
    OBVIOUS
  <2>1. T # {}
    <3>1. Cardinality({}) = 0 /\ n + 1 # 0
      BY FS_EmptySet
    <3> QED BY <3>1
  <2>2. ASSUME NEW x \in T PROVE T \ {x} \in good
    <3>1. T \ {x} \in SUBSET S /\ Cardinality(T \ {x}) = (n + 1) - 1
      BY <1>1, FS_RemoveElement
    <3> QED BY <1>3, <3>1
  <2> QED BY <2>1, <2>2
<1>4. Nat \subseteq N
  <2> HIDE DEF N
  <2> QED BY <1>2, <1>3, SetInduction
<1> QED BY <1>1, <1>4

\* The sum of no numbers is zero, a sum of integers an integer and a sum of
\* natural numbers a natural number.
LEMMA SumType ==
    ASSUME NEW f, NEW S, IsFiniteSet(S)
    PROVE  /\ SumFunctionOnSet(f, {}) = 0
           /\ (\A x \in S : f[x] \in Int) => SumFunctionOnSet(f, S) \in Int
           /\ (\A x \in S : f[x] \in Nat) => SumFunctionOnSet(f, S) \in Nat
<1>1. SumFunctionOnSet(f, {}) = 0
  BY FS_EmptySet, SumStep
<1>2. ASSUME NEW T \in SUBSET S
      PROVE  /\ T # {} => Pick(T) \in S
             /\ SumFunctionOnSet(f, T) = IF T = {} THEN 0
                  ELSE f[Pick(T)] + SumFunctionOnSet(f, T \ {Pick(T)})
  <2>1. IsFiniteSet(T)
    BY FS_Subset
  <2> QED BY <2>1, WithoutPick, SumStep
<1>3. ASSUME \A x \in S : f[x] \in Int PROVE SumFunctionOnSet(f, S) \in Int
  <2> DEFINE good == {T \in SUBSET S : SumFunctionOnSet(f, T) \in Int}
  <2>1. {} \in good
    BY <1>1
  <2>2. ASSUME NEW T \in SUBSET S, T # {}, \A x \in T : T \ {x} \in good PROVE T \in good
    <3>1. Pick(T) \in T /\ T \ {Pick(T)} \in good
      BY <2>2 DEF Pick
    <3>2. SumFunctionOnSet(f, T \ {Pick(T)}) \in Int /\ f[Pick(T)] \in Int
      BY <1>3, <3>1
    <3>3. SumFunctionOnSet(f, T) = f[Pick(T)] + SumFunctionOnSet(f, T \ {Pick(T)})
      BY <1>2, <2>2
    <3>4. SumFunctionOnSet(f, T) \in Int
      BY <3>2, <3>3
    <3> QED BY <3>4
  <2>3. S \in good
    <3> HIDE DEF good
    <3> QED BY <2>1, <2>2, BySize
  <2> QED BY <2>3
<1>4. ASSUME \A x \in S : f[x] \in Nat PROVE SumFunctionOnSet(f, S) \in Nat
  <2> DEFINE good == {T \in SUBSET S : SumFunctionOnSet(f, T) \in Nat}
  <2>1. {} \in good
    BY <1>1
  <2>2. ASSUME NEW T \in SUBSET S, T # {}, \A x \in T : T \ {x} \in good PROVE T \in good
    <3>1. Pick(T) \in T /\ T \ {Pick(T)} \in good
      BY <2>2 DEF Pick
    <3>2. SumFunctionOnSet(f, T \ {Pick(T)}) \in Nat /\ f[Pick(T)] \in Nat
      BY <1>4, <3>1
    <3>3. SumFunctionOnSet(f, T) = f[Pick(T)] + SumFunctionOnSet(f, T \ {Pick(T)})
      BY <1>2, <2>2
    <3>4. SumFunctionOnSet(f, T) \in Nat
      BY <3>2, <3>3
    <3> QED BY <3>4
  <2>3. S \in good
    <3> HIDE DEF good
    <3> QED BY <2>1, <2>2, BySize
  <2> QED BY <2>3
<1> QED BY <1>1, <1>3, <1>4

\* Equal summands have equal sums.
LEMMA SumSame ==
    ASSUME NEW f, NEW g, NEW S, IsFiniteSet(S), \A x \in S : f[x] = g[x]
    PROVE  SumFunctionOnSet(f, S) = SumFunctionOnSet(g, S)
<1> DEFINE good == {T \in SUBSET S : SumFunctionOnSet(f, T) = SumFunctionOnSet(g, T)}
<1>1. ASSUME NEW T \in SUBSET S PROVE IsFiniteSet(T)
  BY FS_Subset
<1>2. {} \in good
  BY SumType
<1>3. ASSUME NEW T \in SUBSET S, T # {}, \A x \in T : T \ {x} \in good PROVE T \in good
  <2>1. Pick(T) \in T /\ T \ {Pick(T)} \in good
    BY <1>1, <1>3, WithoutPick
  <2>2. /\ SumFunctionOnSet(f, T) = f[Pick(T)] + SumFunctionOnSet(f, T \ {Pick(T)})
        /\ SumFunctionOnSet(g, T) = g[Pick(T)] + SumFunctionOnSet(g, T \ {Pick(T)})
    BY <1>1, <1>3, SumStep
  <2>3. SumFunctionOnSet(f, T \ {Pick(T)}) = SumFunctionOnSet(g, T \ {Pick(T)})
    BY <2>1
  <2> QED BY <2>1, <2>2, <2>3
<1>4. S \in good
  <2> HIDE DEF good
  <2> QED BY <1>2, <1>3, BySize
<1> QED BY <1>4

\* Any element can be summed last.
LEMMA SumRemove ==
    ASSUME NEW f, NEW S, IsFiniteSet(S), \A x \in S : f[x] \in Int, NEW x \in S
    PROVE  /\ SumFunctionOnSet(f, S \ {x}) \in Int
           /\ SumFunctionOnSet(f, S) = f[x] + SumFunctionOnSet(f, S \ {x})
<1> DEFINE sum(T) == SumFunctionOnSet(f, T)
           good == {T \in SUBSET S : \A y \in T : sum(T) = f[y] + sum(T \ {y})}
<1>1. ASSUME NEW T \in SUBSET S PROVE IsFiniteSet(T) /\ sum(T) \in Int
  <2>1. IsFiniteSet(T) /\ \A y \in T : f[y] \in Int
    BY FS_Subset
  <2> QED BY <2>1, SumType
<1>2. ASSUME NEW T \in SUBSET S, T # {}
      PROVE  Pick(T) \in T /\ sum(T) = f[Pick(T)] + sum(T \ {Pick(T)})
  BY <1>1, <1>2, WithoutPick, SumStep
<1> HIDE DEF sum
<1>3. {} \in good
  OBVIOUS
<1>4. ASSUME NEW T \in SUBSET S, T # {}, \A y \in T : T \ {y} \in good PROVE T \in good
  <2> SUFFICES ASSUME NEW y \in T PROVE sum(T) = f[y] + sum(T \ {y})
    OBVIOUS
  <2>1. ASSUME NEW p \in T, p # y, sum(T) = f[p] + sum(T \ {p})
        PROVE  sum(T) = f[y] + sum(T \ {y})
    <3> DEFINE rest == (T \ {p}) \ {y}
    <3>1. T \ {p} \in SUBSET S /\ T \ {y} \in SUBSET S /\ rest \in SUBSET S
      OBVIOUS
    <3>2. sum(T \ {p}) = f[y] + sum(rest)
      BY <1>4, <2>1
    <3>3. rest = (T \ {y}) \ {p}
      OBVIOUS
    <3>4. sum(T \ {y}) = f[p] + sum((T \ {y}) \ {p})
      BY <1>4, <2>1
    <3> HIDE DEF rest
    <3>5. sum(T \ {y}) = f[p] + sum(rest)
      BY <3>3, <3>4
    <3>6. /\ f[p] \in Int /\ f[y] \in Int /\ sum(rest) \in Int
      BY <1>1, <2>1, <3>1
    <3> QED BY <2>1, <3>2, <3>5, <3>6
  <2> QED BY <1>2, <1>4, <2>1
<1>5. S \in good
  <2> HIDE DEF good
  <2> QED BY <1>3, <1>4, BySize
<1>6. IsFiniteSet(S \ {x}) /\ S \ {x} \in SUBSET S
  BY FS_RemoveElement
<1>7. sum(S \ {x}) \in Int /\ sum(S) = f[x] + sum(S \ {x})
  BY <1>1, <1>5, <1>6
<1> QED BY <1>7 DEF sum

\* A summand is no more than a sum of natural numbers, nor is a part of it.
LEMMA SumBounds ==
    ASSUME NEW f, NEW S, IsFiniteSet(S), \A x \in S : f[x] \in Nat
    PROVE  /\ \A x \in S : f[x] <= SumFunctionOnSet(f, S)
           /\ \A T \in SUBSET S : SumFunctionOnSet(f, T) <= SumFunctionOnSet(f, S)
<1> DEFINE sum(T) == SumFunctionOnSet(f, T)
<1>1. ASSUME NEW T \in SUBSET S PROVE IsFiniteSet(T) /\ sum(T) \in Nat
  <2>1. IsFiniteSet(T) /\ \A y \in T : f[y] \in Nat
    BY FS_Subset
  <2> QED BY <2>1, SumType
<1>2. ASSUME NEW T \in SUBSET S, NEW x \in T
      PROVE  sum(T) = f[x] + sum(T \ {x}) /\ T \ {x} \in SUBSET S
  <2>1. IsFiniteSet(T) /\ \A y \in T : f[y] \in Int
    BY <1>1
  <2> QED BY <2>1, SumRemove
<1> HIDE DEF sum
<1>3. ASSUME NEW x \in S PROVE f[x] <= sum(S)
  <2>1. sum(S) = f[x] + sum(S \ {x}) /\ sum(S \ {x}) \in Nat
    BY <1>1, <1>2
  <2> QED BY <2>1
<1> DEFINE good == {T \in SUBSET S : \A U \in SUBSET T : sum(U) <= sum(T)}
<1>4. {} \in good
  BY <1>1
<1>5. ASSUME NEW T \in SUBSET S, T # {}, \A x \in T : T \ {x} \in good PROVE T \in good
  <2> SUFFICES ASSUME NEW U \in SUBSET T PROVE sum(U) <= sum(T)
    OBVIOUS
  <2>1. CASE U = T
    BY <1>1, <2>1
  <2>2. CASE U # T
    <3>1. PICK x \in T : x \notin U
      BY <2>2
    <3>2. sum(U) <= sum(T \ {x})
      BY <1>5, <3>1
    <3> QED BY <1>1, <1>2, <3>1, <3>2
  <2> QED BY <2>1, <2>2
<1>6. S \in good
  <2> HIDE DEF good
  <2> QED BY <1>4, <1>5, BySize
<1> QED BY <1>3, <1>6 DEF sum

\* Summands that are all zero sum to zero.
LEMMA SumZero ==
    ASSUME NEW f, NEW S, IsFiniteSet(S), \A x \in S : f[x] = 0
    PROVE  SumFunctionOnSet(f, S) = 0
<1> DEFINE good == {T \in SUBSET S : SumFunctionOnSet(f, T) = 0}
<1>1. {} \in good
  BY SumType
<1>2. ASSUME NEW T \in SUBSET S, T # {}, \A x \in T : T \ {x} \in good PROVE T \in good
  <2>1. PICK x \in T : TRUE
    BY <1>2
  <2>2. IsFiniteSet(T) /\ f[x] = 0 /\ \A y \in T : f[y] \in Int
    BY FS_Subset
  <2>3. SumFunctionOnSet(f, T) = f[x] + SumFunctionOnSet(f, T \ {x})
    BY <2>2, SumRemove
  <2> QED BY <1>2, <2>2, <2>3
<1>3. S \in good
  <2> HIDE DEF good
  <2> QED BY <1>1, <1>2, BySize
<1> QED BY <1>3

\* One summand that may not be zero.
LEMMA SumOne ==
    ASSUME NEW f, NEW S, IsFiniteSet(S), NEW x \in S, f[x] \in Int, \A y \in S \ {x} : f[y] = 0
    PROVE  SumFunctionOnSet(f, S) = f[x]
<1>1. \A y \in S : f[y] \in Int
  OBVIOUS
<1>2. SumFunctionOnSet(f, S) = f[x] + SumFunctionOnSet(f, S \ {x})
  BY <1>1, SumRemove
<1>3. SumFunctionOnSet(f, S \ {x}) = 0
  <2>1. IsFiniteSet(S \ {x})
    BY FS_Subset
  <2> QED BY <2>1, SumZero
<1> QED BY <1>2, <1>3

\* One summand more.
LEMMA SumAdd ==
    ASSUME NEW f, NEW S, IsFiniteSet(S), NEW x, x \notin S, \A y \in S \cup {x} : f[y] \in Int
    PROVE  /\ IsFiniteSet(S \cup {x}) /\ SumFunctionOnSet(f, S) \in Int
           /\ SumFunctionOnSet(f, S \cup {x}) = f[x] + SumFunctionOnSet(f, S)
<1>1. IsFiniteSet(S \cup {x})
  BY FS_AddElement
<1>2. (S \cup {x}) \ {x} = S
  OBVIOUS
<1> DEFINE all == S \cup {x}
<1>3. /\ SumFunctionOnSet(f, all \ {x}) \in Int
      /\ SumFunctionOnSet(f, all) = f[x] + SumFunctionOnSet(f, all \ {x})
  <2>1. x \in all /\ IsFiniteSet(all) /\ \A y \in all : f[y] \in Int
    BY <1>1
  <2> HIDE DEF all
  <2> QED BY <2>1, SumRemove
<1> QED BY <1>1, <1>2, <1>3

\* Two sets that have nothing in common.
LEMMA SumUnion ==
    ASSUME NEW f, NEW A, IsFiniteSet(A), NEW B, IsFiniteSet(B), A \cap B = {},
           \A x \in A \cup B : f[x] \in Int
    PROVE  /\ SumFunctionOnSet(f, A) \in Int /\ SumFunctionOnSet(f, B) \in Int
           /\ SumFunctionOnSet(f, A \cup B) = SumFunctionOnSet(f, A) + SumFunctionOnSet(f, B)
<1> DEFINE sum(T) == SumFunctionOnSet(f, T)
           good == {T \in SUBSET B : sum(A \cup T) = sum(A) + sum(T)}
<1>1. ASSUME NEW T \in SUBSET B
      PROVE  IsFiniteSet(T) /\ sum(T) \in Int /\ IsFiniteSet(A \cup T) /\ sum(A) \in Int
  <2>1. IsFiniteSet(T) /\ (\A y \in T : f[y] \in Int) /\ (\A y \in A : f[y] \in Int)
    BY FS_Subset
  <2>2. IsFiniteSet(A \cup T)
    BY <2>1, FS_Union
  <2> QED BY <2>1, <2>2, SumType
<1>2. {} \in good
  <2>1. A \cup {} = A /\ sum({}) = 0
    BY <1>1, SumType
  <2> QED BY <1>1, <2>1
<1>3. ASSUME NEW T \in SUBSET B, T # {}, \A x \in T : T \ {x} \in good PROVE T \in good
  <2>1. PICK x \in T : TRUE
    BY <1>3
  <2>2. sum(A \cup (T \ {x})) = sum(A) + sum(T \ {x})
    BY <1>3
  <2>3. sum(T) = f[x] + sum(T \ {x})
    <3>1. \A y \in T : f[y] \in Int
      OBVIOUS
    <3>2. IsFiniteSet(T)
      BY <1>1
    <3> QED BY <3>1, <3>2, SumRemove
  <2>4. sum(A \cup T) = f[x] + sum(A \cup (T \ {x}))
    <3> DEFINE all == A \cup T
    <3>1. all \ {x} = A \cup (T \ {x}) /\ x \in all /\ \A y \in all : f[y] \in Int
      OBVIOUS
    <3>2. IsFiniteSet(all)
      BY <1>1
    <3> HIDE DEF all
    <3>3. SumFunctionOnSet(f, all) = f[x] + SumFunctionOnSet(f, all \ {x})
      BY <3>1, <3>2, SumRemove
    <3> QED BY <3>1, <3>3 DEF all
  <2>5. f[x] \in Int /\ sum(T \ {x}) \in Int /\ sum(A) \in Int
    BY <1>1
  <2> HIDE DEF sum
  <2> QED BY <2>2, <2>3, <2>4, <2>5
<1>4. B \in good
  <2> HIDE DEF good
  <2> QED BY <1>2, <1>3, BySize
<1> QED BY <1>1, <1>4

\* What each of S has is covered by its own and by what its group in R gives.
Covered(S, has, own, R, g, f) ==
    \A i \in S : /\ has[i] \in Nat /\ own[i] \in Nat
                 /\ has[i] <= own[i] + SumFunctionOnSet(f, {x \in R : g[x] = i})

\* What they have together is then covered by what all of these give.
LEMMA SumGroups ==
    ASSUME NEW R, IsFiniteSet(R), NEW f, \A x \in R : f[x] \in Nat, NEW g,
           NEW S, IsFiniteSet(S), NEW has, NEW own, Covered(S, has, own, R, g, f)
    PROVE  SumFunctionOnSet(has, S)
             <= SumFunctionOnSet(own, S) + SumFunctionOnSet(f, {x \in R : g[x] \in S})
<1> DEFINE group(T) == {x \in R : g[x] \in T}
           given(T) == SumFunctionOnSet(f, group(T))
           good == {T \in SUBSET S : SumFunctionOnSet(has, T) <= SumFunctionOnSet(own, T) + given(T)}
<1>0. (\A i \in S : has[i] \in Nat) /\ (\A i \in S : own[i] \in Nat)
  BY Zenon DEF Covered
<1>1. ASSUME NEW T PROVE IsFiniteSet(group(T)) /\ given(T) \in Nat
  <2>1. IsFiniteSet(group(T)) /\ \A x \in group(T) : f[x] \in Nat
    BY FS_Subset
  <2> QED BY <2>1, SumType
<1>2. ASSUME NEW T \in SUBSET S
      PROVE  SumFunctionOnSet(has, T) \in Nat /\ SumFunctionOnSet(own, T) \in Nat /\ IsFiniteSet(T)
  <2>1. IsFiniteSet(T) /\ (\A i \in T : has[i] \in Nat) /\ (\A i \in T : own[i] \in Nat)
    BY <1>0, FS_Subset
  <2> QED BY <2>1, SumType
<1>3. {} \in good
  <2>1. SumFunctionOnSet(has, {}) = 0
    BY FS_EmptySet, SumType
  <2>2. given({}) \in Nat /\ SumFunctionOnSet(own, {}) \in Nat /\ {} \in SUBSET S
    BY <1>1, <1>2
  <2> HIDE DEF given
  <2> QED BY <2>1, <2>2
<1>4. ASSUME NEW T \in SUBSET S, T # {}, \A x \in T : T \ {x} \in good PROVE T \in good
  <2>1. PICK i \in T : TRUE
    BY <1>4
  <2>2. T \ {i} \in SUBSET S /\ SumFunctionOnSet(has, T \ {i})
          <= SumFunctionOnSet(own, T \ {i}) + given(T \ {i})
    BY <1>4
  <2>3. SumFunctionOnSet(has, T) = has[i] + SumFunctionOnSet(has, T \ {i})
    <3>1. \A y \in T : has[y] \in Int
      BY <1>0
    <3> QED BY <1>2, <3>1, SumRemove
  <2>4. SumFunctionOnSet(own, T) = own[i] + SumFunctionOnSet(own, T \ {i})
    <3>1. \A y \in T : own[y] \in Int
      BY <1>0
    <3> QED BY <1>2, <3>1, SumRemove
  <2>5. given(T) = given(T \ {i}) + given({i})
    <3> DEFINE A == group(T \ {i})
               B == group({i})
    <3>1. group(T) = A \cup B /\ A \cap B = {}
      OBVIOUS
    <3>2. \A x \in A \cup B : f[x] \in Int
      OBVIOUS
    <3>3. IsFiniteSet(A) /\ IsFiniteSet(B)
      BY <1>1
    <3>4. given(T) = SumFunctionOnSet(f, A \cup B)
      BY <3>1
    <3> HIDE DEF A, B
    <3>5. given(T) = SumFunctionOnSet(f, A) + SumFunctionOnSet(f, B)
      BY <3>1, <3>2, <3>3, <3>4, SumUnion
    <3> QED BY <3>5 DEF A, B
  <2>6. has[i] <= own[i] + given({i})
    <3>1. group({i}) = {x \in R : g[x] = i}
      OBVIOUS
    <3> QED BY <3>1 DEF Covered
  <2>7. /\ has[i] \in Nat /\ own[i] \in Nat /\ given({i}) \in Nat /\ given(T \ {i}) \in Nat
        /\ SumFunctionOnSet(has, T \ {i}) \in Nat /\ SumFunctionOnSet(own, T \ {i}) \in Nat
    BY <1>0, <1>1, <1>2, <2>2
  <2> HIDE DEF given
  <2>8. SumFunctionOnSet(has, T) <= SumFunctionOnSet(own, T) + given(T)
    BY <2>2, <2>3, <2>4, <2>5, <2>6, <2>7
  <2> QED BY <2>8
<1>5. S \in good
  <2> HIDE DEF good
  <2> QED BY <1>3, <1>4, BySize
<1> QED BY <1>5
-----------------------------------------------------------------------------
\* A finite set of numbers has a largest one.
LEMMA MaxOf ==
    ASSUME NEW S, IsFiniteSet(S), S # {}, S \subseteq Int
    PROVE  Max(S) \in S /\ \A y \in S : y <= Max(S)
<1> DEFINE good == {T \in SUBSET S : T = {} \/ \E x \in T : \A y \in T : x >= y}
<1>1. {} \in good
  OBVIOUS
<1>2. ASSUME NEW T \in SUBSET S, T # {}, \A x \in T : T \ {x} \in good PROVE T \in good
  <2>1. PICK x \in T : T \ {x} \in good
    BY <1>2
  <2>2. CASE T \ {x} = {}
    <3>1. x >= x /\ \A y \in T : y = x
      BY <2>1, <2>2
    <3> QED BY <3>1
  <2>3. CASE T \ {x} # {}
    <3>1. PICK z \in T \ {x} : \A y \in T \ {x} : z >= y
      BY <2>1, <2>3
    <3>2. x \in Int /\ z \in Int /\ \A y \in T : y \in Int
      OBVIOUS
    <3>3. CASE x >= z
      <4>1. \A y \in T : x >= y
        BY <3>1, <3>2, <3>3
      <4> QED BY <4>1
    <3>4. CASE ~(x >= z)
      <4>1. \A y \in T : z >= y
        BY <3>1, <3>2, <3>4
      <4> QED BY <4>1
    <3> QED BY <3>3, <3>4
  <2> QED BY <2>2, <2>3
<1>3. S \in good
  <2> HIDE DEF good
  <2> QED BY <1>1, <1>2, BySize
<1>4. \E x \in S : \A y \in S : x >= y
  BY <1>3
<1>5. Max(S) \in S /\ \A y \in S : Max(S) >= y
  BY <1>4 DEF Max
<1> QED BY <1>5
=============================================================================
