---------------------------- MODULE SumTheorems ----------------------------
(***************************************************************************)
(* Facts about SumFunction, the sum the models share, for functions of any *)
(* finite domain to Nat.                                                   *)
(*                                                                         *)
(* The induction theorems of the library take an operator as a parameter   *)
(* and cannot be applied; here induction is over a set, and the sum is the *)
(* cardinality of what it counts, so that most facts are facts of sets.    *)
(***************************************************************************)
EXTENDS Functions, Integers, Sequences, FiniteSets, FiniteSetTheorems, WellFoundedInduction,
        TLAPS

\* A set P of subsets that has every s whose subsets of one element less it has,
\* has all.
LEMMA SubsetInduction ==
  ASSUME NEW S, IsFiniteSet(S), NEW P,
         \A s \in SUBSET S : (\A x \in s : s \ {x} \in P) => s \in P
  PROVE  \A s \in SUBSET S : s \in P
<1> SUFFICES ASSUME (SUBSET S) \ P # {} PROVE FALSE
  OBVIOUS
<1> DEFINE T == (SUBSET S) \ P
           R == StrictSubsetOrdering(S)
<1>1. IsWellFoundedOn(R, SUBSET S)
  <2>1. IsWellFoundedOn(R, FiniteSubsetsOf(S))
    BY FS_StrictSubsetOrderingWellFounded
  <2>2. FiniteSubsetsOf(S) = SUBSET S
    BY FS_FiniteSubsetsOfFinite
  <2> QED
    BY <2>1, <2>2
<1>2. T \subseteq SUBSET S /\ T # {}
  OBVIOUS
<1> HIDE DEF T, R
<1>3. PICK s \in T : \A t \in T : <<t, s>> \notin R
  BY <1>1, <1>2, WFMin
<1>4. s \in SUBSET S /\ s \notin P
  BY <1>3 DEF T
<1>5. \A x \in s : s \ {x} \in P
  <2> SUFFICES ASSUME NEW x \in s PROVE s \ {x} \in P
    OBVIOUS
  <2>1. <<s \ {x}, s>> \in R
    BY <1>4 DEF R, StrictSubsetOrdering
  <2>2. s \ {x} \notin T
    BY <1>3, <2>1
  <2> QED
    BY <1>4, <2>2 DEF T
<1> QED
  BY <1>4, <1>5

(***************************************************************************)
(* What a sum counts: f[x] units for each x.                               *)
(***************************************************************************)
Units(f, s) == {p \in s \X Nat : p[2] \in 1 .. f[p[1]]}
Size(f, s) == Cardinality(Units(f, s))

\* There are n units for an element with the value n.
LEMMA ColumnSize ==
  ASSUME NEW x, NEW n \in Nat
  PROVE  IsFiniteSet({x} \X (1 .. n)) /\ Cardinality({x} \X (1 .. n)) = n
<1>1. IsFiniteSet({x}) /\ Cardinality({x}) = 1
  BY FS_Singleton
<1>2. IsFiniteSet(1 .. n) /\ Cardinality(1 .. n) = n
  BY FS_Interval
<1>3. /\ IsFiniteSet({x} \X (1 .. n))
      /\ Cardinality({x} \X (1 .. n)) = Cardinality({x}) * Cardinality(1 .. n)
  BY <1>1, <1>2, FS_Product
<1> QED
  BY <1>1, <1>2, <1>3

\* Finitely many elements have finitely many units.
LEMMA UnitsFinite ==
  ASSUME NEW S, IsFiniteSet(S), NEW f, \A x \in S : f[x] \in Nat
  PROVE  \A s \in SUBSET S : IsFiniteSet(Units(f, s)) /\ Size(f, s) \in Nat
<1> DEFINE P == {s \in SUBSET S : IsFiniteSet(Units(f, s))}
<1>1. ASSUME NEW s \in SUBSET S, \A x \in s : s \ {x} \in P PROVE s \in P
  <2>1. CASE s = {}
    BY <2>1, FS_EmptySet DEF Units
  <2>2. ASSUME NEW x \in s PROVE s \in P
    <3>1. Units(f, s) = Units(f, s \ {x}) \cup ({x} \X (1 .. f[x]))
      BY DEF Units
    <3>2. IsFiniteSet(Units(f, s \ {x}))
      BY <1>1
    <3>3. IsFiniteSet({x} \X (1 .. f[x]))
      BY ColumnSize
    <3>4. IsFiniteSet(Units(f, s \ {x}) \cup ({x} \X (1 .. f[x])))
      BY <3>2, <3>3, FS_Union
    <3> QED
      BY <3>1, <3>4
  <2> QED
    BY <2>1, <2>2
<1> HIDE DEF P
<1>2. \A s \in SUBSET S : s \in P
  BY <1>1, SubsetInduction
<1> QED
  BY <1>2, FS_CardinalityType DEF P, Size

\* The sum over s counts any element of s and the rest.
LEMMA SizeSplit ==
  ASSUME NEW S, IsFiniteSet(S), NEW f, \A x \in S : f[x] \in Nat, NEW x \in S
  PROVE  Size(f, S) = f[x] + Size(f, S \ {x})
<1> DEFINE U == Units(f, S \ {x})
           V == {x} \X (1 .. f[x])
<1>1. Units(f, S) = U \cup V /\ U \cap V = {}
  BY DEF Units
<1>2. IsFiniteSet(U) /\ Cardinality(U) \in Nat
  BY UnitsFinite, FS_CardinalityType
<1>3. IsFiniteSet(V) /\ Cardinality(V) = f[x]
  BY ColumnSize
<1>4. Cardinality(U \cup V) = Cardinality(U) + Cardinality(V) - Cardinality(U \cap V)
  BY <1>2, <1>3, FS_Union
<1>5. Cardinality(U \cap V) = 0
  BY <1>1, FS_EmptySet
<1> QED
  BY <1>1, <1>2, <1>3, <1>4, <1>5 DEF Size

\* No element has no unit.
LEMMA SizeEmpty == \A f : Size(f, {}) = 0
BY FS_EmptySet DEF Size, Units

(***************************************************************************)
(* The fold that defines SumFunction computes that size.                   *)
(***************************************************************************)
Some(s) == CHOOSE x \in s : TRUE

Unfolds(f, S, g) ==
  g = [s \in SUBSET S |-> IF s = {} THEN 0 ELSE f[Some(s)] + g[s \ {Some(s)}]]

\* What the library's definition unfolds to.
LEMMA SumUnfolds ==
  ASSUME NEW f
  PROVE  SumFunction(f) = (CHOOSE g : Unfolds(f, DOMAIN f, g))[DOMAIN f]
BY DEF SumFunction, SumFunctionOnSet, FoldFunctionOnSet, MapThenFoldSet, Some, Unfolds

\* The sum is the number of units.
LEMMA SumIsSize ==
  ASSUME NEW S, IsFiniteSet(S), NEW f \in [S -> Nat]
  PROVE  SumFunction(f) = Size(f, S)
<1> DEFINE size == [s \in SUBSET S |-> Size(f, s)]
           fold == CHOOSE g : Unfolds(f, S, g)
<1>1. \A s \in SUBSET S : s # {} =>
        Some(s) \in s /\ Size(f, s) = f[Some(s)] + Size(f, s \ {Some(s)})
  <2> SUFFICES ASSUME NEW s \in SUBSET S, s # {}
               PROVE  Some(s) \in s /\ Size(f, s) = f[Some(s)] + Size(f, s \ {Some(s)})
    OBVIOUS
  <2>1. Some(s) \in s
    BY DEF Some
  <2>2. IsFiniteSet(s)
    BY FS_Subset
  <2>3. \A x \in s : f[x] \in Nat
    OBVIOUS
  <2> QED
    BY <2>1, <2>2, <2>3, SizeSplit
<1>2. Unfolds(f, S, size)
  <2>1. \A s \in SUBSET S :
          size[s] = IF s = {} THEN 0 ELSE f[Some(s)] + size[s \ {Some(s)}]
    BY <1>1, SizeEmpty
  <2> HIDE DEF size
  <2>2. size = [s \in SUBSET S |-> size[s]]
    BY DEF size
  <2> QED
    BY <2>1, <2>2 DEF Unfolds
<1>3. Unfolds(f, S, fold)
  BY <1>2
<1> HIDE DEF fold, size
<1>4. \A s \in SUBSET S : fold[s] = IF s = {} THEN 0 ELSE f[Some(s)] + fold[s \ {Some(s)}]
  BY <1>3 DEF Unfolds
<1> DEFINE P == {s \in SUBSET S : fold[s] = Size(f, s)}
<1>5. ASSUME NEW s \in SUBSET S, \A x \in s : s \ {x} \in P PROVE s \in P
  <2>1. CASE s = {}
    BY <1>4, <2>1, SizeEmpty
  <2>2. CASE s # {}
    BY <1>1, <1>4, <1>5, <2>2
  <2> QED
    BY <2>1, <2>2
<1> HIDE DEF P
<1>6. \A s \in SUBSET S : s \in P
  BY <1>5, SubsetInduction
<1>7. fold[S] = Size(f, S)
  BY <1>6 DEF P
<1> QED
  BY <1>7, SumUnfolds DEF fold

(***************************************************************************)
(* What the other proofs use.                                              *)
(***************************************************************************)

\* A sum is a natural number; it is that of one element and of the others.
LEMMA SumSplit ==
  ASSUME NEW S, IsFiniteSet(S), NEW f \in [S -> Nat], NEW x \in S
  PROVE  /\ SumFunction(f) \in Nat
         /\ SumFunction(f) = f[x] + SumFunction([y \in S \ {x} |-> f[y]])
<1> DEFINE g == [y \in S \ {x} |-> f[y]]
<1>1. IsFiniteSet(S \ {x}) /\ g \in [S \ {x} -> Nat]
  BY FS_RemoveElement
<1>2. SumFunction(g) = Size(g, S \ {x})
  BY <1>1, SumIsSize
<1>3. Units(g, S \ {x}) = Units(f, S \ {x})
  BY DEF Units
<1> QED
  BY <1>2, <1>3, SumIsSize, SizeSplit, UnitsFinite DEF Size

\* The sum of natural numbers is one.
LEMMA SumType ==
  ASSUME NEW S, IsFiniteSet(S), NEW f \in [S -> Nat]
  PROVE  SumFunction(f) \in Nat
BY SumIsSize, UnitsFinite DEF Size

\* One element changes.
LEMMA SumChange ==
  ASSUME NEW S, IsFiniteSet(S), NEW f \in [S -> Nat], NEW g \in [S -> Nat], NEW x \in S,
         \A y \in S \ {x} : g[y] = f[y]
  PROVE  /\ SumFunction(f) \in Nat /\ SumFunction(g) \in Nat
         /\ SumFunction(g) - g[x] = SumFunction(f) - f[x]
<1>1. [y \in S \ {x} |-> g[y]] = [y \in S \ {x} |-> f[y]]
  OBVIOUS
<1>2. IsFiniteSet(S \ {x}) /\ [y \in S \ {x} |-> f[y]] \in [S \ {x} -> Nat]
  BY FS_RemoveElement
<1>3. SumFunction([y \in S \ {x} |-> f[y]]) \in Nat
  BY <1>2, SumType
<1> DEFINE rest == SumFunction([y \in S \ {x} |-> f[y]])
<1>4. SumFunction(f) = f[x] + rest /\ SumFunction(f) \in Nat
  BY SumSplit
<1>5. SumFunction(g) = g[x] + rest /\ SumFunction(g) \in Nat
  BY <1>1, SumSplit
<1> HIDE DEF rest
<1>6. rest \in Nat
  BY <1>3 DEF rest
<1> QED
  BY <1>4, <1>5, <1>6

\* The sum is zero when everything is, and only then.
LEMMA SumZero ==
  ASSUME NEW S, IsFiniteSet(S), NEW f \in [S -> Nat]
  PROVE  SumFunction(f) = 0 <=> \A x \in S : f[x] = 0
<1>1. Units(f, S) = {} <=> \A x \in S : f[x] = 0
  <2>1. ASSUME NEW x \in S, f[x] # 0 PROVE <<x, 1>> \in Units(f, S)
    BY <2>1 DEF Units
  <2>2. ASSUME \A x \in S : f[x] = 0 PROVE Units(f, S) = {}
    BY <2>2 DEF Units
  <2> QED
    BY <2>1, <2>2
<1>2. Units(f, S) = {} <=> Size(f, S) = 0
  BY UnitsFinite, FS_EmptySet DEF Size
<1> QED
  BY <1>1, <1>2, SumIsSize

\* Pointwise no more is no more.
LEMMA SumMonotone ==
  ASSUME NEW S, IsFiniteSet(S), NEW f \in [S -> Nat], NEW g \in [S -> Nat],
         \A x \in S : f[x] <= g[x]
  PROVE  SumFunction(f) <= SumFunction(g)
<1>1. Units(f, S) \subseteq Units(g, S)
  BY DEF Units
<1> QED
  BY <1>1, SumIsSize, UnitsFinite, FS_Subset DEF Size

\* Sums are added up pointwise.
LEMMA SumPlus ==
  ASSUME NEW S, IsFiniteSet(S), NEW f \in [S -> Nat], NEW g \in [S -> Nat]
  PROVE  SumFunction([x \in S |-> f[x] + g[x]]) = SumFunction(f) + SumFunction(g)
<1> DEFINE h == [x \in S |-> f[x] + g[x]]
           P == {s \in SUBSET S : Size(h, s) = Size(f, s) + Size(g, s)}
<1>1. h \in [S -> Nat] /\ \A x \in S : h[x] = f[x] + g[x]
  OBVIOUS
<1> HIDE DEF h
<1>2. ASSUME NEW s \in SUBSET S, \A x \in s : s \ {x} \in P PROVE s \in P
  <2>1. CASE s = {}
    BY <2>1, SizeEmpty
  <2>2. ASSUME NEW x \in s PROVE s \in P
    <3>1. IsFiniteSet(s)
      BY FS_Subset
    <3>2. /\ Size(h, s) = h[x] + Size(h, s \ {x})
          /\ Size(f, s) = f[x] + Size(f, s \ {x})
          /\ Size(g, s) = g[x] + Size(g, s \ {x})
      BY <1>1, <3>1, SizeSplit
    <3>3. Size(f, s \ {x}) \in Nat /\ Size(g, s \ {x}) \in Nat
      BY UnitsFinite
    <3> QED
      BY <1>1, <1>2, <3>2, <3>3
  <2> QED
    BY <2>1, <2>2
<1> HIDE DEF P
<1>3. S \in P
  BY <1>2, SubsetInduction
<1> QED
  BY <1>1, <1>3, SumIsSize DEF P, h

\* A sum is the same whatever the elements are called.
LEMMA SumRenamed ==
  ASSUME NEW S, IsFiniteSet(S), NEW T, NEW b \in Bijection(S, T),
         NEW f \in [S -> Nat], NEW g \in [T -> Nat], \A x \in S : f[x] = g[b[x]]
  PROVE  IsFiniteSet(T) /\ SumFunction(f) = SumFunction(g)
<1> DEFINE c == [p \in Units(f, S) |-> <<b[p[1]], p[2]>>]
<1>b. /\ \A x \in S : b[x] \in T
      /\ \A x, y \in S : b[x] = b[y] => x = y
      /\ \A y \in T : \E x \in S : b[x] = y
  BY DEF Bijection, Injection, Surjection, IsInjective
<1>1. IsFiniteSet(T)
  BY FS_Bijection DEF ExistsBijection
<1>2. \A p \in Units(f, S) : p[1] \in S /\ p[2] \in Nat /\ p[2] \in 1 .. f[p[1]] /\ p = <<p[1], p[2]>>
  BY DEF Units
<1>3. \A p \in Units(f, S) : c[p] \in Units(g, T)
  BY <1>b, <1>2 DEF Units
<1>4. \A p, q \in Units(f, S) : c[p] = c[q] => p = q
  <2> SUFFICES ASSUME NEW p \in Units(f, S), NEW q \in Units(f, S), c[p] = c[q] PROVE p = q
    OBVIOUS
  <2>1. b[p[1]] = b[q[1]] /\ p[2] = q[2]
    OBVIOUS
  <2> QED
    BY <1>b, <1>2, <2>1
<1>5. ASSUME NEW u \in Units(g, T) PROVE \E p \in Units(f, S) : c[p] = u
  <2>1. u[1] \in T /\ u[2] \in Nat /\ u[2] \in 1 .. g[u[1]] /\ u = <<u[1], u[2]>>
    BY DEF Units
  <2>2. PICK x \in S : b[x] = u[1]
    BY <1>b, <2>1
  <2>3. <<x, u[2]>> \in Units(f, S) /\ c[<<x, u[2]>>] = u
    BY <2>1, <2>2 DEF Units
  <2> QED
    BY <2>3
<1>6. c \in Bijection(Units(f, S), Units(g, T))
  <2> HIDE DEF c
  <2>1. c \in [Units(f, S) -> Units(g, T)]
    BY <1>3 DEF c
  <2> QED
    BY <1>4, <1>5, <2>1 DEF Bijection, Injection, Surjection, IsInjective
<1>7. IsFiniteSet(Units(f, S))
  BY UnitsFinite
<1>8. Size(f, S) = Size(g, T)
  BY <1>6, <1>7, FS_Bijection DEF ExistsBijection, Size
<1> QED
  BY <1>1, <1>8, SumIsSize

\* The sum over two sets that share nothing.
LEMMA SumDisjoint ==
  ASSUME NEW S, IsFiniteSet(S), NEW T, IsFiniteSet(T), S \cap T = {},
         NEW f, \A x \in S \cup T : f[x] \in Nat
  PROVE  SumFunction([x \in S \cup T |-> f[x]]) =
           SumFunction([x \in S |-> f[x]]) + SumFunction([x \in T |-> f[x]])
<1> DEFINE h == [x \in S \cup T |-> f[x]]
           k == [x \in S |-> f[x]]
           l == [x \in T |-> f[x]]
<1>1. IsFiniteSet(S \cup T)
  BY FS_Union
<1>2. h \in [S \cup T -> Nat] /\ k \in [S -> Nat] /\ l \in [T -> Nat]
  OBVIOUS
<1>3. /\ Units(h, S \cup T) = Units(k, S) \cup Units(l, T)
      /\ Units(k, S) \cap Units(l, T) = {}
  BY DEF Units
<1> HIDE DEF h, k, l
<1>4. /\ IsFiniteSet(Units(k, S)) /\ Cardinality(Units(k, S)) \in Nat
      /\ IsFiniteSet(Units(l, T)) /\ Cardinality(Units(l, T)) \in Nat
  BY <1>2, UnitsFinite DEF Size
<1>5. Size(h, S \cup T) = Size(k, S) + Size(l, T)
  <2>1. Cardinality(Units(k, S) \cap Units(l, T)) = 0
    BY <1>3, FS_EmptySet
  <2>2. Cardinality(Units(k, S) \cup Units(l, T)) =
          Cardinality(Units(k, S)) + Cardinality(Units(l, T))
            - Cardinality(Units(k, S) \cap Units(l, T))
    BY <1>4, FS_Union
  <2>3. \A m, n \in Nat : m + n - 0 = m + n
    OBVIOUS
  <2>4. Cardinality(Units(k, S)) + Cardinality(Units(l, T)) - 0 =
          Cardinality(Units(k, S)) + Cardinality(Units(l, T))
    BY <1>4, <2>3
  <2> QED
    BY <1>3, <2>1, <2>2, <2>4 DEF Size
<1> QED
  BY <1>1, <1>2, <1>5, SumIsSize DEF h, k, l

\* The sum of a sequence that is appended to.
LEMMA SumAppend ==
  ASSUME NEW s \in Seq(Nat), NEW n \in Nat
  PROVE  SumFunction(Append(s, n)) = SumFunction(s) + n
<1> DEFINE t == Append(s, n)
           j == Len(s) + 1
           S == 1 .. j
<1>1. IsFiniteSet(S) /\ IsFiniteSet(1 .. Len(s))
  BY FS_Interval
<1>2. t \in Seq(Nat) /\ Len(t) = j /\ t[j] = n /\ \A i \in 1 .. Len(s) : t[i] = s[i]
  OBVIOUS
<1>3. j \in S /\ S \ {j} = 1 .. Len(s)
  OBVIOUS
<1> HIDE DEF t
<1>4. t \in [S -> Nat] /\ s \in [1 .. Len(s) -> Nat]
  BY <1>2
<1>5. [i \in 1 .. Len(s) |-> t[i]] = s
  BY <1>2, <1>4
<1> HIDE DEF S, j
<1>6. SumFunction(t) = t[j] + SumFunction([i \in S \ {j} |-> t[i]])
  BY <1>1, <1>3, <1>4, SumSplit
<1>7. SumFunction(t) = n + SumFunction(s)
  BY <1>2, <1>3, <1>5, <1>6
<1>8. SumFunction(s) \in Nat
  BY <1>1, <1>4, SumType
<1> QED
  BY <1>7, <1>8 DEF t

\* The sum of the first k elements of s.
Upto(s, k) == SumFunction(SubSeq(s, 1, k))

\* No element has the sum zero.
LEMMA UptoZero ==
  ASSUME NEW S, NEW s \in Seq(S)
  PROVE  Upto(s, 0) = 0
<1>e. SubSeq(s, 1, 0) = <<>>
  OBVIOUS
<1>1. SumFunction(<<>>) = 0
  <2>1. IsFiniteSet({}) /\ <<>> \in [{} -> Nat]
    BY FS_EmptySet
  <2> QED
    BY <2>1, SumZero
<1> QED
  BY <1>e, <1>1 DEF Upto

\* All elements have the whole sum.
LEMMA UptoAll ==
  ASSUME NEW s \in Seq(Nat)
  PROVE  Upto(s, Len(s)) = SumFunction(s)
<1>1. SubSeq(s, 1, Len(s)) = s
  OBVIOUS
<1> QED
  BY <1>1 DEF Upto

\* One element more.
LEMMA UptoStep ==
  ASSUME NEW s \in Seq(Nat), NEW k \in Nat, k < Len(s)
  PROVE  Upto(s, k) \in Nat /\ Upto(s, k + 1) = Upto(s, k) + s[k + 1]
<1> DEFINE p == SubSeq(s, 1, k)
<1>1. p \in Seq(Nat) /\ Len(p) = k /\ SubSeq(s, 1, k + 1) = Append(p, s[k + 1])
  OBVIOUS
<1>2. s[k + 1] \in Nat
  OBVIOUS
<1> HIDE DEF p
<1>3. p \in [1 .. k -> Nat]
  BY <1>1
<1>4. SumFunction(p) \in Nat
  <2>1. IsFiniteSet(1 .. k)
    BY FS_Interval
  <2> QED
    BY <1>3, <2>1, SumType
<1>5. SumFunction(SubSeq(s, 1, k + 1)) = SumFunction(p) + s[k + 1]
  BY <1>1, <1>2, SumAppend
<1> QED
  BY <1>4, <1>5 DEF Upto, p

\* More elements have no smaller sum.
LEMMA UptoMonotone ==
  ASSUME NEW s \in Seq(Nat), NEW k \in 0 .. Len(s), NEW m \in 0 .. k
  PROVE  /\ Upto(s, m) \in Nat /\ Upto(s, k) \in Nat
         /\ Upto(s, m) <= Upto(s, k)
<1> DEFINE p == SubSeq(s, 1, k)
           q == SubSeq(s, 1, m)
<1>1. /\ p \in Seq(Nat) /\ Len(p) = k /\ \A i \in 1 .. k : p[i] = s[i]
      /\ q \in Seq(Nat) /\ Len(q) = m /\ \A i \in 1 .. m : q[i] = s[i]
  OBVIOUS
<1> HIDE DEF p, q
<1>2. p \in [1 .. k -> Nat] /\ q \in [1 .. m -> Nat]
  BY <1>1
<1>3. IsFiniteSet(1 .. k) /\ IsFiniteSet(1 .. m)
  BY FS_Interval
<1>4. Units(q, 1 .. m) \subseteq Units(p, 1 .. k)
  <2>1. 1 .. m \subseteq 1 .. k
    OBVIOUS
  <2>2. \A i \in 1 .. m : q[i] = p[i]
    BY <1>1, <2>1
  <2> QED
    BY <2>1, <2>2 DEF Units
<1>5. IsFiniteSet(Units(p, 1 .. k)) /\ Size(p, 1 .. k) \in Nat /\ Size(q, 1 .. m) \in Nat
  BY <1>2, <1>3, UnitsFinite
<1>6. Size(q, 1 .. m) <= Size(p, 1 .. k)
  BY <1>4, <1>5, FS_Subset DEF Size
<1>7. SumFunction(p) = Size(p, 1 .. k) /\ SumFunction(q) = Size(q, 1 .. m)
  BY <1>2, <1>3, SumIsSize
<1> QED
  BY <1>5, <1>6, <1>7 DEF Upto, p, q

\* An element appended later is not in it.
LEMMA UptoAppend ==
  ASSUME NEW s \in Seq(Nat), NEW n \in Nat, NEW k \in 0 .. Len(s)
  PROVE  Upto(Append(s, n), k) = Upto(s, k)
<1>1. SubSeq(Append(s, n), 1, k) = SubSeq(s, 1, k)
  OBVIOUS
<1> QED
  BY <1>1 DEF Upto
=============================================================================
