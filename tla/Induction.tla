------------------------------- MODULE Induction -------------------------------
(***************************************************************************)
(* The principle behind every induction of the proof modules: a statement  *)
(* about all natural numbers that fails somewhere fails at a least number. *)
(* And what follows from it of finite sets, of folds over them, and of the *)
(* walks in a graph in which each element has at most one successor.       *)
(***************************************************************************)
EXTENDS Naturals, Sequences, FiniteSetTheorems, TLAPS

Below == {pair \in Nat \X Nat : pair[1] < pair[2]}

LEMMA BelowIsWellFounded == IsWellFoundedOn(Below, Nat)
<1>1. OpToRel(<, Nat) = Below
  BY DEF OpToRel, Below
<1> QED BY <1>1, NatLessThanWellFounded

\* A set of natural numbers that is not empty has a least one.
LEMMA Least ==
    ASSUME NEW S \in SUBSET Nat, S # {}
    PROVE  \E m \in S : \A n \in S : m <= n
<1>1. PICK m \in S : \A n \in S : ~ (<<n, m>> \in Below)
  BY BelowIsWellFounded, WFMin, Zenon
<1>2. ASSUME NEW n \in S PROVE m <= n
  <2>1. m \in Nat /\ n \in Nat
    OBVIOUS
  <2>2. <<n, m>> \in Nat \X Nat /\ <<n, m>>[1] = n /\ <<n, m>>[2] = m
    BY <2>1
  <2> QED BY <1>1, <2>1, <2>2 DEF Below
<1> QED BY <1>2

\* And one of the numbers up to n has a greatest one.
LEMMA Greatest ==
    ASSUME NEW n \in Nat, NEW S \in SUBSET (0 .. n), S # {}
    PROVE  \E m \in S : \A k \in S : m >= k
<1> DEFINE T == {n - k : k \in S}
<1>1. T \in SUBSET Nat /\ T # {}
  <2>1. \A k \in S : n - k \in Nat
    OBVIOUS
  <2> QED BY <2>1
<1>2. PICK t \in T : \A u \in T : t <= u
  <2> HIDE DEF T
  <2> QED BY <1>1, Least
<1>3. PICK m \in S : t = n - m
  BY <1>2
<1>4. ASSUME NEW k \in S PROVE m >= k
  <2>1. n - m <= n - k
    BY <1>2, <1>3
  <2> QED BY <2>1
<1> QED BY <1>4

\* F computes each value of a function on 1 .. n from the later ones.
IsBackward(F, n, V) ==
    /\ F \in [[1 .. n -> V] -> [1 .. n -> V]]
    /\ \A f, g \in [1 .. n -> V] : \A i \in 1 .. n :
            (\A k \in i + 1 .. n : f[k] = g[k]) => F[f][i] = F[g][i]

LEMMA FixedPoint ==
    ASSUME NEW n \in Nat, NEW V, NEW v \in V, NEW F, IsBackward(F, n, V)
    PROVE  \E f \in [1 .. n -> V] : f = F[f]
<1> DEFINE Fixed(f, m) == \A i \in m + 1 .. n : f[i] = F[f][i]
           Good == {m \in 0 .. n : \E f \in [1 .. n -> V] : Fixed(f, m)}
<1>0. /\ F \in [[1 .. n -> V] -> [1 .. n -> V]]
      /\ \A f, g \in [1 .. n -> V] : \A i \in 1 .. n :
            (\A k \in i + 1 .. n : f[k] = g[k]) => F[f][i] = F[g][i]
  BY DEF IsBackward
<1>1. n \in Good
  <2>1. [i \in 1 .. n |-> v] \in [1 .. n -> V]
    OBVIOUS
  <2>2. \A f : Fixed(f, n)
    OBVIOUS
  <2>3. \E f \in [1 .. n -> V] : Fixed(f, n)
    <3> HIDE DEF Fixed
    <3> QED BY <2>1, <2>2, Zenon
  <2>4. n \in 0 .. n
    OBVIOUS
  <2> HIDE DEF Fixed
  <2> QED BY <2>3, <2>4
<1>2. Good \in SUBSET Nat
  OBVIOUS
<1>3. PICK m \in Good : \A k \in Good : m <= k
  <2> HIDE DEF Good
  <2> QED BY <1>1, <1>2, Least
<1>4. PICK f \in [1 .. n -> V] : Fixed(f, m)
  BY <1>3
<1>5. F[f] \in [1 .. n -> V]
  BY <1>0
<1>6. ASSUME m # 0 PROVE FALSE
  <2>1. m - 1 \in 0 .. n /\ ~ (m <= m - 1) /\ m \in 1 .. n
    BY <1>3, <1>6
  <2>2. \A k \in m + 1 .. n : f[k] = F[f][k]
    BY <1>4
  <2>3. ASSUME NEW i \in m - 1 + 1 .. n PROVE F[f][i] = F[F[f]][i]
    <3>1. i \in 1 .. n /\ \A k \in i + 1 .. n : k \in m + 1 .. n
      BY <2>1, <2>3
    <3>2. \A k \in i + 1 .. n : f[k] = F[f][k]
      BY <2>2, <3>1
    <3> QED BY <1>0, <1>5, <3>1, <3>2
  <2>4. m - 1 \in Good
    BY <1>5, <2>1, <2>3
  <2> HIDE DEF Good
  <2> QED BY <1>3, <2>1, <2>4
<1>7. \A i \in 1 .. n : f[i] = F[f][i]
  BY <1>4, <1>6
<1> QED BY <1>5, <1>7

\* How many elements a set has, and its parts, with the operators of FiniteSets
\* as the modules that instantiate the community modules see them.
LEMMA SizeIsNumber ==
    ASSUME NEW S, IsFiniteSet(S)
    PROVE  Cardinality(S) \in Nat
BY FS_CardinalityType

LEMMA NoneAndOne ==
    /\ IsFiniteSet({}) /\ Cardinality({}) = 0
    /\ \A S : IsFiniteSet(S) => (Cardinality(S) = 0 <=> S = {})
    /\ \A x : IsFiniteSet({x}) /\ Cardinality({x}) = 1
    /\ \A S : IsFiniteSet(S) => (Cardinality(S) = 1 <=> \E x : S = {x})
BY FS_EmptySet, FS_Singleton

LEMMA PartIsFinite ==
    ASSUME NEW S, IsFiniteSet(S), NEW T \in SUBSET S
    PROVE  /\ IsFiniteSet(T) /\ Cardinality(T) <= Cardinality(S)
           /\ Cardinality(S) = Cardinality(T) => S = T
BY FS_Subset

LEMMA WithoutOne ==
    ASSUME NEW S, IsFiniteSet(S), NEW x \in S
    PROVE  IsFiniteSet(S \ {x}) /\ Cardinality(S \ {x}) = Cardinality(S) - 1
BY FS_RemoveElement

LEMMA NumbersUpTo ==
    ASSUME NEW n \in Nat
    PROVE  IsFiniteSet(1 .. n) /\ Cardinality(1 .. n) = n
BY FS_Interval

LEMMA TogetherFinite ==
    ASSUME NEW S, IsFiniteSet(S), NEW T, IsFiniteSet(T)
    PROVE  IsFiniteSet(S \cup T) /\ IsFiniteSet(S \X T)
BY FS_Union, FS_Product

LEMMA AllTogetherFinite ==
    ASSUME NEW S, IsFiniteSet(S), \A T \in S : IsFiniteSet(T)
    PROVE  IsFiniteSet(UNION S)
BY FS_UNION

\* The elements of a finite set, numbered.
LEMMA Enumeration ==
    ASSUME NEW S, IsFiniteSet(S)
    PROVE  /\ Cardinality(S) \in Nat
           /\ \E f \in [1 .. Cardinality(S) -> S] : \A x \in S : \E i \in 1 .. Cardinality(S) : f[i] = x
<1>1. Cardinality(S) \in Nat /\ ExistsBijection(1 .. Cardinality(S), S)
  BY FS_CardinalityType
<1> QED BY <1>1 DEF ExistsBijection, Bijection, Injection, Surjection

\* As many images as elements, where none is the image of two.
LEMMA SameNumber ==
    ASSUME NEW S, IsFiniteSet(S), NEW f, \A x, y \in S : f[x] = f[y] => x = y
    PROVE  /\ IsFiniteSet({f[x] : x \in S})
           /\ Cardinality({f[x] : x \in S}) = Cardinality(S)
<1> DEFINE T == {f[x] : x \in S}
           g == [x \in S |-> f[x]]
<1>1. g \in Bijection(S, T)
  BY DEF Bijection, Injection, Surjection, IsInjective
<1> HIDE DEF T, g
<1>2. ExistsBijection(S, T)
  BY <1>1, Zenon DEF ExistsBijection
<1>3. IsFiniteSet(T) /\ Cardinality(T) = Cardinality(S)
  BY <1>2, FS_Bijection
<1> QED BY <1>3 DEF T

\* As many images at most as elements.
LEMMA ImagesFinite ==
    ASSUME NEW S, IsFiniteSet(S), NEW f
    PROVE  IsFiniteSet({f[x] : x \in S})
<1> DEFINE T == {f[x] : x \in S}
           g == [x \in S |-> f[x]]
<1>1. g \in Surjection(S, T)
  BY DEF Surjection
<1> HIDE DEF T, g
<1>2. IsFiniteSet(T)
  BY <1>1, FS_Surjection
<1> QED BY <1>2 DEF T

(***************************************************************************)
(* A fold takes the elements of a finite set one by one: what it makes of  *)
(* a set is a step from what it makes of the set without one of its        *)
(* elements.                                                               *)
(***************************************************************************)
Picks(pick, S) == \A s \in SUBSET S : s # {} => pick[s] \in s

\* What holds of no element, and of a set if it does without the element that is
\* taken of it, holds of the whole set.
LEMMA FoldInduction ==
    ASSUME NEW S, IsFiniteSet(S), NEW pick, Picks(pick, S), NEW Good, {} \in Good,
           \A s \in SUBSET S : s # {} /\ s \ {pick[s]} \in Good => s \in Good
    PROVE  S \in Good
<1> DEFINE Sizes == {n \in Nat : \E s \in SUBSET S : s \notin Good /\ Cardinality(s) = n}
<1>1. ASSUME S \notin Good PROVE FALSE
  <2>1. Cardinality(S) \in Nat
    BY FS_CardinalityType
  <2>2. Sizes \in SUBSET Nat /\ Sizes # {}
    BY <1>1, <2>1
  <2>3. PICK m \in Sizes : \A n \in Sizes : m <= n
    <3> HIDE DEF Sizes
    <3> QED BY <2>2, Least
  <2>4. PICK s \in SUBSET S : s \notin Good /\ Cardinality(s) = m
    BY <2>3
  <2>5. IsFiniteSet(s) /\ s # {}
    BY <2>4, FS_Subset
  <2>6. pick[s] \in s
    BY <2>4, <2>5 DEF Picks
  <2> DEFINE rest == s \ {pick[s]}
  <2>7. rest \in SUBSET S /\ Cardinality(rest) = m - 1 /\ m \in Nat /\ Cardinality(rest) \in Nat
    BY <2>2, <2>3, <2>4, <2>5, <2>6, FS_RemoveElement, FS_CardinalityType
  <2>8. rest \in Good
    BY <2>3, <2>7
  <2> QED BY <2>4, <2>5, <2>8
<1> QED BY <1>1

\* step[x] makes of a value another one of V.
IsStep(step, S, V) == \A x \in S : \A v \in V : step[x][v] \in V

IsFold(f, S, pick, V, base, step) ==
    /\ f \in [SUBSET S -> V]
    /\ \A s \in SUBSET S : f[s] = IF s = {} THEN base ELSE step[pick[s]][f[s \ {pick[s]}]]

\* The function that a fold chooses exists.
LEMMA FoldExists ==
    ASSUME NEW S, IsFiniteSet(S), NEW pick, Picks(pick, S), NEW V, NEW base \in V, NEW step,
           IsStep(step, S, V)
    PROVE  \E f : IsFold(f, S, pick, V, base, step)
<1> DEFINE Next(f, s) == IF s = {} THEN base ELSE step[pick[s]][f[s \ {pick[s]}]]
           Level(n) == {s \in SUBSET S : Cardinality(s) <= n}
           Fixed(f, n) == \A s \in Level(n) : f[s] = Next(f, s)
           Bad == {n \in Nat : ~ \E f \in [SUBSET S -> V] : Fixed(f, n)}
<1>1. \A s \in SUBSET S : IsFiniteSet(s) /\ Cardinality(s) \in Nat
  BY FS_Subset, FS_CardinalityType
<1>2. ASSUME NEW s \in SUBSET S, s # {}
      PROVE  /\ pick[s] \in S /\ s \ {pick[s]} \in SUBSET S
             /\ Cardinality(s \ {pick[s]}) = Cardinality(s) - 1
  <2>1. pick[s] \in s
    BY <1>2 DEF Picks
  <2> QED BY <1>1, <2>1, FS_RemoveElement
<1>3. 0 \notin Bad
  <2>1. [s \in SUBSET S |-> base] \in [SUBSET S -> V]
    OBVIOUS
  <2>2. \A s \in Level(0) : s = {}
    BY <1>1, FS_EmptySet
  <2>3. Fixed([s \in SUBSET S |-> base], 0)
    BY <2>2
  <2> HIDE DEF Fixed
  <2> QED BY <2>1, <2>3
<1>4. ASSUME NEW n \in Nat, n \notin Bad PROVE n + 1 \notin Bad
  <2>1. PICK f \in [SUBSET S -> V] : Fixed(f, n)
    BY <1>4
  <2> DEFINE g == [s \in SUBSET S |-> Next(f, s)]
  <2>2. \A s \in SUBSET S : Next(f, s) \in V
    BY <1>2 DEF IsStep
  <2>3. g \in [SUBSET S -> V]
    BY <2>2
  <2>4. ASSUME NEW s \in Level(n + 1) PROVE g[s] = Next(g, s)
    <3>1. CASE s = {}
      BY <3>1
    <3>2. CASE s # {}
      <4>1. s \ {pick[s]} \in Level(n)
        BY <1>1, <1>2, <3>2
      <4>2. f[s \ {pick[s]}] = Next(f, s \ {pick[s]})
        BY <2>1, <4>1
      <4>3. g[s \ {pick[s]}] = f[s \ {pick[s]}]
        BY <4>1, <4>2
      <4> QED BY <3>2, <4>3
    <3> QED BY <3>1, <3>2
  <2>5. Fixed(g, n + 1)
    BY <2>4
  <2> HIDE DEF g, Fixed
  <2> QED BY <2>3, <2>5
<1>5. ASSUME NEW n \in Nat PROVE n \notin Bad
  <2> HIDE DEF Bad
  <2>1. ASSUME n \in Bad PROVE FALSE
    <3>1. Bad \in SUBSET Nat
      BY DEF Bad
    <3>2. PICK m \in Bad : \A k \in Bad : m <= k
      BY <2>1, <3>1, Least
    <3>3. m # 0 /\ m \in Nat
      BY <1>3, <3>1, <3>2
    <3>4. m - 1 \in Nat /\ m - 1 \notin Bad
      BY <3>1, <3>2, <3>3
    <3> QED BY <1>4, <3>2, <3>3, <3>4
  <2> QED BY <2>1
<1>6. Cardinality(S) \in Nat /\ \A s \in SUBSET S : s \in Level(Cardinality(S))
  BY <1>1, FS_Subset
<1>7. PICK f \in [SUBSET S -> V] : Fixed(f, Cardinality(S))
  BY <1>5, <1>6
<1>8. IsFold(f, S, pick, V, base, step)
  BY <1>6, <1>7 DEF IsFold
<1> QED BY <1>8

IsAsBig(S, D) == IsFiniteSet(S) /\ IsFiniteSet(D) /\ Cardinality(S) = Cardinality(D)

IsGrowing(grow, D) == \A X \in SUBSET D : X \subseteq grow[X] /\ grow[X] \in SUBSET D

\* f takes a set of D one step further for each element of S.
IsGrowth(f, S, pick, grow, D) ==
    /\ f[{}] \in SUBSET D
    /\ \A s \in SUBSET S : s # {} /\ f[s \ {pick[s]}] \in SUBSET D
                                => f[s] = grow[f[s \ {pick[s]}]]

\* The least set with these elements that does not grow.
IsClosure(X, base, grow, D) ==
    /\ X \in SUBSET D /\ base \subseteq X /\ grow[X] = X
    /\ \A C \in SUBSET D : base \subseteq C /\ (\A Y \in SUBSET C : grow[Y] \subseteq C)
                                => X \subseteq C

LEMMA SameSize ==
    ASSUME NEW S, IsFiniteSet(S)
    PROVE  IsAsBig(S, S)
BY DEF IsAsBig

\* As many steps as there are elements reach what a growing set can reach.
LEMMA FoldCloses ==
    ASSUME NEW D, NEW S, IsAsBig(S, D), NEW pick, Picks(pick, S), NEW grow, IsGrowing(grow, D),
           NEW f, IsGrowth(f, S, pick, grow, D)
    PROVE  IsClosure(f[S], f[{}], grow, D)
<1> DEFINE Within == {s \in SUBSET S : f[s] \in SUBSET D /\ f[{}] \subseteq f[s]}
           Good == {s \in Within : grow[f[s]] = f[s] \/ Cardinality(f[s]) >= Cardinality(s)}
<1>0. /\ IsFiniteSet(S) /\ IsFiniteSet(D) /\ Cardinality(S) = Cardinality(D)
      /\ \A X \in SUBSET D : X \subseteq grow[X] /\ grow[X] \in SUBSET D
      /\ f[{}] \in SUBSET D
      /\ \A s \in SUBSET S : s # {} /\ f[s \ {pick[s]}] \in SUBSET D
                                => f[s] = grow[f[s \ {pick[s]}]]
  BY DEF IsAsBig, IsGrowing, IsGrowth
<1>1. \A X \in SUBSET D : IsFiniteSet(X) /\ Cardinality(X) \in Nat
  BY <1>0, FS_Subset, FS_CardinalityType
<1>2. \A s \in SUBSET S : IsFiniteSet(s) /\ Cardinality(s) \in Nat
  BY <1>0, FS_Subset, FS_CardinalityType
<1>3. {} \in Good
  BY <1>0, <1>1, FS_EmptySet
<1>4. ASSUME NEW s \in SUBSET S, s # {}, s \ {pick[s]} \in Good PROVE s \in Good
  <2> DEFINE rest == s \ {pick[s]}
  <2>1. rest \in SUBSET S /\ f[rest] \in SUBSET D /\ f[{}] \subseteq f[rest]
        /\ (grow[f[rest]] = f[rest] \/ Cardinality(f[rest]) >= Cardinality(rest))
    BY <1>4
  <2>2. Cardinality(rest) = Cardinality(s) - 1
    <3>1. pick[s] \in s
      BY <1>4 DEF Picks
    <3> QED BY <1>2, <3>1, FS_RemoveElement
  <2>3. f[s] = grow[f[rest]]
    BY <1>0, <1>4
  <2> HIDE DEF rest
  <2>4. s \in Within
    BY <1>0, <1>4, <2>1, <2>3
  <2>5. CASE grow[f[rest]] = f[rest]
    BY <2>3, <2>4, <2>5
  <2>6. CASE grow[f[rest]] # f[rest]
    <3>1. f[rest] \subseteq f[s] /\ f[rest] # f[s] /\ f[s] \in SUBSET D
      BY <1>0, <2>1, <2>3, <2>6
    <3>2. Cardinality(f[rest]) < Cardinality(f[s])
      <4>1. Cardinality(f[rest]) <= Cardinality(f[s]) /\ Cardinality(f[rest]) # Cardinality(f[s])
        BY <1>1, <3>1, FS_Subset
      <4> QED BY <1>1, <2>1, <3>1, <4>1
    <3>3. Cardinality(f[s]) >= Cardinality(s)
      BY <1>1, <1>2, <1>4, <2>1, <2>2, <2>6, <3>1, <3>2
    <3> QED BY <2>4, <3>3
  <2> QED BY <2>5, <2>6
<1>5. S \in Good
  <2> HIDE DEF Good
  <2> QED BY <1>0, <1>3, <1>4, FoldInduction
<1>6. grow[f[S]] = f[S]
  <2>1. CASE Cardinality(f[S]) >= Cardinality(S)
    <3>1. f[S] \in SUBSET D /\ Cardinality(f[S]) <= Cardinality(D)
      BY <1>0, <1>5, FS_Subset
    <3>2. Cardinality(f[S]) = Cardinality(D)
      BY <1>0, <1>1, <2>1, <3>1
    <3>3. f[S] = D
      BY <1>0, <3>1, <3>2, FS_Subset
    <3>4. D \subseteq grow[D] /\ grow[D] \subseteq D
      BY <1>0
    <3> QED BY <3>3, <3>4
  <2> QED BY <1>5, <2>1
<1>7. ASSUME NEW C \in SUBSET D, f[{}] \subseteq C, \A X \in SUBSET C : grow[X] \subseteq C
      PROVE  f[S] \subseteq C
  <2> DEFINE Inside == {s \in SUBSET S : f[s] \subseteq C}
  <2>1. {} \in Inside
    BY <1>7
  <2>2. ASSUME NEW s \in SUBSET S, s # {}, s \ {pick[s]} \in Inside PROVE s \in Inside
    BY <1>0, <1>7, <2>2
  <2>3. S \in Inside
    <3> HIDE DEF Inside
    <3> QED BY <1>0, <2>1, <2>2, FoldInduction
  <2> QED BY <2>3
<1> QED BY <1>5, <1>6, <1>7 DEF IsClosure

(***************************************************************************)
(* A finite graph in which each element has at most one successor.         *)
(***************************************************************************)
IsClosed(next, C) == \A r \in C : next[r] \subseteq C

IsPath(next, D) ==
    /\ IsFiniteSet(D)
    /\ \A r \in D : next[r] \in SUBSET D /\ \A a, b \in next[r] : a = b

\* An element leads back to itself if every closed set with its successor has it.
IsCyclic(next, D, r) == \A C \in SUBSET D : IsClosed(next, C) /\ next[r] \subseteq C => r \in C

\* Where each element has a successor inside, one leads back to itself: an element
\* of a smallest closed part.
LEMMA CycleInside ==
    ASSUME NEW D, NEW next, IsPath(next, D), NEW U \in SUBSET D, U # {},
           \A r \in U : next[r] # {} /\ next[r] \subseteq U
    PROVE  \E r \in U : IsCyclic(next, D, r)
<1> DEFINE Sizes == {n \in Nat : \E C \in SUBSET U : C # {} /\ IsClosed(next, C)
                                                        /\ Cardinality(C) = n}
<1>1. IsFiniteSet(U) /\ \A C \in SUBSET U : IsFiniteSet(C) /\ Cardinality(C) \in Nat
  BY FS_Subset, FS_CardinalityType DEF IsPath
<1>2. Sizes \in SUBSET Nat /\ Sizes # {}
  <2>1. IsClosed(next, U)
    BY DEF IsClosed
  <2> QED BY <1>1, <2>1
<1>3. PICK m \in Sizes : \A n \in Sizes : m <= n
  <2> HIDE DEF Sizes
  <2> QED BY <1>2, Least
<1>4. PICK C \in SUBSET U : C # {} /\ IsClosed(next, C) /\ Cardinality(C) = m
  BY <1>3
<1>5. PICK r \in C : TRUE
  BY <1>4
<1>6. ASSUME NEW B \in SUBSET D, IsClosed(next, B), next[r] \subseteq B PROVE r \in B
  <2> DEFINE A == B \cap C
  <2>1. A \in SUBSET U /\ A \subseteq C /\ IsClosed(next, A) /\ A # {}
    BY <1>4, <1>5, <1>6 DEF IsClosed
  <2>2. m <= Cardinality(A)
    BY <1>1, <1>3, <2>1
  <2>3. A = C
    <3>1. Cardinality(A) <= Cardinality(C) /\ (Cardinality(A) = Cardinality(C) => A = C)
      BY <1>1, <2>1, FS_Subset
    <3> QED BY <1>1, <1>4, <2>1, <2>2, <3>1
  <2> QED BY <1>5, <2>3
<1>7. IsCyclic(next, D, r)
  BY <1>6 DEF IsCyclic
<1> QED BY <1>4, <1>5, <1>7

\* A walk along the successors, from outside a closed set of elements until it
\* enters this set, an element of its own, or has no successor.
IsWalk(next, D, settled, walk) ==
    /\ walk \in Seq(D) /\ walk # << >>
    /\ \A i \in 1 .. Len(walk) : walk[i] \notin settled
    /\ \A i, j \in 1 .. Len(walk) : walk[i] = walk[j] => i = j
    /\ \A i \in 1 .. Len(walk) - 1 : walk[i + 1] \in next[walk[i]]

Visited(walk) == {walk[i] : i \in 1 .. Len(walk)}

IsEnded(next, settled, walk) == next[walk[Len(walk)]] \subseteq settled \cup Visited(walk)

\* A walk that has ended leaves a larger closed set.
LEMMA WalkSettles ==
    ASSUME NEW D, NEW next, IsPath(next, D), NEW settled \in SUBSET D, IsClosed(next, settled),
           NEW walk, IsWalk(next, D, settled, walk), IsEnded(next, settled, walk)
    PROVE  /\ settled \cup Visited(walk) \in SUBSET D
           /\ IsClosed(next, settled \cup Visited(walk))
<1> DEFINE m == Len(walk)
<1>1. m \in Nat /\ m >= 1 /\ \A i \in 1 .. m : walk[i] \in D
  BY DEF IsWalk
<1>2. ASSUME NEW i \in 1 .. m PROVE next[walk[i]] \subseteq settled \cup Visited(walk)
  <2>1. CASE i = m
    BY <2>1 DEF IsEnded
  <2>2. CASE i # m
    <3>1. i \in 1 .. m - 1 /\ i + 1 \in 1 .. m
      BY <1>1, <2>2
    <3>2. walk[i + 1] \in next[walk[i]] /\ walk[i + 1] \in Visited(walk)
      BY <3>1 DEF IsWalk, Visited
    <3> QED BY <1>1, <3>2 DEF IsPath
  <2> QED BY <2>1, <2>2
<1> QED BY <1>1, <1>2 DEF IsClosed, Visited

\* Where the walk ends in one of its own elements, it is those from this one on
\* that lead back to themselves.
LEMMA LoopOfWalk ==
    ASSUME NEW D, NEW next, IsPath(next, D), NEW settled \in SUBSET D, IsClosed(next, settled),
           NEW walk, IsWalk(next, D, settled, walk), IsEnded(next, settled, walk),
           NEW i \in 1 .. Len(walk)
    PROVE  IsCyclic(next, D, walk[i]) <=> \E k \in 1 .. i : walk[k] \in next[walk[Len(walk)]]
<1> DEFINE m == Len(walk)
<1>1. m \in Nat /\ m >= 1 /\ \A j \in 1 .. m : walk[j] \in D
  BY DEF IsWalk
<1>2. ASSUME NEW j \in 1 .. m - 1 PROVE next[walk[j]] = {walk[j + 1]} /\ j + 1 \in 1 .. m
  BY <1>1 DEF IsWalk, IsPath
<1>3. ASSUME NEW k \in 1 .. i, walk[k] \in next[walk[m]] PROVE IsCyclic(next, D, walk[i])
  <2> SUFFICES ASSUME NEW C \in SUBSET D, IsClosed(next, C), next[walk[i]] \subseteq C
               PROVE  walk[i] \in C
    BY DEF IsCyclic
  \* The closed set has the walk after i, and so the rest of it from k on.
  <2> DEFINE Later == {j \in i + 1 .. m : walk[j] \notin C}
             Early == {j \in k .. i : walk[j] \notin C}
  <2>1. ASSUME NEW j \in 1 .. m - 1, walk[j] \in C PROVE walk[j + 1] \in C
    BY <1>2, <2>1 DEF IsClosed
  <2>2. Later = {}
    <3>1. ASSUME Later # {} PROVE FALSE
      <4>1. Later \in SUBSET Nat
        BY <1>1
      <4>2. PICK j \in Later : \A n \in Later : j <= n
        <5> HIDE DEF Later
        <5> QED BY <3>1, <4>1, Least
      <4>3. CASE j = i + 1
        <5>1. i \in 1 .. m - 1
          BY <1>1, <4>2
        <5>2. walk[i + 1] \in C
          BY <1>2, <5>1
        <5> QED BY <4>2, <4>3, <5>2
      <4>4. CASE j # i + 1
        <5>1. j - 1 \in i + 1 .. m /\ j - 1 \in 1 .. m - 1 /\ (j - 1) + 1 = j /\ j \in Nat
          BY <1>1, <4>2, <4>4
        <5>2. walk[j - 1] \in C
          BY <4>2, <5>1
        <5>3. walk[j] \in C
          BY <2>1, <5>1, <5>2
        <5> QED BY <4>2, <5>3
      <4> QED BY <4>3, <4>4
    <3> QED BY <3>1
  <2>3. next[walk[m]] \subseteq C
    <3>1. CASE i = m
      BY <3>1
    <3>2. CASE i # m
      <4>1. m \in i + 1 .. m
        BY <1>1, <3>2
      <4>2. walk[m] \in C
        BY <2>2, <4>1
      <4> QED BY <4>2 DEF IsClosed
    <3> QED BY <3>1, <3>2
  <2>4. Early = {}
    <3>1. ASSUME Early # {} PROVE FALSE
      <4>1. Early \in SUBSET Nat
        BY <1>1
      <4>2. PICK j \in Early : \A n \in Early : j <= n
        <5> HIDE DEF Early
        <5> QED BY <3>1, <4>1, Least
      <4>3. CASE j = k
        BY <1>3, <2>3, <4>2, <4>3
      <4>4. CASE j # k
        <5>1. j - 1 \in k .. i /\ j - 1 \in 1 .. m - 1 /\ (j - 1) + 1 = j /\ j \in Nat
          BY <1>1, <4>2, <4>4
        <5>2. walk[j - 1] \in C
          BY <4>2, <5>1
        <5>3. walk[j] \in C
          BY <2>1, <5>1, <5>2
        <5> QED BY <4>2, <5>3
      <4> QED BY <4>3, <4>4
    <3> QED BY <3>1
  <2>5. i \in k .. i
    BY <1>1, <1>3
  <2> QED BY <2>4, <2>5
<1>4. ASSUME \A k \in 1 .. i : walk[k] \notin next[walk[m]] PROVE ~IsCyclic(next, D, walk[i])
  <2> DEFINE C == settled \cup {walk[j] : j \in i + 1 .. m}
  <2>1. C \in SUBSET D
    BY <1>1
  <2>2. walk[i] \notin C
    BY <1>1 DEF IsWalk
  <2>3. ASSUME NEW j \in i .. m PROVE next[walk[j]] \subseteq C
    <3>1. CASE j = m
      <4>1. \A r \in next[walk[m]] : r \in settled \/ \E k \in 1 .. m : r = walk[k]
        BY DEF IsEnded, Visited
      <4> QED BY <1>1, <1>4, <3>1, <4>1
    <3>2. CASE j # m
      <4>1. j \in 1 .. m - 1 /\ j + 1 \in i + 1 .. m
        BY <1>1, <3>2
      <4> QED BY <1>2, <4>1
    <3> QED BY <3>1, <3>2
  <2>4. IsClosed(next, C)
    BY <1>1, <2>3 DEF IsClosed
  <2>5. next[walk[i]] \subseteq C
    BY <1>1, <2>3
  <2> HIDE DEF C
  <2> QED BY <2>1, <2>2, <2>4, <2>5 DEF IsCyclic
<1> QED BY <1>3, <1>4

\* A sequence with one more element.
LEMMA Appended ==
    ASSUME NEW S, NEW walk \in Seq(S), NEW x \in S
    PROVE  /\ Append(walk, x) \in Seq(S) /\ Append(walk, x) # << >>
           /\ Len(Append(walk, x)) = Len(walk) + 1 /\ Append(walk, x)[Len(walk) + 1] = x
           /\ \A i \in 1 .. Len(walk) : Append(walk, x)[i] = walk[i]
           /\ Visited(Append(walk, x)) = Visited(walk) \cup {x}
<1> DEFINE m == Len(walk)
           longer == Append(walk, x)
<1>1. /\ longer \in Seq(S) /\ Len(longer) = m + 1 /\ longer[m + 1] = x /\ m \in Nat
      /\ \A i \in 1 .. m : longer[i] = walk[i]
  OBVIOUS
<1>2. longer # << >>
  BY <1>1
<1> HIDE DEF longer
<1>3. Visited(longer) = Visited(walk) \cup {x}
  <2>1. 1 .. m + 1 = (1 .. m) \cup {m + 1}
    BY <1>1
  <2>2. Visited(longer) = {longer[i] : i \in 1 .. m + 1} /\ Visited(walk) = {walk[i] : i \in 1 .. m}
    BY <1>1 DEF Visited
  <2>3. {longer[i] : i \in 1 .. m + 1} = {longer[i] : i \in 1 .. m} \cup {x}
    BY <1>1, <2>1
  <2>4. {longer[i] : i \in 1 .. m} = {walk[i] : i \in 1 .. m}
    BY <1>1
  <2> QED BY <2>2, <2>3, <2>4
<1> QED BY <1>1, <1>2, <1>3 DEF longer

\* An empty sequence visits nothing.
LEMMA EmptyWalk == Visited(<< >>) = {} /\ Len(<< >>) = 0
BY DEF Visited

\* A walk meets no element twice, so it is no longer than there are elements.
LEMMA WalkIsShort ==
    ASSUME NEW D, NEW next, IsPath(next, D), NEW settled, NEW walk, IsWalk(next, D, settled, walk)
    PROVE  Len(walk) <= Cardinality(D)
<1> DEFINE places == 1 .. Len(walk)
<1>1. Len(walk) \in Nat /\ IsFiniteSet(places) /\ Cardinality(places) = Len(walk)
  BY NumbersUpTo DEF IsWalk
<1>2. \A i, j \in places : walk[i] = walk[j] => i = j
  BY DEF IsWalk
<1> HIDE DEF places
<1>3. Cardinality({walk[i] : i \in places}) = Len(walk)
  BY <1>1, <1>2, SameNumber
<1>4. {walk[i] : i \in places} \in SUBSET D
  BY DEF IsWalk, places
<1> QED BY <1>3, <1>4, PartIsFinite DEF IsPath

\* From its last element a walk goes on to one that is neither settled nor its own.
LEMMA WalkGoesOn ==
    ASSUME NEW D, NEW next, NEW settled, NEW walk, IsWalk(next, D, settled, walk),
           NEW x \in D, x \in next[walk[Len(walk)]], x \notin settled, x \notin Visited(walk)
    PROVE  IsWalk(next, D, settled, Append(walk, x))
<1> DEFINE m == Len(walk)
           longer == Append(walk, x)
<1>1. walk \in Seq(D) /\ m \in Nat /\ m >= 1 /\ \A i \in 1 .. m : walk[i] # x
  BY DEF IsWalk, Visited
<1>2. /\ longer \in Seq(D) /\ longer # << >> /\ Len(longer) = m + 1 /\ longer[m + 1] = x
      /\ \A i \in 1 .. m : longer[i] = walk[i]
  BY <1>1, Appended
<1> HIDE DEF longer
<1>3. \A i \in 1 .. m + 1 : i \in 1 .. m \/ i = m + 1
  BY <1>1
<1>4. \A i \in 1 .. Len(longer) : longer[i] \notin settled
  BY <1>2, <1>3 DEF IsWalk
<1>5. \A i, j \in 1 .. Len(longer) : longer[i] = longer[j] => i = j
  BY <1>1, <1>2, <1>3 DEF IsWalk
<1>6. ASSUME NEW i \in 1 .. Len(longer) - 1 PROVE longer[i + 1] \in next[longer[i]]
  <2>1. CASE i = m
    BY <1>1, <1>2, <2>1
  <2>2. CASE i # m
    <3>1. i \in 1 .. m - 1 /\ i \in 1 .. m /\ i + 1 \in 1 .. m
      BY <1>1, <1>2, <2>2
    <3> QED BY <1>2, <3>1 DEF IsWalk
  <2> QED BY <2>1, <2>2
<1> QED BY <1>2, <1>4, <1>5, <1>6 DEF IsWalk, longer

\* An element that is not settled is a walk.
LEMMA WalkStarts ==
    ASSUME NEW D, NEW next, NEW settled, NEW x \in D, x \notin settled
    PROVE  IsWalk(next, D, settled, << x >>)
BY DEF IsWalk
=============================================================================
