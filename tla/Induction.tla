------------------------------ MODULE Induction ------------------------------
(***************************************************************************)
(* Facts that the proofs of several components need: the least-number      *)
(* principle, in a form without an operator parameter, what follows from   *)
(* it for recursively defined functions, and for the folds of the          *)
(* community modules, which take the positions of a sequence off a set     *)
(* from the greatest down.                                                 *)
(***************************************************************************)
EXTENDS TLAPS, FiniteSetTheorems, WellFoundedInduction, FiniteSetsExt, Gf2

\* A nonempty set of naturals has a least element: among the initial segments 0..(n-1)
\* of its members one is least by inclusion.
LEMMA LeastElement ==
  ASSUME NEW S \in SUBSET Nat, S # {}
  PROVE  \E m \in S : \A n \in S : m <= n
<1> DEFINE T == {0..(n - 1) : n \in S}
           R == StrictSubsetOrdering(Nat)
<1>1. \A n \in Nat : 0..(n - 1) \in FiniteSubsetsOf(Nat)
  <2> SUFFICES ASSUME NEW n \in Nat PROVE 0..(n - 1) \in FiniteSubsetsOf(Nat)
    OBVIOUS
  <2>1. IsFiniteSet(0..(n - 1)) /\ 0..(n - 1) \subseteq Nat
    BY FS_Interval
  <2> QED
    BY <2>1 DEF FiniteSubsetsOf
<1>2. T \subseteq FiniteSubsetsOf(Nat) /\ T # {}
  BY <1>1
<1>3. IsWellFoundedOn(R, FiniteSubsetsOf(Nat))
  BY FS_StrictSubsetOrderingWellFounded
<1> HIDE DEF T, R
<1>4. PICK U \in T : \A V \in T : ~(<<V, U>> \in R)
  BY <1>2, <1>3, WFMin
<1> USE DEF T, R
<1>5. PICK m \in S : U = 0..(m - 1)
  BY <1>4
<1>6. ASSUME NEW n \in S, n < m PROVE FALSE
  <2>1. 0..(n - 1) \subseteq 0..(m - 1) /\ n \in 0..(m - 1) /\ n \notin 0..(n - 1)
    BY <1>6
  <2>2. 0..(n - 1) \in SUBSET Nat /\ 0..(m - 1) \in SUBSET Nat
    BY <1>6
  <2>3. <<0..(n - 1), 0..(m - 1)>> \in StrictSubsetOrdering(Nat)
    BY <2>1, <2>2 DEF StrictSubsetOrdering
  <2> QED
    BY <2>3, <1>4, <1>5
<1> QED
  BY <1>6

\* Induction over an initial segment of the naturals, for a property given as the set of
\* numbers that have it.
LEMMA IntervalInduction ==
  ASSUME NEW n \in Nat, NEW S, 0 \in S,
         \A i \in 1..n : (i - 1) \in S => i \in S
  PROVE  0..n \subseteq S
<1> DEFINE T == (0..n) \ S
<1> SUFFICES ASSUME T # {} PROVE FALSE
  OBVIOUS
<1>1. PICK m \in T : \A k \in T : m <= k
  <2>1. T \in SUBSET Nat
    OBVIOUS
  <2> QED
    BY <2>1, LeastElement
<1>2. m \in 1..n /\ (m - 1) \in 0..n /\ m - 1 < m
  BY <1>1
<1>3. (m - 1) \in S
  BY <1>1, <1>2
<1> QED
  BY <1>1, <1>2, <1>3

\* A subset of S is in T when it is there without any one of its elements.
Grows(S, T) == \A F \in SUBSET S : (\A x \in F : F \ {x} \in T) => F \in T

\* Induction over the subsets of a finite set, for a property given as the set of those
\* that have it.
LEMMA SubsetInduction ==
  ASSUME NEW S, IsFiniteSet(S), NEW T, Grows(S, T)
  PROVE  SUBSET S \subseteq T
<1> DEFINE B == (SUBSET S) \ T
           R == StrictSubsetOrdering(S)
<1> SUFFICES ASSUME B # {} PROVE FALSE
  OBVIOUS
<1>1. B \subseteq FiniteSubsetsOf(S)
  BY FS_Subset DEF FiniteSubsetsOf
<1>2. IsWellFoundedOn(R, FiniteSubsetsOf(S))
  BY FS_StrictSubsetOrderingWellFounded
<1> HIDE DEF B, R
<1>3. PICK U \in B : \A V \in B : ~(<<V, U>> \in R)
  BY <1>1, <1>2, WFMin
<1>4. ASSUME NEW x \in U PROVE U \ {x} \in T
  <2>1. U \ {x} \in SUBSET S /\ U \in SUBSET S /\ U \ {x} \subseteq U /\ U \ {x} # U
    BY DEF B
  <2>2. <<U \ {x}, U>> \in R
    BY <2>1 DEF R, StrictSubsetOrdering
  <2> QED
    BY <1>3, <2>1, <2>2 DEF B
<1> QED
  BY <1>3, <1>4 DEF B, Grows

\* A step function for each of 1..n, and the function over 0..n that starts from b and
\* takes these steps.  They are definitions so that the provers can match them.
IsStep(step, V, n) == step \in [1..n -> [V -> V]]
IsIterate(f, V, b, n, step) ==
  /\ f \in [0..n -> V]
  /\ f[0] = b
  /\ \A i \in 1..n : f[i] = step[i][f[i - 1]]

\* A function over 0..n is defined by its value at 0 and one step per number.
LEMMA IterateExists ==
  ASSUME NEW V, NEW b \in V, NEW n \in Nat, NEW step, IsStep(step, V, n)
  PROVE  \E f : IsIterate(f, V, b, n, step)
<1> DEFINE S == {m \in 0..n : \E f : IsIterate(f, V, b, m, step)}
<1>1. 0 \in S
  <2> DEFINE f == [i \in 0..0 |-> b]
  <2>1. IsIterate(f, V, b, 0, step)
    BY DEF IsIterate
  <2> QED
    BY <2>1
<1>2. ASSUME NEW m \in 1..n, (m - 1) \in S PROVE m \in S
  <2>1. PICK f : IsIterate(f, V, b, m - 1, step)
    BY <1>2
  <2> DEFINE g == [i \in 0..m |-> IF i = m THEN step[m][f[m - 1]] ELSE f[i]]
  <2>2. f \in [0..(m - 1) -> V] /\ f[m - 1] \in V /\ step[m] \in [V -> V]
    BY <2>1 DEF IsIterate, IsStep
  <2>3. g \in [0..m -> V]
    BY <2>2
  <2>4. g[0] = b
    BY <2>1 DEF IsIterate
  <2>5. ASSUME NEW i \in 1..m PROVE g[i] = step[i][g[i - 1]]
    <3>1. CASE i = m
      BY <3>1
    <3>2. CASE i # m
      <4>1. i \in 1..(m - 1) /\ i \in 0..m /\ (i - 1) \in 0..m /\ i - 1 # m
        BY <3>2
      <4>2. f[i] = step[i][f[i - 1]]
        BY <2>1, <4>1 DEF IsIterate
      <4>3. g[i] = f[i] /\ g[i - 1] = f[i - 1]
        BY <3>2, <4>1
      <4> QED
        BY <4>2, <4>3
    <3> QED
      BY <3>1, <3>2
  <2> HIDE DEF g
  <2>6. IsIterate(g, V, b, m, step)
    BY <2>3, <2>4, <2>5 DEF IsIterate
  <2> QED
    BY <2>6
<1> HIDE DEF S
<1>3. 0..n \subseteq S
  BY <1>1, <1>2, IntervalInduction
<1>4. n \in S
  BY <1>3
<1> QED
  BY <1>4 DEF S

\* Two iterations agree as long as their steps do.
LEMMA IteratesAgree ==
  ASSUME NEW V, NEW b, NEW n \in Nat, NEW m \in Nat, n <= m, NEW f, NEW g, NEW s, NEW t,
         IsIterate(f, V, b, n, s), IsIterate(g, V, b, m, t),
         \A i \in 1..n : s[i] = t[i]
  PROVE  \A i \in 0..n : f[i] = g[i]
<1> DEFINE S == {i \in 0..n : f[i] = g[i]}
<1>1. 0 \in S
  BY DEF IsIterate
<1>2. ASSUME NEW i \in 1..n, (i - 1) \in S PROVE i \in S
  BY <1>2 DEF IsIterate
<1> HIDE DEF S
<1>3. 0..n \subseteq S
  BY <1>1, <1>2, IntervalInduction
<1> QED
  BY <1>3 DEF S

-----------------------------------------------------------------------------
(* Positions of a sequence, and folds over sets of them.                   *)

\* A nonempty set of positions has a greatest one.
LEMMA GreatestElement ==
  ASSUME NEW n \in Nat, NEW S \in SUBSET (1..n), S # {}
  PROVE  \E m \in S : \A x \in S : m >= x
<1> DEFINE T == {n - x : x \in S}
<1>1. PICK k \in T : \A j \in T : k <= j
  <2>1. \A x \in S : n - x \in Nat
    OBVIOUS
  <2>2. T \in SUBSET Nat
    BY <2>1
  <2>3. T # {}
    OBVIOUS
  <2> HIDE DEF T
  <2> QED
    BY <2>2, <2>3, LeastElement
<1>2. PICK m \in S : k = n - m
  BY <1>1
<1>3. \A x \in S : n - m <= n - x
  BY <1>1, <1>2
<1>4. S \subseteq Int /\ m \in S
  OBVIOUS
<1>5. \A x \in S : m >= x
  <2> TAKE x \in S
  <2>1. m \in Int /\ x \in Int
    BY <1>4
  <2> QED
    BY <1>3, <2>1
<1> QED
  BY <1>5

\* Max of a nonempty set of positions is that greatest one.
LEMMA MaxOfPositions ==
  \A n \in Nat : \A S \in SUBSET (1..n) :
    S # {} => Max(S) \in S /\ Max(S) \in 1..n /\ \A x \in S : Max(S) >= x
<1> SUFFICES ASSUME NEW n \in Nat, NEW S \in SUBSET (1..n), S # {}
             PROVE  Max(S) \in S /\ \A x \in S : Max(S) >= x
  OBVIOUS
<1>1. \E m \in S : \A x \in S : m >= x
  BY GreatestElement
<1> QED
  BY <1>1 DEF Max

\* Min of a nonempty set of positions is one of them.
LEMMA MinOfPositions ==
  \A n \in Nat : \A S \in SUBSET (1..n) : S # {} => Min(S) \in S
<1> SUFFICES ASSUME NEW n \in Nat, NEW S \in SUBSET (1..n), S # {} PROVE Min(S) \in S
  OBVIOUS
<1>1. \E m \in S : \A x \in S : m <= x
  <2>1. S \in SUBSET Nat
    OBVIOUS
  <2> QED
    BY <2>1, LeastElement
<1> QED
  BY <1>1 DEF Min

\* The greatest of the first positions is their number.
LEMMA MaxOfInterval ==
  \A n \in Nat : \A i \in 1..n :
    /\ Max(1..i) = i
    /\ 1..i \in SUBSET (1..n) /\ 1..i # {} /\ (1..i) \ {i} = 1..(i - 1)
<1> SUFFICES ASSUME NEW n \in Nat, NEW i \in 1..n
             PROVE  /\ Max(1..i) = i
                    /\ 1..i \in SUBSET (1..n) /\ 1..i # {} /\ (1..i) \ {i} = 1..(i - 1)
  OBVIOUS
<1>1. 1..i \in SUBSET (1..n) /\ i \in 1..i /\ (1..i) \ {i} = 1..(i - 1)
  OBVIOUS
<1>2. Max(1..i) \in 1..i /\ Max(1..i) \in 1..n /\ \A x \in 1..i : Max(1..i) >= x
  BY <1>1, MaxOfPositions
<1>3. Max(1..i) >= i
  BY <1>1, <1>2
<1>4. Max(1..i) = i
  BY <1>2, <1>3
<1> QED
  BY <1>1, <1>4

\* A fold over the sets of positions of a sequence of length n.
IsFold(g, V, b, n, step) ==
  /\ g \in [SUBSET (1..n) -> V]
  /\ g[{}] = b
  /\ \A S \in SUBSET (1..n) : S # {} => g[S] = step[Max(S)][g[S \ {Max(S)}]]

\* The recursion of a fold has a solution.
LEMMA FoldExists ==
  ASSUME NEW V, NEW b \in V, NEW n \in Nat, NEW step, IsStep(step, V, n)
  PROVE  \E g : IsFold(g, V, b, n, step)
<1> DEFINE D == {m \in 0..n : \E g : IsFold(g, V, b, m, step)}
<1>1. 0 \in D
  <2> DEFINE g == [S \in SUBSET (1..0) |-> b]
  <2>1. SUBSET (1..0) = {{}}
    OBVIOUS
  <2>2. g \in [SUBSET (1..0) -> V] /\ g[{}] = b
    BY <2>1
  <2>3. \A S \in SUBSET (1..0) : S = {}
    BY <2>1
  <2> HIDE DEF g
  <2>4. IsFold(g, V, b, 0, step)
    BY <2>2, <2>3 DEF IsFold
  <2> QED
    BY <2>4
<1>2. ASSUME NEW m \in 1..n, (m - 1) \in D PROVE m \in D
  <2>1. PICK g : IsFold(g, V, b, m - 1, step)
    BY <1>2
  <2> DEFINE h == [S \in SUBSET (1..m) |-> IF m \in S THEN step[m][g[S \ {m}]] ELSE g[S]]
  <2>2. \A S \in SUBSET (1..m) : S \ {m} \in SUBSET (1..(m - 1))
    OBVIOUS
  <2>3. step[m] \in [V -> V] /\ g \in [SUBSET (1..(m - 1)) -> V]
    BY <2>1 DEF IsStep, IsFold
  <2>4. \A S \in SUBSET (1..m) : m \notin S => S \in SUBSET (1..(m - 1)) /\ h[S] = g[S]
    OBVIOUS
  <2>5. h \in [SUBSET (1..m) -> V]
    BY <2>2, <2>3, <2>4
  <2>6. h[{}] = b
    BY <2>1 DEF IsFold
  <2>7. ASSUME NEW S \in SUBSET (1..m), S # {} PROVE h[S] = step[Max(S)][h[S \ {Max(S)}]]
    <3>1. Max(S) \in S /\ Max(S) \in 1..m /\ \A x \in S : Max(S) >= x
      <4>1. m \in Nat
        OBVIOUS
      <4> QED
        BY <2>7, <4>1, MaxOfPositions
    <3>2. CASE m \in S
      <4>1. Max(S) >= m
        BY <3>1, <3>2
      <4>2. Max(S) = m
        BY <3>1, <4>1
      <4>3. S \ {m} \in SUBSET (1..m) /\ m \notin S \ {m}
        OBVIOUS
      <4>4. h[S \ {m}] = g[S \ {m}]
        BY <2>4, <4>3
      <4> QED
        BY <3>2, <4>2, <4>4
    <3>3. CASE m \notin S
      <4>1. S \in SUBSET (1..(m - 1)) /\ h[S] = g[S]
        BY <2>4, <3>3
      <4>2. S \ {Max(S)} \in SUBSET (1..m) /\ m \notin S \ {Max(S)}
        BY <3>3
      <4>3. h[S \ {Max(S)}] = g[S \ {Max(S)}]
        BY <2>4, <4>2
      <4>4. g[S] = step[Max(S)][g[S \ {Max(S)}]]
        BY <2>1, <2>7, <4>1 DEF IsFold
      <4> QED
        BY <4>1, <4>3, <4>4
    <3> QED
      BY <3>2, <3>3
  <2> HIDE DEF h
  <2>8. IsFold(h, V, b, m, step)
    BY <2>5, <2>6, <2>7 DEF IsFold
  <2> QED
    BY <2>8
<1> HIDE DEF D
<1>3. 0..n \subseteq D
  BY <1>1, <1>2, IntervalInduction
<1>4. n \in D
  BY <1>3
<1> QED
  BY <1>4 DEF D

-----------------------------------------------------------------------------
(* Numbering a finite set.                                                 *)

\* In a finite set whose members have different sets of members below them, one inside
\* the other, how many are below a member numbers the set.
Numbers(S, below) ==
  /\ \A x \in S : Cardinality(below[x]) + 1 \in 1 .. Cardinality(S)
  /\ \A x, y \in S : Cardinality(below[x]) = Cardinality(below[y]) => x = y
  /\ \A k \in 1 .. Cardinality(S) : \E x \in S : Cardinality(below[x]) = k - 1

LEMMA RanksNumber ==
  ASSUME NEW S, IsFiniteSet(S), NEW below \in [S -> SUBSET S],
         \A x \in S : x \notin below[x],
         \A x, y \in S : x # y => \/ x \in below[y] /\ below[x] \subseteq below[y]
                                  \/ y \in below[x] /\ below[y] \subseteq below[x]
  PROVE  Numbers(S, below)
<1> DEFINE n == Cardinality(S)
           rank == [x \in S |-> Cardinality(below[x]) + 1]
<1>1. n \in Nat
  BY FS_CardinalityType
<1>2. ASSUME NEW x \in S PROVE below[x] \in SUBSET S /\ IsFiniteSet(below[x]) /\ Cardinality(below[x]) \in Nat
  <2>1. below[x] \in SUBSET S
    OBVIOUS
  <2>2. IsFiniteSet(below[x])
    BY <2>1, FS_Subset
  <2> QED
    BY <2>1, <2>2, FS_CardinalityType
<1>3. ASSUME NEW x \in S PROVE Cardinality(below[x]) + 1 \in 1 .. n
  <2> DEFINE B == below[x]
             c == Cardinality(B)
  <2>1. c <= n /\ (n = c => S = B)
    BY <1>2, FS_Subset
  <2>2. S # B /\ c \in Nat
    BY <1>2
  <2> HIDE DEF B, c, n
  <2>3. c + 1 \in 1 .. n
    BY <1>1, <2>1, <2>2
  <2> QED
    BY <2>3 DEF B, c
<1>4. ASSUME NEW x \in S, NEW y \in S, x \in below[y], below[x] \subseteq below[y]
      PROVE  Cardinality(below[x]) # Cardinality(below[y])
  <2> DEFINE A == below[x]
             B == below[y]
  <2>1. IsFiniteSet(B) /\ A \in SUBSET B /\ A # B
    BY <1>2, <1>4
  <2> HIDE DEF A, B
  <2>2. Cardinality(B) = Cardinality(A) => B = A
    BY <2>1, FS_Subset
  <2> QED
    BY <2>1, <2>2 DEF A, B
<1>5. ASSUME NEW x \in S, NEW y \in S, Cardinality(below[x]) = Cardinality(below[y]) PROVE x = y
  BY <1>4, <1>5
<1>6. rank \in [S -> 1 .. n] /\ \A x \in S : rank[x] = Cardinality(below[x]) + 1
  <2>1. \A x \in S : Cardinality(below[x]) + 1 \in 1 .. n
    BY <1>3
  <2> HIDE DEF n
  <2> QED
    BY <2>1
<1> HIDE DEF rank
<1>7. rank \in Injection(S, 1 .. n)
  <2>1. ASSUME NEW x \in S, NEW y \in S, rank[x] = rank[y] PROVE x = y
    <3>1. Cardinality(below[x]) + 1 = Cardinality(below[y]) + 1
      BY <1>6, <2>1
    <3> DEFINE a == Cardinality(below[x])
               b == Cardinality(below[y])
    <3>2. a \in Nat /\ b \in Nat /\ a + 1 = b + 1
      BY <1>2, <3>1
    <3> HIDE DEF a, b
    <3>3. a = b
      BY <3>2
    <3> QED
      BY <3>3, <1>5 DEF a, b
  <2>2. DOMAIN rank = S
    BY <1>6
  <2> HIDE DEF n
  <2> QED
    BY <1>6, <2>1, <2>2 DEF Injection, IsInjective
<1>8. IsFiniteSet(1 .. n) /\ Cardinality(1 .. n) = n
  <2> HIDE DEF n
  <2>1. IsFiniteSet(1 .. n) /\ Cardinality(1 .. n) = IF 1 > n THEN 0 ELSE n - 1 + 1
    BY <1>1, FS_Interval
  <2> QED
    BY <1>1, <2>1
<1>9. rank \in Surjection(S, 1 .. n)
  BY <1>7, <1>8, FS_Injection
<1>10. ASSUME NEW k \in 1 .. n PROVE \E x \in S : Cardinality(below[x]) = k - 1
  <2>1. PICK x \in S : rank[x] = k
    BY <1>9 DEF Surjection
  <2> DEFINE a == Cardinality(below[x])
  <2>2. a \in Nat /\ a + 1 = k
    BY <1>2, <1>6, <2>1
  <2> HIDE DEF a, n
  <2>3. a = k - 1
    BY <1>1, <2>2
  <2> QED
    BY <2>3 DEF a
<1> QED
  BY <1>3, <1>5, <1>10 DEF Numbers

-----------------------------------------------------------------------------
(* Quotients and remainders.                                               *)

\* A number q * n + r has the quotient q and the remainder r.
LEMMA DivMod ==
  ASSUME NEW n \in Nat \ {0}, NEW q \in Int, NEW r \in 0 .. n - 1
  PROVE  (q * n + r) \div n = q /\ (q * n + r) % n = r
OBVIOUS

\* Every number is of this form.
LEMMA DivModOf ==
  ASSUME NEW n \in Nat \ {0}, NEW a \in Nat
  PROVE  /\ a \div n \in Nat /\ a % n \in 0 .. n - 1
         /\ a = (a \div n) * n + (a % n)
OBVIOUS

-----------------------------------------------------------------------------
(* Sums over sets.                                                         *)

\* What a sum over the elements of a set unfolds to, one arbitrary element after the
\* other.
Some(s) == CHOOSE a \in s : TRUE
Unfold(w, S, g) == [s \in SUBSET S |-> IF s = {} THEN 0 ELSE w[Some(s)] + g[s \ {Some(s)}]]

\* The unfolding of a sum over a finite set has a solution: it is reached from any
\* start after as many steps as the set has elements.
LEMMA SumExists ==
  ASSUME NEW S, IsFiniteSet(S), NEW w, \A a \in S : w[a] \in Int
  PROVE  \E g \in [SUBSET S -> Int] : g = Unfold(w, S, g)
<1> DEFINE V == [SUBSET S -> Int]
           N == Cardinality(S) + 1
           step == [k \in 1 .. N |-> [g \in V |-> Unfold(w, S, g)]]
           zero == [s \in SUBSET S |-> 0]
<1>1. N \in Nat /\ N \in 1 .. N /\ N - 1 \in 0 .. N /\ N - 1 = Cardinality(S)
  BY FS_CardinalityType
<1>2. ASSUME NEW s \in SUBSET S
      PROVE  /\ IsFiniteSet(s) /\ Cardinality(s) \in Nat /\ Cardinality(s) <= Cardinality(S)
             /\ s # {} => /\ Some(s) \in S /\ s \ {Some(s)} \in SUBSET S
                          /\ Cardinality(s \ {Some(s)}) = Cardinality(s) - 1
             /\ Cardinality(s) = 0 => s = {}
  <2>1. IsFiniteSet(s) /\ Cardinality(s) \in Nat /\ Cardinality(s) <= Cardinality(S)
    BY FS_Subset, FS_CardinalityType
  <2>2. s # {} => Some(s) \in s
    BY DEF Some
  <2>3. s # {} => Cardinality(s \ {Some(s)}) = Cardinality(s) - 1
    BY <2>1, <2>2, FS_RemoveElement
  <2>4. Cardinality(s) = 0 => s = {}
    BY <2>1, FS_EmptySet
  <2> QED
    BY <2>1, <2>2, <2>3, <2>4
<1>3. \A g \in V : Unfold(w, S, g) \in V
  <2> SUFFICES ASSUME NEW g \in V, NEW s \in SUBSET S
               PROVE  (IF s = {} THEN 0 ELSE w[Some(s)] + g[s \ {Some(s)}]) \in Int
    BY DEF Unfold
  <2>1. CASE s = {}
    BY <2>1
  <2>2. CASE s # {}
    <3>1. w[Some(s)] \in Int /\ g[s \ {Some(s)}] \in Int
      BY <1>2, <2>2
    <3> QED
      BY <3>1, <2>2
  <2> QED
    BY <2>1, <2>2
<1>4. PICK f : IsIterate(f, V, zero, N, step)
  <2>1. zero \in V
    OBVIOUS
  <2>2. IsStep(step, V, N)
    <3> HIDE DEF V
    <3> QED
      BY <1>3 DEF IsStep
  <2> HIDE DEF zero, V, N, step
  <2> QED
    BY <1>1, <2>1, <2>2, IterateExists
<1>5. /\ f \in [0 .. N -> V] /\ f[0] = zero
      /\ \A i \in 1 .. N : f[i] = Unfold(w, S, f[i - 1])
  <2>1. f \in [0 .. N -> V] /\ f[0] = zero /\ \A i \in 1 .. N : f[i] = step[i][f[i - 1]]
    BY <1>4 DEF IsIterate
  <2>2. \A i \in 1 .. N : i - 1 \in 0 .. N
    BY <1>1
  <2> HIDE DEF V, zero
  <2> QED
    BY <2>1, <2>2
<1> HIDE DEF V, step, zero
<1>13. \A i \in 0 .. N, s \in SUBSET S : i = 0 => f[i][s] = 0
  BY <1>5 DEF zero
<1> DEFINE Agree(i) == \A s \in SUBSET S : Cardinality(s) < i => f[i][s] = f[i - 1][s]
           T == {i \in 0 .. N : i = 0 \/ Agree(i)}
<1>6. 0 \in T
  BY <1>1
<1>7. ASSUME NEW i \in 1 .. N, i - 1 \in T PROVE i \in T
  <2> SUFFICES ASSUME NEW s \in SUBSET S, Cardinality(s) < i PROVE f[i][s] = f[i - 1][s]
    BY <1>1
  <2> DEFINE p == Some(s)
             r == s \ {p}
  <2>0. i \in Nat /\ i - 1 \in 0 .. N /\ Cardinality(s) \in Nat
    <3>1. Cardinality(s) \in Nat
      BY <1>2
    <3> HIDE DEF N
    <3> QED
      BY <1>1, <3>1
  <2>1. f[i][s] = IF s = {} THEN 0 ELSE w[p] + f[i - 1][r]
    BY <1>5 DEF Unfold
  <2>2. CASE i = 1
    <3>1. Cardinality(s) = 0
      BY <2>0, <2>2
    <3>2. s = {}
      BY <1>2, <3>1
    <3>3. 0 \in 0 .. N
      BY <1>1
    <3>4. f[i - 1][s] = 0
      BY <1>13, <2>2, <3>3
    <3> QED
      BY <2>1, <3>2, <3>4
  <2>3. CASE i # 1
    <3>1. i - 1 \in 1 .. N /\ i - 1 # 0
      BY <2>0, <2>3, <1>1
    <3>2. f[i - 1][s] = IF s = {} THEN 0 ELSE w[p] + f[i - 1 - 1][r]
      <4>1. f[i - 1] = Unfold(w, S, f[i - 1 - 1])
        BY <1>5, <3>1
      <4> QED
        BY <4>1 DEF Unfold
    <3>3. CASE s = {}
      BY <2>1, <3>2, <3>3
    <3>4. CASE s # {}
      <4>1. r \in SUBSET S /\ Cardinality(r) = Cardinality(s) - 1
        BY <1>2, <3>4
      <4>2. Agree(i - 1)
        BY <1>7, <3>1
      <4> HIDE DEF r, p
      <4>3. Cardinality(r) < i - 1
        BY <4>1, <2>0
      <4>4. f[i - 1][r] = f[i - 1 - 1][r]
        BY <4>1, <4>2, <4>3
      <4> QED
        BY <2>1, <3>2, <4>4
    <3> QED
      BY <3>3, <3>4
  <2> QED
    BY <2>2, <2>3
<1>8. Agree(N)
  <2> HIDE DEF T, N
  <2>1. 0 .. N \subseteq T
    BY <1>1, <1>6, <1>7, IntervalInduction
  <2>2. N \in T
    BY <1>1, <2>1
  <2>3. N # 0
    BY <1>1
  <2> QED
    BY <2>2, <2>3 DEF T
<1> DEFINE g == f[N - 1]
<1>9. g \in V
  BY <1>1, <1>5
<1>10. \A s \in SUBSET S : Cardinality(s) < N
  <2> TAKE s \in SUBSET S
  <2> DEFINE c == Cardinality(s)
             d == Cardinality(S)
  <2>1. c \in Nat /\ c <= d /\ d \in Nat
    BY <1>2, FS_CardinalityType
  <2> HIDE DEF c, d
  <2> QED
    BY <2>1 DEF c, d
<1>11. f[N] = g
  <2>1. f[N] \in V
    <3>1. N \in 0 .. N
      BY <1>1
    <3> HIDE DEF N
    <3> QED
      BY <1>5, <3>1
  <2>2. \A s \in SUBSET S : f[N][s] = g[s]
    BY <1>8, <1>10
  <2> HIDE DEF g, N
  <2> QED
    BY <1>9, <2>1, <2>2 DEF V
<1>12. f[N] = Unfold(w, S, g)
  BY <1>1, <1>5
<1> HIDE DEF g
<1> QED
  BY <1>9, <1>11, <1>12 DEF V

Total(w, S) == MapThenSumSet(LAMBDA a : w[a], S)

LEMMA SumUnfolds ==
  ASSUME NEW S, IsFiniteSet(S), NEW w, \A a \in S : w[a] \in Int
  PROVE  \E h : h = Unfold(w, S, h) /\ Total(w, S) = h[S]
<1> DEFINE Rec(g) == [s \in SUBSET S |-> IF s = {} THEN 0 ELSE w[Some(s)] + g[s \ {Some(s)}]]
           h == CHOOSE g : g = Rec(g)
<1>1. \A g : Unfold(w, S, g) = Rec(g)
  BY DEF Unfold
<1>2. \E g : g = Rec(g)
  <2>1. PICK g \in [SUBSET S -> Int] : g = Unfold(w, S, g)
    BY SumExists
  <2> HIDE DEF Rec
  <2> QED
    BY <1>1, <2>1
<1>3. h = Unfold(w, S, h)
  <2> HIDE DEF Rec
  <2>1. h = Rec(h)
    BY <1>2
  <2> QED
    BY <1>1, <2>1
<1>4. Total(w, S) = h[S]
  BY DEF Total, MapThenSumSet, MapThenFoldSet, Some
<1> HIDE DEF h
<1> QED
  BY <1>3, <1>4

\* A sum over a finite set whose terms are in a set closed under addition.
LEMMA SumIn ==
  ASSUME NEW S, IsFiniteSet(S), NEW w, NEW N \in SUBSET Int, 0 \in N,
         \A i, j \in N : i + j \in N, \A a \in S : w[a] \in N
  PROVE  Total(w, S) \in N
<1>1. PICK h : h = Unfold(w, S, h) /\ Total(w, S) = h[S]
  <2>1. \A a \in S : w[a] \in Int
    OBVIOUS
  <2> QED
    BY <2>1, SumUnfolds
<1> DEFINE T == {s \in SUBSET S : h[s] \in N}
<1>2. \A F \in SUBSET S : (\A x \in F : F \ {x} \in T) => F \in T
  <2> SUFFICES ASSUME NEW F \in SUBSET S, \A x \in F : F \ {x} \in T PROVE F \in T
    OBVIOUS
  <2>1. h[F] = IF F = {} THEN 0 ELSE w[Some(F)] + h[F \ {Some(F)}]
    BY <1>1 DEF Unfold
  <2>2. CASE F = {}
    BY <2>1, <2>2
  <2>3. CASE F # {}
    <3>1. Some(F) \in F
      BY <2>3 DEF Some
    <3>2. w[Some(F)] \in N /\ h[F \ {Some(F)}] \in N
      BY <3>1
    <3> QED
      BY <2>1, <2>3, <3>2
  <2> QED
    BY <2>2, <2>3
<1>3. SUBSET S \subseteq T
  <2> HIDE DEF T
  <2>1. Grows(S, T)
    BY <1>2 DEF Grows
  <2> QED
    BY <2>1, SubsetInduction
<1> QED
  BY <1>1, <1>3

LEMMA SumIsInteger ==
  ASSUME NEW S, IsFiniteSet(S), NEW w, \A a \in S : w[a] \in Int
  PROVE  Total(w, S) \in Int
<1>1. Int \in SUBSET Int /\ 0 \in Int /\ \A i, j \in Int : i + j \in Int
  OBVIOUS
<1> QED
  BY <1>1, SumIn

\* The sum of a subset by the unfolding of the whole.
LEMMA SumOfSubset ==
  ASSUME NEW S, IsFiniteSet(S), NEW w, \A a \in S : w[a] \in Int,
         NEW h, h = Unfold(w, S, h), NEW F \in SUBSET S
  PROVE  Total(w, F) = h[F]
<1>1. IsFiniteSet(F) /\ \A a \in F : w[a] \in Int
  BY FS_Subset
<1>2. PICK g : g = Unfold(w, F, g) /\ Total(w, F) = g[F]
  BY <1>1, SumUnfolds
<1> DEFINE T == {G \in SUBSET F : g[G] = h[G]}
<1>3. \A G \in SUBSET F : (\A x \in G : G \ {x} \in T) => G \in T
  <2> SUFFICES ASSUME NEW G \in SUBSET F, \A x \in G : G \ {x} \in T PROVE g[G] = h[G]
    OBVIOUS
  <2>1. g[G] = IF G = {} THEN 0 ELSE w[Some(G)] + g[G \ {Some(G)}]
    BY <1>2 DEF Unfold
  <2>2. h[G] = IF G = {} THEN 0 ELSE w[Some(G)] + h[G \ {Some(G)}]
    <3>1. G \in SUBSET S
      OBVIOUS
    <3> QED
      BY <3>1 DEF Unfold
  <2>3. G # {} => Some(G) \in G
    BY DEF Some
  <2> QED
    BY <2>1, <2>2, <2>3
<1>4. SUBSET F \subseteq T
  <2> HIDE DEF T
  <2>1. Grows(F, T)
    BY <1>3 DEF Grows
  <2> QED
    BY <1>1, <2>1, SubsetInduction
<1>5. F \in T
  <2> HIDE DEF T
  <2> QED
    BY <1>4
<1> QED
  BY <1>2, <1>5

\* A sum is any one of its terms and the sum of the others.
LEMMA SumAdds ==
  ASSUME NEW S, IsFiniteSet(S), NEW w, \A a \in S : w[a] \in Int, NEW b \in S
  PROVE  Total(w, S) = w[b] + Total(w, S \ {b})
<1>1. PICK h : h = Unfold(w, S, h)
  BY SumUnfolds
<1>2. \A F \in SUBSET S : Total(w, F) = h[F] /\ h[F] \in Int
  <2> SUFFICES ASSUME NEW F \in SUBSET S PROVE Total(w, F) = h[F] /\ h[F] \in Int
    OBVIOUS
  <2>1. Total(w, F) = h[F]
    BY <1>1, SumOfSubset
  <2>2. IsFiniteSet(F) /\ \A a \in F : w[a] \in Int
    BY FS_Subset
  <2>3. Total(w, F) \in Int
    BY <2>2, SumIsInteger
  <2> QED
    BY <2>1, <2>3
<1> DEFINE T == {F \in SUBSET S : \A a \in F : h[F] = w[a] + h[F \ {a}]}
<1>3. \A F \in SUBSET S : (\A x \in F : F \ {x} \in T) => F \in T
  <2> SUFFICES ASSUME NEW F \in SUBSET S, \A x \in F : F \ {x} \in T, NEW a \in F
               PROVE  h[F] = w[a] + h[F \ {a}]
    OBVIOUS
  <2> DEFINE c == Some(F)
  <2>1. c \in F
    BY DEF Some
  <2>2. h[F] = w[c] + h[F \ {c}]
    BY <1>1 DEF Unfold
  <2> HIDE DEF c
  <2>3. CASE a = c
    BY <2>2, <2>3
  <2>4. CASE a # c
    <3>1. h[F \ {c}] = w[a] + h[(F \ {c}) \ {a}]
      BY <2>1, <2>4
    <3>2. h[F \ {a}] = w[c] + h[(F \ {a}) \ {c}]
      BY <2>1, <2>4
    <3>3. (F \ {a}) \ {c} = (F \ {c}) \ {a}
      OBVIOUS
    <3>4. w[a] \in Int /\ w[c] \in Int /\ h[(F \ {c}) \ {a}] \in Int
      <4>1. (F \ {c}) \ {a} \in SUBSET S /\ a \in S /\ c \in S
        BY <2>1
      <4> QED
        BY <1>2, <4>1
    <3> DEFINE rest == h[(F \ {c}) \ {a}]
    <3>5. h[F \ {a}] = w[c] + rest
      BY <3>2, <3>3
    <3> HIDE DEF rest
    <3> QED
      BY <2>2, <3>1, <3>4, <3>5 DEF rest
  <2> QED
    BY <2>3, <2>4
<1>4. SUBSET S \subseteq T
  <2> HIDE DEF T
  <2>1. Grows(S, T)
    BY <1>3 DEF Grows
  <2> QED
    BY <2>1, SubsetInduction
<1>5. S \in T
  <2> HIDE DEF T
  <2> QED
    BY <1>4
<1>6. h[S] = w[b] + h[S \ {b}]
  BY <1>5
<1> QED
  BY <1>2, <1>6

\* A sum depends on its terms only.
LEMMA SumsAgree ==
  ASSUME NEW S, IsFiniteSet(S), NEW w, \A a \in S : w[a] \in Int,
         NEW u, \A a \in S : u[a] = w[a]
  PROVE  Total(u, S) = Total(w, S)
<1>1. PICK g : g = Unfold(w, S, g) /\ Total(w, S) = g[S]
  BY SumUnfolds
<1>2. PICK h : h = Unfold(u, S, h) /\ Total(u, S) = h[S]
  BY SumUnfolds
<1> DEFINE T == {F \in SUBSET S : h[F] = g[F]}
<1>3. \A F \in SUBSET S : (\A x \in F : F \ {x} \in T) => F \in T
  <2> SUFFICES ASSUME NEW F \in SUBSET S, \A x \in F : F \ {x} \in T PROVE h[F] = g[F]
    OBVIOUS
  <2>1. g[F] = IF F = {} THEN 0 ELSE w[Some(F)] + g[F \ {Some(F)}]
    BY <1>1 DEF Unfold
  <2>2. h[F] = IF F = {} THEN 0 ELSE u[Some(F)] + h[F \ {Some(F)}]
    BY <1>2 DEF Unfold
  <2>3. F # {} => Some(F) \in F
    BY DEF Some
  <2> QED
    BY <2>1, <2>2, <2>3
<1>4. SUBSET S \subseteq T
  <2> HIDE DEF T
  <2>1. Grows(S, T)
    BY <1>3 DEF Grows
  <2> QED
    BY <2>1, SubsetInduction
<1> QED
  BY <1>1, <1>2, <1>4

\* A sum whose terms are at most m each, and zero outside F.
LEMMA SumBounded ==
  ASSUME NEW S, IsFiniteSet(S), NEW m \in Nat, NEW w, \A a \in S : w[a] \in -m..m,
         NEW F \in SUBSET S, \A a \in S \ F : w[a] = 0
  PROVE  /\ Total(w, S) \in Int /\ Cardinality(F) \in Nat
         /\ -(m * Cardinality(F)) <= Total(w, S) /\ Total(w, S) <= m * Cardinality(F)
<1> DEFINE T == {G \in SUBSET S : /\ Total(w, G) \in Int
                                  /\ -(m * Cardinality(G \cap F)) <= Total(w, G)
                                  /\ Total(w, G) <= m * Cardinality(G \cap F)}
<1>1. \A G \in SUBSET S : IsFiniteSet(G) /\ IsFiniteSet(G \cap F) /\ Cardinality(G \cap F) \in Nat
  <2> SUFFICES ASSUME NEW G \in SUBSET S
               PROVE  IsFiniteSet(G) /\ IsFiniteSet(G \cap F) /\ Cardinality(G \cap F) \in Nat
    OBVIOUS
  <2>1. IsFiniteSet(G)
    BY FS_Subset
  <2>2. IsFiniteSet(G \cap F)
    BY <2>1, FS_Subset
  <2> QED
    BY <2>1, <2>2, FS_CardinalityType
<1>2. \A a \in S : w[a] \in Int /\ w[a] <= m /\ -m <= w[a]
  OBVIOUS
<1>3. ASSUME NEW G \in SUBSET S, \A x \in G : G \ {x} \in T PROVE G \in T
  <2>1. CASE G = {}
    <3>1. Cardinality(G \cap F) = 0
      BY <2>1, FS_EmptySet
    <3>2. Total(w, G) \in {0}
      <4>1. {0} \in SUBSET Int /\ 0 \in {0} /\ (\A i, k \in {0} : i + k \in {0}) /\ \A a \in G : w[a] \in {0}
        BY <2>1
      <4> QED
        BY <1>1, <4>1, SumIn
    <3> QED
      BY <3>1, <3>2
  <2>2. CASE G # {}
    <3>1. PICK x \in G : TRUE
      BY <2>2
    <3> DEFINE H == G \ {x}
               t == Total(w, H)
               k == Cardinality(H \cap F)
               l == Cardinality(G \cap F)
    <3>2. t \in Int /\ -(m * k) <= t /\ t <= m * k
      BY <1>3, <3>1
    <3>3. Total(w, G) = w[x] + t
      <4>1. \A a \in G : w[a] \in Int
        BY <1>2
      <4> QED
        BY <1>1, <3>1, <4>1, SumAdds
    <3>4. k \in Nat /\ l \in Nat /\ m * k \in Int /\ m * l \in Int
      <4>1. k \in Nat /\ l \in Nat
        BY <1>1
      <4> HIDE DEF k, l
      <4> QED
        BY <4>1
    <3>5. CASE x \in F
      <4>1. H \cap F = (G \cap F) \ {x} /\ x \in G \cap F
        BY <3>1, <3>5
      <4>2. k = l - 1
        <5>1. IsFiniteSet(G \cap F)
          BY <1>1, FS_Subset
        <5>2. Cardinality((G \cap F) \ {x}) = Cardinality(G \cap F) - 1
          BY <4>1, <5>1, FS_RemoveElement
        <5> QED
          BY <4>1, <5>2
      <4> HIDE DEF k, l, t, H
      <4>3. m * k = m * l - m
        BY <3>4, <4>2
      <4>4. w[x] \in Int /\ w[x] <= m /\ -m <= w[x]
        BY <1>2, <3>1
      <4> DEFINE p == m * k
                 q == m * l
      <4>5. t \in Int /\ -p <= t /\ t <= p /\ p = q - m /\ p \in Int /\ q \in Int
        BY <3>2, <3>4, <4>3
      <4> HIDE DEF p, q
      <4>6. w[x] + t \in Int /\ -q <= w[x] + t /\ w[x] + t <= q
        BY <4>4, <4>5
      <4> QED
        BY <3>3, <4>6 DEF q, l
    <3>6. CASE x \notin F
      <4>1. H \cap F = G \cap F
        BY <3>6
      <4>2. w[x] = 0
        BY <3>1, <3>6
      <4>3. Total(w, G) = t
        BY <3>2, <3>3, <4>2
      <4> QED
        BY <3>2, <4>1, <4>3
    <3> QED
      BY <3>5, <3>6
  <2> QED
    BY <2>1, <2>2
<1>4. S \in T
  <2> HIDE DEF T
  <2>1. Grows(S, T)
    BY <1>3 DEF Grows
  <2> QED
    BY <2>1, SubsetInduction
<1>5. S \cap F = F /\ F \cap F = F
  OBVIOUS
<1>6. Cardinality(F) \in Nat
  BY <1>1, <1>5
<1> QED
  BY <1>4, <1>5, <1>6

\* Counting a finite set class by class.
LEMMA SumCounts ==
  ASSUME NEW S, IsFiniteSet(S), NEW D, IsFiniteSet(D), NEW class \in [D -> S],
         NEW w, \A a \in S : w[a] = Cardinality({x \in D : class[x] = a})
  PROVE  Total(w, S) = Cardinality(D)
<1> DEFINE Of(F) == {x \in D : class[x] \in F}
<1>1. \A F \in SUBSET S : IsFiniteSet(Of(F)) /\ Cardinality(Of(F)) \in Nat
  <2> SUFFICES ASSUME NEW F \in SUBSET S PROVE IsFiniteSet(Of(F)) /\ Cardinality(Of(F)) \in Nat
    OBVIOUS
  <2>1. IsFiniteSet(Of(F))
    BY FS_Subset
  <2> QED
    BY <2>1, FS_CardinalityType
<1>2. \A a \in S : w[a] = Cardinality(Of({a})) /\ w[a] \in Int
  <2> SUFFICES ASSUME NEW a \in S PROVE w[a] = Cardinality(Of({a})) /\ w[a] \in Int
    OBVIOUS
  <2>1. Of({a}) = {x \in D : class[x] = a} /\ {a} \in SUBSET S
    OBVIOUS
  <2> HIDE DEF Of
  <2>2. w[a] = Cardinality(Of({a}))
    BY <2>1
  <2> QED
    BY <1>1, <2>1, <2>2
<1>3. PICK h : h = Unfold(w, S, h) /\ Total(w, S) = h[S]
  BY <1>2, SumUnfolds
<1> DEFINE T == {F \in SUBSET S : h[F] = Cardinality(Of(F))}
<1>4. \A F \in SUBSET S : (\A x \in F : F \ {x} \in T) => F \in T
  <2> SUFFICES ASSUME NEW F \in SUBSET S, \A x \in F : F \ {x} \in T PROVE h[F] = Cardinality(Of(F))
    OBVIOUS
  <2>1. h[F] = IF F = {} THEN 0 ELSE w[Some(F)] + h[F \ {Some(F)}]
    BY <1>3 DEF Unfold
  <2>2. CASE F = {}
    <3>1. Of(F) = {}
      BY <2>2
    <3> HIDE DEF Of
    <3> QED
      BY <2>1, <2>2, <3>1, FS_EmptySet
  <2>3. CASE F # {}
    <3> DEFINE a == Some(F)
               A == Of({a})
               B == Of(F \ {a})
    <3>1. a \in F
      BY <2>3 DEF Some
    <3>2. A \cap B = {} /\ A \cup B = Of(F)
      BY <3>1
    <3>3. IsFiniteSet(A) /\ IsFiniteSet(B) /\ Cardinality(A) \in Nat /\ Cardinality(B) \in Nat
      <4>1. {a} \in SUBSET S /\ F \ {a} \in SUBSET S
        BY <3>1
      <4> HIDE DEF Of, a
      <4> QED
        BY <1>1, <4>1
    <3>4. h[F \ {a}] = Cardinality(B) /\ w[a] = Cardinality(A)
      <4>1. F \ {a} \in T /\ a \in S
        BY <3>1
      <4> HIDE DEF a, Of
      <4> QED
        BY <1>2, <4>1
    <3> HIDE DEF A, B, a, Of
    <3>5. Cardinality(A \cup B) = Cardinality(A) + Cardinality(B) - Cardinality(A \cap B)
      BY <3>3, FS_Union
    <3>6. Cardinality(A \cap B) = 0
      BY <3>2, FS_EmptySet
    <3>7. h[F] = w[a] + h[F \ {a}]
      BY <2>1, <2>3 DEF a
    <3>8. Cardinality(Of(F)) = Cardinality(A) + Cardinality(B) - 0
      BY <3>2, <3>5, <3>6
    <3>9. h[F] = Cardinality(A) + Cardinality(B)
      BY <3>4, <3>7
    <3> QED
      BY <3>3, <3>8, <3>9
  <2> QED
    BY <2>2, <2>3
<1>5. SUBSET S \subseteq T
  <2> HIDE DEF T
  <2>1. Grows(S, T)
    BY <1>4 DEF Grows
  <2> QED
    BY <2>1, SubsetInduction
<1>6. S \in T
  <2> HIDE DEF T
  <2> QED
    BY <1>5
<1>7. Of(S) = D
  OBVIOUS
<1> HIDE DEF Of
<1> QED
  BY <1>3, <1>6, <1>7

-----------------------------------------------------------------------------
(* Best elements.                                                          *)

\* A strict order, as a set of pairs, has no cycle: a nonempty finite set has an element
\* that none comes before.
IsStrictOrder(L, S) ==
  /\ \A x \in S : <<x, x>> \notin L
  /\ \A x, y, z \in S : <<x, y>> \in L /\ <<y, z>> \in L => <<x, z>> \in L
IsFirst(m, L, S) == m \in S /\ \A x \in S : <<x, m>> \notin L

LEMMA FirstExists ==
  ASSUME NEW S, IsFiniteSet(S), NEW L, IsStrictOrder(L, S), S # {}
  PROVE  \E m : IsFirst(m, L, S)
<1> DEFINE T == {F \in SUBSET S : F # {} => \E m : IsFirst(m, L, F)}
<1>1. \A F \in SUBSET S : (\A x \in F : F \ {x} \in T) => F \in T
  <2> SUFFICES ASSUME NEW F \in SUBSET S, \A x \in F : F \ {x} \in T, F # {}
               PROVE  \E m : IsFirst(m, L, F)
    OBVIOUS
  <2>1. PICK x \in F : TRUE
    OBVIOUS
  <2>2. CASE F = {x}
    BY <2>1, <2>2 DEF IsFirst, IsStrictOrder
  <2>3. CASE F # {x}
    <3>1. PICK m : IsFirst(m, L, F \ {x})
      BY <2>1, <2>3
    <3>2. m \in F /\ m \in S /\ x \in S /\ \A y \in F : y = x \/ <<y, m>> \notin L
      BY <2>1, <3>1 DEF IsFirst
    <3>3. CASE <<x, m>> \notin L
      BY <3>2, <3>3 DEF IsFirst
    <3>4. CASE <<x, m>> \in L
      <4>1. ASSUME NEW y \in F PROVE <<y, x>> \notin L
        <5>1. y \in S
          BY <4>1
        <5>2. y # x => <<y, m>> \notin L
          BY <3>2
        <5> QED
          BY <3>2, <3>4, <5>1, <5>2 DEF IsStrictOrder
      <4> QED
        BY <2>1, <4>1 DEF IsFirst
    <3> QED
      BY <3>3, <3>4
  <2> QED
    BY <2>2, <2>3
<1>2. SUBSET S \subseteq T
  <2> HIDE DEF T
  <2>1. Grows(S, T)
    BY <1>1 DEF Grows
  <2> QED
    BY <2>1, SubsetInduction
<1> QED
  BY <1>2

\* The greatest of a finite set of integers.
LEMMA MaxOfFinite ==
  ASSUME NEW S \in SUBSET Int, IsFiniteSet(S), S # {}
  PROVE  Max(S) \in S /\ \A x \in S : Max(S) >= x
<1> DEFINE L == {p \in S \X S : p[1] > p[2]}
<1>1. \A x, y \in S : <<x, y>> \in L <=> x > y
  OBVIOUS
<1>2. IsStrictOrder(L, S)
  <2>1. \A x \in S : x \in Int
    OBVIOUS
  <2> HIDE DEF L
  <2> QED
    BY <1>1, <2>1 DEF IsStrictOrder
<1> HIDE DEF L
<1>3. PICK m : IsFirst(m, L, S)
  BY <1>2, FirstExists
<1>4. m \in S /\ \A x \in S : ~(x > m)
  BY <1>1, <1>3 DEF IsFirst
<1>5. \A x \in S : x \in Int
  OBVIOUS
<1>6. \A x \in S : m >= x
  BY <1>4, <1>5
<1> QED
  BY <1>4, <1>6 DEF Max

-----------------------------------------------------------------------------
(* Parity and sums over GF(2).                                             *)

\* A symmetric difference is odd when exactly one of the two sets is.
LEMMA OddSymDiff ==
  ASSUME NEW A, NEW B, IsFiniteSet(A), IsFiniteSet(B)
  PROVE  /\ IsFiniteSet(SymDiff(A, B))
         /\ Odd(SymDiff(A, B)) <=> ~(Odd(A) <=> Odd(B))
<1> DEFINE U == A \cup B
           I == A \cap B
<1>1. IsFiniteSet(U) /\ Cardinality(U) = Cardinality(A) + Cardinality(B) - Cardinality(I)
  BY FS_Union
<1>2. IsFiniteSet(I)
  BY FS_Intersection
<1>3. IsFiniteSet(U \ I) /\ Cardinality(U \ I) = Cardinality(U) - Cardinality(U \cap I)
  BY <1>1, FS_Difference
<1>4. U \cap I = I /\ U \ I = SymDiff(A, B)
  BY DEF SymDiff
<1>5. Cardinality(A) \in Nat /\ Cardinality(B) \in Nat /\ Cardinality(I) \in Nat
  BY <1>2, FS_CardinalityType
<1>6. Cardinality(SymDiff(A, B)) = Cardinality(A) + Cardinality(B) - 2 * Cardinality(I)
  <2>1. Cardinality(SymDiff(A, B)) = Cardinality(U) - Cardinality(I)
    BY <1>3, <1>4
  <2> HIDE DEF U, I
  <2> QED
    BY <2>1, <1>1, <1>5
<1>7. \A a, b, i \in Nat : (a + b - 2 * i) % 2 = 1 <=> ~(a % 2 = 1 <=> b % 2 = 1)
  OBVIOUS
<1>8. Odd(SymDiff(A, B)) <=> ~(Odd(A) <=> Odd(B))
  <2> HIDE DEF I
  <2>1. (Cardinality(A) + Cardinality(B) - 2 * Cardinality(I)) % 2 = 1
          <=> ~(Cardinality(A) % 2 = 1 <=> Cardinality(B) % 2 = 1)
    BY <1>5, <1>7
  <2> QED
    BY <2>1, <1>6 DEF Odd
<1> QED
  BY <1>3, <1>4, <1>8

\* The empty set is even, a single element is odd, two are even.
LEMMA OddSmall ==
  /\ ~Odd({})
  /\ \A x : Odd({x})
  /\ \A x, y : x # y => ~Odd({x, y})
<1>1. ~Odd({}) /\ \A x : Odd({x})
  <2>1. Cardinality({}) = 0 /\ \A x : Cardinality({x}) = 1
    BY FS_EmptySet, FS_Singleton
  <2>2. 0 % 2 = 0 /\ 1 % 2 = 1
    OBVIOUS
  <2> QED
    BY <2>1, <2>2 DEF Odd
<1>2. ASSUME NEW x, NEW y, x # y PROVE ~Odd({x, y})
  <2>1. {x, y} = {x} \cup {y} /\ y \notin {x}
    BY <1>2
  <2>2. Cardinality({x, y}) = 2
    <3>1. IsFiniteSet({x}) /\ Cardinality({x}) = 1
      BY FS_Singleton
    <3>2. Cardinality({x} \cup {y}) = Cardinality({x}) + 1
      BY <3>1, <2>1, FS_AddElement
    <3> QED
      BY <3>1, <3>2, <2>1
  <2> QED
    BY <2>2 DEF Odd
<1> QED
  BY <1>1, <1>2

\* The sum over GF(2) of the members of f that Q names, seen on C.
SumOf(f, Q, C) == {c \in C : Odd({q \in Q : c \in f[q]})}

\* Sums are linear, and the sum of one member is that member.
LEMMA SumLinear ==
  ASSUME NEW f, NEW C, NEW A, NEW B, IsFiniteSet(A), IsFiniteSet(B)
  PROVE  SumOf(f, SymDiff(A, B), C) = SymDiff(SumOf(f, A, C), SumOf(f, B, C))
<1> SUFFICES ASSUME NEW c \in C
             PROVE  c \in SumOf(f, SymDiff(A, B), C)
                      <=> c \in SymDiff(SumOf(f, A, C), SumOf(f, B, C))
  <2>1. SumOf(f, SymDiff(A, B), C) \subseteq C
        /\ SymDiff(SumOf(f, A, C), SumOf(f, B, C)) \subseteq C
    BY DEF SumOf, SymDiff
  <2> QED
    BY <2>1
<1> DEFINE S(Q) == {q \in Q : c \in f[q]}
<1>1. S(SymDiff(A, B)) = SymDiff(S(A), S(B))
  BY DEF SymDiff
<1>2. IsFiniteSet(S(A)) /\ IsFiniteSet(S(B))
  BY FS_Subset
<1>3. Odd(S(SymDiff(A, B))) <=> ~(Odd(S(A)) <=> Odd(S(B)))
  <2> DEFINE SA == S(A)
             SB == S(B)
  <2>1. IsFiniteSet(SA) /\ IsFiniteSet(SB)
    BY <1>2
  <2> HIDE DEF SA, SB
  <2>2. Odd(SymDiff(SA, SB)) <=> ~(Odd(SA) <=> Odd(SB))
    BY <2>1, OddSymDiff
  <2> QED
    BY <2>2, <1>1 DEF SA, SB
<1> QED
  BY <1>3 DEF SumOf, SymDiff

LEMMA SumOfOne ==
  ASSUME NEW f, NEW C, NEW q
  PROVE  SumOf(f, {q}, C) = C \cap f[q]
<1> SUFFICES ASSUME NEW c \in C PROVE Odd({x \in {q} : c \in f[x]}) <=> c \in f[q]
  BY DEF SumOf
<1>1. CASE c \in f[q]
  <2>1. {x \in {q} : c \in f[x]} = {q}
    BY <1>1
  <2> QED
    BY <1>1, <2>1, OddSmall
<1>2. CASE c \notin f[q]
  <2>1. {x \in {q} : c \in f[x]} = {}
    BY <1>2
  <2> QED
    BY <1>2, <2>1, OddSmall
<1> QED
  BY <1>1, <1>2

LEMMA SumOfNone ==
  ASSUME NEW f, NEW C
  PROVE  SumOf(f, {}, C) = {}
<1>1. \A c \in C : {x \in {} : c \in f[x]} = {}
  OBVIOUS
<1> QED
  BY <1>1, OddSmall DEF SumOf

\* Symmetric difference is the addition of the field.
LEMMA SymDiffLaws ==
  ASSUME NEW A, NEW B, NEW C
  PROVE  /\ SymDiff(SymDiff(A, B), C) = SymDiff(A, SymDiff(B, C))
         /\ SymDiff(A, B) = SymDiff(B, A)
         /\ SymDiff(A, {}) = A
         /\ SymDiff(A, A) = {}
         /\ SymDiff(A, B) = {} => A = B
         /\ SymDiff(A, B) = C => A = SymDiff(C, B)
         /\ A \cap B = {} => SymDiff(A, B) = A \cup B
  BY DEF SymDiff
=============================================================================
