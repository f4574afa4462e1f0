---------------------------- MODULE DataInduction ----------------------------
(***************************************************************************)
(* Induction for what the models compute recursively.  The library states      *)
(* induction for an operator; here it is stated for a set, which is how the    *)
(* proofs of the other modules use it: the numbers a fact holds of are a set.  *)
(***************************************************************************)
EXTENDS Totals, SequencesExt, FiniteSetTheorems, WellFoundedInduction, TLAPS

\* A set of numbers that is not empty has a least one.
LEMMA Least ==
  ASSUME NEW T \in SUBSET Nat, T # {}
  PROVE  \E n \in T : \A m \in T : n <= m
<1> DEFINE Less == {pair \in Nat \X Nat : pair[1] < pair[2]}
<1>1. IsWellFoundedOn(Less, Nat)
  BY NatLessThanWellFounded, Zenon DEF OpToRel
<1>2. \A x, y \in Nat : <<y, x>> \in Less <=> y < x
  OBVIOUS
<1> HIDE DEF Less
<1>3. PICK x \in T : \A y \in T : ~ (<<y, x>> \in Less)
  BY <1>1, WFMin, Zenon
<1>4. \A y \in T : ~(y < x)
  BY <1>2, <1>3, Zenon
<1> QED BY <1>4

\* What holds of 0, and of n + 1 if of n, holds up to any bound.
LEMMA UpTo ==
  ASSUME NEW last \in Nat, NEW T, 0 \in T, \A n \in 0 .. last - 1 : n \in T => n + 1 \in T
  PROVE  0 .. last \subseteq T
<1> SUFFICES ASSUME (0 .. last) \ T # {} PROVE FALSE
  OBVIOUS
<1>1. PICK n \in (0 .. last) \ T : \A m \in (0 .. last) \ T : n <= m
  <2>1. (0 .. last) \ T \in SUBSET Nat
    OBVIOUS
  <2> QED BY <2>1, Least
<1>2. n - 1 \in 0 .. last - 1 /\ n # 0
  BY <1>1
<1> QED BY <1>1, <1>2

\* The function that starts with first and takes a step for each number.
Stepwise(f, last, V, first, step) ==
  /\ f \in [0 .. last -> V] /\ f[0] = first
  /\ \A n \in 1 .. last : f[n] = step[n][f[n - 1]]

\* A function that gives each number its value from the value before it exists, and is of its type.
LEMMA StepwiseExists ==
  ASSUME NEW last \in Nat, NEW V, NEW first \in V, NEW step \in [1 .. last -> [V -> V]]
  PROVE  \E f : Stepwise(f, last, V, first, step)
<1> DEFINE T == {m \in 0 .. last : \E f : Stepwise(f, m, V, first, step)}
<1>1. 0 \in T
  <2>1. Stepwise([n \in 0 .. 0 |-> first], 0, V, first, step)
    BY DEF Stepwise
  <2> QED BY <2>1
<1>2. ASSUME NEW m \in 0 .. last - 1, m \in T PROVE m + 1 \in T
  <2>1. PICK f : Stepwise(f, m, V, first, step)
    BY <1>2
  <2> DEFINE g == [n \in 0 .. m + 1 |-> IF n = m + 1 THEN step[m + 1][f[m]] ELSE f[n]]
  <2>2. step[m + 1][f[m]] \in V
    BY <2>1 DEF Stepwise
  <2>3. g \in [0 .. m + 1 -> V] /\ g[0] = first
    BY <2>1, <2>2 DEF Stepwise
  <2>4. \A n \in 0 .. m : g[n] = f[n]
    OBVIOUS
  <2>5. g[m + 1] = step[m + 1][f[m]]
    OBVIOUS
  <2> HIDE DEF g
  <2>6. \A n \in 1 .. m + 1 : g[n] = step[n][g[n - 1]]
    <3> SUFFICES ASSUME NEW n \in 1 .. m + 1 PROVE g[n] = step[n][g[n - 1]]
      OBVIOUS
    <3>1. CASE n = m + 1
      BY <2>4, <2>5, <3>1
    <3>2. CASE n # m + 1
      BY <2>1, <2>4, <3>2 DEF Stepwise
    <3> QED BY <3>1, <3>2
  <2>7. Stepwise(g, m + 1, V, first, step)
    BY <2>3, <2>6 DEF Stepwise
  <2> QED BY <2>7
<1>3. 0 .. last \subseteq T
  <2> HIDE DEF T
  <2> QED BY <1>1, <1>2, UpTo
<1> QED BY <1>3

-----------------------------------------------------------------------------
(* Finite sets, an element at a time.                                       *)

\* A fold of the set S, which takes the element that pick names of what is left.
FoldsSet(f, S, V, base, pick, step) ==
  /\ f \in [SUBSET S -> V] /\ f[{}] = base
  /\ \A s \in SUBSET S : s # {} => f[s] = step[pick[s]][f[s \ {pick[s]}]]

\* A subset with an element less has one less.
LEMMA OneLess ==
  ASSUME NEW S, IsFiniteSet(S), NEW s \in SUBSET S, NEW x \in s
  PROVE  /\ s \ {x} \in SUBSET S /\ Cardinality(s) \in Nat /\ Cardinality(s) > 0
         /\ Cardinality(s \ {x}) = Cardinality(s) - 1
<1>1. IsFiniteSet(s)
  BY FS_Subset
<1>2. Cardinality(s) \in Nat /\ (Cardinality(s) = 0 <=> s = {})
  BY <1>1, FS_CardinalityType, FS_EmptySet
<1>3. Cardinality(s \ {x}) = Cardinality(s) - 1
  BY <1>1, FS_RemoveElement
<1> QED BY <1>2, <1>3

\* A fold of a finite set exists, and is of its type.
LEMMA FoldExists ==
  ASSUME NEW S, IsFiniteSet(S), NEW V, NEW base \in V, NEW step \in [S -> [V -> V]],
         NEW pick, \A s \in SUBSET S : s # {} => pick[s] \in s
  PROVE  \E f : FoldsSet(f, S, V, base, pick, step)
<1> DEFINE Small(n) == {s \in SUBSET S : Cardinality(s) <= n}
           Partly(f, n) == /\ f \in [Small(n) -> V] /\ f[{}] = base
                           /\ \A s \in Small(n) : s # {} => f[s] = step[pick[s]][f[s \ {pick[s]}]]
           size == Cardinality(S)
           T == {n \in 0 .. size : \E f : Partly(f, n)}
<1>0. /\ size \in Nat /\ \A s \in SUBSET S : Cardinality(s) \in Nat /\ Cardinality(s) <= size
      /\ Cardinality({}) = 0 /\ \A s \in SUBSET S : Cardinality(s) = 0 <=> s = {}
  BY FS_CardinalityType, FS_Subset, FS_EmptySet
<1>1. 0 \in T
  <2>1. \A s \in Small(0) : s = {}
    BY <1>0
  <2>2. {} \in Small(0)
    BY <1>0
  <2> HIDE DEF Small
  <2>3. Partly([s \in Small(0) |-> base], 0)
    BY <2>1, <2>2
  <2> HIDE DEF Partly
  <2> QED BY <1>0, <2>3
<1>2. ASSUME NEW n \in 0 .. size - 1, n \in T PROVE n + 1 \in T
  <2>1. PICK f : Partly(f, n)
    BY <1>2
  <2> DEFINE g == [s \in Small(n + 1) |->
                     IF Cardinality(s) <= n THEN f[s] ELSE step[pick[s]][f[s \ {pick[s]}]]]
  <2>2. ASSUME NEW s \in Small(n + 1), s # {}
        PROVE  /\ pick[s] \in s /\ pick[s] \in S /\ s \ {pick[s]} \in Small(n)
    <3>1. pick[s] \in s /\ pick[s] \in S
      BY <2>2
    <3>2. Cardinality(s \ {pick[s]}) = Cardinality(s) - 1 /\ Cardinality(s) \in Nat
      BY <3>1, OneLess
    <3> QED BY <2>2, <3>1, <3>2
  <2>3. \A s \in Small(n + 1) : Cardinality(s) <= n <=> s \in Small(n)
    BY <1>0
  <2>4. \A s \in Small(n + 1) : s \notin Small(n) => s # {}
    BY <1>0
  <2>5. {} \in Small(n) /\ \A s \in Small(n) : s \in Small(n + 1)
    BY <1>0
  <2> HIDE DEF Small
  <2>6. ASSUME NEW s \in Small(n + 1), s # {} PROVE step[pick[s]][f[s \ {pick[s]}]] \in V
    <3>1. f[s \ {pick[s]}] \in V
      BY <2>1, <2>2, <2>6
    <3> QED BY <2>2, <2>6, <3>1
  <2>7. g \in [Small(n + 1) -> V]
    BY <2>1, <2>3, <2>4, <2>6
  <2>8. \A s \in Small(n + 1) : g[s] = IF s \in Small(n) THEN f[s] ELSE step[pick[s]][f[s \ {pick[s]}]]
    BY <2>3
  <2> HIDE DEF g
  <2>9. g[{}] = base /\ \A s \in Small(n) : g[s] = f[s]
    BY <2>1, <2>5, <2>8
  <2>10. \A s \in Small(n + 1) : s # {} => g[s] = step[pick[s]][g[s \ {pick[s]}]]
    BY <2>1, <2>2, <2>8, <2>9
  <2>11. Partly(g, n + 1)
    BY <2>7, <2>9, <2>10
  <2> HIDE DEF Partly
  <2> QED BY <1>0, <2>11
<1>3. size \in T
  <2> HIDE DEF T, size
  <2>1. 0 .. size \subseteq T
    BY <1>0, <1>1, <1>2, UpTo
  <2> QED BY <1>0, <2>1
<1>4. PICK f : Partly(f, size)
  BY <1>3
<1>5. Small(size) = SUBSET S
  BY <1>0
<1> HIDE DEF Small
<1> QED BY <1>4, <1>5 DEF FoldsSet

-----------------------------------------------------------------------------
(* Sums.                                                                    *)

Chosen(s) == CHOOSE x \in s : TRUE

\* The sum of a function over a set, as the models write it.
SumOver(w, S) == MapThenSumSet(LAMBDA x : w[x], S)

Summing(f, w, S) == \A s \in SUBSET S : f[s] = IF s = {} THEN 0 ELSE w[Chosen(s)] + f[s \ {Chosen(s)}]

\* What adds up the elements of the subsets of a set is determined.
LEMMA AddsOnce ==
  ASSUME NEW S, IsFiniteSet(S), NEW w, NEW f, NEW g, Summing(f, w, S), NEW R \in SUBSET S, Summing(g, w, R)
  PROVE  \A s \in SUBSET R : f[s] = g[s]
<1> DEFINE size == Cardinality(S)
           T == {n \in 0 .. size : \A s \in SUBSET R : Cardinality(s) <= n => f[s] = g[s]}
<1>0. /\ size \in Nat /\ \A s \in SUBSET R : Cardinality(s) \in Nat /\ Cardinality(s) <= size
      /\ \A s \in SUBSET R : Cardinality(s) = 0 <=> s = {}
  BY FS_CardinalityType, FS_Subset, FS_EmptySet
<1>1. 0 \in T
  BY <1>0 DEF Summing
<1>2. ASSUME NEW n \in 0 .. size - 1, n \in T PROVE n + 1 \in T
  <2>1. ASSUME NEW s \in SUBSET R, Cardinality(s) <= n + 1, s # {} PROVE f[s] = g[s]
    <3> DEFINE x == Chosen(s)
    <3>1. x \in s
      BY <2>1 DEF Chosen
    <3> HIDE DEF x
    <3>2. Cardinality(s \ {x}) = Cardinality(s) - 1 /\ Cardinality(s) \in Nat /\ s \ {x} \in SUBSET R
      BY <3>1, OneLess
    <3>3. f[s \ {x}] = g[s \ {x}]
      BY <1>2, <2>1, <3>2
    <3>4. s \in SUBSET S
      OBVIOUS
    <3> QED BY <2>1, <3>3, <3>4 DEF Summing, x
  <2>2. f[{}] = g[{}]
    BY DEF Summing
  <2>3. \A s \in SUBSET R : Cardinality(s) <= n + 1 => f[s] = g[s]
    BY <2>1, <2>2
  <2> QED BY <1>0, <2>3
<1>3. size \in T
  <2> HIDE DEF T, size
  <2>1. 0 .. size \subseteq T
    BY <1>0, <1>1, <1>2, UpTo
  <2> QED BY <1>0, <2>1
<1> QED BY <1>0, <1>3

\* The sums over the subsets of a set.
Sums(f, w, S) ==
  f \in [SUBSET S -> Nat] /\ Summing(f, w, S) /\ \A s \in SUBSET S : SumOver(w, s) = f[s]

\* The sum is what adds up the elements.
LEMMA SumAdds ==
  ASSUME NEW S, IsFiniteSet(S), NEW w, \A x \in S : w[x] \in Nat
  PROVE  \E f : Sums(f, w, S)
<1> DEFINE V == Nat
           base == 0
           pick == [s \in SUBSET S |-> Chosen(s)]
           step == [x \in S |-> [v \in V |-> w[x] + v]]
<1>1. step \in [S -> [V -> V]] /\ base \in V
  OBVIOUS
<1>2. \A s \in SUBSET S : s # {} => pick[s] = Chosen(s) /\ Chosen(s) \in s
  BY DEF Chosen
<1>3. PICK f : FoldsSet(f, S, V, base, pick, step)
  <2>1. \A s \in SUBSET S : s # {} => pick[s] \in s
    BY <1>2
  <2> HIDE DEF V, base, pick, step
  <2> QED BY <1>1, <2>1, FoldExists
<1>4. f \in [SUBSET S -> Nat] /\ f[{}] = 0
  BY <1>3 DEF FoldsSet
<1>5. ASSUME NEW s \in SUBSET S, s # {} PROVE f[s] = w[Chosen(s)] + f[s \ {Chosen(s)}]
  <2> DEFINE x == Chosen(s)
  <2>1. pick[s] = x /\ x \in s /\ x \in S
    BY <1>2, <1>5
  <2>2. f[s] = step[pick[s]][f[s \ {pick[s]}]]
    <3> HIDE DEF V, base, pick, step
    <3> QED BY <1>3, <1>5 DEF FoldsSet
  <2> HIDE DEF x, pick
  <2>3. f[s \ {x}] \in Nat
    BY <1>4
  <2>4. step[x][f[s \ {x}]] = w[x] + f[s \ {x}]
    BY <2>1, <2>3
  <2> QED BY <2>1, <2>2, <2>4 DEF x
<1>6. Summing(f, w, S)
  BY <1>4, <1>5 DEF Summing
<1>7. ASSUME NEW R \in SUBSET S PROVE SumOver(w, R) = f[R]
  <2> DEFINE D(h, s) == IF s = {} THEN 0 ELSE w[Chosen(s)] + h[s \ {Chosen(s)}]
             left == CHOOSE h : h = [s \in SUBSET R |-> D(h, s)]
             g == [s \in SUBSET R |-> f[s]]
  <2>1. \A s \in SUBSET R : g[s] = D(g, s)
    <3> SUFFICES ASSUME NEW s \in SUBSET R PROVE g[s] = D(g, s)
      OBVIOUS
    <3>1. s \in SUBSET S /\ s \ {Chosen(s)} \in SUBSET R
      OBVIOUS
    <3>2. g[s] = f[s] /\ g[s \ {Chosen(s)}] = f[s \ {Chosen(s)}]
      BY <3>1
    <3> HIDE DEF g
    <3> QED BY <1>6, <3>1, <3>2 DEF Summing
  <2>2. g = [s \in SUBSET R |-> D(g, s)]
    <3>1. g = [s \in SUBSET R |-> g[s]]
      OBVIOUS
    <3> HIDE DEF g, D
    <3> QED BY <2>1, <3>1
  <2>3. left = [s \in SUBSET R |-> D(left, s)]
    <3> HIDE DEF g
    <3> QED BY <2>2
  <2>4. SumOver(w, R) = left[R]
    BY DEF SumOver, MapThenSumSet, MapThenFoldSet, Chosen
  <2> HIDE DEF left
  <2>5. Summing(left, w, R)
    <3>1. \A s \in SUBSET R : left[s] = D(left, s)
      <4> HIDE DEF D
      <4> QED BY <2>3
    <3> QED BY <3>1 DEF Summing
  <2>6. f[R] = left[R]
    BY <1>6, <2>5, AddsOnce
  <2> QED BY <2>4, <2>6
<1> QED BY <1>4, <1>6, <1>7 DEF Sums

\* A sum is a number, and nothing adds up to nothing.
LEMMA SumNumber ==
  ASSUME NEW S, IsFiniteSet(S), NEW w, \A x \in S : w[x] \in Nat
  PROVE  SumOver(w, S) \in Nat /\ (S = {} => SumOver(w, S) = 0)
<1>9. PICK f : Sums(f, w, S)
  BY SumAdds
<1>1. f \in [SUBSET S -> Nat] /\ Summing(f, w, S) /\ \A s \in SUBSET S : SumOver(w, s) = f[s]
  BY <1>9 DEF Sums
<1>2. S \in SUBSET S
  OBVIOUS
<1>3. f[S] \in Nat /\ SumOver(w, S) = f[S]
  BY <1>1, <1>2
<1>4. S = {} => f[S] = 0
  BY <1>1, <1>2 DEF Summing
<1> QED BY <1>3, <1>4

\* Any element of a set can be taken out of a sum.
LEMMA SumTake ==
  ASSUME NEW S, IsFiniteSet(S), NEW w, \A x \in S : w[x] \in Nat, NEW a \in S
  PROVE  SumOver(w, S) = w[a] + SumOver(w, S \ {a})
<1>9. PICK f : Sums(f, w, S)
  BY SumAdds
<1>1. f \in [SUBSET S -> Nat] /\ Summing(f, w, S) /\ \A s \in SUBSET S : SumOver(w, s) = f[s]
  BY <1>9 DEF Sums
<1> DEFINE size == Cardinality(S)
           T == {n \in 0 .. size : \A s \in SUBSET S : Cardinality(s) <= n =>
                                     \A x \in s : f[s] = w[x] + f[s \ {x}]}
<1>0. /\ size \in Nat /\ \A s \in SUBSET S : Cardinality(s) \in Nat /\ Cardinality(s) <= size
      /\ \A s \in SUBSET S : Cardinality(s) = 0 <=> s = {}
  BY FS_CardinalityType, FS_Subset, FS_EmptySet
<1>2. 0 \in T
  BY <1>0
<1>3. ASSUME NEW n \in 0 .. size - 1, n \in T PROVE n + 1 \in T
  <2>1. ASSUME NEW s \in SUBSET S, Cardinality(s) <= n + 1, NEW x \in s PROVE f[s] = w[x] + f[s \ {x}]
    <3> DEFINE c == Chosen(s)
    <3>1. c \in s
      BY DEF Chosen
    <3>2. f[s] = w[c] + f[s \ {c}]
      BY <1>1 DEF Summing
    <3> HIDE DEF c
    <3>3. CASE x = c
      BY <3>2, <3>3
    <3>4. CASE x # c
      <4> DEFINE rest == (s \ {x}) \ {c}
      <4>1. x \in s \ {c} /\ c \in s \ {x} /\ rest = (s \ {c}) \ {x} /\ rest \in SUBSET S
        BY <3>1, <3>4
      <4>2. /\ Cardinality(s \ {c}) <= n /\ s \ {c} \in SUBSET S
            /\ Cardinality(s \ {x}) <= n /\ s \ {x} \in SUBSET S
        BY <2>1, <3>1, OneLess
      <4>3. f[s \ {c}] = w[x] + f[(s \ {c}) \ {x}]
        BY <1>3, <4>1, <4>2
      <4>4. f[s \ {x}] = w[c] + f[(s \ {x}) \ {c}]
        BY <1>3, <4>1, <4>2
      <4> HIDE DEF rest
      <4>5. w[x] \in Nat /\ w[c] \in Nat /\ f[rest] \in Nat
        BY <1>1, <3>1, <4>1
      <4>6. f[s] = w[c] + (w[x] + f[rest]) /\ f[s \ {x}] = w[c] + f[rest]
        BY <3>2, <4>1, <4>3, <4>4 DEF rest
      <4> QED BY <4>5, <4>6
    <3> QED BY <3>3, <3>4
  <2> QED BY <1>0, <2>1
<1>4. size \in T
  <2> HIDE DEF T, size
  <2>1. 0 .. size \subseteq T
    BY <1>0, <1>2, <1>3, UpTo
  <2> QED BY <1>0, <2>1
<1>5. f[S] = w[a] + f[S \ {a}]
  BY <1>0, <1>4
<1> QED BY <1>1, <1>5

\* The subsets of one set stand for numbers: what holds of the empty set, and of a set if of the
\* sets with one of its elements less, holds of the whole.
LEMMA SmallerSet ==
  ASSUME NEW S, IsFiniteSet(S), NEW T, {} \in T,
         \A s \in SUBSET S : s # {} /\ (\A x \in s : s \ {x} \in T) => s \in T
  PROVE  S \in T
<1> DEFINE size == Cardinality(S)
           N == {n \in 0 .. size : \A s \in SUBSET S : Cardinality(s) <= n => s \in T}
<1>0. /\ size \in Nat /\ \A s \in SUBSET S : Cardinality(s) \in Nat /\ Cardinality(s) <= size
      /\ \A s \in SUBSET S : Cardinality(s) = 0 <=> s = {}
  BY FS_CardinalityType, FS_Subset, FS_EmptySet
<1>1. 0 \in N
  <2>1. \A s \in SUBSET S : Cardinality(s) <= 0 => Cardinality(s) = 0
    BY <1>0
  <2>2. \A s \in SUBSET S : Cardinality(s) <= 0 => s \in T
    BY <1>0, <2>1
  <2> QED BY <1>0, <2>2
<1>2. ASSUME NEW n \in 0 .. size - 1, n \in N PROVE n + 1 \in N
  <2>1. ASSUME NEW s \in SUBSET S, Cardinality(s) <= n + 1, s # {} PROVE s \in T
    <3>1. ASSUME NEW x \in s PROVE s \ {x} \in T
      <4>1. s \ {x} \in SUBSET S /\ Cardinality(s \ {x}) = Cardinality(s) - 1 /\ Cardinality(s) \in Nat
        BY OneLess
      <4> QED BY <1>2, <2>1, <4>1
    <3> QED BY <2>1, <3>1
  <2>2. \A s \in SUBSET S : Cardinality(s) <= n + 1 => s \in T
    BY <2>1
  <2> QED BY <1>0, <2>2
<1>3. size \in N
  <2> HIDE DEF N, size
  <2>1. 0 .. size \subseteq N
    BY <1>0, <1>1, <1>2, UpTo
  <2> QED BY <1>0, <2>1
<1> QED BY <1>0, <1>3

\* It is enough that one of the smaller sets has what the set is to have.
LEMMA Shrinking ==
  ASSUME NEW S, IsFiniteSet(S), NEW T, {} \in T,
         \A s \in SUBSET S : (\E x \in s : s \ {x} \in T) => s \in T
  PROVE  S \in T
<1>1. ASSUME NEW s \in SUBSET S, s # {}, \A x \in s : s \ {x} \in T PROVE s \in T
  <2>1. PICK x \in s : TRUE
    BY <1>1
  <2>2. s \ {x} \in T
    BY <1>1
  <2> QED BY <2>2
<1> QED BY <1>1, SmallerSet

\* A set of numbers below a bound has a greatest one, if it is not empty.
LEMMA Greatest ==
  ASSUME NEW n \in Nat, NEW s \in SUBSET (0 .. n), s # {}
  PROVE  Max(s) \in s /\ \A m \in s : Max(s) >= m
<1> DEFINE T == {n - m : m \in s}
<1>1. T \in SUBSET Nat /\ T # {}
  <2>1. \A m \in s : n - m \in Nat
    OBVIOUS
  <2>2. PICK m \in s : TRUE
    OBVIOUS
  <2>3. n - m \in T
    OBVIOUS
  <2> QED BY <2>1, <2>3
<1>2. PICK t \in T : \A u \in T : t <= u
  <2> HIDE DEF T
  <2> QED BY <1>1, Least
<1>3. PICK m \in s : t = n - m
  OBVIOUS
<1>4. ASSUME NEW k \in s PROVE m >= k
  <2>1. n - k \in T /\ k \in Nat /\ m \in Nat
    OBVIOUS
  <2>2. t <= n - k
    BY <1>2, <2>1
  <2> HIDE DEF T
  <2> QED BY <1>3, <2>1, <2>2
<1> QED BY <1>4 DEF Max

\* The sum over two sets that share nothing is the two sums.
LEMMA SumApart ==
  ASSUME NEW A, IsFiniteSet(A), NEW B, IsFiniteSet(B), A \cap B = {},
         NEW w, \A x \in A \cup B : w[x] \in Nat
  PROVE  IsFiniteSet(A \cup B) /\ SumOver(w, A \cup B) = SumOver(w, A) + SumOver(w, B)
<1> DEFINE T == {s \in SUBSET B : /\ IsFiniteSet(A \cup s)
                                  /\ SumOver(w, A \cup s) = SumOver(w, A) + SumOver(w, s)}
<1>1. {} \in T
  <2>1. SumOver(w, {}) = 0 /\ SumOver(w, A) \in Nat
    BY FS_EmptySet, SumNumber
  <2>2. A \cup {} = A
    OBVIOUS
  <2> QED BY <2>1, <2>2
<1>2. ASSUME NEW s \in SUBSET B, NEW x \in s, s \ {x} \in T PROVE s \in T
  <2> DEFINE less == s \ {x}
  <2>1. IsFiniteSet(s) /\ IsFiniteSet(less) /\ IsFiniteSet(A \cup less)
    BY <1>2, FS_Subset
  <2>2. A \cup s = (A \cup less) \cup {x} /\ x \notin A \cup less /\ (A \cup s) \ {x} = A \cup less
    OBVIOUS
  <2>3. IsFiniteSet(A \cup s)
    BY <2>1, <2>2, FS_AddElement
  <2>4. SumOver(w, A \cup s) = w[x] + SumOver(w, A \cup less)
    <3>1. x \in A \cup s /\ \A y \in A \cup s : w[y] \in Nat
      OBVIOUS
    <3> HIDE DEF less
    <3> QED BY <2>2, <2>3, <3>1, SumTake
  <2>5. SumOver(w, s) = w[x] + SumOver(w, less)
    BY <2>1, SumTake
  <2>6. SumOver(w, A \cup less) = SumOver(w, A) + SumOver(w, less)
    BY <1>2
  <2>7. SumOver(w, A) \in Nat /\ SumOver(w, less) \in Nat /\ w[x] \in Nat
    BY <2>1, SumNumber
  <2> HIDE DEF less
  <2>8. SumOver(w, A \cup s) = SumOver(w, A) + SumOver(w, s)
    BY <2>4, <2>5, <2>6, <2>7
  <2> QED BY <2>3, <2>8
<1>3. \A s \in SUBSET B : (\E x \in s : s \ {x} \in T) => s \in T
  BY <1>2
<1>4. B \in T
  <2> HIDE DEF T
  <2> QED BY <1>1, <1>3, Shrinking
<1> QED BY <1>4

\* Sums over sets whose elements stand for each other, with the same value.
LEMMA SumAlike ==
  ASSUME NEW A, IsFiniteSet(A), NEW B, IsFiniteSet(B), NEW h \in [A -> B],
         \A x, y \in A : h[x] = h[y] => x = y, \A z \in B : \E x \in A : h[x] = z,
         NEW w, NEW v, \A x \in A : w[x] \in Nat /\ v[h[x]] = w[x]
  PROVE  SumOver(w, A) = SumOver(v, B)
<1> DEFINE On(s) == {h[x] : x \in s}
           T == {s \in SUBSET A : SumOver(w, s) = SumOver(v, On(s))}
<1>1. {} \in T
  <2>1. On({}) = {}
    OBVIOUS
  <2>2. SumOver(w, {}) = 0 /\ SumOver(v, {}) = 0
    BY FS_EmptySet, SumNumber
  <2> QED BY <2>1, <2>2
<1>2. ASSUME NEW s \in SUBSET A, NEW x \in s, s \ {x} \in T PROVE s \in T
  <2> DEFINE less == s \ {x}
  <2>1. On(s) \in SUBSET B /\ h[x] \in On(s) /\ On(s) \ {h[x]} = On(less)
    OBVIOUS
  <2>2. IsFiniteSet(s) /\ IsFiniteSet(On(s))
    BY <2>1, FS_Subset
  <2>3. SumOver(w, s) = w[x] + SumOver(w, less)
    BY <2>2, SumTake
  <2>4. \A z \in On(s) : v[z] \in Nat
    OBVIOUS
  <2> HIDE DEF On
  <2>5. SumOver(v, On(s)) = v[h[x]] + SumOver(v, On(s) \ {h[x]})
    BY <2>1, <2>2, <2>4, SumTake
  <2>6. SumOver(w, less) = SumOver(v, On(less))
    BY <1>2
  <2> QED BY <2>1, <2>3, <2>5, <2>6
<1>3. On(A) = B
  OBVIOUS
<1>4. \A s \in SUBSET A : (\E x \in s : s \ {x} \in T) => s \in T
  BY <1>2
<1>5. A \in T
  <2> HIDE DEF T
  <2> QED BY <1>1, <1>4, Shrinking
<1> HIDE DEF On
<1> QED BY <1>3, <1>5

\* Functions that agree on a set have the same sum over it.
LEMMA SumSame ==
  ASSUME NEW S, IsFiniteSet(S), NEW w, NEW v, \A x \in S : w[x] \in Nat /\ v[x] = w[x]
  PROVE  SumOver(w, S) = SumOver(v, S)
<1> DEFINE h == [x \in S |-> x]
<1>1. /\ h \in [S -> S] /\ \A x, y \in S : h[x] = h[y] => x = y
      /\ \A z \in S : \E x \in S : h[x] = z
      /\ \A x \in S : w[x] \in Nat /\ v[h[x]] = w[x]
  OBVIOUS
<1> HIDE DEF h
<1> QED BY <1>1, SumAlike

\* What is nothing everywhere adds up to nothing.
LEMMA SumZero ==
  ASSUME NEW S, IsFiniteSet(S), NEW w, \A x \in S : w[x] = 0
  PROVE  SumOver(w, S) = 0
<1> DEFINE T == {s \in SUBSET S : SumOver(w, s) = 0}
<1>1. {} \in T
  BY FS_EmptySet, SumNumber
<1>2. ASSUME NEW s \in SUBSET S, NEW x \in s, s \ {x} \in T PROVE s \in T
  <2>1. IsFiniteSet(s) /\ \A y \in s : w[y] \in Nat
    BY FS_Subset
  <2>2. SumOver(w, s) = w[x] + SumOver(w, s \ {x})
    BY <2>1, SumTake
  <2>3. w[x] = 0 /\ SumOver(w, s \ {x}) = 0
    BY <1>2
  <2> QED BY <2>2, <2>3
<1>3. \A s \in SUBSET S : (\E x \in s : s \ {x} \in T) => s \in T
  BY <1>2
<1>4. S \in T
  <2> HIDE DEF T
  <2> QED BY <1>1, <1>3, Shrinking
<1> QED BY <1>4

\* A sum changes by what one of its terms changes by.
LEMMA SumChange ==
  ASSUME NEW S, IsFiniteSet(S), NEW a \in S, NEW w, NEW v, \A x \in S : w[x] \in Nat /\ v[x] \in Nat,
         \A x \in S \ {a} : v[x] = w[x]
  PROVE  SumOver(v, S) + w[a] = SumOver(w, S) + v[a]
<1> DEFINE rest == S \ {a}
<1>1. IsFiniteSet(rest)
  BY FS_Subset
<1>2. SumOver(w, rest) = SumOver(v, rest) /\ SumOver(w, rest) \in Nat
  BY <1>1, SumSame, SumNumber
<1>3. SumOver(w, S) = w[a] + SumOver(w, rest) /\ SumOver(v, S) = v[a] + SumOver(v, rest)
  BY SumTake
<1> QED BY <1>2, <1>3

\* A sum over one.
LEMMA SumOfOne ==
  ASSUME NEW a, NEW w, w[a] \in Nat
  PROVE  SumOver(w, {a}) = w[a]
<1>1. IsFiniteSet({a}) /\ {a} \ {a} = {}
  BY FS_Singleton
<1>2. SumOver(w, {}) = 0
  BY FS_EmptySet, SumNumber
<1>3. SumOver(w, {a}) = w[a] + SumOver(w, {a} \ {a})
  BY <1>1, SumTake
<1> QED BY <1>1, <1>2, <1>3

\* A sum over two.
LEMMA SumOfTwo ==
  ASSUME NEW a, NEW b, a # b, NEW w, w[a] \in Nat, w[b] \in Nat
  PROVE  SumOver(w, {a, b}) = w[a] + w[b] /\ IsFiniteSet({a, b})
<1>1. IsFiniteSet({b}) /\ {a, b} = {b} \cup {a}
  BY FS_Singleton
<1>2. IsFiniteSet({a, b}) /\ {a, b} \ {a} = {b}
  BY <1>1, FS_AddElement
<1>3. SumOver(w, {b}) = w[b]
  BY SumOfOne
<1>4. SumOver(w, {a, b}) = w[a] + SumOver(w, {a, b} \ {a})
  BY <1>2, SumTake
<1> QED BY <1>2, <1>3, <1>4

\* What is written as a sum with its summands spelled out is the sum.
Fixed(h, w, S) == h = [s \in SUBSET S |-> IF s = {} THEN 0 ELSE w[Chosen(s)] + h[s \ {Chosen(s)}]]
\* A sum over a finite set exists, and whatever satisfies its recursion is the sum.
LEMMA SumFixed ==
  ASSUME NEW S, IsFiniteSet(S), NEW w, \A x \in S : w[x] \in Nat
  PROVE  /\ \E h : Fixed(h, w, S)
         /\ \A h : Fixed(h, w, S) => h[S] = SumOver(w, S) /\ h[S] \in Nat
<1>1. PICK f : Sums(f, w, S)
  BY SumAdds
<1>2. f \in [SUBSET S -> Nat] /\ Summing(f, w, S) /\ SumOver(w, S) = f[S]
  BY <1>1 DEF Sums
<1>3. Fixed(f, w, S)
  <2>1. f = [s \in SUBSET S |-> f[s]]
    BY <1>2
  <2>2. \A s \in SUBSET S : f[s] = IF s = {} THEN 0 ELSE w[Chosen(s)] + f[s \ {Chosen(s)}]
    BY <1>2 DEF Summing
  <2> QED BY <2>1, <2>2 DEF Fixed
<1>4. ASSUME NEW h, Fixed(h, w, S) PROVE h[S] = SumOver(w, S) /\ h[S] \in Nat
  <2>1. Summing(h, w, S)
    BY <1>4 DEF Fixed, Summing
  <2>2. f[S] = h[S]
    BY <1>2, <2>1, AddsOnce
  <2> QED BY <1>2, <2>2
<1> QED BY <1>3, <1>4

\* What is no more everywhere adds up to no more.
LEMMA SumAtMost ==
  ASSUME NEW S, IsFiniteSet(S), NEW w, NEW v, \A x \in S : w[x] \in Nat /\ v[x] \in Nat /\ w[x] <= v[x]
  PROVE  SumOver(w, S) <= SumOver(v, S)
<1> DEFINE T == {s \in SUBSET S : SumOver(w, s) <= SumOver(v, s)}
<1>1. {} \in T
  <2>1. SumOver(w, {}) = 0 /\ SumOver(v, {}) = 0
    BY FS_EmptySet, SumNumber
  <2> QED BY <2>1
<1>2. ASSUME NEW s \in SUBSET S, NEW x \in s, s \ {x} \in T PROVE s \in T
  <2>1. IsFiniteSet(s) /\ IsFiniteSet(s \ {x})
    BY FS_Subset
  <2>2. SumOver(w, s) = w[x] + SumOver(w, s \ {x}) /\ SumOver(v, s) = v[x] + SumOver(v, s \ {x})
    BY <2>1, SumTake
  <2>3. SumOver(w, s \ {x}) \in Nat /\ SumOver(v, s \ {x}) \in Nat
    BY <2>1, SumNumber
  <2>4. SumOver(w, s \ {x}) <= SumOver(v, s \ {x}) /\ w[x] \in Nat /\ v[x] \in Nat /\ w[x] <= v[x]
    BY <1>2
  <2> QED BY <2>2, <2>3, <2>4
<1>3. \A s \in SUBSET S : (\E x \in s : s \ {x} \in T) => s \in T
  BY <1>2
<1>4. S \in T
  <2> HIDE DEF T
  <2> QED BY <1>1, <1>3, Shrinking
<1> QED BY <1>4

\* The sum of sums.
LEMMA SumPlus ==
  ASSUME NEW S, IsFiniteSet(S), NEW u, NEW w, NEW v,
         \A x \in S : u[x] \in Nat /\ w[x] \in Nat /\ v[x] = u[x] + w[x]
  PROVE  SumOver(v, S) = SumOver(u, S) + SumOver(w, S)
<1> DEFINE T == {s \in SUBSET S : SumOver(v, s) = SumOver(u, s) + SumOver(w, s)}
<1>0. \A x \in S : v[x] \in Nat
  OBVIOUS
<1>1. {} \in T
  <2>1. SumOver(w, {}) = 0 /\ SumOver(v, {}) = 0 /\ SumOver(u, {}) = 0
    BY FS_EmptySet, SumNumber
  <2> QED BY <2>1
<1>2. ASSUME NEW s \in SUBSET S, NEW x \in s, s \ {x} \in T PROVE s \in T
  <2>1. IsFiniteSet(s) /\ IsFiniteSet(s \ {x})
    BY FS_Subset
  <2>2. /\ SumOver(w, s) = w[x] + SumOver(w, s \ {x}) /\ SumOver(v, s) = v[x] + SumOver(v, s \ {x})
        /\ SumOver(u, s) = u[x] + SumOver(u, s \ {x})
    BY <1>0, <2>1, SumTake
  <2>3. SumOver(w, s \ {x}) \in Nat /\ SumOver(v, s \ {x}) \in Nat /\ SumOver(u, s \ {x}) \in Nat
    BY <1>0, <2>1, SumNumber
  <2>4. /\ SumOver(v, s \ {x}) = SumOver(u, s \ {x}) + SumOver(w, s \ {x})
        /\ u[x] \in Nat /\ w[x] \in Nat /\ v[x] = u[x] + w[x]
    BY <1>2
  <2> QED BY <2>2, <2>3, <2>4
<1>3. \A s \in SUBSET S : (\E x \in s : s \ {x} \in T) => s \in T
  BY <1>2
<1>4. S \in T
  <2> HIDE DEF T
  <2> QED BY <1>1, <1>3, Shrinking
<1> QED BY <1>4

\* The sum of so many times as much.
LEMMA SumTimes ==
  ASSUME NEW S, IsFiniteSet(S), NEW c \in Nat, NEW w, NEW v, \A x \in S : w[x] \in Nat /\ v[x] = c * w[x]
  PROVE  SumOver(v, S) = c * SumOver(w, S)
<1> DEFINE T == {s \in SUBSET S : SumOver(v, s) = c * SumOver(w, s)}
<1>0. \A a, b \in Nat : a * b \in Nat /\ c * (a + b) = c * a + c * b
  OBVIOUS
<1>9. \A x \in S : v[x] \in Nat
  BY <1>0
<1>1. {} \in T
  <2>1. SumOver(w, {}) = 0 /\ SumOver(v, {}) = 0
    BY <1>9, FS_EmptySet, SumNumber
  <2>2. c * 0 = 0
    OBVIOUS
  <2> QED BY <2>1, <2>2
<1>2. ASSUME NEW s \in SUBSET S, NEW x \in s, s \ {x} \in T PROVE s \in T
  <2>1. IsFiniteSet(s) /\ IsFiniteSet(s \ {x})
    BY FS_Subset
  <2>2. SumOver(w, s) = w[x] + SumOver(w, s \ {x}) /\ SumOver(v, s) = v[x] + SumOver(v, s \ {x})
    BY <1>9, <2>1, SumTake
  <2>3. SumOver(w, s \ {x}) \in Nat
    BY <2>1, SumNumber
  <2>4. SumOver(v, s \ {x}) = c * SumOver(w, s \ {x}) /\ w[x] \in Nat /\ v[x] = c * w[x]
    BY <1>2
  <2>5. c * (w[x] + SumOver(w, s \ {x})) = c * w[x] + c * SumOver(w, s \ {x})
    BY <1>0, <2>3, <2>4
  <2> QED BY <2>2, <2>4, <2>5
<1>3. \A s \in SUBSET S : (\E x \in s : s \ {x} \in T) => s \in T
  BY <1>2
<1>4. S \in T
  <2> HIDE DEF T
  <2> QED BY <1>1, <1>3, Shrinking
<1> QED BY <1>4

\* One for each of some.
LEMMA SumOnes ==
  ASSUME NEW S, IsFiniteSet(S), NEW R \in SUBSET S, NEW v, \A x \in S : v[x] = IF x \in R THEN 1 ELSE 0
  PROVE  SumOver(v, S) = Cardinality(R) /\ Cardinality(R) \in Nat
<1> DEFINE T == {s \in SUBSET S : SumOver(v, s) = Cardinality(R \cap s)}
<1>9. \A x \in S : v[x] \in Nat
  OBVIOUS
<1>1. {} \in T
  <2>1. SumOver(v, {}) = 0
    BY <1>9, FS_EmptySet, SumNumber
  <2>2. R \cap {} = {}
    OBVIOUS
  <2>3. Cardinality({}) = 0
    BY FS_EmptySet
  <2> QED BY <2>1, <2>2, <2>3
<1>2. ASSUME NEW s \in SUBSET S, NEW x \in s, s \ {x} \in T PROVE s \in T
  <2> DEFINE less == R \cap (s \ {x})
  <2>1. IsFiniteSet(s) /\ IsFiniteSet(s \ {x}) /\ IsFiniteSet(less)
    BY FS_Subset
  <2>2. SumOver(v, s) = v[x] + SumOver(v, s \ {x})
    BY <1>9, <2>1, SumTake
  <2>3. SumOver(v, s \ {x}) = Cardinality(less)
    BY <1>2
  <2>4. x \notin less /\ R \cap s = IF x \in R THEN less \cup {x} ELSE less
    OBVIOUS
  <2>5. Cardinality(less) \in Nat
    BY <2>1, FS_CardinalityType
  <2> HIDE DEF less
  <2>6. Cardinality(less \cup {x}) = Cardinality(less) + 1
    BY <2>1, <2>4, FS_AddElement
  <2>7. Cardinality(R \cap s) = v[x] + Cardinality(less)
    BY <2>4, <2>5, <2>6
  <2> QED BY <2>2, <2>3, <2>7
<1>3. \A s \in SUBSET S : (\E x \in s : s \ {x} \in T) => s \in T
  BY <1>2
<1>4. S \in T
  <2> HIDE DEF T
  <2> QED BY <1>1, <1>3, Shrinking
<1>5. R \cap S = R
  OBVIOUS
<1>6. Cardinality(R) \in Nat
  BY FS_Subset, FS_CardinalityType
<1> QED BY <1>4, <1>5, <1>6

\* In a strict order, as many come first as there is room for: those with fewer than m ahead are m.
LEMMA FirstInOrder ==
  ASSUME NEW S, IsFiniteSet(S), NEW ahead \in [S -> SUBSET S],
         \A x \in S : x \notin ahead[x],
         \A x, y \in S : x # y => x \in ahead[y] \/ y \in ahead[x],
         \A x, y \in S : y \in ahead[x] => ahead[y] \subseteq ahead[x],
         NEW m \in 0 .. Cardinality(S)
  PROVE  /\ Cardinality({x \in S : Cardinality(ahead[x]) < m}) = m
         /\ \A x, y \in S : Cardinality(ahead[x]) < m /\ ~(Cardinality(ahead[y]) < m) => x \in ahead[y]
<1> DEFINE n == Cardinality(S)
           pos == [x \in S |-> Cardinality(ahead[x])]
           low == 0 .. n - 1
           first == {x \in S : pos[x] < m}
<1>1. n \in Nat
  BY FS_CardinalityType
<1>2. ASSUME NEW x \in S PROVE IsFiniteSet(ahead[x]) /\ pos[x] \in low /\ Cardinality(ahead[x]) \in Nat
  <2>1. ahead[x] \subseteq S \ {x} /\ S \ {x} \subseteq S
    OBVIOUS
  <2>2. IsFiniteSet(S \ {x}) /\ Cardinality(S \ {x}) = n - 1
    BY FS_RemoveElement
  <2>3. IsFiniteSet(ahead[x]) /\ Cardinality(ahead[x]) <= n - 1
    BY <2>1, <2>2, FS_Subset
  <2>4. Cardinality(ahead[x]) \in Nat
    BY <2>3, FS_CardinalityType
  <2> QED BY <1>1, <2>3, <2>4
<1>3. ASSUME NEW x \in S, NEW y \in S, y \in ahead[x] PROVE pos[y] < pos[x]
  <2>1. ahead[y] \subseteq ahead[x] /\ ahead[y] # ahead[x]
    BY <1>3
  <2>2. Cardinality(ahead[y]) <= Cardinality(ahead[x]) /\ Cardinality(ahead[y]) # Cardinality(ahead[x])
    BY <1>2, <2>1, FS_Subset
  <2> QED BY <1>2, <2>2
<1> HIDE DEF n
<1>4. \A x, y \in S : pos[x] = pos[y] => x = y
  <2> SUFFICES ASSUME NEW x \in S, NEW y \in S, x # y PROVE pos[x] # pos[y]
    OBVIOUS
  <2>1. pos[x] < pos[y] \/ pos[y] < pos[x]
    <3> HIDE DEF pos
    <3> QED BY <1>3
  <2>2. pos[x] \in Int /\ pos[y] \in Int
    BY <1>1, <1>2
  <2> HIDE DEF pos
  <2> QED BY <2>1, <2>2
<1>5. IsFiniteSet(low) /\ Cardinality(low) = n
  BY <1>1, FS_Interval
<1>6. pos \in Injection(S, low)
  <2>1. pos \in [S -> low]
    BY <1>2
  <2> HIDE DEF pos, low
  <2> QED BY <1>4, <2>1 DEF Injection, IsInjective
<1>7. pos \in Surjection(S, low)
  <2> HIDE DEF pos, low
  <2> QED BY <1>5, <1>6, FS_Injection DEF n
<1>8. first \subseteq S /\ IsFiniteSet(first)
  BY FS_Subset
<1>9. m \in Nat /\ m <= n
  BY <1>1 DEF n
<1>10. Cardinality(first) = m
  <2> DEFINE room == 0 .. m - 1
             at == [x \in first |-> pos[x]]
  <2>1. IsFiniteSet(room) /\ Cardinality(room) = m
    BY <1>9, FS_Interval
  <2>2. at \in [first -> room]
    <3> SUFFICES ASSUME NEW x \in first PROVE pos[x] \in room
      OBVIOUS
    <3>1. pos[x] \in low /\ pos[x] < m
      BY <1>2
    <3> HIDE DEF pos
    <3> QED BY <1>9, <3>1
  <2>3. \A x, y \in first : at[x] = at[y] => x = y
    <3> HIDE DEF pos
    <3> QED BY <1>4
  <2>4. \A z \in room : \E x \in first : at[x] = z
    <3> SUFFICES ASSUME NEW z \in room PROVE \E x \in first : at[x] = z
      OBVIOUS
    <3>1. z \in low /\ z < m
      BY <1>1, <1>9
    <3> HIDE DEF pos, low
    <3>2. PICK x \in S : pos[x] = z
      BY <1>7, <3>1 DEF Surjection
    <3> QED BY <3>1, <3>2
  <2> HIDE DEF at, first, room
  <2>5. at \in Bijection(first, room)
    BY <2>2, <2>3, <2>4 DEF Bijection, Injection, Surjection, IsInjective
  <2>6. ExistsBijection(first, room)
    BY <2>5 DEF ExistsBijection
  <2> QED BY <1>8, <2>1, <2>6, FS_Bijection
<1>11. ASSUME NEW x \in S, NEW y \in S, pos[x] < m, ~(pos[y] < m) PROVE x \in ahead[y]
  <2>1. x # y
    BY <1>11
  <2> SUFFICES ASSUME y \in ahead[x] PROVE FALSE
    BY <2>1
  <2>2. pos[y] < pos[x]
    BY <1>3
  <2>3. pos[x] \in Nat /\ pos[y] \in Nat
    BY <1>2
  <2> HIDE DEF pos
  <2> QED BY <1>9, <1>11, <2>2, <2>3
<1> QED BY <1>10, <1>11

(***************************************************************************)
(* Lists of numbers.                                                        *)

\* up[k] is what the first k numbers of a list come to.
SumsTo(up, s) ==
  /\ up \in [0 .. Len(s) -> Nat] /\ up[0] = 0
  /\ \A n \in 1 .. Len(s) : up[n] = up[n - 1] + s[n]

\* The sum of a list is what its numbers come to, one after the other.
LEMMA SumSteps ==
  ASSUME NEW s \in Seq(Nat)
  PROVE  \E up : SumsTo(up, s) /\ AddUp(s) = up[Len(s)]
<1> DEFINE V == Nat
           last == Len(s)
           step == [n \in 1 .. last |-> [v \in V |-> v + s[n]]]
           D(f, n) == IF n = 0 THEN 0 ELSE f[n - 1] + s[n]
           left == CHOOSE f : f = [n \in 0 .. Len(s) |-> D(f, n)]
<1>1. last \in Nat /\ 0 \in V /\ step \in [1 .. last -> [V -> V]] /\ \A n \in 1 .. last : s[n] \in Nat
  OBVIOUS
<1>2. \A n \in 1 .. last : \A v \in V : step[n][v] = v + s[n]
  OBVIOUS
<1>3. PICK f : Stepwise(f, last, V, 0, step)
  <2> HIDE DEF V, last, step
  <2> QED BY <1>1, StepwiseExists
<1>4. f \in [0 .. last -> V] /\ f[0] = 0 /\ \A n \in 1 .. last : f[n] = step[n][f[n - 1]]
  <2> HIDE DEF V, last, step
  <2> QED BY <1>3 DEF Stepwise
<1>5. \A n \in 1 .. last : f[n] = f[n - 1] + s[n]
  <2> SUFFICES ASSUME NEW n \in 1 .. last PROVE f[n] = f[n - 1] + s[n]
    OBVIOUS
  <2>1. n - 1 \in 0 .. last /\ f[n] = step[n][f[n - 1]]
    <3> HIDE DEF step, V
    <3> QED BY <1>1, <1>4
  <2>2. f[n - 1] \in V
    BY <1>4, <2>1
  <2> HIDE DEF step, V, last
  <2> QED BY <1>2, <2>1, <2>2
<1>6. left = [n \in 0 .. Len(s) |-> D(left, n)]
  <2>1. \A n \in 0 .. last : f[n] = D(f, n)
    <3> HIDE DEF step, V
    <3> QED BY <1>1, <1>4, <1>5
  <2>2. f = [n \in 0 .. Len(s) |-> D(f, n)]
    <3> HIDE DEF step, V, D
    <3> QED BY <1>4, <2>1
  <2> QED BY <2>2
<1>7. AddUp(s) = left[Len(s)]
  BY DEF AddUp
<1> HIDE DEF left
<1>8. \A n \in 0 .. last : left[n] = D(left, n)
  <2> HIDE DEF D
  <2> QED BY <1>6
<1>9. left[0] = 0 /\ \A n \in 1 .. last : left[n] = left[n - 1] + s[n]
  BY <1>1, <1>8
<1> DEFINE T == {n \in 0 .. last : left[n] = f[n]}
<1>10. 0 \in T
  <2> HIDE DEF V, step
  <2> QED BY <1>1, <1>4, <1>9
<1>11. ASSUME NEW n \in 0 .. last - 1, n \in T PROVE n + 1 \in T
  <2>1. n + 1 \in 1 .. last /\ n + 1 \in 0 .. last /\ (n + 1) - 1 = n
    BY <1>1
  <2> HIDE DEF V, step, last, D
  <2> QED BY <1>5, <1>9, <1>11, <2>1
<1>12. 0 .. last \subseteq T
  <2> HIDE DEF T, last
  <2> QED BY <1>1, <1>10, <1>11, UpTo
<1>13. left[Len(s)] = f[Len(s)]
  <2> HIDE DEF V, step, D
  <2> QED BY <1>1, <1>12
<1>14. SumsTo(f, s)
  <2> HIDE DEF step, D
  <2> QED BY <1>4, <1>5 DEF SumsTo
<1> QED BY <1>7, <1>13, <1>14

\* There is one way to add up.
LEMMA SumsOnce ==
  ASSUME NEW s \in Seq(Nat), NEW k \in 0 .. Len(s), NEW up, SumsTo(up, s), NEW part,
         SumsTo(part, SubSeq(s, 1, k))
  PROVE  part[k] = up[k]
<1> DEFINE r == SubSeq(s, 1, k)
           T == {n \in 0 .. k : part[n] = up[n]}
<1>1. Len(r) = k /\ k \in Nat /\ Len(s) \in Nat /\ \A n \in 1 .. k : r[n] = s[n]
  OBVIOUS
<1> HIDE DEF r
<1>2. 0 \in T
  BY <1>1 DEF SumsTo, r
<1>3. ASSUME NEW n \in 0 .. k - 1, n \in T PROVE n + 1 \in T
  <2>1. n + 1 \in 1 .. k /\ n + 1 \in 1 .. Len(s) /\ n + 1 \in 0 .. k /\ (n + 1) - 1 = n
    BY <1>1
  <2>2. part[n + 1] = part[n] + r[n + 1] /\ up[n + 1] = up[n] + s[n + 1]
    BY <1>1, <2>1 DEF SumsTo, r
  <2> QED BY <1>1, <1>3, <2>1, <2>2
<1>4. 0 .. k \subseteq T
  <2> HIDE DEF T
  <2> QED BY <1>1, <1>2, <1>3, UpTo
<1> QED BY <1>1, <1>4

\* One more number.
LEMMA SumsAt ==
  ASSUME NEW s \in Seq(Nat), NEW up, SumsTo(up, s), NEW k \in 0 .. Len(s) - 1
  PROVE  up[k] \in Nat /\ s[k + 1] \in Nat /\ up[k + 1] = up[k] + s[k + 1] /\ k \in Nat /\ k + 1 \in 1 .. Len(s)
<1>1. k + 1 \in 1 .. Len(s) /\ k \in 0 .. Len(s) /\ (k + 1) - 1 = k /\ s[k + 1] \in Nat /\ k \in Nat
  OBVIOUS
<1>2. up[k + 1] = up[(k + 1) - 1] + s[k + 1]
  BY <1>1, Zenon DEF SumsTo
<1>3. up[k] \in Nat
  <2>1. up \in [0 .. Len(s) -> Nat]
    BY Zenon DEF SumsTo
  <2> QED BY <1>1, <2>1
<1> QED BY <1>1, <1>2, <1>3

\* What the first k come to is the sum of the first k, and grows with k.
LEMMA SumPrefixes ==
  ASSUME NEW s \in Seq(Nat)
  PROVE  \E up : /\ SumsTo(up, s) /\ AddUp(s) = up[Len(s)]
                 /\ \A k \in 0 .. Len(s) : AddUp(SubSeq(s, 1, k)) = up[k]
                 /\ \A k \in 0 .. Len(s) : \A i \in 0 .. k : up[i] <= up[k]
<1>1. PICK up : SumsTo(up, s) /\ AddUp(s) = up[Len(s)]
  BY SumSteps
<1>2. ASSUME NEW k \in 0 .. Len(s) PROVE AddUp(SubSeq(s, 1, k)) = up[k]
  <2> DEFINE r == SubSeq(s, 1, k)
  <2>1. r \in Seq(Nat) /\ Len(r) = k
    OBVIOUS
  <2>2. PICK part : SumsTo(part, r) /\ AddUp(r) = part[Len(r)]
    <3> HIDE DEF r
    <3> QED BY <2>1, SumSteps
  <2>3. part[k] = up[k]
    BY <1>1, <2>2, SumsOnce
  <2> QED BY <2>1, <2>2, <2>3
<1> DEFINE T == {k \in 0 .. Len(s) : \A j \in 0 .. k : up[j] <= up[k]}
<1>3. 0 \in T
  BY <1>1 DEF SumsTo
<1>4. ASSUME NEW k \in 0 .. Len(s) - 1, k \in T PROVE k + 1 \in T
  <2>2. /\ up[k] \in Nat /\ s[k + 1] \in Nat /\ up[k + 1] = up[k] + s[k + 1] /\ k \in Nat
        /\ k + 1 \in 1 .. Len(s)
    BY <1>1, SumsAt
  <2>1. Len(s) \in Nat
    OBVIOUS
  <2>3. ASSUME NEW j \in 0 .. k + 1 PROVE up[j] <= up[k + 1]
    <3>1. up[j] \in Nat
      <4>1. up \in [0 .. Len(s) -> Nat]
        BY <1>1, Zenon DEF SumsTo
      <4> QED BY <2>1, <2>2, <4>1
    <3>2. CASE j = k + 1
      BY <2>2, <3>2
    <3>3. CASE j # k + 1
      <4>1. j \in 0 .. k
        BY <3>3
      <4>2. up[j] <= up[k]
        BY <1>4, <4>1
      <4> QED BY <2>1, <2>2, <3>1, <4>2
    <3> QED BY <3>2, <3>3
  <2> QED BY <2>1, <2>3
<1>5. 0 .. Len(s) \subseteq T
  <2> HIDE DEF T
  <2>1. Len(s) \in Nat
    OBVIOUS
  <2> QED BY <2>1, <1>3, <1>4, UpTo
<1>6. \A k \in 0 .. Len(s) : \A j \in 0 .. k : up[j] <= up[k]
  BY <1>5
<1> QED BY <1>1, <1>2, <1>6

\* The sums of the first numbers of a list, each from the one before; none is more than the sum.
LEMMA SumsBefore ==
  ASSUME NEW s \in Seq(Nat)
  PROVE  /\ AddUp(s) \in Nat /\ AddUp(SubSeq(s, 1, 0)) = 0 /\ AddUp(SubSeq(s, 1, Len(s))) = AddUp(s)
         /\ \A k \in 0 .. Len(s) : AddUp(SubSeq(s, 1, k)) \in Nat /\ AddUp(SubSeq(s, 1, k)) <= AddUp(s)
         /\ \A k \in 1 .. Len(s) : AddUp(SubSeq(s, 1, k)) = AddUp(SubSeq(s, 1, k - 1)) + s[k]
         /\ \A k \in 0 .. Len(s) : \A j \in 0 .. k : AddUp(SubSeq(s, 1, j)) <= AddUp(SubSeq(s, 1, k))
<1>1. PICK up : /\ SumsTo(up, s) /\ AddUp(s) = up[Len(s)]
                /\ \A k \in 0 .. Len(s) : AddUp(SubSeq(s, 1, k)) = up[k]
                /\ \A k \in 0 .. Len(s) : \A i \in 0 .. k : up[i] <= up[k]
  BY SumPrefixes
<1>2. Len(s) \in Nat /\ 0 \in 0 .. Len(s) /\ Len(s) \in 0 .. Len(s)
  OBVIOUS
<1> DEFINE P(k) == AddUp(SubSeq(s, 1, k))
           n == Len(s)
           total == AddUp(s)
<1>3. up \in [0 .. n -> Nat] /\ up[0] = 0 /\ \A k \in 1 .. n : up[k] = up[k - 1] + s[k]
  BY <1>1, Zenon DEF SumsTo
<1>4. \A k \in 0 .. n : P(k) = up[k]
  BY <1>1
<1>5. \A k \in 0 .. n : \A i \in 0 .. k : up[i] <= up[k]
  BY <1>1
<1>6. total = up[n] /\ n \in Nat
  BY <1>1, <1>2
<1>7. /\ total \in Nat /\ P(0) = 0 /\ P(n) = total
      /\ \A k \in 0 .. n : P(k) \in Nat /\ P(k) <= total
      /\ \A k \in 1 .. n : P(k) = P(k - 1) + s[k]
      /\ \A k \in 0 .. n : \A j \in 0 .. k : P(j) <= P(k)
  <2> HIDE DEF P, n, total
  <2>1. \A k \in 1 .. n : k - 1 \in 0 .. n /\ k \in 0 .. n
    BY <1>6
  <2>2. \A k \in 0 .. n : \A j \in 0 .. k : j \in 0 .. n
    BY <1>6
  <2> QED BY <1>3, <1>4, <1>5, <1>6, <2>1, <2>2
<1> QED BY <1>7

\* A place among the units of a list is in one number only, at one place.
LEMMA PlaceOnce ==
  ASSUME NEW s \in Seq(Nat), NEW k \in 1 .. Len(s), NEW m \in 1 .. Len(s), NEW i \in Nat, NEW j \in Nat,
         i < s[k], j < s[m], AddUp(SubSeq(s, 1, k - 1)) + i = AddUp(SubSeq(s, 1, m - 1)) + j
  PROVE  k = m /\ i = j
<1> DEFINE P(n) == AddUp(SubSeq(s, 1, n))
           last == Len(s)
<1>1. /\ \A n \in 0 .. last : P(n) \in Nat
      /\ \A n \in 1 .. last : P(n) = P(n - 1) + s[n]
      /\ \A n \in 0 .. last : \A h \in 0 .. n : P(h) <= P(n)
  BY SumsBefore
<1>2. P(k - 1) + i = P(m - 1) + j /\ last \in Nat /\ s[k] \in Nat /\ s[m] \in Nat /\ k \in 1 .. last /\ m \in 1 .. last
  OBVIOUS
<1> HIDE DEF P, last
<1>3. k - 1 \in 0 .. last /\ m - 1 \in 0 .. last /\ k \in 0 .. last /\ m \in 0 .. last
  BY <1>2
<1>4. P(k - 1) \in Nat /\ P(m - 1) \in Nat /\ P(k) = P(k - 1) + s[k] /\ P(m) = P(m - 1) + s[m]
  BY <1>1, <1>2, <1>3
<1>5. ASSUME k < m PROVE FALSE
  <2>1. k \in 0 .. m - 1
    BY <1>2, <1>5
  <2>2. P(k) <= P(m - 1)
    BY <1>1, <1>3, <2>1
  <2> QED BY <1>2, <1>4, <2>2
<1>6. ASSUME m < k PROVE FALSE
  <2>1. m \in 0 .. k - 1
    BY <1>2, <1>6
  <2>2. P(m) <= P(k - 1)
    BY <1>1, <1>3, <2>1
  <2> QED BY <1>2, <1>4, <2>2
<1>7. k = m
  BY <1>2, <1>5, <1>6
<1> QED BY <1>2, <1>4, <1>7

\* And in one it is, short of the sum.
LEMMA PlaceSome ==
  ASSUME NEW s \in Seq(Nat), NEW g \in Nat, g < AddUp(s)
  PROVE  \E k \in 1 .. Len(s) : AddUp(SubSeq(s, 1, k - 1)) <= g /\ g < AddUp(SubSeq(s, 1, k))
<1> DEFINE P(n) == AddUp(SubSeq(s, 1, n))
           last == Len(s)
           T == {n \in 0 .. last : P(n) <= g}
<1>1. P(0) = 0 /\ P(last) = AddUp(s) /\ last \in Nat
  BY SumsBefore
<1>2. SUFFICES ASSUME \A k \in 1 .. last : ~(P(k - 1) <= g /\ g < P(k)) PROVE FALSE
  OBVIOUS
<1>7. \A k \in 1 .. last : P(k) \in Nat
  BY SumsBefore
<1>3. 0 \in T
  BY <1>1
<1>4. ASSUME NEW n \in 0 .. last - 1, n \in T PROVE n + 1 \in T
  <2>1. n + 1 \in 1 .. last /\ (n + 1) - 1 = n /\ n + 1 \in 0 .. last
    BY <1>1
  <2>2. P(n) <= g
    BY <1>4
  <2> HIDE DEF P, last
  <2>3. P((n + 1) - 1) <= g /\ P(n + 1) \in Nat
    BY <1>7, <2>1, <2>2
  <2>4. P(n + 1) <= g
    BY <1>2, <2>1, <2>3
  <2> QED BY <2>1, <2>4 DEF T
<1>5. last \in T
  <2> HIDE DEF T, last
  <2>1. 0 .. last \subseteq T
    BY <1>1, <1>3, <1>4, UpTo
  <2> QED BY <1>1, <2>1
<1>6. AddUp(s) \in Nat /\ AddUp(s) <= g
  BY <1>1, <1>5, SumsBefore
<1> QED BY <1>6
=============================================================================
