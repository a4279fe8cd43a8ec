-------------------------- MODULE EvaluationProofs --------------------------
(***************************************************************************)
(* What an evaluation reports, for any number of seeds, families and pairs *)
(* and any scores: that no family lacks pairs in a role, that totals are   *)
(* the sums of their parts, that what is undefined is told from zero, what *)
(* pooling may hide, that the findings drawn from the same reports agree,  *)
(* that no other threshold calibrates an arm better, and that both tables  *)
(* tell what a run found.  The reports are sums over finite sets, about    *)
(* which the first section has what is needed; the rest follows from an    *)
(* invariant saying that what was found still follows from what it was     *)
(* found of.                                                               *)
(***************************************************************************)
EXTENDS Tables, TLAPS, FiniteSetTheorems, WellFoundedInduction

----------------------------------------------------------------------------
(* Sums over finite sets                                                    *)

(* Every non-empty set of natural numbers has a smallest.                   *)
LEMMA SmallestNumber ==
  ASSUME NEW S, S \subseteq Nat, S # {}
  PROVE  \E m \in S : \A n \in S : m <= n
<1> DEFINE less == OpToRel(<, Nat)
<1>1. IsWellFoundedOn(less, Nat)
  BY NatLessThanWellFounded
<1>2. \A m, n \in Nat : m < n => <<m, n>> \in less
  BY DEF OpToRel
<1> HIDE DEF less
<1>3. PICK m \in S : \A n \in S : <<n, m>> \notin less
  BY <1>1, WFMin
<1>4. ASSUME NEW n \in S PROVE m <= n
  <2>1. m \in Nat /\ n \in Nat
    OBVIOUS
  <2>2. ~(n < m)
    BY <1>2, <1>3, <2>1
  <2> QED
    BY <2>1, <2>2
<1> QED
  BY <1>4

\* An element of a set, and the others.
Some(T) == CHOOSE x \in T : TRUE

Rest(T) == T \ {Some(T)}

\* g is the recursive function behind SumFunction(v), over the sets of D.
Sums(g, v, D) ==
  g = [T \in D |-> IF T = {} THEN 0 ELSE v[Some(T)] + g[Rest(T)]]

(* What is left of a set without one of its elements.                       *)
LEMMA RestIsSmaller ==
  ASSUME NEW S, IsFiniteSet(S), NEW T \in SUBSET S, T # {}
  PROVE  /\ Some(T) \in T /\ Some(T) \in S /\ Rest(T) \in SUBSET S
         /\ IsFiniteSet(T) /\ IsFiniteSet(Rest(T))
         /\ Cardinality(T) \in Nat /\ Cardinality(Rest(T)) = Cardinality(T) - 1
         /\ Cardinality(Rest(T)) \in Nat
         /\ T = Rest(T) \cup {Some(T)} /\ Some(T) \notin Rest(T)
<1>1. Some(T) \in T
  BY DEF Some
<1>2. IsFiniteSet(T)
  BY FS_Subset
<1> QED
  BY <1>1, <1>2, FS_RemoveElement, FS_CardinalityType DEF Rest

(* The recursion is well defined, whichever element is taken first.         *)
LEMMA SumsExist ==
  ASSUME NEW S, IsFiniteSet(S), NEW v
  PROVE  \E g : Sums(g, v, SUBSET S)
<1> DEFINE D(k) == {T \in SUBSET S : Cardinality(T) <= k}
           Bad == {k \in Nat : ~ \E g : Sums(g, v, D(k))}
<1>1. ASSUME Bad # {} PROVE FALSE
  <2>1. PICK k \in Bad : \A j \in Bad : k <= j
    <3>1. Bad \subseteq Nat
      OBVIOUS
    <3> HIDE DEF Bad
    <3> QED
      BY <1>1, <3>1, SmallestNumber
  <2>2. CASE k = 0
    <3>1. \A T \in D(0) : T = {}
      <4> SUFFICES ASSUME NEW T \in D(0), T # {} PROVE FALSE
        OBVIOUS
      <4> QED
        BY RestIsSmaller
    <3>2. Sums([T \in D(0) |-> 0], v, D(0))
      BY <3>1 DEF Sums
    <3> QED
      BY <2>1, <2>2, <3>2
  <2>3. CASE k # 0
    <3>1. k \in Nat /\ k - 1 \in Nat /\ k - 1 \notin Bad
      <4>1. k \in Nat
        BY <2>1
      <4>2. k - 1 \in Nat /\ ~(k <= k - 1)
        BY <2>3, <4>1
      <4> HIDE DEF Bad
      <4> QED
        BY <2>1, <4>1, <4>2
    <3>2. PICK g : Sums(g, v, D(k - 1))
      BY <3>1
    <3> DEFINE h == [T \in D(k) |-> IF T = {} THEN 0 ELSE v[Some(T)] + g[Rest(T)]]
    <3>3. ASSUME NEW T \in D(k), T # {}
          PROVE  h[Rest(T)] = g[Rest(T)]
      <4>1. Rest(T) \in D(k - 1) /\ Rest(T) \in D(k)
        BY <3>1, <3>3, RestIsSmaller
      <4>2. g[Rest(T)] = IF Rest(T) = {} THEN 0 ELSE v[Some(Rest(T))] + g[Rest(Rest(T))]
        <5> DEFINE G == [U \in D(k - 1) |-> IF U = {} THEN 0 ELSE v[Some(U)] + g[Rest(U)]]
        <5>1. g = G
          BY <3>2 DEF Sums
        <5>2. G[Rest(T)] = IF Rest(T) = {} THEN 0 ELSE v[Some(Rest(T))] + g[Rest(Rest(T))]
          BY <4>1
        <5> QED
          BY <5>1, <5>2
      <4> QED
        BY <4>1, <4>2
    <3>4. Sums(h, v, D(k))
      <4>1. h = [T \in D(k) |-> IF T = {} THEN 0 ELSE v[Some(T)] + h[Rest(T)]]
        BY <3>3
      <4> QED
        BY <4>1 DEF Sums
    <3> QED
      BY <2>1, <3>4
  <2> QED
    BY <2>2, <2>3
<1>2. Cardinality(S) \in Nat
  BY FS_CardinalityType
<1>3. D(Cardinality(S)) = SUBSET S
  <2>1. ASSUME NEW T \in SUBSET S PROVE Cardinality(T) <= Cardinality(S)
    BY FS_Subset
  <2> QED
    BY <2>1
<1> QED
  BY <1>1, <1>2, <1>3

\* What SumFunction sums with is such a function.
LEMMA SumIs ==
  ASSUME NEW v, IsFiniteSet(DOMAIN v)
  PROVE  \E g : Sums(g, v, SUBSET DOMAIN v) /\ SumFunction(v) = g[DOMAIN v]
<1> DEFINE it == CHOOSE g : Sums(g, v, SUBSET DOMAIN v)
<1>1. SumFunction(v) = it[DOMAIN v]
  BY DEF SumFunction, SumFunctionOnSet, FoldFunctionOnSet, MapThenFoldSet, Sums, Some, Rest
<1>2. \E g : Sums(g, v, SUBSET DOMAIN v)
  BY SumsExist
<1>3. Sums(it, v, SUBSET DOMAIN v)
  BY <1>2
<1> QED
  BY <1>1, <1>3

\* What such a function is at a set.
LEMMA SumsAt ==
  ASSUME NEW S, NEW v, NEW g, Sums(g, v, SUBSET S), NEW T \in SUBSET S
  PROVE  g[T] = IF T = {} THEN 0 ELSE v[Some(T)] + g[Rest(T)]
<1> DEFINE G == [U \in SUBSET S |-> IF U = {} THEN 0 ELSE v[Some(U)] + g[Rest(U)]]
<1>1. g = G
  BY DEF Sums
<1>2. G[T] = IF T = {} THEN 0 ELSE v[Some(T)] + g[Rest(T)]
  OBVIOUS
<1> QED
  BY <1>1, <1>2

(* What a sum is, in steps.                                                 *)
LEMMA SumSteps ==
  ASSUME NEW S, IsFiniteSet(S), NEW v, DOMAIN v = S
  PROVE  \E g : /\ SumFunction(v) = g[S] /\ g[{}] = 0
                /\ \A T \in SUBSET S : T # {} => g[T] = v[Some(T)] + g[Rest(T)]
<1>1. PICK g : Sums(g, v, SUBSET S) /\ SumFunction(v) = g[S]
  BY SumIs
<1>2. g[{}] = 0
  BY <1>1, SumsAt
<1>3. ASSUME NEW T \in SUBSET S, T # {} PROVE g[T] = v[Some(T)] + g[Rest(T)]
  BY <1>1, <1>3, SumsAt
<1> QED
  BY <1>1, <1>2, <1>3

(* Induction over the subsets of a finite set: what holds of the empty one, *)
(* and of each if it holds of that without some one element, holds of all.  *)
LEMMA EverySubsetOf ==
  ASSUME NEW S, IsFiniteSet(S), NEW Good, {} \in Good,
         \A T \in SUBSET S : T # {} => \E x \in T : T \ {x} \in Good => T \in Good
  PROVE  S \in Good
<1> DEFINE Bad == {Cardinality(T) : T \in {U \in SUBSET S : U \notin Good}}
<1>1. ASSUME NEW T \in SUBSET S PROVE IsFiniteSet(T) /\ Cardinality(T) \in Nat
  BY FS_Subset, FS_CardinalityType
<1>2. Bad \subseteq Nat
  BY <1>1
<1>3. ASSUME S \notin Good PROVE FALSE
  <2>1. Bad # {}
    BY <1>3
  <2>2. PICK k \in Bad : \A j \in Bad : k <= j
    <3> HIDE DEF Bad
    <3> QED
      BY <1>2, <2>1, SmallestNumber
  <2>3. PICK T \in SUBSET S : T \notin Good /\ k = Cardinality(T)
    BY <2>2
  <2>4. PICK x \in T : T \ {x} \notin Good
    BY <2>3
  <2>5. /\ T \ {x} \in SUBSET S /\ Cardinality(T \ {x}) = Cardinality(T) - 1
        /\ Cardinality(T) \in Nat
    BY <1>1, FS_RemoveElement
  <2>6. k <= Cardinality(T \ {x})
    BY <2>2, <2>4, <2>5
  <2> QED
    BY <2>3, <2>5, <2>6
<1> QED
  BY <1>3

\* The same with the element that is taken first.
LEMMA EverySubset ==
  ASSUME NEW S, IsFiniteSet(S), NEW Good, {} \in Good,
         \A T \in SUBSET S : T # {} /\ Rest(T) \in Good => T \in Good
  PROVE  S \in Good
<1>1. ASSUME NEW T \in SUBSET S, T # {}
      PROVE  \E x \in T : T \ {x} \in Good => T \in Good
  <2>1. Some(T) \in T /\ (T \ {Some(T)} \in Good => T \in Good)
    BY <1>1 DEF Some, Rest
  <2> QED
    BY <2>1
<1> QED
  BY <1>1, EverySubsetOf

(* A sum of numbers is one, and is positive if and only if one of them is.  *)
LEMMA SumOfNumbers ==
  ASSUME NEW S, IsFiniteSet(S), NEW v \in [S -> Nat]
  PROVE  /\ SumFunction(v) \in Nat
         /\ SumFunction(v) > 0 <=> \E x \in S : v[x] > 0
<1>1. PICK g : /\ SumFunction(v) = g[S] /\ g[{}] = 0
                /\ \A T \in SUBSET S : T # {} => g[T] = v[Some(T)] + g[Rest(T)]
  BY SumSteps
<1> DEFINE Good == {T \in SUBSET S : g[T] \in Nat /\ (g[T] > 0 <=> \E x \in T : v[x] > 0)}
<1>2. {} \in Good
  BY <1>1
<1>3. ASSUME NEW T \in SUBSET S, T # {}, Rest(T) \in Good PROVE T \in Good
  <2>1. g[T] = v[Some(T)] + g[Rest(T)]
    BY <1>1, <1>3
  <2>2. v[Some(T)] \in Nat /\ T = Rest(T) \cup {Some(T)} /\ g[Rest(T)] \in Nat
    BY <1>3, RestIsSmaller
  <2>3. g[T] > 0 <=> v[Some(T)] > 0 \/ g[Rest(T)] > 0
    BY <2>1, <2>2
  <2>4. g[Rest(T)] > 0 <=> \E x \in Rest(T) : v[x] > 0
    BY <1>3
  <2>5. g[T] > 0 <=> \E x \in T : v[x] > 0
    BY <2>2, <2>3, <2>4
  <2> QED
    BY <2>1, <2>2, <2>5
<1> HIDE DEF Good
<1>4. S \in Good
  BY <1>2, <1>3, EverySubset
<1> QED
  BY <1>1, <1>4 DEF Good

(* Sets without a common element have as many elements together as the sum. *)
LEMMA SumOfCardinalities ==
  ASSUME NEW S, IsFiniteSet(S), NEW A, \A x \in S : IsFiniteSet(A[x]),
         \A x, y \in S : x # y => A[x] \cap A[y] = {}
  PROVE  /\ IsFiniteSet(UNION {A[x] : x \in S})
         /\ SumFunction([x \in S |-> Cardinality(A[x])]) = Cardinality(UNION {A[x] : x \in S})
<1> DEFINE v == [x \in S |-> Cardinality(A[x])]
           U(T) == UNION {A[x] : x \in T}
<1>1. PICK g : /\ SumFunction(v) = g[S] /\ g[{}] = 0
                /\ \A T \in SUBSET S : T # {} => g[T] = v[Some(T)] + g[Rest(T)]
  <2>1. DOMAIN v = S
    OBVIOUS
  <2> HIDE DEF v
  <2> QED
    BY <2>1, SumSteps
<1> DEFINE Good == {T \in SUBSET S : IsFiniteSet(U(T)) /\ g[T] = Cardinality(U(T))}
<1>2. {} \in Good
  <2>1. U({}) = {}
    OBVIOUS
  <2> QED
    BY <1>1, <2>1, FS_EmptySet
<1>3. ASSUME NEW T \in SUBSET S, T # {}, Rest(T) \in Good PROVE T \in Good
  <2> DEFINE x == Some(T)
  <2>1. x \in S /\ Rest(T) \subseteq S /\ T = Rest(T) \cup {x} /\ x \notin Rest(T)
    BY <1>3, RestIsSmaller
  <2>2. g[T] = Cardinality(A[x]) + g[Rest(T)]
    BY <1>1, <1>3, <2>1
  <2>3. U(T) = A[x] \cup U(Rest(T)) /\ A[x] \cap U(Rest(T)) = {}
    BY <2>1
  <2>4. /\ IsFiniteSet(A[x]) /\ IsFiniteSet(U(Rest(T)))
        /\ g[Rest(T)] = Cardinality(U(Rest(T)))
    BY <1>3, <2>1
  <2> HIDE DEF U, x
  <2>5. /\ IsFiniteSet(U(T))
        /\ Cardinality(U(T)) = Cardinality(A[x]) + Cardinality(U(Rest(T))) - 0
    BY <2>3, <2>4, FS_Union, FS_EmptySet
  <2>6. Cardinality(A[x]) \in Nat /\ Cardinality(U(Rest(T))) \in Nat
    BY <2>4, FS_CardinalityType
  <2> QED
    BY <2>2, <2>4, <2>5, <2>6
<1> HIDE DEF Good
<1>4. S \in Good
  BY <1>2, <1>3, EverySubset
<1> QED
  BY <1>1, <1>4 DEF Good

\* A union of finitely many finite sets is finite.
LEMMA FiniteUnion ==
  ASSUME NEW S, IsFiniteSet(S), NEW A, \A x \in S : IsFiniteSet(A[x])
  PROVE  IsFiniteSet(UNION {A[x] : x \in S})
<1> DEFINE U(T) == UNION {A[x] : x \in T}
           Good == {T \in SUBSET S : IsFiniteSet(U(T))}
<1>1. {} \in Good
  <2>1. U({}) = {}
    OBVIOUS
  <2> QED
    BY <2>1, FS_EmptySet
<1>2. ASSUME NEW T \in SUBSET S, T # {}, Rest(T) \in Good PROVE T \in Good
  <2>1. Some(T) \in S /\ T = Rest(T) \cup {Some(T)}
    BY <1>2, RestIsSmaller
  <2>2. U(T) = A[Some(T)] \cup U(Rest(T))
    BY <2>1
  <2>3. IsFiniteSet(A[Some(T)]) /\ IsFiniteSet(U(Rest(T)))
    BY <1>2, <2>1
  <2> HIDE DEF U
  <2> QED
    BY <2>2, <2>3, FS_Union
<1> HIDE DEF Good
<1>3. S \in Good
  BY <1>1, <1>2, EverySubset
<1> QED
  BY <1>3 DEF Good

(* An inequality between weighted numbers that holds everywhere holds of    *)
(* the sums.                                                                *)
LEMMA SumOfShares ==
  ASSUME NEW S, IsFiniteSet(S), S # {},
         NEW u \in [S -> Nat], NEW v \in [S -> Nat], NEW w \in [S -> Nat],
         NEW i \in Int, NEW j \in Int, \A x \in S : 0 < i * u[x] + j * (v[x] + w[x])
  PROVE  0 < i * SumFunction(u) + j * (SumFunction(v) + SumFunction(w))
<1>1. PICK f : /\ SumFunction(u) = f[S] /\ f[{}] = 0
                /\ \A T \in SUBSET S : T # {} => f[T] = u[Some(T)] + f[Rest(T)]
  BY SumSteps
<1>2. PICK g : /\ SumFunction(v) = g[S] /\ g[{}] = 0
                /\ \A T \in SUBSET S : T # {} => g[T] = v[Some(T)] + g[Rest(T)]
  BY SumSteps
<1>3. PICK h : /\ SumFunction(w) = h[S] /\ h[{}] = 0
                /\ \A T \in SUBSET S : T # {} => h[T] = w[Some(T)] + h[Rest(T)]
  BY SumSteps
<1> DEFINE Good == {T \in SUBSET S :
                      /\ f[T] \in Nat /\ g[T] \in Nat /\ h[T] \in Nat
                      /\ IF T = {} THEN f[T] = 0 /\ g[T] = 0 /\ h[T] = 0
                         ELSE 0 < i * f[T] + j * (g[T] + h[T])}
<1>4. {} \in Good
  BY <1>1, <1>2, <1>3
<1>5. ASSUME NEW T \in SUBSET S, T # {}, Rest(T) \in Good PROVE T \in Good
  <2> DEFINE x == Some(T)
             R == Rest(T)
  <2>1. f[T] = u[x] + f[R] /\ g[T] = v[x] + g[R] /\ h[T] = w[x] + h[R]
    BY <1>1, <1>2, <1>3, <1>5
  <2>2. /\ u[x] \in Nat /\ v[x] \in Nat /\ w[x] \in Nat
        /\ 0 < i * u[x] + j * (v[x] + w[x])
    BY <1>5, RestIsSmaller
  <2>3. /\ f[R] \in Nat /\ g[R] \in Nat /\ h[R] \in Nat
        /\ 0 <= i * f[R] + j * (g[R] + h[R])
    <3>1. CASE R = {}
      BY <1>5, <3>1
    <3>2. CASE R # {}
      BY <1>5, <3>2
    <3> QED
      BY <3>1, <3>2
  <2>4. ASSUME NEW a \in Nat, NEW b \in Nat, NEW c \in Nat,
               NEW k \in Nat, NEW m \in Nat, NEW n \in Nat,
               0 < i * a + j * (b + c), 0 <= i * k + j * (m + n)
        PROVE  0 < i * (a + k) + j * ((b + m) + (c + n))
    <3> HIDE DEF x, R, Good
    <3>1. i * (a + k) + j * ((b + m) + (c + n)) = (i * a + j * (b + c)) + (i * k + j * (m + n))
      <4>1. i * (a + k) = i * a + i * k
        OBVIOUS
      <4>2. ASSUME NEW y \in Int, NEW z \in Int PROVE j * (y + z) = j * y + j * z
        <5> HIDE DEF x, R, Good
        <5> QED
          OBVIOUS
      <4>3. (b + m) + (c + n) = (b + c) + (m + n)
        OBVIOUS
      <4>4. j * ((b + c) + (m + n)) = j * (b + c) + j * (m + n)
        BY <4>2
      <4> QED
        BY <4>1, <4>3, <4>4
    <3>2. i * a + j * (b + c) \in Int /\ i * k + j * (m + n) \in Int
      OBVIOUS
    <3> QED
      BY <2>4, <3>1, <3>2
  <2> HIDE DEF x, R
  <2>5. 0 < i * f[T] + j * (g[T] + h[T])
    BY <2>1, <2>2, <2>3, <2>4
  <2>6. f[T] \in Nat /\ g[T] \in Nat /\ h[T] \in Nat
    BY <2>1, <2>2, <2>3
  <2> QED
    BY <1>5, <2>5, <2>6
<1> HIDE DEF Good
<1>6. S \in Good
  BY <1>4, <1>5, EverySubset
<1> QED
  BY <1>1, <1>2, <1>3, <1>6 DEF Good

----------------------------------------------------------------------------
(* Counts and figures                                                       *)

\* The pairs a count counts.
Matching(a, t, pairs, c) ==
  {p \in pairs : /\ c # "actual_positives" => Score(a, p) >= t
                 /\ c # "predicted_positives" => Label(p) = 1}

OfFamily(pairs, family) == {p \in pairs : FamilyOf(p) = family}

\* Counts are of the pairs that match; no true positive is not one of both
\* others.
LEMMA CountsAre ==
  ASSUME NEW a, NEW t, NEW pairs, IsFiniteSet(pairs)
  PROVE  /\ \A c \in Counted :
              /\ _counts(a, t, pairs)[c] = Cardinality(Matching(a, t, pairs, c))
              /\ _counts(a, t, pairs)[c] \in Nat
              /\ IsFiniteSet(Matching(a, t, pairs, c))
         /\ _counts(a, t, pairs).true_positives <= _counts(a, t, pairs).predicted_positives
         /\ _counts(a, t, pairs).true_positives <= _counts(a, t, pairs).actual_positives
         /\ _counts(a, t, pairs).true_positives > 0
              <=> \E p \in pairs : Score(a, p) >= t /\ Label(p) = 1
<1> DEFINE M(c) == Matching(a, t, pairs, c)
<1>1. /\ M("true_positives") = {p \in {q \in pairs : Score(a, q) >= t} : Label(p) = 1}
      /\ M("predicted_positives") = {q \in pairs : Score(a, q) >= t}
      /\ M("actual_positives") = {p \in pairs : Label(p) = 1}
  BY DEF Matching
<1>2. \A c \in Counted : _counts(a, t, pairs)[c] = Cardinality(M(c))
  BY <1>1 DEF _counts, Counted
<1>3. ASSUME NEW c \in Counted PROVE IsFiniteSet(M(c)) /\ Cardinality(M(c)) \in Nat
  <2>1. M(c) \subseteq pairs
    BY DEF Matching
  <2> QED
    BY <2>1, FS_Subset, FS_CardinalityType
<1>4. /\ M("true_positives") \subseteq M("predicted_positives")
      /\ M("true_positives") \subseteq M("actual_positives")
  BY <1>1
<1>5. "true_positives" \in Counted /\ "predicted_positives" \in Counted /\ "actual_positives" \in Counted
  BY DEF Counted
<1>6. /\ Cardinality(M("true_positives")) <= Cardinality(M("predicted_positives"))
      /\ Cardinality(M("true_positives")) <= Cardinality(M("actual_positives"))
  <2> HIDE DEF M
  <2> QED
    BY <1>3, <1>4, <1>5, FS_Subset
<1>7. Cardinality(M("true_positives")) > 0 <=> M("true_positives") # {}
  <2> HIDE DEF M
  <2> QED
    BY <1>3, <1>5, FS_EmptySet
<1>8. M("true_positives") # {} <=> \E p \in pairs : Score(a, p) >= t /\ Label(p) = 1
  BY <1>1
<1> HIDE DEF M
<1>9. /\ _counts(a, t, pairs)["true_positives"] = Cardinality(M("true_positives"))
      /\ _counts(a, t, pairs)["predicted_positives"] = Cardinality(M("predicted_positives"))
      /\ _counts(a, t, pairs)["actual_positives"] = Cardinality(M("actual_positives"))
  BY <1>2, <1>5
<1> QED
  BY <1>2, <1>3, <1>6, <1>7, <1>8, <1>9 DEF M

(* An F1 is there for a true positive only, and then it is 2PR/(P+R).       *)
LEMMA F1Is ==
  ASSUME NEW c, c.true_positives \in Nat, c.predicted_positives \in Nat,
         c.actual_positives \in Nat, c.true_positives <= c.predicted_positives,
         c.true_positives <= c.actual_positives
  PROVE  LET h == c.true_positives
             n == c.actual_positives + c.predicted_positives
         IN  /\ h > 0 => /\ Figures(c).f1 = <<2 * h * h, h * n>>
                         /\ Figures(c).f1 # None /\ 2 * h * h > 0 /\ h * n > 0
             /\ h = 0 => Figures(c).f1 = None
<1> DEFINE h == c.true_positives
           p == c.predicted_positives
           r == c.actual_positives
           P == _ratio(h, p)
           R == _ratio(h, r)
<1>1. Figures(c).f1 = _f1(P, R)
  BY DEF Figures
<1>2. CASE h = 0
  <2>1. CASE p = 0 \/ r = 0
    BY <1>1, <1>2, <2>1 DEF _ratio, _f1
  <2>2. CASE p # 0 /\ r # 0
    <3>1. P = <<0, p>> /\ R = <<0, r>> /\ P # None /\ R # None
      BY <1>2, <2>2, NoneAssumption DEF _ratio
    <3>2. _f1(P, R) = _ratio(2 * 0 * 0, 0 * r + 0 * p)
      BY <3>1 DEF _f1
    <3>3. 0 * r + 0 * p = 0
      OBVIOUS
    <3> QED
      BY <1>1, <1>2, <3>2, <3>3 DEF _ratio
  <2> QED
    BY <1>2, <2>1, <2>2
<1>3. CASE h > 0
  <2>1. p > 0 /\ r > 0
    BY <1>3
  <2>2. P = <<h, p>> /\ R = <<h, r>> /\ P # None /\ R # None
    BY <2>1, NoneAssumption DEF _ratio
  <2> DEFINE d == h * r + h * p
  <2>3. _f1(P, R) = _ratio(2 * h * h, d)
    BY <2>2 DEF _f1
  <2>4. ASSUME NEW i \in Nat, NEW j \in Nat, NEW k \in Nat, i > 0, j > 0, k > 0
        PROVE  i * j + i * k = i * (j + k) /\ i * (j + k) > 0 /\ 2 * i * i > 0
    <3>1. i * j > 0 /\ i * k > 0 /\ i * i > 0
      BY <2>4
    <3>2. i * j + i * k = i * (j + k) /\ i * j \in Nat /\ i * k \in Nat /\ i * i \in Nat
      OBVIOUS
    <3> QED
      BY <3>1, <3>2
  <2>5. d = h * (r + p) /\ d > 0 /\ 2 * h * h > 0 /\ d \in Int /\ 2 * h * h \in Int
    BY <1>3, <2>1, <2>4
  <2> HIDE DEF d
  <2>6. _ratio(2 * h * h, d) = <<2 * h * h, d>> /\ <<2 * h * h, d>> # None
    BY <2>5, NoneAssumption DEF _ratio
  <2> QED
    BY <1>1, <1>3, <2>3, <2>5, <2>6
<1> QED
  BY <1>2, <1>3

\* Figures depend on the three counts only.
LEMMA SameFigures ==
  ASSUME NEW c, NEW d, \A n \in Counted : c[n] = d[n]
  PROVE  Figures(c) = Figures(d)
BY DEF Figures, Counted

(* What evaluate reports: a row for each family there are pairs of, and an  *)
(* aggregate that is no other than if there were no families.               *)
LEMMA ReportIs ==
  ASSUME NEW a, NEW t, NEW pairs, IsFiniteSet(pairs), \A p \in pairs : FamilyOf(p) \in FAMILIES
  PROVE  /\ DOMAIN evaluate(a, t, pairs).per_family = {FamilyOf(p) : p \in pairs}
         /\ \A family \in {FamilyOf(p) : p \in pairs} :
              evaluate(a, t, pairs).per_family[family]
                = _family_result(a, t, OfFamily(pairs, family))
         /\ evaluate(a, t, pairs).aggregate = Figures(_counts(a, t, pairs))
<1> DEFINE Fams == {FamilyOf(p) : p \in pairs}
           Of(family) == OfFamily(pairs, family)
           rows == [family \in Fams |-> _family_result(a, t, Of(family))]
<1>1. evaluate(a, t, pairs) = [per_family |-> rows, aggregate |-> _aggregate(rows)]
  BY DEF evaluate, OfFamily
<1>2. IsFiniteSet(Fams)
  <2>1. Fams \subseteq FAMILIES
    OBVIOUS
  <2> QED
    BY <2>1, FamiliesAssumption, FS_Subset
<1>3. ASSUME NEW family \in Fams
      PROVE  IsFiniteSet(Of(family)) /\ rows[family].counts = _counts(a, t, Of(family))
  <2>1. Of(family) \subseteq pairs
    BY DEF OfFamily
  <2>2. rows[family] = _family_result(a, t, Of(family))
    OBVIOUS
  <2> QED
    BY <2>1, <2>2, FS_Subset DEF _family_result
<1>4. ASSUME NEW c \in Counted
      PROVE  SumFunction([family \in DOMAIN rows |-> rows[family].counts[c]])
               = _counts(a, t, pairs)[c]
  <2> DEFINE A == [family \in Fams |-> Matching(a, t, Of(family), c)]
  <2>1. ASSUME NEW family \in Fams
        PROVE  IsFiniteSet(A[family]) /\ rows[family].counts[c] = Cardinality(A[family])
    <3>1. A[family] = Matching(a, t, Of(family), c)
      OBVIOUS
    <3>2. IsFiniteSet(Of(family)) /\ rows[family].counts = _counts(a, t, Of(family))
      BY <1>3
    <3> HIDE DEF A, rows, Of
    <3>3. /\ _counts(a, t, Of(family))[c] = Cardinality(Matching(a, t, Of(family), c))
          /\ IsFiniteSet(Matching(a, t, Of(family), c))
      BY <3>2, CountsAre
    <3> QED
      BY <3>1, <3>2, <3>3
  <2>2. \A x, y \in Fams : x # y => A[x] \cap A[y] = {}
    BY DEF Matching, OfFamily
  <2>3. UNION {A[family] : family \in Fams} = Matching(a, t, pairs, c)
    <3>1. ASSUME NEW p
          PROVE  p \in Matching(a, t, pairs, c) <=> \E family \in Fams : p \in A[family]
      BY DEF Matching, OfFamily
    <3> HIDE DEF A, Fams
    <3> QED
      BY <3>1
  <2>4. [family \in DOMAIN rows |-> rows[family].counts[c]]
          = [family \in Fams |-> Cardinality(A[family])]
    <3>1. DOMAIN rows = Fams
      OBVIOUS
    <3> HIDE DEF A, rows, Fams
    <3> QED
      BY <2>1, <3>1
  <2>5. \A family \in Fams : IsFiniteSet(A[family])
    BY <2>1
  <2> HIDE DEF A, rows, Fams
  <2>6. SumFunction([family \in Fams |-> Cardinality(A[family])])
          = Cardinality(UNION {A[family] : family \in Fams})
    BY <1>2, <2>2, <2>5, SumOfCardinalities, Zenon
  <2>7. _counts(a, t, pairs)[c] = Cardinality(Matching(a, t, pairs, c))
    BY CountsAre
  <2> QED
    BY <2>3, <2>4, <2>6, <2>7, Zenon
<1>5. _aggregate(rows) = Figures(_counts(a, t, pairs))
  <2> DEFINE total == [c \in Counted |->
                SumFunction([family \in DOMAIN rows |-> rows[family].counts[c]])]
  <2>1. _aggregate(rows) = Figures(total)
    BY DEF _aggregate
  <2>2. \A c \in Counted : total[c] = _counts(a, t, pairs)[c]
    BY <1>4
  <2> HIDE DEF total, rows
  <2> QED
    BY <2>1, <2>2, SameFigures
<1>6. DOMAIN rows = Fams /\ \A family \in Fams : rows[family] = _family_result(a, t, Of(family))
  OBVIOUS
<1> HIDE DEF rows
<1> QED
  BY <1>1, <1>5, <1>6

----------------------------------------------------------------------------
(* The split into roles                                                     *)

(* Half for development, rounded up, and half of the rest for calibration,  *)
(* rounded down.                                                            *)
LEMMA Rounding ==
  ASSUME NEW n \in Nat
  PROVE  /\ DevelopmentSize(n) \in Nat /\ CalibrationSize(n) \in Nat
         /\ n <= 2 * DevelopmentSize(n) /\ 2 * DevelopmentSize(n) <= n + 1
         /\ 2 * CalibrationSize(n) <= n - DevelopmentSize(n)
         /\ n - DevelopmentSize(n) <= 2 * CalibrationSize(n) + 1
  BY DEF DevelopmentSize, CalibrationSize

(* A family's ids are as many as its pairs.                                 *)
LEMMA IdsCount ==
  ASSUME NEW seed, NEW family, size[family] \in Nat
  PROVE  /\ IsFiniteSet(Ids(seed, family))
         /\ Cardinality(Ids(seed, family)) = size[family]
<1> DEFINE I == 0..(size[family] - 1)
           f == [n \in I |-> <<seed, family, n>>]
<1>1. f \in Bijection(I, Ids(seed, family))
  BY DEF Bijection, Injection, Surjection, IsInjective, Ids
<1>2. IsFiniteSet(I) /\ Cardinality(I) = size[family]
  <2>1. 0 \in Int /\ size[family] - 1 \in Int
    OBVIOUS
  <2>2. IsFiniteSet(I) /\ Cardinality(I) = IF 0 > size[family] - 1 THEN 0 ELSE size[family] - 1 - 0 + 1
    BY <2>1, FS_Interval, Zenon
  <2> QED
    BY <2>2
<1>3. ExistsBijection(I, Ids(seed, family))
  BY <1>1 DEF ExistsBijection
<1> HIDE DEF I
<1> QED
  BY <1>2, <1>3, FS_Bijection

(* The roles divide a family among them.                                    *)
LEMMA SharesAddUp ==
  ASSUME NEW seed, NEW family \in FAMILIES, size[family] \in Nat,
         NEW roles \in _split_into_roles(seed)
  PROVE  Cardinality(With(roles, "sealed test", family))
           = size[family] - DevelopmentSize(size[family]) - CalibrationSize(size[family])
<1> DEFINE D == With(roles, "development", family)
           C == With(roles, "calibration", family)
           T == With(roles, "sealed test", family)
           All == Ids(seed, family)
<1>1. /\ roles \in [Pairs(seed) -> ROLES]
      /\ Cardinality(D) = DevelopmentSize(size[family])
      /\ Cardinality(C) = CalibrationSize(size[family])
  BY DEF _split_into_roles
<1>2. All = {p \in Pairs(seed) : FamilyOf(p) = family}
  BY DEF Pairs, Ids, FamilyOf
<1>3. IsFiniteSet(All) /\ Cardinality(All) = size[family]
  BY IdsCount
<1>4. D \subseteq All /\ C \subseteq All /\ T = All \ (D \cup C) /\ D \cap C = {}
  BY <1>1, <1>2 DEF With, ROLES
<1> HIDE DEF D, C, T, All
<1>5. IsFiniteSet(D) /\ IsFiniteSet(C)
  BY <1>3, <1>4, FS_Subset
<1>6. /\ IsFiniteSet(D \cup C)
      /\ Cardinality(D \cup C) = Cardinality(D) + Cardinality(C) - Cardinality(D \cap C)
  BY <1>5, FS_Union
<1>7. Cardinality(D \cap C) = 0
  BY <1>4, FS_EmptySet
<1>8. Cardinality(T) = Cardinality(All) - Cardinality(All \cap (D \cup C))
  BY <1>3, <1>4, <1>6, FS_Difference
<1>9. All \cap (D \cup C) = D \cup C
  BY <1>4
<1>10. PICK d \in Nat, c \in Nat :
          /\ d = DevelopmentSize(size[family]) /\ c = CalibrationSize(size[family])
          /\ d = Cardinality(D) /\ c = Cardinality(C)
  BY <1>1, Rounding DEF D, C
<1>11. Cardinality(D \cup C) = d + c
  BY <1>6, <1>7, <1>10
<1>12. Cardinality(T) = Cardinality(All) - Cardinality(D \cup C)
  BY <1>8, <1>9
<1>13. Cardinality(T) = size[family] - d - c
  BY <1>3, <1>11, <1>12
<1> QED
  BY <1>10, <1>13 DEF T

(* Every corpus there is came from a split of the sizes there are.          *)
SplitInv ==
  /\ size \in Sizes
  /\ \A seed \in DOMAIN corpora : corpora[seed] \in _split_into_roles(seed)

\* No step but a generation touches the corpora, and that adds a split.
LEMMA SplitNext == SplitInv /\ [Next]_vars => SplitInv'
<1> SUFFICES ASSUME SplitInv, [Next]_vars PROVE SplitInv'
  OBVIOUS
<1>1. size' = size
  BY DEF Next, vars, Generate, Skip, SelectThreshold, CannotSelect, TestSealed, Compare, Ended
<1>2. ASSUME NEW seed PROVE _split_into_roles(seed)' = _split_into_roles(seed)
  BY <1>1 DEF _split_into_roles, Pairs, Ids
<1>3. CASE Generate
  <2>1. PICK roles \in _split_into_roles(SEEDS[Cardinality(DOMAIN corpora) + 1]) :
          corpora' = Extended(corpora, SEEDS[Cardinality(DOMAIN corpora) + 1], roles)
    BY <1>3 DEF Generate
  <2>2. \A seed \in DOMAIN corpora' : corpora'[seed] \in _split_into_roles(seed)
    BY <2>1 DEF Extended, SplitInv
  <2> QED
    BY <1>1, <1>2, <2>2 DEF SplitInv
<1>4. CASE corpora' = corpora
  BY <1>1, <1>2, <1>4 DEF SplitInv
<1> QED
  BY <1>3, <1>4 DEF Next, vars, Skip, SelectThreshold, CannotSelect, TestSealed, Compare, Ended

(* Of any family of four or more every role gets pairs, and the odd pair    *)
(* goes to the sealed test.                                                 *)
THEOREM FamiliesReported == Spec => []EveryFamilyIsReported
<1>1. Init => SplitInv
  BY DEF Init, SplitInv, EmptyMap
<1>2. SplitInv => EveryFamilyIsReported
  <2> SUFFICES ASSUME SplitInv, NEW seed \in DOMAIN corpora, NEW family \in FAMILIES
               PROVE  LET Share(role) == Cardinality(With(corpora[seed], role, family))
                      IN  /\ size[family] >= 2 => Share("sealed test") > 0
                          /\ size[family] >= 4 => \A role \in ROLES : Share(role) > 0
                          /\ Share("sealed test") - Share("calibration") \in {0, 1}
    BY DEF EveryFamilyIsReported
  <2>1. size[family] \in Nat /\ corpora[seed] \in _split_into_roles(seed)
    BY FamiliesAssumption DEF SplitInv
  <2>2. Cardinality(With(corpora[seed], "sealed test", family))
          = size[family] - DevelopmentSize(size[family]) - CalibrationSize(size[family])
    BY <2>1, SharesAddUp
  <2>3. /\ Cardinality(With(corpora[seed], "development", family))
             = DevelopmentSize(size[family])
        /\ Cardinality(With(corpora[seed], "calibration", family))
             = CalibrationSize(size[family])
    BY <2>1 DEF _split_into_roles
  <2> DEFINE Share(role) == Cardinality(With(corpora[seed], role, family))
  <2>4. PICK n \in Nat, d \in Nat, c \in Nat :
          /\ n = size[family] /\ d = DevelopmentSize(n) /\ c = CalibrationSize(n)
          /\ n <= 2 * d /\ 2 * d <= n + 1
          /\ 2 * c <= n - d /\ n - d <= 2 * c + 1
    BY <2>1, Rounding
  <2>5. /\ Share("sealed test") = n - d - c
        /\ Share("development") = d /\ Share("calibration") = c
    BY <2>2, <2>3, <2>4
  <2>6. /\ n >= 2 => n - d - c > 0
        /\ n >= 4 => d > 0 /\ c > 0
        /\ n - d - c - c = 0 \/ n - d - c - c = 1
    BY <2>4
  <2>7. \A role \in ROLES : n >= 4 => Share(role) > 0
    <3>1. n >= 4 => n - d - c > 0
      BY <2>6
    <3>2. ASSUME n >= 4
          PROVE  /\ Share("development") > 0 /\ Share("calibration") > 0
                 /\ Share("sealed test") > 0
      BY <2>5, <2>6, <3>1, <3>2
    <3> QED
      BY <3>2 DEF ROLES
  <2>8. Share("sealed test") - Share("calibration") \in {0, 1}
    BY <2>5, <2>6
  <2> QED
    BY <2>4, <2>5, <2>6, <2>7, <2>8
<1> QED
  BY <1>1, <1>2, SplitNext, PTL DEF Spec

----------------------------------------------------------------------------
(* The inductive invariant                                                  *)

\* How far the corpora, and the arms after them, have come.
Progress ==
  /\ pc \in {"generate", "select", "test", "compare", "died", "done"}
  /\ IF pc = "generate"
     THEN /\ arm = 1
          /\ \E k \in 0..(Len(SEEDS) - 1) : DOMAIN corpora = {SEEDS[n] : n \in 1..k}
     ELSE DOMAIN corpora = Seeds
  /\ pc \in {"select", "test"} => arm \in 1..Len(_ARMS)
  /\ arm \in Nat
  /\ DOMAIN accuracy \subseteq {_ARMS[n] : n \in 1..(arm - 1)} \cap DOMAIN selected
  /\ pc = "test" => Current \in DOMAIN selected

\* What was found still follows from what it was found of.
Accurate == \A a \in DOMAIN accuracy : accuracy[a] = SealedTestAccuracy(a)

\* What was found of the accuracies is still what would be found.
Compared ==
  pc = "done" => /\ contradictions = find_contradictions
                 /\ divergence = compute_accuracy_divergence

EvalInv == SplitInv /\ Progress /\ Accurate /\ Compared

\* The seeds and the arms come in an order, none twice.
LEMMA OrderFacts ==
  /\ Len(SEEDS) \in Nat \ {0} /\ DOMAIN SEEDS = 1..Len(SEEDS)
  /\ \A m, n \in 1..Len(SEEDS) : SEEDS[m] = SEEDS[n] => m = n
  /\ Len(_ARMS) \in Nat \ {0} /\ DOMAIN _ARMS = 1..Len(_ARMS)
  /\ \A m, n \in 1..Len(_ARMS) : _ARMS[m] = _ARMS[n] => m = n
<1>1. Len(SEEDS) \in Nat \ {0} /\ DOMAIN SEEDS = 1..Len(SEEDS)
  BY OrderAssumption
<1>2. Len(_ARMS) \in Nat \ {0} /\ DOMAIN _ARMS = 1..Len(_ARMS)
  BY OrderAssumption
<1> QED
  BY <1>1, <1>2, OrderAssumption DEF IsInjective

\* So many seeds have so many corpora.
LEMMA SeedsCount ==
  ASSUME NEW k \in 0..Len(SEEDS)
  PROVE  /\ IsFiniteSet({SEEDS[n] : n \in 1..k})
         /\ Cardinality({SEEDS[n] : n \in 1..k}) = k
<1> DEFINE I == 1..k
           T == {SEEDS[n] : n \in I}
           f == [n \in I |-> SEEDS[n]]
<1>1. k \in Nat /\ 1..k \subseteq 1..Len(SEEDS)
  BY OrderFacts
<1>2. f \in Bijection(I, T)
  BY <1>1, OrderFacts DEF Bijection, Injection, Surjection, IsInjective
<1>3. ExistsBijection(I, T)
  BY <1>2 DEF ExistsBijection
<1>4. IsFiniteSet(I) /\ Cardinality(I) = k
  <2>1. 1 \in Int /\ k \in Int
    BY <1>1
  <2>2. IsFiniteSet(I) /\ Cardinality(I) = IF 1 > k THEN 0 ELSE k - 1 + 1
    BY <2>1, FS_Interval, Zenon
  <2> QED
    BY <1>1, <2>2
<1> HIDE DEF I, T
<1>5. IsFiniteSet(T) /\ Cardinality(T) = k
  BY <1>3, <1>4, FS_Bijection
<1> QED
  BY <1>5 DEF I, T

\* There are finitely many seeds, and at least one.
LEMMA SeedsFinite == IsFiniteSet(Seeds) /\ Seeds # {}
<1>1. Len(SEEDS) \in 0..Len(SEEDS) /\ 1 \in 1..Len(SEEDS)
  BY OrderFacts
<1>2. IsFiniteSet(Seeds)
  BY <1>1, SeedsCount DEF Seeds
<1>3. SEEDS[1] \in Seeds
  BY <1>1 DEF Seeds
<1> QED
  BY <1>2, <1>3

\* The invariant holds before the first corpus.
LEMMA InitEval == Init => EvalInv
<1> SUFFICES ASSUME Init PROVE EvalInv
  OBVIOUS
<1>1. DOMAIN EmptyMap = {}
  BY DEF EmptyMap
<1>2. SplitInv
  BY <1>1 DEF Init, SplitInv
<1>3. 0 \in 0..(Len(SEEDS) - 1) /\ {} = {SEEDS[n] : n \in 1..0}
  BY OrderFacts
<1>4. Progress
  BY <1>1, <1>3 DEF Init, Progress
<1> QED
  BY <1>1, <1>2, <1>4 DEF Init, EvalInv, Accurate, Compared

(* An accuracy is of the corpora and of the arm's own threshold, no more.   *)
LEMMA AccuracyStays ==
  ASSUME NEW a, corpora' = corpora, selected'[a] = selected[a]
  PROVE  SealedTestAccuracy(a)' = SealedTestAccuracy(a)
BY DEF SealedTestAccuracy, _pool_corpora

(* What was found stays found of what it was found of.                      *)
LEMMA FindingsStay ==
  ASSUME accuracy' = accuracy
  PROVE  /\ find_contradictions' = find_contradictions
         /\ compute_accuracy_divergence' = compute_accuracy_divergence
<1>1. \A a, family : PooledF1(a, family)' = PooledF1(a, family)
  BY DEF PooledF1
<1>2. \A family : Comparable(family)' = Comparable(family)
  BY <1>1 DEF Comparable
<1>3. \A a, family : F1OrZero(a, family)' = F1OrZero(a, family)
  BY <1>1 DEF F1OrZero
<1>4. \A family : Winners(family)' = Winners(family)
  BY <1>2, <1>3 DEF Winners
<1>5. find_contradictions' = find_contradictions
  BY <1>2, <1>4 DEF find_contradictions
<1>6. compute_accuracy_divergence' = compute_accuracy_divergence
  BY <1>1 DEF compute_accuracy_divergence
<1> QED
  BY <1>5, <1>6

\* One step after the other: a corpus,
LEMMA GenerateKeeps ==
  ASSUME EvalInv, Generate
  PROVE  Progress' /\ Accurate' /\ Compared'
<1>1. PICK k \in 0..(Len(SEEDS) - 1) : DOMAIN corpora = {SEEDS[n] : n \in 1..k}
  BY DEF EvalInv, Progress, Generate
<1>2. k \in Nat /\ k \in 0..Len(SEEDS) /\ k + 1 \in 1..Len(SEEDS)
  BY OrderFacts
<1>3. Cardinality(DOMAIN corpora) = k
  BY <1>1, <1>2, SeedsCount
<1>4. DOMAIN corpora' = {SEEDS[n] : n \in 1..k} \cup {SEEDS[k + 1]}
  <2>1. PICK roles : corpora' = Extended(corpora, SEEDS[k + 1], roles)
    BY <1>3 DEF Generate
  <2> QED
    BY <1>1, <2>1 DEF Extended
<1>5. DOMAIN corpora' = {SEEDS[n] : n \in 1..(k + 1)}
  <2>1. 1..(k + 1) = 1..k \cup {k + 1}
    BY <1>2
  <2> QED
    BY <1>4, <2>1
<1>6. accuracy' = accuracy /\ DOMAIN accuracy = {} /\ arm' = 1 /\ arm = 1
  <2>1. arm = 1 /\ DOMAIN accuracy \subseteq {_ARMS[n] : n \in 1..(arm - 1)}
    BY DEF EvalInv, Progress, Generate
  <2>2. 1..(arm - 1) = {}
    BY <2>1
  <2> QED
    BY <2>1, <2>2 DEF Generate
<1>7. pc' = IF DOMAIN corpora' = Seeds THEN "select" ELSE "generate"
  BY DEF Generate
<1>8. CASE DOMAIN corpora' = Seeds
  BY <1>6, <1>7, <1>8, OrderFacts DEF Progress, Accurate, Compared
<1>9. CASE DOMAIN corpora' # Seeds
  <2>1. k + 1 # Len(SEEDS)
    BY <1>5, <1>9 DEF Seeds
  <2>2. k + 1 \in 0..(Len(SEEDS) - 1)
    <3>1. Len(SEEDS) \in Nat
      BY OrderFacts
    <3> QED
      BY <1>2, <2>1, <3>1
  <2>3. Progress'
    BY <1>5, <1>6, <1>7, <1>9, <2>2 DEF Progress
  <2> QED
    BY <1>6, <1>7, <1>9, <2>3 DEF Accurate, Compared
<1> QED
  BY <1>8, <1>9

\* an arm that cannot be had,
LEMMA SkipKeeps ==
  ASSUME EvalInv, Skip
  PROVE  Progress' /\ Accurate' /\ Compared'
<1>1. /\ corpora' = corpora /\ selected' = selected /\ accuracy' = accuracy
      /\ arm' = arm + 1 /\ pc' = IF arm = Len(_ARMS) THEN "compare" ELSE "select"
      /\ pc = "select"
  BY DEF Skip, NextArm
<1>2. arm \in 1..Len(_ARMS) /\ arm \in Nat /\ DOMAIN corpora = Seeds
  BY <1>1 DEF EvalInv, Progress
<1>3. DOMAIN accuracy \subseteq {_ARMS[n] : n \in 1..((arm + 1) - 1)} \cap DOMAIN selected
  BY <1>2 DEF EvalInv, Progress
<1>4. Progress'
  BY <1>1, <1>2, <1>3, OrderFacts DEF Progress
<1>5. Accurate'
  BY <1>1, AccuracyStays DEF EvalInv, Accurate
<1> QED
  BY <1>1, <1>4, <1>5 DEF Compared

\* a threshold,
LEMMA SelectKeeps ==
  ASSUME EvalInv, SelectThreshold
  PROVE  Progress' /\ Accurate' /\ Compared'
<1>1. /\ corpora' = corpora /\ accuracy' = accuracy /\ arm' = arm /\ pc' = "test"
      /\ pc = "select"
      /\ \E t : selected' = Extended(selected, Current, t)
  BY DEF SelectThreshold
<1>2. Progress'
  BY <1>1 DEF EvalInv, Progress, Extended, Current
<1>3. ASSUME NEW a \in DOMAIN accuracy PROVE SealedTestAccuracy(a)' = SealedTestAccuracy(a)
  <2>1. PICK n \in 1..(arm - 1) : a = _ARMS[n]
    BY DEF EvalInv, Progress
  <2>2. arm \in 1..Len(_ARMS) /\ n \in 1..Len(_ARMS) /\ n # arm
    BY <1>1, OrderFacts DEF EvalInv, Progress
  <2>3. a # Current
    BY <2>1, <2>2, OrderFacts DEF Current
  <2>4. selected'[a] = selected[a]
    BY <1>1, <2>3 DEF EvalInv, Progress, Extended
  <2> QED
    BY <1>1, <2>4, AccuracyStays
<1> QED
  BY <1>1, <1>2, <1>3 DEF EvalInv, Accurate, Compared

\* a sealed test,
LEMMA TestKeeps ==
  ASSUME EvalInv, TestSealed
  PROVE  Progress' /\ Accurate' /\ Compared'
<1>1. /\ corpora' = corpora /\ selected' = selected /\ pc = "test"
      /\ arm' = arm + 1 /\ pc' = IF arm = Len(_ARMS) THEN "compare" ELSE "select"
      /\ accuracy' = Extended(accuracy, Current, SealedTestAccuracy(Current))
  BY DEF TestSealed, NextArm
<1>2. arm \in 1..Len(_ARMS) /\ arm \in Nat /\ DOMAIN corpora = Seeds
  BY <1>1 DEF EvalInv, Progress
<1>3. DOMAIN accuracy' \subseteq {_ARMS[n] : n \in 1..((arm + 1) - 1)} \cap DOMAIN selected
  BY <1>1, <1>2 DEF EvalInv, Progress, Extended, Current
<1>4. Progress'
  <2>1. Len(_ARMS) \in Nat
    BY OrderFacts
  <2>2. arm + 1 \in Nat /\ (arm # Len(_ARMS) => arm + 1 \in 1..Len(_ARMS))
    BY <1>2, <2>1
  <2> QED
    BY <1>1, <1>2, <1>3, <2>2 DEF Progress
<1>5. \A a : SealedTestAccuracy(a)' = SealedTestAccuracy(a)
  BY <1>1, AccuracyStays
<1>6. Accurate'
  BY <1>1, <1>5 DEF EvalInv, Accurate, Extended
<1> QED
  BY <1>1, <1>4, <1>6 DEF Compared

\* and the comparison.
LEMMA CompareKeeps ==
  ASSUME EvalInv, Compare
  PROVE  Progress' /\ Accurate' /\ Compared'
<1>1. /\ corpora' = corpora /\ selected' = selected /\ accuracy' = accuracy /\ arm' = arm
      /\ pc = "compare" /\ pc' = "done"
      /\ contradictions' = find_contradictions /\ divergence' = compute_accuracy_divergence
  BY DEF Compare
<1>2. Progress'
  BY <1>1 DEF EvalInv, Progress
<1>3. Accurate'
  BY <1>1, AccuracyStays DEF EvalInv, Accurate
<1>4. Compared'
  BY <1>1, FindingsStay DEF Compared
<1> QED
  BY <1>2, <1>3, <1>4

\* Every step keeps the invariant.
LEMMA EvalNext == EvalInv /\ [Next]_vars => EvalInv'
<1> SUFFICES ASSUME EvalInv, [Next]_vars PROVE EvalInv'
  OBVIOUS
<1>1. SplitInv'
  BY SplitNext DEF EvalInv
<1>2. CASE CannotSelect \/ UNCHANGED vars
  <2>1. /\ corpora' = corpora /\ selected' = selected /\ accuracy' = accuracy /\ arm' = arm
        /\ contradictions' = contradictions /\ divergence' = divergence
        /\ \/ pc = "select" /\ pc' = "died"
           \/ pc' = pc
    BY <1>2 DEF CannotSelect, vars
  <2>2. Progress'
    BY <2>1 DEF EvalInv, Progress, Current
  <2>3. Accurate'
    BY <2>1, AccuracyStays DEF EvalInv, Accurate
  <2>4. Compared'
    BY <2>1, FindingsStay DEF EvalInv, Compared
  <2> QED
    BY <1>1, <2>2, <2>3, <2>4 DEF EvalInv
<1>3. Progress' /\ Accurate' /\ Compared'
  BY <1>2, GenerateKeeps, SkipKeeps, SelectKeeps, TestKeeps, CompareKeeps
     DEF Next, Ended, EvalInv
<1> QED
  BY <1>1, <1>3 DEF EvalInv

\* What an evaluation holds always follows from its corpora and thresholds.
THEOREM EvalInvariant == Spec => []EvalInv
BY InitEval, EvalNext, PTL DEF Spec

----------------------------------------------------------------------------
(* What an accuracy is of                                                   *)

\* A seed's sealed pairs, and those of all seeds.
Sealed(seed) == _pairs_for_role(corpora[seed], "sealed test")

AllSealed == UNION {Sealed(seed) : seed \in Seeds}

\* A corpus has finitely many pairs.
LEMMA PairsFinite ==
  ASSUME size \in Sizes, NEW seed
  PROVE  IsFiniteSet(Pairs(seed))
<1> DEFINE A == [family \in FAMILIES |-> Ids(seed, family)]
<1>1. \A family \in FAMILIES : IsFiniteSet(A[family])
  <2>1. \A family \in FAMILIES : size[family] \in Nat
    BY FamiliesAssumption
  <2>2. \A family \in FAMILIES : IsFiniteSet(Ids(seed, family))
    BY <2>1, IdsCount
  <2> QED
    BY <2>2
<1>2. Pairs(seed) = UNION {A[family] : family \in FAMILIES}
  BY DEF Pairs
<1>3. IsFiniteSet(FAMILIES)
  BY FamiliesAssumption
<1> HIDE DEF A
<1>4. IsFiniteSet(UNION {A[family] : family \in FAMILIES})
  BY <1>1, <1>3, FiniteUnion
<1> QED
  BY <1>2, <1>4

\* Pooling the corpora pools their sealed pairs, and none is another
\* seed's.
LEMMA SealedPairs ==
  ASSUME SplitInv, DOMAIN corpora = Seeds
  PROVE  /\ \A seed \in Seeds :
              /\ IsFiniteSet(Sealed(seed))
              /\ \A p \in Sealed(seed) : p[1] = seed /\ FamilyOf(p) \in FAMILIES
         /\ IsFiniteSet(AllSealed) /\ \A p \in AllSealed : FamilyOf(p) \in FAMILIES
         /\ _pairs_for_role(_pool_corpora, "sealed test") = AllSealed
<1>1. ASSUME NEW seed \in Seeds
      PROVE  /\ DOMAIN corpora[seed] = Pairs(seed)
             /\ IsFiniteSet(Sealed(seed)) /\ Sealed(seed) \subseteq Pairs(seed)
  <2>1. corpora[seed] \in [Pairs(seed) -> ROLES]
    BY DEF SplitInv, _split_into_roles
  <2>2. Sealed(seed) \subseteq Pairs(seed)
    BY <2>1 DEF Sealed, _pairs_for_role
  <2> QED
    BY <2>1, <2>2, PairsFinite, FS_Subset DEF SplitInv
<1>2. ASSUME NEW seed \in Seeds, NEW p \in Pairs(seed)
      PROVE  p[1] = seed /\ FamilyOf(p) \in FAMILIES
  BY DEF Pairs, Ids, FamilyOf
<1>3. \A seed \in Seeds : \A p \in Sealed(seed) : p[1] = seed /\ FamilyOf(p) \in FAMILIES
  BY <1>1, <1>2
<1>4. IsFiniteSet(AllSealed)
  <2> DEFINE A == [seed \in Seeds |-> Sealed(seed)]
  <2>1. \A seed \in Seeds : IsFiniteSet(A[seed])
    BY <1>1
  <2>2. AllSealed = UNION {A[seed] : seed \in Seeds}
    BY DEF AllSealed
  <2>3. IsFiniteSet(Seeds)
    BY SeedsFinite
  <2> HIDE DEF A
  <2>4. IsFiniteSet(UNION {A[seed] : seed \in Seeds})
    BY <2>1, <2>3, FiniteUnion
  <2> QED
    BY <2>2, <2>4
<1>5. DOMAIN _pool_corpora = UNION {Pairs(seed) : seed \in Seeds}
  BY <1>1 DEF _pool_corpora
<1>6. ASSUME NEW seed \in Seeds, NEW p \in Pairs(seed)
      PROVE  p \in DOMAIN _pool_corpora /\ _pool_corpora[p] = corpora[seed][p]
  BY <1>1, <1>2, <1>5 DEF _pool_corpora
<1>7. ASSUME NEW p
      PROVE  p \in _pairs_for_role(_pool_corpora, "sealed test") <=> p \in AllSealed
  <2>1. p \in _pairs_for_role(_pool_corpora, "sealed test")
          <=> \E seed \in Seeds : p \in Pairs(seed) /\ _pool_corpora[p] = "sealed test"
    BY <1>5 DEF _pairs_for_role
  <2>2. \A seed \in Seeds : p \in Sealed(seed)
          <=> p \in Pairs(seed) /\ corpora[seed][p] = "sealed test"
    BY <1>1 DEF _pairs_for_role, Sealed
  <2>3. p \in AllSealed <=> \E seed \in Seeds : p \in Sealed(seed)
    BY DEF AllSealed
  <2> QED
    BY <1>6, <2>1, <2>2, <2>3
<1>8. _pairs_for_role(_pool_corpora, "sealed test") = AllSealed
  BY <1>7
<1>9. \A p \in AllSealed : \E seed \in Seeds : p \in Sealed(seed)
  BY DEF AllSealed
<1> QED
  BY <1>1, <1>3, <1>4, <1>8, <1>9

(* An accuracy is the evaluation of the sealed pairs, of all and by seed.   *)
LEMMA AccuracyIs ==
  ASSUME EvalInv, NEW a \in DOMAIN accuracy
  PROVE  /\ DOMAIN corpora = Seeds
         /\ accuracy[a].pooled = evaluate(a, selected[a], AllSealed)
         /\ DOMAIN accuracy[a].by_seed = Seeds
         /\ \A seed \in Seeds :
              accuracy[a].by_seed[seed] = evaluate(a, selected[a], Sealed(seed))
         /\ accuracy[a].variation = compute_family_variation(accuracy[a].by_seed)
<1>1. DOMAIN corpora = Seeds
  <2>1. PICK n \in 1..(arm - 1) : a = _ARMS[n]
    BY DEF EvalInv, Progress
  <2>2. arm # 1
    BY <2>1
  <2> QED
    BY <2>2 DEF EvalInv, Progress
<1>2. accuracy[a] = SealedTestAccuracy(a)
  BY DEF EvalInv, Accurate
<1>3. _pairs_for_role(_pool_corpora, "sealed test") = AllSealed
  BY <1>1, SealedPairs DEF EvalInv
<1> DEFINE seeds == [seed \in Seeds |-> evaluate(a, selected[a], Sealed(seed))]
<1>4. accuracy[a] = [pooled |-> evaluate(a, selected[a], AllSealed),
                     by_seed |-> seeds, variation |-> compute_family_variation(seeds)]
  BY <1>2, <1>3 DEF SealedTestAccuracy, evaluate_sealed_test, Sealed
<1>5. DOMAIN seeds = Seeds /\ \A seed \in Seeds : seeds[seed] = evaluate(a, selected[a], Sealed(seed))
  OBVIOUS
<1> HIDE DEF seeds
<1> QED
  BY <1>1, <1>4, <1>5

----------------------------------------------------------------------------
(* Undefined is not zero                                                    *)

\* In whatever is evaluated, an F1 is defined exactly where there are hits.
LEMMA HonestReport ==
  ASSUME NEW a, NEW t, NEW pairs, IsFiniteSet(pairs), \A p \in pairs : FamilyOf(p) \in FAMILIES
  PROVE  LET report == evaluate(a, t, pairs)
             DefinedIff(hits, f1) == IF hits THEN f1 # None /\ f1[1] > 0 ELSE f1 = None
         IN  /\ \A family \in DOMAIN report.per_family :
                  LET row == report.per_family[family]
                  IN  /\ DefinedIff(row.counts.true_positives > 0, row.figures.f1)
                      /\ row.counts.true_positives <= row.counts.predicted_positives
                      /\ row.counts.true_positives <= row.counts.actual_positives
                      /\ row.false_positives >= 0
             /\ DefinedIff(\E family \in DOMAIN report.per_family :
                             report.per_family[family].counts.true_positives > 0,
                           report.aggregate.f1)
<1> DEFINE report == evaluate(a, t, pairs)
           DefinedIff(hits, f1) == IF hits THEN f1 # None /\ f1[1] > 0 ELSE f1 = None
           Hit(P) == \E p \in P : Score(a, p) >= t /\ Label(p) = 1
           Of(family) == OfFamily(pairs, family)
<1>1. ASSUME NEW P, IsFiniteSet(P)
      PROVE  /\ _counts(a, t, P).true_positives > 0 <=> Hit(P)
             /\ DefinedIff(_counts(a, t, P).true_positives > 0, Figures(_counts(a, t, P)).f1)
             /\ _counts(a, t, P).true_positives \in Nat
             /\ _counts(a, t, P).predicted_positives \in Nat
             /\ _counts(a, t, P).true_positives <= _counts(a, t, P).predicted_positives
             /\ _counts(a, t, P).true_positives <= _counts(a, t, P).actual_positives
  <2> DEFINE c == _counts(a, t, P)
  <2>1. /\ c.true_positives \in Nat /\ c.predicted_positives \in Nat
        /\ c.actual_positives \in Nat
    BY <1>1, CountsAre DEF Counted
  <2>2. c.true_positives <= c.predicted_positives /\ c.true_positives <= c.actual_positives
    BY <1>1, CountsAre
  <2>3. c.true_positives > 0 <=> Hit(P)
    BY <1>1, CountsAre
  <2> HIDE DEF c
  <2>4. DefinedIff(c.true_positives > 0, Figures(c).f1)
    BY <2>1, <2>2, F1Is
  <2> QED
    BY <2>1, <2>2, <2>3, <2>4 DEF c
<1>2. /\ DOMAIN report.per_family = {FamilyOf(p) : p \in pairs}
      /\ \A family \in {FamilyOf(p) : p \in pairs} :
           report.per_family[family] = _family_result(a, t, Of(family))
      /\ report.aggregate = Figures(_counts(a, t, pairs))
  BY ReportIs
<1>3. ASSUME NEW family \in DOMAIN report.per_family
      PROVE  LET row == report.per_family[family]
             IN  /\ row.counts = _counts(a, t, Of(family))
                 /\ row.figures = Figures(_counts(a, t, Of(family)))
                 /\ row.false_positives = _counts(a, t, Of(family)).predicted_positives
                                             - _counts(a, t, Of(family)).true_positives
  <2> DEFINE c == _counts(a, t, Of(family))
  <2>1. _family_result(a, t, Of(family))
          = [counts |-> c, figures |-> Figures(c),
             false_positives |-> c.predicted_positives - c.true_positives]
    BY DEF _family_result
  <2>2. report.per_family[family] = _family_result(a, t, Of(family))
    BY <1>2
  <2> HIDE DEF c, report, Of
  <2>3. /\ report.per_family[family].counts = c
        /\ report.per_family[family].figures = Figures(c)
        /\ report.per_family[family].false_positives = c.predicted_positives - c.true_positives
    BY <2>1, <2>2
  <2> QED
    BY <2>3 DEF c
<1>4. \A family : IsFiniteSet(Of(family))
  <2>1. \A family : Of(family) \subseteq pairs
    BY DEF OfFamily
  <2> QED
    BY <2>1, FS_Subset
<1>5. (\E family \in DOMAIN report.per_family : Hit(Of(family))) <=> Hit(pairs)
  BY <1>2 DEF OfFamily
<1> HIDE DEF report, Of, Hit
<1>6. ASSUME NEW family \in DOMAIN report.per_family
      PROVE  LET row == report.per_family[family]
             IN  /\ DefinedIff(row.counts.true_positives > 0, row.figures.f1)
                 /\ row.counts.true_positives > 0 <=> Hit(Of(family))
                 /\ row.counts.true_positives <= row.counts.predicted_positives
                 /\ row.counts.true_positives <= row.counts.actual_positives
                 /\ row.false_positives >= 0
  <2> DEFINE c == _counts(a, t, Of(family))
  <2>1. /\ c.true_positives > 0 <=> Hit(Of(family))
        /\ DefinedIff(c.true_positives > 0, Figures(c).f1)
        /\ c.true_positives \in Nat /\ c.predicted_positives \in Nat
        /\ c.true_positives <= c.predicted_positives
        /\ c.true_positives <= c.actual_positives
    BY <1>1, <1>4
  <2>2. /\ report.per_family[family].counts = c
        /\ report.per_family[family].figures = Figures(c)
        /\ report.per_family[family].false_positives = c.predicted_positives - c.true_positives
    BY <1>3
  <2> HIDE DEF c
  <2>3. c.predicted_positives - c.true_positives >= 0
    BY <2>1
  <2> QED
    BY <2>1, <2>2, <2>3
<1>7. DefinedIff(Hit(pairs), report.aggregate.f1)
  BY <1>1, <1>2
<1> HIDE DEF DefinedIff
<1> QED
  BY <1>5, <1>6, <1>7 DEF report, DefinedIff

\* Every report of an arm is an evaluation of finitely many pairs.
LEMMA ReportsAre ==
  ASSUME EvalInv, NEW a \in DOMAIN accuracy, NEW report \in Reports(a)
  PROVE  \E pairs : /\ IsFiniteSet(pairs) /\ \A p \in pairs : FamilyOf(p) \in FAMILIES
                    /\ report = evaluate(a, selected[a], pairs)
<1>1. /\ DOMAIN corpora = Seeds
      /\ accuracy[a].pooled = evaluate(a, selected[a], AllSealed)
      /\ \A seed \in Seeds : accuracy[a].by_seed[seed] = evaluate(a, selected[a], Sealed(seed))
  BY AccuracyIs
<1>2. /\ \A seed \in Seeds :
           IsFiniteSet(Sealed(seed)) /\ \A p \in Sealed(seed) : FamilyOf(p) \in FAMILIES
      /\ IsFiniteSet(AllSealed) /\ \A p \in AllSealed : FamilyOf(p) \in FAMILIES
  BY <1>1, SealedPairs DEF EvalInv
<1>3. CASE report = accuracy[a].pooled
  BY <1>1, <1>2, <1>3
<1>4. CASE \E seed \in Seeds : report = accuracy[a].by_seed[seed]
  BY <1>1, <1>2, <1>4
<1> QED
  BY <1>3, <1>4 DEF Reports

(* No F1 is ever zero: it is undefined wherever there is no true positive,  *)
(* in a row, in an aggregate, and so in all of a negative family, whatever  *)
(* the scorer (_ratio, _f1, _aggregate).                                    *)
THEOREM UndefinedKept == Spec => []UndefinedIsNotZero
<1>1. EvalInv => UndefinedIsNotZero
  <2> SUFFICES ASSUME EvalInv, NEW a \in DOMAIN accuracy, NEW report \in Reports(a)
               PROVE  LET rows == {report.per_family[f] : f \in DOMAIN report.per_family}
                          DefinedIff(hits, f1) ==
                            IF hits THEN f1 # None /\ f1[1] > 0 ELSE f1 = None
                      IN  /\ \A row \in rows :
                               DefinedIff(row.counts.true_positives > 0, row.figures.f1)
                          /\ DefinedIff(\E row \in rows : row.counts.true_positives > 0,
                                        report.aggregate.f1)
    BY DEF UndefinedIsNotZero
  <2>1. PICK pairs : /\ IsFiniteSet(pairs) /\ \A p \in pairs : FamilyOf(p) \in FAMILIES
                     /\ report = evaluate(a, selected[a], pairs)
    BY ReportsAre
  <2>2. LET DefinedIff(hits, f1) == IF hits THEN f1 # None /\ f1[1] > 0 ELSE f1 = None
        IN  /\ \A family \in DOMAIN report.per_family :
                 LET row == report.per_family[family]
                 IN  DefinedIff(row.counts.true_positives > 0, row.figures.f1)
            /\ DefinedIff(\E family \in DOMAIN report.per_family :
                            report.per_family[family].counts.true_positives > 0,
                          report.aggregate.f1)
    BY <2>1, HonestReport
  <2> QED
    BY <2>2
<1> QED
  BY EvalInvariant, <1>1, PTL

----------------------------------------------------------------------------
(* Totals                                                                   *)

(* A family with sealed pairs in one seed's corpus has them in every one's. *)
LEMMA EverySeedReports ==
  ASSUME SplitInv, DOMAIN corpora = Seeds, NEW family \in {FamilyOf(p) : p \in AllSealed},
         NEW seed \in Seeds
  PROVE  family \in {FamilyOf(p) : p \in Sealed(seed)}
<1>1. PICK q \in AllSealed : family = FamilyOf(q)
  OBVIOUS
<1>2. PICK other \in Seeds : q \in Sealed(other)
  BY DEF AllSealed
<1> DEFINE Share(s) == With(corpora[s], "sealed test", family)
<1>3. \A s \in Seeds : /\ Share(s) = OfFamily(Sealed(s), family)
                        /\ Share(s) \subseteq Sealed(s)
  BY DEF With, OfFamily, Sealed, _pairs_for_role
<1>4. ASSUME NEW s \in Seeds
      PROVE  /\ IsFiniteSet(Share(s))
             /\ Cardinality(Share(s))
                  = size[family] - DevelopmentSize(size[family]) - CalibrationSize(size[family])
  <2>1. IsFiniteSet(Sealed(s))
    BY SealedPairs
  <2>2. family \in FAMILIES
    BY <1>1, SealedPairs
  <2>3. size[family] \in Nat /\ corpora[s] \in _split_into_roles(s)
    BY <2>2, FamiliesAssumption DEF SplitInv
  <2>4. Cardinality(With(corpora[s], "sealed test", family))
          = size[family] - DevelopmentSize(size[family]) - CalibrationSize(size[family])
    BY <2>2, <2>3, SharesAddUp
  <2> QED
    BY <1>3, <2>1, <2>4, FS_Subset
<1>5. q \in Share(other)
  BY <1>1, <1>2, <1>3 DEF OfFamily
<1> HIDE DEF Share
<1>6. Share(seed) # {}
  BY <1>2, <1>4, <1>5, FS_EmptySet
<1>7. PICK p \in Sealed(seed) : FamilyOf(p) = family
  BY <1>3, <1>6 DEF OfFamily
<1> QED
  BY <1>7

(* Every count of a pooled row is the sum of the seeds' counts.             *)
LEMMA PooledCounts ==
  ASSUME EvalInv, NEW a \in DOMAIN accuracy,
         NEW family \in DOMAIN accuracy[a].pooled.per_family
  PROVE  /\ \A seed \in Seeds :
              /\ family \in DOMAIN accuracy[a].by_seed[seed].per_family
              /\ accuracy[a].by_seed[seed].per_family[family]
                   = _family_result(a, selected[a], OfFamily(Sealed(seed), family))
              /\ IsFiniteSet(OfFamily(Sealed(seed), family))
         /\ accuracy[a].pooled.per_family[family]
               = _family_result(a, selected[a], OfFamily(AllSealed, family))
         /\ IsFiniteSet(OfFamily(AllSealed, family))
         /\ \A c \in Counted :
              accuracy[a].pooled.per_family[family].counts[c]
                = SumFunction([seed \in Seeds |->
                                 accuracy[a].by_seed[seed].per_family[family].counts[c]])
<1> DEFINE t == selected[a]
           Of(seed) == OfFamily(Sealed(seed), family)
<1>1. /\ DOMAIN corpora = Seeds
      /\ accuracy[a].pooled = evaluate(a, t, AllSealed)
      /\ \A seed \in Seeds : accuracy[a].by_seed[seed] = evaluate(a, t, Sealed(seed))
  BY AccuracyIs
<1>2. /\ \A seed \in Seeds :
           /\ IsFiniteSet(Sealed(seed))
           /\ \A p \in Sealed(seed) : p[1] = seed /\ FamilyOf(p) \in FAMILIES
      /\ IsFiniteSet(AllSealed) /\ \A p \in AllSealed : FamilyOf(p) \in FAMILIES
  BY <1>1, SealedPairs DEF EvalInv
<1>3. /\ family \in {FamilyOf(p) : p \in AllSealed}
      /\ accuracy[a].pooled.per_family[family]
           = _family_result(a, t, OfFamily(AllSealed, family))
  BY <1>1, <1>2, ReportIs
<1>4. ASSUME NEW seed \in Seeds
      PROVE  /\ family \in DOMAIN accuracy[a].by_seed[seed].per_family
             /\ accuracy[a].by_seed[seed].per_family[family] = _family_result(a, t, Of(seed))
  <2>1. family \in {FamilyOf(p) : p \in Sealed(seed)}
    BY <1>1, <1>3, EverySeedReports DEF EvalInv
  <2> QED
    BY <1>1, <1>2, <2>1, ReportIs
<1>5. /\ IsFiniteSet(OfFamily(AllSealed, family))
      /\ \A seed \in Seeds : IsFiniteSet(Of(seed))
  <2>1. /\ OfFamily(AllSealed, family) \subseteq AllSealed
        /\ \A seed \in Seeds : Of(seed) \subseteq Sealed(seed)
    BY DEF OfFamily
  <2> QED
    BY <1>2, <2>1, FS_Subset
<1>6. ASSUME NEW pairs PROVE _family_result(a, t, pairs).counts = _counts(a, t, pairs)
  BY DEF _family_result
<1>7. ASSUME NEW c \in Counted
      PROVE  accuracy[a].pooled.per_family[family].counts[c]
               = SumFunction([seed \in Seeds |->
                                accuracy[a].by_seed[seed].per_family[family].counts[c]])
  <2> DEFINE A == [seed \in Seeds |-> Matching(a, t, Of(seed), c)]
  <2>1. ASSUME NEW seed \in Seeds
        PROVE  /\ IsFiniteSet(A[seed])
               /\ accuracy[a].by_seed[seed].per_family[family].counts[c] = Cardinality(A[seed])
    <3>1. A[seed] = Matching(a, t, Of(seed), c)
      OBVIOUS
    <3>2. /\ _counts(a, t, Of(seed))[c] = Cardinality(Matching(a, t, Of(seed), c))
          /\ IsFiniteSet(Matching(a, t, Of(seed), c))
      BY <1>5, CountsAre
    <3> HIDE DEF A, Of, t
    <3> QED
      BY <1>4, <1>6, <3>1, <3>2
  <2>2. \A x, y \in Seeds : x # y => A[x] \cap A[y] = {}
    BY <1>2 DEF Matching, OfFamily
  <2>3. ASSUME NEW p
        PROVE  p \in Matching(a, t, OfFamily(AllSealed, family), c)
                 <=> \E seed \in Seeds : p \in A[seed]
    BY DEF Matching, OfFamily, AllSealed
  <2>4. [seed \in Seeds |-> accuracy[a].by_seed[seed].per_family[family].counts[c]]
          = [seed \in Seeds |-> Cardinality(A[seed])]
    BY <2>1
  <2>5. \A seed \in Seeds : IsFiniteSet(A[seed])
    BY <2>1
  <2>6. IsFiniteSet(Seeds)
    BY SeedsFinite
  <2> HIDE DEF A, t, Of
  <2>7. SumFunction([seed \in Seeds |-> Cardinality(A[seed])])
          = Cardinality(UNION {A[seed] : seed \in Seeds})
    BY <2>2, <2>5, <2>6, SumOfCardinalities, Zenon
  <2>8. Matching(a, t, OfFamily(AllSealed, family), c) = UNION {A[seed] : seed \in Seeds}
    BY <2>3
  <2>9. _counts(a, t, OfFamily(AllSealed, family))[c]
          = Cardinality(Matching(a, t, OfFamily(AllSealed, family), c))
    BY <1>5, CountsAre
  <2>10. accuracy[a].pooled.per_family[family].counts[c]
           = _counts(a, t, OfFamily(AllSealed, family))[c]
    BY <1>3, <1>6
  <2> QED
    BY <2>4, <2>7, <2>8, <2>9, <2>10
<1> QED
  BY <1>3, <1>4, <1>5, <1>7

(* Counts add up over seeds and over families, and no part exceeds its      *)
(* whole, for any families, seeds, sizes and shuffles (evaluate,            *)
(* _aggregate, _pool_corpora).                                              *)
THEOREM TotalsKept == Spec => []TotalsAddUp
<1>1. EvalInv => TotalsAddUp
  <2> SUFFICES ASSUME EvalInv, NEW a \in DOMAIN accuracy
               PROVE  LET pooled == accuracy[a].pooled
                      IN  /\ \A family \in DOMAIN pooled.per_family : \A c \in Counted :
                               pooled.per_family[family].counts[c]
                                 = SumFunction([seed \in Seeds |->
                                     accuracy[a].by_seed[seed].per_family[family].counts[c]])
                          /\ pooled.aggregate = Figures(_counts(a, selected[a], AllSealed))
                          /\ \A row \in Rows(a) :
                               /\ row.counts.true_positives <= row.counts.predicted_positives
                               /\ row.counts.true_positives <= row.counts.actual_positives
                               /\ row.false_positives >= 0
    BY DEF TotalsAddUp, AllSealed, Sealed
  <2>1. \A family \in DOMAIN accuracy[a].pooled.per_family : \A c \in Counted :
          accuracy[a].pooled.per_family[family].counts[c]
            = SumFunction([seed \in Seeds |->
                             accuracy[a].by_seed[seed].per_family[family].counts[c]])
    BY PooledCounts
  <2>2. accuracy[a].pooled.aggregate = Figures(_counts(a, selected[a], AllSealed))
    <3>1. IsFiniteSet(AllSealed) /\ \A p \in AllSealed : FamilyOf(p) \in FAMILIES
      BY AccuracyIs, SealedPairs DEF EvalInv
    <3> QED
      BY <3>1, AccuracyIs, ReportIs
  <2>3. ASSUME NEW row \in Rows(a)
        PROVE  /\ row.counts.true_positives <= row.counts.predicted_positives
               /\ row.counts.true_positives <= row.counts.actual_positives
               /\ row.false_positives >= 0
    <3>1. PICK report \in Reports(a) :
            \E family \in DOMAIN report.per_family : row = report.per_family[family]
      BY DEF Rows
    <3>2. PICK family \in DOMAIN report.per_family : row = report.per_family[family]
      BY <3>1
    <3>3. PICK pairs : /\ IsFiniteSet(pairs) /\ \A p \in pairs : FamilyOf(p) \in FAMILIES
                       /\ report = evaluate(a, selected[a], pairs)
      BY ReportsAre
    <3> QED
      BY <3>2, <3>3, HonestReport
  <2> QED
    BY <2>1, <2>2, <2>3
<1> QED
  BY EvalInvariant, <1>1, PTL

----------------------------------------------------------------------------
(* Pooling and the seeds                                                    *)

\* What two products of one positive number are, their other factors are.
LEMMA Cancel ==
  ASSUME NEW k \in Nat, NEW x \in Int, NEW y \in Int, k > 0, k * x < k * y
  PROVE  x < y
<1> SUFFICES ASSUME y <= x PROVE FALSE
  OBVIOUS
<1>1. PICK d \in Nat : x = y + d
  <2>1. x - y \in Nat /\ x = y + (x - y)
    OBVIOUS
  <2> QED
    BY <2>1
<1>2. k * (y + d) = k * y + k * d /\ k * d >= 0 /\ k * y \in Int /\ k * d \in Int
  OBVIOUS
<1> QED
  BY <1>1, <1>2

(* Of two F1, that of the fewer hits for the pairs they are of is less.     *)
LEMMA LessByShare ==
  ASSUME NEW h \in Nat, NEW n \in Nat, NEW i \in Nat, NEW m \in Nat, h > 0, i > 0,
         Less(<<2 * h * h, h * n>>, <<2 * i * i, i * m>>)
  PROVE  h * m < i * n
<1>1. (2 * h * h) * (i * m) < (2 * i * i) * (h * n)
  BY DEF Less
<1> DEFINE k == 2 * (h * i)
<1>2. (2 * h * h) * (i * m) = k * (h * m) /\ (2 * i * i) * (h * n) = k * (i * n)
  OBVIOUS
<1>3. k \in Nat /\ k > 0 /\ h * m \in Int /\ i * n \in Int
  <2>1. h * i > 0 /\ h * i \in Nat
    OBVIOUS
  <2> QED
    BY <2>1
<1> HIDE DEF k
<1> QED
  BY <1>1, <1>2, <1>3, Cancel

(* A row's figures follow from its three counts.                            *)
LEMMA RowIs ==
  ASSUME NEW a, NEW t, NEW pairs, IsFiniteSet(pairs), NEW row,
         row = _family_result(a, t, pairs)
  PROVE  LET h == row.counts.true_positives
             n == row.counts.actual_positives + row.counts.predicted_positives
         IN  /\ row.counts.true_positives \in Nat /\ row.counts.actual_positives \in Nat
             /\ row.counts.predicted_positives \in Nat
             /\ h > 0 => /\ row.figures.f1 = <<2 * h * h, h * n>> /\ row.figures.f1 # None
                         /\ 2 * h * h > 0 /\ h * n > 0
             /\ h = 0 => row.figures.f1 = None
<1> DEFINE c == _counts(a, t, pairs)
<1>1. row.counts = c /\ row.figures = Figures(c)
  BY DEF _family_result
<1>2. c.true_positives \in Nat /\ c.predicted_positives \in Nat /\ c.actual_positives \in Nat
  BY CountsAre DEF Counted
<1>3. c.true_positives <= c.predicted_positives /\ c.true_positives <= c.actual_positives
  BY CountsAre
<1> HIDE DEF c
<1> QED
  BY <1>1, <1>2, <1>3, F1Is

(* Pooling hides neither that a seed has an F1 nor how good the best and    *)
(* how bad the worst of them is, for any number of seeds (_pool_corpora,    *)
(* compute_family_variation).                                               *)
THEOREM PooledKept == Spec => []PooledBetweenSeeds
<1> SUFFICES EvalInv => PooledBetweenSeeds
  BY EvalInvariant, PTL
<1> SUFFICES ASSUME EvalInv, NEW a \in DOMAIN accuracy,
                    NEW family \in DOMAIN accuracy[a].pooled.per_family
             PROVE  LET pooled == PooledF1(a, family)
                        F1(seed) == accuracy[a].by_seed[seed].per_family[family].figures.f1
                        defined == {seed \in Seeds : F1(seed) # None}
                    IN  /\ pooled = None <=> defined = {}
                        /\ defined = Seeds => /\ \E seed \in Seeds : ~Less(pooled, F1(seed))
                                              /\ \E seed \in Seeds : ~Less(F1(seed), pooled)
                        /\ accuracy[a].variation[family].f1 = None <=> Cardinality(defined) < 2
  BY DEF PooledBetweenSeeds
<1> DEFINE pooled == PooledF1(a, family)
           row(seed) == accuracy[a].by_seed[seed].per_family[family]
           F1(seed) == row(seed).figures.f1
           defined == {seed \in Seeds : F1(seed) # None}
           whole == accuracy[a].pooled.per_family[family]
           u == [seed \in Seeds |-> row(seed).counts.true_positives]
           v == [seed \in Seeds |-> row(seed).counts.actual_positives]
           w == [seed \in Seeds |-> row(seed).counts.predicted_positives]
           H == SumFunction(u)
           N == SumFunction(v) + SumFunction(w)
<1>1. whole.figures.f1 = pooled
  BY DEF PooledF1
<1>2. /\ whole.counts.true_positives = H
      /\ whole.counts.actual_positives + whole.counts.predicted_positives = N
  BY PooledCounts DEF Counted
<1>3. ASSUME NEW seed \in Seeds
      PROVE  /\ u[seed] \in Nat /\ v[seed] \in Nat /\ w[seed] \in Nat
             /\ u[seed] > 0 => F1(seed) = <<2 * u[seed] * u[seed], u[seed] * (v[seed] + w[seed])>>
                               /\ F1(seed) # None
             /\ u[seed] = 0 => F1(seed) = None
  <2>1. row(seed) = _family_result(a, selected[a], OfFamily(Sealed(seed), family))
        /\ IsFiniteSet(OfFamily(Sealed(seed), family))
    BY PooledCounts
  <2>2. /\ u[seed] = row(seed).counts.true_positives
        /\ v[seed] = row(seed).counts.actual_positives
        /\ w[seed] = row(seed).counts.predicted_positives
    OBVIOUS
  <2> HIDE DEF row, u, v, w
  <2> QED
    BY <2>1, <2>2, RowIs DEF F1
<1>4. /\ whole = _family_result(a, selected[a], OfFamily(AllSealed, family))
      /\ IsFiniteSet(OfFamily(AllSealed, family))
  BY PooledCounts
<1>5. u \in [Seeds -> Nat] /\ v \in [Seeds -> Nat] /\ w \in [Seeds -> Nat]
  BY <1>3
<1>6. IsFiniteSet(Seeds) /\ Seeds # {}
  BY SeedsFinite
<1> HIDE DEF u, v, w, row, whole, pooled
<1>7. H \in Nat /\ SumFunction(v) \in Nat /\ SumFunction(w) \in Nat
      /\ (H > 0 <=> \E seed \in Seeds : u[seed] > 0)
  BY <1>5, <1>6, SumOfNumbers
<1> HIDE DEF H, N
<1>8. /\ H > 0 => pooled = <<2 * H * H, H * N>> /\ pooled # None
      /\ H = 0 => pooled = None
  BY <1>1, <1>2, <1>4, RowIs
<1>9. N \in Nat
  BY <1>7 DEF N
<1>10. \A seed \in Seeds : F1(seed) # None <=> u[seed] > 0
  BY <1>3
<1>11. pooled = None <=> defined = {}
  BY <1>7, <1>8, <1>10
<1>12. ASSUME defined = Seeds PROVE H > 0 /\ \A seed \in Seeds : u[seed] > 0
  BY <1>6, <1>7, <1>10, <1>12
<1>13. ASSUME defined = Seeds, \A seed \in Seeds : Less(pooled, F1(seed)) PROVE FALSE
  <2>1. ASSUME NEW seed \in Seeds PROVE 0 < N * u[seed] + (-H) * (v[seed] + w[seed])
    <3> DEFINE h == u[seed]
               n == v[seed] + w[seed]
    <3>1. h \in Nat /\ n \in Nat /\ h > 0 /\ F1(seed) = <<2 * h * h, h * n>>
      BY <1>3, <1>12, <1>13
    <3>2. Less(<<2 * H * H, H * N>>, <<2 * h * h, h * n>>)
      BY <1>8, <1>12, <1>13, <3>1
    <3> HIDE DEF h, n
    <3>3. H * n < h * N
      BY <1>7, <1>9, <1>12, <1>13, <3>1, <3>2, LessByShare
    <3>4. H * n \in Int /\ h * N \in Int /\ N * h = h * N /\ (-H) * n = -(H * n)
      BY <1>7, <1>9, <3>1
    <3>5. 0 < N * h + (-H) * n
      BY <3>3, <3>4
    <3> QED
      BY <3>5 DEF h, n
  <2>2. N \in Int /\ -H \in Int
    BY <1>7, <1>9
  <2>3. 0 < N * H + (-H) * N
    BY <1>5, <1>6, <2>1, <2>2, SumOfShares DEF H, N
  <2> QED
    BY <1>7, <1>9, <2>3
<1>14. ASSUME defined = Seeds, \A seed \in Seeds : Less(F1(seed), pooled) PROVE FALSE
  <2>1. ASSUME NEW seed \in Seeds PROVE 0 < (-N) * u[seed] + H * (v[seed] + w[seed])
    <3> DEFINE h == u[seed]
               n == v[seed] + w[seed]
    <3>1. h \in Nat /\ n \in Nat /\ h > 0 /\ F1(seed) = <<2 * h * h, h * n>>
      BY <1>3, <1>12, <1>14
    <3>2. Less(<<2 * h * h, h * n>>, <<2 * H * H, H * N>>)
      BY <1>8, <1>12, <1>14, <3>1
    <3> HIDE DEF h, n
    <3>3. h * N < H * n
      BY <1>7, <1>9, <1>12, <1>14, <3>1, <3>2, LessByShare
    <3>4. H * n \in Int /\ h * N \in Int /\ (-N) * h = -(h * N)
      BY <1>7, <1>9, <3>1
    <3>5. 0 < (-N) * h + H * n
      BY <3>3, <3>4
    <3> QED
      BY <3>5 DEF h, n
  <2>2. -N \in Int /\ H \in Int
    BY <1>7, <1>9
  <2>3. 0 < (-N) * H + H * N
    BY <1>5, <1>6, <2>1, <2>2, SumOfShares DEF H, N
  <2> QED
    BY <1>7, <1>9, <2>3
<1>15. accuracy[a].variation[family].f1 = None <=> Cardinality(defined) < 2
  <2> DEFINE metrics == [seed \in Seeds |-> F1(seed)]
  <2>1. SEEDS[1] \in Seeds
    BY OrderFacts DEF Seeds
  <2>2. /\ accuracy[a].variation = compute_family_variation(accuracy[a].by_seed)
        /\ DOMAIN accuracy[a].by_seed = Seeds
    BY AccuracyIs
  <2>3. family \in DOMAIN accuracy[a].by_seed[SEEDS[1]].per_family
    BY <2>1, PooledCounts
  <2>4. accuracy[a].variation[family].f1 = _variation_metric(metrics)
    BY <2>2, <2>3 DEF compute_family_variation, row, F1
  <2>5. {seed \in DOMAIN metrics : metrics[seed] # None} = defined
    OBVIOUS
  <2>6. _variation_metric(metrics)
          = IF Cardinality(defined) < 2 THEN None ELSE [seed \in defined |-> F1(seed)]
    BY <2>5 DEF _variation_metric
  <2>7. [seed \in defined |-> F1(seed)] # None
    <3>1. ASSUME NEW seed \in defined PROVE F1(seed) \in Int \X Int
      <4> DEFINE h == u[seed]
                 n == v[seed] + w[seed]
      <4>1. F1(seed) = <<2 * h * h, h * n>> /\ h \in Nat /\ n \in Nat
        BY <1>3, <1>10
      <4> HIDE DEF h, n, F1
      <4>2. 2 * h * h \in Int /\ h * n \in Int
        BY <4>1
      <4> QED
        BY <4>1, <4>2
    <3>2. [seed \in defined |-> F1(seed)] \in [defined -> Int \X Int]
      BY <3>1
    <3>3. defined \in SUBSET Seeds
      OBVIOUS
    <3> HIDE DEF defined, F1
    <3> QED
      BY <3>2, <3>3, NoneAssumption
  <2> QED
    BY <2>4, <2>6, <2>7
<1> QED
  BY <1>11, <1>13, <1>14, <1>15 DEF row, pooled

----------------------------------------------------------------------------
(* Comparing the arms                                                       *)

\* The arms that have an accuracy are finitely many.
LEMMA ArmsFinite == EvalInv => IsFiniteSet(DOMAIN accuracy)
<1> SUFFICES ASSUME EvalInv PROVE IsFiniteSet(DOMAIN accuracy)
  OBVIOUS
<1> DEFINE I == 1..(arm - 1)
           A == [n \in I |-> {_ARMS[n]}]
<1>1. arm - 1 \in Int /\ DOMAIN accuracy \subseteq {_ARMS[n] : n \in I}
  BY DEF EvalInv, Progress
<1>2. IsFiniteSet(I)
  BY <1>1, FS_Interval
<1>3. \A n \in I : IsFiniteSet(A[n])
  BY FS_Singleton
<1>4. {_ARMS[n] : n \in I} = UNION {A[n] : n \in I}
  OBVIOUS
<1> HIDE DEF I, A
<1>5. IsFiniteSet(UNION {A[n] : n \in I})
  BY <1>2, <1>3, FiniteUnion
<1> QED
  BY <1>1, <1>4, <1>5, FS_Subset

(* Two products by a positive number are ordered as what it multiplies.     *)
LEMMA Grows ==
  ASSUME NEW k \in Nat, NEW x \in Int, NEW y \in Int, k > 0, x < y
  PROVE  k * x < k * y
<1>1. PICK d \in Nat : d > 0 /\ y = x + d
  <2>1. y - x \in Nat /\ y - x > 0 /\ y = x + (y - x)
    OBVIOUS
  <2> QED
    BY <2>1
<1>2. k * (x + d) = k * x + k * d /\ k * d > 0 /\ k * x \in Int /\ k * d \in Int
  BY <1>1
<1> QED
  BY <1>1, <1>2

\* The same of numbers that may be equal.
LEMMA GrowsOrStays ==
  ASSUME NEW k \in Nat, NEW x \in Int, NEW y \in Int, k > 0, x <= y
  PROVE  k * x <= k * y
<1>1. CASE x = y
  <2>1. k * x \in Int
    OBVIOUS
  <2> QED
    BY <1>1, <2>1
<1>2. CASE x < y
  <2>1. k * x \in Int /\ k * y \in Int
    OBVIOUS
  <2> QED
    BY <1>2, <2>1, Grows
<1> QED
  BY <1>1, <1>2

\* Every arm's report is of the same families, those of the sealed pairs.
LEMMA SameFamilies ==
  ASSUME EvalInv, NEW a \in DOMAIN accuracy, NEW b \in DOMAIN accuracy
  PROVE  DOMAIN accuracy[a].pooled.per_family = DOMAIN accuracy[b].pooled.per_family
<1>1. /\ accuracy[a].pooled = evaluate(a, selected[a], AllSealed)
      /\ accuracy[b].pooled = evaluate(b, selected[b], AllSealed)
  BY AccuracyIs
<1> QED
  BY <1>1 DEF evaluate

\* Less is transitive the way Winners needs it, of positive denominators.
LEMMA LessThanABetter ==
  ASSUME NEW p \in Int, NEW q \in Nat, q > 0, NEW r \in Int, NEW s \in Nat, s > 0,
         NEW x \in Int, NEW y \in Nat, y > 0,
         Less(<<p, q>>, <<x, y>>), ~Less(<<r, s>>, <<x, y>>)
  PROVE  Less(<<p, q>>, <<r, s>>)
<1>1. p * y < x * q /\ ~(r * y < x * s)
  BY DEF Less
<1> DEFINE py == p * y
           xq == x * q
           ry == r * y
           xs == x * s
<1>2. py \in Int /\ xq \in Int /\ ry \in Int /\ xs \in Int
  OBVIOUS
<1>3. y * (p * s) = s * py /\ y * (r * q) = q * ry /\ s * xq = q * xs
  OBVIOUS
<1>4. py < xq /\ xs <= ry
  BY <1>1, <1>2
<1> HIDE DEF py, xq, ry, xs
<1>5. s * py < s * xq
  BY <1>2, <1>4, Grows
<1>6. q * xs <= q * ry
  BY <1>2, <1>4, GrowsOrStays
<1>7. p * s \in Int /\ r * q \in Int /\ s * py \in Int /\ s * xq \in Int
      /\ q * xs \in Int /\ q * ry \in Int
  BY <1>2
<1>8. s * py < q * ry
  BY <1>3, <1>5, <1>6, <1>7
<1>9. y * (p * s) < y * (r * q)
  BY <1>3, <1>8
<1>10. p * s < r * q
  BY <1>7, <1>9, Cancel
<1> QED
  BY <1>10 DEF Less

\* An F1 there is, is a fraction of positive denominator.
LEMMA F1IsAFraction ==
  ASSUME EvalInv, NEW a \in DOMAIN accuracy,
         NEW family \in DOMAIN accuracy[a].pooled.per_family, PooledF1(a, family) # None
  PROVE  \E x \in Int, y \in Nat : y > 0 /\ PooledF1(a, family) = <<x, y>>
<1> DEFINE row == accuracy[a].pooled.per_family[family]
           h == row.counts.true_positives
           n == row.counts.actual_positives + row.counts.predicted_positives
<1>1. /\ row = _family_result(a, selected[a], OfFamily(AllSealed, family))
      /\ IsFiniteSet(OfFamily(AllSealed, family))
  BY PooledCounts
<1>2. PooledF1(a, family) = row.figures.f1
  BY DEF PooledF1
<1> HIDE DEF row
<1>3. /\ h \in Nat /\ n \in Nat
      /\ h > 0 => row.figures.f1 = <<2 * h * h, h * n>> /\ h * n > 0
      /\ h = 0 => row.figures.f1 = None
  BY <1>1, RowIs
<1> HIDE DEF h, n
<1>4. h > 0
  BY <1>2, <1>3
<1>5. 2 * h * h \in Int /\ h * n \in Nat
  BY <1>3
<1> QED
  BY <1>2, <1>3, <1>4, <1>5

(* A contradiction and a divergence, computed apart from the same reports,  *)
(* do not contradict each other, and no arm without an F1 is in either      *)
(* (find_contradictions, compute_accuracy_divergence).                      *)
THEOREM ComparisonsKept == Spec => []ComparisonsAgree
<1> SUFFICES EvalInv => ComparisonsAgree
  BY EvalInvariant, PTL
<1> SUFFICES ASSUME EvalInv, pc = "done" PROVE ComparisonsAgree
  BY DEF ComparisonsAgree
<1>1. contradictions = find_contradictions /\ divergence = compute_accuracy_divergence
  BY DEF EvalInv, Compared
<1>2. ASSUME NEW family
      PROVE  /\ Winners(family) \subseteq Comparable(family)
             /\ \A a \in Comparable(family) : PooledF1(a, family) # None
  BY DEF Winners, Comparable
<1>3. ASSUME NEW c \in contradictions,
             NEW a \in c.actual_winners \cup {_EXPECTED_WINNERS[c.family]}
      PROVE  PooledF1(a, c.family) # None
  <2>1. /\ c.actual_winners = Winners(c.family)
        /\ _EXPECTED_WINNERS[c.family] \in Comparable(c.family)
    BY <1>1 DEF find_contradictions
  <2> QED
    BY <1>2, <1>3, <2>1
<1>4. ASSUME divergence # None,
             NEW family \in DOMAIN divergence \cap DOMAIN _EXPECTED_WINNERS,
             _EXPECTED_WINNERS[family] = Baseline
      PROVE  LET named == {c \in contradictions : c.family = family}
             IN  /\ divergence[family] # None /\ divergence[family][1] > 0
                      => \E c \in named : Baseline \notin c.actual_winners
                 /\ \A c \in named : Candidate \in c.actual_winners
                      => divergence[family] # None /\ divergence[family][1] > 0
  <2> DEFINE b == PooledF1(Baseline, family)
             x == PooledF1(Candidate, family)
             named == {c \in contradictions : c.family = family}
  <2>1. /\ Baseline \in DOMAIN accuracy /\ Candidate \in DOMAIN accuracy
        /\ family \in DOMAIN accuracy[Baseline].pooled.per_family
        /\ divergence[family] = _delta_metric(b, x)
    <3>1. {Baseline, Candidate} \subseteq DOMAIN accuracy
      BY <1>1, <1>4 DEF compute_accuracy_divergence
    <3>2. divergence = [f \in DOMAIN accuracy[Baseline].pooled.per_family |->
                          _delta_metric(PooledF1(Baseline, f), PooledF1(Candidate, f))]
      BY <1>1, <3>1 DEF compute_accuracy_divergence
    <3> QED
      BY <3>1, <3>2
  <2>2. family \in DOMAIN accuracy[Candidate].pooled.per_family
    BY <2>1, SameFamilies
  <2>3. /\ b # None => \E i \in Int, j \in Nat : j > 0 /\ b = <<i, j>>
        /\ x # None => \E i \in Int, j \in Nat : j > 0 /\ x = <<i, j>>
    BY <2>1, <2>2, F1IsAFraction
  <2>4. /\ b # None => Baseline \in Comparable(family)
        /\ x # None => Candidate \in Comparable(family)
    BY <2>1, <2>2 DEF Comparable
  <2>5. b # None /\ x # None
          => divergence[family] # None /\ (divergence[family][1] > 0 <=> Less(b, x))
    <3> SUFFICES ASSUME b # None, x # None
                 PROVE  divergence[family] # None /\ (divergence[family][1] > 0 <=> Less(b, x))
      OBVIOUS
    <3>1. PICK i \in Int, j \in Nat : b = <<i, j>>
      BY <2>3
    <3>2. PICK k \in Int, l \in Nat : x = <<k, l>>
      BY <2>3
    <3>3. divergence[family] = <<k * j - i * l, l * j>>
      BY <2>1, <3>1, <3>2 DEF _delta_metric
    <3>4. k * j \in Int /\ i * l \in Int /\ l * j \in Int
      OBVIOUS
    <3>5. divergence[family] \in Int \X Int
      BY <3>3, <3>4
    <3>6. divergence[family][1] > 0 <=> i * l < k * j
      BY <3>3, <3>4
    <3> QED
      BY <3>1, <3>2, <3>5, <3>6, NoneAssumption DEF Less
  <2>6. b = None \/ x = None => divergence[family] = None
    BY <2>1 DEF _delta_metric
  <2> HIDE DEF b, x
  <2>7. ASSUME divergence[family] # None, divergence[family][1] > 0
        PROVE  \E c \in named : Baseline \notin c.actual_winners
    <3>1. b # None /\ x # None /\ Less(b, x)
      BY <2>5, <2>6, <2>7
    <3>2. Baseline \in Comparable(family) /\ Candidate \in Comparable(family)
      BY <2>4, <3>1
    <3>3. Baseline \notin Winners(family)
      BY <3>1, <3>2 DEF Winners, F1OrZero, b, x
    <3>4. Baseline # Candidate
      <4>1. PICK i \in Int, j \in Nat : b = <<i, j>>
        BY <2>3, <3>1 DEF b
      <4>2. i * j \in Int
        OBVIOUS
      <4> QED
        BY <3>1, <4>1, <4>2 DEF Less, b, x
    <3>5. Cardinality(Comparable(family)) >= 2
      <4>1. Comparable(family) \in SUBSET (DOMAIN accuracy)
        BY DEF Comparable
      <4>2. IsFiniteSet(Comparable(family))
        BY <4>1, ArmsFinite, FS_Subset
      <4>3. /\ IsFiniteSet({Baseline}) /\ Cardinality({Baseline}) = 1
        BY FS_Singleton
      <4>4. Cardinality({Baseline} \cup {Candidate}) = 2
        <5>1. Candidate \notin {Baseline}
          BY <3>4
        <5> DEFINE S == {Baseline}
        <5> HIDE DEF S
        <5>2. IsFiniteSet(S) /\ Cardinality(S) = 1 /\ Candidate \notin S
          BY <4>3, <5>1 DEF S
        <5>3. Cardinality(S \cup {Candidate})
                = IF Candidate \in S THEN Cardinality(S) ELSE Cardinality(S) + 1
          BY <5>2, FS_AddElement
        <5> QED
          BY <5>2, <5>3 DEF S
      <4>5. {Baseline} \cup {Candidate} \in SUBSET Comparable(family)
        BY <3>2
      <4>6. Cardinality({Baseline} \cup {Candidate}) <= Cardinality(Comparable(family))
        BY <4>2, <4>5, FS_Subset
      <4>7. Cardinality(Comparable(family)) \in Nat
        BY <4>2, FS_CardinalityType
      <4> QED
        BY <4>4, <4>6, <4>7
    <3> DEFINE c == [family |-> family, actual_winners |-> Winners(family)]
    <3>6. c \in contradictions
      BY <1>1, <1>4, <3>2, <3>3, <3>5 DEF find_contradictions
    <3> QED
      BY <3>3, <3>6
  <2>8. ASSUME NEW c \in named, Candidate \in c.actual_winners
        PROVE  divergence[family] # None /\ divergence[family][1] > 0
    <3>1. /\ c.actual_winners = Winners(family)
          /\ Baseline \in Comparable(family) \ Winners(family)
      BY <1>1, <1>4 DEF find_contradictions
    <3>2. PICK best \in Comparable(family) :
            Less(F1OrZero(Baseline, family), F1OrZero(best, family))
      BY <3>1 DEF Winners
    <3>3. Candidate \in Comparable(family)
          /\ ~Less(F1OrZero(Candidate, family), F1OrZero(best, family))
      BY <2>8, <3>1 DEF Winners
    <3> DEFINE z == PooledF1(best, family)
    <3>4. b # None /\ x # None /\ z # None
      BY <1>2, <3>1, <3>2, <3>3 DEF b, x
    <3>5. Less(b, z) /\ ~Less(x, z)
      BY <3>2, <3>3, <3>4 DEF F1OrZero, b, x
    <3>6. best \in DOMAIN accuracy /\ family \in DOMAIN accuracy[best].pooled.per_family
      BY <3>2 DEF Comparable
    <3>7. PICK k \in Int, l \in Nat : l > 0 /\ z = <<k, l>>
      BY <3>4, <3>6, F1IsAFraction
    <3> HIDE DEF z
    <3>8. PICK i \in Int, j \in Nat : j > 0 /\ b = <<i, j>>
      BY <2>3, <3>4 DEF b
    <3>9. PICK m \in Int, n \in Nat : n > 0 /\ x = <<m, n>>
      BY <2>3, <3>4 DEF x
    <3>10. Less(b, x)
      BY <3>5, <3>7, <3>8, <3>9, LessThanABetter
    <3> QED
      BY <2>5, <3>4, <3>10
  <2> QED
    BY <2>7, <2>8
<1> QED
  BY <1>3, <1>4 DEF ComparisonsAgree

----------------------------------------------------------------------------
(* The threshold                                                            *)

(* A finite set of numbers has a greatest and a least.                      *)
LEMMA GreatestAndLeast ==
  ASSUME NEW T, IsFiniteSet(T), T \subseteq Int, T # {}
  PROVE  /\ Max(T) \in T /\ \A y \in T : Max(T) >= y
         /\ Min(T) \in T /\ \A y \in T : Min(T) <= y
<1> DEFINE Good == {U \in SUBSET T : U # {} => /\ \E m \in U : \A y \in U : m >= y
                                               /\ \E m \in U : \A y \in U : m <= y}
<1>1. {} \in Good
  OBVIOUS
<1>2. ASSUME NEW U \in SUBSET T, U # {}, Rest(U) \in Good PROVE U \in Good
  <2>1. U = Rest(U) \cup {Some(U)} /\ Some(U) \in U
    BY <1>2, RestIsSmaller
  <2>2. CASE Rest(U) = {}
    <3> DEFINE x == Some(U)
    <3>1. U = {x} /\ x \in U /\ x \in Int
      BY <2>1, <2>2
    <3> HIDE DEF x
    <3>2. \A y \in U : x >= y /\ x <= y
      BY <3>1
    <3> QED
      BY <3>1, <3>2
  <2>3. CASE Rest(U) # {}
    <3>1. PICK m \in Rest(U) : \A y \in Rest(U) : m >= y
      BY <1>2, <2>3
    <3>2. PICK n \in Rest(U) : \A y \in Rest(U) : n <= y
      BY <1>2, <2>3
    <3> DEFINE x == Some(U)
    <3>3. x \in Int /\ m \in Int /\ n \in Int /\ m \in U /\ n \in U /\ x \in U
          /\ U \subseteq Int
      BY <2>1
    <3> HIDE DEF x
    <3>4. \E z \in U : \A y \in U : z >= y
      <4>1. CASE m >= x
        BY <2>1, <3>1, <3>3, <4>1 DEF x
      <4>2. CASE x >= m
        <5>1. \A y \in U : x >= y
          BY <2>1, <3>1, <3>3, <4>2 DEF x
        <5> QED
          BY <3>3, <5>1
      <4> QED
        BY <3>3, <4>1, <4>2
    <3>5. \E z \in U : \A y \in U : z <= y
      <4>1. CASE n <= x
        BY <2>1, <3>2, <3>3, <4>1 DEF x
      <4>2. CASE x <= n
        <5>1. \A y \in U : x <= y
          BY <2>1, <3>2, <3>3, <4>2 DEF x
        <5> QED
          BY <3>3, <5>1
      <4> QED
        BY <3>3, <4>1, <4>2
    <3> QED
      BY <3>4, <3>5
  <2> QED
    BY <2>2, <2>3
<1> HIDE DEF Good
<1>3. T \in Good
  BY <1>1, <1>2, EverySubset
<1>4. (\E m \in T : \A y \in T : m >= y) /\ (\E m \in T : \A y \in T : m <= y)
  BY <1>3 DEF Good
<1>5. Max(T) \in T /\ \A y \in T : Max(T) >= y
  BY <1>4 DEF Max
<1>6. Min(T) \in T /\ \A y \in T : Min(T) <= y
  BY <1>4 DEF Min
<1> QED
  BY <1>5, <1>6

\* The pairs thresholds are selected on, and the scores an arm gives them.
Calibration == _pairs_for_role(_pool_corpora, "calibration")

Scores(a) == {Score(a, p) : p \in Calibration}

\* The turn of the sweep for a candidate.
Improved(a, up, candidate, best) ==
  IF Improves(CalibrationF1(a, candidate), best.f1, candidate \in up)
  THEN [value |-> candidate, f1 |-> CalibrationF1(a, candidate)] ELSE best

Below(T) == T \ {Max(T)}

\* g is the recursive function behind select_threshold(a, _pool_corpora, up),
\* over the sets of D.
Sweeps(g, a, up, D) ==
  g = [T \in D |-> IF T = {} THEN [value |-> Min(Scores(a)), f1 |-> None]
                   ELSE Improved(a, up, Max(T), g[Below(T)])]

\* What is left of a set of numbers without the greatest.
LEMMA BelowIsSmaller ==
  ASSUME NEW S, IsFiniteSet(S), S \subseteq Int, NEW T \in SUBSET S, T # {}
  PROVE  /\ Max(T) \in T /\ \A y \in T : Max(T) >= y
         /\ IsFiniteSet(T) /\ Below(T) \in SUBSET S /\ Below(T) = T \ {Max(T)}
         /\ Cardinality(T) \in Nat /\ Cardinality(Below(T)) = Cardinality(T) - 1
<1>1. IsFiniteSet(T)
  BY FS_Subset
<1>2. Max(T) \in T /\ \A y \in T : Max(T) >= y
  BY <1>1, GreatestAndLeast
<1> QED
  BY <1>1, <1>2, FS_RemoveElement, FS_CardinalityType DEF Below

\* The sweep is well defined.
LEMMA SweepsExist ==
  ASSUME NEW S, IsFiniteSet(S), S \subseteq Int, NEW a, NEW up
  PROVE  \E g : Sweeps(g, a, up, SUBSET S)
<1> DEFINE D(k) == {T \in SUBSET S : Cardinality(T) <= k}
           Bad == {k \in Nat : ~ \E g : Sweeps(g, a, up, D(k))}
           base == [value |-> Min(Scores(a)), f1 |-> None]
           Next1(g, T) == IF T = {} THEN base ELSE Improved(a, up, Max(T), g[Below(T)])
<1>1. ASSUME Bad # {} PROVE FALSE
  <2>1. PICK k \in Bad : \A j \in Bad : k <= j
    <3>1. Bad \subseteq Nat
      OBVIOUS
    <3> HIDE DEF Bad
    <3> QED
      BY <1>1, <3>1, SmallestNumber
  <2>2. CASE k = 0
    <3>1. \A T \in D(0) : T = {}
      <4> SUFFICES ASSUME NEW T \in D(0), T # {} PROVE FALSE
        OBVIOUS
      <4>1. Cardinality(T) \in Nat /\ Cardinality(Below(T)) = Cardinality(T) - 1
            /\ Below(T) \in SUBSET S
        BY BelowIsSmaller
      <4>2. Cardinality(Below(T)) \in Nat
        BY <4>1, FS_Subset, FS_CardinalityType
      <4> QED
        BY <4>1, <4>2
    <3>2. Sweeps([T \in D(0) |-> base], a, up, D(0))
      BY <3>1 DEF Sweeps
    <3> QED
      BY <2>1, <2>2, <3>2
  <2>3. CASE k # 0
    <3>1. k \in Nat /\ k - 1 \in Nat /\ k - 1 \notin Bad
      <4>1. k \in Nat
        BY <2>1
      <4>2. k - 1 \in Nat /\ ~(k <= k - 1)
        BY <2>3, <4>1
      <4> HIDE DEF Bad
      <4> QED
        BY <2>1, <4>1, <4>2
    <3>2. PICK g : Sweeps(g, a, up, D(k - 1))
      BY <3>1
    <3> DEFINE h == [T \in D(k) |-> Next1(g, T)]
    <3>3. ASSUME NEW T \in D(k), T # {}
          PROVE  h[Below(T)] = g[Below(T)]
      <4>1. Below(T) \in D(k - 1) /\ Below(T) \in D(k)
        <5>1. T \in SUBSET S /\ Cardinality(T) <= k
          OBVIOUS
        <5>2. /\ Below(T) \in SUBSET S /\ Cardinality(T) \in Nat
              /\ Cardinality(Below(T)) = Cardinality(T) - 1
          BY <3>3, <5>1, BelowIsSmaller
        <5>3. Cardinality(Below(T)) <= k - 1 /\ Cardinality(Below(T)) <= k
          BY <3>1, <5>1, <5>2
        <5> QED
          BY <5>2, <5>3
      <4>2. g[Below(T)] = Next1(g, Below(T))
        <5> DEFINE G == [U \in D(k - 1) |-> Next1(g, U)]
        <5>1. g = G
          BY <3>2 DEF Sweeps
        <5>2. G[Below(T)] = Next1(g, Below(T))
          BY <4>1
        <5> QED
          BY <5>1, <5>2
      <4> QED
        BY <4>1, <4>2
    <3>4. Sweeps(h, a, up, D(k))
      <4>1. h = [T \in D(k) |-> Next1(h, T)]
        BY <3>3
      <4> QED
        BY <4>1 DEF Sweeps
    <3> QED
      BY <2>1, <3>4
  <2> QED
    BY <2>2, <2>3
<1>2. Cardinality(S) \in Nat
  BY FS_CardinalityType
<1>3. D(Cardinality(S)) = SUBSET S
  <2>1. ASSUME NEW T \in SUBSET S PROVE Cardinality(T) <= Cardinality(S)
    BY FS_Subset
  <2> QED
    BY <2>1
<1> QED
  BY <1>1, <1>2, <1>3

(* The threshold selected is what a sweep from below ends with.             *)
LEMMA SelectedIs ==
  ASSUME NEW a, NEW up, IsFiniteSet(Scores(a)), Scores(a) \subseteq Int
  PROVE  \E g : /\ select_threshold(a, _pool_corpora, up) = g[Scores(a)].value
                /\ g[{}] = [value |-> Min(Scores(a)), f1 |-> None]
                /\ \A T \in SUBSET Scores(a) :
                     T # {} => g[T] = Improved(a, up, Max(T), g[Below(T)])
<1> DEFINE it == CHOOSE g : Sweeps(g, a, up, SUBSET Scores(a))
<1>1. select_threshold(a, _pool_corpora, up) = it[Scores(a)].value
  BY DEF select_threshold, CalibrationScores, MapThenFoldSet, Sweeps, Scores, Calibration, Improved,
         CalibrationF1, Below
<1>2. \E g : Sweeps(g, a, up, SUBSET Scores(a))
  BY SweepsExist
<1>3. Sweeps(it, a, up, SUBSET Scores(a))
  BY <1>2
<1> HIDE DEF it
<1> DEFINE G == [T \in SUBSET Scores(a) |->
                   IF T = {} THEN [value |-> Min(Scores(a)), f1 |-> None]
                   ELSE Improved(a, up, Max(T), it[Below(T)])]
<1>4. it = G
  BY <1>3 DEF Sweeps
<1>5. G[{}] = [value |-> Min(Scores(a)), f1 |-> None]
  OBVIOUS
<1>6. ASSUME NEW T \in SUBSET Scores(a), T # {}
      PROVE  G[T] = Improved(a, up, Max(T), it[Below(T)])
  BY <1>6
<1> HIDE DEF G
<1> QED
  BY <1>1, <1>4, <1>5, <1>6

\* One fraction is not both less and greater than another, nor than itself.
LEMMA LessIsStrict ==
  ASSUME NEW p \in Int, NEW q \in Nat, NEW r \in Int, NEW s \in Nat,
         Less(<<p, q>>, <<r, s>>)
  PROVE  ~Less(<<r, s>>, <<p, q>>)
<1>1. p * s \in Int /\ r * q \in Int
  OBVIOUS
<1> QED
  BY <1>1 DEF Less

\* F1 over the calibration pairs is None or a fraction, whatever the threshold.
LEMMA CalibrationF1Is ==
  ASSUME IsFiniteSet(Calibration), NEW a, NEW t, CalibrationF1(a, t) # None
  PROVE  /\ \E x \in Int, y \in Nat : y > 0 /\ CalibrationF1(a, t) = <<x, y>>
         /\ \E p \in Calibration : Score(a, p) >= t
<1> DEFINE c == _counts(a, t, Calibration)
           h == c.true_positives
           n == c.actual_positives + c.predicted_positives
<1>1. /\ c.true_positives \in Nat /\ c.predicted_positives \in Nat
      /\ c.actual_positives \in Nat
  BY CountsAre DEF Counted
<1>2. /\ c.true_positives <= c.predicted_positives /\ c.true_positives <= c.actual_positives
      /\ c.true_positives > 0 => \E p \in Calibration : Score(a, p) >= t
  BY CountsAre
<1>3. CalibrationF1(a, t) = Figures(c).f1
  BY DEF CalibrationF1, Calibration
<1> HIDE DEF c
<1>4. /\ h > 0 => Figures(c).f1 = <<2 * h * h, h * n>> /\ h * n > 0
      /\ h = 0 => Figures(c).f1 = None
  BY <1>1, <1>2, F1Is
<1>5. h > 0 /\ h \in Nat /\ n \in Nat
  BY <1>1, <1>3, <1>4
<1>6. 2 * h * h \in Int /\ h * n \in Nat /\ h * n > 0
  BY <1>4, <1>5
<1> QED
  BY <1>2, <1>3, <1>4, <1>5, <1>6

\* Every F1 a threshold can reach is reached at some pair's score.
LEMMA ReachedAtAScore ==
  ASSUME NEW a, IsFiniteSet(Calibration), IsFiniteSet(Scores(a)), Scores(a) \subseteq Int,
         NEW t \in Int, CalibrationF1(a, t) # None
  PROVE  \E s \in Scores(a) : CalibrationF1(a, s) = CalibrationF1(a, t)
<1> DEFINE U == {s \in Scores(a) : s >= t}
           m == Min(U)
<1>1. PICK p \in Calibration : Score(a, p) >= t
  BY CalibrationF1Is
<1>2. Score(a, p) \in U
  BY <1>1 DEF Scores
<1>3. IsFiniteSet(U) /\ U \subseteq Int /\ U # {}
  BY <1>2, FS_Subset
<1> HIDE DEF U
<1>4. m \in U /\ \A s \in U : m <= s
  BY <1>3, GreatestAndLeast
<1>5. m \in Scores(a) /\ m >= t /\ m \in Int
  BY <1>4 DEF U
<1> HIDE DEF m
<1>6. ASSUME NEW q \in Calibration PROVE Score(a, q) >= m <=> Score(a, q) >= t
  <2>1. Score(a, q) \in Scores(a) /\ Score(a, q) \in Int
    BY DEF Scores
  <2>2. Score(a, q) >= t => Score(a, q) >= m
    BY <1>4, <1>5, <2>1 DEF U
  <2> QED
    BY <1>5, <2>1, <2>2
<1>7. {q \in Calibration : Score(a, q) >= m} = {q \in Calibration : Score(a, q) >= t}
  BY <1>6
<1>8. _counts(a, m, Calibration) = _counts(a, t, Calibration)
  BY <1>7 DEF _counts
<1>9. CalibrationF1(a, m) = CalibrationF1(a, t)
  BY <1>8 DEF CalibrationF1, Calibration
<1> QED
  BY <1>5, <1>9

\* What a sweep over the scores of T has found.
Found(a, T, it) ==
  /\ it.f1 = None => /\ it.value = Min(Scores(a))
                     /\ \A t \in T : CalibrationF1(a, t) = None
  /\ it.f1 # None =>
       /\ it.value \in T /\ it.f1 = CalibrationF1(a, it.value)
       /\ \A t \in T : CalibrationF1(a, t) # None => ~Less(it.f1, CalibrationF1(a, t))

(* A turn of the sweep: the candidate replaces what was found of those      *)
(* below it only if it is no worse than any of them.                        *)
LEMMA TurnOfTheSweep ==
  ASSUME NEW a, NEW up, IsFiniteSet(Calibration), NEW T, T \subseteq Int, NEW c \in T,
         \A t \in T : c >= t, NEW it, Found(a, T \ {c}, it)
  PROVE  Found(a, T, Improved(a, up, c, it))
<1> DEFINE F(t) == CalibrationF1(a, t)
           B == T \ {c}
           Fraction(x) == \E i \in Int, j \in Nat : j > 0 /\ x = <<i, j>>
<1>1. ASSUME NEW t, F(t) # None PROVE Fraction(F(t))
  BY <1>1, CalibrationF1Is
<1>2. ASSUME NEW x, NEW y, Fraction(x), Fraction(y), Less(x, y) PROVE ~Less(y, x)
  <2>1. PICK i \in Int, j \in Nat : x = <<i, j>>
    BY <1>2
  <2>2. PICK k \in Int, l \in Nat : y = <<k, l>>
    BY <1>2
  <2> QED
    BY <1>2, <2>1, <2>2, LessIsStrict
<1>3. ASSUME NEW x, NEW y, NEW z, Fraction(x), Fraction(y), Fraction(z),
             Less(x, y), ~Less(x, z)
      PROVE  Less(z, y)
  <2>1. PICK i \in Int, j \in Nat : j > 0 /\ x = <<i, j>>
    BY <1>3
  <2>2. PICK k \in Int, l \in Nat : l > 0 /\ y = <<k, l>>
    BY <1>3
  <2>3. PICK m \in Int, n \in Nat : n > 0 /\ z = <<m, n>>
    BY <1>3
  <2> QED
    BY <1>3, <2>1, <2>2, <2>3, LessThanABetter
<1>4. it.f1 # None => it.value \in B /\ it.f1 = F(it.value) /\ Fraction(it.f1)
  BY <1>1 DEF Found
<1>5. CASE Improves(F(c), it.f1, c \in up)
  <2>1. Improved(a, up, c, it) = [value |-> c, f1 |-> F(c)] /\ F(c) # None
    BY <1>5 DEF Improved, Improves
  <2>2. Fraction(F(c)) /\ ~Less(F(c), F(c))
    BY <1>1, <1>2, <2>1
  <2>3. ASSUME NEW t \in B, F(t) # None PROVE ~Less(F(c), F(t))
    <3>1. it.f1 # None /\ ~Less(it.f1, F(t))
      BY <2>3 DEF Found
    <3>2. Fraction(F(t)) /\ Fraction(it.f1)
      BY <1>1, <1>4, <2>3, <3>1
    <3>3. ~Less(F(c), it.f1)
      BY <1>2, <1>5, <2>2, <3>1, <3>2 DEF Improves
    <3> QED
      BY <1>3, <2>2, <3>1, <3>2, <3>3
  <2> HIDE DEF Fraction
  <2>4. ASSUME NEW t \in T, F(t) # None PROVE ~Less(F(c), F(t))
    <3>1. CASE t = c
      BY <2>2, <3>1
    <3>2. CASE t # c
      BY <2>3, <2>4, <3>2
    <3> QED
      BY <3>1, <3>2
  <2> QED
    BY <2>1, <2>4 DEF Found
<1>6. CASE ~Improves(F(c), it.f1, c \in up)
  <2>1. Improved(a, up, c, it) = it
    BY <1>6 DEF Improved
  <2>2. F(c) # None => it.f1 # None /\ ~Less(it.f1, F(c))
    BY <1>6 DEF Improves
  <2>3. CASE it.f1 = None
    BY <2>1, <2>2, <2>3 DEF Found
  <2>4. CASE it.f1 # None
    <3>1. it.value \in T
      BY <1>4, <2>4
    <3>2. ASSUME NEW t \in T, F(t) # None PROVE ~Less(it.f1, F(t))
      <4>1. CASE t = c
        BY <2>2, <3>2, <4>1
      <4>2. CASE t # c
        BY <2>4, <3>2, <4>2 DEF Found
      <4> QED
        BY <4>1, <4>2
    <3> QED
      BY <1>4, <2>1, <2>4, <3>1, <3>2 DEF Found
  <2> QED
    BY <2>3, <2>4
<1> QED
  BY <1>5, <1>6

(* Of an arm with scores to choose from, the threshold selected is the best *)
(* there is, or the lowest score when none is any good.                     *)
LEMMA SelectedIsBest ==
  ASSUME NEW a, NEW up, IsFiniteSet(Calibration), IsFiniteSet(Scores(a)), Scores(a) \subseteq Int,
         Scores(a) # {}
  PROVE  LET best == CalibrationF1(a, select_threshold(a, _pool_corpora, up))
         IN  /\ select_threshold(a, _pool_corpora, up) \in Scores(a)
             /\ \A t \in Int : ~Beats(CalibrationF1(a, t), best)
             /\ best = None => select_threshold(a, _pool_corpora, up) = Min(Scores(a))
<1> DEFINE S == Scores(a)
<1>1. PICK g : /\ select_threshold(a, _pool_corpora, up) = g[S].value
               /\ g[{}] = [value |-> Min(S), f1 |-> None]
               /\ \A T \in SUBSET S : T # {} => g[T] = Improved(a, up, Max(T), g[Below(T)])
  BY SelectedIs
<1> DEFINE Good == {T \in SUBSET S : Found(a, T, g[T])}
<1>2. {} \in Good
  BY <1>1 DEF Found
<1>3. ASSUME NEW T \in SUBSET S, T # {}
      PROVE  \E x \in T : T \ {x} \in Good => T \in Good
  <2>1. /\ Max(T) \in T /\ \A y \in T : Max(T) >= y
        /\ Below(T) \in SUBSET S /\ Below(T) = T \ {Max(T)}
    BY <1>3, BelowIsSmaller
  <2>2. ASSUME T \ {Max(T)} \in Good PROVE T \in Good
    <3>1. Found(a, T \ {Max(T)}, g[Below(T)])
      BY <2>1, <2>2
    <3>2. Found(a, T, Improved(a, up, Max(T), g[Below(T)]))
      <4>1. T \subseteq Int
        OBVIOUS
      <4> QED
        BY <2>1, <3>1, <4>1, TurnOfTheSweep
    <3> QED
      BY <1>1, <1>3, <3>2
  <2> HIDE DEF Good
  <2> QED
    BY <2>1, <2>2
<1>4. Found(a, S, g[S])
  <2> HIDE DEF Good
  <2>1. S \in Good
    BY <1>2, <1>3, EverySubsetOf
  <2> QED
    BY <2>1 DEF Good
<1> DEFINE it == g[S]
           F(t) == CalibrationF1(a, t)
<1>5. Min(S) \in S /\ \A y \in S : Min(S) <= y
  BY GreatestAndLeast
<1> HIDE DEF it
<1>6. Found(a, S, it) /\ select_threshold(a, _pool_corpora, up) = it.value
  BY <1>1, <1>4 DEF it
<1> HIDE DEF S
<1>7. it.value \in S /\ F(it.value) = it.f1
  BY <1>5, <1>6 DEF Found, S
<1>8. ASSUME NEW t \in Int PROVE ~Beats(F(t), it.f1)
  <2> SUFFICES ASSUME F(t) # None PROVE it.f1 # None /\ ~Less(it.f1, F(t))
    BY DEF Beats
  <2>1. PICK s \in S : F(s) = F(t)
    BY ReachedAtAScore DEF S
  <2> QED
    BY <1>6, <2>1 DEF Found
<1>9. it.f1 = None => it.value = Min(S)
  BY <1>6 DEF Found, S
<1> QED
  BY <1>6, <1>7, <1>8, <1>9 DEF S

\* There are finitely many calibration pairs, and their scores are numbers.
LEMMA ScoresAre ==
  ASSUME SplitInv, DOMAIN corpora = Seeds, NEW a \in Arms
  PROVE  IsFiniteSet(Calibration) /\ IsFiniteSet(Scores(a)) /\ Scores(a) \subseteq Int
<1>1. size \in Sizes
  BY DEF SplitInv
<1>2. Calibration \subseteq UNION {Pairs(seed) : seed \in Seeds}
  <2>1. ASSUME NEW seed \in Seeds PROVE DOMAIN corpora[seed] = Pairs(seed)
    BY DEF SplitInv, _split_into_roles
  <2>2. DOMAIN _pool_corpora = UNION {Pairs(seed) : seed \in Seeds}
    BY <2>1 DEF _pool_corpora
  <2> QED
    BY <2>2 DEF Calibration, _pairs_for_role
<1>3. IsFiniteSet(UNION {Pairs(seed) : seed \in Seeds})
  <2> DEFINE A == [seed \in Seeds |-> Pairs(seed)]
  <2>1. \A seed \in Seeds : IsFiniteSet(A[seed])
    BY <1>1, PairsFinite
  <2>2. UNION {Pairs(seed) : seed \in Seeds} = UNION {A[seed] : seed \in Seeds}
    OBVIOUS
  <2> HIDE DEF A
  <2>3. IsFiniteSet(UNION {A[seed] : seed \in Seeds})
    BY <2>1, SeedsFinite, FiniteUnion
  <2> QED
    BY <2>2, <2>3
<1>4. IsFiniteSet(Calibration)
  BY <1>2, <1>3, FS_Subset
<1>5. ASSUME NEW p \in Calibration PROVE Score(a, p) \in Int
  <2>1. PICK seed \in Seeds, family \in FAMILIES :
          \E n \in 0..(size[family] - 1) : p = <<seed, family, n>>
    BY <1>2 DEF Pairs, Ids
  <2> QED
    BY <1>1, <2>1, ScoresAssumption
<1>6. IsFiniteSet(Scores(a))
  <2> DEFINE A == [p \in Calibration |-> {Score(a, p)}]
  <2>1. \A p \in Calibration : IsFiniteSet(A[p])
    BY FS_Singleton
  <2>2. Scores(a) = UNION {A[p] : p \in Calibration}
    BY DEF Scores
  <2> HIDE DEF A
  <2> QED
    BY <1>4, <2>1, <2>2, FiniteUnion
<1> QED
  BY <1>4, <1>5, <1>6 DEF Scores

\* Every threshold is still what would be selected.
ThresholdInv ==
  /\ pc = "generate" => DOMAIN selected = {}
  /\ \A a \in DOMAIN selected :
       /\ a \in Arms /\ Calibration # {}
       /\ \E up \in SUBSET Scores(a) : selected[a] = select_threshold(a, _pool_corpora, up)

\* Every step keeps the thresholds: the corpora they are of are complete.
LEMMA ThresholdsStay ==
  EvalInv /\ ThresholdInv /\ [Next]_vars => ThresholdInv'
<1> SUFFICES ASSUME EvalInv, ThresholdInv, [Next]_vars PROVE ThresholdInv'
  OBVIOUS
<1>1. CASE Generate
  <2>1. DOMAIN selected' = {}
    BY <1>1 DEF Generate, ThresholdInv
  <2> QED
    BY <2>1 DEF ThresholdInv
<1>2. ASSUME corpora' = corpora
      PROVE  /\ Calibration' = Calibration
             /\ \A a : Scores(a)' = Scores(a)
             /\ \A a, up : select_threshold(a, _pool_corpora, up)'
                            = select_threshold(a, _pool_corpora, up)
  <2>1. _pool_corpora' = _pool_corpora
    BY <1>2 DEF _pool_corpora
  <2> QED
    BY <2>1 DEF Calibration, Scores
<1>3. CASE SelectThreshold
  <2>1. pc = "select" /\ pc' = "test" /\ corpora' = corpora /\ Calibration # {}
    BY <1>3 DEF SelectThreshold, CanSelect, Calibration
  <2>4. PICK up \in SUBSET Scores(Current) :
          selected' = Extended(selected, Current,
                               select_threshold(Current, _pool_corpora, up))
    BY <1>3 DEF SelectThreshold, CalibrationScores, Scores, Calibration
  <2>2. Current \in Arms
    BY <2>1 DEF EvalInv, Progress, Current, Arms
  <2>3. ASSUME NEW a \in DOMAIN selected'
        PROVE  /\ a \in Arms
               /\ \E u \in SUBSET Scores(a) :
                    selected'[a] = select_threshold(a, _pool_corpora, u)
    <3>1. CASE a = Current
      BY <2>2, <2>4, <3>1 DEF Extended
    <3>2. CASE a # Current
      <4>1. a \in DOMAIN selected /\ selected'[a] = selected[a]
        BY <2>4, <3>2 DEF Extended
      <4> QED
        BY <4>1 DEF ThresholdInv
    <3> QED
      BY <3>1, <3>2
  <2> QED
    BY <1>2, <2>1, <2>3 DEF ThresholdInv
<1>4. CASE corpora' = corpora /\ selected' = selected /\ (pc' = "generate" => pc = "generate")
  BY <1>2, <1>4 DEF ThresholdInv
<1> QED
  BY <1>1, <1>3, <1>4
     DEF Next, vars, Skip, CannotSelect, TestSealed, Compare, Ended, NextArm

(* The sweep finds the best threshold for any scores: none does better on   *)
(* the calibration pairs, of all numbers, and it is the lowest score when   *)
(* none has an F1 (select_threshold).  It says nothing of which of equally  *)
(* good thresholds it is.                                                   *)
THEOREM ThresholdBest == Spec => []ThresholdIsBest
<1>1. Init => ThresholdInv
  BY DEF Init, ThresholdInv, EmptyMap
<1>2. EvalInv /\ ThresholdInv => ThresholdIsBest
  <2> SUFFICES ASSUME EvalInv, ThresholdInv, NEW a \in DOMAIN selected
               PROVE  LET best == CalibrationF1(a, selected[a])
                      IN  /\ selected[a] \in Scores(a)
                          /\ \A t \in (Min(Scores(a)) - 1)..(Max(Scores(a)) + 1) :
                               ~Beats(CalibrationF1(a, t), best)
                          /\ best = None => selected[a] = Min(Scores(a))
    BY DEF ThresholdIsBest, CalibrationScores, Scores, Calibration
  <2>1. a \in Arms /\ Calibration # {}
    BY DEF ThresholdInv
  <2>6. PICK up : selected[a] = select_threshold(a, _pool_corpora, up)
    BY DEF ThresholdInv
  <2>2. DOMAIN corpora = Seeds
    BY DEF ThresholdInv, EvalInv, Progress
  <2>3. IsFiniteSet(Calibration) /\ IsFiniteSet(Scores(a)) /\ Scores(a) \subseteq Int
    BY <2>1, <2>2, ScoresAre DEF EvalInv
  <2>4. Scores(a) # {}
    BY <2>1 DEF Scores
  <2>5. \A t \in (Min(Scores(a)) - 1)..(Max(Scores(a)) + 1) : t \in Int
    OBVIOUS
  <2> QED
    BY <2>3, <2>4, <2>5, <2>6, SelectedIsBest
<1> QED
  BY EvalInvariant, <1>1, <1>2, ThresholdsStay, PTL DEF Spec

----------------------------------------------------------------------------
(* The tables                                                               *)

\* The arms that can be had have an accuracy once their turn has come.
TestedInv ==
  /\ available \in Installations
  /\ DOMAIN accuracy = {_ARMS[n] : n \in 1..(arm - 1)} \cap available
  /\ pc \in {"compare", "done"} => arm = Len(_ARMS) + 1
  /\ pc = "test" => Current \in available

\* One arm's turn more.
LEMMA OneArmMore ==
  ASSUME EvalInv, pc \in {"select", "test"}
  PROVE  /\ {_ARMS[n] : n \in 1..((arm + 1) - 1)}
              = {_ARMS[n] : n \in 1..(arm - 1)} \cup {Current}
         /\ arm = Len(_ARMS) => arm + 1 = Len(_ARMS) + 1
<1>1. arm \in Nat /\ arm >= 1
  BY DEF EvalInv, Progress
<1>2. 1..((arm + 1) - 1) = 1..(arm - 1) \cup {arm}
  BY <1>1
<1> QED
  BY <1>2 DEF Current

(* No arm is skipped that could have been tested, and none tested that      *)
(* could not.                                                               *)
LEMMA TestedStays ==
  EvalInv /\ TestedInv /\ [Next]_vars => TestedInv'
<1> SUFFICES ASSUME EvalInv, TestedInv, [Next]_vars PROVE TestedInv'
  OBVIOUS
<1> USE DEF TestedInv
<1>1. CASE Generate
  BY <1>1 DEF Generate
<1>2. CASE Skip
  <2>1. /\ pc = "select" /\ Current \notin available /\ arm' = arm + 1
        /\ pc' = IF arm = Len(_ARMS) THEN "compare" ELSE "select"
        /\ UNCHANGED <<available, accuracy>>
    BY <1>2 DEF Skip, NextArm
  <2> QED
    BY <2>1, OneArmMore
<1>3. CASE SelectThreshold
  <2>1. /\ pc = "select" /\ pc' = "test" /\ Current \in available
        /\ UNCHANGED <<available, accuracy, arm>>
    BY <1>3 DEF SelectThreshold
  <2> QED
    BY <2>1 DEF Current
<1>4. CASE CannotSelect
  BY <1>4 DEF CannotSelect
<1>5. CASE TestSealed
  <2>1. /\ pc = "test" /\ arm' = arm + 1
        /\ pc' = IF arm = Len(_ARMS) THEN "compare" ELSE "select"
        /\ accuracy' = Extended(accuracy, Current, SealedTestAccuracy(Current))
        /\ available' = available
    BY <1>5 DEF TestSealed, NextArm
  <2>2. DOMAIN accuracy' = DOMAIN accuracy \cup {Current}
    BY <2>1 DEF Extended
  <2> QED
    BY <2>1, <2>2, OneArmMore
<1>6. CASE Compare
  BY <1>6 DEF Compare
<1>7. CASE Ended \/ UNCHANGED vars
  BY <1>7 DEF Ended, vars, Current
<1> QED
  BY <1>1, <1>2, <1>3, <1>4, <1>5, <1>6, <1>7 DEF Next

\* The families of the pairs that were sealed.
Tested == {family \in FAMILIES : SealedOf(family) # {}}

\* What an arm really got on a family.
Truth(a, family) == Figures(_counts(a, selected[a], SealedOf(family)))

\* At the end the arms with an accuracy are those that could be had, and a
\* report has a true row for every family that was tested.
LEMMA EndOfRun ==
  ASSUME EvalInv, TestedInv, pc = "done"
  PROVE  /\ DOMAIN accuracy = available /\ available \subseteq Arms
         /\ \A a \in available :
              /\ DOMAIN PerFamily(a) = Tested
              /\ \A family \in Tested : PerFamily(a)[family].figures = Truth(a, family)
<1>1. DOMAIN accuracy = available /\ available \subseteq Arms
  <2>1. available \subseteq Arms
    BY FamiliesAssumption DEF TestedInv
  <2>2. arm - 1 = Len(_ARMS)
    BY OrderFacts DEF TestedInv
  <2>3. {_ARMS[n] : n \in 1..(arm - 1)} = Arms
    BY <2>2 DEF Arms
  <2> QED
    BY <2>1, <2>3 DEF TestedInv
<1>2. ASSUME NEW family PROVE SealedOf(family) = OfFamily(AllSealed, family)
  BY DEF SealedOf, OfFamily, AllSealed, Sealed
<1>3. IsFiniteSet(AllSealed) /\ \A p \in AllSealed : FamilyOf(p) \in FAMILIES
  BY SealedPairs DEF EvalInv, Progress
<1>4. Tested = {FamilyOf(p) : p \in AllSealed}
  BY <1>2, <1>3 DEF Tested, OfFamily
<1>5. ASSUME NEW a \in available
      PROVE  /\ DOMAIN PerFamily(a) = Tested
             /\ \A family \in Tested : PerFamily(a)[family].figures = Truth(a, family)
  <2>1. PerFamily(a) = evaluate(a, selected[a], AllSealed).per_family
    BY <1>1, AccuracyIs DEF PerFamily
  <2>2. /\ DOMAIN PerFamily(a) = {FamilyOf(p) : p \in AllSealed}
        /\ \A family \in {FamilyOf(p) : p \in AllSealed} :
             PerFamily(a)[family] = _family_result(a, selected[a], OfFamily(AllSealed, family))
    BY <1>3, <2>1, ReportIs
  <2>3. \A family : _family_result(a, selected[a], OfFamily(AllSealed, family)).figures
                      = Truth(a, family)
    BY <1>2 DEF _family_result, Truth
  <2> QED
    BY <1>4, <2>2, <2>3
<1> QED
  BY <1>1, <1>5

\* Every arm has one row, which is empty if it could not be had.
EveryArmOnce(rows) ==
  \A a \in Arms : \E n \in DOMAIN rows :
    /\ {m \in DOMAIN rows : rows[m].arm = a} = {n}
    /\ rows[n].cells = {} <=> a \notin available

\* A table has a row per arm, whatever is in its cells.
LEMMA RowsAre ==
  ASSUME NEW cells
  PROVE  /\ DOMAIN RowsOf(cells) = DOMAIN KeyOrder
         /\ \A n \in DOMAIN KeyOrder :
              /\ KeyOrder[n] \in Arms
              /\ RowsOf(cells)[n].cells
                   = IF KeyOrder[n] \in DOMAIN cells THEN {cells[KeyOrder[n]]} ELSE {}
         /\ DOMAIN cells = available => EveryArmOnce(RowsOf(cells))
<1> DEFINE rows == RowsOf(cells)
<1>1. /\ DOMAIN rows = DOMAIN KeyOrder
      /\ \A n \in DOMAIN KeyOrder :
           /\ rows[n].arm = KeyOrder[n]
           /\ rows[n].cells = {cells[a] : a \in {KeyOrder[n]} \cap DOMAIN cells}
  BY DEF RowsOf
<1> HIDE DEF rows
<1>2. ASSUME NEW n \in DOMAIN KeyOrder
      PROVE  /\ KeyOrder[n] \in Arms
             /\ rows[n].cells
                  = IF KeyOrder[n] \in DOMAIN cells THEN {cells[KeyOrder[n]]} ELSE {}
  <2>1. KeyOrder[n] \in Arms
    BY KeyOrderAssumption
  <2> QED
    BY <1>1, <2>1
<1>3. ASSUME DOMAIN cells = available, NEW a \in Arms
      PROVE  \E n \in DOMAIN rows : /\ {m \in DOMAIN rows : rows[m].arm = a} = {n}
                                    /\ rows[n].cells = {} <=> a \notin available
  <2>1. PICK n \in DOMAIN KeyOrder : KeyOrder[n] = a
    BY KeyOrderAssumption DEF Range
  <2>2. \A m \in DOMAIN KeyOrder : KeyOrder[m] = a => m = n
    BY <2>1, KeyOrderAssumption DEF IsInjective
  <2>3. {m \in DOMAIN rows : rows[m].arm = a} = {n}
    BY <1>1, <2>1, <2>2
  <2>4. rows[n].cells = {} <=> a \notin available
    BY <1>2, <1>3, <2>1
  <2> QED
    BY <1>1, <2>1, <2>3, <2>4
<1> QED
  BY <1>1, <1>2, <1>3 DEF rows, EveryArmOnce

\* The tables have the families of the arms that ran, all the same.
LEMMA FamiliesInOrder ==
  ASSUME EvalInv, TestedInv, pc = "done"
  PROVE  _family_order = IF available = {} THEN {} ELSE Tested
<1> DEFINE ok == {n \in DOMAIN KeyOrder : Ok(KeyOrder[n])}
<1>1. \A a : Ok(a) <=> a \in available
  BY EndOfRun DEF Ok
<1>2. ok = {} <=> available = {}
  <2>1. \A a \in available : \E n \in DOMAIN KeyOrder : KeyOrder[n] = a
    BY EndOfRun, KeyOrderAssumption DEF Range
  <2> QED
    BY <1>1, <2>1
<1>3. _family_order = IF ok = {} THEN {} ELSE DOMAIN PerFamily(KeyOrder[Min(ok)])
  BY DEF _family_order
<1>4. ASSUME ok # {} PROVE Min(ok) \in ok
  <2>1. ok \subseteq Nat
    BY KeyOrderAssumption
  <2> HIDE DEF ok
  <2>2. \E m \in ok : \A n \in ok : m <= n
    BY <1>4, <2>1, SmallestNumber
  <2> QED
    BY <2>2 DEF Min
<1>5. ASSUME ok # {} PROVE DOMAIN PerFamily(KeyOrder[Min(ok)]) = Tested
  <2>1. KeyOrder[Min(ok)] \in available
    BY <1>1, <1>4, <1>5
  <2> QED
    BY <2>1, EndOfRun
<1> HIDE DEF ok
<1> QED
  BY <1>2, <1>3, <1>5

(* A family's heading is marked where its expected winner has an F1 and     *)
(* another arm a better one, and nowhere else.                              *)
LEMMA MarkerIs ==
  ASSUME EvalInv, TestedInv, pc = "done", NEW family \in Tested
  PROVE  _contradiction_marker(family) # {} <=>
           /\ family \in DOMAIN _EXPECTED_WINNERS
           /\ _EXPECTED_WINNERS[family] \in available
           /\ Truth(_EXPECTED_WINNERS[family], family).f1 # None
           /\ \E a \in available :
                Beats(Truth(a, family).f1, Truth(_EXPECTED_WINNERS[family], family).f1)
<1> DEFINE F1(a) == Truth(a, family).f1
           expected == _EXPECTED_WINNERS[family]
<1>1. \A a \in available :
        /\ a \in DOMAIN accuracy /\ family \in DOMAIN accuracy[a].pooled.per_family
        /\ PooledF1(a, family) = F1(a)
  BY EndOfRun DEF PerFamily, PooledF1
<1>2. Comparable(family) = {a \in available : F1(a) # None}
  BY <1>1, EndOfRun DEF Comparable
<1>3. \A a \in Comparable(family) : F1OrZero(a, family) = F1(a) /\ F1(a) # None
  BY <1>1, <1>2 DEF F1OrZero
<1>4. contradictions = find_contradictions
  BY DEF EvalInv, Compared
<1>5. _contradiction_marker(family) # {} <=>
        /\ family \in DOMAIN _EXPECTED_WINNERS
        /\ Cardinality(Comparable(family)) >= 2
        /\ expected \in Comparable(family) \ Winners(family)
  <2> DEFINE beaten == {f \in DOMAIN _EXPECTED_WINNERS :
                          /\ Cardinality(Comparable(f)) >= 2
                          /\ _EXPECTED_WINNERS[f] \in Comparable(f) \ Winners(f)}
  <2>1. _contradiction_marker(family) # {}
          <=> \E d \in contradictions : d.family = family
    BY DEF _contradiction_marker
  <2>2. contradictions = {[family |-> f, actual_winners |-> Winners(f)] : f \in beaten}
    BY <1>4 DEF find_contradictions
  <2>3. (\E d \in contradictions : d.family = family) <=> family \in beaten
    <3> HIDE DEF beaten
    <3>1. ASSUME NEW d \in contradictions, d.family = family PROVE family \in beaten
      <4>1. PICK f \in beaten : d = [family |-> f, actual_winners |-> Winners(f)]
        BY <2>2
      <4>2. d.family = f
        BY <4>1
      <4> QED
        BY <3>1, <4>2
    <3>2. ASSUME family \in beaten PROVE \E d \in contradictions : d.family = family
      <4> DEFINE d == [family |-> family, actual_winners |-> Winners(family)]
      <4>1. d \in contradictions /\ d.family = family
        BY <2>2, <3>2
      <4> QED
        BY <4>1
    <3> QED
      BY <3>1, <3>2
  <2> QED
    BY <2>1, <2>3
<1>6. expected \in Comparable(family) =>
        (expected \notin Winners(family) <=>
           \E b \in Comparable(family) : Less(F1(expected), F1(b)))
  BY <1>3 DEF Winners
<1>7. ASSUME expected \in Comparable(family),
             NEW b \in Comparable(family), Less(F1(expected), F1(b))
      PROVE  Cardinality(Comparable(family)) >= 2
  <2> DEFINE S == Comparable(family)
             e == expected
  <2>1. e # b
    <3> SUFFICES ASSUME e = b PROVE FALSE
      OBVIOUS
    <3>1. PICK x \in Int, y \in Nat : y > 0 /\ F1(e) = <<x, y>>
      BY <1>1, <1>2, <1>7, F1IsAFraction
    <3>2. Less(<<x, y>>, <<x, y>>)
      BY <1>7, <3>1
    <3> QED
      BY <3>2, LessIsStrict
  <2>2. IsFiniteSet(S)
    <3>1. S \in SUBSET (DOMAIN accuracy)
      BY DEF Comparable
    <3> QED
      BY <3>1, ArmsFinite, FS_Subset
  <2>3. IsFiniteSet({e}) /\ Cardinality({e}) = 1
    BY FS_Singleton
  <2>4. b \notin {e}
    BY <2>1
  <2>5. Cardinality({e} \cup {b}) = 2
    <3> DEFINE T == {e}
    <3> HIDE DEF T
    <3>1. IsFiniteSet(T) /\ Cardinality(T) = 1 /\ b \notin T
      BY <2>3, <2>4 DEF T
    <3>2. Cardinality(T \cup {b}) = IF b \in T THEN Cardinality(T) ELSE Cardinality(T) + 1
      BY <3>1, FS_AddElement
    <3> QED
      BY <3>1, <3>2 DEF T
  <2>6. {e} \cup {b} \in SUBSET S
    BY <1>7
  <2> HIDE DEF S, e
  <2>7. Cardinality({e} \cup {b}) <= Cardinality(S) /\ Cardinality(S) \in Nat
    BY <2>2, <2>6, FS_Subset, FS_CardinalityType
  <2>8. Cardinality(S) >= 2
    BY <2>5, <2>7
  <2> QED
    BY <2>8 DEF S
<1>8. expected \in Comparable(family) =>
        ((\E b \in Comparable(family) : Less(F1(expected), F1(b)))
           <=> \E a \in available : Beats(F1(a), F1(expected)))
  BY <1>2 DEF Beats
<1> HIDE DEF F1, expected
<1>9. _contradiction_marker(family) # {} <=>
        /\ family \in DOMAIN _EXPECTED_WINNERS
        /\ expected \in Comparable(family)
        /\ \E a \in available : Beats(F1(a), F1(expected))
  BY <1>5, <1>6, <1>7, <1>8
<1> QED
  BY <1>2, <1>9 DEF F1, expected

(* Both tables tell what the run found: every arm has its row, once, every  *)
(* tested family its table, both show the same figures, those of the        *)
(* family's pairs under the arm's own threshold, and a heading is marked    *)
(* when the expected winner was beaten (report.py, readme_results.py).      *)
THEOREM TablesAgree == Spec => []TablesTellTheRun
<1>1. Init => TestedInv
  <2>1. 1..(1 - 1) = {}
    OBVIOUS
  <2> QED
    BY <2>1 DEF Init, TestedInv, EmptyMap
<1>2. EvalInv /\ TestedInv => TablesTellTheRun
  <2> SUFFICES ASSUME EvalInv, TestedInv, pc = "done" PROVE TablesTellTheRun
    BY DEF TablesTellTheRun
  <2> DEFINE report == render_per_family_table
             FamilyCells(family) ==
               [a \in DOMAIN accuracy |->
                  [figures         |-> PerFamily(a)[family].figures,
                   false_positives |-> PerFamily(a)[family].false_positives]]
             TableCells(family) ==
               [a \in DOMAIN accuracy |->
                  [f1              |-> PerFamily(a)[family].figures.f1,
                   false_positives |-> PerFamily(a)[family].false_positives]]
  <2>1. DOMAIN accuracy = available
    BY EndOfRun
  <2>2. EveryArmOnce(report.aggregate) /\ EveryArmOnce(_aggregate_table)
    <3>1. report.aggregate = RowsOf([a \in DOMAIN accuracy |-> accuracy[a].pooled.aggregate])
      BY DEF render_per_family_table, _aggregate_section
    <3>2. _aggregate_table = RowsOf([a \in DOMAIN accuracy |-> accuracy[a].pooled.aggregate.f1])
      BY DEF _aggregate_table
    <3> HIDE DEF report
    <3>3. DOMAIN [a \in DOMAIN accuracy |-> accuracy[a].pooled.aggregate] = available
      BY <2>1
    <3>4. DOMAIN [a \in DOMAIN accuracy |-> accuracy[a].pooled.aggregate.f1] = available
      BY <2>1
    <3>5. EveryArmOnce(RowsOf([a \in DOMAIN accuracy |-> accuracy[a].pooled.aggregate]))
      BY <3>3, RowsAre
    <3>6. EveryArmOnce(RowsOf([a \in DOMAIN accuracy |-> accuracy[a].pooled.aggregate.f1]))
      BY <3>4, RowsAre
    <3> QED
      BY <3>1, <3>2, <3>5, <3>6
  <2>3. DOMAIN report.blocks = IF available = {} THEN {} ELSE Tested
    BY FamiliesInOrder DEF render_per_family_table
  <2>4. ASSUME NEW family \in DOMAIN report.blocks
        PROVE  /\ family \in Tested
               /\ report.blocks[family].marker = _contradiction_marker(family)
               /\ report.blocks[family].rows = RowsOf(FamilyCells(family))
               /\ _family_table(family) = RowsOf(TableCells(family))
    <3>1. family \in Tested
      BY <2>3
    <3>2. report.blocks[family] = _family_block(family)
      BY DEF render_per_family_table
    <3> QED
      BY <3>1, <3>2 DEF _family_block, _family_table
  <2> HIDE DEF report
  <2>5. ASSUME NEW family \in DOMAIN report.blocks
        PROVE  /\ EveryArmOnce(report.blocks[family].rows)
               /\ EveryArmOnce(_family_table(family))
    <3>1. DOMAIN FamilyCells(family) = available /\ DOMAIN TableCells(family) = available
      BY <2>1
    <3> HIDE DEF FamilyCells, TableCells
    <3> QED
      BY <2>4, <3>1, RowsAre
  <2>6. ASSUME NEW family \in DOMAIN report.blocks, NEW n \in DOMAIN KeyOrder,
               NEW shown \in report.blocks[family].rows[n].cells
        PROVE  /\ shown.figures = Truth(KeyOrder[n], family)
               /\ _family_table(family)[n].cells
                    = {[f1 |-> shown.figures.f1, false_positives |-> shown.false_positives]}
    <3> DEFINE a == KeyOrder[n]
    <3>1. DOMAIN FamilyCells(family) = available /\ DOMAIN TableCells(family) = available
      BY <2>1
    <3>2. /\ report.blocks[family].rows[n].cells
               = IF a \in DOMAIN FamilyCells(family) THEN {FamilyCells(family)[a]} ELSE {}
          /\ _family_table(family)[n].cells
               = IF a \in DOMAIN TableCells(family) THEN {TableCells(family)[a]} ELSE {}
      <4> HIDE DEF FamilyCells, TableCells
      <4> QED
        BY <2>4, RowsAre
    <3>3. a \in available /\ shown = FamilyCells(family)[a]
      BY <3>1, <3>2
    <3>4. /\ shown = [figures         |-> PerFamily(a)[family].figures,
                      false_positives |-> PerFamily(a)[family].false_positives]
          /\ TableCells(family)[a]
               = [f1              |-> PerFamily(a)[family].figures.f1,
                  false_positives |-> PerFamily(a)[family].false_positives]
      BY <2>1, <3>3
    <3>5. PerFamily(a)[family].figures = Truth(a, family)
      BY <2>4, <3>3, EndOfRun
    <3>6. _family_table(family)[n].cells = {TableCells(family)[a]}
      BY <3>1, <3>2, <3>3
    <3> HIDE DEF FamilyCells, TableCells
    <3> QED
      BY <3>4, <3>5, <3>6
  <2>7. ASSUME NEW family \in DOMAIN report.blocks
        PROVE  report.blocks[family].marker # {} <=>
                 /\ family \in DOMAIN _EXPECTED_WINNERS
                 /\ _EXPECTED_WINNERS[family] \in available
                 /\ Truth(_EXPECTED_WINNERS[family], family).f1 # None
                 /\ \E a \in available :
                      Beats(Truth(a, family).f1, Truth(_EXPECTED_WINNERS[family], family).f1)
    BY <2>4, MarkerIs
  <2> HIDE DEF FamilyCells, TableCells
  <2> QED
    BY <2>2, <2>3, <2>5, <2>6, <2>7
       DEF TablesTellTheRun, EveryArmOnce, Tested, Truth, report
<1> QED
  BY EvalInvariant, <1>1, <1>2, TestedStays, PTL DEF Spec
=============================================================================
