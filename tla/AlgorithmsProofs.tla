-------------------------- MODULE AlgorithmsProofs --------------------------
(***************************************************************************)
(* What the pure algorithms promise, for any of their arguments: merge     *)
(* treats its two records alike and loses nothing of them, the two ways to *)
(* prepare names score the same pairs alike, names that say nothing match  *)
(* nothing, a percentile is a rank of any number of samples, and the       *)
(* phases of a cold start account for its time.                            *)
(***************************************************************************)
EXTENDS Algorithms, TLAPS, FiniteSetTheorems, WellFoundedInduction,
        SequenceTheorems

----------------------------------------------------------------------------
(* Numbers *)

(* Every non-empty set of natural numbers has a smallest.                   *)
LEMMA SmallestNumber ==
  ASSUME NEW S, S \subseteq Nat, S # {}
  PROVE  \E m \in S : \A n \in S : m <= n
<1> DEFINE less == OpToRel(<, Nat)
<1>1. IsWellFoundedOn(less, Nat)
  BY NatLessThanWellFounded
<1>2. \A m, n \in Nat : m < n => <<m, n>> \in less
  BY DEF OpToRel
<1> HIDE DEF less
<1>3. PICK m \in S : \A n \in S : <<n, m>> \notin less
  BY <1>1, WFMin
<1>4. ASSUME NEW n \in S PROVE m <= n
  <2>1. m \in Nat /\ n \in Nat
    OBVIOUS
  <2>2. ~(n < m)
    BY <1>2, <1>3, <2>1
  <2> QED
    BY <2>1, <2>2
<1> QED
  BY <1>4

(* The greater of two numbers.                                              *)
LEMMA MaxOfTwo ==
  ASSUME NEW m \in Int, NEW n \in Int
  PROVE  Max({m, n}) = IF m >= n THEN m ELSE n
BY DEF Max

(* The smaller of two numbers.                                              *)
LEMMA MinOfTwo ==
  ASSUME NEW m \in Int, NEW n \in Int
  PROVE  Min({m, n}) = IF m <= n THEN m ELSE n
BY DEF Min

----------------------------------------------------------------------------
(* merge *)

(* How populated a record is is a number: a row has finitely many fields.   *)
LEMMA PopulatednessIs ==
  ASSUME NEW a \in Rows
  PROVE  /\ _populatedness(a) \in Nat
         /\ IsFiniteSet({k \in DOMAIN a.fields : a.fields[k] # ""})
<1> DEFINE filled == {k \in DOMAIN a.fields : a.fields[k] # ""}
<1>1. IsFiniteSet(filled)
  BY RowsAssumption, FS_Subset
<1>2. Cardinality(filled) \in Nat
  BY <1>1, FS_CardinalityType
<1> DEFINE size == Cardinality(filled)
           named == IF a.name # "" THEN 1 ELSE 0
           placed == IF _has_coordinates(a) THEN 1 ELSE 0
<1>3. _populatedness(a) = size + named + placed
  BY DEF _populatedness
<1>4. size \in Nat /\ named \in Nat /\ placed \in Nat
  BY <1>2
<1> HIDE DEF size, named, placed
<1>5. _populatedness(a) \in Nat
  BY <1>3, <1>4
<1> QED
  BY <1>1, <1>5

(* The winner does not depend on which record comes first, nor the loser.   *)
LEMMA WinnerIsSymmetric ==
  ASSUME NEW a \in Rows, NEW b \in Rows
  PROVE  /\ _winner(a, b) = _winner(b, a) /\ _loser(a, b) = _loser(b, a)
         /\ _winner(a, b) \in {a, b} /\ _loser(a, b) \in {a, b}
<1>1. /\ _populatedness(a) \in Nat /\ _populatedness(b) \in Nat
      /\ record_id(a) \in Int /\ record_id(b) \in Int
      /\ record_id(a) = record_id(b) => a = b
  BY PopulatednessIs, DigestAssumption
<1>2. _winner(a, b) = _winner(b, a) /\ _winner(a, b) \in {a, b}
  BY <1>1 DEF _winner
<1>3. _loser(a, b) = _loser(b, a) /\ _loser(a, b) \in {a, b}
  BY <1>2 DEF _loser
<1> QED
  BY <1>2, <1>3

(* merge is symmetric.                                                      *)
LEMMA MergeSymmetric ==
  ASSUME NEW a \in Rows, NEW b \in Rows
  PROVE  merge(a, b) = merge(b, a)
<1>1. _winner(a, b) = _winner(b, a) /\ _loser(a, b) = _loser(b, a)
  BY WinnerIsSymmetric
<1>2. MergedFields(a, b) = MergedFields(b, a)
  BY <1>1 DEF MergedFields
<1>3. {a.source, b.source} = {b.source, a.source}
  OBVIOUS
<1>4. CASE _has_coordinates(a) \/ _has_coordinates(b)
  <2>1. CoordinateGiver(a, b) = CoordinateGiver(b, a)
    BY <1>1, <1>4 DEF CoordinateGiver
  <2> QED
    BY <1>1, <1>2, <1>3, <2>1 DEF merge
<1>5. CASE ~_has_coordinates(a) /\ ~_has_coordinates(b)
  <2>1. ~_has_coordinates(CoordinateGiver(a, b)) /\ ~_has_coordinates(CoordinateGiver(b, a))
    BY <1>5 DEF CoordinateGiver
  <2> QED
    BY <1>1, <1>2, <1>3, <2>1 DEF merge
<1> QED
  BY <1>4, <1>5

(* The merged record has coordinates if either has, and then one's own.     *)
LEMMA MergeKeepsPlace ==
  ASSUME NEW a \in Rows, NEW b \in Rows
  PROVE  /\ PlaceSurvives(a, b, merge(a, b))
         /\ _has_coordinates(merge(a, b)) <=> _has_coordinates(a) \/ _has_coordinates(b)
<1> DEFINE giver == CoordinateGiver(a, b)
<1>1. /\ giver \in {a, b}
      /\ _has_coordinates(giver) <=> _has_coordinates(a) \/ _has_coordinates(b)
  BY WinnerIsSymmetric DEF CoordinateGiver
<1>2. /\ merge(a, b).latitude = IF _has_coordinates(giver) THEN giver.latitude ELSE None
      /\ merge(a, b).longitude = IF _has_coordinates(giver) THEN giver.longitude ELSE None
  BY DEF merge
<1> HIDE DEF giver
<1>3. _has_coordinates(merge(a, b)) <=> _has_coordinates(giver)
  BY <1>2 DEF _has_coordinates
<1>4. PlaceSurvives(a, b, merge(a, b))
  BY <1>1, <1>2 DEF PlaceSurvives
<1> QED
  BY <1>1, <1>3, <1>4

(* Every non-empty field of the winner is a field of the merged record.     *)
LEMMA MergeKeepsFields ==
  ASSUME NEW a \in Rows, NEW b \in Rows
  PROVE  LET Filled(f) == {k \in DOMAIN f : f[k] # ""}
         IN  /\ Filled(_winner(a, b).fields) \subseteq Filled(merge(a, b).fields)
             /\ IsFiniteSet(Filled(merge(a, b).fields))
<1> DEFINE w == _winner(a, b).fields
           l == _loser(a, b).fields
           f == merge(a, b).fields
<1>1. f = [k \in DOMAIN l \cup DOMAIN w |-> IF k \in DOMAIN w THEN w[k] ELSE l[k]]
  BY DEF merge, MergedFields, Updated
<1>2. IsFiniteSet(DOMAIN w) /\ IsFiniteSet(DOMAIN l)
  BY WinnerIsSymmetric, RowsAssumption
<1> HIDE DEF w, l, f
<1>3. DOMAIN f = DOMAIN l \cup DOMAIN w /\ \A k \in DOMAIN w : f[k] = w[k]
  BY <1>1
<1>4. IsFiniteSet(DOMAIN f)
  BY <1>2, <1>3, FS_Union
<1>5. IsFiniteSet({k \in DOMAIN f : f[k] # ""})
  BY <1>4, FS_Subset
<1>6. {k \in DOMAIN w : w[k] # ""} \subseteq {k \in DOMAIN f : f[k] # ""}
  BY <1>3
<1> QED
  BY <1>5, <1>6 DEF w, f

(* The merged record is at least as populated as either.                    *)
LEMMA MergeKeepsPopulation ==
  ASSUME NEW a \in Rows, NEW b \in Rows
  PROVE  /\ _populatedness(merge(a, b)) >= _populatedness(a)
         /\ _populatedness(merge(a, b)) >= _populatedness(b)
<1> DEFINE w == _winner(a, b)
           m == merge(a, b)
           Filled(r) == {k \in DOMAIN r.fields : r.fields[k] # ""}
<1>1. /\ w \in {a, b} /\ w \in Rows
      /\ _populatedness(w) >= _populatedness(a) /\ _populatedness(w) >= _populatedness(b)
  <2>1. _populatedness(a) \in Nat /\ _populatedness(b) \in Nat
    BY PopulatednessIs
  <2>2. w \in {a, b} /\ w \in Rows
    BY WinnerIsSymmetric
  <2>3. _populatedness(w) >= _populatedness(a) /\ _populatedness(w) >= _populatedness(b)
    BY <2>1 DEF _winner
  <2> QED
    BY <2>2, <2>3
<1>2. /\ Filled(w) \subseteq Filled(m) /\ IsFiniteSet(Filled(m))
  BY MergeKeepsFields
<1>3. m.name = w.name
  BY DEF merge
<1>4. _has_coordinates(w) => _has_coordinates(m)
  BY <1>1, MergeKeepsPlace
<1>5. /\ Cardinality(Filled(w)) <= Cardinality(Filled(m))
      /\ Cardinality(Filled(w)) \in Nat /\ Cardinality(Filled(m)) \in Nat
  BY <1>2, FS_Subset, FS_CardinalityType
<1> DEFINE Named(r) == IF r.name # "" THEN 1 ELSE 0
           Placed(r) == IF _has_coordinates(r) THEN 1 ELSE 0
<1>6. _populatedness(m) >= _populatedness(w) /\ _populatedness(m) \in Nat
  <2>1. \A r : _populatedness(r) = Cardinality(Filled(r)) + Named(r) + Placed(r)
    BY DEF _populatedness
  <2>2. Named(m) = Named(w) /\ Placed(m) >= Placed(w)
    BY <1>3, <1>4
  <2>3. Named(m) \in Nat /\ Placed(m) \in Nat /\ Placed(w) \in Nat
    OBVIOUS
  <2> HIDE DEF w, m, Filled, Named, Placed
  <2> QED
    BY <1>5, <2>1, <2>2, <2>3
<1> HIDE DEF w, m, Filled
<1>7. /\ _populatedness(w) \in Nat /\ _populatedness(a) \in Nat /\ _populatedness(b) \in Nat
  BY <1>1, PopulatednessIs
<1>8. _populatedness(m) >= _populatedness(a) /\ _populatedness(m) >= _populatedness(b)
  BY <1>1, <1>6, <1>7
<1> QED
  BY <1>8 DEF m

----------------------------------------------------------------------------
(* Cold start *)

PhaseNames ==
  {"interpreter_start", "import_phase", "session_creation", "tokenizer_load",
   "first_inference"}

\* What a set of phases adds to, one by one.
Together(phases, S) ==
  LET Part(phase) == IF phase \in S THEN phases[phase] ELSE 0
  IN  Part("interpreter_start") + Part("import_phase") + Part("session_creation")
        + Part("tokenizer_load") + Part("first_inference")

\* An element of a set, and the others.
Some(T) == CHOOSE x \in T : TRUE

Rest(T) == T \ {Some(T)}

\* g is the recursive function behind SumFunctionOnSet(phases, S).
Adds(g, phases, S) ==
  g = [T \in SUBSET S |-> IF T = {} THEN 0 ELSE phases[Some(T)] + g[Rest(T)]]

\* One phase more adds what it took.
LEMMA OneMore ==
  ASSUME NEW phases, NEW S \in SUBSET PhaseNames, \A phase \in S : phases[phase] \in Int,
         NEW T \in SUBSET S, T # {}
  PROVE  /\ Rest(T) \in SUBSET S /\ Rest(T) # T
         /\ Together(phases, T) = phases[Some(T)] + Together(phases, Rest(T))
<1>1. Some(T) \in T
  BY DEF Some
<1> DEFINE x == Some(T)
           Part(U, phase) == IF phase \in U THEN phases[phase] ELSE 0
<1>2. x \in T /\ x \in PhaseNames /\ Rest(T) = T \ {x} /\ phases[x] \in Int
  BY <1>1 DEF Rest
<1> HIDE DEF x
<1>3. ASSUME NEW phase \in PhaseNames
      PROVE  /\ Part(T, phase) \in Int /\ Part(Rest(T), phase) \in Int
             /\ phase # x => Part(Rest(T), phase) = Part(T, phase)
             /\ phase = x => Part(T, phase) = phases[x] /\ Part(Rest(T), phase) = 0
  BY <1>2
<1>4. /\ Together(phases, T) = Part(T, "interpreter_start") + Part(T, "import_phase")
           + Part(T, "session_creation") + Part(T, "tokenizer_load")
           + Part(T, "first_inference")
      /\ Together(phases, Rest(T)) = Part(Rest(T), "interpreter_start")
           + Part(Rest(T), "import_phase") + Part(Rest(T), "session_creation")
           + Part(Rest(T), "tokenizer_load") + Part(Rest(T), "first_inference")
  BY DEF Together
<1> HIDE DEF Part
<1>5. Together(phases, T) = phases[x] + Together(phases, Rest(T))
  BY <1>2, <1>3, <1>4 DEF PhaseNames
<1>6. Rest(T) \in SUBSET S /\ Rest(T) # T
  BY <1>1 DEF Rest
<1> QED
  BY <1>5, <1>6 DEF x

(* sum adds up the phases it is given, in whatever order.                   *)
LEMMA SumOfPhases ==
  ASSUME NEW phases, NEW S \in SUBSET PhaseNames, \A phase \in S : phases[phase] \in Int
  PROVE  SumFunctionOnSet(phases, S) = Together(phases, S)
<1> DEFINE it == CHOOSE g : Adds(g, phases, S)
           sums == [T \in SUBSET S |-> Together(phases, T)]
<1>1. SumFunctionOnSet(phases, S) = it[S]
  BY DEF SumFunctionOnSet, FoldFunctionOnSet, MapThenFoldSet, Adds, Some, Rest
<1>2. Together(phases, {}) = 0
  BY DEF Together
<1>3. Adds(sums, phases, S)
  <2>1. ASSUME NEW T \in SUBSET S
        PROVE  sums[T] = IF T = {} THEN 0 ELSE phases[Some(T)] + sums[Rest(T)]
    BY <1>2, OneMore
  <2> QED
    BY <2>1 DEF Adds
<1>4. Adds(it, phases, S)
  BY <1>3
<1> HIDE DEF it, sums
<1>5. ASSUME NEW T \in SUBSET S
      PROVE  it[T] = IF T = {} THEN 0 ELSE phases[Some(T)] + it[Rest(T)]
  <2> DEFINE G == [U \in SUBSET S |-> IF U = {} THEN 0 ELSE phases[Some(U)] + it[Rest(U)]]
  <2>1. it = G
    BY <1>4 DEF Adds
  <2>2. G[T] = IF T = {} THEN 0 ELSE phases[Some(T)] + it[Rest(T)]
    OBVIOUS
  <2> QED
    BY <2>1, <2>2
<1> DEFINE Wrong == {T \in SUBSET S : it[T] # Together(phases, T)}
<1>6. ASSUME Wrong # {} PROVE FALSE
  <2>1. IsFiniteSet(S)
    <3>1. PhaseNames = {"interpreter_start"} \cup {"import_phase"} \cup {"session_creation"}
                         \cup {"tokenizer_load"} \cup {"first_inference"}
      BY DEF PhaseNames
    <3>2. IsFiniteSet(PhaseNames)
      BY <3>1, FS_Singleton, FS_Union
    <3> QED
      BY <3>2, FS_Subset
  <2>2. Wrong \subseteq FiniteSubsetsOf(S)
    BY <2>1, FS_Subset DEF FiniteSubsetsOf
  <2>3. PICK T \in Wrong : \A U \in Wrong : <<U, T>> \notin StrictSubsetOrdering(S)
    <3> HIDE DEF Wrong
    <3> QED
      BY <1>6, <2>2, FS_StrictSubsetOrderingWellFounded, WFMin
  <2>4. T \in SUBSET S /\ it[T] # Together(phases, T) /\ T # {}
    BY <1>2, <1>5
  <2>5. <<Rest(T), T>> \in StrictSubsetOrdering(S)
    BY <2>4, OneMore DEF StrictSubsetOrdering, Rest
  <2>6. it[Rest(T)] = Together(phases, Rest(T))
    BY <2>3, <2>4, <2>5, OneMore
  <2> QED
    BY <1>5, <2>4, <2>6, OneMore
<1> QED
  BY <1>1, <1>6

(* The phases of a cold start are defined where the arm has them, and add   *)
(* up.                                                                      *)
LEMMA PhasesAddUp ==
  ASSUME NEW worker \in Timeline(Nat, Int)
  PROVE  LET phases == ColdStartPhases(worker)
         IN  /\ total(phases) = InterpreterStart(worker) + worker.import
                                  + ConstructionSeconds(worker) + worker.inference
             /\ \A phase \in DOMAIN phases :
                  phases[phase] # Undefined => phases[phase] \in Nat
             /\ \A phase \in {"session_creation", "tokenizer_load"} :
                  phases[phase] = Undefined <=> ~worker.neural
<1> DEFINE phases == ColdStartPhases(worker)
           S == {phase \in DOMAIN phases : phases[phase] # Undefined}
<1>1. /\ worker.neural \in BOOLEAN /\ worker.spawn \in Nat /\ worker.params \in Nat
      /\ worker.import \in Nat /\ worker.probe \in Nat /\ worker.tokenizer \in Nat
      /\ worker.session \in Nat /\ worker.inference \in Nat /\ worker.adjustment \in Int
  BY DEF Timeline
<1>2. InterpreterStart(worker) \in Nat
  BY <1>1, MaxOfTwo DEF InterpreterStart
<1>3. /\ phases["interpreter_start"] = InterpreterStart(worker)
      /\ phases["import_phase"] = worker.import + worker.probe
      /\ phases["session_creation"] = IF worker.neural THEN worker.session ELSE Undefined
      /\ phases["tokenizer_load"] = IF worker.neural THEN worker.tokenizer ELSE Undefined
      /\ phases["first_inference"] = worker.inference
      /\ DOMAIN phases = PhaseNames
  <2>1. ImportRemainder(worker) = worker.probe
    BY <1>1, UndefinedAssumption
       DEF ImportRemainder, ConstructionSeconds, tokenizer_load_seconds,
           session_creation_seconds
  <2> QED
    BY <2>1 DEF ColdStartPhases, PhaseNames, tokenizer_load_seconds,
                session_creation_seconds
<1>4. \A phase \in PhaseNames : phases[phase] # Undefined => phases[phase] \in Nat
  BY <1>1, <1>2, <1>3 DEF PhaseNames
<1>5. total(phases) = Together(phases, S)
  <2>1. S # {}
    BY <1>1, <1>2, <1>3, UndefinedAssumption DEF PhaseNames
  <2>2. S \in SUBSET PhaseNames /\ \A phase \in S : phases[phase] \in Int
    BY <1>3, <1>4
  <2> HIDE DEF phases
  <2> QED
    BY <2>1, <2>2, SumOfPhases DEF total, _sum_defined
<1>6. Together(phases, S) = InterpreterStart(worker) + worker.import
                              + ConstructionSeconds(worker) + worker.inference
  <2>1. /\ "interpreter_start" \in S /\ "import_phase" \in S /\ "first_inference" \in S
        /\ "session_creation" \in S <=> worker.neural
        /\ "tokenizer_load" \in S <=> worker.neural
    BY <1>1, <1>2, <1>3, UndefinedAssumption DEF PhaseNames
  <2> HIDE DEF phases, S
  <2> QED
    BY <1>1, <1>2, <1>3, <2>1 DEF Together, ConstructionSeconds
<1>7. \A phase \in {"session_creation", "tokenizer_load"} :
        phases[phase] = Undefined <=> ~worker.neural
  BY <1>1, <1>3, UndefinedAssumption
<1> HIDE DEF phases
<1> QED
  BY <1>3, <1>4, <1>5, <1>6, <1>7 DEF phases

(* The phases of a cold start account for the time that passed.             *)
LEMMA TimeIsAccountedFor ==
  ASSUME NEW worker \in Timeline(Nat, Int), NEW phases, phases = ColdStartPhases(worker)
  PROVE  /\ total(phases) >= Elapsed(worker) - worker.params - worker.spawn
         /\ worker.adjustment = 0 =>
              total(phases) = Elapsed(worker) - worker.params
         /\ \A phase \in DOMAIN phases :
              phases[phase] # Undefined => phases[phase] >= 0
         /\ \A phase \in {"session_creation", "tokenizer_load"} :
              phases[phase] = Undefined <=> ~worker.neural
<1>1. /\ worker.neural \in BOOLEAN /\ worker.spawn \in Nat /\ worker.params \in Nat
      /\ worker.import \in Nat /\ worker.probe \in Nat /\ worker.tokenizer \in Nat
      /\ worker.session \in Nat /\ worker.inference \in Nat /\ worker.adjustment \in Int
  BY DEF Timeline
<1>2. ConstructionSeconds(worker) \in Nat
  BY <1>1 DEF ConstructionSeconds
<1>3. /\ InterpreterStart(worker) \in Nat
      /\ worker.adjustment = 0 => InterpreterStart(worker) = worker.spawn
  BY <1>1, MaxOfTwo DEF InterpreterStart
<1>4. /\ total(phases) = InterpreterStart(worker) + worker.import
                           + ConstructionSeconds(worker) + worker.inference
      /\ \A phase \in DOMAIN phases : phases[phase] # Undefined => phases[phase] \in Nat
      /\ \A phase \in {"session_creation", "tokenizer_load"} :
           phases[phase] = Undefined <=> ~worker.neural
  BY PhasesAddUp
<1>5. Elapsed(worker) = worker.spawn + worker.params + worker.import + worker.inference
                          + ConstructionSeconds(worker)
  BY DEF Elapsed
<1>6. /\ total(phases) >= Elapsed(worker) - worker.params - worker.spawn
      /\ worker.adjustment = 0 => total(phases) = Elapsed(worker) - worker.params
  BY <1>1, <1>2, <1>3, <1>4, <1>5
<1>7. \A phase \in DOMAIN phases : phases[phase] # Undefined => phases[phase] >= 0
  BY <1>4
<1> QED
  BY <1>4, <1>6, <1>7

----------------------------------------------------------------------------
(* Percentiles *)

\* p puts the items of data in order.
Orders(p, data) ==
  /\ p \in [DOMAIN data -> DOMAIN data]
  /\ IsInjective(p)
  /\ \A m, n \in DOMAIN data : m <= n => data[p[m]] <= data[p[n]]

\* p gives the first m places to the smallest items, in order.
OrdersFirst(p, m, data) ==
  /\ p \in [1..m -> DOMAIN data]
  /\ \A i, j \in 1..m : i # j => p[i] # p[j]
  /\ \A i, j \in 1..m : i <= j => data[p[i]] <= data[p[j]]
  /\ \A k \in DOMAIN data :
       (\A i \in 1..m : p[i] # k) => \A i \in 1..m : data[p[i]] <= data[k]

(* One place more can be given as long as there are items left.             *)
LEMMA OnePlaceMore ==
  ASSUME NEW data \in Seq(Nat), NEW m \in Nat, m < Len(data),
         NEW p, OrdersFirst(p, m, data)
  PROVE  \E q : OrdersFirst(q, m + 1, data)
<1> DEFINE n == Len(data)
           left == {k \in 1..n : \A i \in 1..m : p[i] # k}
<1>1. /\ n \in Nat /\ DOMAIN data = 1..n /\ \A k \in 1..n : data[k] \in Nat
      /\ m < n
  OBVIOUS
<1> HIDE DEF n
<1>2. /\ p \in [1..m -> 1..n]
      /\ \A i, j \in 1..m : i # j => p[i] # p[j]
      /\ \A i, j \in 1..m : i <= j => data[p[i]] <= data[p[j]]
      /\ \A k \in left : \A i \in 1..m : data[p[i]] <= data[k]
  BY <1>1 DEF OrdersFirst
<1>3. left # {}
  <2> SUFFICES ASSUME left = {} PROVE FALSE
    OBVIOUS
  <2>1. IsFiniteSet(1..m) /\ Cardinality(1..m) = m
    BY FS_Interval
  <2>2. Cardinality(1..n) = n
    BY <1>1, FS_Interval
  <2>3. \A k \in 1..n : \E i \in 1..m : p[i] = k
    OBVIOUS
  <2>4. p \in Surjection(1..m, 1..n)
    BY <1>2, <2>3 DEF Surjection
  <2>5. Cardinality(1..n) <= Cardinality(1..m)
    BY <2>1, <2>4, FS_Surjection
  <2> QED
    BY <1>1, <2>1, <2>2, <2>5
<1>4. PICK k \in left : \A j \in left : data[k] <= data[j]
  <2>1. {data[j] : j \in left} \subseteq Nat /\ {data[j] : j \in left} # {}
    BY <1>1, <1>3
  <2>2. PICK least \in {data[j] : j \in left} : \A other \in {data[j] : j \in left} : least <= other
    BY <2>1, SmallestNumber
  <2> QED
    BY <2>2
<1> DEFINE q == [i \in 1..(m + 1) |-> IF i = m + 1 THEN k ELSE p[i]]
<1>5. /\ \A i \in 1..m : i \in 1..(m + 1) /\ q[i] = p[i]
      /\ q[m + 1] = k /\ k \in 1..n
      /\ \A i \in 1..(m + 1) : i = m + 1 \/ i \in 1..m
  OBVIOUS
<1>6. q \in [1..(m + 1) -> 1..n]
  BY <1>2, <1>5
<1> HIDE DEF q
<1>7. \A i, j \in 1..(m + 1) : i # j => q[i] # q[j]
  BY <1>2, <1>5
<1>8. ASSUME NEW i \in 1..(m + 1), NEW j \in 1..(m + 1), i <= j
      PROVE  data[q[i]] <= data[q[j]]
  <2>1. CASE j = m + 1 /\ i = m + 1
    BY <1>1, <1>5, <2>1
  <2>2. CASE j = m + 1 /\ i \in 1..m
    BY <1>2, <1>5, <2>2
  <2>3. CASE j \in 1..m
    <3>1. i \in 1..m
      BY <1>8, <2>3
    <3> QED
      BY <1>2, <1>5, <1>8, <2>3, <3>1
  <2> QED
    BY <1>5, <2>1, <2>2, <2>3
<1>9. ASSUME NEW j \in 1..n, \A i \in 1..(m + 1) : q[i] # j, NEW i \in 1..(m + 1)
      PROVE  data[q[i]] <= data[j]
  <2>1. j \in left
    BY <1>5, <1>9
  <2> QED
    BY <1>2, <1>4, <1>5, <2>1
<1> QED
  BY <1>1, <1>6, <1>7, <1>8, <1>9 DEF OrdersFirst

(* Any samples can be put in order.                                         *)
LEMMA OrderExists ==
  ASSUME NEW data \in Seq(Nat)
  PROVE  \E p : Orders(p, data)
<1> DEFINE n == Len(data)
           Bad == {m \in 0..n : ~ \E p : OrdersFirst(p, m, data)}
<1>1. n \in Nat /\ DOMAIN data = 1..n
  OBVIOUS
<1> HIDE DEF n
<1>2. ASSUME Bad # {} PROVE FALSE
  <2>1. PICK m \in Bad : \A j \in Bad : m <= j
    <3>1. Bad \subseteq Nat
      BY <1>1
    <3> HIDE DEF Bad
    <3> QED
      BY <1>2, <3>1, SmallestNumber
  <2>2. m # 0
    <3> SUFFICES OrdersFirst(<<>>, 0, data)
      OBVIOUS
    <3> QED
      BY DEF OrdersFirst
  <2>3. m - 1 \in 0..n /\ m - 1 \in Nat /\ m - 1 < n /\ ~(m <= m - 1) /\ m = (m - 1) + 1
    BY <1>1, <2>2
  <2>4. PICK p : OrdersFirst(p, m - 1, data)
    BY <2>1, <2>3
  <2>5. \E q : OrdersFirst(q, (m - 1) + 1, data)
    BY <2>3, <2>4, OnePlaceMore DEF n
  <2> QED
    BY <2>3, <2>5
<1>3. PICK p : OrdersFirst(p, n, data)
  <2>1. n \notin Bad /\ n \in 0..n
    <3> HIDE DEF Bad
    <3> QED
      BY <1>1, <1>2
  <2> QED
    BY <2>1
<1>4. Orders(p, data)
  BY <1>1, <1>3 DEF OrdersFirst, Orders, IsInjective
<1> QED
  BY <1>4

(* sorted returns the items of its argument, all of them, in order.         *)
LEMMA SortedIsOrdered ==
  ASSUME NEW data \in Seq(Nat)
  PROVE  \E p : /\ Sorted(data) = [n \in 1..Len(data) |-> data[p[n]]]
                /\ p \in [1..Len(data) -> 1..Len(data)]
                /\ \A i \in 1..Len(data) : \E j \in 1..Len(data) : p[j] = i
                /\ \A m, n \in 1..Len(data) : m <= n => data[p[m]] <= data[p[n]]
<1> DEFINE S == 1..Len(data)
           p == CHOOSE p \in [DOMAIN data -> DOMAIN data] :
                  /\ IsInjective(p)
                  /\ \A m, n \in DOMAIN data : m <= n => data[p[m]] <= data[p[n]]
<1>1. DOMAIN data = S
  OBVIOUS
<1>2. Orders(p, data)
  BY OrderExists DEF Orders
<1>3. Sorted(data) = [n \in S |-> data[p[n]]]
  BY <1>1 DEF Sorted
<1> HIDE DEF p
<1>4. IsFiniteSet(S)
  BY FS_Interval
<1> HIDE DEF S
<1>5. p \in Injection(S, S)
  BY <1>1, <1>2 DEF Orders, Injection, IsInjective
<1>6. p \in Surjection(S, S)
  BY <1>4, <1>5, FS_Injection
<1>7. /\ p \in [S -> S]
      /\ \A i \in S : \E j \in S : p[j] = i
  BY <1>6 DEF Surjection
<1>8. \A m, n \in S : m <= n => data[p[m]] <= data[p[n]]
  BY <1>1, <1>2 DEF Orders
<1> QED
  BY <1>3, <1>7, <1>8 DEF S

(* A function has no more values than arguments.                            *)
LEMMA ImageIsNoLarger ==
  ASSUME NEW S, IsFiniteSet(S), NEW p
  PROVE  /\ IsFiniteSet({p[x] : x \in S})
         /\ Cardinality({p[x] : x \in S}) <= Cardinality(S)
<1> DEFINE T == {p[x] : x \in S}
           f == [x \in S |-> p[x]]
<1>1. f \in Surjection(S, T)
  BY DEF Surjection
<1> QED
  BY <1>1, FS_Surjection

(* A percentile is a rank.                                                  *)
LEMMA PercentileRank ==
  ASSUME NEW data \in Seq(Nat), data # <<>>, NEW percent \in {50, 99}
  PROVE  /\ IsRank(_percentile(data, percent), data, percent)
         /\ \E k \in 1..Len(data) : _percentile(data, percent) = data[k]
<1> DEFINE n == Len(data)
           place == (percent * n) \div 100 + 1
           k == IF n <= place THEN n ELSE place
<1>1. n \in Nat /\ n >= 1 /\ \A i \in 1..n : data[i] \in Nat
  OBVIOUS
<1>2. PICK p : /\ Sorted(data) = [j \in 1..n |-> data[p[j]]]
               /\ p \in [1..n -> 1..n]
               /\ \A i \in 1..n : \E j \in 1..n : p[j] = i
               /\ \A i, j \in 1..n : i <= j => data[p[i]] <= data[p[j]]
  BY SortedIsOrdered
<1> HIDE DEF n
<1>3. /\ place \in Nat /\ place >= 1
      /\ 100 * (place - 1) <= percent * n /\ percent * n < 100 * place
  <2>1. CASE percent = 50
    BY <1>1, <2>1
  <2>2. CASE percent = 99
    BY <1>1, <2>2
  <2> QED
    BY <2>1, <2>2
<1>4. _percentile(data, percent) = data[p[k]]
  <2>1. Len(Sorted(data)) = n
    BY <1>1, <1>2
  <2>2. Min({n, place}) = k
    BY <1>1, <1>3, MinOfTwo
  <2>3. k \in 1..n
    BY <1>1, <1>3
  <2>4. _percentile(data, percent)
          = Sorted(data)[Min({Len(Sorted(data)), (percent * Len(Sorted(data))) \div 100 + 1})]
    BY DEF _percentile
  <2>5. _percentile(data, percent) = Sorted(data)[k]
    BY <2>1, <2>2, <2>4
  <2> HIDE DEF k
  <2> QED
    BY <1>2, <2>3, <2>5
<1> HIDE DEF place
<1>6. k \in 1..n /\ k <= place /\ (k = n \/ k = place)
  BY <1>1, <1>3
<1> HIDE DEF k
<1> DEFINE v == data[p[k]]
           below == {i \in 1..n : data[i] < v}
           above == {i \in 1..n : data[i] > v}
           Before == {p[j] : j \in 1..(k - 1)}
           After == {p[j] : j \in (k + 1)..n}
<1>7. p[k] \in 1..n /\ v \in Nat
  <2>1. p[k] \in 1..n
    BY <1>2, <1>6
  <2> QED
    BY <1>1, <2>1
<1>8. below \subseteq Before
  <2> SUFFICES ASSUME NEW i \in below PROVE i \in Before
    OBVIOUS
  <2>1. PICK j \in 1..n : p[j] = i
    BY <1>2
  <2>2. ~(v <= data[p[j]])
    BY <1>1, <1>7, <2>1
  <2>3. ~(k <= j)
    BY <1>2, <1>6, <2>2
  <2>4. j \in 1..(k - 1)
    BY <1>6, <2>3
  <2> QED
    BY <2>1, <2>4
<1>9. above \subseteq After
  <2> SUFFICES ASSUME NEW i \in above PROVE i \in After
    OBVIOUS
  <2>1. PICK j \in 1..n : p[j] = i
    BY <1>2
  <2>2. ~(data[p[j]] <= v)
    BY <1>1, <1>7, <2>1
  <2>3. ~(j <= k)
    BY <1>2, <1>6, <2>2
  <2>4. j \in (k + 1)..n
    BY <1>1, <1>6, <2>3
  <2> QED
    BY <2>1, <2>4
<1>10. Cardinality(below) \in Nat /\ Cardinality(below) <= k - 1
  <2>1. IsFiniteSet(1..(k - 1)) /\ Cardinality(1..(k - 1)) = k - 1
    BY <1>6, FS_Interval
  <2>2. IsFiniteSet(Before) /\ Cardinality(Before) <= k - 1
    <3> DEFINE S == 1..(k - 1)
    <3>1. IsFiniteSet(S) /\ Cardinality(S) = k - 1 /\ Before = {p[j] : j \in S}
      BY <2>1
    <3> HIDE DEF S, Before
    <3> QED
      BY <3>1, ImageIsNoLarger
  <2>3. IsFiniteSet(below) /\ Cardinality(below) <= Cardinality(Before)
    <3> HIDE DEF below, Before
    <3> QED
      BY <1>8, <2>2, FS_Subset
  <2>4. Cardinality(below) \in Nat /\ Cardinality(Before) \in Nat
    BY <2>2, <2>3, FS_CardinalityType
  <2> HIDE DEF below, Before
  <2> QED
    BY <1>6, <2>2, <2>3, <2>4
<1>11. Cardinality(above) \in Nat /\ Cardinality(above) <= n - k
  <2>1. IsFiniteSet((k + 1)..n) /\ Cardinality((k + 1)..n) = n - k
    <3>1. k + 1 \in Int /\ n \in Int /\ k <= n /\ k \in Int
      BY <1>1, <1>6
    <3>2. /\ IsFiniteSet((k + 1)..n)
          /\ Cardinality((k + 1)..n) = IF k + 1 > n THEN 0 ELSE n - (k + 1) + 1
      BY <3>1, FS_Interval
    <3> QED
      BY <3>1, <3>2
  <2>2. IsFiniteSet(After) /\ Cardinality(After) <= n - k
    <3> DEFINE S == (k + 1)..n
    <3>1. IsFiniteSet(S) /\ Cardinality(S) = n - k /\ After = {p[j] : j \in S}
      BY <2>1
    <3> HIDE DEF S, After
    <3> QED
      BY <3>1, ImageIsNoLarger
  <2>3. IsFiniteSet(above) /\ Cardinality(above) <= Cardinality(After)
    <3> HIDE DEF above, After
    <3> QED
      BY <1>9, <2>2, FS_Subset
  <2>4. Cardinality(above) \in Nat /\ Cardinality(After) \in Nat
    BY <2>2, <2>3, FS_CardinalityType
  <2> HIDE DEF above, After
  <2> QED
    BY <1>1, <1>6, <2>2, <2>3, <2>4
<1> DEFINE few == Cardinality(below)
           many == Cardinality(above)
<1>12. few \in Nat /\ few <= k - 1 /\ many \in Nat /\ many <= n - k
  BY <1>10, <1>11
<1> HIDE DEF few, many
<1>13. 100 * few <= percent * n
  <2>1. percent * n \in Int
    BY <1>1
  <2> QED
    BY <1>3, <1>6, <1>12, <2>1
<1>14. many = 0 \/ 100 * many < (100 - percent) * n
  <2>1. CASE k = n
    BY <1>1, <1>12, <2>1
  <2>2. CASE k = place
    <3>1. CASE percent = 50
      BY <1>1, <1>3, <1>12, <2>2, <3>1
    <3>2. CASE percent = 99
      BY <1>1, <1>3, <1>12, <2>2, <3>2
    <3> QED
      BY <3>1, <3>2
  <2> QED
    BY <1>6, <2>1, <2>2
<1>15. IsRank(v, data, percent)
  BY <1>7, <1>13, <1>14 DEF IsRank, few, many, n
<1> QED
  BY <1>4, <1>7, <1>15 DEF n

(* A percentile is a rank, so a path that is nowhere slower has no higher   *)
(* one, and the speed-up is no less than one.                               *)
LEMMA SpeedupIsFair ==
  ASSUME NEW hoisted \in Seq(Nat) \ {<<>>}, NEW naive \in Seq(Nat) \ {<<>>},
         \A k \in DOMAIN hoisted, j \in DOMAIN naive : hoisted[k] <= naive[j]
  PROVE  LET speedup == _hoist_speedup(PreparationCost(hoisted, naive))
         IN  speedup = Undefined \/ speedup[1] >= speedup[2]
<1> DEFINE cost == PreparationCost(hoisted, naive)
<1>1. PICK k \in 1..Len(hoisted) : _percentile(hoisted, 50) = hoisted[k]
  BY PercentileRank
<1>2. PICK j \in 1..Len(naive) : _percentile(naive, 50) = naive[j]
  BY PercentileRank
<1>3. cost.hoisted_p50 = hoisted[k] /\ cost.naive_p50 = naive[j]
  BY <1>1, <1>2 DEF PreparationCost
<1>4. hoisted[k] <= naive[j]
  OBVIOUS
<1> HIDE DEF cost
<1> QED
  BY <1>3, <1>4 DEF _hoist_speedup, cost

----------------------------------------------------------------------------
(* Lists *)

\* f lists the members of a set of n positions, first to last.
Lists(f, n, S) ==
  /\ f \in [1..n -> S]
  /\ \A j, k \in 1..n : j < k => f[j] < f[k]

(* Positions can be listed.                                                 *)
LEMMA ListExists ==
  ASSUME NEW S, S \subseteq Nat, IsFiniteSet(S)
  PROVE  \E f : Lists(f, Cardinality(S), S)
<1> DEFINE n == Cardinality(S)
<1>1. n \in Nat /\ ExistsBijection(1..n, S)
  BY FS_CardinalityType
<1>2. PICK g : g \in Bijection(1..n, S)
  BY <1>1 DEF ExistsBijection
<1> HIDE DEF n
<1>3. /\ g \in [1..n -> S]
      /\ \A j, k \in 1..n : g[j] = g[k] => j = k
  BY <1>2 DEF Bijection, Injection, IsInjective
<1>4. g \in Seq(Nat) /\ DOMAIN g = 1..n
  <2>1. g \in [1..n -> Nat]
    BY <1>3
  <2> QED
    BY <1>1, <2>1
<1>5. PICK p : Orders(p, g)
  BY <1>4, OrderExists
<1>6. /\ p \in [1..n -> 1..n]
      /\ \A j, k \in 1..n : p[j] = p[k] => j = k
      /\ \A j, k \in 1..n : j <= k => g[p[j]] <= g[p[k]]
  <2>1. p \in [1..n -> 1..n] /\ DOMAIN p = 1..n
    BY <1>4, <1>5 DEF Orders
  <2>2. IsInjective(p)
    BY <1>5 DEF Orders
  <2>3. \A j, k \in 1..n : p[j] = p[k] => j = k
    BY <2>1, <2>2 DEF IsInjective
  <2>4. \A j, k \in 1..n : j <= k => g[p[j]] <= g[p[k]]
    BY <1>4, <1>5 DEF Orders
  <2> QED
    BY <2>1, <2>3, <2>4
<1> DEFINE f == [k \in 1..n |-> g[p[k]]]
<1>7. f \in [1..n -> S]
  BY <1>3, <1>6
<1>8. ASSUME NEW j \in 1..n, NEW k \in 1..n, j < k PROVE f[j] < f[k]
  <2>1. j <= k /\ j # k
    BY <1>1, <1>8
  <2>2. g[p[j]] <= g[p[k]] /\ g[p[j]] # g[p[k]]
    BY <1>3, <1>6, <2>1
  <2>3. g[p[j]] \in Nat /\ g[p[k]] \in Nat
    BY <1>3, <1>6
  <2> QED
    BY <2>2, <2>3
<1> HIDE DEF f
<1>9. Lists(f, n, S)
  BY <1>7, <1>8 DEF Lists
<1> QED
  BY <1>9 DEF n

(* A list of positions has every one of them.                               *)
LEMMA ListIsComplete ==
  ASSUME NEW S, S \subseteq Nat, IsFiniteSet(S), NEW f, Lists(f, Cardinality(S), S)
  PROVE  \A p \in S : \E k \in 1..Cardinality(S) : f[k] = p
<1> DEFINE n == Cardinality(S)
<1>1. n \in Nat
  BY FS_CardinalityType
<1>2. Cardinality(1..n) = n
  BY <1>1, FS_Interval
<1>3. f \in Injection(1..n, S)
  <2>1. ASSUME NEW j \in 1..n, NEW k \in 1..n, f[j] = f[k] PROVE j = k
    <3>1. f[j] \in Nat /\ f[k] \in Nat
      BY DEF Lists
    <3>2. ~(j < k) /\ ~(k < j)
      BY <2>1, <3>1 DEF Lists
    <3> QED
      BY <1>1, <3>2
  <2>2. f \in [1..n -> S]
    BY DEF Lists
  <2> HIDE DEF n
  <2> QED
    BY <2>1, <2>2 DEF Injection, IsInjective
<1>4. f \in Surjection(1..n, S)
  BY <1>2, <1>3, FS_Injection
<1> QED
  BY <1>4 DEF Surjection

(* The items at some positions of a list are those, in the list's order.    *)
LEMMA SelectedIs ==
  ASSUME NEW list, NEW S, S \subseteq Nat, IsFiniteSet(S)
  PROVE  \E f : /\ Lists(f, Cardinality(S), S)
                /\ Selected(list, S) = [k \in 1..Cardinality(S) |-> list[f[k]]]
<1> DEFINE n == Cardinality(S)
           g == CHOOSE f \in [1..n -> S] : \A j, k \in 1..n : j < k => f[j] < f[k]
<1>1. Lists(g, n, S)
  BY ListExists DEF Lists
<1>2. Selected(list, S) = [k \in 1..n |-> list[g[k]]]
  BY DEF Selected
<1> HIDE DEF g
<1> QED
  BY <1>1, <1>2

(* What is selected from a list of T is a list of T, as long as there are    *)
(* positions, and holds the items at them and no others.                    *)
LEMMA SelectedItems ==
  ASSUME NEW T, NEW list \in Seq(T), NEW S, S \subseteq DOMAIN list
  PROVE  /\ Selected(list, S) \in Seq(T)
         /\ IsFiniteSet(S) /\ Len(Selected(list, S)) = Cardinality(S)
         /\ Range(Selected(list, S)) = {list[p] : p \in S}
<1> DEFINE n == Cardinality(S)
<1>1. IsFiniteSet(S) /\ S \subseteq Nat /\ S \subseteq 1..Len(list)
  <2>1. DOMAIN list = 1..Len(list) /\ Len(list) \in Nat
    OBVIOUS
  <2>2. IsFiniteSet(1..Len(list))
    BY <2>1, FS_Interval
  <2> QED
    BY <2>1, <2>2, FS_Subset
<1>2. n \in Nat
  BY <1>1, FS_CardinalityType
<1>3. PICK f : Lists(f, n, S) /\ Selected(list, S) = [k \in 1..n |-> list[f[k]]]
  BY <1>1, SelectedIs
<1>4. \A p \in S : \E k \in 1..n : f[k] = p
  BY <1>1, <1>3, ListIsComplete
<1> HIDE DEF n
<1>5. f \in [1..n -> S]
  BY <1>3 DEF Lists
<1>6. \A p \in S : list[p] \in T
  BY <1>1
<1>7. Selected(list, S) \in Seq(T) /\ Len(Selected(list, S)) = n
  BY <1>2, <1>3, <1>5, <1>6
<1>8. Range(Selected(list, S)) = {list[f[k]] : k \in 1..n}
  BY <1>3 DEF Range
<1>9. {list[f[k]] : k \in 1..n} = {list[p] : p \in S}
  BY <1>4, <1>5
<1> QED
  BY <1>1, <1>7, <1>8, <1>9 DEF n

(* Different items of a list stay different when they are selected.         *)
LEMMA SelectedDistinct ==
  ASSUME NEW T, NEW list \in Seq(T), NEW S, S \subseteq DOMAIN list,
         \A j, k \in S : j < k => list[j] # list[k]
  PROVE  IsInjective(Selected(list, S))
<1> DEFINE n == Cardinality(S)
<1>1. IsFiniteSet(S) /\ S \subseteq Nat
  <2>1. DOMAIN list = 1..Len(list) /\ Len(list) \in Nat
    OBVIOUS
  <2> QED
    BY <2>1, SelectedItems
<1>2. n \in Nat
  BY <1>1, FS_CardinalityType
<1>3. PICK f : Lists(f, n, S) /\ Selected(list, S) = [k \in 1..n |-> list[f[k]]]
  BY <1>1, SelectedIs
<1> HIDE DEF n
<1>4. ASSUME NEW j \in 1..n, NEW k \in 1..n, j < k PROVE list[f[j]] # list[f[k]]
  BY <1>3, <1>4 DEF Lists
<1>5. ASSUME NEW j \in 1..n, NEW k \in 1..n, list[f[j]] = list[f[k]] PROVE j = k
  <2>1. ~(j < k) /\ ~(k < j)
    BY <1>4, <1>5
  <2> QED
    BY <1>2, <2>1
<1> QED
  BY <1>3, <1>5 DEF IsInjective

(* A list's items are of the set it is a list over.                         *)
LEMMA ItemsOfList ==
  ASSUME NEW T, NEW list \in Seq(T)
  PROVE  \A i \in DOMAIN list : list[i] \in T
OBVIOUS

\* g is the recursive function behind FlattenSeq(seqs), up to its n-th list.
Flattens(g, seqs, n) ==
  g = [i \in 1..n |-> IF i = 1 THEN seqs[i] ELSE g[i - 1] \o seqs[i]]

(* The recursion is well defined.                                           *)
LEMMA FlatteningExists ==
  ASSUME NEW seqs, NEW m \in Nat
  PROVE  \E g : Flattens(g, seqs, m)
<1> DEFINE Bad == {n \in Nat : ~ \E g : Flattens(g, seqs, n)}
<1>1. ASSUME Bad # {} PROVE FALSE
  <2>1. PICK n \in Bad : \A j \in Bad : n <= j
    <3>1. Bad \subseteq Nat
      OBVIOUS
    <3> HIDE DEF Bad
    <3> QED
      BY <1>1, <3>1, SmallestNumber
  <2>2. n # 0
    <3> DEFINE g == [i \in 1..0 |-> {}]
    <3>1. g = [i \in 1..0 |-> IF i = 1 THEN seqs[i] ELSE g[i - 1] \o seqs[i]]
      OBVIOUS
    <3>2. Flattens(g, seqs, 0)
      BY <3>1 DEF Flattens
    <3> QED
      BY <2>1, <3>2
  <2>3. n \in Nat /\ n - 1 \in Nat /\ ~(n <= n - 1)
    BY <2>2
  <2>4. PICK g : Flattens(g, seqs, n - 1)
    BY <2>1, <2>3
  <2> DEFINE h == [i \in 1..n |-> IF i = 1 THEN seqs[i] ELSE g[i - 1] \o seqs[i]]
  <2>5. ASSUME NEW i \in 1..n, i # 1 PROVE h[i - 1] = g[i - 1]
    <3>1. i - 1 \in 1..(n - 1) /\ i - 1 \in 1..n
      BY <2>3, <2>5
    <3> DEFINE G == [k \in 1..(n - 1) |-> IF k = 1 THEN seqs[k] ELSE g[k - 1] \o seqs[k]]
    <3>2. g = G
      BY <2>4 DEF Flattens
    <3>3. G[i - 1] = IF i - 1 = 1 THEN seqs[i - 1] ELSE g[(i - 1) - 1] \o seqs[i - 1]
      BY <3>1
    <3>4. h[i - 1] = IF i - 1 = 1 THEN seqs[i - 1] ELSE g[(i - 1) - 1] \o seqs[i - 1]
      BY <3>1
    <3> QED
      BY <3>2, <3>3, <3>4
  <2>6. h = [i \in 1..n |-> IF i = 1 THEN seqs[i] ELSE h[i - 1] \o seqs[i]]
    BY <2>5
  <2>7. Flattens(h, seqs, n)
    BY <2>6 DEF Flattens
  <2> QED
    BY <2>1, <2>7
<1> QED
  BY <1>1

(* FlattenSeq step by step: each list is appended to the ones before it.    *)
LEMMA FlattenSteps ==
  ASSUME NEW seqs, Len(seqs) \in Nat, Len(seqs) # 0
  PROVE  \E g : /\ FlattenSeq(seqs) = g[Len(seqs)]
                /\ g[1] = seqs[1]
                /\ \A i \in 2..Len(seqs) : g[i] = g[i - 1] \o seqs[i]
<1> DEFINE n == Len(seqs)
           g == CHOOSE g : g = [i \in 1..n |-> IF i = 1 THEN seqs[i] ELSE g[i - 1] \o seqs[i]]
<1>1. FlattenSeq(seqs) = g[n]
  BY DEF FlattenSeq
<1>2. g = [i \in 1..n |-> IF i = 1 THEN seqs[i] ELSE g[i - 1] \o seqs[i]]
  <2>1. \E f : f = [i \in 1..n |-> IF i = 1 THEN seqs[i] ELSE f[i - 1] \o seqs[i]]
    BY FlatteningExists DEF Flattens
  <2> QED
    BY <2>1
<1> HIDE DEF g
<1> DEFINE G == [i \in 1..n |-> IF i = 1 THEN seqs[i] ELSE g[i - 1] \o seqs[i]]
<1>3. \A i \in 1..n : G[i] = IF i = 1 THEN seqs[i] ELSE g[i - 1] \o seqs[i]
  OBVIOUS
<1>4. g = G
  BY <1>2
<1> HIDE DEF G
<1>5. \A i \in 1..n : g[i] = IF i = 1 THEN seqs[i] ELSE g[i - 1] \o seqs[i]
  BY <1>3, <1>4
<1>6. 1 \in 1..n /\ \A i \in 2..n : i \in 1..n /\ i # 1
  OBVIOUS
<1> QED
  BY <1>1, <1>5, <1>6

(* A flattened list has the items of its lists, and no others.              *)
LEMMA FlattenItems ==
  ASSUME NEW T, NEW seqs \in Seq(Seq(T))
  PROVE  /\ FlattenSeq(seqs) \in Seq(T)
         /\ Range(FlattenSeq(seqs)) = UNION {Range(seqs[i]) : i \in DOMAIN seqs}
<1> DEFINE n == Len(seqs)
<1>1. n \in Nat /\ DOMAIN seqs = 1..n /\ \A i \in 1..n : seqs[i] \in Seq(T)
  OBVIOUS
<1>2. CASE n = 0
  <2>1. seqs = <<>> /\ DOMAIN seqs = {}
    BY <1>1, <1>2
  <2>2. FlattenSeq(seqs) = seqs
    BY <1>2 DEF FlattenSeq
  <2>3. Range(seqs) = {} /\ {Range(seqs[i]) : i \in DOMAIN seqs} = {}
    BY <2>1 DEF Range
  <2>4. seqs \in Seq(T)
    BY <2>1
  <2> QED
    BY <2>2, <2>3, <2>4
<1>3. CASE n # 0
  <2>1. PICK g : /\ FlattenSeq(seqs) = g[n]
                 /\ g[1] = seqs[1]
                 /\ \A i \in 2..n : g[i] = g[i - 1] \o seqs[i]
    BY <1>1, <1>3, FlattenSteps
  <2> HIDE DEF n
  <2> DEFINE Upto(i) == UNION {Range(seqs[j]) : j \in 1..i}
             Good(i) == g[i] \in Seq(T) /\ Range(g[i]) = Upto(i)
             Bad == {i \in 1..n : ~Good(i)}
  <2>2. ASSUME Bad # {} PROVE FALSE
    <3>1. PICK i \in Bad : \A j \in Bad : i <= j
      <4>1. Bad \subseteq Nat
        BY <1>1
      <4> HIDE DEF Bad
      <4> QED
        BY <2>2, <4>1, SmallestNumber
    <3>2. i # 1
      <4>1. 1..1 = {1} /\ 1 \in 1..n
        BY <1>1, <1>3
      <4>2. Upto(1) = Range(seqs[1])
        BY <4>1
      <4> QED
        BY <1>1, <2>1, <3>1, <4>1, <4>2
    <3>3. /\ i \in 2..n /\ i - 1 \in 1..n /\ ~(i <= i - 1)
          /\ 1..i = (1..(i - 1)) \cup {i}
      BY <1>1, <3>1, <3>2
    <3>4. Good(i - 1)
      BY <3>1, <3>3
    <3>5. g[i] = g[i - 1] \o seqs[i] /\ seqs[i] \in Seq(T)
      BY <1>1, <2>1, <3>3
    <3>6. g[i] \in Seq(T) /\ Range(g[i]) = Range(g[i - 1]) \cup Range(seqs[i])
      BY <3>4, <3>5, ConcatProperties, RangeConcatenation
    <3>7. Upto(i) = Upto(i - 1) \cup Range(seqs[i])
      BY <3>3
    <3> QED
      BY <3>1, <3>4, <3>6, <3>7
  <2>3. Good(n)
    <3>1. n \in 1..n
      BY <1>1, <1>3
    <3>2. ~Good(n) => n \in Bad
      BY <3>1
    <3> HIDE DEF Bad, Good
    <3> QED
      BY <2>2, <3>2
  <2> QED
    BY <1>1, <2>1, <2>3
<1> QED
  BY <1>2, <1>3

(* All lists but one being empty, the flattened list is that one.           *)
LEMMA FlattenOne ==
  ASSUME NEW T, NEW seqs \in Seq(Seq(T)), NEW c \in DOMAIN seqs,
         \A i \in DOMAIN seqs : i # c => seqs[i] = <<>>
  PROVE  FlattenSeq(seqs) = seqs[c]
<1> DEFINE n == Len(seqs)
<1>1. n \in Nat /\ n # 0 /\ DOMAIN seqs = 1..n /\ c \in 1..n /\ seqs[c] \in Seq(T)
  OBVIOUS
<1>2. PICK g : /\ FlattenSeq(seqs) = g[n]
               /\ g[1] = seqs[1]
               /\ \A i \in 2..n : g[i] = g[i - 1] \o seqs[i]
  BY <1>1, FlattenSteps
<1> HIDE DEF n
<1> DEFINE Good(i) == g[i] = IF i < c THEN <<>> ELSE seqs[c]
           Bad == {i \in 1..n : ~Good(i)}
<1>3. ASSUME Bad # {} PROVE FALSE
  <2>1. PICK i \in Bad : \A j \in Bad : i <= j
    <3>1. Bad \subseteq Nat
      BY <1>1
    <3> HIDE DEF Bad
    <3> QED
      BY <1>3, <3>1, SmallestNumber
  <2>2. i # 1
    <3>1. 1 \in 1..n /\ (1 < c <=> 1 # c)
      BY <1>1
    <3> QED
      BY <1>1, <1>2, <2>1, <3>1
  <2>3. i \in 2..n /\ i - 1 \in 1..n /\ ~(i <= i - 1)
    BY <1>1, <2>1, <2>2
  <2>4. g[i - 1] = IF i - 1 < c THEN <<>> ELSE seqs[c]
    BY <2>1, <2>3
  <2>5. g[i] = g[i - 1] \o seqs[i]
    BY <1>2, <2>3
  <2>6. CASE i = c
    <3>1. g[i] = <<>> \o seqs[c]
      BY <1>1, <2>3, <2>4, <2>5, <2>6
    <3>2. g[i] = seqs[c]
      BY <1>1, <3>1
    <3> QED
      BY <1>1, <2>1, <2>6, <3>2
  <2>7. CASE i # c
    <3>1. seqs[i] = <<>> /\ (i - 1 < c <=> i < c)
      <4>1. seqs[i] = <<>>
        BY <1>1, <2>3, <2>7
      <4>2. i - 1 < c <=> i < c
        <5>1. i \in Int /\ c \in Int
          BY <1>1, <2>3
        <5> QED
          BY <2>7, <5>1
      <4> QED
        BY <4>1, <4>2
    <3>2. g[i] = g[i - 1]
      BY <1>1, <2>4, <2>5, <3>1
    <3> QED
      BY <2>1, <2>4, <3>1, <3>2
  <2> QED
    BY <2>6, <2>7
<1>4. Good(n)
  BY <1>1, <1>3
<1> QED
  BY <1>1, <1>2, <1>4

\* The places of a list that hold an item of Q.
Spots(s, Q) == {n \in DOMAIN s : s[n] \in Q}

(* Appending a list appends its places.                                     *)
LEMMA SpotsAppend ==
  ASSUME NEW T, NEW Q, NEW s \in Seq(T), NEW t \in Seq(T)
  PROVE  Spots(s \o t, Q) = Spots(s, Q) \cup {Len(s) + k : k \in Spots(t, Q)}
<1>1. /\ Len(s) \in Nat /\ Len(t) \in Nat
      /\ DOMAIN s = 1..Len(s) /\ DOMAIN t = 1..Len(t)
      /\ DOMAIN (s \o t) = 1..(Len(s) + Len(t))
      /\ \A n \in 1..(Len(s) + Len(t)) :
           (s \o t)[n] = IF n <= Len(s) THEN s[n] ELSE t[n - Len(s)]
  OBVIOUS
<1>2. ASSUME NEW n \in Spots(s \o t, Q)
      PROVE  n \in Spots(s, Q) \/ \E k \in Spots(t, Q) : n = Len(s) + k
  <2>1. n \in 1..(Len(s) + Len(t)) /\ (s \o t)[n] \in Q
    BY <1>1 DEF Spots
  <2>2. CASE n <= Len(s)
    BY <1>1, <2>1, <2>2 DEF Spots
  <2>3. CASE ~(n <= Len(s))
    <3>1. n - Len(s) \in 1..Len(t) /\ n = Len(s) + (n - Len(s))
      BY <1>1, <2>1, <2>3
    <3>2. n - Len(s) \in Spots(t, Q)
      BY <1>1, <2>1, <2>3, <3>1 DEF Spots
    <3> QED
      BY <3>1, <3>2
  <2> QED
    BY <2>2, <2>3
<1>3. ASSUME NEW n \in Spots(s, Q) PROVE n \in Spots(s \o t, Q)
  <2>1. n \in 1..Len(s) /\ s[n] \in Q
    BY <1>1 DEF Spots
  <2>2. n \in 1..(Len(s) + Len(t)) /\ n <= Len(s)
    BY <1>1, <2>1
  <2> QED
    BY <1>1, <2>1, <2>2 DEF Spots
<1>4. ASSUME NEW k \in Spots(t, Q) PROVE Len(s) + k \in Spots(s \o t, Q)
  <2>1. k \in 1..Len(t) /\ t[k] \in Q
    BY <1>1 DEF Spots
  <2>2. Len(s) + k \in 1..(Len(s) + Len(t)) /\ ~(Len(s) + k <= Len(s)) /\ (Len(s) + k) - Len(s) = k
    BY <1>1, <2>1
  <2> QED
    BY <1>1, <2>1, <2>2 DEF Spots
<1> QED
  BY <1>2, <1>3, <1>4

(* The items of Q being those of one of the lists, the flattened list has as *)
(* many as that one is long.                                                *)
LEMMA FlattenCount ==
  ASSUME NEW T, NEW Q, NEW seqs \in Seq(Seq(T)), NEW c \in DOMAIN seqs,
         Spots(seqs[c], Q) = DOMAIN seqs[c],
         \A i \in DOMAIN seqs : i # c => Spots(seqs[i], Q) = {}
  PROVE  Cardinality(Spots(FlattenSeq(seqs), Q)) = Len(seqs[c])
<1> DEFINE n == Len(seqs)
<1>1. /\ n \in Nat /\ n # 0 /\ DOMAIN seqs = 1..n /\ c \in 1..n
      /\ \A i \in 1..n : seqs[i] \in Seq(T)
  OBVIOUS
<1>2. PICK g : /\ FlattenSeq(seqs) = g[n]
               /\ g[1] = seqs[1]
               /\ \A i \in 2..n : g[i] = g[i - 1] \o seqs[i]
  BY <1>1, FlattenSteps
<1> HIDE DEF n
<1> DEFINE l == Len(seqs[c])
           a == IF c = 1 THEN 0 ELSE Len(g[c - 1])
           Block == {a + k : k \in 1..l}
           Good(i) == g[i] \in Seq(T) /\ Spots(g[i], Q) = IF i < c THEN {} ELSE Block
           Bad == {i \in 1..n : ~Good(i)}
<1>3. l \in Nat /\ Spots(seqs[c], Q) = 1..l
  BY <1>1
<1>4. ASSUME Bad # {} PROVE FALSE
  <2>1. PICK i \in Bad : \A j \in Bad : i <= j
    <3>1. Bad \subseteq Nat
      BY <1>1
    <3> HIDE DEF Bad
    <3> QED
      BY <1>4, <3>1, SmallestNumber
  <2>2. i # 1
    <3>1. 1 \in 1..n /\ (1 < c <=> 1 # c)
      BY <1>1
    <3>2. CASE c = 1
      <4>1. Block = 1..l
        BY <1>3, <3>2
      <4> HIDE DEF Block
      <4>2. Spots(g[1], Q) = Block
        BY <1>2, <1>3, <3>2, <4>1
      <4>3. Good(1)
        BY <1>1, <1>2, <3>1, <3>2, <4>2
      <4> QED
        BY <2>1, <4>3
    <3>3. CASE c # 1
      <4> HIDE DEF Block
      <4>1. Spots(g[1], Q) = {}
        BY <1>1, <1>2, <3>1, <3>3
      <4>2. Good(1)
        BY <1>1, <1>2, <3>1, <3>3, <4>1
      <4> QED
        BY <2>1, <4>2
    <3> QED
      BY <3>2, <3>3
  <2>3. i \in 2..n /\ i \in 1..n /\ i - 1 \in 1..n /\ ~(i <= i - 1)
    BY <1>1, <2>1, <2>2
  <2>4. Good(i - 1)
    <3> HIDE DEF Good
    <3> QED
      BY <2>1, <2>3
  <2>5. g[i] = g[i - 1] \o seqs[i] /\ seqs[i] \in Seq(T)
    BY <1>1, <1>2, <2>3
  <2>6. g[i] \in Seq(T)
    BY <2>4, <2>5, ConcatProperties
  <2>7. Spots(g[i], Q) = Spots(g[i - 1], Q) \cup {Len(g[i - 1]) + k : k \in Spots(seqs[i], Q)}
    <3>1. g[i - 1] \in Seq(T)
      BY <2>4
    <3>2. Spots(g[i - 1] \o seqs[i], Q)
            = Spots(g[i - 1], Q) \cup {Len(g[i - 1]) + k : k \in Spots(seqs[i], Q)}
      <4> DEFINE u == g[i - 1]
                 v == seqs[i]
      <4>1. u \in Seq(T) /\ v \in Seq(T)
        BY <2>5, <3>1
      <4> HIDE DEF Good, Bad, Block, u, v
      <4>2. Spots(u \o v, Q) = Spots(u, Q) \cup {Len(u) + k : k \in Spots(v, Q)}
        BY <4>1, SpotsAppend
      <4> QED
        BY <4>2 DEF u, v
    <3> QED
      BY <2>5, <3>2
  <2>8. CASE i = c
    <3>1. a = Len(g[i - 1]) /\ i - 1 < c /\ ~(i < c)
      BY <1>1, <2>2, <2>3, <2>8
    <3>2. Spots(g[i - 1], Q) = {}
      BY <2>4, <3>1
    <3>3. {Len(g[i - 1]) + k : k \in Spots(seqs[i], Q)} = Block
      BY <1>3, <2>8, <3>1
    <3> HIDE DEF Block
    <3> QED
      BY <2>1, <2>6, <2>7, <3>1, <3>2, <3>3
  <2>9. CASE i # c
    <3>1. Spots(seqs[i], Q) = {} /\ (i - 1 < c <=> i < c)
      <4>1. Spots(seqs[i], Q) = {}
        BY <1>1, <2>3, <2>9
      <4>2. i - 1 < c <=> i < c
        <5>1. i \in Int /\ c \in Int
          BY <1>1, <2>3
        <5> QED
          BY <2>9, <5>1
      <4> QED
        BY <4>1, <4>2
    <3>2. Spots(g[i], Q) = Spots(g[i - 1], Q)
      BY <2>7, <3>1
    <3> HIDE DEF Block
    <3> QED
      BY <2>1, <2>4, <2>6, <3>1, <3>2
  <2> QED
    BY <2>8, <2>9
<1>5. Good(n)
  <2>1. n \in 1..n
    BY <1>1
  <2>2. ~Good(n) => n \in Bad
    BY <2>1
  <2> HIDE DEF Bad, Good
  <2> QED
    BY <1>4, <2>2
<1>6. a \in Nat
  <2>1. CASE c # 1
    <3>1. c - 1 \in 1..n
      BY <1>1, <2>1
    <3>2. Good(c - 1)
      <4>1. ~Good(c - 1) => c - 1 \in Bad
        BY <3>1
      <4> HIDE DEF Bad, Good
      <4> QED
        BY <1>4, <4>1
    <3> QED
      BY <2>1, <3>2
  <2> QED
    BY <2>1
<1>7. Spots(FlattenSeq(seqs), Q) = (a + 1)..(a + l)
  <2>1. Block = (a + 1)..(a + l)
    <3> HIDE DEF a, l
    <3>1. \A x \in (a + 1)..(a + l) : x - a \in 1..l /\ x = a + (x - a)
      BY <1>3, <1>6
    <3> QED
      BY <1>3, <1>6, <3>1
  <2>2. ~(n < c)
    BY <1>1
  <2> HIDE DEF Block
  <2> QED
    BY <1>2, <1>5, <2>1, <2>2
<1> HIDE DEF a, l
<1>8. Cardinality((a + 1)..(a + l)) = l
  BY <1>3, <1>6, FS_Interval
<1> QED
  BY <1>7, <1>8 DEF l

----------------------------------------------------------------------------
(* Candidate pairs *)

\* The records of a list with a place, and those of them in a cell.
Placed(records) == {r \in Range(records) : _has_coordinates(r)}

Inside(records, cell) == {r \in Placed(records) : _cell(r) = cell}

(* The index has a cell's records under the cell, and cells that have some. *)
LEMMA IndexIs ==
  ASSUME NEW T, NEW records \in Seq(T)
  PROVE  /\ DOMAIN _index_by_cell(records) = {_cell(r) : r \in Placed(records)}
         /\ \A cell \in DOMAIN _index_by_cell(records) :
              /\ _index_by_cell(records)[cell] \in Seq(T)
              /\ Range(_index_by_cell(records)[cell]) = Inside(records, cell)
<1> DEFINE placed == {p \in DOMAIN records : _has_coordinates(records[p])}
           At(cell) == {p \in placed : _cell(records[p]) = cell}
           cells == {_cell(records[p]) : p \in placed}
<1>1. Placed(records) = {records[p] : p \in placed}
  BY DEF Placed, Range
<1>2. cells = {_cell(r) : r \in Placed(records)}
  BY <1>1
<1>3. _index_by_cell(records) = [cell \in cells |-> Selected(records, At(cell))]
  BY DEF _index_by_cell
<1>4. ASSUME NEW cell
      PROVE  /\ Selected(records, At(cell)) \in Seq(T)
             /\ Range(Selected(records, At(cell))) = Inside(records, cell)
  <2>1. At(cell) \subseteq DOMAIN records
    OBVIOUS
  <2>2. {records[p] : p \in At(cell)} = Inside(records, cell)
    BY <1>1 DEF Inside
  <2> HIDE DEF At
  <2> QED
    BY <2>1, <2>2, SelectedItems
<1> HIDE DEF cells, At
<1> QED
  BY <1>2, <1>3, <1>4

\* Two records in touching cells.
Touch(r, s) ==
  /\ _cell(r)[1] - _cell(s)[1] \in -1..1
  /\ _cell(r)[2] - _cell(s)[2] \in -1..1

(* The nine offsets are all there are between touching cells.               *)
LEMMA OffsetsAreNine ==
  /\ DOMAIN _NEIGHBOUR_OFFSETS = 1..9
  /\ \A n \in 1..9 : _NEIGHBOUR_OFFSETS[n] \in (-1..1) \X (-1..1)
  /\ \A i, j \in -1..1 : \E n \in 1..9 : _NEIGHBOUR_OFFSETS[n] = <<i, j>>
<1>1. DOMAIN _NEIGHBOUR_OFFSETS = 1..9
  BY DEF _NEIGHBOUR_OFFSETS
<1>2. \A n \in 1..9 : _NEIGHBOUR_OFFSETS[n] \in (-1..1) \X (-1..1)
  BY DEF _NEIGHBOUR_OFFSETS
<1>3. ASSUME NEW i \in -1..1, NEW j \in -1..1
      PROVE  \E n \in 1..9 : _NEIGHBOUR_OFFSETS[n] = <<i, j>>
  <2> DEFINE n == 3 * (i + 1) + (j + 1) + 1
  <2>1. n \in 1..9
    OBVIOUS
  <2>2. _NEIGHBOUR_OFFSETS[n] = <<i, j>>
    BY DEF _NEIGHBOUR_OFFSETS
  <2> QED
    BY <2>1, <2>2
<1> QED
  BY <1>1, <1>2, <1>3

(* The cell of a placed row is a pair of numbers.                           *)
LEMMA CellOfRecord ==
  ASSUME NEW r \in Record, _has_coordinates(r)
  PROVE  _cell(r) = <<_cell(r)[1], _cell(r)[2]>> /\ _cell(r)[1] \in Int /\ _cell(r)[2] \in Int
<1>1. r.latitude \in Int /\ r.longitude \in Int
  BY DEF _has_coordinates, Record, Coordinate
<1> QED
  BY <1>1, CellAssumption DEF _cell

(* The candidates of a placed row are the rows of the touching cells.       *)
LEMMA CandidatesAre ==
  ASSUME NEW right \in Seq(Record), NEW r \in Record
  PROVE  /\ _candidates_for(r, _index_by_cell(right)) \in Seq(Record)
         /\ Range(_candidates_for(r, _index_by_cell(right)))
              = {s \in Placed(right) : _has_coordinates(r) /\ Touch(r, s)}
<1> DEFINE index == _index_by_cell(right)
           Bucket(cell) == IF cell \in DOMAIN index THEN index[cell] ELSE <<>>
           Cell(n) == <<_cell(r)[1] + _NEIGHBOUR_OFFSETS[n][1],
                        _cell(r)[2] + _NEIGHBOUR_OFFSETS[n][2]>>
           buckets == [n \in 1..9 |-> Bucket(Cell(n))]
<1>1. CASE ~_has_coordinates(r)
  <2>1. _candidates_for(r, index) = <<>>
    BY <1>1 DEF _candidates_for
  <2>2. <<>> \in Seq(Record) /\ Range(<<>>) = {}
    BY DEF Range
  <2> HIDE DEF index
  <2> QED
    BY <1>1, <2>1, <2>2 DEF index
<1>2. CASE _has_coordinates(r)
  <2>1. _candidates_for(r, index) = FlattenSeq(buckets)
    BY <1>2, OffsetsAreNine DEF _candidates_for
  <2>2. ASSUME NEW cell
        PROVE  Bucket(cell) \in Seq(Record) /\ Range(Bucket(cell)) = Inside(right, cell)
    <3>1. CASE cell \in DOMAIN index
      BY <3>1, IndexIs
    <3>2. CASE cell \notin DOMAIN index
      <4>1. DOMAIN index = {_cell(t) : t \in Placed(right)}
        BY IndexIs
      <4>2. \A t \in Placed(right) : _cell(t) # cell
        BY <3>2, <4>1
      <4>3. Inside(right, cell) = {}
        BY <4>2 DEF Inside
      <4>4. <<>> \in Seq(Record) /\ Range(<<>>) = {}
        BY DEF Range
      <4> QED
        BY <3>2, <4>3, <4>4
    <3> QED
      BY <3>1, <3>2
  <2> HIDE DEF index, Bucket
  <2>3. buckets \in Seq(Seq(Record)) /\ DOMAIN buckets = 1..9
    <3>1. buckets \in [1..9 -> Seq(Record)]
      BY <2>2
    <3> QED
      BY <3>1
  <2>4. \A n \in 1..9 : Range(buckets[n]) = Inside(right, Cell(n))
    BY <2>2
  <2> HIDE DEF buckets
  <2>5. /\ FlattenSeq(buckets) \in Seq(Record)
        /\ Range(FlattenSeq(buckets)) = UNION {Inside(right, Cell(n)) : n \in 1..9}
    <3>1. /\ FlattenSeq(buckets) \in Seq(Record)
          /\ Range(FlattenSeq(buckets)) = UNION {Range(buckets[n]) : n \in DOMAIN buckets}
      BY <2>3, FlattenItems
    <3>2. {Range(buckets[n]) : n \in DOMAIN buckets} = {Inside(right, Cell(n)) : n \in 1..9}
      <4> HIDE DEF Cell
      <4> QED
        BY <2>3, <2>4
    <3> QED
      BY <3>1, <3>2
  <2>6. ASSUME NEW s \in Placed(right)
        PROVE  (\E n \in 1..9 : _cell(s) = Cell(n)) <=> Touch(r, s)
    <3>1. s \in Record /\ _has_coordinates(s)
      BY DEF Placed, Range
    <3>2. /\ _cell(r)[1] \in Int /\ _cell(r)[2] \in Int
          /\ _cell(s)[1] \in Int /\ _cell(s)[2] \in Int
          /\ _cell(s) = <<_cell(s)[1], _cell(s)[2]>>
      BY <1>2, <3>1, CellOfRecord
    <3>3. ASSUME NEW n \in 1..9, _cell(s) = Cell(n) PROVE Touch(r, s)
      <4>1. _NEIGHBOUR_OFFSETS[n][1] \in -1..1 /\ _NEIGHBOUR_OFFSETS[n][2] \in -1..1
        BY OffsetsAreNine
      <4>2. /\ _cell(s)[1] = _cell(r)[1] + _NEIGHBOUR_OFFSETS[n][1]
            /\ _cell(s)[2] = _cell(r)[2] + _NEIGHBOUR_OFFSETS[n][2]
        BY <3>3
      <4> QED
        BY <3>2, <4>1, <4>2 DEF Touch
    <3>4. ASSUME Touch(r, s) PROVE \E n \in 1..9 : _cell(s) = Cell(n)
      <4> DEFINE i == _cell(s)[1] - _cell(r)[1]
                 j == _cell(s)[2] - _cell(r)[2]
      <4>1. i \in -1..1 /\ j \in -1..1
        BY <3>2, <3>4 DEF Touch
      <4>2. PICK n \in 1..9 : _NEIGHBOUR_OFFSETS[n] = <<i, j>>
        <5> HIDE DEF i, j
        <5> QED
          BY <4>1, OffsetsAreNine
      <4>3. Cell(n) = <<_cell(r)[1] + i, _cell(r)[2] + j>>
        BY <4>2
      <4>4. _cell(r)[1] + i = _cell(s)[1] /\ _cell(r)[2] + j = _cell(s)[2]
        BY <3>2
      <4> HIDE DEF i, j, Cell
      <4>5. _cell(s) = Cell(n)
        BY <3>2, <4>3, <4>4
      <4> QED
        BY <4>5
    <3> QED
      BY <3>3, <3>4
  <2>7. UNION {Inside(right, Cell(n)) : n \in 1..9} = {s \in Placed(right) : Touch(r, s)}
    BY <2>6 DEF Inside
  <2> QED
    BY <1>2, <2>1, <2>5, <2>7 DEF index
<1> QED
  BY <1>1, <1>2

(* candidate_pairs has the pairs of placed rows in touching cells, and no   *)
(* others.                                                                  *)
LEMMA PairsAre ==
  ASSUME NEW left \in Seq(Record), NEW right \in Seq(Record)
  PROVE  /\ candidate_pairs(left, right) \in Seq(Range(left) \X Range(right))
         /\ Range(candidate_pairs(left, right))
              = {pair \in Placed(left) \X Placed(right) : Touch(pair[1], pair[2])}
<1> DEFINE P == Range(left) \X Range(right)
           Of(r) == _candidates_for(r, _index_by_cell(right))
           PairsOf(r) == [n \in DOMAIN Of(r) |-> <<r, Of(r)[n]>>]
           seqs == [p \in DOMAIN left |-> PairsOf(left[p])]
<1>1. candidate_pairs(left, right) = FlattenSeq(seqs)
  BY DEF candidate_pairs
<1>2. ASSUME NEW r \in Range(left)
      PROVE  /\ PairsOf(r) \in Seq(P)
             /\ Range(PairsOf(r))
                  = {pair \in Placed(left) \X Placed(right) : pair[1] = r /\ Touch(r, pair[2])}
  <2>1. r \in Record
    BY DEF Range
  <2>2. /\ Of(r) \in Seq(Record)
        /\ Range(Of(r)) = {s \in Placed(right) : _has_coordinates(r) /\ Touch(r, s)}
    BY <2>1, CandidatesAre
  <2> HIDE DEF Of
  <2>3. \A n \in DOMAIN Of(r) : Of(r)[n] \in Range(right)
    BY <2>2 DEF Range, Placed
  <2>4. PairsOf(r) \in Seq(P)
    <3>1. Len(Of(r)) \in Nat /\ DOMAIN Of(r) = 1..Len(Of(r))
      BY <2>2
    <3>2. PairsOf(r) \in [1..Len(Of(r)) -> P]
      BY <2>3, <3>1
    <3> QED
      BY <3>1, <3>2
  <2>5. Range(PairsOf(r)) = {<<r, s>> : s \in Range(Of(r))}
    BY DEF Range
  <2>6. r \in Placed(left) <=> _has_coordinates(r)
    BY DEF Placed
  <2> QED
    BY <2>2, <2>4, <2>5, <2>6
<1> HIDE DEF PairsOf, Of, P
<1>3. seqs \in Seq(Seq(P)) /\ DOMAIN seqs = DOMAIN left
  <2>1. Len(left) \in Nat /\ DOMAIN left = 1..Len(left)
    OBVIOUS
  <2>2. seqs \in [1..Len(left) -> Seq(P)]
    BY <1>2, <2>1 DEF Range
  <2> QED
    BY <2>1, <2>2
<1>4. {Range(seqs[p]) : p \in DOMAIN seqs} = {Range(PairsOf(r)) : r \in Range(left)}
  <2>1. \A p \in DOMAIN left : seqs[p] = PairsOf(left[p]) /\ left[p] \in Range(left)
    BY DEF Range
  <2>2. \A r \in Range(left) : \E p \in DOMAIN left : left[p] = r
    BY DEF Range
  <2> HIDE DEF seqs
  <2> QED
    BY <1>3, <2>1, <2>2
<1> HIDE DEF seqs
<1>5. /\ FlattenSeq(seqs) \in Seq(P)
      /\ Range(FlattenSeq(seqs)) = UNION {Range(PairsOf(r)) : r \in Range(left)}
  BY <1>3, <1>4, FlattenItems
<1>6. UNION {Range(PairsOf(r)) : r \in Range(left)}
        = {pair \in Placed(left) \X Placed(right) : Touch(pair[1], pair[2])}
  BY <1>2 DEF Placed
<1> QED
  BY <1>1, <1>5, <1>6 DEF P

----------------------------------------------------------------------------
(* Prepared names *)

(* Some number of a list of numbers is the largest.                         *)
LEMMA LargestOfList ==
  ASSUME NEW data \in Seq(Nat), data # <<>>
  PROVE  /\ Max({data[i] : i \in DOMAIN data}) \in Nat \cap {data[i] : i \in DOMAIN data}
         /\ \A i \in DOMAIN data : data[i] <= Max({data[j] : j \in DOMAIN data})
<1> DEFINE n == Len(data)
           values == {data[i] : i \in DOMAIN data}
<1>1. n \in Nat /\ n >= 1 /\ n \in 1..n /\ DOMAIN data = 1..n
  OBVIOUS
<1>2. PICK p : /\ p \in [1..n -> 1..n]
               /\ \A i \in 1..n : \E j \in 1..n : p[j] = i
               /\ \A j, k \in 1..n : j <= k => data[p[j]] <= data[p[k]]
  BY SortedIsOrdered
<1> HIDE DEF n
<1>3. data[p[n]] \in values
  BY <1>1, <1>2
<1>4. ASSUME NEW x \in values PROVE data[p[n]] >= x
  <2>1. PICK i \in 1..n : x = data[i]
    BY <1>1
  <2>2. PICK j \in 1..n : p[j] = i
    BY <1>2
  <2>3. j <= n
    BY <1>1
  <2>4. data[p[j]] <= data[p[n]]
    BY <1>1, <1>2, <2>3
  <2>5. p[j] \in DOMAIN data /\ p[n] \in DOMAIN data
    BY <1>1, <1>2
  <2>6. data[p[j]] \in Nat /\ data[p[n]] \in Nat
    BY <2>5
  <2> QED
    BY <2>1, <2>2, <2>4, <2>6
<1> HIDE DEF values
<1>5. Max(values) \in values /\ \A x \in values : Max(values) >= x
  BY <1>3, <1>4 DEF Max
<1>6. values \subseteq Nat /\ \A i \in DOMAIN data : data[i] \in values
  BY <1>1 DEF values
<1>7. \A i \in DOMAIN data : data[i] <= Max(values)
  BY <1>5, <1>6
<1> QED
  BY <1>5, <1>6, <1>7 DEF values

\* What pooling makes of a text that is alone in its batch.
Pooled(text) ==
  [d \in DOMAIN Graph(Encode(text), 1) |->
     SumFunction([p \in 1..Len(Encode(text)) |-> Graph(Encode(text), p)[d]])]

(* A batch gives each of its texts what the text alone determines: padding  *)
(* is masked, and the other texts have no part in it.                       *)
LEMMA BatchGivesEachItsOwn ==
  ASSUME NEW texts \in Seq(Names \ Blank)
  PROVE  /\ DOMAIN _embed_texts(texts) = DOMAIN texts
         /\ \A i \in DOMAIN texts : _embed_texts(texts)[i] = _l2_normalize(Pooled(texts[i]))
<1> DEFINE ids == [i \in DOMAIN texts |-> Encode(texts[i])]
           lengths == [i \in DOMAIN texts |-> Len(Encode(texts[i]))]
           width == Max({Len(ids[i]) : i \in DOMAIN ids})
           Mask(i) == [p \in 1..width |-> IF p <= Len(ids[i]) THEN 1 ELSE 0]
           Output(i) == [p \in 1..width |-> IF p <= Len(ids[i]) THEN Graph(ids[i], p)
                                            ELSE Padding(width)]
           Real(i) == {p \in DOMAIN Output(i) : Mask(i)[p] = 1}
<1>1. _embed_texts(texts) =
        [i \in DOMAIN texts |-> _l2_normalize(_mean_pool(Output(i), Mask(i)))]
  BY DEF _embed_texts
<1>2. ASSUME NEW i \in DOMAIN texts
      PROVE  _mean_pool(Output(i), Mask(i)) = Pooled(texts[i])
  <2> DEFINE m == Len(Encode(texts[i]))
  <2>1. /\ lengths \in Seq(Nat) /\ lengths # <<>> /\ DOMAIN lengths = DOMAIN texts
        /\ lengths[i] = m /\ m \in Nat /\ m >= 1
    <3>1. \A k \in DOMAIN texts : Len(Encode(texts[k])) \in Nat \ {0}
      BY PreparationAssumption
    <3>2. Len(texts) \in Nat /\ DOMAIN texts = 1..Len(texts)
      OBVIOUS
    <3>3. lengths \in [1..Len(texts) -> Nat]
      BY <3>1, <3>2
    <3> QED
      BY <3>1, <3>2, <3>3
  <2>2. {Len(ids[k]) : k \in DOMAIN ids} = {lengths[k] : k \in DOMAIN lengths}
    OBVIOUS
  <2> HIDE DEF lengths
  <2>3. width \in Nat /\ m <= width
    BY <2>1, <2>2, LargestOfList
  <2>4. ids[i] = Encode(texts[i])
    OBVIOUS
  <2> HIDE DEF width, ids
  <2>5. 1 \in 1..width /\ 1..m \subseteq 1..width /\ 1 <= m
    BY <2>1, <2>3
  <2>6. Real(i) = 1..m
    BY <2>1, <2>3, <2>4
  <2>7. Output(i)[1] = Graph(Encode(texts[i]), 1)
    BY <2>4, <2>5
  <2>8. \A p \in 1..m : Output(i)[p] = Graph(Encode(texts[i]), p)
    BY <2>1, <2>4, <2>5
  <2>9. _mean_pool(Output(i), Mask(i)) = VectorSum(Output(i), Real(i))
    BY DEF _mean_pool
  <2> HIDE DEF Output, Real, m, Mask
  <2>10. VectorSum(Output(i), 1..m) =
           [d \in DOMAIN Graph(Encode(texts[i]), 1) |->
              SumFunction([p \in 1..m |-> Graph(Encode(texts[i]), p)[d]])]
    <3>1. ASSUME NEW d
          PROVE  [p \in 1..m |-> Output(i)[p][d]] = [p \in 1..m |-> Graph(Encode(texts[i]), p)[d]]
      BY <2>8
    <3> QED
      BY <2>7, <3>1 DEF VectorSum
  <2> QED
    BY <2>6, <2>9, <2>10 DEF Pooled, m
<1> HIDE DEF Output, Mask
<1> QED
  BY <1>1, <1>2

(* order has the names that are not blank, each once.                       *)
LEMMA OrderIs ==
  ASSUME NEW names \in Seq(Names)
  PROVE  /\ order(names) \in Seq(Names \ Blank) /\ IsInjective(order(names))
         /\ Range(order(names)) = Range(names) \ Blank
<1> DEFINE First == {i \in DOMAIN names : /\ names[i] \notin Blank
                                          /\ \A j \in 1..(i - 1) : names[j] # names[i]}
<1>1. order(names) = Selected(names, First)
  BY DEF order
<1>2. First \subseteq DOMAIN names /\ DOMAIN names = 1..Len(names) /\ Len(names) \in Nat
  OBVIOUS
<1>3. {names[i] : i \in First} = Range(names) \ Blank
  <2>1. ASSUME NEW name \in Range(names) \ Blank
        PROVE  \E i \in First : names[i] = name
    <3> DEFINE At == {i \in DOMAIN names : names[i] = name}
    <3>1. At \subseteq Nat /\ At # {}
      BY <1>2 DEF Range
    <3>2. PICK i \in At : \A j \in At : i <= j
      <4> HIDE DEF At
      <4> QED
        BY <3>1, SmallestNumber
    <3>3. ASSUME NEW j \in 1..(i - 1) PROVE names[j] # names[i]
      <4>1. j \in DOMAIN names /\ ~(i <= j)
        BY <1>2, <3>2
      <4> QED
        BY <3>2, <4>1
    <3> QED
      BY <3>2, <3>3
  <2>2. ASSUME NEW i \in First PROVE names[i] \in Range(names) \ Blank
    BY DEF Range
  <2> HIDE DEF First
  <2> QED
    BY <2>1, <2>2
<1>7. \A j, k \in First : j < k => names[j] # names[k]
  <2> SUFFICES ASSUME NEW j \in First, NEW k \in First, j < k PROVE names[j] # names[k]
    OBVIOUS
  <2>1. j \in 1..(k - 1)
    BY <1>2
  <2> QED
    BY <2>1
<1> HIDE DEF First
<1>4. order(names) \in Seq(Names) /\ Range(order(names)) = Range(names) \ Blank
  BY <1>1, <1>2, <1>3, SelectedItems
<1>8. IsInjective(order(names))
  BY <1>1, <1>2, <1>7, SelectedDistinct
<1>5. Range(order(names)) \subseteq Names \ Blank
  BY <1>4, RangeOfSeq
<1>6. order(names) \in Seq(Names \ Blank)
  <2> DEFINE o == order(names)
  <2>1. Len(o) \in Nat /\ DOMAIN o = 1..Len(o) /\ o = [i \in 1..Len(o) |-> o[i]]
    BY <1>4
  <2>2. \A i \in 1..Len(o) : o[i] \in Names \ Blank
    BY <1>5, <2>1 DEF Range
  <2> HIDE DEF o
  <2>3. o \in [1..Len(o) -> Names \ Blank]
    BY <2>1, <2>2
  <2>4. o \in Seq(Names \ Blank)
    BY <2>1, <2>3
  <2> QED
    BY <2>4 DEF o
<1> QED
  BY <1>4, <1>6, <1>8

(* Preparing a list of names is preparing each, with every scorer.          *)
LEMMA PreparedTogether ==
  ASSUME NEW scorer, NEW names \in Seq(Names)
  PROVE  prepare_all(scorer, names) = [i \in DOMAIN names |-> prepare(scorer, names[i])]
<1>1. CASE scorer # "embed"
  BY <1>1 DEF prepare_all
<1>2. CASE scorer = "embed"
  <2> DEFINE index(name) == CHOOSE k \in DOMAIN order(names) : order(names)[k] = name
  <2>1. ASSUME NEW i \in DOMAIN names, names[i] \notin Blank
        PROVE  _embed_texts(order(names))[index(names[i])] = prepare("embed", names[i])
    <3>1. names[i] \in Names \ Blank
      BY <2>1
    <3>2. index(names[i]) \in DOMAIN order(names) /\ order(names)[index(names[i])] = names[i]
      <4>1. names[i] \in Range(order(names))
        BY <2>1, OrderIs DEF Range
      <4> QED
        BY <4>1 DEF Range
    <3> HIDE DEF index
    <3>3. _embed_texts(order(names))[index(names[i])] = _l2_normalize(Pooled(names[i]))
      BY <3>2, OrderIs, BatchGivesEachItsOwn
    <3>4. prepare("embed", names[i]) = _embed_texts(<<names[i]>>)[1]
      BY <2>1 DEF prepare
    <3>5. _embed_texts(<<names[i]>>)[1] = _l2_normalize(Pooled(names[i]))
      <4> DEFINE alone == <<names[i]>>
      <4>1. alone \in Seq(Names \ Blank) /\ 1 \in DOMAIN alone /\ alone[1] = names[i]
        BY <3>1
      <4> HIDE DEF alone
      <4>2. _embed_texts(alone)[1] = _l2_normalize(Pooled(names[i]))
        BY <4>1, BatchGivesEachItsOwn
      <4> QED
        BY <4>2 DEF alone
    <3> QED
      BY <3>3, <3>4, <3>5
  <2>2. \A i \in DOMAIN names : names[i] \in Blank => prepare("embed", names[i]) = None
    BY DEF prepare
  <2>3. EmbedAll(names) =
          [i \in DOMAIN names |-> IF names[i] \in Blank THEN None
                                  ELSE _embed_texts(order(names))[index(names[i])]]
    BY DEF EmbedAll
  <2> HIDE DEF index
  <2>4. EmbedAll(names) = [i \in DOMAIN names |-> prepare("embed", names[i])]
    BY <2>1, <2>2, <2>3
  <2> QED
    BY <1>2, <2>4 DEF prepare_all
<1> QED
  BY <1>1, <1>2

(* What is remembered for a record is what its name alone prepares to.      *)
LEMMA PreparedByIdIs ==
  ASSUME NEW scorer, NEW records \in Seq(Record), NEW r \in Range(records)
  PROVE  PreparedById(scorer, records)[r] = prepare(scorer, r.name)
<1> DEFINE names == [p \in DOMAIN records |-> records[p].name]
           Place(record) == CHOOSE p \in DOMAIN records : records[p] = record
           prepared == prepare_all(scorer, names)
<1>1. names \in Seq(Names) /\ DOMAIN names = DOMAIN records
  <2>1. Len(records) \in Nat /\ DOMAIN records = 1..Len(records)
    OBVIOUS
  <2>2. \A p \in DOMAIN records : records[p].name \in Names
    <3>1. \A p \in DOMAIN records : records[p] \in Record
      OBVIOUS
    <3> QED
      BY <3>1 DEF Record
  <2>3. names \in [1..Len(records) -> Names]
    BY <2>1, <2>2
  <2> QED
    BY <2>1, <2>3
<1>2. Place(r) \in DOMAIN records /\ records[Place(r)] = r
  BY DEF Range
<1>3. PreparedById(scorer, records)[r] = prepared[Place(r)]
  BY DEF PreparedById
<1>4. names[Place(r)] = r.name
  BY <1>2
<1> HIDE DEF names, Place
<1>5. prepared[Place(r)] = prepare(scorer, names[Place(r)])
  BY <1>1, <1>2, PreparedTogether
<1> QED
  BY <1>3, <1>4, <1>5

\* The score of a pair, either way it comes about.
ScoreOf(scorer, pair) ==
  score(scorer, prepare(scorer, pair[1].name), prepare(scorer, pair[2].name))

(* Either path scores each pair by its two names.                           *)
LEMMA PathsAre ==
  ASSUME NEW scorer, NEW left \in Seq(Record), NEW right \in Seq(Record),
         NEW path \in {"hoisted", "naive"}
  PROVE  score_candidates(scorer, left, right, path).scores =
           [n \in DOMAIN candidate_pairs(left, right) |->
              ScoreOf(scorer, candidate_pairs(left, right)[n])]
<1> DEFINE pairs == candidate_pairs(left, right)
<1>1. pairs \in Seq(Range(left) \X Range(right))
  BY PairsAre
<1> HIDE DEF pairs
<1>2. ScoreHoisted(scorer, left, right) = [n \in DOMAIN pairs |-> ScoreOf(scorer, pairs[n])]
  <2>1. ScoreHoisted(scorer, left, right) =
          [n \in DOMAIN pairs |-> score(scorer, PreparedById(scorer, left)[pairs[n][1]],
                                                PreparedById(scorer, right)[pairs[n][2]])]
    BY DEF ScoreHoisted, pairs
  <2>2. \A n \in DOMAIN pairs :
          /\ PreparedById(scorer, left)[pairs[n][1]] = prepare(scorer, pairs[n][1].name)
          /\ PreparedById(scorer, right)[pairs[n][2]] = prepare(scorer, pairs[n][2].name)
    <3> SUFFICES ASSUME NEW n \in DOMAIN pairs
                 PROVE  /\ PreparedById(scorer, left)[pairs[n][1]] = prepare(scorer, pairs[n][1].name)
                        /\ PreparedById(scorer, right)[pairs[n][2]] = prepare(scorer, pairs[n][2].name)
      OBVIOUS
    <3>1. pairs[n] \in Range(left) \X Range(right)
      BY <1>1
    <3>2. pairs[n][1] \in Range(left) /\ pairs[n][2] \in Range(right)
      BY <3>1
    <3> QED
      BY <3>2, PreparedByIdIs
  <2> QED
    BY <2>1, <2>2 DEF ScoreOf
<1>3. ScoreNaive(scorer, left, right) = [n \in DOMAIN pairs |-> ScoreOf(scorer, pairs[n])]
  <2> DEFINE prepared == [n \in DOMAIN pairs |-> <<prepare(scorer, pairs[n][1].name),
                                                   prepare(scorer, pairs[n][2].name)>>]
  <2>1. ScoreNaive(scorer, left, right) =
          [n \in DOMAIN prepared |-> score(scorer, prepared[n][1], prepared[n][2])]
    BY DEF ScoreNaive, prepare_naive, pairs
  <2> QED
    BY <2>1 DEF ScoreOf
<1> QED
  BY <1>2, <1>3 DEF score_candidates, pairs

----------------------------------------------------------------------------
(* Scores *)

(* A part of a whole is at most all of it, in percent.                      *)
LEMMA PartInPercent ==
  ASSUME NEW c \in Nat, NEW m \in Nat, m > 0, c <= m
  PROVE  (100 * c) \div m \in 0..100
<1> DEFINE q == (100 * c) \div m
           r == (100 * c) % m
<1>1. q \in Int /\ r \in 0..(m - 1) /\ 100 * c = m * q + r
  OBVIOUS
<1> HIDE DEF q, r
<1>2. q >= 0
  <2> SUFFICES ASSUME q <= -1 PROVE FALSE
    BY <1>1
  <2>1. m * q <= m * (-1)
    BY <1>1
  <2> QED
    BY <1>1, <2>1
<1>3. q <= 100
  <2> SUFFICES ASSUME q >= 101 PROVE FALSE
    BY <1>1
  <2>1. m * q >= m * 101
    BY <1>1
  <2> QED
    BY <1>1, <2>1
<1> QED
  BY <1>1, <1>2, <1>3 DEF q

(* What two sets of tokens have in common is a share of the smaller one.    *)
LEMMA OverlapInRange ==
  ASSUME NEW a, NEW b, IsFiniteSet(a), IsFiniteSet(b)
  PROVE  OverlapScore(a, b) \in 0..100
<1>1. CASE a = {} \/ b = {}
  BY <1>1 DEF OverlapScore
<1>2. CASE a # {} /\ b # {}
  <2>1. /\ Cardinality(a) \in Nat /\ Cardinality(a) # 0
        /\ Cardinality(b) \in Nat /\ Cardinality(b) # 0
    BY <1>2, FS_CardinalityType, FS_EmptySet
  <2>2. /\ Cardinality(a \cap b) \in Nat
        /\ Cardinality(a \cap b) <= Cardinality(a) /\ Cardinality(a \cap b) <= Cardinality(b)
    <3>1. IsFiniteSet(a \cap b) /\ a \cap b \subseteq a /\ a \cap b \subseteq b
      BY FS_Subset
    <3> QED
      BY <3>1, FS_Subset, FS_CardinalityType
  <2>3. Min({Cardinality(a), Cardinality(b)})
          = IF Cardinality(a) <= Cardinality(b) THEN Cardinality(a) ELSE Cardinality(b)
    BY <2>1, MinOfTwo
  <2> DEFINE m == Min({Cardinality(a), Cardinality(b)})
  <2>4. m \in Nat /\ m > 0 /\ Cardinality(a \cap b) <= m
    BY <2>1, <2>2, <2>3
  <2> HIDE DEF m
  <2>5. (100 * Cardinality(a \cap b)) \div m \in 0..100
    BY <2>2, <2>4, PartInPercent
  <2> QED
    BY <1>2, <2>5 DEF OverlapScore, m
<1> QED
  BY <1>1, <1>2

(* Rounding takes no score of two embeddings out of its range, and what has *)
(* no direction is like nothing.                                            *)
LEMMA EmbeddingInRange ==
  ASSUME NEW m \in Names, NEW n \in Names
  PROVE  LET u == prepare("embed", m)
             v == prepare("embed", n)
         IN  /\ EmbeddingScore(u, v) \in 0..100
             /\ u = None \/ v = None \/ IsZero(u) \/ IsZero(v) => EmbeddingScore(u, v) = 0
<1> DEFINE u == prepare("embed", m)
           v == prepare("embed", n)
<1>1. CASE u = None \/ v = None
  <2> HIDE DEF u, v
  <2>1. EmbeddingScore(u, v) = 0
    BY <1>1 DEF EmbeddingScore
  <2> QED
    BY <2>1 DEF u, v
<1>2. CASE u # None /\ v # None /\ (IsZero(u) \/ IsZero(v))
  <2> HIDE DEF u, v
  <2>1. _cosine_similarity(u, v) = None
    BY <1>2 DEF _cosine_similarity
  <2>2. EmbeddingScore(u, v) = 0
    BY <1>2, <2>1 DEF EmbeddingScore
  <2> QED
    BY <2>2 DEF u, v
<1>3. CASE u # None /\ v # None /\ ~IsZero(u) /\ ~IsZero(v)
  <2> DEFINE c == Cosine(u, v)
             half == (c + 100) \div 2
  <2>1. m \notin Blank /\ n \notin Blank
    BY <1>3 DEF prepare
  <2>2. c \in Int
    BY <1>3, <2>1, CosineAssumption
  <2> HIDE DEF u, v
  <2>3. _cosine_similarity(u, v) = c
    BY <1>3 DEF _cosine_similarity
  <2> HIDE DEF c
  <2>4. EmbeddingScore(u, v) = Max({0, Min({100, half})})
    BY <1>3, <2>2, <2>3, NoneAssumption DEF EmbeddingScore
  <2>5. half \in Int
    BY <2>2
  <2> HIDE DEF half
  <2>6. Min({100, half}) = IF 100 <= half THEN 100 ELSE half
    BY <2>5, MinOfTwo
  <2>7. Min({100, half}) \in Int /\ Min({100, half}) <= 100
    BY <2>5, <2>6
  <2>8. Max({0, Min({100, half})}) = IF 0 >= Min({100, half}) THEN 0 ELSE Min({100, half})
    BY <2>7, MaxOfTwo
  <2>9. EmbeddingScore(u, v) \in 0..100
    BY <2>4, <2>7, <2>8
  <2> QED
    BY <1>3, <2>9 DEF u, v
<1> QED
  BY <1>1, <1>2, <1>3

(* Every score is a percentage, and none where a name says nothing.         *)
LEMMA ScoreInRange ==
  ASSUME NEW scorer \in Scorers, NEW m \in Names, NEW n \in Names
  PROVE  LET s == score(scorer, prepare(scorer, m), prepare(scorer, n))
         IN  /\ s \in 0..100
             /\ Uninformative(scorer, m) \/ Uninformative(scorer, n) => s = 0
<1>1. CASE scorer = "overlap"
  <2> DEFINE a == prepare("overlap", m)
             b == prepare("overlap", n)
  <2>1. a = Range(_normalise(m)) /\ b = Range(_normalise(n))
    BY DEF prepare
  <2>2. IsFiniteSet(a) /\ IsFiniteSet(b)
    BY <2>1, PreparationAssumption
  <2>3. /\ Uninformative("overlap", m) => a = {}
        /\ Uninformative("overlap", n) => b = {}
    BY <2>1 DEF Uninformative, Range
  <2>4. score("overlap", a, b) = OverlapScore(a, b)
    BY DEF score
  <2> HIDE DEF a, b
  <2>5. OverlapScore(a, b) \in 0..100 /\ (a = {} \/ b = {} => OverlapScore(a, b) = 0)
    BY <2>2, OverlapInRange DEF OverlapScore
  <2> QED
    BY <1>1, <2>3, <2>4, <2>5 DEF a, b
<1>2. CASE scorer = "fuzzy"
  <2> DEFINE a == _normalise(m)
             b == _normalise(n)
  <2>1. prepare("fuzzy", m) = a /\ prepare("fuzzy", n) = b
    BY DEF prepare
  <2>2. a # <<>> /\ b # <<>> => Alike(a, b) \in 0..100
    BY PreparationAssumption
  <2>3. score("fuzzy", a, b) = FuzzyScore(a, b)
    BY DEF score
  <2>4. /\ Uninformative("fuzzy", m) => a = <<>>
        /\ Uninformative("fuzzy", n) => b = <<>>
    BY DEF Uninformative
  <2> HIDE DEF a, b
  <2>5. FuzzyScore(a, b) \in 0..100 /\ (a = <<>> \/ b = <<>> => FuzzyScore(a, b) = 0)
    BY <2>2 DEF FuzzyScore
  <2> QED
    BY <1>2, <2>1, <2>3, <2>4, <2>5
<1>3. CASE scorer = "embed"
  <2> DEFINE u == prepare("embed", m)
             v == prepare("embed", n)
  <2>1. score("embed", u, v) = EmbeddingScore(u, v)
    BY DEF score
  <2>2. /\ Uninformative("embed", m) => u = None \/ IsZero(u)
        /\ Uninformative("embed", n) => v = None \/ IsZero(v)
    BY DEF Uninformative, prepare
  <2>3. /\ EmbeddingScore(u, v) \in 0..100
        /\ u = None \/ v = None \/ IsZero(u) \/ IsZero(v) => EmbeddingScore(u, v) = 0
    BY EmbeddingInRange
  <2> HIDE DEF u, v
  <2> QED
    BY <1>3, <2>1, <2>2, <2>3 DEF u, v
<1> QED
  BY <1>1, <1>2, <1>3 DEF Scorers

----------------------------------------------------------------------------
(* The preparation sample *)

(* The members of some of the groups are finitely many, so there is a       *)
(* number of them.                                                          *)
LEMMA GroupMembersFinite ==
  ASSUME NEW m \in Nat, m <= Len(GroupSizes)
  PROVE  IsFiniteSet(GroupMembers(1..m)) /\ Cardinality(GroupMembers(1..m)) \in Nat
<1> DEFINE Of(g) == {g} \X (1..GroupSizes[g])
           Groups == {Of(g) : g \in 1..m}
<1>1. GroupSizes \in Seq(Nat) /\ Len(GroupSizes) \in Nat
  BY PreparationAssumption
<1>2. ASSUME NEW g \in 1..m PROVE IsFiniteSet(Of(g))
  <2>1. GroupSizes[g] \in Nat
    BY <1>1
  <2>2. IsFiniteSet(1..GroupSizes[g]) /\ IsFiniteSet({g})
    <3>1. 1 \in Int /\ GroupSizes[g] \in Int
      BY <2>1
    <3> QED
      BY <3>1, FS_Interval, FS_Singleton
  <2> QED
    BY <2>2, FS_Product
<1>3. IsFiniteSet(1..m)
  BY FS_Interval
<1> HIDE DEF Of
<1>4. IsFiniteSet(Groups) /\ \A G \in Groups : IsFiniteSet(G)
  <2>1. IsFiniteSet(Groups)
    <3> DEFINE f == [g \in 1..m |-> Of(g)]
    <3>1. f \in Surjection(1..m, Groups)
      BY DEF Surjection
    <3> QED
      BY <1>3, <3>1, FS_Surjection
  <2> QED
    BY <1>2, <2>1
<1>5. IsFiniteSet(UNION Groups)
  BY <1>4, FS_UNION
<1>6. UNION Groups = GroupMembers(1..m)
  BY DEF GroupMembers, Of
<1> HIDE DEF Groups
<1> QED
  BY <1>5, <1>6, FS_CardinalityType

(* The sample has records, and every one of them a group.                   *)
LEMMA GroupIs ==
  /\ SampleSize \in Nat
  /\ SampleSize # 0
  /\ \A n \in 1..SampleSize : Group(n) \in DOMAIN GroupSizes
<1> DEFINE l == Len(GroupSizes)
           Upto(g) == Cardinality(GroupMembers(1..g))
<1>1. /\ l \in Nat /\ l # 0 /\ DOMAIN GroupSizes = 1..l
      /\ \A g \in 1..l : GroupSizes[g] \in Nat \ {0}
  BY PreparationAssumption
<1>2. SampleSize = Upto(l)
  BY <1>1 DEF SampleSize
<1>3. \A g \in 0..l : Upto(g) \in Nat
  BY <1>1, GroupMembersFinite
<1>4. Upto(0) = 0
  <2>1. GroupMembers(1..0) = {}
    BY DEF GroupMembers
  <2> QED
    BY <2>1, FS_EmptySet
<1> HIDE DEF l
<1>5. SampleSize \in Nat
  BY <1>1, <1>2, <1>3
<1>6. SampleSize # 0
  <2>1. <<1, 1>> \in GroupMembers(1..l)
    BY <1>1 DEF GroupMembers
  <2>2. IsFiniteSet(GroupMembers(1..l)) => Cardinality(GroupMembers(1..l)) # 0
    BY <2>1, FS_EmptySet
  <2> QED
    BY <1>2, <2>2, GroupMembersFinite DEF l
<1>7. ASSUME NEW n \in 1..SampleSize PROVE Group(n) \in DOMAIN GroupSizes
  <2> DEFINE Enough == {g \in 1..l : n <= Upto(g)}
  <2> HIDE DEF Upto
  <2>1. l \in Enough /\ Enough \subseteq Nat
    BY <1>1, <1>2
  <2>2. PICK g \in Enough : \A h \in Enough : g <= h
    <3> HIDE DEF Enough
    <3> QED
      BY <2>1, SmallestNumber
  <2>3. g \in 1..l /\ n <= Upto(g) /\ g - 1 \in 0..l /\ ~(g <= g - 1)
    BY <1>1, <2>2
  <2>4. Upto(g - 1) < n
    <3>1. CASE g - 1 = 0
      BY <1>4, <1>5, <3>1
    <3>2. CASE g - 1 # 0
      <4>1. g - 1 \in 1..l /\ g - 1 \notin Enough
        BY <1>1, <2>2, <2>3, <3>2
      <4>2. ~(n <= Upto(g - 1)) /\ Upto(g - 1) \in Nat
        BY <1>3, <2>3, <4>1
      <4> QED
        BY <1>5, <4>2
    <3> QED
      BY <3>1, <3>2
  <2> QED
    BY <1>1, <2>3, <2>4 DEF Group, Upto
<1> QED
  BY <1>5, <1>6, <1>7

\* The cell of the sample's n-th record, in either axis.
SampleCell(n) == SampleCoordinate(n) \div CellSize

(* Groups are too far apart for their cells to touch.                       *)
LEMMA GroupsApart ==
  ASSUME NEW m \in 1..SampleSize, NEW n \in 1..SampleSize
  PROVE  /\ SampleCoordinate(n) \in Int /\ SampleCell(n) \in Int
         /\ SampleCell(m) - SampleCell(n) \in -1..1 => SampleCell(m) = SampleCell(n)
<1>1. Group(m) \in Nat /\ Group(n) \in Nat
  <2>1. DOMAIN GroupSizes \subseteq Nat
    BY PreparationAssumption
  <2> QED
    BY <2>1, GroupIs
<1>2. CellSize \in Nat \ {0} /\ Degree \in Nat /\ Degree >= 2 * CellSize
  BY CellAssumption, PreparationAssumption
<1>3. /\ SampleCoordinate(m) = (Group(m) - 1) * Degree
      /\ SampleCoordinate(n) = (Group(n) - 1) * Degree
  BY DEF SampleCoordinate
<1>4. SampleCoordinate(m) \in Int /\ SampleCoordinate(n) \in Int
  BY <1>1, <1>2, <1>3
<1>5. SampleCell(m) \in Int /\ SampleCell(n) \in Int
  BY <1>2, <1>4 DEF SampleCell
<1>6. ASSUME NEW x \in Int, NEW y \in Int, y >= x + 2 * CellSize
      PROVE  y \div CellSize >= (x \div CellSize) + 2
  <2> DEFINE q == x \div CellSize
             r == y \div CellSize
  <2>1. q \in Int /\ r \in Int /\ CellSize * q <= x /\ y < CellSize * (r + 1)
    <3>1. /\ x = CellSize * q + (x % CellSize) /\ x % CellSize \in 0..(CellSize - 1)
          /\ y = CellSize * r + (y % CellSize) /\ y % CellSize \in 0..(CellSize - 1)
          /\ q \in Int /\ r \in Int
      BY <1>2
    <3>2. CellSize * (r + 1) = CellSize * r + CellSize
      BY <1>2, <3>1
    <3> HIDE DEF q, r
    <3> QED
      BY <1>2, <3>1, <3>2
  <2> HIDE DEF q, r
  <2>2. CellSize * (q + 2) < CellSize * (r + 1)
    <3>1. CellSize * (q + 2) = CellSize * q + 2 * CellSize
      BY <1>2, <2>1
    <3>2. CellSize * q \in Int /\ CellSize * (r + 1) \in Int
      BY <1>2, <2>1
    <3> QED
      BY <1>2, <1>6, <2>1, <3>1, <3>2
  <2>3. q + 2 < r + 1
    <3>1. ASSUME r + 1 <= q + 2 PROVE CellSize * (r + 1) <= CellSize * (q + 2)
      <4>1. CellSize * ((q + 2) - (r + 1)) >= 0
        BY <1>2, <2>1, <3>1
      <4>2. CellSize * ((q + 2) - (r + 1)) = CellSize * (q + 2) - CellSize * (r + 1)
        BY <1>2, <2>1
      <4>3. CellSize * (q + 2) \in Int /\ CellSize * (r + 1) \in Int
        BY <1>2, <2>1
      <4> QED
        BY <4>1, <4>2, <4>3
    <3>2. CellSize * (q + 2) \in Int /\ CellSize * (r + 1) \in Int
      BY <1>2, <2>1
    <3> QED
      BY <2>1, <2>2, <3>1, <3>2
  <2> QED
    BY <2>1, <2>3 DEF q, r
<1>7. ASSUME NEW i \in Nat, NEW j \in Nat, i < j
      PROVE  (j - 1) * Degree >= (i - 1) * Degree + 2 * CellSize
  <2>1. (j - 1) * Degree = (i - 1) * Degree + (j - i) * Degree
    BY <1>2
  <2>2. (j - i) * Degree >= Degree
    <3>1. (j - i) * Degree = Degree + (j - i - 1) * Degree
      BY <1>2
    <3>2. (j - i - 1) * Degree >= 0
      BY <1>2, <1>7
    <3> QED
      BY <1>2, <3>1, <3>2
  <2>3. (i - 1) * Degree \in Int /\ (j - i) * Degree \in Int
    BY <1>2
  <2> QED
    BY <1>2, <2>1, <2>2, <2>3
<1>8. ASSUME SampleCell(m) - SampleCell(n) \in -1..1 PROVE SampleCell(m) = SampleCell(n)
  <2>1. ~(Group(m) < Group(n))
    <3>1. Group(m) < Group(n) => SampleCell(n) >= SampleCell(m) + 2
      BY <1>1, <1>3, <1>4, <1>6, <1>7 DEF SampleCell
    <3> QED
      BY <1>5, <1>8, <3>1
  <2>2. ~(Group(n) < Group(m))
    <3>1. Group(n) < Group(m) => SampleCell(m) >= SampleCell(n) + 2
      BY <1>1, <1>3, <1>4, <1>6, <1>7 DEF SampleCell
    <3> QED
      BY <1>5, <1>8, <3>1
  <2>3. Group(m) = Group(n)
    BY <1>1, <2>1, <2>2
  <2> QED
    BY <1>3, <2>3 DEF SampleCell
<1> QED
  BY <1>4, <1>5, <1>8

(* What the sample's records are like, with any names.                      *)
LEMMA SampleRecordsAre ==
  ASSUME NEW names \in Seq(Names), Len(names) >= SampleSize
  PROVE  /\ SampleRecords(names) \in Seq(Record)
         /\ DOMAIN SampleRecords(names) = 1..SampleSize
         /\ \A n \in 1..SampleSize :
              /\ SampleRecords(names)[n].name = names[n]
              /\ SampleRecords(names)[n].ordinal = n - 1
              /\ _has_coordinates(SampleRecords(names)[n])
              /\ _cell(SampleRecords(names)[n]) = <<SampleCell(n), SampleCell(n)>>
<1> DEFINE records == SampleRecords(names)
           Item(n) == [source |-> "preparation-sample", ordinal |-> n - 1, name |-> names[n],
                       latitude |-> SampleCoordinate(n), longitude |-> SampleCoordinate(n),
                       fields |-> [k \in {} |-> ""]]
<1>1. records = [n \in 1..SampleSize |-> Item(n)] /\ SampleSize \in Nat
  BY GroupIs DEF SampleRecords
<1>2. ASSUME NEW n \in 1..SampleSize PROVE Item(n) \in Record
  <2>1. names[n] \in Names /\ n - 1 \in Nat /\ SampleCoordinate(n) \in Coordinate
    BY <1>1, GroupsApart DEF Coordinate
  <2>2. [k \in {} |-> ""] \in Fields
    <3>1. [k \in {} |-> ""] \in [{} -> Values] /\ {} \in SUBSET Keys
      OBVIOUS
    <3> QED
      BY <3>1 DEF Fields
  <2> QED
    BY <2>1, <2>2, PreparationAssumption DEF Record
<1>3. ASSUME NEW n \in 1..SampleSize
      PROVE  /\ records[n].name = names[n] /\ records[n].ordinal = n - 1
             /\ records[n].latitude = SampleCoordinate(n)
             /\ records[n].longitude = SampleCoordinate(n)
  BY <1>1
<1>4. records \in Seq(Record) /\ DOMAIN records = 1..SampleSize
  <2> HIDE DEF Item
  <2>1. records \in [1..SampleSize -> Record]
    BY <1>1, <1>2
  <2> HIDE DEF records
  <2> QED
    BY <1>1, <2>1
<1> HIDE DEF records
<1>5. ASSUME NEW n \in 1..SampleSize
      PROVE  /\ _has_coordinates(records[n])
             /\ _cell(records[n]) = <<SampleCell(n), SampleCell(n)>>
  <2>1. SampleCoordinate(n) # None
    BY GroupsApart, NoneAssumption
  <2> QED
    BY <1>3, <2>1 DEF _has_coordinates, _cell, SampleCell
<1> QED
  BY <1>3, <1>4, <1>5 DEF records

(* A sample record's candidates are the bucket of its own cell.             *)
LEMMA SampleCandidates ==
  ASSUME NEW left \in Seq(Names), NEW right \in Seq(Names),
         Len(left) >= SampleSize, Len(right) >= SampleSize, NEW p \in 1..SampleSize
  PROVE  LET index == _index_by_cell(SampleRecords(right))
             r == SampleRecords(left)[p]
         IN  /\ _cell(r) \in DOMAIN index
             /\ index[_cell(r)] \in Seq(Record)
             /\ _candidates_for(r, index) = index[_cell(r)]
<1> DEFINE rights == SampleRecords(right)
           index == _index_by_cell(rights)
           r == SampleRecords(left)[p]
           Bucket(cell) == IF cell \in DOMAIN index THEN index[cell] ELSE <<>>
           Cell(n) == <<_cell(r)[1] + _NEIGHBOUR_OFFSETS[n][1],
                        _cell(r)[2] + _NEIGHBOUR_OFFSETS[n][2]>>
           buckets == [n \in 1..9 |-> Bucket(Cell(n))]
<1>1. _has_coordinates(r) /\ _cell(r) = <<SampleCell(p), SampleCell(p)>>
  BY SampleRecordsAre
<1>2. /\ rights \in Seq(Record) /\ DOMAIN rights = 1..SampleSize
      /\ \A n \in 1..SampleSize : /\ _has_coordinates(rights[n])
                                  /\ _cell(rights[n]) = <<SampleCell(n), SampleCell(n)>>
  BY SampleRecordsAre
<1> HIDE DEF rights, r
<1>3. Placed(rights) = {rights[n] : n \in 1..SampleSize}
  BY <1>2 DEF Placed, Range
<1>4. /\ DOMAIN index = {_cell(s) : s \in Placed(rights)}
      /\ \A cell \in DOMAIN index : index[cell] \in Seq(Record)
  BY <1>2, IndexIs
<1> HIDE DEF index
<1>5. DOMAIN index = {<<SampleCell(n), SampleCell(n)>> : n \in 1..SampleSize}
  BY <1>2, <1>3, <1>4
<1>6. _cell(r) \in DOMAIN index
  BY <1>1, <1>5
<1>7. _candidates_for(r, index) = FlattenSeq(buckets)
  BY <1>1, OffsetsAreNine DEF _candidates_for
<1>8. ASSUME NEW n \in 1..9, Cell(n) \in DOMAIN index
      PROVE  n = 5
  <2>1. PICK m \in 1..SampleSize : Cell(n) = <<SampleCell(m), SampleCell(m)>>
    BY <1>5, <1>8
  <2>2. /\ SampleCell(m) = SampleCell(p) + _NEIGHBOUR_OFFSETS[n][1]
        /\ SampleCell(m) = SampleCell(p) + _NEIGHBOUR_OFFSETS[n][2]
    BY <1>1, <2>1
  <2>3. SampleCell(m) \in Int /\ SampleCell(p) \in Int
    BY GroupsApart
  <2>4. /\ _NEIGHBOUR_OFFSETS[n][1] \in -1..1 /\ _NEIGHBOUR_OFFSETS[n][2] \in -1..1
    BY OffsetsAreNine
  <2>5. SampleCell(m) - SampleCell(p) \in -1..1
    BY <2>2, <2>3, <2>4
  <2>6. SampleCell(m) = SampleCell(p)
    BY <2>5, GroupsApart
  <2>7. _NEIGHBOUR_OFFSETS[n][1] = 0 /\ _NEIGHBOUR_OFFSETS[n][2] = 0
    BY <2>2, <2>3, <2>4, <2>6
  <2> QED
    BY <2>7 DEF _NEIGHBOUR_OFFSETS
<1>9. Cell(5) = _cell(r)
  <2>1. _NEIGHBOUR_OFFSETS[5] = <<0, 0>>
    BY DEF _NEIGHBOUR_OFFSETS
  <2>2. SampleCell(p) \in Int
    BY GroupsApart
  <2> QED
    BY <1>1, <2>1, <2>2
<1> HIDE DEF Cell
<1>10. buckets[5] = index[_cell(r)] /\ \A n \in DOMAIN buckets : n # 5 => buckets[n] = <<>>
  BY <1>6, <1>8, <1>9
<1>11. buckets \in Seq(Seq(Record)) /\ 5 \in DOMAIN buckets
  <2>1. \A n \in 1..9 : Bucket(Cell(n)) \in Seq(Record)
    BY <1>4
  <2> HIDE DEF Bucket
  <2>2. buckets \in [1..9 -> Seq(Record)]
    BY <2>1
  <2> QED
    BY <2>2
<1> HIDE DEF buckets
<1>12. FlattenSeq(buckets) = buckets[5]
  BY <1>10, <1>11, FlattenOne
<1> QED
  BY <1>4, <1>6, <1>7, <1>10, <1>12 DEF index, rights, r

(* Each record of the sample is in as many pairs as its bucket has records.  *)
LEMMA SamplePairs ==
  ASSUME NEW left \in Seq(Names), NEW right \in Seq(Names),
         Len(left) >= SampleSize, Len(right) >= SampleSize, NEW p \in 1..SampleSize
  PROVE  LET index == _index_by_cell(SampleRecords(right))
             r == SampleRecords(left)[p]
             pairs == candidate_pairs(SampleRecords(left), SampleRecords(right))
         IN  Cardinality({n \in DOMAIN pairs : pairs[n][1] = r}) = Len(index[_cell(r)])
<1> DEFINE lefts == SampleRecords(left)
           rights == SampleRecords(right)
           index == _index_by_cell(rights)
           Of(r) == _candidates_for(r, index)
           PairsOf(r) == [n \in DOMAIN Of(r) |-> <<r, Of(r)[n]>>]
           seqs == [q \in DOMAIN lefts |-> PairsOf(lefts[q])]
           Q == {lefts[p]} \X Record
<1>1. candidate_pairs(lefts, rights) = FlattenSeq(seqs)
  BY DEF candidate_pairs
<1>2. /\ lefts \in Seq(Record) /\ DOMAIN lefts = 1..SampleSize
      /\ \A q \in 1..SampleSize : lefts[q] \in Record /\ lefts[q].ordinal = q - 1
  <2>1. /\ lefts \in Seq(Record) /\ DOMAIN lefts = 1..SampleSize
        /\ \A q \in 1..SampleSize : lefts[q].ordinal = q - 1
    BY SampleRecordsAre
  <2> HIDE DEF lefts
  <2>2. \A q \in DOMAIN lefts : lefts[q] \in Record
    BY <2>1, ItemsOfList
  <2>3. \A q \in 1..SampleSize : q \in DOMAIN lefts
    BY <2>1
  <2> QED
    BY <2>1, <2>2, <2>3
<1>3. ASSUME NEW q \in 1..SampleSize
      PROVE  /\ Of(lefts[q]) \in Seq(Record)
             /\ Of(lefts[q]) = index[_cell(lefts[q])]
  BY SampleCandidates
<1> HIDE DEF lefts, rights, index, Of
<1>4. ASSUME NEW q \in 1..SampleSize
      PROVE  /\ PairsOf(lefts[q]) \in Seq(Record \X Record)
             /\ Len(PairsOf(lefts[q])) = Len(Of(lefts[q]))
             /\ q = p => Spots(PairsOf(lefts[q]), Q) = DOMAIN PairsOf(lefts[q])
             /\ q # p => Spots(PairsOf(lefts[q]), Q) = {}
  <2> DEFINE o == Of(lefts[q])
  <2>1. Len(o) \in Nat /\ DOMAIN o = 1..Len(o) /\ \A n \in 1..Len(o) : o[n] \in Record
    BY <1>3
  <2>2. lefts[q] \in Record /\ lefts[p] \in Record
    BY <1>2
  <2>3. q # p => lefts[q] # lefts[p]
    BY <1>2, GroupIs
  <2>4. PairsOf(lefts[q]) = [n \in 1..Len(o) |-> <<lefts[q], o[n]>>]
    BY <2>1
  <2> HIDE DEF o, PairsOf
  <2>5. PairsOf(lefts[q]) \in [1..Len(o) -> Record \X Record]
    BY <2>1, <2>2, <2>4
  <2>6. PairsOf(lefts[q]) \in Seq(Record \X Record) /\ Len(PairsOf(lefts[q])) = Len(o)
    <3> DEFINE f == PairsOf(lefts[q])
    <3>1. f \in [1..Len(o) -> Record \X Record] /\ Len(o) \in Nat
      BY <2>1, <2>5
    <3> HIDE DEF f
    <3>2. f \in Seq(Record \X Record) /\ Len(f) = Len(o)
      BY <3>1
    <3> QED
      BY <3>2 DEF f
  <2>7. ASSUME q = p PROVE Spots(PairsOf(lefts[q]), Q) = DOMAIN PairsOf(lefts[q])
    BY <2>1, <2>4, <2>7 DEF Spots
  <2>8. ASSUME q # p PROVE Spots(PairsOf(lefts[q]), Q) = {}
    BY <2>3, <2>4, <2>8 DEF Spots
  <2> QED
    BY <2>6, <2>7, <2>8 DEF o
<1> HIDE DEF PairsOf
<1>5. seqs \in Seq(Seq(Record \X Record)) /\ DOMAIN seqs = 1..SampleSize
  <2>1. seqs \in [1..SampleSize -> Seq(Record \X Record)] /\ SampleSize \in Nat
    BY <1>2, <1>4, GroupIs
  <2> QED
    BY <2>1
<1>6. \A q \in 1..SampleSize : seqs[q] = PairsOf(lefts[q])
  BY <1>2
<1> HIDE DEF seqs
<1>7. Cardinality(Spots(FlattenSeq(seqs), Q)) = Len(seqs[p])
  <2> HIDE DEF Q
  <2>1. Spots(seqs[p], Q) = DOMAIN seqs[p] /\ p \in DOMAIN seqs
    BY <1>4, <1>5, <1>6
  <2>2. \A i \in DOMAIN seqs : i # p => Spots(seqs[i], Q) = {}
    BY <1>4, <1>5, <1>6
  <2> QED
    BY <1>5, <2>1, <2>2, FlattenCount
<1>8. FlattenSeq(seqs) \in Seq(Record \X Record)
  BY <1>5, FlattenItems
<1> DEFINE pairs == FlattenSeq(seqs)
<1>9. {n \in DOMAIN pairs : pairs[n][1] = lefts[p]} = Spots(pairs, Q)
  <2>1. \A n \in DOMAIN pairs : pairs[n] \in Record \X Record
    BY <1>8
  <2> HIDE DEF pairs
  <2>2. \A n \in DOMAIN pairs : pairs[n] = <<pairs[n][1], pairs[n][2]>> /\ pairs[n][2] \in Record
    BY <2>1
  <2>3. \A n \in DOMAIN pairs : pairs[n] \in Q <=> pairs[n][1] = lefts[p]
    BY <2>2
  <2> QED
    BY <2>3 DEF Spots
<1>10. Len(seqs[p]) = Len(index[_cell(lefts[p])])
  BY <1>3, <1>4, <1>6
<1> QED
  BY <1>1, <1>7, <1>9, <1>10 DEF index, lefts, rights

(* The pairs the worker times have the names of the sample's own pairs.      *)
LEMMA SampleTimed ==
  ASSUME NEW left \in Seq(Names), NEW right \in Seq(Names),
         Len(left) >= SampleSize, Len(right) >= SampleSize
  PROVE  LET pairs == candidate_pairs(SampleRecords(left), SampleRecords(right))
         IN  \A n \in DOMAIN pairs :
               TimedPairs(_build_preparation_sample(left, right))[n]
                 = <<pairs[n][1].name, pairs[n][2].name>>
<1> DEFINE lefts == SampleRecords(left)
           rights == SampleRecords(right)
           pairs == candidate_pairs(lefts, rights)
           sample == _build_preparation_sample(left, right)
           Index(records, record) == CHOOSE i \in DOMAIN records : records[i] = record
<1>1. /\ sample.left_names = SubSeq(left, 1, SampleSize)
      /\ sample.right_names = SubSeq(right, 1, SampleSize)
      /\ sample.comparison_pairs = [n \in DOMAIN pairs |-> <<Index(lefts, pairs[n][1]),
                                                             Index(rights, pairs[n][2])>>]
  BY DEF _build_preparation_sample
<1>2. ASSUME NEW names \in Seq(Names), Len(names) >= SampleSize,
             NEW r \in Range(SampleRecords(names))
      PROVE  SubSeq(names, 1, SampleSize)[Index(SampleRecords(names), r)] = r.name
  <2> DEFINE records == SampleRecords(names)
             i == Index(records, r)
  <2>1. /\ DOMAIN records = 1..SampleSize
        /\ \A n \in 1..SampleSize : records[n].name = names[n]
    BY <1>2, SampleRecordsAre
  <2> HIDE DEF records
  <2>2. \E n \in DOMAIN records : records[n] = r
    BY DEF Range, records
  <2>3. i \in DOMAIN records /\ records[i] = r
    BY <2>2
  <2> HIDE DEF i
  <2>4. i \in 1..SampleSize /\ names[i] = r.name
    BY <2>1, <2>3
  <2>5. SubSeq(names, 1, SampleSize)[i] = names[i]
    BY <1>2, <2>4, GroupIs
  <2> QED
    BY <2>4, <2>5 DEF i, records
<1>3. pairs \in Seq(Range(lefts) \X Range(rights))
  <2>1. lefts \in Seq(Record) /\ rights \in Seq(Record)
    BY SampleRecordsAre
  <2> HIDE DEF lefts, rights
  <2> QED
    BY <2>1, PairsAre
<1>4. TimedPairs(sample) =
        [n \in DOMAIN sample.comparison_pairs |->
           <<sample.left_names[sample.comparison_pairs[n][1]],
             sample.right_names[sample.comparison_pairs[n][2]]>>]
  BY DEF TimedPairs
<1> HIDE DEF sample, pairs
<1>5. ASSUME NEW n \in DOMAIN pairs
      PROVE  TimedPairs(sample)[n] = <<pairs[n][1].name, pairs[n][2].name>>
  <2> HIDE DEF Index
  <2>1. pairs[n][1] \in Range(lefts) /\ pairs[n][2] \in Range(rights)
    <3> HIDE DEF lefts, rights
    <3>1. pairs[n] \in Range(lefts) \X Range(rights)
      BY <1>3
    <3> QED
      BY <3>1
  <2>2. /\ SubSeq(left, 1, SampleSize)[Index(lefts, pairs[n][1])] = pairs[n][1].name
        /\ SubSeq(right, 1, SampleSize)[Index(rights, pairs[n][2])] = pairs[n][2].name
    BY <1>2, <2>1
  <2>3. TimedPairs(sample)[n] = <<sample.left_names[Index(lefts, pairs[n][1])],
                                  sample.right_names[Index(rights, pairs[n][2])]>>
    <3> DEFINE i == Index(lefts, pairs[n][1])
               j == Index(rights, pairs[n][2])
    <3>1. sample.comparison_pairs[n] = <<i, j>> /\ n \in DOMAIN sample.comparison_pairs
      BY <1>1
    <3> HIDE DEF i, j, lefts, rights
    <3>2. sample.comparison_pairs[n][1] = i /\ sample.comparison_pairs[n][2] = j
      BY <3>1
    <3>3. TimedPairs(sample)[n] = <<sample.left_names[sample.comparison_pairs[n][1]],
                                    sample.right_names[sample.comparison_pairs[n][2]]>>
      BY <1>4, <3>1
    <3> QED
      BY <3>2, <3>3 DEF i, j
  <2> QED
    BY <1>1, <2>2, <2>3
<1> QED
  BY <1>5 DEF sample, pairs, lefts, rights

(* What the sample says of its buckets: their sizes, and the largest of     *)
(* them.                                                                    *)
LEMMA SampleCounts ==
  ASSUME NEW left \in Seq(Names), NEW right \in Seq(Names),
         Len(left) >= SampleSize, Len(right) >= SampleSize
  PROVE  LET sample == _build_preparation_sample(left, right)
             index == _index_by_cell(SampleRecords(right))
         IN  /\ sample.counts = [cell \in DOMAIN index |-> Len(index[cell])]
             /\ \E cell \in DOMAIN index : Len(index[cell]) = sample.max_occupancy
<1> DEFINE rights == SampleRecords(right)
           index == _index_by_cell(rights)
           sample == _build_preparation_sample(left, right)
           counts == [cell \in DOMAIN index |-> Len(index[cell])]
           data == [n \in 1..SampleSize |-> counts[_cell(rights[n])]]
<1>1. bucket_occupancy(rights) = counts
  BY DEF bucket_occupancy
<1>2. sample.counts = [cell \in DOMAIN counts |-> counts[cell]] /\ sample.max_occupancy = Max(Range(counts))
  BY <1>1 DEF _build_preparation_sample
<1>3. /\ rights \in Seq(Record) /\ DOMAIN rights = 1..SampleSize
      /\ \A n \in 1..SampleSize : _has_coordinates(rights[n])
  BY SampleRecordsAre
<1> HIDE DEF rights
<1>4. /\ DOMAIN index = {_cell(s) : s \in Placed(rights)}
      /\ \A cell \in DOMAIN index : index[cell] \in Seq(Record)
  BY <1>3, IndexIs
<1>5. Placed(rights) = {rights[n] : n \in 1..SampleSize}
  BY <1>3 DEF Placed, Range
<1> HIDE DEF index
<1>6. DOMAIN counts = {_cell(rights[n]) : n \in 1..SampleSize}
  BY <1>4, <1>5
<1>7. \A cell \in DOMAIN counts : counts[cell] \in Nat
  BY <1>4
<1> HIDE DEF counts
<1>8. data \in Seq(Nat) /\ data # <<>> /\ DOMAIN data = 1..SampleSize
  <2>1. data \in [1..SampleSize -> Nat] /\ SampleSize \in Nat /\ SampleSize # 0
    BY <1>6, <1>7, GroupIs
  <2> QED
    BY <2>1
<1>9. Range(counts) = {data[i] : i \in DOMAIN data}
  <2>1. \A n \in 1..SampleSize : data[n] = counts[_cell(rights[n])]
    OBVIOUS
  <2> HIDE DEF data
  <2> QED
    <3>1. Range(counts) = {counts[cell] : cell \in {_cell(rights[n]) : n \in 1..SampleSize}}
      BY <1>6 DEF Range
    <3>2. {data[i] : i \in DOMAIN data} = {counts[_cell(rights[n])] : n \in 1..SampleSize}
      BY <1>8, <2>1
    <3> QED
      BY <3>1, <3>2
<1> HIDE DEF data
<1>10. Max(Range(counts)) \in Range(counts)
  BY <1>8, <1>9, LargestOfList
<1>11. \E cell \in DOMAIN counts : counts[cell] = sample.max_occupancy
  BY <1>2, <1>10 DEF Range
<1> QED
  BY <1>2, <1>11 DEF counts, index, rights, sample

----------------------------------------------------------------------------
(* Any call *)

\* What has been returned is the answer to the call that was made.
Answered ==
  /\ call \in Calls
  /\ result # None =>
       /\ call.op = "merge" => result = merge(call.a, call.b)
       /\ call.op = "score" =>
            result =
              [hoisted |-> score_candidates(call.scorer, call.left, call.right, "hoisted"),
               naive   |-> score_candidates(call.scorer, call.left, call.right, "naive")]
       /\ call.op = "sample" =>
            /\ Len(call.left_names) >= SampleSize
            /\ result = _build_preparation_sample(call.left_names, call.right_names)
       /\ call.op = "latency" => result = WarmLatency(call.durations)
       /\ call.op = "cost" => result = PreparationCost(call.hoisted, call.naive)
       /\ call.op = "cold start" => result = ColdStartPhases(call.worker)

(* No call is answered with another one's result.                           *)
LEMMA CallsAreAnswered == Spec => []Answered
<1>1. Init => Answered
  BY DEF Init, Answered
<1>2. Answered /\ [Next]_<<call, result>> => Answered'
  <2> SUFFICES ASSUME Answered, [Next]_<<call, result>> PROVE Answered'
    OBVIOUS
  <2>1. CASE Merge
    BY <2>1 DEF Answered, Merge, Returns
  <2>2. CASE ScoreCandidates
    BY <2>2 DEF Answered, ScoreCandidates, Returns
  <2>3. CASE BuildSample
    BY <2>3 DEF Answered, BuildSample, Returns
  <2>4. CASE MeasureLatency
    BY <2>4 DEF Answered, MeasureLatency, Returns
  <2>5. CASE MeasureCost
    BY <2>5 DEF Answered, MeasureCost, Returns
  <2>6. CASE MeasureColdStart
    BY <2>6 DEF Answered, MeasureColdStart, Returns
  <2>7. CASE UNCHANGED <<call, result>>
    BY <2>7 DEF Answered
  <2> QED
    BY <2>1, <2>2, <2>3, <2>4, <2>5, <2>6, <2>7 DEF Next
<1> QED
  BY <1>1, <1>2, PTL DEF Spec

(* merge gives the same record whichever of the two comes first.            *)
THEOREM MergeIsFair == Spec => []MergeIsSymmetric
<1>1. Answered => MergeIsSymmetric
  <2> SUFFICES ASSUME Answered, Returned("merge")
               PROVE  result = merge(call.b, call.a)
    BY DEF MergeIsSymmetric
  <2>1. call.a \in Rows /\ call.b \in Rows /\ result = merge(call.a, call.b)
    BY CallsAssumption DEF Answered, Returned
  <2> QED
    BY <2>1, MergeSymmetric
<1> QED
  BY <1>1, CallsAreAnswered, PTL

(* The merged record is as populated as either, and its place is a place of *)
(* one of the two.                                                          *)
THEOREM MergeKeeps == Spec => []MergeLosesNothing
<1>1. Answered => MergeLosesNothing
  <2> SUFFICES ASSUME Answered, Returned("merge")
               PROVE  /\ _populatedness(result) >= _populatedness(call.a)
                      /\ _populatedness(result) >= _populatedness(call.b)
                      /\ PlaceSurvives(call.a, call.b, result)
    BY DEF MergeLosesNothing
  <2>1. call.a \in Rows /\ call.b \in Rows /\ result = merge(call.a, call.b)
    BY CallsAssumption DEF Answered, Returned
  <2> QED
    BY <2>1, MergeKeepsPopulation, MergeKeepsPlace
<1> QED
  BY <1>1, CallsAreAnswered, PTL

(* What score_candidates was called with, and what it returned.             *)
LEMMA ScoresAnswered ==
  ASSUME Answered, Returned("score")
  PROVE  /\ call.left \in Seq(Record) /\ call.right \in Seq(Record) /\ call.scorer \in Scorers
         /\ result.hoisted = score_candidates(call.scorer, call.left, call.right, "hoisted")
         /\ result.naive = score_candidates(call.scorer, call.left, call.right, "naive")
<1>1. call \in Calls /\ call.op = "score" /\ result # None
  BY DEF Answered, Returned
<1>2. call.left \in Seq(Record) /\ call.right \in Seq(Record) /\ call.scorer \in Scorers
  <2>1. call.left \in Seq(Rows) /\ call.right \in Seq(Rows) /\ call.scorer \in Scorers
    BY <1>1, CallsAssumption
  <2>2. \A list \in Seq(Rows) : list \in Seq(Record)
    BY RowsAssumption
  <2> QED
    BY <2>1, <2>2
<1>3. result = [hoisted |-> score_candidates(call.scorer, call.left, call.right, "hoisted"),
                naive   |-> score_candidates(call.scorer, call.left, call.right, "naive")]
  BY <1>1 DEF Answered
<1> QED
  BY <1>2, <1>3

(* Hoisted or naive, score_candidates gives every pair of placed rows in    *)
(* touching cells the same score.                                           *)
THEOREM PathsAreOne == Spec => []PathsAgree
<1>1. Answered => PathsAgree
  <2> SUFFICES ASSUME Answered, Returned("score") PROVE PathsAgree
    BY DEF PathsAgree
  <2> DEFINE left == call.left
             right == call.right
             pairs == candidate_pairs(left, right)
             scores == [n \in DOMAIN pairs |-> ScoreOf(call.scorer, pairs[n])]
  <2>1. /\ left \in Seq(Record) /\ right \in Seq(Record)
        /\ result.hoisted = score_candidates(call.scorer, left, right, "hoisted")
        /\ result.naive = score_candidates(call.scorer, left, right, "naive")
    BY ScoresAnswered
  <2>2. result.hoisted.scores = scores /\ result.naive.scores = scores
    BY <2>1, PathsAre
  <2>3. /\ pairs \in Seq(Range(left) \X Range(right))
        /\ Range(pairs) = {pair \in Placed(left) \X Placed(right) : Touch(pair[1], pair[2])}
    BY <2>1, PairsAre
  <2> HIDE DEF pairs
  <2>4. Len(pairs) \in Nat /\ DOMAIN pairs = 1..Len(pairs)
    BY <2>3
  <2>5. Len(scores) = Len(pairs)
    BY <2>4
  <2>6. Range(pairs) = {pair \in Range(left) \X Range(right) :
                          /\ _has_coordinates(pair[1]) /\ _has_coordinates(pair[2])
                          /\ Touch(pair[1], pair[2])}
    BY <2>3 DEF Placed
  <2> HIDE DEF scores
  <2> QED
    BY <2>2, <2>5, <2>6 DEF PathsAgree, Touch, pairs
<1> QED
  BY <1>1, CallsAreAnswered, PTL

(* On either path every score is a percentage, and 0 where one of the two   *)
(* names has nothing the scorer could go by.                                *)
THEOREM NothingMatchesNothing == Spec => []NoInformationNoMatch
<1>1. Answered => NoInformationNoMatch
  <2> SUFFICES ASSUME Answered, Returned("score") PROVE NoInformationNoMatch
    BY DEF NoInformationNoMatch
  <2> DEFINE left == call.left
             right == call.right
             pairs == candidate_pairs(left, right)
  <2>1. /\ left \in Seq(Record) /\ right \in Seq(Record) /\ call.scorer \in Scorers
        /\ result.hoisted = score_candidates(call.scorer, left, right, "hoisted")
        /\ result.naive = score_candidates(call.scorer, left, right, "naive")
    BY ScoresAnswered
  <2>2. ASSUME NEW n \in DOMAIN pairs, NEW path \in {"hoisted", "naive"}
        PROVE  result[path].scores[n] = ScoreOf(call.scorer, pairs[n])
    <3>1. result[path] = score_candidates(call.scorer, left, right, path)
      BY <2>1
    <3>2. result[path].scores = [k \in DOMAIN pairs |-> ScoreOf(call.scorer, pairs[k])]
      BY <2>1, <3>1, PathsAre
    <3> QED
      BY <3>2
  <2>3. pairs \in Seq(Range(left) \X Range(right))
    BY <2>1, PairsAre
  <2>4. \A r \in Range(left) \cup Range(right) : r.name \in Names
    <3>1. \A r \in Range(left) \cup Range(right) : r \in Record
      <4>1. /\ \A i \in DOMAIN left : left[i] \in Record
            /\ \A i \in DOMAIN right : right[i] \in Record
        BY <2>1
      <4> QED
        BY <4>1 DEF Range
    <3> QED
      BY <3>1 DEF Record
  <2>5. ASSUME NEW n \in DOMAIN pairs
        PROVE  /\ ScoreOf(call.scorer, pairs[n]) \in 0..100
               /\ \A r \in Range(pairs[n]) :
                    Uninformative(call.scorer, r.name) => ScoreOf(call.scorer, pairs[n]) = 0
    <3>1. pairs[n] \in Range(left) \X Range(right)
      <4> HIDE DEF pairs
      <4> QED
        BY <2>3
    <3> HIDE DEF pairs
    <3>2. /\ pairs[n][1].name \in Names /\ pairs[n][2].name \in Names
          /\ Range(pairs[n]) = {pairs[n][1], pairs[n][2]}
      <4>1. PICK r \in Range(left), s \in Range(right) : pairs[n] = <<r, s>>
        BY <3>1
      <4>2. Range(<<r, s>>) = {r, s}
        BY DEF Range
      <4> QED
        BY <2>4, <4>1, <4>2
    <3> QED
      BY <2>1, <3>2, ScoreInRange DEF ScoreOf
  <2> HIDE DEF pairs
  <2> QED
    BY <2>2, <2>5 DEF NoInformationNoMatch, pairs
<1> QED
  BY <1>1, CallsAreAnswered, PTL

(* For groups of any sizes and any names, every name of the sample is       *)
(* prepared in as many timed comparisons as its bucket has records, and the *)
(* names the hoisted path embeds are the sample's, each once.               *)
THEOREM OccupancyIsTheCost == Spec => []OccupancyExplainsTheCost
<1>1. Answered => OccupancyExplainsTheCost
  <2> SUFFICES ASSUME Answered, Returned("sample") PROVE OccupancyExplainsTheCost
    BY DEF OccupancyExplainsTheCost
  <2> DEFINE left == call.left_names
             right == call.right_names
             lefts == SampleRecords(left)
             rights == SampleRecords(right)
             index == _index_by_cell(rights)
             pairs == candidate_pairs(lefts, rights)
             texts == order(result.left_names)
  <2>1. /\ left \in Seq(Names) /\ right \in Seq(Names)
        /\ Len(left) >= SampleSize /\ Len(right) >= SampleSize
        /\ result = _build_preparation_sample(left, right)
    <3>1. call \in Calls /\ call.op = "sample" /\ result # None
      BY DEF Answered, Returned
    <3>2. left \in Seq(Names) /\ right \in Seq(Names) /\ Len(left) = Len(right)
      BY <3>1, CallsAssumption
    <3>3. Len(left) >= SampleSize /\ result = _build_preparation_sample(left, right)
      BY <3>1 DEF Answered
    <3> QED
      BY <3>2, <3>3
  <2>2. /\ result.counts = [cell \in DOMAIN index |-> Len(index[cell])]
        /\ \E cell \in DOMAIN index : Len(index[cell]) = result.max_occupancy
    BY <2>1, SampleCounts
  <2>3. ASSUME NEW p \in DOMAIN lefts
        PROVE  Cardinality({n \in DOMAIN pairs : pairs[n][1] = lefts[p]})
                 = result.counts[_cell(lefts[p])]
    <3>1. p \in 1..SampleSize
      BY <2>1, SampleRecordsAre
    <3>2. Cardinality({n \in DOMAIN pairs : pairs[n][1] = lefts[p]}) = Len(index[_cell(lefts[p])])
      BY <2>1, <3>1, SamplePairs
    <3>3. _cell(lefts[p]) \in DOMAIN index
      BY <2>1, <3>1, SampleCandidates
    <3> HIDE DEF index, lefts, pairs
    <3> QED
      BY <2>2, <3>2, <3>3
  <2>4. \A n \in DOMAIN pairs : TimedPairs(result)[n] = <<pairs[n][1].name, pairs[n][2].name>>
    BY <2>1, SampleTimed
  <2>5. \E cell \in DOMAIN result.counts : result.counts[cell] = result.max_occupancy
    <3> HIDE DEF index
    <3> QED
      BY <2>2
  <2>6. IsInjective(texts) /\ Range(texts) = Range(result.left_names) \ Blank
    <3>1. result.left_names = SubSeq(left, 1, SampleSize)
      BY <2>1 DEF _build_preparation_sample
    <3>2. SubSeq(left, 1, SampleSize) \in Seq(Names)
      <4>1. SampleSize \in Nat /\ \A i \in 1..SampleSize : left[i] \in Names
        BY <2>1, GroupIs
      <4> QED
        BY <2>1, <4>1
    <3> QED
      BY <3>1, <3>2, OrderIs
  <2> HIDE DEF left, right, lefts, rights, index, pairs, texts
  <2> QED
    BY <2>3, <2>4, <2>5, <2>6 DEF OccupancyExplainsTheCost, left, right, lefts, rights, pairs, texts
<1> QED
  BY <1>1, CallsAreAnswered, PTL

(* Every percentile that is reported is a sample of that rank, and the path *)
(* that was never slower is never reported as the slower one.               *)
THEOREM PercentilesAreRanks == Spec => []PercentileIsARank
<1>1. Answered => PercentileIsARank
  <2> SUFFICES ASSUME Answered PROVE PercentileIsARank
    OBVIOUS
  <2>1. ASSUME Returned("latency")
        PROVE  /\ IsRank(result.p50, call.durations, 50)
               /\ IsRank(result.p99, call.durations, 99)
    <3>1. /\ call.durations \in Seq(Nat) /\ call.durations # <<>>
          /\ result = WarmLatency(call.durations)
      BY <2>1, CallsAssumption DEF Answered, Returned
    <3>2. /\ result.p50 = _percentile(call.durations, 50)
          /\ result.p99 = _percentile(call.durations, 99)
      BY <3>1 DEF WarmLatency
    <3> QED
      BY <3>1, <3>2, PercentileRank
  <2>2. ASSUME Returned("cost")
        PROVE  /\ IsRank(result.hoisted_p50, call.hoisted, 50)
               /\ IsRank(result.naive_p99, call.naive, 99)
               /\ (\A k \in DOMAIN call.hoisted, j \in DOMAIN call.naive :
                     call.hoisted[k] <= call.naive[j]) =>
                    \/ _hoist_speedup(result) = Undefined
                    \/ _hoist_speedup(result)[1] >= _hoist_speedup(result)[2]
    <3>1. /\ call.hoisted \in Seq(Nat) \ {<<>>} /\ call.naive \in Seq(Nat) \ {<<>>}
          /\ result = PreparationCost(call.hoisted, call.naive)
      BY <2>2, CallsAssumption DEF Answered, Returned
    <3>2. /\ result.hoisted_p50 = _percentile(call.hoisted, 50)
          /\ result.naive_p99 = _percentile(call.naive, 99)
      BY <3>1 DEF PreparationCost
    <3>3. /\ IsRank(result.hoisted_p50, call.hoisted, 50)
          /\ IsRank(result.naive_p99, call.naive, 99)
      BY <3>1, <3>2, PercentileRank
    <3> QED
      BY <3>1, <3>3, SpeedupIsFair
  <2> QED
    BY <2>1, <2>2 DEF PercentileIsARank
<1> QED
  BY <1>1, CallsAreAnswered, PTL

(* The phases of a cold start add up to its time while nobody sets the      *)
(* clock; none is negative, and the arm has those that are defined.         *)
THEOREM ColdStartAddsUp == Spec => []ColdStartAccountsForTime
<1>1. Answered => ColdStartAccountsForTime
  <2> SUFFICES ASSUME Answered, Returned("cold start")
               PROVE  ColdStartAccountsForTime
    BY DEF ColdStartAccountsForTime
  <2>1. call.worker \in Timeline(Nat, Int) /\ result = ColdStartPhases(call.worker)
    BY CallsAssumption DEF Answered, Returned
  <2> QED
    BY <2>1, TimeIsAccountedFor DEF ColdStartAccountsForTime
<1> QED
  BY <1>1, CallsAreAnswered, PTL
=============================================================================
