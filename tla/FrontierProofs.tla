--------------------------- MODULE FrontierProofs ---------------------------
(***************************************************************************)
(* Theorems about Frontier, for any number of arms and families, any       *)
(* figures and any constraints.  Domination is a strict order, and every   *)
(* step up it gives a smaller sum of costs: of the candidates that beat a  *)
(* given one, one with the smallest sum is beaten by none.                 *)
(***************************************************************************)
EXTENDS Frontier, WellFoundedInduction, TLAPS

(* Every non-empty set of natural numbers has a smallest.                   *)
LEMMA SmallestNumber ==
  ASSUME NEW S, S \subseteq Nat, S # {}
  PROVE  \E m \in S : \A n \in S : m <= n
<1> DEFINE less == OpToRel(<, Nat)
<1>1. IsWellFoundedOn(less, Nat)
  BY NatLessThanWellFounded
<1>2. \A m, n \in Nat : m < n => <<m, n>> \in less
  BY DEF OpToRel
<1> HIDE DEF less
<1>3. PICK m \in S : \A n \in S : <<n, m>> \notin less
  BY <1>1, WFMin
<1>4. ASSUME NEW n \in S PROVE m <= n
  <2>1. m \in Nat /\ n \in Nat
    OBVIOUS
  <2>2. ~(n < m)
    BY <1>2, <1>3, <2>1
  <2> QED
    BY <2>1, <2>2
<1> QED
  BY <1>4

----------------------------------------------------------------------------
(* Domination *)

FrontierPoint == [f1 : Optional(0..Scale), false_positives : Nat,
                  peak_rss_bytes : Nat, warm_p50_seconds : Nat]

\* Points domination may compare: with an F1 each, where F1 is an axis.
Comparable(p, q, compare_f1) ==
  compare_f1 => p.f1 # None /\ q.f1 # None

(* Nothing dominates itself, nor anything equal to it on every axis.        *)
LEMMA DominationIsStrict ==
  ASSUME NEW p \in FrontierPoint, NEW q \in FrontierPoint,
         NEW compare_f1 \in BOOLEAN, Comparable(p, q, compare_f1),
         _dominates(p, q, compare_f1)
  PROVE  ~_dominates(q, p, compare_f1)
<1>1. /\ p.peak_rss_bytes \in Nat /\ q.peak_rss_bytes \in Nat
      /\ p.warm_p50_seconds \in Nat /\ q.warm_p50_seconds \in Nat
      /\ p.false_positives \in Nat /\ q.false_positives \in Nat
      /\ compare_f1 => p.f1 \in Nat /\ q.f1 \in Nat
  BY ArmsAssumption DEF FrontierPoint, Optional, Comparable
<1> QED
  BY <1>1 DEF _dominates

(* Domination composes when one rule, F1 or no F1, holds for all pairs:     *)
(* what deciding it pair by pair would lose.                                *)
LEMMA DominationIsTransitive ==
  ASSUME NEW p \in FrontierPoint, NEW q \in FrontierPoint, NEW r \in FrontierPoint,
         NEW compare_f1 \in BOOLEAN,
         Comparable(p, q, compare_f1), Comparable(q, r, compare_f1),
         _dominates(p, q, compare_f1), _dominates(q, r, compare_f1)
  PROVE  _dominates(p, r, compare_f1)
<1>1. /\ p.peak_rss_bytes \in Nat /\ q.peak_rss_bytes \in Nat /\ r.peak_rss_bytes \in Nat
      /\ p.warm_p50_seconds \in Nat /\ q.warm_p50_seconds \in Nat
      /\ r.warm_p50_seconds \in Nat
      /\ p.false_positives \in Nat /\ q.false_positives \in Nat
      /\ r.false_positives \in Nat
      /\ compare_f1 => p.f1 \in Nat /\ q.f1 \in Nat /\ r.f1 \in Nat
  BY ArmsAssumption DEF FrontierPoint, Optional, Comparable
<1> QED
  BY <1>1 DEF _dominates

----------------------------------------------------------------------------
(* The invariant *)

\* A candidate has no fault, and a loop that is over has left no arm out.
Progress ==
  /\ \A a \in candidates : _evaluate_candidate(a) = None
  /\ pc \in Ordered => Unevaluated = {}
  /\ pc = "done" => Uncompared = {}
  /\ candidates \cap DOMAIN excluded = {}
  /\ frontier \cap DOMAIN dominated = {}

FrontierInv == TypeOK /\ Progress

(* An arm without a fault has every figure.                                 *)
LEMMA QualifiedIsMeasured ==
  ASSUME NEW a \in Arms, results \in [Arms -> ArmResult], family \in Families,
         _evaluate_candidate(a) = None
  PROVE  /\ results[a].accuracy = "ok" /\ results[a].per_family[family] # None
         /\ results[a].peak_memory \in Nat /\ results[a].warm_latency \in Nat
         /\ FaultOfPoint(Point(a)) = None
BY NoneAssumption DEF _evaluate_candidate, ArmResult, Optional, Reasons

(* A reason other than None is one of the nine.                             *)
LEMMA FaultIsAReason ==
  ASSUME NEW a, _evaluate_candidate(a) # None
  PROVE  _evaluate_candidate(a) \in Reasons
BY DEF _evaluate_candidate, FaultOfPoint, Reasons

(* The invariant holds before the first candidate.                          *)
LEMMA InitFrontier == Init => FrontierInv
<1> SUFFICES ASSUME Init PROVE FrontierInv
  OBVIOUS
<1>1. family \in Families
  BY DEF Init, _family_order
<1>2. TypeOK
  BY <1>1, InputsAssumption DEF Init, TypeOK
<1>3. Progress
  BY DEF Init, Progress, Ordered
<1> QED
  BY <1>2, <1>3 DEF FrontierInv

(* Every step keeps it.                                                     *)
LEMMA NextFrontier == FrontierInv /\ [Next]_vars => FrontierInv'
<1> SUFFICES ASSUME FrontierInv, [Next]_vars PROVE FrontierInv'
  OBVIOUS
<1>1. TypeOK /\ Progress
  BY DEF FrontierInv
<1>2. /\ results' = results /\ constraints' = constraints /\ family' = family
      /\ \A a : _evaluate_candidate(a)' = _evaluate_candidate(a)
  <2>1. results' = results /\ constraints' = constraints /\ family' = family
    BY DEF Next, vars, inputs, Qualify, Exclude, StartComparing, Keep, Drop,
           Finish, Finished
  <2> QED
    BY <2>1 DEF _evaluate_candidate, FaultOfPoint, Point, Exceeds
<1>3. ASSUME NEW arm \in Arms, Qualify(arm) PROVE FrontierInv'
  <2>1. /\ pc = "evaluate" /\ arm \in Unevaluated /\ _evaluate_candidate(arm) = None
        /\ candidates' = candidates \cup {arm}
        /\ UNCHANGED <<pc, excluded, frontier, dominated>>
    BY <1>3 DEF Qualify, IsNext
  <2>2. TypeOK'
    BY <1>1, <1>2, <2>1, QualifiedIsMeasured DEF TypeOK
  <2>3. Progress'
    BY <1>1, <1>2, <2>1 DEF Progress, Ordered, Unevaluated
  <2> QED
    BY <2>2, <2>3 DEF FrontierInv
<1>4. ASSUME NEW arm \in Arms, Exclude(arm) PROVE FrontierInv'
  <2>1. /\ pc = "evaluate" /\ arm \in Unevaluated
        /\ _evaluate_candidate(arm) \in Reasons
        /\ excluded' = With(excluded, arm, _evaluate_candidate(arm))
        /\ UNCHANGED <<pc, candidates, frontier, dominated>>
    BY <1>4, FaultIsAReason DEF Exclude, IsNext
  <2>2. /\ DOMAIN excluded' = DOMAIN excluded \cup {arm}
        /\ excluded' \in [DOMAIN excluded' -> Reasons]
    BY <1>1, <2>1 DEF With, TypeOK
  <2>3. TypeOK'
    BY <1>1, <1>2, <2>1, <2>2 DEF TypeOK
  <2>4. Progress'
    BY <1>1, <1>2, <2>1, <2>2 DEF Progress, Ordered, Unevaluated
  <2> QED
    BY <2>3, <2>4 DEF FrontierInv
<1>5. ASSUME NEW arm \in Arms, Keep(arm) PROVE FrontierInv'
  <2>1. /\ pc = "compare" /\ arm \in Uncompared
        /\ frontier' = frontier \cup {arm}
        /\ UNCHANGED <<pc, candidates, excluded, dominated>>
    BY <1>5 DEF Keep, IsNext
  <2>2. TypeOK'
    BY <1>1, <1>2, <2>1 DEF TypeOK, Uncompared
  <2>3. Progress'
    BY <1>1, <1>2, <2>1 DEF Progress, Ordered, Unevaluated, Uncompared
  <2> QED
    BY <2>2, <2>3 DEF FrontierInv
<1>6. ASSUME NEW arm \in Arms, Drop(arm) PROVE FrontierInv'
  <2>1. PICK other \in candidates : dominated' = With(dominated, arm, other)
    BY <1>6 DEF Drop
  <2>2. /\ pc = "compare" /\ arm \in Uncompared
        /\ UNCHANGED <<pc, candidates, excluded, frontier>>
    BY <1>6 DEF Drop, IsNext
  <2>3. /\ DOMAIN dominated' = DOMAIN dominated \cup {arm}
        /\ dominated' \in [DOMAIN dominated' -> candidates]
    BY <1>1, <2>1 DEF With, TypeOK
  <2>4. TypeOK'
    BY <1>1, <1>2, <2>2, <2>3 DEF TypeOK, Uncompared
  <2>5. Progress'
    BY <1>1, <1>2, <2>2, <2>3 DEF Progress, Ordered, Unevaluated, Uncompared
  <2> QED
    BY <2>4, <2>5 DEF FrontierInv
<1>7. CASE StartComparing
  <2>1. /\ pc' = "compare" /\ Unevaluated = {}
        /\ UNCHANGED <<candidates, excluded, frontier, dominated>>
    BY <1>7 DEF StartComparing
  <2> QED
    BY <1>1, <1>2, <2>1 DEF FrontierInv, TypeOK, Progress, Unevaluated
<1>8. CASE Finish
  <2>1. /\ pc = "compare" /\ pc' = "done" /\ Uncompared = {}
        /\ UNCHANGED <<candidates, excluded, frontier, dominated>>
    BY <1>8 DEF Finish
  <2> QED
    BY <1>1, <1>2, <2>1
       DEF FrontierInv, TypeOK, Progress, Ordered, Unevaluated, Uncompared
<1>9. CASE UNCHANGED vars
  <2>1. UNCHANGED <<pc, candidates, excluded, frontier, dominated>>
    BY <1>9 DEF vars
  <2> QED
    BY <1>1, <1>2, <2>1 DEF FrontierInv, TypeOK, Progress, Unevaluated, Uncompared
<1> QED
  BY <1>3, <1>4, <1>5, <1>6, <1>7, <1>8, <1>9 DEF Next, Finished

(* It always holds.                                                         *)
LEMMA FrontierInvariant == Spec => []FrontierInv
BY InitFrontier, NextFrontier, PTL DEF Spec

----------------------------------------------------------------------------
(* The theorems *)

(* Types hold, and every candidate has the figures that are compared.       *)
THEOREM TypeCorrect == Spec => []TypeOK
<1>1. FrontierInv => TypeOK
  BY DEF FrontierInv
<1> QED
  BY FrontierInvariant, <1>1, PTL

(* Each arm of the record ends with one verdict: on the frontier, dominated *)
(* or excluded, and never two of them.                                      *)
THEOREM OneVerdict == Spec => []EveryArmHasOneVerdict
<1>1. FrontierInv => EveryArmHasOneVerdict
  BY DEF FrontierInv, TypeOK, Progress, EveryArmHasOneVerdict, Ordered,
         Unevaluated, Uncompared
<1> QED
  BY FrontierInvariant, <1>1, PTL

(* Whatever is on the frontier was measured and meets every stated          *)
(* constraint; an undefined F1 meets no floor.                              *)
THEOREM ConstraintsMet == Spec => []FrontierSatisfiesConstraints
<1>1. FrontierInv => FrontierSatisfiesConstraints
  <2> SUFFICES ASSUME FrontierInv, NEW a \in frontier
               PROVE  /\ constraints.min_f1 # None =>
                           Point(a).f1 # None /\ Point(a).f1 >= constraints.min_f1
                      /\ constraints.max_false_positives # None =>
                           Point(a).false_positives <= constraints.max_false_positives
                      /\ constraints.max_peak_rss_bytes # None =>
                           Point(a).peak_rss_bytes <= constraints.max_peak_rss_bytes
                      /\ constraints.max_warm_p50_seconds # None =>
                           Point(a).warm_p50_seconds <= constraints.max_warm_p50_seconds
    BY DEF FrontierSatisfiesConstraints
  <2> DEFINE p == Point(a)
  <2>1. /\ a \in Arms /\ a \in candidates /\ constraints \in Constraints
        /\ results \in [Arms -> ArmResult] /\ family \in Families
        /\ _evaluate_candidate(a) = None
    BY DEF FrontierInv, TypeOK, Progress
  <2>2. /\ results[a].per_family[family] # None
        /\ results[a].peak_memory \in Nat /\ results[a].warm_latency \in Nat
        /\ FaultOfPoint(p) = None
    BY <2>1, QualifiedIsMeasured
  <2>3. results[a].per_family[family] \in FamilyRow
    BY <2>1, <2>2 DEF ArmResult, Optional
  <2>4. /\ p.f1 \in Optional(0..Scale) /\ p.false_positives \in Nat
        /\ p.peak_rss_bytes \in Nat /\ p.warm_p50_seconds \in Nat
    BY <2>2, <2>3 DEF Point, FamilyRow
  <2>5. /\ constraints.min_f1 \in Optional(0..Scale)
        /\ constraints.max_false_positives \in Optional(Nat)
        /\ constraints.max_peak_rss_bytes \in Optional(Nat)
        /\ constraints.max_warm_p50_seconds \in Optional(Nat)
    BY <2>1 DEF Constraints
  <2> HIDE DEF p
  <2>6. /\ constraints.min_f1 # None => p.f1 # None /\ ~(p.f1 < constraints.min_f1)
        /\ ~Exceeds(p.peak_rss_bytes, constraints.max_peak_rss_bytes)
        /\ ~Exceeds(p.warm_p50_seconds, constraints.max_warm_p50_seconds)
        /\ ~Exceeds(p.false_positives, constraints.max_false_positives)
    BY <2>2, NoneAssumption DEF FaultOfPoint, Reasons
  <2>7. /\ constraints.min_f1 # None => p.f1 # None /\ p.f1 >= constraints.min_f1
        /\ constraints.max_false_positives # None =>
             p.false_positives <= constraints.max_false_positives
        /\ constraints.max_peak_rss_bytes # None =>
             p.peak_rss_bytes <= constraints.max_peak_rss_bytes
        /\ constraints.max_warm_p50_seconds # None =>
             p.warm_p50_seconds <= constraints.max_warm_p50_seconds
    BY <2>4, <2>5, <2>6, ArmsAssumption DEF Optional, Exceeds
  <2> QED
    BY <2>7 DEF p
<1> QED
  BY FrontierInvariant, <1>1, PTL

----------------------------------------------------------------------------
(* The frontier covers the candidates *)

\* A verdict of the second loop holds against all candidates, and the first
\* loop gives none.
Verdicts ==
  /\ pc = "evaluate" => frontier = {} /\ DOMAIN dominated = {}
  /\ \A a \in frontier : \A b \in candidates : ~Beats(b, a)
  /\ \A a \in DOMAIN dominated : Beats(dominated[a], a)

\* What domination makes smaller; the F1 counts where it is compared.
Cost(p, compare_f1) ==
  p.peak_rss_bytes + p.warm_p50_seconds + p.false_positives
    + (IF compare_f1 THEN Scale - p.f1 ELSE 0)

F1Compared == \A a \in candidates : Point(a).f1 # None

(* The point of a candidate is one that domination may compare.             *)
LEMMA CandidatesHavePoints ==
  ASSUME TypeOK, NEW a \in candidates
  PROVE  Point(a) \in FrontierPoint
<1>1. a \in Arms /\ results[a] \in ArmResult /\ family \in Families
  BY DEF TypeOK
<1>2. results[a].per_family[family] \in FamilyRow
  BY <1>1 DEF TypeOK, ArmResult, Optional
<1>3. results[a].peak_memory \in Nat /\ results[a].warm_latency \in Nat
  BY DEF TypeOK
<1> QED
  BY <1>2, <1>3 DEF Point, FrontierPoint, FamilyRow

(* A point's cost is a natural number, and domination makes it smaller.     *)
LEMMA DominationCostsLess ==
  ASSUME NEW p \in FrontierPoint, NEW q \in FrontierPoint,
         NEW compare_f1 \in BOOLEAN, Comparable(p, q, compare_f1)
  PROVE  /\ Cost(p, compare_f1) \in Nat
         /\ _dominates(p, q, compare_f1) => Cost(p, compare_f1) < Cost(q, compare_f1)
<1>1. /\ p.peak_rss_bytes \in Nat /\ q.peak_rss_bytes \in Nat
      /\ p.warm_p50_seconds \in Nat /\ q.warm_p50_seconds \in Nat
      /\ p.false_positives \in Nat /\ q.false_positives \in Nat
      /\ compare_f1 => p.f1 \in 0..Scale /\ q.f1 \in 0..Scale
  BY DEF FrontierPoint, Optional, Comparable
<1> QED
  BY <1>1, ArmsAssumption DEF _dominates, Cost

(* What the code compares with is dominance.                                *)
LEMMA BeatingIsDominating ==
  ASSUME NEW a, NEW b
  PROVE  Beats(a, b) <=> _dominates(Point(a), Point(b), F1Compared)
BY DEF Beats, F1Compared

(* Every step keeps the verdicts given.                                     *)
LEMMA NextVerdicts == FrontierInv /\ Verdicts /\ [Next]_vars => Verdicts'
<1> SUFFICES ASSUME FrontierInv, Verdicts, [Next]_vars PROVE Verdicts'
  OBVIOUS
<1>1. TypeOK /\ Progress
  BY DEF FrontierInv
<1>2. ASSUME candidates' = candidates
      PROVE  \A a, b : Beats(a, b)' <=> Beats(a, b)
  <2>1. results' = results /\ family' = family
    BY DEF Next, vars, inputs, Qualify, Exclude, StartComparing, Keep, Drop,
           Finish, Finished
  <2> QED
    BY <1>2, <2>1 DEF Beats, _dominates, Point
<1>3. ASSUME NEW arm \in Arms, Qualify(arm) \/ Exclude(arm) PROVE Verdicts'
  BY <1>3 DEF Verdicts, Qualify, Exclude
<1>4. ASSUME NEW arm \in Arms, Keep(arm) PROVE Verdicts'
  <2>1. /\ pc = "compare" /\ arm \in candidates
        /\ \A other \in candidates \ {arm} : ~Beats(other, arm)
        /\ frontier' = frontier \cup {arm}
        /\ UNCHANGED <<pc, candidates, dominated>>
    BY <1>4 DEF Keep, IsNext, Uncompared
  <2>2. ~Beats(arm, arm)
    <3> SUFFICES ASSUME Beats(arm, arm) PROVE FALSE
      OBVIOUS
    <3>1. Point(arm) \in FrontierPoint
      BY <1>1, <2>1, CandidatesHavePoints
    <3>2. Comparable(Point(arm), Point(arm), F1Compared)
      BY <2>1 DEF Comparable, F1Compared
    <3>3. F1Compared \in BOOLEAN
      BY DEF F1Compared
    <3> QED
      BY <3>1, <3>2, <3>3, BeatingIsDominating, DominationIsStrict
  <2> QED
    BY <1>2, <2>1, <2>2 DEF Verdicts
<1>5. ASSUME NEW arm \in Arms, Drop(arm) PROVE Verdicts'
  <2>1. PICK other \in candidates :
          Beats(other, arm) /\ dominated' = With(dominated, arm, other)
    BY <1>5 DEF Drop, IsNext
  <2>2. pc = "compare" /\ UNCHANGED <<pc, candidates, frontier>>
    BY <1>5 DEF Drop
  <2>3. /\ DOMAIN dominated' = DOMAIN dominated \cup {arm}
        /\ \A a \in DOMAIN dominated' :
             dominated'[a] = IF a = arm THEN other ELSE dominated[a]
    BY <2>1 DEF With
  <2> QED
    BY <1>2, <2>1, <2>2, <2>3 DEF Verdicts
<1>6. CASE StartComparing \/ Finish
  BY <1>2, <1>6 DEF Verdicts, StartComparing, Finish
<1>7. CASE UNCHANGED vars
  <2>1. UNCHANGED <<pc, candidates, frontier, dominated>>
    BY <1>7 DEF vars
  <2> QED
    BY <1>2, <2>1 DEF Verdicts
<1> QED
  BY <1>3, <1>4, <1>5, <1>6, <1>7 DEF Next, Finished

(* Of the candidates that beat a given one, some are beaten by nobody.      *)
LEMMA SomebodyUnbeatenBeats ==
  ASSUME TypeOK, NEW a \in candidates, NEW c \in candidates, Beats(c, a)
  PROVE  \E b \in candidates : Beats(b, a) /\ \A d \in candidates : ~Beats(d, b)
<1> DEFINE compare_f1 == F1Compared
           beaters == {b \in candidates : Beats(b, a)}
           costs == {Cost(Point(b), compare_f1) : b \in beaters}
<1>1. /\ compare_f1 \in BOOLEAN
      /\ \A b, d \in candidates : Comparable(Point(b), Point(d), compare_f1)
      /\ \A b \in candidates : Point(b) \in FrontierPoint
  BY CandidatesHavePoints DEF Comparable, F1Compared
<1>2. \A b, d : Beats(b, d) <=> _dominates(Point(b), Point(d), compare_f1)
  BY BeatingIsDominating
<1> HIDE DEF compare_f1
<1>3. \A b \in candidates : Cost(Point(b), compare_f1) \in Nat
  BY <1>1, DominationCostsLess
<1>4. PICK least \in costs : \A n \in costs : least <= n
  <2>1. costs \subseteq Nat /\ costs # {}
    BY <1>3
  <2> HIDE DEF costs
  <2> QED
    BY <2>1, SmallestNumber
<1>5. PICK b \in beaters : least = Cost(Point(b), compare_f1)
  BY <1>4
<1>6. ASSUME NEW d \in candidates, Beats(d, b) PROVE FALSE
  <2>1. Beats(d, a)
    <3>1. /\ _dominates(Point(d), Point(b), compare_f1)
          /\ _dominates(Point(b), Point(a), compare_f1)
      BY <1>2, <1>5, <1>6
    <3>2. _dominates(Point(d), Point(a), compare_f1)
      BY <1>1, <1>5, <3>1, DominationIsTransitive
    <3> QED
      BY <1>2, <3>2
  <2>2. Cost(Point(d), compare_f1) \in costs
    BY <2>1
  <2>3. Cost(Point(d), compare_f1) < Cost(Point(b), compare_f1)
    <3>1. _dominates(Point(d), Point(b), compare_f1)
      BY <1>2, <1>6
    <3> QED
      BY <1>1, <1>5, <3>1, DominationCostsLess
  <2>4. Cost(Point(b), compare_f1) <= Cost(Point(d), compare_f1)
    BY <1>4, <1>5, <2>2
  <2> QED
    BY <1>3, <1>5, <2>3, <2>4
<1> QED
  BY <1>5, <1>6

(* Every candidate that was dropped is beaten by one that was kept, and no  *)
(* two that were kept beat each other: however many arms there are, a       *)
(* family with a candidate has a frontier that stands for all of them.      *)
THEOREM CandidatesCovered == Spec => []FrontierCoversCandidates
<1>1. Init => Verdicts
  BY DEF Init, Verdicts
<1>2. FrontierInv /\ Verdicts => FrontierCoversCandidates
  <2> SUFFICES ASSUME FrontierInv, Verdicts, pc = "done"
               PROVE  /\ \A a \in candidates \ frontier : \E b \in frontier : Beats(b, a)
                      /\ \A a, b \in frontier : ~Beats(a, b)
    BY DEF FrontierCoversCandidates
  <2>1. TypeOK /\ frontier \subseteq candidates /\ Uncompared = {}
    BY DEF FrontierInv, TypeOK, Progress
  <2>2. ASSUME NEW a \in candidates \ frontier
        PROVE  \E b \in frontier : Beats(b, a)
    <3>1. /\ a \in DOMAIN dominated /\ Beats(dominated[a], a)
          /\ dominated[a] \in candidates
      BY <2>1 DEF Uncompared, Verdicts, TypeOK
    <3>2. PICK b \in candidates :
            Beats(b, a) /\ \A d \in candidates : ~Beats(d, b)
      BY <2>1, <3>1, SomebodyUnbeatenBeats
    <3>3. b \notin DOMAIN dominated
      BY <2>1, <3>2 DEF Verdicts, TypeOK
    <3> QED
      BY <2>1, <3>2, <3>3 DEF Uncompared
  <2>3. \A a, b \in frontier : ~Beats(a, b)
    BY <2>1 DEF Verdicts
  <2> QED
    BY <2>2, <2>3
<1> QED
  BY <1>1, <1>2, FrontierInvariant, NextVerdicts, PTL DEF Spec
============================================================================
