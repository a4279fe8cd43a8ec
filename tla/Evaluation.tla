----------------------------- MODULE Evaluation -----------------------------
(***************************************************************************)
(* How a benchmark comes to its accuracy figures: a labelled corpus per    *)
(* seed, split into roles family by family (src/joinless/corpus.py), the   *)
(* corpora pooled (src/joinless/cli.py _pool_corpora); for each arm a      *)
(* threshold from the calibration pairs and the sealed test under it,      *)
(* pooled and seed by seed; then the arms compared with each other         *)
(* (src/joinless/evaluation.py).                                           *)
(*                                                                         *)
(* A pair is its id: seed, family and index; what its names are shows in   *)
(* its score only.  A metric is None where the code's Metric has a reason, *)
(* and otherwise the exact fraction that the code's float stands for; only *)
(* the sweep for a threshold can tell equal ones apart.                    *)
(***************************************************************************)
EXTENDS Integers, Sequences, FiniteSets, FiniteSetsExt, SequencesExt

CONSTANTS
  FAMILIES, _NEGATIVE_FAMILIES,
  SEEDS,             \* in the order their corpora are generated
  Sizes,             \* how many pairs each family may have
  _ARMS,
  Installations,     \* the sets of arms whose scorer may be there to be had
  Score(_, _),       \* of an arm for a pair
  _EXPECTED_WINNERS, \* family -> arm
  Baseline, Candidate,   \* the arms a divergence is reported between
  None

Arms == {_ARMS[n] : n \in 1..Len(_ARMS)}

Seeds == {SEEDS[n] : n \in 1..Len(SEEDS)}

ASSUME FamiliesAssumption ==
  /\ IsFiniteSet(FAMILIES)
  /\ _NEGATIVE_FAMILIES \subseteq FAMILIES
  /\ Sizes \subseteq [FAMILIES -> Nat]
  /\ DOMAIN _EXPECTED_WINNERS \subseteq FAMILIES
  /\ Installations \subseteq SUBSET Arms

ASSUME OrderAssumption ==
  /\ SEEDS \in Seq(Seeds) /\ SEEDS # <<>> /\ IsInjective(SEEDS)
  /\ _ARMS \in Seq(Arms) /\ _ARMS # <<>> /\ IsInjective(_ARMS)

ASSUME ScoresAssumption ==
  \A a \in Arms, seed \in Seeds, family \in FAMILIES, sizes \in Sizes :
    \A n \in 0..(sizes[family] - 1) : Score(a, <<seed, family, n>>) \in Int

\* No metric, no spread and no divergence is None when there is one.
ASSUME NoneAssumption ==
  /\ None \notin Int \X Int
  /\ \A S \in SUBSET Seeds : None \notin [S -> Int \X Int]

ROLES == {"development", "calibration", "sealed test"}

VARIABLES
  size,           \* family -> how many pairs its generator makes
  available,      \* arms whose scorer can be had
  pc,
  corpora,        \* seed -> pair -> role
  arm,            \* position in _ARMS
  selected,       \* arm -> its threshold
  accuracy,       \* arm -> its sealed-test accuracy
  contradictions, divergence

vars == <<size, available, pc, corpora, arm, selected, accuracy,
          contradictions, divergence>>

----------------------------------------------------------------------------
(* The corpus *)

FamilyOf(pair) == pair[2]

Ids(seed, family) == {<<seed, family, n>> : n \in 0..(size[family] - 1)}

Pairs(seed) == UNION {Ids(seed, family) : family \in FAMILIES}

Label(pair) == IF FamilyOf(pair) \in _NEGATIVE_FAMILIES THEN 0 ELSE 1

\* -(-n // 2)
DevelopmentSize(n) == -((-n) \div 2)

\* Mutant: the odd pair of the remainder goes to calibration.
CalibrationSize_ceiling(n) == -((DevelopmentSize(n) - n) \div 2)

CalibrationSize(n) == (n - DevelopmentSize(n)) \div 2

With(roles, role, family) ==
  {p \in DOMAIN roles : FamilyOf(p) = family /\ roles[p] = role}

\* What the shuffles may lead to.
_split_into_roles(seed) ==
  {roles \in [Pairs(seed) -> ROLES] :
     \A family \in FAMILIES :
       LET n == size[family]
       IN  /\ Cardinality(With(roles, "development", family)) = DevelopmentSize(n)
           /\ Cardinality(With(roles, "calibration", family)) = CalibrationSize(n)}

\* Mutant: the corpora are updated into one another by index, the first winning.
_pool_corpora_first == corpora[SEEDS[1]]

\* Ids carry their seed, so no corpus hides another's pair.
_pool_corpora ==
  [p \in UNION {DOMAIN corpora[seed] : seed \in DOMAIN corpora} |-> corpora[p[1]][p]]

_pairs_for_role(corpus, role) == {p \in DOMAIN corpus : corpus[p] = role}

----------------------------------------------------------------------------
(* Metrics *)

_ratio(numerator, denominator) ==
  IF denominator = 0 THEN None ELSE <<numerator, denominator>>

\* Mutant: zero precision and zero recall make an F1 of zero.
_f1_zero(precision, recall) ==
  IF precision = None \/ recall = None THEN None
  ELSE <<2 * precision[1] * recall[1],
         IF precision[1] + recall[1] = 0 THEN 1
         ELSE precision[1] * recall[2] + recall[1] * precision[2]>>

\* 2PR/(P+R)
_f1(precision, recall) ==
  IF precision = None \/ recall = None THEN None
  ELSE _ratio(2 * precision[1] * recall[1],
              precision[1] * recall[2] + recall[1] * precision[2])

Less(x, y) == x[1] * y[2] < y[1] * x[2]

\* _predict and _counts
_counts(a, threshold, pairs) ==
  LET predicted == {p \in pairs : Score(a, p) >= threshold}
  IN  [true_positives      |-> Cardinality({p \in predicted : Label(p) = 1}),
       predicted_positives |-> Cardinality(predicted),
       actual_positives    |-> Cardinality({p \in pairs : Label(p) = 1})]

Counted == {"true_positives", "predicted_positives", "actual_positives"}

\* The figures of a FamilyResult or an AggregateResult.
Figures(counts) ==
  LET precision == _ratio(counts.true_positives, counts.predicted_positives)
      recall == _ratio(counts.true_positives, counts.actual_positives)
  IN  [precision |-> precision, recall |-> recall, f1 |-> _f1(precision, recall)]

_family_result(a, threshold, pairs) ==
  LET counts == _counts(a, threshold, pairs)
  IN  [counts |-> counts, figures |-> Figures(counts),
       false_positives |-> counts.predicted_positives - counts.true_positives]

_aggregate(per_family) ==
  Figures([c \in Counted |->
             SumFunction([family \in DOMAIN per_family |-> per_family[family].counts[c]])])

evaluate(a, threshold, pairs) ==
  LET per_family == [family \in {FamilyOf(p) : p \in pairs} |->
        _family_result(a, threshold, {p \in pairs : FamilyOf(p) = family})]
  IN  [per_family |-> per_family, aggregate |-> _aggregate(per_family)]

----------------------------------------------------------------------------
(* The threshold *)

\* Mutant: best_f1 is never updated.
Improves_always(f1, best, up) == f1 # None

\* f1_value > best_f1, with -1.0 for an undefined one.  The code compares
\* floats, which of two equal fractions may make the later the greater: up.
Improves(f1, best, up) ==
  f1 # None /\ (best = None \/ Less(best, f1) \/ (up /\ ~Less(f1, best)))

CalibrationScores(a, corpus) == {Score(a, p) : p \in _pairs_for_role(corpus, "calibration")}

\* The sweep over the distinct calibration scores, in ascending order: the
\* greatest of those seen so far is the last of them.  Those of rounded_up
\* come out ahead of an equal F1 before them.
select_threshold(a, corpus, rounded_up) ==
  LET pairs == _pairs_for_role(corpus, "calibration")
      scores == CalibrationScores(a, corpus)
      Sweep(candidate, best) ==
        LET f1 == Figures(_counts(a, candidate, pairs)).f1
        IN  IF Improves(f1, best.f1, candidate \in rounded_up)
            THEN [value |-> candidate, f1 |-> f1] ELSE best
  IN  MapThenFoldSet(Sweep, [value |-> Min(scores), f1 |-> None],
                     LAMBDA t : t, Max, scores).value

evaluate_sealed_test(a, corpus, threshold) ==
  evaluate(a, threshold, _pairs_for_role(corpus, "sealed test"))

\* The figures whose standard deviation is reported; one alone has none.
_variation_metric(metrics) ==
  LET defined == {seed \in DOMAIN metrics : metrics[seed] # None}
  IN  IF Cardinality(defined) < 2 THEN None ELSE [seed \in defined |-> metrics[seed]]

compute_family_variation(by_seed) ==
  [family \in DOMAIN by_seed[SEEDS[1]].per_family |->
    [figure \in {"precision", "recall", "f1"} |->
      _variation_metric([seed \in DOMAIN by_seed |->
                           by_seed[seed].per_family[family].figures[figure]])]]

\* Mutant: a seed's pairs are all scored, whatever their role.
SealedTestAccuracy_whole_seeds(a) ==
  LET by_seed == [seed \in Seeds |-> evaluate(a, selected[a], DOMAIN corpora[seed])]
  IN  [pooled    |-> evaluate_sealed_test(a, _pool_corpora, selected[a]),
       by_seed   |-> by_seed,
       variation |-> compute_family_variation(by_seed)]

\* Of a threshold that read no sealed-test pair, the only kind there is here.
SealedTestAccuracy(a) ==
  LET by_seed == [seed \in Seeds |->
                    evaluate_sealed_test(a, corpora[seed], selected[a])]
  IN  [pooled    |-> evaluate_sealed_test(a, _pool_corpora, selected[a]),
       by_seed   |-> by_seed,
       variation |-> compute_family_variation(by_seed)]

----------------------------------------------------------------------------
(* Comparing the arms *)

PooledF1(a, family) == accuracy[a].pooled.per_family[family].figures.f1

\* Arms that reported the family, and an F1 for it.
Comparable(family) ==
  {a \in DOMAIN accuracy :
     family \in DOMAIN accuracy[a].pooled.per_family /\ PooledF1(a, family) # None}

F1OrZero(a, family) ==
  IF PooledF1(a, family) = None THEN <<0, 1>> ELSE PooledF1(a, family)

Winners(family) ==
  {a \in Comparable(family) :
     \A b \in Comparable(family) : ~Less(F1OrZero(a, family), F1OrZero(b, family))}

find_contradictions ==
  {[family |-> family, actual_winners |-> Winners(family)] :
     family \in {f \in DOMAIN _EXPECTED_WINNERS :
                   /\ Cardinality(Comparable(f)) >= 2
                   /\ _EXPECTED_WINNERS[f] \in Comparable(f) \ Winners(f)}}

_delta_metric(baseline, candidate) ==
  IF baseline = None \/ candidate = None THEN None
  ELSE <<candidate[1] * baseline[2] - baseline[1] * candidate[2],
         candidate[2] * baseline[2]>>

\* Mutant: the candidate's F1 is subtracted from the baseline's.
compute_accuracy_divergence_reversed ==
  IF {Baseline, Candidate} \subseteq DOMAIN accuracy
  THEN [family \in DOMAIN accuracy[Baseline].pooled.per_family |->
          _delta_metric(PooledF1(Candidate, family), PooledF1(Baseline, family))]
  ELSE None

\* None where one of the two arms has no accuracy.
compute_accuracy_divergence ==
  IF {Baseline, Candidate} \subseteq DOMAIN accuracy
  THEN [family \in DOMAIN accuracy[Baseline].pooled.per_family |->
          _delta_metric(PooledF1(Baseline, family), PooledF1(Candidate, family))]
  ELSE None

----------------------------------------------------------------------------

EmptyMap == [x \in {} |-> {}]

Extended(f, x, value) == [y \in DOMAIN f \cup {x} |-> IF y = x THEN value ELSE f[y]]

Current == _ARMS[arm]

NextArm == /\ arm' = arm + 1
           /\ pc' = IF arm = Len(_ARMS) THEN "compare" ELSE "select"

Init ==
  /\ size \in Sizes /\ available \in Installations
  /\ pc = "generate" /\ corpora = EmptyMap
  /\ arm = 1 /\ selected = EmptyMap /\ accuracy = EmptyMap
  /\ contradictions = {} /\ divergence = None

\* generate_corpus of the next seed.
Generate ==
  /\ pc = "generate"
  /\ LET seed == SEEDS[Cardinality(DOMAIN corpora) + 1]
     IN  \E roles \in _split_into_roles(seed) :
           corpora' = Extended(corpora, seed, roles)
  /\ pc' = IF DOMAIN corpora' = Seeds THEN "select" ELSE "generate"
  /\ UNCHANGED <<size, available, arm, selected, accuracy, contradictions, divergence>>

\* An arm whose scorer cannot be had has an InvalidRun for an accuracy.
Skip ==
  /\ pc = "select" /\ Current \notin available
  /\ NextArm
  /\ UNCHANGED <<size, available, corpora, selected, accuracy, contradictions, divergence>>

CanSelect == _pairs_for_role(_pool_corpora, "calibration") # {}

SelectThreshold ==
  /\ pc = "select" /\ Current \in available /\ CanSelect
  /\ \E rounded_up \in SUBSET CalibrationScores(Current, _pool_corpora) :
       selected' = Extended(selected, Current,
                            select_threshold(Current, _pool_corpora, rounded_up))
  /\ pc' = "test"
  /\ UNCHANGED <<size, available, corpora, arm, accuracy, contradictions, divergence>>

\* ValueError: "corpus has no calibration pairs", which nobody catches.
CannotSelect ==
  /\ pc = "select" /\ Current \in available /\ ~CanSelect
  /\ pc' = "died"
  /\ UNCHANGED <<size, available, corpora, arm, selected, accuracy,
                 contradictions, divergence>>

TestSealed ==
  /\ pc = "test"
  /\ accuracy' = Extended(accuracy, Current, SealedTestAccuracy(Current))
  /\ NextArm
  /\ UNCHANGED <<size, available, corpora, selected, contradictions, divergence>>

Compare ==
  /\ pc = "compare"
  /\ contradictions' = find_contradictions
  /\ divergence' = compute_accuracy_divergence
  /\ pc' = "done"
  /\ UNCHANGED <<size, available, corpora, arm, selected, accuracy>>

Ended == pc \in {"died", "done"} /\ UNCHANGED vars

Next ==
  \/ Generate \/ Skip \/ SelectThreshold \/ CannotSelect \/ TestSealed \/ Compare
  \/ Ended

Spec == Init /\ [][Next]_vars

----------------------------------------------------------------------------

Reports(a) ==
  {accuracy[a].pooled} \cup {accuracy[a].by_seed[seed] : seed \in Seeds}

Rows(a) ==
  UNION {{report.per_family[f] : f \in DOMAIN report.per_family} : report \in Reports(a)}

(* Splitting within each family is "what keeps every family reportable in   *)
(* every role" (corpus.py): four pairs of a family are enough for that, two *)
(* for the sealed test, and of a family's odd pair the sealed test, not     *)
(* calibration, has the benefit.                                            *)
EveryFamilyIsReported ==
  \A seed \in DOMAIN corpora : \A family \in FAMILIES :
    LET Share(role) == Cardinality(With(corpora[seed], role, family))
    IN  /\ size[family] >= 2 => Share("sealed test") > 0
        /\ size[family] >= 4 => \A role \in ROLES : Share(role) > 0
        /\ Share("sealed test") - Share("calibration") \in {0, 1}

\* F1 over the calibration pairs, were t the threshold.
CalibrationF1(a, t) ==
  Figures(_counts(a, t, _pairs_for_role(_pool_corpora, "calibration"))).f1

Beats(x, y) == x # None /\ (y = None \/ Less(y, x))

(* ADR-0011 rule 2: of all thresholds, also those no pair's score equals,   *)
(* none has a better F1 on the calibration pairs of all seeds than the one  *)
(* selected, which is one of the scores, and the lowest of them when no     *)
(* threshold has an F1 at all.  Which of two scores with equal F1 it is, is *)
(* left open: select_threshold's docstring says the lower, but where the    *)
(* two are not equal as floats it may be the higher.                        *)
ThresholdIsBest ==
  \A a \in DOMAIN selected :
    LET scores == CalibrationScores(a, _pool_corpora)
        best == CalibrationF1(a, selected[a])
    IN  /\ selected[a] \in scores
        /\ best = None => selected[a] = Min(scores)
        /\ \A t \in (Min(scores) - 1)..(Max(scores) + 1) :
             ~Beats(CalibrationF1(a, t), best)

(* Every total is a sum: each count of the pooled report is the sum of the  *)
(* seeds' counts, and the aggregate is what evaluating all sealed pairs     *)
(* without regard to families would give; and no count exceeds one it is a  *)
(* part of, so no ratio is above one and no false positives below zero.     *)
TotalsAddUp ==
  \A a \in DOMAIN accuracy :
    LET pooled == accuracy[a].pooled
        sealed == UNION {_pairs_for_role(corpora[seed], "sealed test") : seed \in Seeds}
    IN  /\ \A family \in DOMAIN pooled.per_family : \A c \in Counted :
             pooled.per_family[family].counts[c]
               = SumFunction([seed \in Seeds |->
                   accuracy[a].by_seed[seed].per_family[family].counts[c]])
        /\ pooled.aggregate = Figures(_counts(a, selected[a], sealed))
        /\ \A row \in Rows(a) :
             /\ row.counts.true_positives <= row.counts.predicted_positives
             /\ row.counts.true_positives <= row.counts.actual_positives
             /\ row.false_positives >= 0

(* ADR-0013, undefined is not zero: an F1 is defined exactly where there is *)
(* a true positive, of a row and of an aggregate, so none is ever zero, and *)
(* a negative family, which cannot have one, never has an F1, whatever the  *)
(* arm; how far an arm fell for it shows in its false positives only.       *)
UndefinedIsNotZero ==
  \A a \in DOMAIN accuracy : \A report \in Reports(a) :
    LET rows == {report.per_family[f] : f \in DOMAIN report.per_family}
        DefinedIff(hits, f1) == IF hits THEN f1 # None /\ f1[1] > 0 ELSE f1 = None
    IN  /\ \A row \in rows : DefinedIff(row.counts.true_positives > 0, row.figures.f1)
        /\ DefinedIff(\E row \in rows : row.counts.true_positives > 0,
                      report.aggregate.f1)

(* What pooling may hide (ADR-0011 rule 3): where every seed has an F1, the *)
(* pooled one lies between the worst and the best seed's, and where any     *)
(* has, there is a pooled one; a spread is reported when two have.          *)
PooledBetweenSeeds ==
  \A a \in DOMAIN accuracy :
    \A family \in DOMAIN accuracy[a].pooled.per_family :
      LET pooled == PooledF1(a, family)
          F1(seed) == accuracy[a].by_seed[seed].per_family[family].figures.f1
          defined == {seed \in Seeds : F1(seed) # None}
      IN  /\ pooled = None <=> defined = {}
          /\ defined = Seeds => /\ \E seed \in Seeds : ~Less(pooled, F1(seed))
                                /\ \E seed \in Seeds : ~Less(F1(seed), pooled)
          /\ accuracy[a].variation[family].f1 = None <=> Cardinality(defined) < 2

(* Two findings computed apart do not contradict each other: if the arm the *)
(* divergence starts from was expected to win a family, and wins or loses   *)
(* against the other, the sign of the divergence says the same; and a       *)
(* contradiction is only ever among arms that have an F1.                   *)
ComparisonsAgree ==
  pc = "done" =>
    /\ \A c \in contradictions : \A a \in c.actual_winners \cup {_EXPECTED_WINNERS[c.family]} :
         PooledF1(a, c.family) # None
    /\ divergence # None =>
         \A family \in DOMAIN divergence \cap DOMAIN _EXPECTED_WINNERS :
           _EXPECTED_WINNERS[family] = Baseline =>
             LET named == {c \in contradictions : c.family = family}
             IN  /\ divergence[family] # None /\ divergence[family][1] > 0
                      => \E c \in named : Baseline \notin c.actual_winners
                 /\ \A c \in named : Candidate \in c.actual_winners
                      => divergence[family] # None /\ divergence[family][1] > 0
=============================================================================
