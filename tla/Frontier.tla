------------------------------ MODULE Frontier ------------------------------
(***************************************************************************)
(* The accuracy-cost frontier of one family of a run record                *)
(* (src/joinless/frontier.py): which arms qualify under the constraints a  *)
(* reader states, which of those no other beats, and why each other arm is *)
(* left out.                                                               *)
(*                                                                         *)
(* An arm is its position in the record's results.  F1 is in whole units   *)
(* out of Scale, cost figures are whole numbers; a figure that was not     *)
(* measured (its status is not "ok"), an undefined F1 and a constraint     *)
(* nobody stated are all None, as value or status is in the record.        *)
(***************************************************************************)
EXTENDS Integers

CONSTANTS
  ArmCount,   \* arms in the record
  Families,   \* families its accuracy reports may have
  Scale,      \* F1 = 1.0
  None,
  Records,    \* the results compute_frontier may be given
  Readers     \* the constraints it may be given

Arms == 1..ArmCount

Optional(S) == S \cup {None}

FamilyRow == [f1 : Optional(0..Scale), false_positives : Nat]

\* accuracy is the status of the block of that name; per_family[f] is None
\* when it has no row for f, as an invalid one has for none.
ArmResult == [accuracy : {"ok", "invalid"},
              per_family : [Families -> Optional(FamilyRow)],
              peak_memory : Optional(Nat), warm_latency : Optional(Nat)]

Constraints == [min_f1 : Optional(0..Scale), max_false_positives : Optional(Nat),
                max_peak_rss_bytes : Optional(Nat),
                max_warm_p50_seconds : Optional(Nat)]

Reasons == {"accuracy invalid", "family not reported", "peak memory unavailable",
            "warm latency unavailable", "F1 undefined", "F1 below floor",
            "peak RSS above ceiling", "warm p50 above ceiling",
            "false positives above ceiling"}

ASSUME ArmsAssumption == ArmCount \in Nat /\ Scale \in Nat

ASSUME InputsAssumption ==
  Records \subseteq [Arms -> ArmResult] /\ Readers \subseteq Constraints

ASSUME NoneAssumption == None \notin Int /\ None \notin Reasons

VARIABLES
  results, constraints, family,
  pc,           \* "evaluate", "compare" or "done"
  candidates,   \* arms with an operating point
  excluded,     \* arm -> why it is not a candidate
  frontier,     \* arms found not to be dominated
  dominated     \* arm -> the candidate named as dominating it

inputs == <<results, constraints, family>>
vars == <<inputs, pc, candidates, excluded, frontier, dominated>>

----------------------------------------------------------------------------
(* Qualifying *)

\* The families of the first arm with an "ok" accuracy; none without one.
_family_order(res) ==
  LET ok == {a \in Arms : res[a].accuracy = "ok"}
  IN  IF ok = {} THEN {}
      ELSE LET first == res[CHOOSE a \in ok : \A b \in ok : a <= b]
           IN  {f \in Families : first.per_family[f] # None}

\* A FrontierPoint, of an arm _evaluate_candidate finds no fault with.
Point(arm) ==
  [f1              |-> results[arm].per_family[family].f1,
   false_positives |-> results[arm].per_family[family].false_positives,
   peak_rss_bytes  |-> results[arm].peak_memory,
   warm_p50_seconds |-> results[arm].warm_latency]

Exceeds(figure, ceiling) == ceiling # None /\ figure > ceiling

\* Mutant: an undefined F1 slips past a stated floor.
FaultOfPoint_undefined_passes(p) ==
  IF constraints.min_f1 # None /\ p.f1 # None /\ p.f1 < constraints.min_f1
  THEN "F1 below floor"
  ELSE IF Exceeds(p.peak_rss_bytes, constraints.max_peak_rss_bytes)
  THEN "peak RSS above ceiling"
  ELSE IF Exceeds(p.warm_p50_seconds, constraints.max_warm_p50_seconds)
  THEN "warm p50 above ceiling"
  ELSE IF Exceeds(p.false_positives, constraints.max_false_positives)
  THEN "false positives above ceiling"
  ELSE None

\* The first constraint a fully measured point fails, in the order they are
\* tested, or None.
FaultOfPoint(p) ==
  IF constraints.min_f1 # None /\ p.f1 = None THEN "F1 undefined"
  ELSE IF constraints.min_f1 # None /\ p.f1 < constraints.min_f1
  THEN "F1 below floor"
  ELSE IF Exceeds(p.peak_rss_bytes, constraints.max_peak_rss_bytes)
  THEN "peak RSS above ceiling"
  ELSE IF Exceeds(p.warm_p50_seconds, constraints.max_warm_p50_seconds)
  THEN "warm p50 above ceiling"
  ELSE IF Exceeds(p.false_positives, constraints.max_false_positives)
  THEN "false positives above ceiling"
  ELSE None

\* The reason _evaluate_candidate gives, or None for an arm that qualifies.
_evaluate_candidate(arm) ==
  LET result == results[arm]
  IN  IF result.accuracy # "ok" THEN "accuracy invalid"
      ELSE IF result.per_family[family] = None THEN "family not reported"
      ELSE IF result.peak_memory = None THEN "peak memory unavailable"
      ELSE IF result.warm_latency = None THEN "warm latency unavailable"
      ELSE FaultOfPoint(Point(arm))

(* Domination *)

\* At least as good on every axis compared, and better on one.
_dominates(p, q, compare_f1) ==
  /\ p.peak_rss_bytes <= q.peak_rss_bytes
  /\ p.warm_p50_seconds <= q.warm_p50_seconds
  /\ p.false_positives <= q.false_positives
  /\ compare_f1 => p.f1 >= q.f1
  /\ \/ p.peak_rss_bytes < q.peak_rss_bytes
     \/ p.warm_p50_seconds < q.warm_p50_seconds
     \/ p.false_positives < q.false_positives
     \/ compare_f1 /\ p.f1 > q.f1

\* Mutant: decided pair by pair, wherever both points have an F1.
Beats_pairwise(other, arm) ==
  _dominates(Point(other), Point(arm),
             Point(other).f1 # None /\ Point(arm).f1 # None)

\* F1 is compared in the whole family or, if any candidate has none, not at all.
Beats(other, arm) ==
  _dominates(Point(other), Point(arm),
             \A a \in candidates : Point(a).f1 # None)

----------------------------------------------------------------------------
(* The steps of _family_frontier *)

Init ==
  /\ results \in Records /\ constraints \in Readers
  /\ family \in _family_order(results)
  /\ pc = "evaluate"
  /\ candidates = {} /\ excluded = [a \in {} |-> None]
  /\ frontier = {} /\ dominated = [a \in {} |-> None]

\* The arm a loop in record order comes to next.
IsNext(arm, arms) == arm \in arms /\ \A a \in arms : arm <= a

Unevaluated == Arms \ (candidates \cup DOMAIN excluded)

Uncompared == candidates \ (frontier \cup DOMAIN dominated)

With(f, arm, value) ==
  [a \in DOMAIN f \cup {arm} |-> IF a = arm THEN value ELSE f[a]]

Qualify(arm) ==
  /\ pc = "evaluate" /\ IsNext(arm, Unevaluated)
  /\ _evaluate_candidate(arm) = None
  /\ candidates' = candidates \cup {arm}
  /\ UNCHANGED <<inputs, pc, excluded, frontier, dominated>>

Exclude(arm) ==
  /\ pc = "evaluate" /\ IsNext(arm, Unevaluated)
  /\ _evaluate_candidate(arm) # None
  /\ excluded' = With(excluded, arm, _evaluate_candidate(arm))
  /\ UNCHANGED <<inputs, pc, candidates, frontier, dominated>>

StartComparing ==
  /\ pc = "evaluate" /\ Unevaluated = {}
  /\ pc' = "compare"
  /\ UNCHANGED <<inputs, candidates, excluded, frontier, dominated>>

Keep(arm) ==
  /\ pc = "compare" /\ IsNext(arm, Uncompared)
  /\ ~\E other \in candidates \ {arm} : Beats(other, arm)
  /\ frontier' = frontier \cup {arm}
  /\ UNCHANGED <<inputs, pc, candidates, excluded, dominated>>

\* The reason names the first candidate, in record order, that dominates.
Drop(arm) ==
  /\ pc = "compare" /\ IsNext(arm, Uncompared)
  /\ \E other \in candidates \ {arm} :
       /\ IsNext(other, {o \in candidates \ {arm} : Beats(o, arm)})
       /\ dominated' = With(dominated, arm, other)
  /\ UNCHANGED <<inputs, pc, candidates, excluded, frontier>>

Finish ==
  /\ pc = "compare" /\ Uncompared = {}
  /\ pc' = "done"
  /\ UNCHANGED <<inputs, candidates, excluded, frontier, dominated>>

Finished == pc = "done" /\ UNCHANGED vars

Next ==
  \/ \E arm \in Arms : Qualify(arm) \/ Exclude(arm) \/ Keep(arm) \/ Drop(arm)
  \/ StartComparing \/ Finish \/ Finished

Spec == Init /\ [][Next]_vars

----------------------------------------------------------------------------

Ordered == {"compare", "done"}

(* Types; a candidate has every figure domination compares.                 *)
TypeOK ==
  /\ results \in [Arms -> ArmResult] /\ constraints \in Constraints
  /\ family \in Families
  /\ pc \in {"evaluate", "compare", "done"}
  /\ candidates \subseteq Arms /\ frontier \subseteq candidates
  /\ DOMAIN excluded \subseteq Arms /\ excluded \in [DOMAIN excluded -> Reasons]
  /\ DOMAIN dominated \subseteq candidates
  /\ dominated \in [DOMAIN dominated -> candidates]
  /\ \A a \in candidates :
       /\ results[a].accuracy = "ok" /\ results[a].per_family[family] # None
       /\ results[a].peak_memory \in Nat /\ results[a].warm_latency \in Nat

(* No arm is lost, and none is given two verdicts: it is on the frontier,   *)
(* dominated or excluded for cause, and exactly one of them (FamilyFrontier *)
(* "excluded names every arm that is not in frontier").                     *)
EveryArmHasOneVerdict ==
  /\ candidates \cap DOMAIN excluded = {}
  /\ frontier \cap DOMAIN dominated = {}
  /\ pc = "done" => frontier \cup DOMAIN dominated \cup DOMAIN excluded = Arms

(* An arm on the frontier satisfies every constraint that was stated, on    *)
(* figures that were measured: nothing undefined passes for a number.       *)
FrontierSatisfiesConstraints ==
  \A a \in frontier :
    /\ constraints.min_f1 # None =>
         Point(a).f1 # None /\ Point(a).f1 >= constraints.min_f1
    /\ constraints.max_false_positives # None =>
         Point(a).false_positives <= constraints.max_false_positives
    /\ constraints.max_peak_rss_bytes # None =>
         Point(a).peak_rss_bytes <= constraints.max_peak_rss_bytes
    /\ constraints.max_warm_p50_seconds # None =>
         Point(a).warm_p50_seconds <= constraints.max_warm_p50_seconds

(* The frontier can stand in for the candidates: each that is not on it is  *)
(* beaten by one that is, and no two on it beat each other.  So "no arm     *)
(* qualifies" means that none does: whatever the figures, and however many  *)
(* of them are equal or undefined, a family with a candidate has a frontier.*)
FrontierCoversCandidates ==
  pc = "done" =>
    /\ \A a \in candidates \ frontier : \E b \in frontier : Beats(b, a)
    /\ \A a, b \in frontier : ~Beats(a, b)

(* "naming which surviving arm dominates it" (the docstring of              *)
(* _pareto_frontier): the arm a reason names is on the frontier.            *)
ReasonsNameSurvivors ==
  pc = "done" => \A a \in DOMAIN dominated : dominated[a] \in frontier
============================================================================
