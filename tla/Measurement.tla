---------------------------- MODULE Measurement ----------------------------
(***************************************************************************)
(* The figures of src/joinless/measurement.py as functions of what its     *)
(* workers' clocks read: percentiles of repeated samples, the speed-up     *)
(* src/joinless/cli.py derives from them, and the phases of a cold start.  *)
(* Durations and instants are integers.                                    *)
(***************************************************************************)
EXTENDS Integers, SequencesExt

CONSTANT Undefined   \* a Metric without a value

ASSUME UndefinedAssumption == Undefined \notin Int

----------------------------------------------------------------------------
(* Repeated samples *)

\* Mutant: the samples as they came, not in order.
_percentile_unsorted(data, percent) ==
  data[Min({Len(data), (percent * Len(data)) \div 100 + 1})]

\* sorted: the same items, none before a smaller one.
Sorted(data) ==
  LET place == CHOOSE p \in [DOMAIN data -> DOMAIN data] :
                 /\ IsInjective(p)
                 /\ \A m, n \in DOMAIN data : m <= n => data[p[m]] <= data[p[n]]
  IN  [n \in DOMAIN data |-> data[place[n]]]

_percentile(data, percent) ==
  LET ordered == Sorted(data)
  IN  ordered[Min({Len(ordered), (percent * Len(ordered)) \div 100 + 1})]

WarmLatency(durations) ==
  [p50 |-> _percentile(durations, 50), p99 |-> _percentile(durations, 99)]

PreparationCost(hoisted_durations, naive_durations) ==
  [hoisted_p50 |-> _percentile(hoisted_durations, 50),
   hoisted_p99 |-> _percentile(hoisted_durations, 99),
   naive_p50   |-> _percentile(naive_durations, 50),
   naive_p99   |-> _percentile(naive_durations, 99)]

\* naive over hoisted, as a fraction; undefined where hoisted measured at 0.
_hoist_speedup(cost) ==
  IF cost.hoisted_p50 <= 0 THEN Undefined
  ELSE <<cost.naive_p50, cost.hoisted_p50>>

----------------------------------------------------------------------------
(* Cold start *)

\* How long each step of a worker's life takes: until its first statement,
\* reading its parameters, importing joinless, probing the arm and importing
\* what it needs, loading its tokenizer and its session (neural arms only),
\* and the first comparison.  The wall clock may be set meanwhile.
Timeline(durations, adjustments) ==
  [neural : BOOLEAN, spawn : durations, params : durations, import : durations,
   probe : durations, tokenizer : durations, session : durations,
   inference : durations, adjustment : adjustments]

\* What _build_scorer puts on the scorer; a classical arm's has neither.
tokenizer_load_seconds(t) == IF t.neural THEN t.tokenizer ELSE Undefined
session_creation_seconds(t) == IF t.neural THEN t.session ELSE Undefined

\* get_scorer, from before the probe to after the factory.
ConstructionSeconds(t) ==
  t.probe + (IF t.neural THEN t.tokenizer + t.session ELSE 0)

\* Mutant: the whole construction counts as import.
ImportRemainder_whole(t) == ConstructionSeconds(t)

ImportRemainder(t) ==
  IF tokenizer_load_seconds(t) = Undefined \/ session_creation_seconds(t) = Undefined
  THEN ConstructionSeconds(t)
  ELSE ConstructionSeconds(t) - tokenizer_load_seconds(t)
         - session_creation_seconds(t)

\* The two wall clocks' difference: the parent's before the launch, the
\* worker's first statement.
InterpreterStart(t) == Max({0, t.spawn + t.adjustment})

ColdStartPhases(t) ==
  [interpreter_start |-> InterpreterStart(t),
   import_phase      |-> t.import + ImportRemainder(t),
   session_creation  |-> session_creation_seconds(t),
   tokenizer_load    |-> tokenizer_load_seconds(t),
   first_inference   |-> t.inference]

_sum_defined(phases) ==
  LET defined == {phase \in DOMAIN phases : phases[phase] # Undefined}
  IN  IF defined = {} THEN Undefined
      ELSE SumFunctionOnSet(phases, defined)

total(phases) == _sum_defined(phases)
============================================================================
