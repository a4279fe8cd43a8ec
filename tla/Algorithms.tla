----------------------------- MODULE Algorithms -----------------------------
(***************************************************************************)
(* One call of one of the program's pure algorithms, with any of the       *)
(* arguments it may be given: merge, score_candidates, the building of the *)
(* preparation sample, the percentiles of repeated samples and the phases  *)
(* of a cold start.                                                        *)
(***************************************************************************)
EXTENDS Preparation, Measurement

CONSTANT Calls   \* the algorithms' names, with arguments

VARIABLES
  call,     \* the algorithm and its arguments
  result    \* what it returns, once it has

\* Rows have been read, samples have been measured, and durations never go
\* back, though the wall clock may be set to any time.
ASSUME CallsAssumption ==
  \A c \in Calls :
    /\ c.op = "merge" => c.a \in Rows /\ c.b \in Rows
    /\ c.op = "score" => c.scorer \in Scorers /\ c.left \in Seq(Rows) /\ c.right \in Seq(Rows)
    /\ c.op = "sample" => /\ c.left_names \in Seq(Names) /\ c.right_names \in Seq(Names)
                          /\ Len(c.left_names) = Len(c.right_names)
    /\ c.op = "latency" => c.durations \in Seq(Nat) \ {<<>>}
    /\ c.op = "cost" => c.hoisted \in Seq(Nat) \ {<<>>} /\ c.naive \in Seq(Nat) \ {<<>>}
    /\ c.op = "cold start" => c.worker \in Timeline(Nat, Int)

----------------------------------------------------------------------------
(* The calls *)

Init == call \in Calls /\ result = None

Returns(op, value) ==
  /\ call.op = op /\ result = None
  /\ result' = value
  /\ UNCHANGED call

Merge == Returns("merge", merge(call.a, call.b))

\* Both paths over one pair of lists, as _preparation_comparison calls them.
ScoreCandidates ==
  Returns("score",
    [hoisted |-> score_candidates(call.scorer, call.left, call.right, "hoisted"),
     naive   |-> score_candidates(call.scorer, call.left, call.right, "naive")])

\* With fewer pairs than the sample has records it raises ValueError.
BuildSample ==
  /\ call.op = "sample" /\ Len(call.left_names) >= SampleSize
  /\ Returns("sample", _build_preparation_sample(call.left_names, call.right_names))

MeasureLatency == Returns("latency", WarmLatency(call.durations))

MeasureCost == Returns("cost", PreparationCost(call.hoisted, call.naive))

MeasureColdStart == Returns("cold start", ColdStartPhases(call.worker))

Next ==
  \/ Merge \/ ScoreCandidates \/ BuildSample
  \/ MeasureLatency \/ MeasureCost \/ MeasureColdStart

Spec == Init /\ [][Next]_<<call, result>>

Returned(op) == call.op = op /\ result # None

----------------------------------------------------------------------------
(* merge *)

(* merge(a, b) == merge(b, a): the result does not depend on which record   *)
(* the resolver happened to pass first.                                     *)
MergeIsSymmetric == Returned("merge") => result = merge(call.b, call.a)

\* Placed if either record is, at one record's real position.
PlaceSurvives(a, b, merged) ==
  LET placed == {r \in {a, b} : _has_coordinates(r)}
  IN  IF placed = {} THEN merged.latitude = None /\ merged.longitude = None
      ELSE \E r \in placed : /\ merged.latitude = r.latitude
                             /\ merged.longitude = r.longitude

(* The merged record is at least as populated as either of the two, so no   *)
(* combination of winners and overrides loses information on balance, and a *)
(* position is never dropped, halved or mixed from the two.                 *)
MergeLosesNothing ==
  Returned("merge") =>
    /\ _populatedness(result) >= _populatedness(call.a)
    /\ _populatedness(result) >= _populatedness(call.b)
    /\ PlaceSurvives(call.a, call.b, result)

----------------------------------------------------------------------------
(* score_candidates *)

(* ADR-0009: preparing every name once beforehand and preparing both names  *)
(* of every comparison give the same scores, whatever else is in the batch: *)
(* names of other lengths, repeated names, blank ones.  And both are the    *)
(* scores of the pairs of touching cells, in their order.                   *)
PathsAgree ==
  Returned("score") =>
    LET pairs == candidate_pairs(call.left, call.right)
    IN  /\ result.hoisted.scores = result.naive.scores
        /\ Len(result.hoisted.scores) = Len(pairs)
        /\ Range(pairs) =
             {pair \in Range(call.left) \X Range(call.right) :
                /\ _has_coordinates(pair[1]) /\ _has_coordinates(pair[2])
                /\ _cell(pair[1])[1] - _cell(pair[2])[1] \in -1..1
                /\ _cell(pair[1])[2] - _cell(pair[2])[2] \in -1..1}

\* A name the scorer has nothing to go by.
Uninformative(scorer, name) ==
  IF scorer = "embed" THEN name \in Blank \/ IsZero(prepare(scorer, name))
  ELSE _normalise(name) = <<>>

(* A name that carries no information is like nothing, not even another     *)
(* such name: its score is 0, the lowest there is, with every scorer and on *)
(* both paths, and no rounding takes a score out of its range.              *)
NoInformationNoMatch ==
  Returned("score") =>
    LET pairs == candidate_pairs(call.left, call.right)
    IN  \A n \in DOMAIN pairs, path \in {"hoisted", "naive"} :
          /\ result[path].scores[n] \in 0..100
          /\ \A r \in Range(pairs[n]) :
               Uninformative(call.scorer, r.name) => result[path].scores[n] = 0

----------------------------------------------------------------------------
(* The preparation sample *)

(* A hoist speed-up is quoted with the occupancy that produced it: each name *)
(* of the sample is prepared in as many of the timed comparisons as there    *)
(* are records in its bucket, the timed pairs are the sample's own, and the  *)
(* hoisted path embeds each distinct name once.                              *)
OccupancyExplainsTheCost ==
  Returned("sample") =>
    LET left == SampleRecords(call.left_names)
        right == SampleRecords(call.right_names)
        pairs == candidate_pairs(left, right)
    IN  /\ \A p \in DOMAIN left :
             Cardinality({n \in DOMAIN pairs : pairs[n][1] = left[p]})
               = result.counts[_cell(left[p])]
        /\ \A n \in DOMAIN pairs :
             TimedPairs(result)[n] = <<pairs[n][1].name, pairs[n][2].name>>
        /\ \E cell \in DOMAIN result.counts :
             result.counts[cell] = result.max_occupancy
        /\ LET texts == order(result.left_names)
           IN  /\ IsInjective(texts)
               /\ Range(texts) = Range(result.left_names) \ Blank

----------------------------------------------------------------------------
(* Percentiles *)

\* No more than the given share of the samples lies below the value, and less
\* than the rest of them above it.
IsRank(value, data, percent) ==
  LET n == Len(data)
      below == Cardinality({k \in 1..n : data[k] < value})
      above == Cardinality({k \in 1..n : data[k] > value})
  IN  /\ \E k \in 1..n : data[k] = value
      /\ 100 * below <= percent * n
      /\ above = 0 \/ 100 * above < (100 - percent) * n

(* p50 and p99 are the samples of that rank, whatever order the samples came *)
(* in and however few they are, and a path none of whose repetitions took    *)
(* longer than the other's is never reported as the slower one.              *)
PercentileIsARank ==
  /\ Returned("latency") =>
       IsRank(result.p50, call.durations, 50) /\ IsRank(result.p99, call.durations, 99)
  /\ Returned("cost") =>
       /\ IsRank(result.hoisted_p50, call.hoisted, 50)
       /\ IsRank(result.naive_p99, call.naive, 99)
       /\ (\A k \in DOMAIN call.hoisted, j \in DOMAIN call.naive :
             call.hoisted[k] <= call.naive[j]) =>
            \/ _hoist_speedup(result) = Undefined
            \/ _hoist_speedup(result)[1] >= _hoist_speedup(result)[2]

----------------------------------------------------------------------------
(* Cold start *)

Elapsed(worker) ==
  worker.spawn + worker.params + worker.import + worker.inference
    + ConstructionSeconds(worker)

(* RFC-0002's phases account for a cold start: while nobody sets the clock   *)
(* they add up to the time from the launch to the first answer, but for the  *)
(* reading of the parameters.  No instant is counted twice, no phase is      *)
(* negative even when the clock goes back, and a phase that an arm does not  *)
(* have is undefined, not zero.                                              *)
ColdStartAccountsForTime ==
  Returned("cold start") =>
    LET worker == call.worker
    IN  /\ total(result) >= Elapsed(worker) - worker.params - worker.spawn
        /\ worker.adjustment = 0 =>
             total(result) = Elapsed(worker) - worker.params
        /\ \A phase \in DOMAIN result :
             result[phase] # Undefined => result[phase] >= 0
        /\ \A phase \in {"session_creation", "tokenizer_load"} :
             result[phase] = Undefined <=> ~worker.neural
=============================================================================
