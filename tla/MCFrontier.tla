----------------------------- MODULE MCFrontier -----------------------------
(***************************************************************************)
(* Frontier for a record of three arms and one family.  Each figure takes  *)
(* two values, or is missing; each constraint is one that some arms meet   *)
(* and some do not, or is not stated.                                      *)
(***************************************************************************)
EXTENDS Frontier, FiniteSets

CONSTANTS F1s, FalsePositives, Memories, Latencies, Floors, Ceilings

fam == "character noise"

Rows == [f1 : F1s, false_positives : FalsePositives]

Measured ==
  [accuracy : {"ok"}, per_family : [{fam} -> Rows],
   peak_memory : Memories, warm_latency : Latencies]

Failed ==
  [accuracy |-> "invalid", per_family |-> [f \in {fam} |-> None],
   peak_memory |-> None, warm_latency |-> None]

\* Every arm's accuracy is ok or it has nothing; one report is without rows.
NoRows == [Failed EXCEPT !.accuracy = "ok"]

Incomplete(result) == result.peak_memory = None \/ result.warm_latency = None

\* At most one arm lacks a cost; F1 may be undefined for any of them.
MCRecords ==
  {record \in [Arms -> Measured \cup {Failed, NoRows}] :
     Cardinality({a \in Arms : Incomplete(record[a])}) <= 1}

Stated(reader) == {c \in DOMAIN reader : reader[c] # None}

\* Nothing stated, one constraint, or all four.
MCReaders ==
  {reader \in [min_f1 : Floors, max_false_positives : Ceilings,
               max_peak_rss_bytes : Ceilings, max_warm_p50_seconds : Ceilings] :
     Cardinality(Stated(reader)) \in {0, 1, 4}}
============================================================================
