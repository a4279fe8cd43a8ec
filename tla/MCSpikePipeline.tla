-------------------------- MODULE MCSpikePipeline --------------------------
(***************************************************************************)
(* SpikePipeline from an empty cache directory, and from one where a whole *)
(* pass over an earlier revision has left its files.                       *)
(***************************************************************************)
EXTENDS SpikePipeline

CONSTANT MaxReruns

Passed ==
  /\ head = 1 /\ clock = 1 /\ pass = 8 /\ starts = MaxStarts - MaxReruns
  /\ fragment = [s \in Fragments |-> IF s = "quantize" THEN {} ELSE {1}] /\ partial = {}
  /\ records = [second \in {1} |-> fragment]
  /\ graph = [arm \in Arms |-> 1] /\ output = [arm \in Arms |-> 1]
  /\ step = NoStep /\ pc = "idle"
  /\ orphans = {} /\ exporters = {} /\ spare = MaxOrphans /\ crossed = FALSE
  /\ revisions = {} /\ figures = EmptyMap /\ started_at = 0

\* Processes outlive their command in the shorter of the two histories only.
MCSpec == ((Init /\ spare = 0) \/ Passed) /\ [][Next]_vars
=============================================================================
