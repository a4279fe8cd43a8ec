--------------------------- MODULE MCBenchmarkRun ---------------------------
(***************************************************************************)
(* BenchmarkRun with a classical arm and one or both neural arms, which    *)
(* share a tokenizer.                                                      *)
(***************************************************************************)
EXTENDS BenchmarkRun

Both == <<"fuzzy", "embed-fp32", "embed-int8">>

OneNeural == <<"fuzzy", "embed-int8">>

MCNeeds ==
  [a \in Arms |-> CASE a = "embed-fp32" -> <<"fp32 model", "tokenizer">>
                    [] a = "embed-int8" -> <<"int8 model", "tokenizer">>
                    [] OTHER -> <<>>]
=============================================================================
