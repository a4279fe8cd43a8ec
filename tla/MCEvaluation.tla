---------------------------- MODULE MCEvaluation ----------------------------
(***************************************************************************)
(* Evaluation with a family of matches and one of near misses over two     *)
(* seeds.  A pair's score depends on its index; which pairs are calibrated *)
(* on and which are tested is up to the shuffles, so every mixture of high *)
(* and low scores comes up in both.  The first arm separates the families, *)
(* the second scores coarsely, the third prefers the wrong ones.           *)
(***************************************************************************)
EXTENDS Tables

MCArms == <<"overlap", "embed-fp32", "embed-int8">>

MCSeeds == <<1, 2>>

MCSizes ==
  {[exact |-> m, negative |-> n] : m, n \in {3, 4}}

MCKeyOrder == <<"embed-fp32", "embed-int8", "overlap">>

\* Everything, all but the model that is expected to win, or nothing.
MCInstallations == {Arms, Arms \ {"embed-fp32"}, {}}

Table ==
  [overlap |-> [exact |-> <<1, 2, 3, 3>>, negative |-> <<1, 1, 2, 3>>],
   fp32    |-> [exact |-> <<2, 2, 3, 3>>, negative |-> <<2, 2, 2, 3>>],
   int8    |-> [exact |-> <<1, 2, 2, 3>>, negative |-> <<2, 3, 3, 3>>]]

MCScore(a, p) ==
  LET table == CASE a = "overlap" -> Table.overlap
                 [] a = "embed-fp32" -> Table.fp32
                 [] OTHER -> Table.int8
  IN  table[p[2]][p[3] + 1]

MCWinners == [exact |-> "embed-fp32", negative |-> "embed-fp32"]

\* The largest corpora are evaluated with every arm only, and the smallest
\* also with none.
MCInit ==
  /\ Init
  /\ size = [exact |-> 4, negative |-> 4] => available = Arms
  /\ available = {} => size = [exact |-> 3, negative |-> 3]

MCSpec == MCInit /\ [][Next]_vars
=============================================================================
