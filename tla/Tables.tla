------------------------------- MODULE Tables -------------------------------
(***************************************************************************)
(* The tables a reader sees of a record's accuracy: the report command's   *)
(* (src/joinless/report.py) and those of the README's results section      *)
(* (src/joinless/readme_results.py).  Each finds its own way through the   *)
(* record that Evaluation ends with, and neither measures anything.        *)
(***************************************************************************)
EXTENDS Evaluation

\* The arms as json.dumps(sort_keys=True) leaves them in a record.
CONSTANT KeyOrder

ASSUME KeyOrderAssumption ==
  KeyOrder \in Seq(Arms) /\ IsInjective(KeyOrder) /\ Range(KeyOrder) = Arms

Ok(a) == a \in DOMAIN accuracy

PerFamily(a) == accuracy[a].pooled.per_family

\* Mutant: the families are read off the first arm, run or not.
_family_order_first_arm ==
  IF Ok(KeyOrder[1]) THEN DOMAIN PerFamily(KeyOrder[1]) ELSE {}

\* Those of the first arm that has a report; the families' order is left out.
_family_order ==
  LET ok == {n \in DOMAIN KeyOrder : Ok(KeyOrder[n])}
  IN  IF ok = {} THEN {} ELSE DOMAIN PerFamily(KeyOrder[Min(ok)])

\* A row per arm; one that did not run has its reason in place of the cells.
RowsOf(cells) ==
  [n \in DOMAIN KeyOrder |->
    [arm |-> KeyOrder[n], cells |-> {cells[a] : a \in {KeyOrder[n]} \cap DOMAIN cells}]]

----------------------------------------------------------------------------
(* report.py *)

_contradiction_marker(family) ==
  {c.actual_winners : c \in {d \in contradictions : d.family = family}}

_family_block(family) ==
  [marker |-> _contradiction_marker(family),
   rows   |-> RowsOf([a \in DOMAIN accuracy |->
                [figures         |-> PerFamily(a)[family].figures,
                 false_positives |-> PerFamily(a)[family].false_positives]])]

_aggregate_section ==
  RowsOf([a \in DOMAIN accuracy |-> accuracy[a].pooled.aggregate])

render_per_family_table ==
  [blocks |-> [family \in _family_order |-> _family_block(family)],
   aggregate |-> _aggregate_section]

----------------------------------------------------------------------------
(* readme_results.py *)

_family_table(family) ==
  RowsOf([a \in DOMAIN accuracy |->
    [f1              |-> PerFamily(a)[family].figures.f1,
     false_positives |-> PerFamily(a)[family].false_positives]])

_aggregate_table ==
  RowsOf([a \in DOMAIN accuracy |-> accuracy[a].pooled.aggregate.f1])

----------------------------------------------------------------------------

SealedOf(family) ==
  {p \in UNION {_pairs_for_role(corpora[seed], "sealed test") : seed \in Seeds} :
     FamilyOf(p) = family}

(* "Unavailable arms kept in every block" (report.py): whichever arms ran,  *)
(* both renderers find a row for every arm of the run, once, in a table of  *)
(* every family that was tested; a figure is that of the family's pairs     *)
(* under the arm's own threshold, the same in both; and a family's heading  *)
(* is marked exactly when its expected winner has an F1 and another arm has *)
(* a better one.                                                            *)
TablesTellTheRun ==
  pc = "done" =>
    LET report == render_per_family_table
        tested == {family \in FAMILIES : SealedOf(family) # {}}
        EveryArmOnce(rows) ==
          \A a \in Arms : \E n \in DOMAIN rows :
            /\ {m \in DOMAIN rows : rows[m].arm = a} = {n}
            /\ rows[n].cells = {} <=> a \notin available
    IN  /\ EveryArmOnce(report.aggregate) /\ EveryArmOnce(_aggregate_table)
        /\ DOMAIN report.blocks = IF available = {} THEN {} ELSE tested
        /\ \A family \in DOMAIN report.blocks :
             LET block == report.blocks[family]
                 table == _family_table(family)
                 Truth(a) == Figures(_counts(a, selected[a], SealedOf(family)))
             IN  /\ EveryArmOnce(block.rows) /\ EveryArmOnce(table)
                 /\ \A n \in DOMAIN KeyOrder : \A shown \in block.rows[n].cells :
                      /\ shown.figures = Truth(KeyOrder[n])
                      /\ table[n].cells = {[f1 |-> shown.figures.f1,
                                            false_positives |-> shown.false_positives]}
                 /\ block.marker # {} <=>
                      /\ family \in DOMAIN _EXPECTED_WINNERS
                      /\ _EXPECTED_WINNERS[family] \in available
                      /\ Truth(_EXPECTED_WINNERS[family]).f1 # None
                      /\ \E a \in available :
                           Beats(Truth(a).f1, Truth(_EXPECTED_WINNERS[family]).f1)
=============================================================================
