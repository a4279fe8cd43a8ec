-------------------------------- MODULE Grid --------------------------------
(***************************************************************************)
(* The coordinate grid of src/joinless/resolver.py: the cell a record lies *)
(* in and the nine cells whose records it is compared with.  Coordinates   *)
(* and the cell's edge are integers in one unit.                           *)
(***************************************************************************)
EXTENDS MergePolicy, Sequences

CONSTANT CellSize   \* the edge of a grid cell

ASSUME CellAssumption == CellSize \in Nat \ {0}

\* Mutant: the quotient truncated towards zero, as int() would.
_cell_truncating(record) ==
  LET Trunc(x) == IF x >= 0 THEN x \div CellSize ELSE -((-x) \div CellSize)
  IN  <<Trunc(record.latitude), Trunc(record.longitude)>>

\* Of a record with coordinates; the callers test for them first.
_cell(record) == <<record.latitude \div CellSize, record.longitude \div CellSize>>

\* Mutants: range(-1, 1) for the rows; the record's own cell gathered twice.
NeighbourOffsetsShort ==
  <<<<-1, -1>>, <<-1, 0>>, <<-1, 1>>, <<0, -1>>, <<0, 0>>, <<0, 1>>>>

NeighbourOffsetsRepeated ==
  <<<<-1, -1>>, <<-1, 0>>, <<-1, 1>>, <<0, -1>>, <<0, 0>>, <<0, 0>>,
    <<0, 1>>, <<1, -1>>, <<1, 0>>, <<1, 1>>>>

_NEIGHBOUR_OFFSETS ==
  <<<<-1, -1>>, <<-1, 0>>, <<-1, 1>>,
    <<0, -1>>, <<0, 0>>, <<0, 1>>,
    <<1, -1>>, <<1, 0>>, <<1, 1>>>>
=============================================================================
