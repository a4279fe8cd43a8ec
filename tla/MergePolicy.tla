---------------------------- MODULE MergePolicy ----------------------------
(***************************************************************************)
(* The merge policy of src/joinless/resolver.py (FR-5): which record of a  *)
(* matched pair wins, and what the merged record keeps of both.            *)
(***************************************************************************)
EXTENDS Records

_has_coordinates(record) ==
  record.latitude # None /\ record.longitude # None

MergedRecord == [name : Names, latitude : Coordinate, longitude : Coordinate,
                 fields : Fields, sources : SUBSET Sources]

\* One point for each non-empty field, for a non-empty name, for coordinates.
_populatedness(record) ==
  LET filled == {k \in DOMAIN record.fields : record.fields[k] # ""}
  IN  Cardinality(filled)
        + (IF record.name # "" THEN 1 ELSE 0)
        + (IF _has_coordinates(record) THEN 1 ELSE 0)

\* Mutant: the first argument wins a tie.
_winner_first_on_tie(a, b) ==
  IF _populatedness(a) >= _populatedness(b) THEN a ELSE b

_winner(a, b) ==
  IF _populatedness(a) # _populatedness(b)
  THEN IF _populatedness(a) > _populatedness(b) THEN a ELSE b
  ELSE IF record_id(a) < record_id(b) THEN a ELSE b

_loser(a, b) == IF _winner(a, b) = a THEN b ELSE a

\* dict.update: f with every entry of g written over it.
Updated(f, g) ==
  [k \in DOMAIN f \cup DOMAIN g |-> IF k \in DOMAIN g THEN g[k] ELSE f[k]]

\* Mutant: update called on the winner's fields, so the loser's values win.
MergedFieldsReversed(a, b) == Updated(_winner(a, b).fields, _loser(a, b).fields)

MergedFields(a, b) == Updated(_loser(a, b).fields, _winner(a, b).fields)

\* The record whose coordinates the merge keeps, when either has them: the
\* winner where both do, else the one that does.
CoordinateGiver(a, b) ==
  IF _has_coordinates(a) /\ _has_coordinates(b) THEN _winner(a, b)
  ELSE IF _has_coordinates(a) THEN a ELSE b

merge(a, b) ==
  LET giver == CoordinateGiver(a, b)
      placed == _has_coordinates(giver)
  IN  [name      |-> _winner(a, b).name,
       latitude  |-> IF placed THEN giver.latitude ELSE None,
       longitude |-> IF placed THEN giver.longitude ELSE None,
       fields    |-> MergedFields(a, b),
       sources   |-> {a.source, b.source}]
============================================================================
