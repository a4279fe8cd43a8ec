------------------------------ MODULE Resolver ------------------------------
(***************************************************************************)
(* resolve() of src/joinless/resolver.py, step by step: the right side is  *)
(* indexed by grid cell, each left record gathers the candidates of its    *)
(* nine cells and scans them for the best, and a last sweep over the right *)
(* side reports what nobody claimed.                                       *)
(*                                                                         *)
(* A record object is its value: the lists hold distinct objects, as       *)
(* _read_records builds them, so id(record) is the record itself.          *)
(* Score(m, n) is scorer.score(scorer.prepare(m), scorer.prepare(n)) in    *)
(* some integer scale, Distance(r, s) is _haversine_km, and Threshold and  *)
(* CellSize are the matcher's threshold and cell_size in the same units.   *)
(***************************************************************************)
EXTENDS Grid, Functions

CONSTANTS
  Lefts, Rights,   \* the lists resolve may be called with
  Threshold,
  Score(_, _),     \* of two names
  Distance(_, _)   \* of two records

\* A list of records without a repeated object.
RecordList(s) ==
  /\ s \in Seq(Rows)
  /\ \A p, q \in 1..Len(s) : s[p] = s[q] => p = q

ASSUME ListsAssumption ==
  /\ \A s \in Lefts \cup Rights : RecordList(s)
  /\ \A s \in Lefts, t \in Rights : Range(s) \cap Range(t) = {}

ASSUME ScoringAssumption ==
  /\ Threshold \in Int
  /\ \A m, n \in Names : Score(m, n) \in Int
  /\ \A r, s \in Rows : Distance(r, s) \in Int

VARIABLES
  left, right,   \* the arguments
  pc,            \* the loop resolve is in
  pos,           \* position in the list that loop runs over
  right_index,   \* cell -> the right records in it, in list order
  offset,        \* how many of the nine neighbour cells have been gathered
  candidates,    \* what _candidates_for has collected
  scanned,       \* how many candidates _select_best has looked at
  best,          \* best_record
  pairs, unmatched,
  matched_right_ids

args == <<left, right>>
scan == <<offset, candidates, scanned, best>>
vars == <<args, pc, pos, right_index, scan, pairs, unmatched, matched_right_ids>>

Phases == {"index", "left", "gather", "select", "right", "done"}

Reasons == {"no coordinates", "no candidates", "below threshold", "not selected"}

----------------------------------------------------------------------------
(* The index of the right side *)

Bucket(cell) == IF cell \in DOMAIN right_index THEN right_index[cell] ELSE <<>>

\* index.get((row + row_delta, col + col_delta), ()) for the n-th offset.
NeighbourBucket(record, n) ==
  Bucket(<<_cell(record)[1] + _NEIGHBOUR_OFFSETS[n][1],
           _cell(record)[2] + _NEIGHBOUR_OFFSETS[n][2]>>)

(* Choosing among candidates *)

\* ThresholdMatcher.matches, the only place a threshold is applied.
matches(record, candidate) == Score(record.name, candidate.name) >= Threshold

\* key < best_key, where a key is (-score, distance, record_id).
Beats(record, candidate, other) ==
  LET s1 == Score(record.name, candidate.name)
      s2 == Score(record.name, other.name)
      d1 == Distance(record, candidate)
      d2 == Distance(record, other)
  IN  \/ s1 > s2
      \/ s1 = s2 /\ d1 < d2
      \/ s1 = s2 /\ d1 = d2 /\ record_id(candidate) < record_id(other)

----------------------------------------------------------------------------
(* The steps of resolve *)

Init ==
  /\ left \in Lefts /\ right \in Rights
  /\ pc = "index" /\ pos = 1
  /\ right_index = [cell \in {} |-> <<>>]
  /\ offset = 0 /\ candidates = <<>> /\ scanned = 0 /\ best = None
  /\ pairs = <<>> /\ unmatched = <<>> /\ matched_right_ids = {}

\* One record of _index_by_cell: it joins its bucket, or is skipped.
IndexRight ==
  /\ pc = "index" /\ pos <= Len(right)
  /\ LET record == right[pos]
         cell == _cell(record)
     IN  right_index' =
           IF _has_coordinates(record)
           THEN [c \in DOMAIN right_index \cup {cell} |->
                   IF c = cell THEN Append(Bucket(cell), record)
                               ELSE right_index[c]]
           ELSE right_index
  /\ pos' = pos + 1
  /\ UNCHANGED <<args, pc, scan, pairs, unmatched, matched_right_ids>>

StartLeft ==
  /\ pc = "index" /\ pos > Len(right)
  /\ pc' = "left" /\ pos' = 1
  /\ UNCHANGED <<args, right_index, scan, pairs, unmatched, matched_right_ids>>

\* unmatched.append(...) and continue, for a record of the left list.
LeaveUnmatched(reason) ==
  /\ unmatched' = Append(unmatched, [record |-> left[pos], reason |-> reason])
  /\ pc' = "left" /\ pos' = pos + 1
  /\ UNCHANGED <<args, right_index, scan, pairs, matched_right_ids>>

LeftWithoutCoordinates ==
  /\ pc = "left" /\ pos <= Len(left) /\ ~_has_coordinates(left[pos])
  /\ LeaveUnmatched("no coordinates")

StartGather ==
  /\ pc = "left" /\ pos <= Len(left) /\ _has_coordinates(left[pos])
  /\ pc' = "gather" /\ offset' = 0 /\ candidates' = <<>>
  /\ UNCHANGED <<args, pos, right_index, scanned, best, pairs, unmatched,
                 matched_right_ids>>

\* One neighbour cell of _candidates_for.
Gather ==
  /\ pc = "gather" /\ offset < Len(_NEIGHBOUR_OFFSETS)
  /\ offset' = offset + 1
  /\ candidates' = candidates \o NeighbourBucket(left[pos], offset + 1)
  /\ UNCHANGED <<args, pc, pos, right_index, scanned, best, pairs, unmatched,
                 matched_right_ids>>

LeftWithoutCandidates ==
  /\ pc = "gather" /\ offset = Len(_NEIGHBOUR_OFFSETS) /\ candidates = <<>>
  /\ LeaveUnmatched("no candidates")

\* Mutants: the best candidate, or the scan position, of the previous record
\* is kept.
StartSelect_best_kept ==
  /\ pc = "gather" /\ offset = Len(_NEIGHBOUR_OFFSETS) /\ candidates # <<>>
  /\ pc' = "select" /\ scanned' = 0
  /\ UNCHANGED <<args, pos, right_index, offset, candidates, best, pairs,
                 unmatched, matched_right_ids>>

StartSelect ==
  /\ pc = "gather" /\ offset = Len(_NEIGHBOUR_OFFSETS) /\ candidates # <<>>
  /\ pc' = "select" /\ scanned' = 0 /\ best' = None
  /\ UNCHANGED <<args, pos, right_index, offset, candidates, pairs, unmatched,
                 matched_right_ids>>

\* Mutant: of two candidates that tie on score the first one met stays.
Consider_first_of_ties ==
  /\ pc = "select" /\ scanned < Len(candidates)
  /\ LET candidate == candidates[scanned + 1]
         improves  == \/ best = None
                      \/ Score(left[pos].name, candidate.name)
                           > Score(left[pos].name, best.name)
     IN  best' = IF matches(left[pos], candidate) /\ improves
                 THEN candidate ELSE best
  /\ scanned' = scanned + 1
  /\ UNCHANGED <<args, pc, pos, right_index, offset, candidates, pairs,
                 unmatched, matched_right_ids>>

\* One candidate of _select_best.
Consider ==
  /\ pc = "select" /\ scanned < Len(candidates)
  /\ LET candidate == candidates[scanned + 1]
         improves  == \/ best = None
                      \/ Beats(left[pos], candidate, best)
     IN  best' = IF matches(left[pos], candidate) /\ improves
                 THEN candidate ELSE best
  /\ scanned' = scanned + 1
  /\ UNCHANGED <<args, pc, pos, right_index, offset, candidates, pairs,
                 unmatched, matched_right_ids>>

LeftBelowThreshold ==
  /\ pc = "select" /\ scanned = Len(candidates) /\ best = None
  /\ LeaveUnmatched("below threshold")

\* Mutant: the claimed record is never remembered.
LinkBest_unmarked ==
  /\ pc = "select" /\ scanned = Len(candidates) /\ best # None
  /\ pairs' = Append(pairs, [left   |-> left[pos], right |-> best,
                             merged |-> merge(left[pos], best)])
  /\ pc' = "left" /\ pos' = pos + 1
  /\ UNCHANGED <<args, right_index, scan, unmatched, matched_right_ids>>

LinkBest ==
  /\ pc = "select" /\ scanned = Len(candidates) /\ best # None
  /\ pairs' = Append(pairs, [left   |-> left[pos], right |-> best,
                             merged |-> merge(left[pos], best)])
  /\ matched_right_ids' = matched_right_ids \cup {best}
  /\ pc' = "left" /\ pos' = pos + 1
  /\ UNCHANGED <<args, right_index, scan, unmatched>>

StartRight ==
  /\ pc = "left" /\ pos > Len(left)
  /\ pc' = "right" /\ pos' = 1
  /\ UNCHANGED <<args, right_index, scan, pairs, unmatched, matched_right_ids>>

\* A right record some left record claimed: `continue`.
SkipClaimed ==
  /\ pc = "right" /\ pos <= Len(right) /\ right[pos] \in matched_right_ids
  /\ pos' = pos + 1
  /\ UNCHANGED <<args, pc, right_index, scan, pairs, unmatched, matched_right_ids>>

ReportRight ==
  /\ pc = "right" /\ pos <= Len(right) /\ right[pos] \notin matched_right_ids
  /\ unmatched' =
       Append(unmatched,
              [record |-> right[pos],
               reason |-> IF _has_coordinates(right[pos])
                          THEN "not selected" ELSE "no coordinates"])
  /\ pos' = pos + 1
  /\ UNCHANGED <<args, pc, right_index, scan, pairs, matched_right_ids>>

Return ==
  /\ pc = "right" /\ pos > Len(right)
  /\ pc' = "done"
  /\ UNCHANGED <<args, pos, right_index, scan, pairs, unmatched, matched_right_ids>>

Returned == pc = "done" /\ UNCHANGED vars

Next ==
  \/ IndexRight \/ StartLeft
  \/ LeftWithoutCoordinates \/ StartGather \/ Gather \/ LeftWithoutCandidates
  \/ StartSelect \/ Consider \/ LeftBelowThreshold \/ LinkBest
  \/ StartRight \/ SkipClaimed \/ ReportRight \/ Return
  \/ Returned

\* One thread runs resolve to its end; nothing in it blocks.
Spec == Init /\ [][Next]_vars /\ WF_vars(Next)
----------------------------------------------------------------------------
(* What the result says *)

Linked   == {pairs[n].left : n \in 1..Len(pairs)}
Claimed  == {pairs[n].right : n \in 1..Len(pairs)}
Reported == {unmatched[n].record : n \in 1..Len(unmatched)}

\* The records of each list that resolve has finished with.
LeftProcessed ==
  IF pc = "index" THEN 0
  ELSE IF pc \in {"right", "done"} THEN Len(left) ELSE pos - 1

RightProcessed == IF pc \in {"right", "done"} THEN pos - 1 ELSE 0

\* The two records' cells touch: the same cell or one of its eight neighbours.
Touching(r, s) ==
  /\ _has_coordinates(r) /\ _has_coordinates(s)
  /\ _cell(r)[1] - _cell(s)[1] \in -1..1
  /\ _cell(r)[2] - _cell(s)[2] \in -1..1

\* r and s are less than d apart along both axes.
Within(d, r, s) ==
  /\ _has_coordinates(r) /\ _has_coordinates(s)
  /\ r.latitude - s.latitude \in -d..d
  /\ r.longitude - s.longitude \in -d..d

ArgsOK ==
  /\ RecordList(left) /\ RecordList(right)
  /\ Range(left) \cap Range(right) = {}

PlaceOK ==
  /\ pc \in Phases
  /\ pos \in Nat \ {0}
  /\ pc \in {"index", "right", "done"} => pos <= Len(right) + 1
  /\ pc \in {"left", "gather", "select"} => pos <= Len(left) + 1
  /\ pc \in {"gather", "select"} => pos <= Len(left) /\ _has_coordinates(left[pos])

IndexOK == right_index \in [DOMAIN right_index -> Seq(Range(right))]

ScanOK ==
  /\ offset \in 0..Len(_NEIGHBOUR_OFFSETS)
  /\ candidates \in Seq(Range(right))
  /\ scanned \in Nat
  /\ pc = "select" => scanned <= Len(candidates)
  /\ best \in Range(right) \cup {None}

ResultOK ==
  /\ pairs \in Seq([left : Range(left), right : Range(right), merged : MergedRecord])
  /\ unmatched \in Seq([record : Range(left) \cup Range(right), reason : Reasons])
  /\ matched_right_ids \subseteq Range(right)

(* Types of every variable; the index, the candidates and the claims hold   *)
(* nothing but right records, and the loops stay inside their lists.        *)
TypeOK == ArgsOK /\ PlaceOK /\ IndexOK /\ ScanOK /\ ResultOK

(* Retention (FR-1, FR-3): every record resolve has finished with is in the *)
(* result, a left record in exactly one pair or one unmatched entry, a      *)
(* right record in an unmatched entry exactly when no pair claimed it, and  *)
(* nothing is reported twice.                                               *)
EveryRecordAccounted ==
  /\ Linked \cap Reported = {}
  /\ Linked \cup (Reported \cap Range(left)) = {left[p] : p \in 1..LeftProcessed}
  /\ Reported \cap Range(right) = {right[q] : q \in 1..RightProcessed} \ Claimed
  /\ \A m, n \in 1..Len(pairs) : pairs[m].left = pairs[n].left => m = n
  /\ \A m, n \in 1..Len(unmatched) :
       unmatched[m].record = unmatched[n].record => m = n

(* Each link is to the record _select_best documents: it meets the matcher's *)
(* threshold, and beats every other right record of the neighbourhood that   *)
(* does, whatever order the lists and the cells were walked in.              *)
LinkedToTheBest ==
  \A n \in 1..Len(pairs) :
    /\ Touching(pairs[n].left, pairs[n].right)
    /\ matches(pairs[n].left, pairs[n].right)
    /\ \A r \in Range(right) \ {pairs[n].right} :
         Touching(pairs[n].left, r) /\ matches(pairs[n].left, r)
           => Beats(pairs[n].left, pairs[n].right, r)

\* Whether the reason given for a record is so.
Holds(record, reason) ==
  LET near == {r \in Range(right) : Touching(record, r)}
  IN  CASE reason = "no coordinates" -> ~_has_coordinates(record)
        [] reason = "no candidates"  -> _has_coordinates(record) /\ near = {}
        [] reason = "below threshold" ->
             near # {} /\ \A r \in near : ~matches(record, r)
        [] reason = "not selected" ->
             _has_coordinates(record) /\ record \notin Claimed

(* Every unmatched record carries the reason that really applies to it       *)
(* (FR-3: never dropped, and never with somebody else's reason).             *)
ReasonsAreTrue ==
  \A n \in 1..Len(unmatched) : Holds(unmatched[n].record, unmatched[n].reason)

(* Blocking never hides a neighbour: two records no more than a cell's edge  *)
(* apart along each axis are always compared, on whichever side of a cell    *)
(* boundary or of zero they fall.                                            *)
NearbyRecordsAreCandidates ==
  pc = "select" =>
    \A r \in Range(right) :
      Within(CellSize, left[pos], r) => r \in Range(candidates)

(* And it bounds the work: nothing two cell edges away is ever compared.     *)
CandidatesAreNear ==
  pc \in {"gather", "select"} =>
    \A r \in Range(candidates) : Within(2 * CellSize - 1, left[pos], r)

(* Both, of every left record: blocking takes the neighbours, and only them. *)
BlockingIsExact == NearbyRecordsAreCandidates /\ CandidatesAreNear

(* The complexity claim of the module docstring: a left record is compared   *)
(* with each candidate once, and with at most nine buckets' worth of them.   *)
ComparisonsBoundedByOccupancy ==
  pc = "select" =>
    /\ IsInjective(candidates)
    /\ \E bucket \in Range(right_index) : Len(candidates) <= 9 * Len(bucket)

----------------------------------------------------------------------------
(* The abstract specification this one implements *)

Pending == [status |-> "pending", with |-> None]

\* What has been decided of left[p] and of right[q] so far.
Link(p) ==
  IF left[p] \in Linked
  THEN [status |-> "linked",
        with   |-> (CHOOSE pair \in Range(pairs) : pair.left = left[p]).right]
  ELSE IF left[p] \in Reported
  THEN [status |-> (CHOOSE entry \in Range(unmatched) :
                      entry.record = left[p]).reason,
        with   |-> None]
  ELSE Pending

Fate(q) ==
  IF q > RightProcessed THEN "pending"
  ELSE IF right[q] \in Reported
  THEN (CHOOSE entry \in Range(unmatched) : entry.record = right[q]).reason
  ELSE "claimed"

L == INSTANCE Linkage WITH
       link <- [p \in 1..Len(left) |-> Link(p)],
       fate <- [q \in 1..Len(right) |-> Fate(q)]

(* resolve implements the linkage Linkage.tla states: the index, the scan    *)
(* order and the bookkeeping never show in the decisions.                    *)
ImplementsLinkage == L!Spec
============================================================================
