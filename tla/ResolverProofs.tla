--------------------------- MODULE ResolverProofs ---------------------------
(***************************************************************************)
(* Theorems about Resolver, for every cell size and every pair of lists:   *)
(* no record is lost or counted twice; blocking compares every pair of     *)
(* records within a cell's edge of each other and none two edges apart, at *)
(* no more work than the occupancy announces; links go to the best of what *)
(* was compared, reasons are true of who they are given to, and every step *)
(* is one of Linkage's decisions.                                          *)
(***************************************************************************)
EXTENDS Resolver, TLAPS, SequenceTheorems, FiniteSetTheorems

----------------------------------------------------------------------------
(* The merge policy *)

(* Every record _winner returns is one of its two arguments.                *)
LEMMA WinnerIsOneOfThem ==
  ASSUME NEW a, NEW b
  PROVE  _winner(a, b) \in {a, b} /\ _loser(a, b) \in {a, b}
BY Zenon DEF _winner, _loser

(* Updating a "fields" dict with another gives a "fields" dict.             *)
LEMMA UpdatedType ==
  ASSUME NEW f \in Fields, NEW g \in Fields
  PROVE  Updated(f, g) \in Fields
<1>1. PICK K \in SUBSET Keys : f \in [K -> Values]
  BY DEF Fields
<1>2. PICK M \in SUBSET Keys : g \in [M -> Values]
  BY DEF Fields
<1>3. Updated(f, g) \in [K \cup M -> Values]
  BY <1>1, <1>2 DEF Updated
<1>4. K \cup M \in SUBSET Keys
  OBVIOUS
<1> QED
  BY <1>3, <1>4, Zenon DEF Fields

(* merge of two records is a merged record, whichever has coordinates.      *)
LEMMA MergeType ==
  ASSUME NEW a \in Rows, NEW b \in Rows
  PROVE  merge(a, b) \in MergedRecord
<1>1. a \in Record /\ b \in Record
  BY RowsAssumption
<1> DEFINE w == _winner(a, b)
           l == _loser(a, b)
           g == CoordinateGiver(a, b)
<1>2. w \in Record /\ l \in Record
  BY <1>1, WinnerIsOneOfThem
<1>3. g \in Record
  BY <1>1, <1>2 DEF CoordinateGiver
<1>4. MergedFields(a, b) \in Fields
  BY <1>2, UpdatedType DEF MergedFields, Record
<1>5. {a.source, b.source} \in SUBSET Sources
  BY <1>1 DEF Record
<1>6. /\ w.name \in Names
      /\ g.latitude \in Coordinate /\ g.longitude \in Coordinate
      /\ None \in Coordinate
  BY <1>2, <1>3 DEF Record, Coordinate
<1> QED
  BY <1>4, <1>5, <1>6 DEF merge, MergedRecord

----------------------------------------------------------------------------
(* Types *)

(* The offsets are those of a cell and its eight neighbours.                *)
LEMMA NineOffsets ==
  /\ Len(_NEIGHBOUR_OFFSETS) = 9
  /\ \A n \in 1..9 : _NEIGHBOUR_OFFSETS[n] \in (-1..1) \X (-1..1)
BY DEF _NEIGHBOUR_OFFSETS

(* The record a list holds at a position it has is one of its records.      *)
LEMMA RangeOfList ==
  ASSUME NEW S, NEW s \in Seq(S), NEW p \in 1..Len(s)
  PROVE  s[p] \in Range(s) /\ s[p] \in S
BY DEF Range

(* A list is a sequence over the records it holds.                          *)
LEMMA ListOverItsRange ==
  ASSUME NEW S, NEW s \in Seq(S)
  PROVE  Len(s) \in Nat /\ s \in Seq(Range(s)) /\ Range(s) \subseteq S
<1>1. Len(s) \in Nat /\ DOMAIN s = 1..Len(s)
  OBVIOUS
<1>2. s = [p \in 1..Len(s) |-> s[p]]
  BY <1>1
<1>3. s \in [1..Len(s) -> Range(s)]
  BY <1>1, <1>2 DEF Range
<1>4. s \in Seq(Range(s))
  BY <1>1, <1>3, SeqDef
<1>5. Range(s) \subseteq S
  BY DEF Range
<1> QED
  BY <1>1, <1>4, <1>5

(* A bucket holds right records.                                            *)
LEMMA BucketType ==
  ASSUME NEW cell, right_index \in [DOMAIN right_index -> Seq(Range(right))]
  PROVE  Bucket(cell) \in Seq(Range(right))
BY DEF Bucket

(* resolve never changes its arguments.                                     *)
LEMMA ArgsStay ==
  ASSUME [Next]_vars
  PROVE  left' = left /\ right' = right
BY DEF Next, vars, args, IndexRight, StartLeft, LeftWithoutCoordinates,
       StartGather, Gather, LeftWithoutCandidates, StartSelect, Consider,
       LeftBelowThreshold, LinkBest, StartRight, SkipClaimed, ReportRight,
       Return, Returned, LeaveUnmatched

(* What the types of the arguments say of their lengths and ranges.         *)
LEMMA ArgsFacts ==
  ASSUME ArgsOK
  PROVE  /\ Len(left) \in Nat /\ Len(right) \in Nat
         /\ left \in Seq(Range(left)) /\ right \in Seq(Range(right))
         /\ Range(left) \subseteq Rows /\ Range(right) \subseteq Rows
BY ListOverItsRange DEF ArgsOK, RecordList

(* The types hold at the start.                                             *)
LEMMA InitTypes == Init => TypeOK
<1> SUFFICES ASSUME Init PROVE TypeOK
  OBVIOUS
<1>1. ArgsOK
  BY ListsAssumption DEF Init, ArgsOK
<1>2. PlaceOK
  BY <1>1, ArgsFacts DEF Init, PlaceOK, Phases
<1>3. IndexOK
  BY DEF Init, IndexOK
<1>4. ScanOK
  BY NineOffsets DEF Init, ScanOK
<1>5. ResultOK
  BY DEF Init, ResultOK
<1> QED
  BY <1>1, <1>2, <1>3, <1>4, <1>5 DEF TypeOK

(* Every step keeps the place the run is at.                                *)
LEMMA NextPlace == TypeOK /\ [Next]_vars => PlaceOK'
<1> SUFFICES ASSUME TypeOK, [Next]_vars PROVE PlaceOK'
  OBVIOUS
<1>1. left' = left /\ right' = right
  BY ArgsStay
<1>2. Len(left) \in Nat /\ Len(right) \in Nat /\ PlaceOK
  BY ArgsFacts DEF TypeOK
<1>3. CASE UNCHANGED <<pc, pos>>
  BY <1>1, <1>2, <1>3 DEF PlaceOK
<1>4. CASE IndexRight \/ SkipClaimed \/ ReportRight
  <2>1. /\ pc' = pc /\ pos' = pos + 1
        /\ pc \in {"index", "right"} /\ pos <= Len(right)
    BY <1>4 DEF IndexRight, SkipClaimed, ReportRight
  <2> QED
    BY <1>1, <1>2, <2>1 DEF PlaceOK
<1>5. CASE StartLeft \/ StartRight \/ Return
  BY <1>1, <1>2, <1>5 DEF PlaceOK, Phases, StartLeft, StartRight, Return
<1>6. CASE StartGather \/ StartSelect
  BY <1>1, <1>2, <1>6 DEF PlaceOK, Phases, StartGather, StartSelect
<1>7. CASE \/ LeftWithoutCoordinates \/ LeftWithoutCandidates
           \/ LeftBelowThreshold \/ LinkBest
  <2>1. pc' = "left" /\ pos' = pos + 1 /\ pos <= Len(left)
    BY <1>2, <1>7
       DEF PlaceOK, LeftWithoutCoordinates, LeftWithoutCandidates,
           LeftBelowThreshold, LinkBest, LeaveUnmatched
  <2> QED
    BY <1>1, <1>2, <2>1 DEF PlaceOK, Phases
<1> QED
  BY <1>3, <1>4, <1>5, <1>6, <1>7
     DEF Next, vars, Gather, Consider, Returned

(* Every step keeps the type of the index.                                  *)
LEMMA NextIndex == TypeOK /\ [Next]_vars => IndexOK'
<1> SUFFICES ASSUME TypeOK, [Next]_vars PROVE IndexOK'
  OBVIOUS
<1>1. right' = right
  BY ArgsStay
<1>2. IndexOK /\ PlaceOK /\ right \in Seq(Range(right))
  BY ArgsFacts DEF TypeOK
<1>3. CASE UNCHANGED right_index
  BY <1>1, <1>2, <1>3 DEF IndexOK
<1>4. CASE IndexRight
  <2>1. right[pos] \in Range(right)
    BY <1>2, <1>4, RangeOfList DEF IndexRight, PlaceOK
  <2>2. Bucket(_cell(right[pos])) \in Seq(Range(right))
    BY <1>2, BucketType DEF IndexOK
  <2>3. Append(Bucket(_cell(right[pos])), right[pos]) \in Seq(Range(right))
    BY <2>1, <2>2
  <2> QED
    BY <1>1, <1>2, <1>4, <2>3 DEF IndexRight, IndexOK
<1> QED
  BY <1>3, <1>4
     DEF Next, vars, StartLeft, LeftWithoutCoordinates, StartGather, Gather,
         LeftWithoutCandidates, StartSelect, Consider, LeftBelowThreshold,
         LinkBest, StartRight, SkipClaimed, ReportRight, Return, Returned,
         LeaveUnmatched

(* Every step keeps the type of the scan.                                   *)
LEMMA NextScan == TypeOK /\ [Next]_vars => ScanOK'
<1> SUFFICES ASSUME TypeOK, [Next]_vars PROVE ScanOK'
  OBVIOUS
<1>1. right' = right
  BY ArgsStay
<1>2. IndexOK /\ ScanOK
  BY DEF TypeOK
<1>3. CASE UNCHANGED scan /\ (pc' = "select" => pc = "select")
  BY <1>1, <1>2, <1>3 DEF ScanOK, scan
<1>4. CASE StartGather
  BY <1>1, <1>2, <1>4, NineOffsets DEF ScanOK, StartGather
<1>5. CASE Gather
  <2>1. NeighbourBucket(left[pos], offset + 1) \in Seq(Range(right))
    BY <1>2, BucketType DEF IndexOK, NeighbourBucket
  <2> QED
    BY <1>1, <1>2, <1>5, <2>1, NineOffsets DEF ScanOK, Gather
<1>6. CASE StartSelect
  BY <1>1, <1>2, <1>6 DEF ScanOK, StartSelect
<1>7. CASE Consider
  <2>1. candidates[scanned + 1] \in Range(right)
    BY <1>2, <1>7 DEF ScanOK, Consider
  <2> QED
    BY <1>1, <1>2, <1>7, <2>1 DEF ScanOK, Consider
<1> QED
  BY <1>3, <1>4, <1>5, <1>6, <1>7
     DEF Next, vars, IndexRight, StartLeft, LeftWithoutCoordinates,
         LeftWithoutCandidates, LeftBelowThreshold, LinkBest, StartRight,
         SkipClaimed, ReportRight, Return, Returned, LeaveUnmatched

(* Every step keeps the type of the result.                                 *)
LEMMA NextResult == TypeOK /\ [Next]_vars => ResultOK'
<1> SUFFICES ASSUME TypeOK, [Next]_vars PROVE ResultOK'
  OBVIOUS
<1> DEFINE Entry == [record : Range(left) \cup Range(right), reason : Reasons]
           Pair == [left : Range(left), right : Range(right), merged : MergedRecord]
<1>1. left' = left /\ right' = right
  BY ArgsStay
<1>2. /\ pairs \in Seq(Pair) /\ unmatched \in Seq(Entry)
      /\ matched_right_ids \subseteq Range(right)
  BY DEF TypeOK, ResultOK
<1>3. /\ ArgsOK /\ PlaceOK /\ best \in Range(right) \cup {None}
      /\ Len(left) \in Nat /\ Len(right) \in Nat
      /\ left \in Seq(Range(left)) /\ right \in Seq(Range(right))
      /\ Range(left) \subseteq Rows /\ Range(right) \subseteq Rows
  BY ArgsFacts DEF TypeOK, ScanOK
<1>4. SUFFICES /\ pairs' \in Seq(Pair) /\ unmatched' \in Seq(Entry)
               /\ matched_right_ids' \subseteq Range(right)
  BY <1>1 DEF ResultOK
<1> HIDE DEF Entry, Pair
<1>5. CASE UNCHANGED <<pairs, unmatched, matched_right_ids>>
  BY <1>2, <1>5
<1>6. ASSUME NEW record \in Range(left) \cup Range(right), NEW reason \in Reasons,
             unmatched' = Append(unmatched, [record |-> record, reason |-> reason])
      PROVE  unmatched' \in Seq(Entry)
  <2>1. [record |-> record, reason |-> reason] \in Entry
    BY DEF Entry
  <2> QED
    BY <1>2, <1>6, <2>1
<1>7. CASE LeftWithoutCoordinates \/ LeftWithoutCandidates \/ LeftBelowThreshold
  <2>0. pos <= Len(left)
    BY <1>3, <1>7 DEF LeftWithoutCoordinates, LeftWithoutCandidates,
                      LeftBelowThreshold, PlaceOK
  <2>1. pos \in 1..Len(left)
    BY <1>3, <2>0 DEF PlaceOK
  <2>2. left[pos] \in Range(left)
    BY <1>3, <2>1, RangeOfList
  <2>3. \E reason \in Reasons :
          unmatched' = Append(unmatched, [record |-> left[pos], reason |-> reason])
    BY <1>7 DEF LeftWithoutCoordinates, LeftWithoutCandidates,
                LeftBelowThreshold, LeaveUnmatched, Reasons
  <2>4. unmatched' \in Seq(Entry)
    BY <1>6, <2>2, <2>3
  <2>5. UNCHANGED <<pairs, matched_right_ids>>
    BY <1>7 DEF LeftWithoutCoordinates, LeftWithoutCandidates,
                LeftBelowThreshold, LeaveUnmatched
  <2> QED
    BY <1>2, <2>4, <2>5
<1>8. CASE LinkBest
  <2>1. pos \in 1..Len(left) /\ best \in Range(right)
    BY <1>3, <1>8 DEF LinkBest, PlaceOK
  <2>2. left[pos] \in Range(left)
    BY <1>3, <2>1, RangeOfList
  <2>3. merge(left[pos], best) \in MergedRecord
    BY <1>3, <2>1, <2>2, MergeType
  <2>4. [left |-> left[pos], right |-> best, merged |-> merge(left[pos], best)] \in Pair
    BY <2>1, <2>2, <2>3 DEF Pair
  <2> QED
    BY <1>2, <1>8, <2>1, <2>4 DEF LinkBest
<1>9. CASE ReportRight
  <2>0. pos <= Len(right)
    BY <1>9 DEF ReportRight
  <2>1. pos \in 1..Len(right)
    BY <1>3, <2>0 DEF PlaceOK
  <2>2. right[pos] \in Range(right)
    BY <1>3, <2>1, RangeOfList
  <2>3. \E reason \in Reasons :
          unmatched' = Append(unmatched, [record |-> right[pos], reason |-> reason])
    BY <1>9 DEF ReportRight, Reasons
  <2>4. unmatched' \in Seq(Entry)
    BY <1>6, <2>2, <2>3
  <2>5. UNCHANGED <<pairs, matched_right_ids>>
    BY <1>9 DEF ReportRight
  <2> QED
    BY <1>2, <2>4, <2>5
<1> QED
  BY <1>5, <1>7, <1>8, <1>9
     DEF Next, vars, IndexRight, StartLeft, StartGather, Gather, StartSelect,
         Consider, StartRight, SkipClaimed, Return, Returned

(* Type correctness of resolve: its loops stay inside their lists, and what *)
(* it indexes, considers and claims are records of the right list.          *)
THEOREM TypeCorrect == Spec => []TypeOK
<1>1. Init => TypeOK
  BY InitTypes
<1>2. TypeOK /\ [Next]_vars => TypeOK'
  <2> SUFFICES ASSUME TypeOK, [Next]_vars PROVE TypeOK'
    OBVIOUS
  <2>1. ArgsOK'
    BY ArgsStay DEF TypeOK, ArgsOK
  <2> QED
    BY <2>1, NextPlace, NextIndex, NextScan, NextResult DEF TypeOK
<1> QED
  BY <1>1, <1>2, PTL DEF Spec

----------------------------------------------------------------------------
(* Retention *)

(* What appending one entry does to the sets the accounting speaks of.      *)
LEMMA ReportOne ==
  ASSUME NEW S, unmatched \in Seq(S), NEW record, NEW reason,
         unmatched' = Append(unmatched, [record |-> record, reason |-> reason])
  PROVE  /\ Reported' = Reported \cup {record}
         /\ (\A m, n \in 1..Len(unmatched) :
               unmatched[m].record = unmatched[n].record => m = n)
              /\ record \notin Reported
            => \A m, n \in 1..Len(unmatched') :
                 unmatched'[m].record = unmatched'[n].record => m = n
<1> DEFINE k == Len(unmatched)
<1>1. /\ k \in Nat /\ Len(unmatched') = k + 1
      /\ \A n \in 1..k : unmatched'[n] = unmatched[n]
      /\ unmatched'[k + 1].record = record
  OBVIOUS
<1>2. 1..(k + 1) = 1..k \cup {k + 1}
  BY <1>1
<1>3. Reported' = {unmatched'[n].record : n \in 1..(k + 1)}
  BY <1>1 DEF Reported
<1> HIDE DEF k
<1>4. {unmatched'[n].record : n \in 1..(k + 1)}
        = {unmatched[n].record : n \in 1..k} \cup {record}
  BY <1>1, <1>2
<1>5. Reported = {unmatched[n].record : n \in 1..k}
  BY DEF Reported, k
<1>6. ASSUME \A m, n \in 1..k : unmatched[m].record = unmatched[n].record => m = n,
             record \notin Reported,
             NEW m \in 1..(k + 1), NEW n \in 1..(k + 1),
             unmatched'[m].record = unmatched'[n].record
      PROVE  m = n
  <2>1. CASE m \in 1..k /\ n \in 1..k
    BY <1>1, <1>6, <2>1
  <2>2. CASE m = k + 1 /\ n \in 1..k
    BY <1>1, <1>5, <1>6, <2>2
  <2>3. CASE n = k + 1 /\ m \in 1..k
    BY <1>1, <1>5, <1>6, <2>3
  <2> QED
    BY <1>2, <2>1, <2>2, <2>3
<1> QED
  BY <1>1, <1>3, <1>4, <1>5, <1>6 DEF k

(* Linking a pair adds one row, and takes one record from each file.        *)
LEMMA LinkOne ==
  ASSUME NEW S, pairs \in Seq(S), NEW l, NEW r, NEW m,
         pairs' = Append(pairs, [left |-> l, right |-> r, merged |-> m])
  PROVE  /\ Linked' = Linked \cup {l} /\ Claimed' = Claimed \cup {r}
         /\ (\A i, j \in 1..Len(pairs) : pairs[i].left = pairs[j].left => i = j)
              /\ l \notin Linked
            => \A i, j \in 1..Len(pairs') :
                 pairs'[i].left = pairs'[j].left => i = j
<1> DEFINE k == Len(pairs)
<1>1. /\ k \in Nat /\ Len(pairs') = k + 1
      /\ \A n \in 1..k : pairs'[n] = pairs[n]
      /\ pairs'[k + 1].left = l /\ pairs'[k + 1].right = r
  OBVIOUS
<1>2. 1..(k + 1) = 1..k \cup {k + 1}
  BY <1>1
<1>3. /\ Linked' = {pairs'[n].left : n \in 1..(k + 1)}
      /\ Claimed' = {pairs'[n].right : n \in 1..(k + 1)}
  BY <1>1 DEF Linked, Claimed
<1> HIDE DEF k
<1>4. {pairs'[n].left : n \in 1..(k + 1)} = {pairs[n].left : n \in 1..k} \cup {l}
  BY <1>1, <1>2
<1>5. {pairs'[n].right : n \in 1..(k + 1)} = {pairs[n].right : n \in 1..k} \cup {r}
  BY <1>1, <1>2
<1>6. /\ Linked = {pairs[n].left : n \in 1..k}
      /\ Claimed = {pairs[n].right : n \in 1..k}
  BY DEF Linked, Claimed, k
<1>7. ASSUME \A i, j \in 1..k : pairs[i].left = pairs[j].left => i = j,
             l \notin Linked,
             NEW i \in 1..(k + 1), NEW j \in 1..(k + 1),
             pairs'[i].left = pairs'[j].left
      PROVE  i = j
  <2>1. CASE i \in 1..k /\ j \in 1..k
    BY <1>1, <1>7, <2>1
  <2>2. CASE i = k + 1 /\ j \in 1..k
    BY <1>1, <1>6, <1>7, <2>2
  <2>3. CASE j = k + 1 /\ i \in 1..k
    BY <1>1, <1>6, <1>7, <2>3
  <2> QED
    BY <1>2, <2>1, <2>2, <2>3
<1> QED
  BY <1>1, <1>3, <1>4, <1>5, <1>6, <1>7 DEF k

(* The records before position p of a list, and the one at p is not yet     *)
(* among them.                                                              *)
LEMMA OneMore ==
  ASSUME NEW s, RecordList(s), NEW p \in 1..Len(s)
  PROVE  /\ {s[q] : q \in 1..p} = {s[q] : q \in 1..(p - 1)} \cup {s[p]}
         /\ s[p] \notin {s[q] : q \in 1..(p - 1)}
<1>1. Len(s) \in Nat
  BY DEF RecordList
<1>2. 1..p = 1..(p - 1) \cup {p} /\ p \notin 1..(p - 1)
  BY <1>1
<1>3. \A q \in 1..(p - 1) : q \in 1..Len(s) /\ q # p
  BY <1>1
<1> QED
  BY <1>2, <1>3 DEF RecordList

(* The inductive form of the retention property: the id set the right sweep *)
(* consults is exactly the set of records some pair claims.                 *)
Accounted == EveryRecordAccounted /\ matched_right_ids = Claimed

(* Nothing is accounted for before the run.                                 *)
LEMMA InitAccounted == Init => Accounted
<1> SUFFICES ASSUME Init PROVE Accounted
  OBVIOUS
<1>1. Linked = {} /\ Claimed = {} /\ Reported = {}
  BY DEF Init, Linked, Claimed, Reported
<1>2. LeftProcessed = 0 /\ RightProcessed = 0
  BY DEF Init, LeftProcessed, RightProcessed
<1> QED
  BY <1>1, <1>2 DEF Init, Accounted, EveryRecordAccounted

\* The steps that decide nothing.
LEMMA QuietAccounted ==
  ASSUME Accounted, UNCHANGED <<left, right, pairs, unmatched, matched_right_ids>>,
         LeftProcessed' = LeftProcessed, RightProcessed' = RightProcessed
  PROVE  Accounted'
<1>1. Linked' = Linked /\ Claimed' = Claimed /\ Reported' = Reported
  BY DEF Linked, Claimed, Reported
<1>2. /\ {left'[p] : p \in 1..LeftProcessed'} = {left[p] : p \in 1..LeftProcessed}
      /\ {right'[q] : q \in 1..RightProcessed'} = {right[q] : q \in 1..RightProcessed}
  OBVIOUS
<1>3. /\ \A m, n \in 1..Len(pairs') : pairs'[m].left = pairs'[n].left => m = n
      /\ \A m, n \in 1..Len(unmatched') :
           unmatched'[m].record = unmatched'[n].record => m = n
  BY DEF Accounted, EveryRecordAccounted
<1>4. matched_right_ids' = Claimed'
  BY <1>1 DEF Accounted
<1> QED
  BY <1>1, <1>2, <1>3, <1>4 DEF Accounted, EveryRecordAccounted

(* Leaving a record unlinked accounts for it.                               *)
LEMMA LeaveAccounted ==
  ASSUME TypeOK, Accounted, NEW reason, LeaveUnmatched(reason),
         pc \in {"left", "gather", "select"}, pos <= Len(left)
  PROVE  Accounted'
<1>1. /\ ArgsOK /\ pos \in 1..Len(left) /\ Len(left) \in Nat
      /\ Range(left) \cap Range(right) = {} /\ left \in Seq(Range(left))
  BY ArgsFacts DEF TypeOK, PlaceOK, ArgsOK
<1>2. /\ left' = left /\ right' = right /\ pairs' = pairs
      /\ matched_right_ids' = matched_right_ids
      /\ pc' = "left" /\ pos' = pos + 1
  BY DEF LeaveUnmatched, args
<1>3. LeftProcessed = pos - 1 /\ LeftProcessed' = pos
  BY <1>1, <1>2 DEF LeftProcessed
<1>4. RightProcessed = 0 /\ RightProcessed' = 0
  BY <1>2 DEF RightProcessed
<1>5. Linked' = Linked /\ Claimed' = Claimed
  BY <1>2 DEF Linked, Claimed
<1>6. left[pos] \in Range(left)
  BY <1>1, RangeOfList
<1>7. /\ {left[p] : p \in 1..pos} = {left[p] : p \in 1..(pos - 1)} \cup {left[pos]}
      /\ left[pos] \notin {left[p] : p \in 1..(pos - 1)}
  BY <1>1, OneMore DEF ArgsOK
<1>8. left[pos] \notin Linked \cup Reported
  BY <1>3, <1>6, <1>7 DEF Accounted, EveryRecordAccounted
<1>9. /\ Reported' = Reported \cup {left[pos]}
      /\ \A m, n \in 1..Len(unmatched') :
           unmatched'[m].record = unmatched'[n].record => m = n
  BY <1>8, ReportOne
     DEF TypeOK, ResultOK, LeaveUnmatched, Accounted, EveryRecordAccounted
<1>10. Linked' \cap Reported' = {}
  BY <1>5, <1>8, <1>9 DEF Accounted, EveryRecordAccounted
<1>11. Linked' \cup (Reported' \cap Range(left'))
         = {left'[p] : p \in 1..LeftProcessed'}
  <2>1. {left'[p] : p \in 1..LeftProcessed'} = {left[p] : p \in 1..pos}
    BY <1>2, <1>3
  <2>2. Linked \cup (Reported \cap Range(left)) = {left[p] : p \in 1..(pos - 1)}
    BY <1>3 DEF Accounted, EveryRecordAccounted
  <2> QED
    BY <1>2, <1>5, <1>6, <1>7, <1>9, <2>1, <2>2
<1>12. Reported' \cap Range(right') = Reported \cap Range(right)
  BY <1>1, <1>2, <1>6, <1>9
<1>13. Reported' \cap Range(right')
         = {right'[q] : q \in 1..RightProcessed'} \ Claimed'
  BY <1>2, <1>4, <1>5, <1>12 DEF Accounted, EveryRecordAccounted
<1>14. matched_right_ids' = Claimed'
  BY <1>2, <1>5 DEF Accounted
<1> QED
  BY <1>2, <1>9, <1>10, <1>11, <1>13, <1>14 DEF Accounted, EveryRecordAccounted

(* Linking it accounts for both.                                            *)
LEMMA LinkAccounted == TypeOK /\ Accounted /\ LinkBest => Accounted'
<1> SUFFICES ASSUME TypeOK, Accounted, LinkBest PROVE Accounted'
  OBVIOUS
<1>1. /\ ArgsOK /\ pos \in 1..Len(left) /\ Len(left) \in Nat
      /\ Range(left) \cap Range(right) = {} /\ left \in Seq(Range(left))
      /\ best \in Range(right) /\ pc = "select"
  <2>1. pc = "select" /\ best # None
    BY DEF LinkBest
  <2>2. PlaceOK /\ ScanOK /\ ArgsOK
    BY DEF TypeOK
  <2>3. pos \in Nat \ {0} /\ pos <= Len(left) /\ best \in Range(right)
    BY <2>1, <2>2 DEF PlaceOK, ScanOK
  <2> QED
    BY <2>1, <2>2, <2>3, ArgsFacts DEF ArgsOK
<1>2. /\ left' = left /\ right' = right /\ unmatched' = unmatched
      /\ matched_right_ids' = matched_right_ids \cup {best}
      /\ pc' = "left" /\ pos' = pos + 1
  BY DEF LinkBest, args
<1>3. LeftProcessed = pos - 1 /\ LeftProcessed' = pos
  BY <1>1, <1>2 DEF LeftProcessed
<1>4. RightProcessed = 0 /\ RightProcessed' = 0
  BY <1>1, <1>2 DEF RightProcessed
<1>5. Reported' = Reported
  BY <1>2 DEF Reported
<1>6. left[pos] \in Range(left)
  BY <1>1, RangeOfList
<1>7. /\ {left[p] : p \in 1..pos} = {left[p] : p \in 1..(pos - 1)} \cup {left[pos]}
      /\ left[pos] \notin {left[p] : p \in 1..(pos - 1)}
  BY <1>1, OneMore DEF ArgsOK
<1>8. left[pos] \notin Linked \cup Reported
  BY <1>3, <1>6, <1>7 DEF Accounted, EveryRecordAccounted
<1>9. /\ Linked' = Linked \cup {left[pos]} /\ Claimed' = Claimed \cup {best}
      /\ \A m, n \in 1..Len(pairs') : pairs'[m].left = pairs'[n].left => m = n
  BY <1>8, LinkOne DEF TypeOK, ResultOK, LinkBest, Accounted, EveryRecordAccounted
<1>10. Linked' \cap Reported' = {}
  BY <1>5, <1>8, <1>9 DEF Accounted, EveryRecordAccounted
<1>11. Linked' \cup (Reported' \cap Range(left'))
         = {left'[p] : p \in 1..LeftProcessed'}
  <2>1. {left'[p] : p \in 1..LeftProcessed'} = {left[p] : p \in 1..pos}
    BY <1>2, <1>3
  <2>2. Linked \cup (Reported \cap Range(left)) = {left[p] : p \in 1..(pos - 1)}
    BY <1>3 DEF Accounted, EveryRecordAccounted
  <2> QED
    BY <1>2, <1>5, <1>6, <1>7, <1>9, <2>1, <2>2
<1>12. Reported \cap Range(right) = {}
  BY <1>4 DEF Accounted, EveryRecordAccounted
<1>13. Reported' \cap Range(right')
         = {right'[q] : q \in 1..RightProcessed'} \ Claimed'
  BY <1>2, <1>4, <1>5, <1>12
<1>14. matched_right_ids' = Claimed'
  BY <1>2, <1>9 DEF Accounted
<1>15. \A m, n \in 1..Len(unmatched') :
         unmatched'[m].record = unmatched'[n].record => m = n
  BY <1>2 DEF Accounted, EveryRecordAccounted
<1> QED
  BY <1>9, <1>10, <1>11, <1>13, <1>14, <1>15 DEF Accounted, EveryRecordAccounted

(* The sweep of what is left accounts for the rest.                         *)
LEMMA SweepAccounted ==
  TypeOK /\ Accounted /\ (SkipClaimed \/ ReportRight) => Accounted'
<1> SUFFICES ASSUME TypeOK, Accounted, SkipClaimed \/ ReportRight PROVE Accounted'
  OBVIOUS
<1>1. pc = "right" /\ pos <= Len(right)
  BY DEF SkipClaimed, ReportRight
<1>2. /\ ArgsOK /\ pos \in 1..Len(right) /\ Len(right) \in Nat
      /\ Range(left) \cap Range(right) = {} /\ right \in Seq(Range(right))
  BY <1>1, ArgsFacts DEF TypeOK, PlaceOK, ArgsOK
<1>3. /\ left' = left /\ right' = right /\ pairs' = pairs
      /\ matched_right_ids' = matched_right_ids
      /\ pc' = "right" /\ pos' = pos + 1
  BY DEF SkipClaimed, ReportRight, args
<1>4. LeftProcessed' = LeftProcessed
  BY <1>1, <1>3 DEF LeftProcessed
<1>5. RightProcessed = pos - 1 /\ RightProcessed' = pos
  BY <1>1, <1>2, <1>3 DEF RightProcessed
<1>6. Linked' = Linked /\ Claimed' = Claimed
  BY <1>3 DEF Linked, Claimed
<1>7. right[pos] \in Range(right)
  BY <1>2, RangeOfList
<1>8. /\ {right[q] : q \in 1..pos} = {right[q] : q \in 1..(pos - 1)} \cup {right[pos]}
      /\ right[pos] \notin {right[q] : q \in 1..(pos - 1)}
  BY <1>2, OneMore DEF ArgsOK
<1>9. right[pos] \notin Reported
  BY <1>5, <1>7, <1>8 DEF Accounted, EveryRecordAccounted
<1>10. matched_right_ids' = Claimed'
  BY <1>3, <1>6 DEF Accounted
<1>11. \A m, n \in 1..Len(pairs') : pairs'[m].left = pairs'[n].left => m = n
  BY <1>3 DEF Accounted, EveryRecordAccounted
<1>12. CASE SkipClaimed
  <2>1. unmatched' = unmatched /\ right[pos] \in Claimed
    BY <1>12 DEF SkipClaimed, Accounted
  <2>2. Reported' = Reported
    BY <2>1 DEF Reported
  <2>3. Reported' \cap Range(right')
          = {right'[q] : q \in 1..RightProcessed'} \ Claimed'
    <3>1. {right'[q] : q \in 1..RightProcessed'} = {right[q] : q \in 1..pos}
      BY <1>3, <1>5
    <3>2. Reported \cap Range(right) = {right[q] : q \in 1..(pos - 1)} \ Claimed
      BY <1>5 DEF Accounted, EveryRecordAccounted
    <3> QED
      BY <1>3, <1>6, <1>7, <1>8, <2>1, <2>2, <3>1, <3>2
  <2> QED
    BY <1>3, <1>4, <1>6, <1>10, <1>11, <2>1, <2>2, <2>3
       DEF Accounted, EveryRecordAccounted
<1>13. CASE ReportRight
  <2>1. right[pos] \notin Claimed
    BY <1>13 DEF ReportRight, Accounted
  <2>2. /\ Reported' = Reported \cup {right[pos]}
        /\ \A m, n \in 1..Len(unmatched') :
             unmatched'[m].record = unmatched'[n].record => m = n
    BY <1>9, <1>13, ReportOne
       DEF TypeOK, ResultOK, ReportRight, Accounted, EveryRecordAccounted
  <2>3. Reported' \cap Range(right')
          = {right'[q] : q \in 1..RightProcessed'} \ Claimed'
    <3>1. {right'[q] : q \in 1..RightProcessed'} = {right[q] : q \in 1..pos}
      BY <1>3, <1>5
    <3>2. Reported \cap Range(right) = {right[q] : q \in 1..(pos - 1)} \ Claimed
      BY <1>5 DEF Accounted, EveryRecordAccounted
    <3> QED
      BY <1>3, <1>6, <1>7, <1>8, <2>1, <2>2, <3>1, <3>2
  <2>4. Linked \subseteq Range(left)
    <3> DEFINE Pair == [left : Range(left), right : Range(right), merged : MergedRecord]
    <3>1. ASSUME NEW n \in 1..Len(pairs) PROVE pairs[n].left \in Range(left)
      <4>1. pairs \in Seq(Pair)
        BY DEF TypeOK, ResultOK
      <4>2. pairs[n] \in Pair
        BY <4>1, RangeOfList, Zenon
      <4> QED
        BY <4>2
    <3> QED
      BY <3>1 DEF Linked
  <2>5. Reported' \cap Range(left') = Reported \cap Range(left)
    BY <1>2, <1>3, <1>7, <2>2
  <2>6. Linked' \cap Reported' = {}
    BY <1>2, <1>6, <1>7, <2>2, <2>4 DEF Accounted, EveryRecordAccounted
  <2>7. Linked' \cup (Reported' \cap Range(left'))
          = {left'[p] : p \in 1..LeftProcessed'}
    BY <1>3, <1>4, <1>6, <2>5 DEF Accounted, EveryRecordAccounted
  <2> QED
    BY <1>10, <1>11, <2>2, <2>3, <2>6, <2>7 DEF Accounted, EveryRecordAccounted
<1> QED
  BY <1>12, <1>13

(* Every step keeps the accounts.                                           *)
LEMMA NextAccounted == TypeOK /\ Accounted /\ [Next]_vars => Accounted'
<1> SUFFICES ASSUME TypeOK, Accounted, [Next]_vars PROVE Accounted'
  OBVIOUS
<1> USE DEF PlaceOK
<1>1. /\ PlaceOK /\ Len(left) \in Nat /\ Len(right) \in Nat
      /\ left' = left /\ right' = right
  BY ArgsFacts, ArgsStay DEF TypeOK
<1>2. CASE \/ IndexRight \/ StartLeft \/ StartGather \/ Gather \/ StartSelect
           \/ Consider \/ StartRight \/ Return \/ UNCHANGED vars
  <2>1. UNCHANGED <<pairs, unmatched, matched_right_ids>>
    BY <1>2 DEF IndexRight, StartLeft, StartGather, Gather, StartSelect,
                Consider, StartRight, Return, vars
  <2>2. \/ UNCHANGED <<pc, pos>>
        \/ pc = "index" /\ pc' = "index"
        \/ pc = "index" /\ pc' = "left" /\ pos' = 1
        \/ pc \in {"left", "gather"} /\ pc' \in {"gather", "select"} /\ pos' = pos
        \/ pc = "left" /\ pos > Len(left) /\ pc' = "right" /\ pos' = 1
        \/ pc = "right" /\ pc' = "done" /\ pos' = pos
    BY <1>2 DEF IndexRight, StartLeft, StartGather, Gather, StartSelect,
                Consider, StartRight, Return, vars
  <2>3. LeftProcessed' = LeftProcessed /\ RightProcessed' = RightProcessed
    BY <1>1, <2>2 DEF LeftProcessed, RightProcessed
  <2> QED
    BY <1>1, <2>1, <2>3, QuietAccounted
<1>3. CASE LeftWithoutCoordinates \/ LeftWithoutCandidates \/ LeftBelowThreshold
  <2>1. pc \in {"left", "gather", "select"} /\ pos <= Len(left)
    BY <1>1, <1>3 DEF LeftWithoutCoordinates, LeftWithoutCandidates,
                      LeftBelowThreshold
  <2>2. \E reason \in Reasons : LeaveUnmatched(reason)
    BY <1>3 DEF LeftWithoutCoordinates, LeftWithoutCandidates,
                LeftBelowThreshold, Reasons
  <2> QED
    BY <2>1, <2>2, LeaveAccounted
<1>4. CASE LinkBest
  BY <1>4, LinkAccounted
<1>5. CASE SkipClaimed \/ ReportRight
  BY <1>5, SweepAccounted
<1> QED
  BY <1>2, <1>3, <1>4, <1>5 DEF Next, Returned

(* They always hold.                                                        *)
LEMMA AccountedInvariant == Spec => []Accounted
<1>1. Init => Accounted
  BY InitAccounted
<1>2. TypeOK /\ Accounted /\ [Next]_vars => Accounted'
  BY NextAccounted
<1> QED
  BY <1>1, <1>2, TypeCorrect, PTL DEF Spec

(* Retention: whatever the lists, the scorer and the grid, every record     *)
(* resolve has finished with is in its result exactly once.                 *)
THEOREM Retention == Spec => []EveryRecordAccounted
<1>1. Accounted => EveryRecordAccounted
  BY DEF Accounted
<1> QED
  BY <1>1, AccountedInvariant, PTL

----------------------------------------------------------------------------
(* Floor division *)

(* A coordinate is in its cell, and in no other.                            *)
LEMMA CellBounds ==
  ASSUME NEW x \in Int
  PROVE  /\ x \div CellSize \in Int
         /\ CellSize * (x \div CellSize) <= x
         /\ x < CellSize * (x \div CellSize) + CellSize
BY CellAssumption

(* Cells further on begin further on.                                       *)
LEMMA EdgesGrow ==
  ASSUME NEW i \in Int, NEW j \in Int, i <= j
  PROVE  CellSize * i <= CellSize * j
BY CellAssumption

(* Numbers a cell's edge apart or less fall in the same or adjacent cells,  *)
(* negative ones included.                                                  *)
LEMMA CloseNumbersTouch ==
  ASSUME NEW x \in Int, NEW y \in Int, x - y \in -CellSize..CellSize
  PROVE  (x \div CellSize) - (y \div CellSize) \in -1..1
<1> DEFINE i == x \div CellSize
           j == y \div CellSize
<1>1. /\ CellSize \in Nat \ {0} /\ i \in Int /\ j \in Int
      /\ CellSize * i \in Int /\ CellSize * j \in Int
      /\ CellSize * i <= x /\ x < CellSize * i + CellSize
      /\ CellSize * j <= y /\ y < CellSize * j + CellSize
  BY CellAssumption, CellBounds
<1> HIDE DEF i, j
<1>2. ASSUME i >= j + 2 PROVE FALSE
  <2>1. CellSize * (j + 2) <= CellSize * i
    BY <1>1, <1>2, EdgesGrow
  <2>2. CellSize * (j + 2) = CellSize * j + 2 * CellSize
    BY <1>1
  <2> QED
    BY <1>1, <2>1, <2>2
<1>3. ASSUME j >= i + 2 PROVE FALSE
  <2>1. CellSize * (i + 2) <= CellSize * j
    BY <1>1, <1>3, EdgesGrow
  <2>2. CellSize * (i + 2) = CellSize * i + 2 * CellSize
    BY <1>1
  <2> QED
    BY <1>1, <2>1, <2>2
<1>4. i - j \in -1..1
  BY <1>1, <1>2, <1>3
<1> QED
  BY <1>4 DEF i, j

(* Numbers in the same or adjacent cells are less than two edges apart.     *)
LEMMA TouchingNumbersAreClose ==
  ASSUME NEW x \in Int, NEW y \in Int,
         (x \div CellSize) - (y \div CellSize) \in -1..1
  PROVE  x - y \in -(2 * CellSize - 1)..(2 * CellSize - 1)
<1> DEFINE i == x \div CellSize
           j == y \div CellSize
<1>1. /\ CellSize \in Nat \ {0} /\ i \in Int /\ j \in Int
      /\ CellSize * i \in Int /\ CellSize * j \in Int
      /\ CellSize * i <= x /\ x < CellSize * i + CellSize
      /\ CellSize * j <= y /\ y < CellSize * j + CellSize
      /\ i <= j + 1 /\ j <= i + 1
  BY CellAssumption, CellBounds
<1> HIDE DEF i, j
<1>2. CellSize * i <= CellSize * (j + 1) /\ CellSize * j <= CellSize * (i + 1)
  BY <1>1, EdgesGrow
<1>3. /\ CellSize * (j + 1) = CellSize * j + CellSize
      /\ CellSize * (i + 1) = CellSize * i + CellSize
  BY <1>1
<1> QED
  BY <1>1, <1>2, <1>3

(* The same for records: what is nearby touches, what touches is near.      *)
LEMMA NearbyRecordsTouch ==
  ASSUME NEW r \in Rows, NEW s \in Rows
  PROVE  /\ Within(CellSize, r, s) => Touching(r, s)
         /\ Touching(r, s) => Within(2 * CellSize - 1, r, s)
<1>1. /\ r.latitude \in Coordinate /\ r.longitude \in Coordinate
      /\ s.latitude \in Coordinate /\ s.longitude \in Coordinate
  BY RowsAssumption DEF Record
<1>2. ASSUME _has_coordinates(r), _has_coordinates(s)
      PROVE  /\ r.latitude \in Int /\ r.longitude \in Int
             /\ s.latitude \in Int /\ s.longitude \in Int
  BY <1>1, <1>2 DEF Coordinate, _has_coordinates
<1>3. /\ _cell(r)[1] = r.latitude \div CellSize
      /\ _cell(r)[2] = r.longitude \div CellSize
      /\ _cell(s)[1] = s.latitude \div CellSize
      /\ _cell(s)[2] = s.longitude \div CellSize
  BY DEF _cell
<1>4. ASSUME Within(CellSize, r, s) PROVE Touching(r, s)
  BY <1>2, <1>3, <1>4, CloseNumbersTouch DEF Within, Touching
<1>5. ASSUME Touching(r, s) PROVE Within(2 * CellSize - 1, r, s)
  BY <1>2, <1>3, <1>5, TouchingNumbersAreClose DEF Within, Touching
<1> QED
  BY <1>4, <1>5

----------------------------------------------------------------------------
(* The index and the candidates *)

(* Appending adds one element to the range.                                 *)
LEMMA RangeAppend ==
  ASSUME NEW S, NEW s \in Seq(S), NEW e \in S
  PROVE  Range(Append(s, e)) = Range(s) \cup {e}
<1>1. /\ Len(s) \in Nat /\ DOMAIN s = 1..Len(s)
      /\ DOMAIN Append(s, e) = 1..(Len(s) + 1)
      /\ \A n \in 1..Len(s) : Append(s, e)[n] = s[n]
      /\ Append(s, e)[Len(s) + 1] = e
  OBVIOUS
<1>2. 1..(Len(s) + 1) = 1..Len(s) \cup {Len(s) + 1}
  BY <1>1
<1> QED
  BY <1>1, <1>2 DEF Range

\* An index finds a record in the bucket of its cell.
Finds(index, r) ==
  _cell(r) \in DOMAIN index /\ r \in Range(index[_cell(r)])

\* A bucket holds records of its cell only, and every record the indexing loop
\* has passed is found.

IndexInv ==
  /\ \A cell \in DOMAIN right_index : \A r \in Range(right_index[cell]) :
       _has_coordinates(r) /\ _cell(r) = cell
  /\ \A q \in 1..Len(right) :
       (pc = "index" => q < pos) /\ _has_coordinates(right[q])
         => Finds(right_index, right[q])

\* The buckets gathered so far are in the candidates, and nothing far is.
GatherInv ==
  /\ pc \in {"gather", "select"} =>
       /\ \A n \in 1..offset :
            Range(NeighbourBucket(left[pos], n)) \subseteq Range(candidates)
       /\ \A r \in Range(candidates) : Touching(left[pos], r)
  /\ pc = "select" => offset = 9

(* Nothing is indexed or gathered at the start.                             *)
LEMMA InitIndexed == Init => IndexInv /\ GatherInv
BY ListsAssumption DEF Init, IndexInv, GatherInv, RecordList

\* Steps that leave the index alone keep what it holds.
LEMMA NextIndexed == TypeOK /\ IndexInv /\ [Next]_vars => IndexInv'
<1> SUFFICES ASSUME TypeOK, IndexInv, [Next]_vars PROVE IndexInv'
  OBVIOUS
<1>1. /\ right' = right /\ IndexOK /\ PlaceOK /\ Len(right) \in Nat
      /\ right \in Seq(Range(right))
  BY ArgsStay, ArgsFacts DEF TypeOK
<1>2. CASE IndexRight
  <2> DEFINE record == right[pos]
             cell == _cell(record)
  <2>1. /\ pc = "index" /\ pc' = "index" /\ pos' = pos + 1 /\ pos \in 1..Len(right)
    <3>1. pc = "index" /\ pc' = pc /\ pos' = pos + 1 /\ pos <= Len(right)
      BY <1>2 DEF IndexRight
    <3> QED
      BY <1>1, <3>1 DEF PlaceOK
  <2>2. CASE ~_has_coordinates(record)
    <3>1. right_index' = right_index
      BY <1>2, <2>2 DEF IndexRight
    <3> QED
      BY <1>1, <2>1, <2>2, <3>1 DEF IndexInv, PlaceOK
  <2>3. CASE _has_coordinates(record)
    <3>1. right_index' = [c \in DOMAIN right_index \cup {cell} |->
                            IF c = cell THEN Append(Bucket(cell), record)
                                        ELSE right_index[c]]
      BY <1>2, <2>3 DEF IndexRight
    <3>2. Bucket(cell) \in Seq(Range(right)) /\ record \in Range(right)
      BY <1>1, <2>1, BucketType, RangeOfList DEF IndexOK
    <3>3. Range(Append(Bucket(cell), record)) = Range(Bucket(cell)) \cup {record}
      BY <3>2, RangeAppend
    <3>4. \A r \in Range(Bucket(cell)) : _has_coordinates(r) /\ _cell(r) = cell
      BY DEF Bucket, IndexInv, Range
    <3> HIDE DEF record, cell
    <3>5. /\ DOMAIN right_index' = DOMAIN right_index \cup {cell}
          /\ right_index'[cell] = Append(Bucket(cell), record)
          /\ \A c \in DOMAIN right_index \ {cell} : right_index'[c] = right_index[c]
      BY <3>1
    <3>6. \A c \in DOMAIN right_index' : \A r \in Range(right_index'[c]) :
            _has_coordinates(r) /\ _cell(r) = c
      BY <2>3, <3>3, <3>4, <3>5 DEF IndexInv, cell
    <3>7. \A r \in Range(right) : Finds(right_index, r) => Finds(right_index', r)
      BY <3>3, <3>5 DEF Finds, Bucket
    <3>8. Finds(right_index', record)
      BY <3>3, <3>5 DEF Finds, cell
    <3>9. ASSUME NEW q \in 1..Len(right), q < pos + 1, _has_coordinates(right[q])
          PROVE  Finds(right_index', right[q])
      <4>1. CASE q = pos
        BY <3>8, <4>1 DEF record
      <4>2. CASE q < pos
        <5>1. Finds(right_index, right[q])
          BY <2>1, <3>9, <4>2 DEF IndexInv
        <5>2. right[q] \in Range(right)
          BY <1>1, <3>9, RangeOfList
        <5> QED
          BY <3>7, <5>1, <5>2
      <4> QED
        BY <2>1, <3>9, <4>1, <4>2
    <3> QED
      BY <1>1, <2>1, <3>6, <3>9 DEF IndexInv
  <2> QED
    BY <2>2, <2>3
<1>3. CASE right_index' = right_index /\ (pc' = "index" => pc = "index" /\ pos' = pos)
           /\ (pc = "index" /\ pc' # "index" => pos > Len(right))
  BY <1>1, <1>3 DEF IndexInv, PlaceOK
<1> QED
  BY <1>2, <1>3
     DEF Next, vars, StartLeft, LeftWithoutCoordinates, StartGather, Gather,
         LeftWithoutCandidates, StartSelect, Consider, LeftBelowThreshold,
         LinkBest, StartRight, SkipClaimed, ReportRight, Return, Returned,
         LeaveUnmatched

\* Every record of the n-th neighbour bucket touches the record it is gathered for.
LEMMA NeighbourBucketTouches ==
  ASSUME TypeOK, IndexInv, NEW record \in Rows, _has_coordinates(record),
         NEW n \in 1..9, NEW r \in Range(NeighbourBucket(record, n))
  PROVE  Touching(record, r)
<1> DEFINE row == _cell(record)[1] + _NEIGHBOUR_OFFSETS[n][1]
           col == _cell(record)[2] + _NEIGHBOUR_OFFSETS[n][2]
<1>1. /\ <<row, col>> \in DOMAIN right_index
      /\ r \in Range(right_index[<<row, col>>])
  BY DEF NeighbourBucket, Bucket, Range
<1>2. _has_coordinates(r) /\ _cell(r) = <<row, col>>
  BY <1>1 DEF IndexInv
<1>3. /\ _NEIGHBOUR_OFFSETS[n][1] \in -1..1 /\ _NEIGHBOUR_OFFSETS[n][2] \in -1..1
  BY NineOffsets
<1>4. _cell(record)[1] \in Int /\ _cell(record)[2] \in Int
  BY CellAssumption, RowsAssumption
     DEF _cell, Record, Coordinate, _has_coordinates
<1> HIDE DEF row, col
<1>5. _cell(r)[1] = row /\ _cell(r)[2] = col
  BY <1>2
<1>6. /\ _cell(record)[1] - _cell(r)[1] \in -1..1
      /\ _cell(record)[2] - _cell(r)[2] \in -1..1
  BY <1>3, <1>4, <1>5 DEF row, col
<1> QED
  BY <1>2, <1>6 DEF Touching
(* A record of the right list whose cell touches is in one of the nine       *)
(* buckets.                                                                  *)
LEMMA TouchingIsInSomeBucket ==
  ASSUME NEW record \in Rows, NEW r \in Rows,
         Finds(right_index, r), Touching(record, r)
  PROVE  \E n \in 1..9 : r \in Range(NeighbourBucket(record, n))
<1> DEFINE down == _cell(r)[1] - _cell(record)[1]
           across == _cell(r)[2] - _cell(record)[2]
<1>1. /\ _cell(record)[1] \in Int /\ _cell(record)[2] \in Int
      /\ _cell(r)[1] \in Int /\ _cell(r)[2] \in Int
  BY CellAssumption, RowsAssumption
     DEF Touching, _cell, Record, Coordinate, _has_coordinates
<1>2. down \in -1..1 /\ across \in -1..1
  <2>1. \A i, j \in Int : i - j \in -1..1 => j - i \in -1..1
    OBVIOUS
  <2>2. /\ _cell(record)[1] - _cell(r)[1] \in -1..1
        /\ _cell(record)[2] - _cell(r)[2] \in -1..1
    BY DEF Touching
  <2> QED
    BY <1>1, <2>1, <2>2
<1>3. _cell(r) = <<_cell(record)[1] + down, _cell(record)[2] + across>>
  <2>1. _cell(r) = <<_cell(r)[1], _cell(r)[2]>>
    BY DEF _cell
  <2>2. /\ _cell(r)[1] = _cell(record)[1] + down
        /\ _cell(r)[2] = _cell(record)[2] + across
    BY <1>1
  <2> QED
    BY <2>1, <2>2
<1> HIDE DEF down, across
<1>4. PICK n \in 1..9 : _NEIGHBOUR_OFFSETS[n] = <<down, across>>
  <2>1. 3 * (down + 1) + across + 2 \in 1..9
    BY <1>2
  <2>2. _NEIGHBOUR_OFFSETS[3 * (down + 1) + across + 2] = <<down, across>>
    BY <1>2 DEF _NEIGHBOUR_OFFSETS
  <2> QED
    BY <2>1, <2>2
<1>5. NeighbourBucket(record, n) = Bucket(_cell(r))
  BY <1>3, <1>4 DEF NeighbourBucket
<1>6. r \in Range(Bucket(_cell(r)))
  BY DEF Finds, Bucket
<1> QED
  BY <1>4, <1>5, <1>6

(* Every step keeps what was gathered.                                      *)
LEMMA NextGathered == TypeOK /\ IndexInv /\ GatherInv /\ [Next]_vars => GatherInv'
<1> SUFFICES ASSUME TypeOK, IndexInv, GatherInv, [Next]_vars PROVE GatherInv'
  OBVIOUS
<1>1. left' = left /\ right' = right
  BY ArgsStay
<1>2. CASE Gather
  <2> DEFINE record == left[pos]
             bucket == NeighbourBucket(record, offset + 1)
  <2>1. /\ pc = "gather" /\ pc' = "gather" /\ pos' = pos
        /\ right_index' = right_index
        /\ offset \in 0..8 /\ offset' = offset + 1
        /\ candidates' = candidates \o bucket
    BY <1>2, NineOffsets DEF Gather, TypeOK, ScanOK
  <2>2. record \in Rows /\ _has_coordinates(record)
    BY <2>1, ArgsFacts, RangeOfList DEF TypeOK, PlaceOK
  <2>3. candidates \in Seq(Range(right)) /\ bucket \in Seq(Range(right))
    BY BucketType DEF TypeOK, IndexOK, ScanOK, NeighbourBucket
  <2>4. Range(candidates') = Range(candidates) \cup Range(bucket)
    BY <2>1, <2>3, RangeConcatenation
  <2>5. \A n : NeighbourBucket(record, n)' = NeighbourBucket(record, n)
    BY <1>1, <2>1 DEF NeighbourBucket, Bucket
  <2>6. /\ \A n \in 1..offset :
             Range(NeighbourBucket(record, n)) \subseteq Range(candidates)
        /\ \A r \in Range(candidates) : Touching(record, r)
    BY <2>1 DEF GatherInv
  <2>7. \A r \in Range(bucket) : Touching(record, r)
    BY <2>1, <2>2, NeighbourBucketTouches
  <2>8. \A n \in 1..(offset + 1) :
          Range(NeighbourBucket(record, n)) \subseteq Range(candidates')
    <3>1. \A n \in 1..(offset + 1) : n \in 1..offset \/ n = offset + 1
      BY <2>1
    <3> QED
      BY <2>4, <2>6, <3>1
  <2>9. record' = record
    BY <1>1, <2>1
  <2>10. \A n \in 1..offset' :
           Range(NeighbourBucket(left[pos], n))' \subseteq Range(candidates')
    BY <2>1, <2>5, <2>8, <2>9
  <2>11. \A r \in Range(candidates') : Touching(record, r)
    BY <2>4, <2>6, <2>7
  <2> QED
    BY <2>1, <2>9, <2>10, <2>11 DEF GatherInv
<1>3. CASE StartGather
  <2>1. pc' = "gather" /\ offset' = 0 /\ candidates' = <<>>
    BY <1>3 DEF StartGather
  <2> QED
    BY <2>1 DEF GatherInv, Range
<1>4. CASE StartSelect \/ Consider
  <2>1. /\ pc \in {"gather", "select"} /\ pc' = "select" /\ pos' = pos
        /\ UNCHANGED <<right_index, offset, candidates>>
        /\ pc = "gather" => offset = 9
    BY <1>4, NineOffsets DEF StartSelect, Consider
  <2>2. \A n : NeighbourBucket(left[pos], n)' = NeighbourBucket(left[pos], n)
    BY <1>1, <2>1 DEF NeighbourBucket, Bucket
  <2> QED
    BY <1>1, <2>1, <2>2 DEF GatherInv
<1>5. CASE UNCHANGED vars
  <2>1. \A n : NeighbourBucket(left[pos], n)' = NeighbourBucket(left[pos], n)
    BY <1>5 DEF vars, args, NeighbourBucket, Bucket
  <2> QED
    BY <1>5, <2>1 DEF GatherInv, vars, args, scan
<1>6. CASE pc' \notin {"gather", "select"}
  BY <1>6 DEF GatherInv
<1> QED
  BY <1>2, <1>3, <1>4, <1>5, <1>6
     DEF Next, IndexRight, StartLeft, LeftWithoutCoordinates,
         LeftWithoutCandidates, LeftBelowThreshold, LinkBest, StartRight,
         SkipClaimed, ReportRight, Return, Returned, LeaveUnmatched

----------------------------------------------------------------------------
(* Blocking *)

(* What is indexed and gathered always follows from the records.            *)
LEMMA GridInvariant == Spec => [](TypeOK /\ IndexInv /\ GatherInv)
<1>1. IndexInv /\ GatherInv /\ [Next]_vars /\ TypeOK => IndexInv' /\ GatherInv'
  BY NextIndexed, NextGathered
<1> QED
  BY TypeCorrect, InitIndexed, <1>1, PTL DEF Spec

(* Blocking is complete: every record resolve could link to, no more than    *)
(* an edge away along each axis, is among the candidates when _select_best   *)
(* scans them - for every cell size, sign and order of the lists.            *)
THEOREM BlockingComplete == Spec => []NearbyRecordsAreCandidates
<1>1. TypeOK /\ IndexInv /\ GatherInv => NearbyRecordsAreCandidates
  <2> SUFFICES ASSUME TypeOK, IndexInv, GatherInv, pc = "select",
                      NEW r \in Range(right), Within(CellSize, left[pos], r)
               PROVE  r \in Range(candidates)
    BY DEF NearbyRecordsAreCandidates
  <2>1. left[pos] \in Rows /\ r \in Rows
    BY ArgsFacts, RangeOfList DEF TypeOK, PlaceOK
  <2>2. Touching(left[pos], r)
    BY <2>1, NearbyRecordsTouch
  <2>3. PICK q \in 1..Len(right) : r = right[q]
    BY ArgsFacts DEF Range, TypeOK
  <2>4. Finds(right_index, r)
    BY <2>2, <2>3 DEF IndexInv, Touching
  <2>5. PICK n \in 1..9 : r \in Range(NeighbourBucket(left[pos], n))
    BY <2>1, <2>2, <2>4, TouchingIsInSomeBucket
  <2> QED
    BY <2>5 DEF GatherInv
<1> QED
  BY GridInvariant, <1>1, PTL

(* Blocking is tight: nothing two cell edges away is ever compared.          *)
THEOREM BlockingTight == Spec => []CandidatesAreNear
<1>1. TypeOK /\ GatherInv => CandidatesAreNear
  <2> SUFFICES ASSUME TypeOK, GatherInv, pc \in {"gather", "select"},
                      NEW r \in Range(candidates)
               PROVE  Within(2 * CellSize - 1, left[pos], r)
    BY DEF CandidatesAreNear
  <2>1. left[pos] \in Rows /\ r \in Rows
    BY ArgsFacts, RangeOfList, ListOverItsRange DEF TypeOK, PlaceOK, ScanOK
  <2>2. Touching(left[pos], r)
    BY DEF GatherInv
  <2> QED
    BY <2>1, <2>2, NearbyRecordsTouch
<1> QED
  BY GridInvariant, <1>1, PTL

(* Blocking takes the neighbours and only them, for every cell size.         *)
THEOREM Blocking == Spec => []BlockingIsExact
<1>1. NearbyRecordsAreCandidates /\ CandidatesAreNear => BlockingIsExact
  BY DEF BlockingIsExact
<1> QED
  BY BlockingComplete, BlockingTight, <1>1, PTL

----------------------------------------------------------------------------
(* What one record is compared with *)

(* Appending what was not there repeats nothing.                            *)
LEMMA InjectiveAppend ==
  ASSUME NEW S, NEW s \in Seq(S), NEW e \in S, IsInjective(s), e \notin Range(s)
  PROVE  IsInjective(Append(s, e))
<1>1. /\ Len(s) \in Nat /\ DOMAIN s = 1..Len(s)
      /\ DOMAIN Append(s, e) = 1..(Len(s) + 1)
      /\ \A n \in 1..Len(s) : Append(s, e)[n] = s[n]
      /\ Append(s, e)[Len(s) + 1] = e
  OBVIOUS
<1>2. \A n \in 1..(Len(s) + 1) : n \in 1..Len(s) \/ n = Len(s) + 1
  BY <1>1
<1>3. \A n \in 1..Len(s) : s[n] # e
  BY <1>1 DEF Range
<1> QED
  BY <1>1, <1>2, <1>3 DEF IsInjective

(* Nor does putting together two sequences with nothing in common.          *)
LEMMA InjectiveConcat ==
  ASSUME NEW S, NEW s \in Seq(S), NEW t \in Seq(S), IsInjective(s), IsInjective(t),
         Range(s) \cap Range(t) = {}
  PROVE  IsInjective(s \o t)
<1>1. /\ Len(s) \in Nat /\ Len(t) \in Nat
      /\ DOMAIN s = 1..Len(s) /\ DOMAIN t = 1..Len(t)
      /\ DOMAIN (s \o t) = 1..(Len(s) + Len(t))
      /\ \A n \in 1..Len(s) : (s \o t)[n] = s[n]
      /\ \A n \in 1..Len(t) : (s \o t)[n + Len(s)] = t[n]
  OBVIOUS
<1>2. \A n \in 1..(Len(s) + Len(t)) :
        n \in 1..Len(s) \/ (n - Len(s) \in 1..Len(t) /\ n = (n - Len(s)) + Len(s))
  BY <1>1
<1>3. \A m \in 1..Len(s), n \in 1..Len(t) : s[m] # t[n]
  BY <1>1 DEF Range
<1> SUFFICES ASSUME NEW m \in 1..(Len(s) + Len(t)), NEW n \in 1..(Len(s) + Len(t)),
                    (s \o t)[m] = (s \o t)[n]
             PROVE  m = n
  BY <1>1 DEF IsInjective
<1> DEFINE i == m - Len(s)
           j == n - Len(s)
<1>4. CASE m \in 1..Len(s) /\ n \in 1..Len(s)
  BY <1>1, <1>4 DEF IsInjective
<1>5. CASE m \in 1..Len(s) /\ n \notin 1..Len(s)
  <2>1. j \in 1..Len(t) /\ n = j + Len(s)
    BY <1>2, <1>5
  <2>2. (s \o t)[n] = t[j] /\ (s \o t)[m] = s[m]
    BY <1>1, <1>5, <2>1
  <2> QED
    BY <1>3, <1>5, <2>1, <2>2
<1>6. CASE m \notin 1..Len(s) /\ n \in 1..Len(s)
  <2>1. i \in 1..Len(t) /\ m = i + Len(s)
    BY <1>2, <1>6
  <2>2. (s \o t)[m] = t[i] /\ (s \o t)[n] = s[n]
    BY <1>1, <1>6, <2>1
  <2> QED
    BY <1>3, <1>6, <2>1, <2>2
<1>7. CASE m \notin 1..Len(s) /\ n \notin 1..Len(s)
  <2>1. i \in 1..Len(t) /\ m = i + Len(s) /\ j \in 1..Len(t) /\ n = j + Len(s)
    BY <1>2, <1>7
  <2>2. (s \o t)[m] = t[i] /\ (s \o t)[n] = t[j]
    BY <1>1, <2>1
  <2>3. i = j
    BY <1>1, <2>1, <2>2 DEF IsInjective
  <2> QED
    BY <2>1, <2>3
<1> QED
  BY <1>4, <1>5, <1>6, <1>7

\* No bucket has a record twice, nor one the indexing loop has yet to reach.
BucketInv ==
  \A cell \in DOMAIN right_index :
    /\ IsInjective(right_index[cell])
    /\ pc = "index" =>
         \A r \in Range(right_index[cell]) : \E q \in 1..(pos - 1) : r = right[q]

\* The candidates come from the buckets gathered, each once: no more of them
\* than the fullest of those buckets would give every time.
OccupancyInv ==
  pc \in {"gather", "select"} =>
    /\ IsInjective(candidates)
    /\ \A r \in Range(candidates) :
         \E n \in 1..offset : r \in Range(NeighbourBucket(left[pos], n))
    /\ candidates # <<>> =>
         \E cell \in DOMAIN right_index : Len(candidates) <= offset * Len(right_index[cell])
    /\ pc = "select" => candidates # <<>>

(* Empty buckets hold no more than the occupancy.                           *)
LEMMA InitOccupied == Init => BucketInv /\ OccupancyInv
BY DEF Init, BucketInv, OccupancyInv

(* Every step keeps the buckets free of repetitions.                        *)
LEMMA NextBuckets == TypeOK /\ BucketInv /\ [Next]_vars => BucketInv'
<1> SUFFICES ASSUME TypeOK, BucketInv, [Next]_vars PROVE BucketInv'
  OBVIOUS
<1>1. /\ right' = right /\ IndexOK /\ PlaceOK /\ RecordList(right) /\ Len(right) \in Nat
      /\ right \in Seq(Range(right))
  BY ArgsStay, ArgsFacts DEF TypeOK, ArgsOK
<1>2. CASE IndexRight
  <2> DEFINE record == right[pos]
             cell == _cell(record)
  <2>1. /\ pc = "index" /\ pc' = "index" /\ pos' = pos + 1 /\ pos \in 1..Len(right)
    <3>1. pc = "index" /\ pc' = pc /\ pos' = pos + 1 /\ pos <= Len(right)
      BY <1>2 DEF IndexRight
    <3> QED
      BY <1>1, <3>1 DEF PlaceOK
  <2>2. 1..(pos' - 1) = 1..(pos - 1) \cup {pos}
    BY <2>1
  <2>3. CASE ~_has_coordinates(record)
    <3>1. right_index' = right_index
      BY <1>2, <2>3 DEF IndexRight
    <3> QED
      BY <1>1, <2>1, <2>2, <3>1 DEF BucketInv
  <2>4. CASE _has_coordinates(record)
    <3>1. right_index' = [c \in DOMAIN right_index \cup {cell} |->
                            IF c = cell THEN Append(Bucket(cell), record)
                                        ELSE right_index[c]]
      BY <1>2, <2>4 DEF IndexRight
    <3>2. Bucket(cell) \in Seq(Range(right)) /\ record \in Range(right)
      BY <1>1, <2>1, BucketType, RangeOfList DEF IndexOK
    <3>3. Range(Append(Bucket(cell), record)) = Range(Bucket(cell)) \cup {record}
      BY <3>2, RangeAppend
    <3>4. /\ IsInjective(Bucket(cell))
          /\ \A r \in Range(Bucket(cell)) : \E q \in 1..(pos - 1) : r = right[q]
      <4> HIDE DEF record, cell
      <4>1. CASE cell \in DOMAIN right_index
        BY <2>1, <4>1 DEF Bucket, BucketInv
      <4>2. CASE cell \notin DOMAIN right_index
        BY <4>2 DEF Bucket, Range, IsInjective
      <4> QED
        BY <4>1, <4>2
    <3>5. record \notin Range(Bucket(cell))
      <4>1. \A q \in 1..(pos - 1) : q \in 1..Len(right) /\ q # pos
        BY <1>1, <2>1
      <4> QED
        BY <1>1, <2>1, <3>4, <4>1 DEF RecordList
    <3>6. IsInjective(Append(Bucket(cell), record))
      BY <3>2, <3>4, <3>5, InjectiveAppend
    <3> HIDE DEF record, cell
    <3>7. /\ DOMAIN right_index' = DOMAIN right_index \cup {cell}
          /\ right_index'[cell] = Append(Bucket(cell), record)
          /\ \A c \in DOMAIN right_index \ {cell} : right_index'[c] = right_index[c]
      BY <3>1
    <3>8. ASSUME NEW c \in DOMAIN right_index'
          PROVE  /\ IsInjective(right_index'[c])
                 /\ \A r \in Range(right_index'[c]) : \E q \in 1..(pos' - 1) : r = right[q]
      <4>1. CASE c = cell
        BY <2>2, <3>3, <3>4, <3>6, <3>7, <4>1 DEF record
      <4>2. CASE c # cell
        <5>1. c \in DOMAIN right_index /\ right_index'[c] = right_index[c]
          BY <3>7, <4>2
        <5> QED
          BY <2>1, <2>2, <5>1 DEF BucketInv
      <4> QED
        BY <4>1, <4>2
    <3> QED
      BY <1>1, <3>8 DEF BucketInv
  <2> QED
    BY <2>3, <2>4
<1>3. CASE right_index' = right_index /\ (pc' = "index" => pc = "index" /\ pos' = pos)
  BY <1>1, <1>3 DEF BucketInv
<1> QED
  BY <1>2, <1>3
     DEF Next, vars, StartLeft, LeftWithoutCoordinates, StartGather, Gather,
         LeftWithoutCandidates, StartSelect, Consider, LeftBelowThreshold,
         LinkBest, StartRight, SkipClaimed, ReportRight, Return, Returned,
         LeaveUnmatched

(* No record is in two of the nine buckets.                                 *)
LEMMA BucketsDisjoint ==
  ASSUME TypeOK, IndexInv, NEW record \in Rows, _has_coordinates(record),
         NEW m \in 1..9, NEW n \in 1..9,
         NEW r \in Range(NeighbourBucket(record, m)), r \in Range(NeighbourBucket(record, n))
  PROVE  m = n
<1> DEFINE at(k) == <<_cell(record)[1] + _NEIGHBOUR_OFFSETS[k][1],
                      _cell(record)[2] + _NEIGHBOUR_OFFSETS[k][2]>>
<1>1. ASSUME NEW k \in 1..9, r \in Range(NeighbourBucket(record, k))
      PROVE  _cell(r) = at(k)
  <2>1. at(k) \in DOMAIN right_index /\ r \in Range(right_index[at(k)])
    BY <1>1 DEF NeighbourBucket, Bucket, Range
  <2> QED
    BY <2>1 DEF IndexInv
<1>2. at(m) = at(n)
  BY <1>1
<1>3. _cell(record)[1] \in Int /\ _cell(record)[2] \in Int
  BY CellAssumption, RowsAssumption
     DEF _cell, Record, Coordinate, _has_coordinates
<1>4. /\ _NEIGHBOUR_OFFSETS[m][1] = _NEIGHBOUR_OFFSETS[n][1]
      /\ _NEIGHBOUR_OFFSETS[m][2] = _NEIGHBOUR_OFFSETS[n][2]
  BY <1>2, <1>3, NineOffsets
<1>5. \A k \in 1..9 :
        k = 3 * (_NEIGHBOUR_OFFSETS[k][1] + 1) + _NEIGHBOUR_OFFSETS[k][2] + 2
  BY DEF _NEIGHBOUR_OFFSETS
<1> QED
  BY <1>4, <1>5

(* Every step keeps the comparisons within the occupancy.                   *)
LEMMA NextOccupied ==
  TypeOK /\ IndexInv /\ GatherInv /\ BucketInv /\ OccupancyInv /\ [Next]_vars
    => OccupancyInv'
<1> SUFFICES ASSUME TypeOK, IndexInv, GatherInv, BucketInv, OccupancyInv, [Next]_vars
             PROVE  OccupancyInv'
  OBVIOUS
<1>1. left' = left /\ right' = right
  BY ArgsStay
<1>2. CASE Gather
  <2> DEFINE record == left[pos]
             bucket == NeighbourBucket(record, offset + 1)
  <2>1. /\ pc = "gather" /\ pc' = "gather" /\ pos' = pos
        /\ right_index' = right_index
        /\ offset \in 0..8 /\ offset' = offset + 1
        /\ candidates' = candidates \o bucket
    BY <1>2, NineOffsets DEF Gather, TypeOK, ScanOK
  <2>2. record \in Rows /\ _has_coordinates(record)
    BY <2>1, ArgsFacts, RangeOfList DEF TypeOK, PlaceOK
  <2>3. candidates \in Seq(Range(right)) /\ bucket \in Seq(Range(right))
    BY BucketType DEF TypeOK, IndexOK, ScanOK, NeighbourBucket
  <2>4. Range(candidates') = Range(candidates) \cup Range(bucket)
    BY <2>1, <2>3, RangeConcatenation
  <2>5. \A n : NeighbourBucket(record, n)' = NeighbourBucket(record, n)
    BY <1>1, <2>1 DEF NeighbourBucket, Bucket
  <2>6. /\ IsInjective(candidates)
        /\ \A r \in Range(candidates) :
             \E n \in 1..offset : r \in Range(NeighbourBucket(record, n))
        /\ candidates # <<>> =>
             \E cell \in DOMAIN right_index : Len(candidates) <= offset * Len(right_index[cell])
    BY <2>1 DEF OccupancyInv
  <2>7. /\ IsInjective(bucket)
        /\ bucket # <<>> => \E cell \in DOMAIN right_index : bucket = right_index[cell]
    BY DEF NeighbourBucket, Bucket, BucketInv, IsInjective
  <2>8. Range(candidates) \cap Range(bucket) = {}
    <3>1. ASSUME NEW r \in Range(bucket), NEW n \in 1..offset,
                 r \in Range(NeighbourBucket(record, n))
          PROVE  FALSE
      <4>1. n \in 1..9 /\ offset + 1 \in 1..9 /\ n # offset + 1
        BY <2>1
      <4> QED
        BY <2>2, <3>1, <4>1, BucketsDisjoint
    <3> QED
      BY <2>6, <3>1
  <2>9. IsInjective(candidates')
    BY <2>1, <2>3, <2>6, <2>7, <2>8, InjectiveConcat
  <2>10. \A r \in Range(candidates') :
           \E n \in 1..(offset + 1) : r \in Range(NeighbourBucket(record, n))
    <3>1. 1..(offset + 1) = 1..offset \cup {offset + 1}
      BY <2>1
    <3> QED
      BY <2>4, <2>6, <3>1
  <2>11. ASSUME candidates' # <<>>
         PROVE  \E cell \in DOMAIN right_index :
                  Len(candidates') <= (offset + 1) * Len(right_index[cell])
    <3>1. /\ Len(candidates') = Len(candidates) + Len(bucket)
          /\ Len(candidates) \in Nat /\ Len(bucket) \in Nat
      BY <2>1, <2>3
    <3>2. \A cell \in DOMAIN right_index : Len(right_index[cell]) \in Nat
      BY DEF TypeOK, IndexOK
    <3>3. \A k \in Nat : /\ (offset + 1) * k = offset * k + k
                          /\ offset * k \in Nat
                          /\ \A l \in Nat : l <= k => offset * l <= offset * k
      BY <2>1
    <3> HIDE DEF bucket
    <3>4. CASE bucket = <<>>
      <4>1. Len(bucket) = 0 /\ candidates # <<>>
        BY <2>1, <2>3, <2>11, <3>4
      <4>2. PICK cell \in DOMAIN right_index :
              Len(candidates) <= offset * Len(right_index[cell])
        BY <2>6, <4>1
      <4> QED
        BY <3>1, <3>2, <3>3, <4>1, <4>2
    <3>5. CASE bucket # <<>> /\ candidates = <<>>
      <4>1. PICK cell \in DOMAIN right_index : bucket = right_index[cell]
        BY <2>7, <3>5
      <4>2. Len(candidates) = 0
        BY <3>5
      <4> QED
        BY <3>1, <3>2, <3>3, <4>1, <4>2
    <3>6. CASE bucket # <<>> /\ candidates # <<>>
      <4>1. PICK b \in DOMAIN right_index : bucket = right_index[b]
        BY <2>7, <3>6
      <4>2. PICK c \in DOMAIN right_index :
              Len(candidates) <= offset * Len(right_index[c])
        BY <2>6, <3>6
      <4>3. CASE Len(right_index[c]) <= Len(right_index[b])
        <5>1. offset * Len(right_index[c]) <= offset * Len(right_index[b])
          BY <3>2, <3>3, <4>3
        <5> QED
          BY <3>1, <3>2, <3>3, <4>1, <4>2, <5>1
      <4>4. CASE Len(right_index[b]) <= Len(right_index[c])
        BY <3>1, <3>2, <3>3, <4>1, <4>2, <4>4
      <4> QED
        BY <3>2, <4>3, <4>4
    <3> QED
      BY <3>4, <3>5, <3>6
  <2> HIDE DEF bucket
  <2> QED
    BY <1>1, <2>1, <2>5, <2>9, <2>10, <2>11 DEF OccupancyInv
<1>3. CASE StartGather
  <2>1. pc' = "gather" /\ candidates' = <<>>
    BY <1>3 DEF StartGather
  <2> QED
    BY <2>1 DEF OccupancyInv, Range, IsInjective
<1>4. CASE StartSelect \/ Consider
  <2>1. /\ pc \in {"gather", "select"} /\ pc' = "select" /\ pos' = pos
        /\ UNCHANGED <<right_index, offset, candidates>>
        /\ pc = "gather" => candidates # <<>>
    BY <1>4 DEF StartSelect, Consider
  <2>2. \A n : NeighbourBucket(left[pos], n)' = NeighbourBucket(left[pos], n)
    BY <1>1, <2>1 DEF NeighbourBucket, Bucket
  <2> QED
    BY <1>1, <2>1, <2>2 DEF OccupancyInv
<1>5. CASE UNCHANGED vars
  <2>1. \A n : NeighbourBucket(left[pos], n)' = NeighbourBucket(left[pos], n)
    BY <1>5 DEF vars, args, NeighbourBucket, Bucket
  <2> QED
    BY <1>5, <2>1 DEF OccupancyInv, vars, args, scan
<1>6. CASE pc' \notin {"gather", "select"}
  BY <1>6 DEF OccupancyInv
<1> QED
  BY <1>2, <1>3, <1>4, <1>5, <1>6
     DEF Next, IndexRight, StartLeft, LeftWithoutCoordinates,
         LeftWithoutCandidates, LeftBelowThreshold, LinkBest, StartRight,
         SkipClaimed, ReportRight, Return, Returned, LeaveUnmatched

(* Buckets and comparisons are always so.                                   *)
LEMMA OccupancyInvariant ==
  Spec => [](TypeOK /\ IndexInv /\ GatherInv /\ BucketInv /\ OccupancyInv)
BY GridInvariant, InitOccupied, NextBuckets, NextOccupied, PTL DEF Spec

(* The docstring's complexity claim, for every grid, list and occupancy: a   *)
(* left record meets a candidate once (_candidates_for takes no bucket       *)
(* twice), and nine times the fullest bucket bounds how many it meets.       *)
THEOREM WorkBounded == Spec => []ComparisonsBoundedByOccupancy
<1>1. TypeOK /\ GatherInv /\ OccupancyInv => ComparisonsBoundedByOccupancy
  <2> SUFFICES ASSUME TypeOK, GatherInv, OccupancyInv, pc = "select"
               PROVE  /\ IsInjective(candidates)
                      /\ \E bucket \in Range(right_index) : Len(candidates) <= 9 * Len(bucket)
    BY DEF ComparisonsBoundedByOccupancy
  <2>1. PICK cell \in DOMAIN right_index : Len(candidates) <= 9 * Len(right_index[cell])
    BY DEF OccupancyInv, GatherInv
  <2> QED
    BY <2>1 DEF OccupancyInv, Range
<1> QED
  BY OccupancyInvariant, <1>1, PTL

----------------------------------------------------------------------------
(* Choosing the best *)

(* What is known of two records when one is compared with the other.        *)
LEMMA ScoresAreNumbers ==
  ASSUME NEW record \in Rows, NEW r \in Rows
  PROVE  /\ Score(record.name, r.name) \in Int /\ Distance(record, r) \in Int
         /\ record_id(r) \in Int
BY RowsAssumption, ScoringAssumption, DigestAssumption DEF Record

(* Beats is a strict total order of a record's candidates: no tie is left   *)
(* once score, distance and record_id are compared.                         *)
LEMMA BeatsIsTotal ==
  ASSUME NEW record \in Rows, NEW r \in Rows, NEW s \in Rows, r # s
  PROVE  Beats(record, r, s) <=> ~Beats(record, s, r)
BY ScoresAreNumbers, DigestAssumption DEF Beats

(* What beats a candidate that beats another beats that one too.            *)
LEMMA BeatsIsTransitive ==
  ASSUME NEW record \in Rows, NEW r \in Rows, NEW s \in Rows, NEW t \in Rows,
         Beats(record, r, s), Beats(record, s, t)
  PROVE  Beats(record, r, t)
BY ScoresAreNumbers DEF Beats

\* Of the candidates scanned so far, best is the best that matches.
SelectInv ==
  pc = "select" =>
    /\ best = None => \A n \in 1..scanned : ~matches(left[pos], candidates[n])
    /\ best # None =>
         /\ best \in Range(candidates) /\ matches(left[pos], best)
         /\ \A n \in 1..scanned :
              candidates[n] # best /\ matches(left[pos], candidates[n])
                => Beats(left[pos], best, candidates[n])

(* Every step keeps the best so far the best.                               *)
LEMMA NextSelected ==
  TypeOK /\ SelectInv /\ [Next]_vars => SelectInv'
<1> SUFFICES ASSUME TypeOK, SelectInv, [Next]_vars PROVE SelectInv'
  OBVIOUS
<1>1. left' = left /\ right' = right
  BY ArgsStay
<1>2. CASE Consider
  <2> DEFINE record == left[pos]
             candidate == candidates[scanned + 1]
  <2>1. /\ pc = "select" /\ pc' = "select" /\ pos' = pos /\ candidates' = candidates
        /\ scanned < Len(candidates) /\ scanned' = scanned + 1
        /\ best' = IF /\ matches(record, candidate)
                      /\ best = None \/ Beats(record, candidate, best)
                   THEN candidate ELSE best
    BY <1>2 DEF Consider
  <2>2. scanned \in Nat /\ candidates \in Seq(Range(right)) /\ best \in Range(right) \cup {None}
    BY DEF TypeOK, ScanOK
  <2>3. record \in Rows /\ Range(right) \subseteq Rows
    BY <2>1, ArgsFacts, RangeOfList DEF TypeOK, PlaceOK
  <2>4. scanned + 1 \in 1..Len(candidates) /\ candidate \in Range(candidates)
        /\ candidate \in Range(right)
    BY <2>1, <2>2, RangeOfList
  <2>5. candidate \in Rows /\ candidate # None
    BY <2>3, <2>4, NoneAssumption
  <2>6. \A n \in 1..scanned : candidates[n] \in Range(right)
    BY <2>1, <2>2, RangeOfList
  <2>7. 1..(scanned + 1) = 1..scanned \cup {scanned + 1}
    BY <2>2
  <2>8. /\ best = None => \A n \in 1..scanned : ~matches(record, candidates[n])
        /\ best # None =>
             /\ best \in Range(candidates) /\ matches(record, best)
             /\ \A n \in 1..scanned :
                  candidates[n] # best /\ matches(record, candidates[n])
                    => Beats(record, best, candidates[n])
    BY <2>1 DEF SelectInv
  <2> HIDE DEF record, candidate
  <2>9. /\ best' = None => \A n \in 1..(scanned + 1) : ~matches(record, candidates[n])
        /\ best' # None =>
             /\ best' \in Range(candidates) /\ matches(record, best')
             /\ \A n \in 1..(scanned + 1) :
                  candidates[n] # best' /\ matches(record, candidates[n])
                    => Beats(record, best', candidates[n])
    <3>1. CASE ~matches(record, candidate)
      BY <2>1, <2>7, <2>8, <3>1 DEF candidate
    <3>2. CASE matches(record, candidate) /\ best = None
      BY <2>1, <2>4, <2>5, <2>7, <2>8, <3>2 DEF candidate
    <3>3. CASE matches(record, candidate) /\ best # None /\ ~Beats(record, candidate, best)
      <4>1. best' = best /\ best \in Rows
        BY <2>1, <2>2, <2>3, <3>3
      <4>2. candidate # best => Beats(record, best, candidate)
        BY <2>3, <2>5, <3>3, <4>1, BeatsIsTotal
      <4> QED
        BY <2>7, <2>8, <3>3, <4>1, <4>2 DEF candidate
    <3>4. CASE matches(record, candidate) /\ best # None /\ Beats(record, candidate, best)
      <4>1. best' = candidate /\ best \in Rows
        BY <2>1, <2>2, <2>3, <3>4
      <4>2. ASSUME NEW n \in 1..scanned, matches(record, candidates[n])
            PROVE  Beats(record, candidate, candidates[n])
        <5>1. candidates[n] \in Rows
          BY <2>3, <2>6
        <5>2. CASE candidates[n] = best
          BY <3>4, <5>2
        <5>3. CASE candidates[n] # best
          <6>1. Beats(record, best, candidates[n])
            BY <2>8, <3>4, <4>2, <5>3
          <6> QED
            BY <2>3, <2>5, <3>4, <4>1, <5>1, <6>1, BeatsIsTransitive
        <5> QED
          BY <5>2, <5>3
      <4> QED
        BY <2>4, <2>5, <2>7, <3>4, <4>1, <4>2 DEF candidate
    <3> QED
      BY <3>1, <3>2, <3>3, <3>4
  <2>10. record' = record
    BY <1>1, <2>1 DEF record
  <2> QED
    BY <2>1, <2>9, <2>10 DEF SelectInv, matches, Beats, record
<1>3. CASE StartSelect
  <2>1. pc' = "select" /\ scanned' = 0 /\ best' = None
    BY <1>3 DEF StartSelect
  <2> QED
    BY <2>1 DEF SelectInv
<1>4. CASE UNCHANGED vars
  BY <1>4 DEF SelectInv, vars, args, scan, matches, Beats
<1>5. CASE pc' # "select"
  BY <1>5 DEF SelectInv
<1> QED
  BY <1>2, <1>3, <1>4, <1>5
     DEF Next, IndexRight, StartLeft, LeftWithoutCoordinates, StartGather, Gather,
         LeftWithoutCandidates, LeftBelowThreshold, LinkBest, StartRight,
         SkipClaimed, ReportRight, Return, Returned, LeaveUnmatched

(* When the nine buckets are gathered, the candidates are the right records *)
(* of the neighbourhood, all of them and no other.                          *)
LEMMA CandidatesAreTheNeighbours ==
  ASSUME TypeOK, IndexInv, GatherInv, pc \in {"gather", "select"}, offset = 9
  PROVE  Range(candidates) = {r \in Range(right) : Touching(left[pos], r)}
<1>1. /\ left[pos] \in Rows /\ Range(right) \subseteq Rows
      /\ candidates \in Seq(Range(right)) /\ right \in Seq(Range(right))
  BY ArgsFacts, RangeOfList DEF TypeOK, PlaceOK, ScanOK
<1>2. Range(candidates) \subseteq Range(right)
  BY <1>1, ListOverItsRange
<1>3. ASSUME NEW r \in Range(right), Touching(left[pos], r)
      PROVE  r \in Range(candidates)
  <2>1. PICK q \in 1..Len(right) : r = right[q]
    BY <1>1 DEF Range
  <2>2. Finds(right_index, r)
    BY <1>3, <2>1 DEF IndexInv, Touching
  <2>3. PICK n \in 1..9 : r \in Range(NeighbourBucket(left[pos], n))
    BY <1>1, <1>3, <2>2, TouchingIsInSomeBucket
  <2> QED
    BY <2>3 DEF GatherInv
<1> QED
  BY <1>2, <1>3 DEF GatherInv

(* What holds of the record that is linked.                                 *)
LEMMA BestIsBest ==
  ASSUME TypeOK, IndexInv, GatherInv, SelectInv, LinkBest
  PROVE  /\ best \in Range(right) /\ Touching(left[pos], best)
         /\ matches(left[pos], best)
         /\ \A r \in Range(right) \ {best} :
              Touching(left[pos], r) /\ matches(left[pos], r) => Beats(left[pos], best, r)
<1>1. pc = "select" /\ scanned = Len(candidates) /\ best # None /\ offset = 9
  BY DEF LinkBest, GatherInv
<1>2. Range(candidates) = {r \in Range(right) : Touching(left[pos], r)}
  BY <1>1, CandidatesAreTheNeighbours
<1>3. /\ best \in Range(candidates) /\ matches(left[pos], best)
      /\ \A n \in 1..Len(candidates) :
           candidates[n] # best /\ matches(left[pos], candidates[n])
             => Beats(left[pos], best, candidates[n])
  BY <1>1 DEF SelectInv
<1>4. \A r \in Range(candidates) : \E n \in 1..Len(candidates) : r = candidates[n]
  BY DEF Range, TypeOK, ScanOK
<1> QED
  BY <1>2, <1>3, <1>4

(* And of the records that are not.                                         *)
LEMMA NothingToLink ==
  ASSUME TypeOK, IndexInv, GatherInv, OccupancyInv, SelectInv
  PROVE  /\ LeftWithoutCandidates =>
              _has_coordinates(left[pos]) /\ {r \in Range(right) : Touching(left[pos], r)} = {}
         /\ LeftBelowThreshold =>
              /\ {r \in Range(right) : Touching(left[pos], r)} # {}
              /\ \A r \in Range(right) : Touching(left[pos], r) => ~matches(left[pos], r)
<1>1. ASSUME LeftWithoutCandidates
      PROVE  /\ _has_coordinates(left[pos])
             /\ {r \in Range(right) : Touching(left[pos], r)} = {}
  <2>1. pc = "gather" /\ offset = 9 /\ candidates = <<>>
    BY <1>1, NineOffsets DEF LeftWithoutCandidates
  <2>2. Range(candidates) = {}
    BY <2>1 DEF Range
  <2> QED
    BY <2>1, <2>2, CandidatesAreTheNeighbours DEF TypeOK, PlaceOK
<1>2. ASSUME LeftBelowThreshold
      PROVE  /\ {r \in Range(right) : Touching(left[pos], r)} # {}
             /\ \A r \in Range(right) : Touching(left[pos], r) => ~matches(left[pos], r)
  <2>1. pc = "select" /\ scanned = Len(candidates) /\ best = None /\ offset = 9
    BY <1>2 DEF LeftBelowThreshold, GatherInv
  <2>2. candidates # <<>> /\ candidates \in Seq(Range(right))
    BY <2>1 DEF OccupancyInv, TypeOK, ScanOK
  <2>3. Range(candidates) # {}
    <3>1. 1 \in 1..Len(candidates)
      BY <2>2
    <3> QED
      BY <2>2, <3>1, RangeOfList
  <2>4. \A r \in Range(candidates) : \E n \in 1..Len(candidates) : r = candidates[n]
    BY <2>2 DEF Range
  <2>5. \A n \in 1..Len(candidates) : ~matches(left[pos], candidates[n])
    BY <2>1 DEF SelectInv
  <2> QED
    BY <2>1, <2>3, <2>4, <2>5, CandidatesAreTheNeighbours
<1> QED
  BY <1>1, <1>2

(* It always is.                                                            *)
LEMMA SelectionInvariant ==
  Spec => [](TypeOK /\ IndexInv /\ GatherInv /\ OccupancyInv /\ SelectInv)
<1>1. Init => SelectInv
  BY DEF Init, SelectInv
<1> QED
  BY <1>1, OccupancyInvariant, NextSelected, PTL DEF Spec

(* An entry that is appended is the only one that is new.                   *)
LEMMA EntriesAfterAppend ==
  ASSUME NEW S, NEW s \in Seq(S), NEW e, NEW n \in 1..Len(Append(s, e))
  PROVE  \/ n \in 1..Len(s) /\ Append(s, e)[n] = s[n]
         \/ Append(s, e)[n] = e
<1>1. Len(s) \in Nat /\ Len(Append(s, e)) = Len(s) + 1
  OBVIOUS
<1>2. CASE n \in 1..Len(s)
  BY <1>1, <1>2
<1>3. CASE n = Len(s) + 1
  BY <1>1, <1>3
<1> QED
  BY <1>1, <1>2, <1>3

(* Every step keeps each link the best of its time.                         *)
LEMMA NextLinked ==
  TypeOK /\ IndexInv /\ GatherInv /\ SelectInv /\ LinkedToTheBest /\ [Next]_vars
    => LinkedToTheBest'
<1> SUFFICES ASSUME TypeOK, IndexInv, GatherInv, SelectInv, LinkedToTheBest, [Next]_vars
             PROVE  LinkedToTheBest'
  OBVIOUS
<1>1. left' = left /\ right' = right
  BY ArgsStay
<1>2. CASE LinkBest
  <2> DEFINE pair == [left   |-> left[pos], right |-> best,
                      merged |-> merge(left[pos], best)]
             Good(x) == /\ Touching(x.left, x.right) /\ matches(x.left, x.right)
                        /\ \A r \in Range(right) \ {x.right} :
                             Touching(x.left, r) /\ matches(x.left, r)
                               => Beats(x.left, x.right, r)
  <2>1. pairs' = Append(pairs, pair) /\ \E S : pairs \in Seq(S)
    BY <1>2 DEF LinkBest, TypeOK, ResultOK
  <2>2. pair.left = left[pos] /\ pair.right = best
    OBVIOUS
  <2>3. Good(pair)
    BY <1>2, <2>2, BestIsBest
  <2>4. \A n \in 1..Len(pairs) : Good(pairs[n])
    BY DEF LinkedToTheBest
  <2> HIDE DEF pair, Good
  <2>5. \A n \in 1..Len(pairs') : Good(pairs'[n])
    BY <2>1, <2>3, <2>4, EntriesAfterAppend
  <2> QED
    BY <1>1, <2>5 DEF LinkedToTheBest, Good, Touching, matches, Beats
<1>3. CASE UNCHANGED pairs
  BY <1>1, <1>3 DEF LinkedToTheBest, Touching, matches, Beats
<1> QED
  BY <1>2, <1>3
     DEF Next, vars, IndexRight, StartLeft, LeftWithoutCoordinates, StartGather, Gather,
         LeftWithoutCandidates, StartSelect, Consider, LeftBelowThreshold,
         StartRight, SkipClaimed, ReportRight, Return, Returned, LeaveUnmatched

(* Every link is to the best acceptable record of the neighbourhood, for     *)
(* every grid, scorer, threshold and order of the lists (_select_best and    *)
(* _candidates_for together).                                                *)
THEOREM BestLinked == Spec => []LinkedToTheBest
<1>1. Init => LinkedToTheBest
  BY DEF Init, LinkedToTheBest
<1> QED
  BY <1>1, SelectionInvariant, NextLinked, PTL DEF Spec

\* Whether a reason is so, given the right list and what the pairs claim of it.
Applies(record, reason, list, claimed) ==
  LET near == {r \in Range(list) : Touching(record, r)}
  IN  CASE reason = "no coordinates" -> ~_has_coordinates(record)
        [] reason = "no candidates"  -> _has_coordinates(record) /\ near = {}
        [] reason = "below threshold" ->
             near # {} /\ \A r \in near : ~matches(record, r)
        [] reason = "not selected" ->
             _has_coordinates(record) /\ record \notin claimed

\* Reasons of right records are given only in the last sweep.
ReasonInv ==
  /\ \A n \in 1..Len(unmatched) :
       Applies(unmatched[n].record, unmatched[n].reason, right, Claimed)
  /\ pc \notin {"right", "done"} =>
       \A n \in 1..Len(unmatched) : unmatched[n].reason # "not selected"

(* The invariant about reasons is stronger than the property.               *)
LEMMA ReasonInvGivesTruth == ReasonInv => ReasonsAreTrue
BY DEF ReasonInv, ReasonsAreTrue, Applies, Holds

(* Claims matter to one reason only.                                        *)
LEMMA ReasonsStay ==
  ASSUME NEW record, NEW reason \in Reasons, NEW list, NEW claimed, NEW more,
         Applies(record, reason, list, claimed), reason # "not selected" \/ more = claimed
  PROVE  Applies(record, reason, list, more)
BY DEF Applies, Reasons

(* Every step keeps the reasons true.                                       *)
LEMMA NextReasons ==
  TypeOK /\ IndexInv /\ GatherInv /\ OccupancyInv /\ SelectInv /\ Accounted
    /\ ReasonInv /\ [Next]_vars => ReasonInv'
<1> SUFFICES ASSUME TypeOK, IndexInv, GatherInv, OccupancyInv, SelectInv, Accounted,
                    ReasonInv, [Next]_vars
             PROVE  ReasonInv'
  OBVIOUS
<1>1. left' = left /\ right' = right
  BY ArgsStay
<1>2. /\ unmatched \in Seq([record : Range(left) \cup Range(right), reason : Reasons])
      /\ \A n \in 1..Len(unmatched) : unmatched[n].reason \in Reasons
  <2> DEFINE Entry == [record : Range(left) \cup Range(right), reason : Reasons]
  <2>1. unmatched \in Seq(Entry)
    BY DEF TypeOK, ResultOK
  <2>2. \A e \in Entry : e.reason \in Reasons
    OBVIOUS
  <2> HIDE DEF Entry
  <2>3. \A n \in 1..Len(unmatched) : unmatched[n] \in Entry
    BY <2>1, RangeOfList, Zenon
  <2> QED
    BY <2>1, <2>2, <2>3 DEF Entry
<1>3. ASSUME NEW record, NEW reason \in Reasons, Applies(record, reason, right, Claimed),
             unmatched' = Append(unmatched, [record |-> record, reason |-> reason]),
             UNCHANGED pairs, pc' \notin {"right", "done"} => pc \notin {"right", "done"}
                                                           /\ reason # "not selected"
      PROVE  ReasonInv'
  <2> DEFINE e == [record |-> record, reason |-> reason]
  <2>1. Claimed' = Claimed
    BY <1>3 DEF Claimed
  <2>2. e.record = record /\ e.reason = reason /\ unmatched' = Append(unmatched, e)
    BY <1>3
  <2> HIDE DEF e
  <2>3. ASSUME NEW n \in 1..Len(unmatched')
        PROVE  /\ Applies(unmatched'[n].record, unmatched'[n].reason, right, Claimed)
               /\ pc' \notin {"right", "done"} => unmatched'[n].reason # "not selected"
    <3>1. CASE unmatched'[n] = e
      BY <1>3, <2>2, <3>1
    <3>2. CASE n \in 1..Len(unmatched) /\ unmatched'[n] = unmatched[n]
      BY <1>3, <3>2 DEF ReasonInv
    <3> QED
      BY <1>2, <2>2, <3>1, <3>2, EntriesAfterAppend
  <2> QED
    BY <1>1, <2>1, <2>3 DEF ReasonInv, Applies, Touching, matches
<1>4. CASE LeftWithoutCoordinates \/ LeftWithoutCandidates \/ LeftBelowThreshold
  <2>1. pc \notin {"right", "done"} /\ UNCHANGED pairs
    BY <1>4 DEF LeftWithoutCoordinates, LeftWithoutCandidates, LeftBelowThreshold,
                LeaveUnmatched
  <2>2. CASE LeftWithoutCoordinates
    <3>1. Applies(left[pos], "no coordinates", right, Claimed)
      BY <2>2 DEF LeftWithoutCoordinates, Applies
    <3> QED
      BY <1>3, <2>1, <2>2, <3>1 DEF LeftWithoutCoordinates, LeaveUnmatched, Reasons
  <2>3. CASE LeftWithoutCandidates
    <3>1. Applies(left[pos], "no candidates", right, Claimed)
      BY <2>3, NothingToLink DEF Applies
    <3> QED
      BY <1>3, <2>1, <2>3, <3>1 DEF LeftWithoutCandidates, LeaveUnmatched, Reasons
  <2>4. CASE LeftBelowThreshold
    <3>1. Applies(left[pos], "below threshold", right, Claimed)
      BY <2>4, NothingToLink DEF Applies
    <3> QED
      BY <1>3, <2>1, <2>4, <3>1 DEF LeftBelowThreshold, LeaveUnmatched, Reasons
  <2> QED
    BY <1>4, <2>2, <2>3, <2>4
<1>5. CASE ReportRight
  <2> DEFINE why == IF _has_coordinates(right[pos]) THEN "not selected" ELSE "no coordinates"
  <2>1. /\ unmatched' = Append(unmatched, [record |-> right[pos], reason |-> why])
        /\ pc = "right" /\ pc' = "right" /\ UNCHANGED pairs
        /\ right[pos] \notin Claimed
    BY <1>5 DEF ReportRight, Accounted
  <2>2. Applies(right[pos], why, right, Claimed) /\ why \in Reasons
    BY <2>1 DEF Applies, Reasons
  <2> HIDE DEF why
  <2> QED
    BY <1>3, <2>1, <2>2
<1>6. CASE UNCHANGED unmatched /\ (pc' \notin {"right", "done"} => pc \notin {"right", "done"})
           /\ (UNCHANGED pairs \/ pc \notin {"right", "done"})
  <2>1. ASSUME NEW n \in 1..Len(unmatched)
        PROVE  Applies(unmatched[n].record, unmatched[n].reason, right, Claimed')
    <3>1. unmatched[n].reason # "not selected" \/ Claimed' = Claimed
      BY <1>6 DEF ReasonInv, Claimed
    <3> QED
      BY <1>2, <3>1, ReasonsStay DEF ReasonInv
  <2> QED
    BY <1>1, <1>6, <2>1 DEF ReasonInv, Applies, Touching, matches
<1> QED
  BY <1>4, <1>5, <1>6
     DEF Next, vars, IndexRight, StartLeft, StartGather, Gather, StartSelect, Consider,
         LinkBest, StartRight, SkipClaimed, Return, Returned

(* Every reason that is given is so when resolve returns, for every grid,    *)
(* scorer, threshold and order of the lists (UnmatchedEntry.reason).         *)
THEOREM ReasonsTrue == Spec => []ReasonsAreTrue
<1>1. Init => ReasonInv
  BY DEF Init, ReasonInv
<1> QED
  BY <1>1, SelectionInvariant, AccountedInvariant, NextReasons, ReasonInvGivesTruth, PTL
     DEF Spec

----------------------------------------------------------------------------
(* The linkage resolve implements *)

(* The neighbourhood of Linkage is what the nine buckets hold.              *)
LEMMA NeighbourhoodIs ==
  ASSUME NEW record
  PROVE  /\ L!Neighbourhood(record) = {r \in Range(right) : Touching(record, r)}
         /\ L!Acceptable(record) =
              {r \in Range(right) : Touching(record, r) /\ matches(record, r)}
<1>1. L!Neighbourhood(record) = {r \in Range(right) : Touching(record, r)}
  BY DEF L!Neighbourhood, L!Range, Range, Touching, _cell, _has_coordinates,
         L!_has_coordinates
<1> QED
  BY <1>1 DEF L!Acceptable, matches

(* What Linkage prefers is what the resolver selects.                       *)
LEMMA PreferredIs ==
  ASSUME NEW record \in Rows, NEW r \in Rows, NEW s \in Rows
  PROVE  L!Preferred(record, r, s) <=> Beats(record, r, s)
<1>1. L!record_id(r) = record_id(r) /\ L!record_id(s) = record_id(s)
  BY DEF L!record_id, record_id, L!_canonical, _canonical
<1> QED
  BY <1>1, ScoresAreNumbers DEF L!Preferred, Beats

(* The record that is linked is the one Linkage chooses.                    *)
LEMMA BestOfIs ==
  ASSUME TypeOK, IndexInv, GatherInv, SelectInv, LinkBest
  PROVE  L!LinkOf(left[pos]) = [status |-> "linked", with |-> best]
<1> DEFINE record == left[pos]
<1>1. record \in Rows /\ Range(right) \subseteq Rows
  <2>1. pc = "select"
    BY DEF LinkBest
  <2> QED
    BY <2>1, ArgsFacts, RangeOfList DEF TypeOK, PlaceOK
<1>2. /\ best \in L!Acceptable(record)
      /\ \A r \in L!Acceptable(record) \ {best} : L!Preferred(record, best, r)
      /\ L!Acceptable(record) \subseteq Rows
  BY <1>1, BestIsBest, NeighbourhoodIs, PreferredIs
<1>3. ASSUME NEW r \in L!Acceptable(record), r # best,
             \A s \in L!Acceptable(record) \ {r} : L!Preferred(record, r, s)
      PROVE  FALSE
  <2>1. L!Preferred(record, r, best) /\ L!Preferred(record, best, r)
    BY <1>2, <1>3
  <2> QED
    BY <1>1, <1>2, <1>3, <2>1, PreferredIs, BeatsIsTotal
<1> HIDE DEF record
<1>4. L!BestOf(record) = best
  BY <1>2, <1>3 DEF L!BestOf
<1> QED
  BY <1>2, <1>4 DEF L!LinkOf, record

(* And the reason that is given the one Linkage gives.                      *)
LEMMA ReasonIs ==
  ASSUME TypeOK, IndexInv, GatherInv, OccupancyInv, SelectInv,
         LeftWithoutCoordinates \/ LeftWithoutCandidates \/ LeftBelowThreshold
  PROVE  \E reason \in Reasons :
           /\ LeaveUnmatched(reason)
           /\ L!LinkOf(left[pos]) = [status |-> reason, with |-> None]
<1> DEFINE record == left[pos]
           near == {r \in Range(right) : Touching(record, r)}
<1>1. L!_has_coordinates(record) <=> _has_coordinates(record)
  BY DEF L!_has_coordinates, _has_coordinates
<1>2. L!Neighbourhood(record) = near /\ L!Acceptable(record) = {r \in near : matches(record, r)}
  BY NeighbourhoodIs
<1>3. CASE LeftWithoutCoordinates
  <2>1. ~_has_coordinates(record) /\ LeaveUnmatched("no coordinates")
    BY <1>3 DEF LeftWithoutCoordinates
  <2>2. near = {}
    BY <2>1 DEF Touching
  <2> QED
    BY <1>1, <1>2, <2>1, <2>2 DEF L!LinkOf, Reasons
<1>4. CASE LeftWithoutCandidates
  <2>1. _has_coordinates(record) /\ near = {} /\ LeaveUnmatched("no candidates")
    BY <1>4, NothingToLink DEF LeftWithoutCandidates
  <2> QED
    BY <1>1, <1>2, <2>1 DEF L!LinkOf, Reasons
<1>5. CASE LeftBelowThreshold
  <2>1. /\ near # {} /\ \A r \in near : ~matches(record, r)
        /\ LeaveUnmatched("below threshold")
    BY <1>5, NothingToLink DEF LeftBelowThreshold
  <2>2. _has_coordinates(record)
    BY <2>1 DEF Touching
  <2> QED
    BY <1>1, <1>2, <2>1, <2>2 DEF L!LinkOf, Reasons
<1> QED
  BY <1>3, <1>4, <1>5

\* The reason, and the right record, that a result gives for a record.
ReasonIn(entries, record) ==
  (CHOOSE entry \in Range(entries) : entry.record = record).reason

RightIn(links, record) == (CHOOSE pair \in Range(links) : pair.left = record).right

(* One more entry does not change what the others say.                      *)
LEMMA ReasonAppended ==
  ASSUME NEW S, NEW entries \in Seq(S), NEW e,
         LET longer == Append(entries, e)
         IN  \A m, n \in 1..Len(longer) : longer[m].record = longer[n].record => m = n
  PROVE  /\ ReasonIn(Append(entries, e), e.record) = e.reason
         /\ \A n \in 1..Len(entries) :
              ReasonIn(Append(entries, e), entries[n].record)
                = ReasonIn(entries, entries[n].record)
<1> DEFINE longer == Append(entries, e)
<1>1. /\ Len(entries) \in Nat /\ Len(longer) = Len(entries) + 1
      /\ DOMAIN entries = 1..Len(entries) /\ DOMAIN longer = 1..(Len(entries) + 1)
      /\ \A n \in 1..Len(entries) : longer[n] = entries[n]
      /\ longer[Len(entries) + 1] = e
  OBVIOUS
<1>2. \A m, n \in 1..(Len(entries) + 1) : longer[m].record = longer[n].record => m = n
  BY <1>1
<1> HIDE DEF longer
<1>3. ASSUME NEW n \in 1..(Len(entries) + 1)
      PROVE  ReasonIn(longer, longer[n].record) = longer[n].reason
  <2>1. longer[n] \in Range(longer)
    BY <1>1 DEF Range
  <2>2. \A entry \in Range(longer) : entry.record = longer[n].record => entry = longer[n]
    BY <1>1, <1>2 DEF Range
  <2> QED
    BY <2>1, <2>2 DEF ReasonIn
<1>4. ASSUME NEW n \in 1..Len(entries)
      PROVE  ReasonIn(entries, entries[n].record) = entries[n].reason
  <2>1. entries[n] \in Range(entries)
    BY <1>1 DEF Range
  <2>2. \A entry \in Range(entries) : entry.record = entries[n].record => entry = entries[n]
    <3>1. \A m \in 1..Len(entries) : m \in 1..(Len(entries) + 1)
      BY <1>1
    <3> QED
      BY <1>1, <1>2, <3>1 DEF Range
  <2> QED
    BY <2>1, <2>2 DEF ReasonIn
<1>5. \A n \in 1..Len(entries) : n \in 1..(Len(entries) + 1)
  BY <1>1
<1>6. ReasonIn(longer, e.record) = e.reason
  BY <1>1, <1>3
<1>7. \A n \in 1..Len(entries) :
        ReasonIn(longer, entries[n].record) = ReasonIn(entries, entries[n].record)
  BY <1>1, <1>3, <1>4, <1>5
<1> QED
  BY <1>6, <1>7 DEF longer

(* The same of one more pair.                                               *)
LEMMA RightAppended ==
  ASSUME NEW S, NEW links \in Seq(S), NEW e,
         LET longer == Append(links, e)
         IN  \A m, n \in 1..Len(longer) : longer[m].left = longer[n].left => m = n
  PROVE  /\ RightIn(Append(links, e), e.left) = e.right
         /\ \A n \in 1..Len(links) :
              RightIn(Append(links, e), links[n].left) = RightIn(links, links[n].left)
<1> DEFINE longer == Append(links, e)
<1>1. /\ Len(links) \in Nat /\ Len(longer) = Len(links) + 1
      /\ DOMAIN links = 1..Len(links) /\ DOMAIN longer = 1..(Len(links) + 1)
      /\ \A n \in 1..Len(links) : longer[n] = links[n]
      /\ longer[Len(links) + 1] = e
  OBVIOUS
<1>2. \A m, n \in 1..(Len(links) + 1) : longer[m].left = longer[n].left => m = n
  BY <1>1
<1> HIDE DEF longer
<1>3. ASSUME NEW n \in 1..(Len(links) + 1)
      PROVE  RightIn(longer, longer[n].left) = longer[n].right
  <2>1. longer[n] \in Range(longer)
    BY <1>1 DEF Range
  <2>2. \A pair \in Range(longer) : pair.left = longer[n].left => pair = longer[n]
    BY <1>1, <1>2 DEF Range
  <2> QED
    BY <2>1, <2>2 DEF RightIn
<1>4. ASSUME NEW n \in 1..Len(links)
      PROVE  RightIn(links, links[n].left) = links[n].right
  <2>1. links[n] \in Range(links)
    BY <1>1 DEF Range
  <2>2. \A pair \in Range(links) : pair.left = links[n].left => pair = links[n]
    <3>1. \A m \in 1..Len(links) : m \in 1..(Len(links) + 1)
      BY <1>1
    <3> QED
      BY <1>1, <1>2, <3>1 DEF Range
  <2> QED
    BY <2>1, <2>2 DEF RightIn
<1>5. \A n \in 1..Len(links) : n \in 1..(Len(links) + 1)
  BY <1>1
<1>6. RightIn(longer, e.left) = e.right
  BY <1>1, <1>3
<1>7. \A n \in 1..Len(links) : RightIn(longer, links[n].left) = RightIn(links, links[n].left)
  BY <1>1, <1>3, <1>4, <1>5
<1> QED
  BY <1>6, <1>7 DEF longer

\* What a result says of a left record, and of the q-th record of the right list.
Verdict(links, entries, record) ==
  IF record \in {links[n].left : n \in 1..Len(links)}
  THEN [status |-> "linked", with |-> RightIn(links, record)]
  ELSE IF record \in {entries[n].record : n \in 1..Len(entries)}
  THEN [status |-> ReasonIn(entries, record), with |-> None]
  ELSE Pending

Sentence(entries, record) ==
  IF record \in {entries[n].record : n \in 1..Len(entries)}
  THEN ReasonIn(entries, record) ELSE "claimed"

Links == [p \in 1..Len(left) |-> Link(p)]
Fates == [q \in 1..Len(right) |-> Fate(q)]

(* What Linkage knows of a left record is read off the results.             *)
LEMMA LinkIsVerdict ==
  ASSUME NEW p
  PROVE  /\ Link(p) = Verdict(pairs, unmatched, left[p])
         /\ Link(p)' = Verdict(pairs', unmatched', left'[p])
BY DEF Link, Verdict, Linked, Reported, RightIn, ReasonIn

(* And so is what it knows of a right record.                               *)
LEMMA FateIsSentence ==
  ASSUME NEW q
  PROVE  /\ Fate(q) = IF q > RightProcessed THEN "pending"
                      ELSE Sentence(unmatched, right[q])
         /\ Fate(q)' = IF q > RightProcessed' THEN "pending"
                       ELSE Sentence(unmatched', right'[q])
BY DEF Fate, Sentence, Reported, ReasonIn

(* An entry, or a pair, of one record says nothing of another.              *)
LEMMA EntryOfAnother ==
  ASSUME NEW links, NEW S, NEW entries \in Seq(S), NEW e,
         LET longer == Append(entries, e)
         IN  \A m, n \in 1..Len(longer) : longer[m].record = longer[n].record => m = n,
         NEW record, record # e.record
  PROVE  /\ Verdict(links, Append(entries, e), record) = Verdict(links, entries, record)
         /\ Sentence(Append(entries, e), record) = Sentence(entries, record)
<1> DEFINE longer == Append(entries, e)
<1>1. /\ Len(entries) \in Nat /\ Len(longer) = Len(entries) + 1
      /\ \A n \in 1..Len(entries) : longer[n] = entries[n]
      /\ longer[Len(entries) + 1] = e
  OBVIOUS
<1>2. \A n \in 1..Len(entries) :
        ReasonIn(longer, entries[n].record) = ReasonIn(entries, entries[n].record)
  BY ReasonAppended
<1> HIDE DEF longer
<1>3. record \in {longer[n].record : n \in 1..Len(longer)}
        <=> record \in {entries[n].record : n \in 1..Len(entries)}
  BY <1>1
<1>4. record \in {entries[n].record : n \in 1..Len(entries)}
        => ReasonIn(longer, record) = ReasonIn(entries, record)
  BY <1>2
<1> QED
  BY <1>3, <1>4 DEF Verdict, Sentence, longer

(* A pair appended changes no verdict on another record.                    *)
LEMMA PairOfAnother ==
  ASSUME NEW S, NEW links \in Seq(S), NEW e, NEW entries,
         LET longer == Append(links, e)
         IN  \A m, n \in 1..Len(longer) : longer[m].left = longer[n].left => m = n,
         NEW record, record # e.left
  PROVE  Verdict(Append(links, e), entries, record) = Verdict(links, entries, record)
<1> DEFINE longer == Append(links, e)
<1>1. /\ Len(links) \in Nat /\ Len(longer) = Len(links) + 1
      /\ \A n \in 1..Len(links) : longer[n] = links[n]
      /\ longer[Len(links) + 1] = e
  OBVIOUS
<1>2. \A n \in 1..Len(links) : RightIn(longer, links[n].left) = RightIn(links, links[n].left)
  BY RightAppended
<1> HIDE DEF longer
<1>3. record \in {longer[n].left : n \in 1..Len(longer)}
        <=> record \in {links[n].left : n \in 1..Len(links)}
  BY <1>1
<1>4. record \in {links[n].left : n \in 1..Len(links)}
        => RightIn(longer, record) = RightIn(links, record)
  BY <1>2
<1> QED
  BY <1>3, <1>4 DEF Verdict, longer

(* What Accounted says of the record that is decided next.                  *)
LEMMA NotYetDecided ==
  ASSUME TypeOK, Accounted, pc \in {"left", "gather", "select"}, pos <= Len(left)
  PROVE  /\ pos \in 1..Len(left) /\ left[pos] \notin Linked \cup Reported
         /\ \A p \in 1..Len(left) : p # pos => left[p] # left[pos]
<1>1. /\ ArgsOK /\ pos \in 1..Len(left) /\ Len(left) \in Nat
  BY ArgsFacts DEF TypeOK, PlaceOK
<1>2. LeftProcessed = pos - 1 /\ left[pos] \in Range(left)
  BY <1>1, RangeOfList DEF LeftProcessed, ArgsOK, RecordList
<1>3. left[pos] \notin {left[p] : p \in 1..(pos - 1)}
  BY <1>1, OneMore DEF ArgsOK
<1>4. \A p \in 1..Len(left) : p # pos => left[p] # left[pos]
  BY <1>1 DEF ArgsOK, RecordList
<1> QED
  BY <1>1, <1>2, <1>3, <1>4 DEF Accounted, EveryRecordAccounted

\* Before the last sweep no right record is decided.
LEMMA NoFateYet ==
  /\ pc \notin {"right", "done"} => Fates = [q \in 1..Len(right) |-> "pending"]
  /\ pc' \notin {"right", "done"} => Fates' = [q \in 1..Len(right') |-> "pending"]
<1>1. pc \notin {"right", "done"} => \A q \in 1..Len(right) : Fate(q) = "pending"
  BY FateIsSentence DEF RightProcessed
<1>2. pc' \notin {"right", "done"} => \A q \in 1..Len(right') : Fate(q)' = "pending"
  BY FateIsSentence DEF RightProcessed
<1> QED
  BY <1>1, <1>2 DEF Fates

(* The steps that decide nothing stutter.                                   *)
LEMMA QuietStep ==
  ASSUME UNCHANGED <<left, right, pairs, unmatched>>, RightProcessed' = RightProcessed
  PROVE  UNCHANGED <<left, right, Links, Fates>>
<1>1. \A p \in 1..Len(left) : Link(p)' = Link(p)
  BY LinkIsVerdict
<1>2. \A q \in 1..Len(right) : Fate(q)' = Fate(q)
  BY FateIsSentence
<1> QED
  BY <1>1, <1>2 DEF Links, Fates

(* A step that decides the left record at pos, seen from Linkage.           *)
LEMMA LeftStep ==
  ASSUME TypeOK, Accounted, pc \in {"left", "gather", "select"}, pos <= Len(left),
         UNCHANGED <<left, right>>, pc' = "left",
         NEW at, at = pos, Link(at)' = L!LinkOf(left[at]),
         \A p \in 1..Len(left) : p # at => Link(p)' = Link(p)
  PROVE  L!Next
<1>1. at \in 1..Len(left) /\ left[at] \notin Linked \cup Reported
  BY NotYetDecided
<1>2. Links[at] = Pending
  BY <1>1 DEF Links, Link
<1>3. Links' = [Links EXCEPT ![at] = L!LinkOf(left[at])]
  BY <1>1 DEF Links
<1>4. UNCHANGED <<left, right, Fates>>
  BY NoFateYet
<1>5. L!DecideLeft(at)
  BY <1>2, <1>3, <1>4 DEF L!DecideLeft, L!Pending, Pending, Links, Fates
<1>6. at \in DOMAIN Links
  BY <1>1 DEF Links
<1> QED
  BY <1>5, <1>6 DEF L!Next, Links

(* Leaving a record unlinked is a step of Linkage.                          *)
LEMMA LeaveStep ==
  ASSUME TypeOK, IndexInv, GatherInv, OccupancyInv, SelectInv, Accounted, Accounted',
         LeftWithoutCoordinates \/ LeftWithoutCandidates \/ LeftBelowThreshold
  PROVE  L!Next
<1>1. /\ pc \in {"left", "gather", "select"} /\ pos <= Len(left)
      /\ UNCHANGED <<left, right, pairs>> /\ pc' = "left"
  BY DEF LeftWithoutCoordinates, LeftWithoutCandidates, LeftBelowThreshold,
         LeaveUnmatched, args, TypeOK, PlaceOK
<1>2. PICK reason \in Reasons :
        /\ LeaveUnmatched(reason)
        /\ L!LinkOf(left[pos]) = [status |-> reason, with |-> None]
  BY ReasonIs
<1> DEFINE e == [record |-> left[pos], reason |-> reason]
<1>3. e.record = left[pos] /\ e.reason = reason /\ unmatched' = Append(unmatched, e)
  BY <1>2 DEF LeaveUnmatched
<1> HIDE DEF e
<1>4. PICK S : unmatched \in Seq(S)
  BY DEF TypeOK, ResultOK
<1>5. \A m, n \in 1..Len(Append(unmatched, e)) :
        Append(unmatched, e)[m].record = Append(unmatched, e)[n].record => m = n
  BY <1>3 DEF Accounted, EveryRecordAccounted
<1>6. /\ pos \in 1..Len(left) /\ left[pos] \notin Linked \cup Reported
      /\ \A p \in 1..Len(left) : p # pos => left[p] # left[pos]
  BY <1>1, NotYetDecided
<1>7. ASSUME NEW p \in 1..Len(left), p # pos PROVE Link(p)' = Link(p)
  <2>1. left[p] # e.record
    BY <1>3, <1>6, <1>7
  <2>2. Verdict(pairs, Append(unmatched, e), left[p]) = Verdict(pairs, unmatched, left[p])
    BY <1>4, <1>5, <2>1, EntryOfAnother
  <2> QED
    BY <1>1, <1>3, <2>2, LinkIsVerdict
<1>8. PICK at : at = pos
  OBVIOUS
<1>9. Link(at)' = [status |-> reason, with |-> None]
  <2>1. ReasonIn(unmatched', left[pos]) = reason
    <3>1. ReasonIn(Append(unmatched, e), e.record) = e.reason
      BY <1>4, <1>5, ReasonAppended
    <3> QED
      BY <1>3, <3>1
  <2>2. left[pos] \in {unmatched'[n].record : n \in 1..Len(unmatched')}
    <3>1. /\ Len(unmatched) + 1 \in 1..Len(Append(unmatched, e))
          /\ Append(unmatched, e)[Len(unmatched) + 1] = e
      BY <1>4
    <3> QED
      BY <1>3, <3>1
  <2>3. left[pos] \notin {pairs[n].left : n \in 1..Len(pairs)}
    BY <1>6 DEF Linked
  <2>4. Verdict(pairs, unmatched', left[pos]) = [status |-> reason, with |-> None]
    BY <2>1, <2>2, <2>3 DEF Verdict
  <2>5. Link(at)' = Verdict(pairs', unmatched', left'[at])
    BY LinkIsVerdict
  <2> QED
    BY <1>1, <1>8, <2>4, <2>5
<1> QED
  BY <1>1, <1>2, <1>7, <1>9, <1>8, LeftStep

(* Linking it is one.                                                       *)
LEMMA LinkStep ==
  ASSUME TypeOK, IndexInv, GatherInv, SelectInv, Accounted, Accounted', LinkBest
  PROVE  L!Next
<1>1. /\ pc \in {"left", "gather", "select"} /\ pos <= Len(left)
      /\ UNCHANGED <<left, right, unmatched>> /\ pc' = "left"
  BY DEF LinkBest, args, TypeOK, PlaceOK
<1> DEFINE e == [left |-> left[pos], right |-> best, merged |-> merge(left[pos], best)]
<1>2. L!LinkOf(left[pos]) = [status |-> "linked", with |-> best]
  BY BestOfIs
<1>3. e.left = left[pos] /\ e.right = best /\ pairs' = Append(pairs, e)
  BY DEF LinkBest
<1> HIDE DEF e
<1>4. PICK S : pairs \in Seq(S)
  BY DEF TypeOK, ResultOK
<1>5. \A m, n \in 1..Len(Append(pairs, e)) :
        Append(pairs, e)[m].left = Append(pairs, e)[n].left => m = n
  BY <1>3 DEF Accounted, EveryRecordAccounted
<1>6. /\ pos \in 1..Len(left)
      /\ \A p \in 1..Len(left) : p # pos => left[p] # left[pos]
  BY <1>1, NotYetDecided
<1>7. ASSUME NEW p \in 1..Len(left), p # pos PROVE Link(p)' = Link(p)
  <2>1. left[p] # e.left
    BY <1>3, <1>6, <1>7
  <2>2. Verdict(Append(pairs, e), unmatched, left[p]) = Verdict(pairs, unmatched, left[p])
    BY <1>4, <1>5, <2>1, PairOfAnother
  <2> QED
    BY <1>1, <1>3, <2>2, LinkIsVerdict
<1>8. PICK at : at = pos
  OBVIOUS
<1>9. Link(at)' = [status |-> "linked", with |-> best]
  <2>1. RightIn(pairs', left[pos]) = best
    <3>1. RightIn(Append(pairs, e), e.left) = e.right
      BY <1>4, <1>5, RightAppended
    <3> QED
      BY <1>3, <3>1
  <2>2. left[pos] \in {pairs'[n].left : n \in 1..Len(pairs')}
    <3>1. /\ Len(pairs) + 1 \in 1..Len(Append(pairs, e))
          /\ Append(pairs, e)[Len(pairs) + 1] = e
      BY <1>4
    <3> QED
      BY <1>3, <3>1
  <2>3. Verdict(pairs', unmatched', left[pos]) = [status |-> "linked", with |-> best]
    BY <2>1, <2>2 DEF Verdict
  <2>4. Link(at)' = Verdict(pairs', unmatched', left'[at])
    BY LinkIsVerdict
  <2> QED
    BY <1>1, <1>8, <2>3, <2>4
<1> QED
  BY <1>1, <1>2, <1>7, <1>9, <1>8, LeftStep

(* A record that has its fate is not pending.                               *)
LEMMA NotPending ==
  ASSUME NEW status \in Reasons \cup {"linked"}, NEW partner
  PROVE  [status |-> status, with |-> partner] # Pending
<1>1. status # "pending"
  BY DEF Reasons
<1> QED
  BY <1>1 DEF Pending

(* In the last sweep every left record is linked or has a reason, and a     *)
(* right record is the partner of some link exactly when a pair claims it.  *)
LEMMA AllLeftDecided ==
  ASSUME TypeOK, Accounted, pc = "right"
  PROVE  /\ \A p \in 1..Len(left) : left[p] \in Linked \cup Reported
         /\ \A p \in 1..Len(left) : Link(p) # Pending
         /\ \A r \in Range(right) : (\E p \in 1..Len(left) : Link(p).with = r) <=> r \in Claimed
<1>1. \A p \in 1..Len(left) : left[p] \in Linked \cup Reported
  BY DEF Accounted, EveryRecordAccounted, LeftProcessed
<1>2. Linked \subseteq {left[p] : p \in 1..Len(left)}
  BY DEF Accounted, EveryRecordAccounted, LeftProcessed
<1>3. ASSUME NEW n \in 1..Len(pairs) PROVE RightIn(pairs, pairs[n].left) = pairs[n].right
  <2>1. pairs[n] \in Range(pairs)
    BY DEF Range, TypeOK, ResultOK
  <2>2. \A pair \in Range(pairs) : pair.left = pairs[n].left => pair = pairs[n]
    BY DEF Range, TypeOK, ResultOK, Accounted, EveryRecordAccounted
  <2> QED
    BY <2>1, <2>2 DEF RightIn
<1>4. ASSUME NEW n \in 1..Len(unmatched)
      PROVE  ReasonIn(unmatched, unmatched[n].record) \in Reasons
  <2> DEFINE Entry == [record : Range(left) \cup Range(right), reason : Reasons]
  <2>1. unmatched \in Seq(Entry)
    BY DEF TypeOK, ResultOK
  <2>2. \A e \in Entry : e.reason \in Reasons
    OBVIOUS
  <2> HIDE DEF Entry
  <2>3. unmatched[n] \in Entry /\ unmatched[n] \in Range(unmatched)
    BY <2>1 DEF Range
  <2>4. \A entry \in Range(unmatched) :
          entry.record = unmatched[n].record => entry = unmatched[n]
    BY <2>1 DEF Range, Accounted, EveryRecordAccounted
  <2>5. ReasonIn(unmatched, unmatched[n].record) = unmatched[n].reason
    BY <2>3, <2>4 DEF ReasonIn
  <2> QED
    BY <2>2, <2>3, <2>5
<1>5. ASSUME NEW p \in 1..Len(left)
      PROVE  /\ left[p] \in Linked =>
                  Link(p) = [status |-> "linked", with |-> RightIn(pairs, left[p])]
             /\ left[p] \notin Linked =>
                  \E reason \in Reasons : Link(p) = [status |-> reason, with |-> None]
  <2>1. left[p] \in Linked =>
          Link(p) = [status |-> "linked", with |-> RightIn(pairs, left[p])]
    BY LinkIsVerdict DEF Verdict, Linked
  <2>2. left[p] \notin Linked =>
          Link(p) = [status |-> ReasonIn(unmatched, left[p]), with |-> None]
    BY <1>1, LinkIsVerdict DEF Verdict, Linked, Reported
  <2>3. left[p] \notin Linked => ReasonIn(unmatched, left[p]) \in Reasons
    BY <1>1, <1>4 DEF Reported
  <2> QED
    BY <2>1, <2>2, <2>3
<1>6. ASSUME NEW p \in 1..Len(left) PROVE Link(p) # Pending
  BY <1>5, NotPending
<1>7. None \notin Range(right)
  BY ArgsFacts, RangeOfList, NoneAssumption DEF TypeOK
<1>8. ASSUME NEW r \in Range(right)
      PROVE  (\E p \in 1..Len(left) : Link(p).with = r) <=> r \in Claimed
  <2>1. ASSUME NEW p \in 1..Len(left), Link(p).with = r PROVE r \in Claimed
    <3>1. left[p] \in Linked
      BY <1>5, <1>7, <2>1
    <3>2. PICK n \in 1..Len(pairs) : left[p] = pairs[n].left
      BY <3>1 DEF Linked
    <3>3. RightIn(pairs, left[p]) = r
      BY <1>5, <2>1, <3>1
    <3> QED
      BY <1>3, <3>2, <3>3 DEF Claimed
  <2>2. ASSUME r \in Claimed PROVE \E p \in 1..Len(left) : Link(p).with = r
    <3>1. PICK n \in 1..Len(pairs) : r = pairs[n].right
      BY <2>2 DEF Claimed
    <3>2. PICK p \in 1..Len(left) : left[p] = pairs[n].left
      BY <1>2 DEF Linked
    <3>3. left[p] \in Linked /\ RightIn(pairs, left[p]) = r
      BY <1>3, <3>1, <3>2 DEF Linked
    <3> QED
      BY <1>5, <3>3
  <2> QED
    BY <2>1, <2>2
<1> QED
  BY <1>1, <1>6, <1>8

\* What the last sweep makes of a right record.
Outcome(record, claimed) ==
  IF record \in claimed THEN "claimed"
  ELSE IF _has_coordinates(record) THEN "not selected" ELSE "no coordinates"

(* A step of the last sweep, seen from Linkage.                             *)
LEMMA SweepStep ==
  ASSUME TypeOK, Accounted, pc = "right", pc' = "right", pos <= Len(right), pos' = pos + 1,
         UNCHANGED <<left, right, pairs>>,
         NEW at, at = pos,
         \A p \in 1..Len(left) : Link(p)' = Link(p),
         \A q \in 1..Len(right) : q # at => Fate(q)' = Fate(q),
         Fate(at)' = Outcome(right[at], Claimed)
  PROVE  L!Next
<1>1. /\ at \in 1..Len(right) /\ Len(right) \in Nat /\ right[at] \in Range(right)
      /\ RightProcessed = at - 1
  <2>1. ArgsOK /\ pos \in Nat \ {0} /\ Len(right) \in Nat /\ right \in Seq(Range(right))
    BY ArgsFacts DEF TypeOK, PlaceOK
  <2>2. at \in 1..Len(right)
    BY <2>1
  <2>3. right[at] \in Range(right)
    BY <2>1, <2>2, RangeOfList
  <2> QED
    BY <2>1, <2>2, <2>3 DEF RightProcessed
<1>2. Links' = Links
  BY DEF Links
<1>3. \A p \in DOMAIN Links : Links[p] # L!Pending
  BY AllLeftDecided DEF Links, L!Pending, Pending
<1>4. Fates[at] = "pending"
  <2>1. Fate(at) = IF at > RightProcessed THEN "pending"
                   ELSE Sentence(unmatched, right[at])
    BY FateIsSentence
  <2>2. at > RightProcessed
    BY <1>1
  <2> QED
    BY <1>1, <2>1, <2>2 DEF Fates
<1>5. L!FateOf(right[at]) = Outcome(right[at], Claimed)
  <2>1. (\E p \in DOMAIN Links : Links[p].with = right[at]) <=> right[at] \in Claimed
    BY <1>1, AllLeftDecided DEF Links
  <2> QED
    BY <2>1 DEF L!FateOf, L!_has_coordinates, _has_coordinates, Links, Outcome
<1>6. Fates' = [Fates EXCEPT ![at] = L!FateOf(right[at])]
  BY <1>1, <1>5 DEF Fates
<1>7. L!DecideRight(at)
  BY <1>2, <1>3, <1>4, <1>6 DEF L!DecideRight, Links, Fates
<1>8. at \in DOMAIN Fates
  BY <1>1 DEF Fates
<1> QED
  BY <1>7, <1>8 DEF L!Next, Fates

\* The right records before the place of the sweep are decided, the others not.
LEMMA FateInTheSweep ==
  ASSUME TypeOK, pc = "right", pc' = "right", pos' = pos + 1, right' = right,
         NEW q \in 1..Len(right)
  PROVE  /\ q < pos => /\ Fate(q) = Sentence(unmatched, right[q])
                       /\ Fate(q)' = Sentence(unmatched', right[q])
         /\ q = pos => Fate(q)' = Sentence(unmatched', right[q])
         /\ q > pos => Fate(q) = "pending" /\ Fate(q)' = "pending"
<1>1. /\ Fate(q) = IF q > RightProcessed THEN "pending"
                   ELSE Sentence(unmatched, right[q])
      /\ Fate(q)' = IF q > RightProcessed' THEN "pending"
                    ELSE Sentence(unmatched', right[q])
  BY FateIsSentence
<1>2. /\ RightProcessed = pos - 1 /\ RightProcessed' = pos
      /\ pos \in Nat /\ Len(right) \in Nat
  BY ArgsFacts DEF RightProcessed, TypeOK, PlaceOK
<1> QED
  BY <1>1, <1>2

(* Passing over a claimed record is a step of Linkage.                      *)
LEMMA SkipStep ==
  ASSUME TypeOK, Accounted, Accounted', SkipClaimed
  PROVE  L!Next
<1>1. /\ pc = "right" /\ pc' = "right" /\ pos <= Len(right) /\ pos' = pos + 1
      /\ right[pos] \in Claimed /\ UNCHANGED <<left, right, pairs, unmatched>>
  BY DEF SkipClaimed, args, Accounted
<1>2. PICK at : at = pos
  OBVIOUS
<1>3. /\ at \in 1..Len(right) /\ Len(right) \in Nat
  BY <1>1, <1>2, ArgsFacts DEF TypeOK, PlaceOK
<1>4. \A p \in 1..Len(left) : Link(p)' = Link(p)
  BY <1>1, LinkIsVerdict
<1>5. ASSUME NEW q \in 1..Len(right), q # at PROVE Fate(q)' = Fate(q)
  <2>1. q < at \/ q > at
    BY <1>3, <1>5
  <2> QED
    BY <1>1, <1>2, <2>1, FateInTheSweep
<1>6. Fate(at)' = Outcome(right[at], Claimed)
  <2>1. right[at] \notin Reported
    <3>1. Reported' \cap Range(right') = {right'[q] : q \in 1..RightProcessed'} \ Claimed'
      BY DEF Accounted, EveryRecordAccounted
    <3>2. Reported' = Reported /\ Claimed' = Claimed /\ right[at] \in Range(right)
      BY <1>1, <1>3, ArgsFacts, RangeOfList DEF Reported, Claimed, TypeOK
    <3> QED
      BY <1>1, <1>2, <3>1, <3>2
  <2>2. Sentence(unmatched', right[at]) = "claimed"
    BY <1>1, <2>1 DEF Sentence, Reported
  <2>3. Outcome(right[at], Claimed) = "claimed"
    BY <1>1, <1>2 DEF Outcome
  <2> QED
    BY <1>1, <1>2, <1>3, <2>2, <2>3, FateInTheSweep
<1> QED
  BY <1>1, <1>2, <1>4, <1>5, <1>6, SweepStep

(* Reporting a right record is a step of Linkage.                           *)
LEMMA ReportStep ==
  ASSUME TypeOK, Accounted, Accounted', ReportRight
  PROVE  L!Next
<1>1. /\ pc = "right" /\ pc' = "right" /\ pos <= Len(right) /\ pos' = pos + 1
      /\ right[pos] \notin Claimed /\ UNCHANGED <<left, right, pairs>>
  BY DEF ReportRight, args, Accounted
<1>2. PICK at : at = pos
  OBVIOUS
<1>3. /\ at \in 1..Len(right) /\ Len(right) \in Nat /\ right[at] \in Range(right)
  BY <1>1, <1>2, ArgsFacts, RangeOfList DEF TypeOK, PlaceOK
<1> DEFINE e == [record |-> right[pos], reason |-> Outcome(right[pos], Claimed)]
<1>4. /\ e.record = right[pos] /\ e.reason = Outcome(right[pos], Claimed)
      /\ unmatched' = Append(unmatched, e)
  BY <1>1 DEF ReportRight, Outcome
<1> HIDE DEF e
<1>5. PICK S : unmatched \in Seq(S)
  BY DEF TypeOK, ResultOK
<1>6. \A m, n \in 1..Len(Append(unmatched, e)) :
        Append(unmatched, e)[m].record = Append(unmatched, e)[n].record => m = n
  BY <1>4 DEF Accounted, EveryRecordAccounted
<1>7. ASSUME NEW p \in 1..Len(left) PROVE Link(p)' = Link(p)
  <2>1. left[p] # e.record
    BY <1>2, <1>3, <1>4, ArgsFacts, RangeOfList DEF TypeOK, ArgsOK
  <2>2. Verdict(pairs, Append(unmatched, e), left[p]) = Verdict(pairs, unmatched, left[p])
    BY <1>5, <1>6, <2>1, EntryOfAnother
  <2> QED
    BY <1>1, <1>4, <2>2, LinkIsVerdict
<1>8. ASSUME NEW q \in 1..Len(right), q # at PROVE Fate(q)' = Fate(q)
  <2>1. q < at \/ q > at
    BY <1>3, <1>8
  <2>2. right[q] # e.record
    BY <1>2, <1>3, <1>4, <1>8 DEF TypeOK, ArgsOK, RecordList
  <2>3. Sentence(unmatched', right[q]) = Sentence(unmatched, right[q])
    BY <1>4, <1>5, <1>6, <2>2, EntryOfAnother
  <2> QED
    BY <1>1, <1>2, <2>1, <2>3, FateInTheSweep
<1>9. Fate(at)' = Outcome(right[at], Claimed)
  <2>1. ReasonIn(unmatched', right[pos]) = Outcome(right[pos], Claimed)
    <3>1. ReasonIn(Append(unmatched, e), e.record) = e.reason
      BY <1>5, <1>6, ReasonAppended
    <3> QED
      BY <1>4, <3>1
  <2>2. right[pos] \in {unmatched'[n].record : n \in 1..Len(unmatched')}
    <3>1. /\ Len(unmatched) + 1 \in 1..Len(Append(unmatched, e))
          /\ Append(unmatched, e)[Len(unmatched) + 1] = e
      BY <1>5
    <3> QED
      BY <1>4, <3>1
  <2>3. Sentence(unmatched', right[at]) = Outcome(right[at], Claimed)
    BY <1>2, <2>1, <2>2 DEF Sentence
  <2> QED
    BY <1>1, <1>2, <1>3, <2>3, FateInTheSweep
<1> QED
  BY <1>1, <1>2, <1>7, <1>8, <1>9, SweepStep

(* Every step of resolve decides one record as Linkage does, or nothing.    *)
LEMMA NextLinkage ==
  TypeOK /\ IndexInv /\ GatherInv /\ OccupancyInv /\ SelectInv /\ Accounted /\ [Next]_vars
    => [L!Next]_(L!vars)
<1> SUFFICES ASSUME TypeOK, IndexInv, GatherInv, OccupancyInv, SelectInv, Accounted,
                    [Next]_vars
             PROVE  [L!Next]_(L!vars)
  OBVIOUS
<1>1. Accounted'
  BY NextAccounted
<1>2. CASE \/ IndexRight \/ StartLeft \/ StartGather \/ Gather \/ StartSelect
           \/ Consider \/ StartRight \/ Return \/ UNCHANGED vars
  <2>1. UNCHANGED <<left, right, pairs, unmatched>>
    BY <1>2 DEF IndexRight, StartLeft, StartGather, Gather, StartSelect,
                Consider, StartRight, Return, vars, args
  <2>2. RightProcessed' = RightProcessed
    BY <1>2 DEF IndexRight, StartLeft, StartGather, Gather, StartSelect,
                Consider, StartRight, Return, vars, RightProcessed
  <2>3. UNCHANGED <<left, right, Links, Fates>>
    BY <2>1, <2>2, QuietStep
  <2> QED
    BY <2>3 DEF L!vars, Links, Fates
<1>3. CASE LeftWithoutCoordinates \/ LeftWithoutCandidates \/ LeftBelowThreshold
  BY <1>1, <1>3, LeaveStep
<1>4. CASE LinkBest
  BY <1>1, <1>4, LinkStep
<1>5. CASE SkipClaimed
  BY <1>1, <1>5, SkipStep
<1>6. CASE ReportRight
  BY <1>1, <1>6, ReportStep
<1> QED
  BY <1>2, <1>3, <1>4, <1>5, <1>6 DEF Next, Returned

(* A resolver that starts is a Linkage that starts.                         *)
LEMMA InitLinkage == Init => L!Init
<1> SUFFICES ASSUME Init PROVE L!Init
  OBVIOUS
<1>1. Linked = {} /\ Reported = {} /\ pc \notin {"right", "done"}
  BY DEF Init, Linked, Reported
<1>2. Links = [p \in 1..Len(left) |-> Pending]
  BY <1>1 DEF Links, Link
<1>3. Fates = [q \in 1..Len(right) |-> "pending"]
  BY <1>1, NoFateYet
<1> QED
  BY <1>2, <1>3 DEF Init, L!Init, L!Pending, Pending, Links, Fates

(* resolve takes Linkage's decisions, for every grid, scorer, threshold and  *)
(* pair of lists: the index, the order of the scan and the bookkeeping never *)
(* show in what is linked and why the rest is not.  That it decides every    *)
(* record in the end is the fairness half of ImplementsLinkage.              *)
THEOREM LinkageImplemented == Spec => L!Init /\ [][L!Next]_(L!vars)
<1>1. Init => L!Init
  BY InitLinkage
<1>2. TypeOK /\ IndexInv /\ GatherInv /\ OccupancyInv /\ SelectInv /\ Accounted /\ [Next]_vars
        => [L!Next]_(L!vars)
  BY NextLinkage
<1> QED
  BY <1>1, <1>2, SelectionInvariant, AccountedInvariant, PTL DEF Spec
=============================================================================
