------------------------------ MODULE Linkage ------------------------------
(***************************************************************************)
(* What resolve() of src/joinless/resolver.py promises, without its index, *)
(* its scan order or its bookkeeping: each left record is linked to the    *)
(* best acceptable right record of its neighbourhood or reported with the  *)
(* reason it is not, and each right record is claimed or reported.  Left   *)
(* records are decided independently of each other, in any order, and a    *)
(* decision is a function of the two lists seen as sets.                   *)
(***************************************************************************)
EXTENDS MergePolicy, Sequences, Functions

CONSTANTS Lefts, Rights, CellSize, Threshold, Score(_, _), Distance(_, _)

VARIABLES
  left, right,   \* the two lists
  link,          \* what is decided of each left position
  fate           \* what is decided of each right position

vars == <<left, right, link, fate>>

\* The records of the right list within one cell of a placed record.
Neighbourhood(record) ==
  LET Row(x) == x \div CellSize
  IN  {r \in Range(right) :
         /\ _has_coordinates(record) /\ _has_coordinates(r)
         /\ Row(record.latitude) - Row(r.latitude) \in -1..1
         /\ Row(record.longitude) - Row(r.longitude) \in -1..1}

Acceptable(record) ==
  {r \in Neighbourhood(record) : Score(record.name, r.name) >= Threshold}

\* Higher score first, then shorter distance, then smaller record_id.
Preferred(record, r, s) ==
  IF Score(record.name, r.name) # Score(record.name, s.name)
  THEN Score(record.name, r.name) > Score(record.name, s.name)
  ELSE IF Distance(record, r) # Distance(record, s)
  THEN Distance(record, r) < Distance(record, s)
  ELSE record_id(r) < record_id(s)

BestOf(record) ==
  CHOOSE r \in Acceptable(record) :
    \A s \in Acceptable(record) \ {r} : Preferred(record, r, s)

Pending == [status |-> "pending", with |-> None]

LinkOf(record) ==
  IF Acceptable(record) # {}
  THEN [status |-> "linked", with |-> BestOf(record)]
  ELSE [status |-> IF ~_has_coordinates(record) THEN "no coordinates"
                   ELSE IF Neighbourhood(record) = {} THEN "no candidates"
                   ELSE "below threshold",
        with   |-> None]

FateOf(record) ==
  IF \E p \in DOMAIN link : link[p].with = record THEN "claimed"
  ELSE IF _has_coordinates(record) THEN "not selected" ELSE "no coordinates"

Init ==
  /\ left \in Lefts /\ right \in Rights
  /\ link = [p \in 1..Len(left) |-> Pending]
  /\ fate = [q \in 1..Len(right) |-> "pending"]

DecideLeft(p) ==
  /\ link[p] = Pending
  /\ link' = [link EXCEPT ![p] = LinkOf(left[p])]
  /\ UNCHANGED <<left, right, fate>>

\* A right record's fate is known only once every left record is decided.
DecideRight(q) ==
  /\ \A p \in DOMAIN link : link[p] # Pending
  /\ fate[q] = "pending"
  /\ fate' = [fate EXCEPT ![q] = FateOf(right[q])]
  /\ UNCHANGED <<left, right, link>>

Next ==
  \/ \E p \in DOMAIN link : DecideLeft(p)
  \/ \E q \in DOMAIN fate : DecideRight(q)

Spec == Init /\ [][Next]_vars /\ WF_vars(Next)
============================================================================
