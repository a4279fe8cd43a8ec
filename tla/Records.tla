------------------------------ MODULE Records ------------------------------
(***************************************************************************)
(* Records and their identity (src/joinless/records.py).                   *)
(*                                                                         *)
(* A coordinate is an integer in some fixed fraction of a degree, or None  *)
(* when the row does not carry it: latitude and longitude are optional     *)
(* independently of each other.  sha256 is the constant Digest, a          *)
(* collision-free map into an ordered set; which of two records gets the   *)
(* smaller digest is arbitrary.                                            *)
(***************************************************************************)
EXTENDS Integers, FiniteSets

CONSTANTS
  Sources,      \* source namespaces
  Names,        \* values of a row's name, the empty string among them
  Keys,         \* keys a row's "fields" object may have
  Values,       \* values of such a key, the empty string among them
  Rows,         \* the records that occur
  None,         \* Python's None
  Digest(_)     \* hashlib.sha256 over the joined parts, as a number

Coordinate == Int \cup {None}

Fields == UNION {[K -> Values] : K \in SUBSET Keys}

Record == [source : Sources, ordinal : Nat, name : Names,
           latitude : Coordinate, longitude : Coordinate, fields : Fields]

\* The content of a record: everything but its origin and its position.
_canonical(record) == [name      |-> record.name,
                       latitude  |-> record.latitude,
                       longitude |-> record.longitude,
                       fields    |-> record.fields]

content_id(record) == Digest(<<record.source, _canonical(record)>>)

record_id(record) ==
  Digest(<<record.source, _canonical(record), record.ordinal>>)

ASSUME RowsAssumption ==
  Rows \subseteq Record /\ \A r \in Rows : IsFiniteSet(DOMAIN r.fields)

ASSUME NoneAssumption == None \notin Int /\ None \notin Rows

\* No two different rows have one record_id, and record_ids are ordered.
ASSUME DigestAssumption ==
  /\ \A r \in Rows : record_id(r) \in Int
  /\ \A r, s \in Rows : record_id(r) = record_id(s) => r = s
============================================================================
