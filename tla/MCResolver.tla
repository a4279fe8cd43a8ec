----------------------------- MODULE MCResolver -----------------------------
(***************************************************************************)
(* Resolver on two families of small inputs: two rows a side around a cell *)
(* corner at zero, and one left row among up to MaxTies right rows.  Rows  *)
(* are numbered and labelled with their source as _read_records does.      *)
(* Names are compared by the overlap coefficient of their tokens, in       *)
(* percent.                                                                *)
(***************************************************************************)
EXTENDS Resolver

CONSTANTS
  MaxClaims,   \* rows a side, around the corner
  MaxTies      \* right rows around one left row

MCSources == {"left", "right"}
MCNames == {"ACME", "ACME ZED", "ZED CO"}
MCKeys == {}
MCValues == {""}

Tokens(name) ==
  CASE name = "ACME"     -> {"acme"}
    [] name = "ACME ZED" -> {"acme", "zed"}
    [] name = "ZED CO"   -> {"zed", "co"}

\* OverlapScorer.score: |A \cap B| / min(|A|, |B|).
MCScore(m, n) ==
  LET a == Cardinality(Tokens(m))
      b == Cardinality(Tokens(n))
  IN  (100 * Cardinality(Tokens(m) \cap Tokens(n))) \div (IF a < b THEN a ELSE b)

\* Two lists that meet around a cell corner at zero; the left side has a row
\* without coordinates and one with no neighbour, the right side a row with
\* half a position.
CornerLeft ==
  {"ACME", "ZED CO"} \X {<<0, 0>>, <<-3, -1>>} \cup {<<"ACME", <<None, None>>>>}
CornerRight ==
  (MCNames \X {<<-1, -1>>, <<1, 1>>}) \cup {<<"ACME", <<0, None>>>>}

\* One left row and right rows around it: equal distances on both sides of a
\* cell boundary, the same place twice, and a cell out of reach.
TieLeft == {"ACME ZED"} \X {<<1, 0>>, <<-2, 0>>}
TieRight ==
  (MCNames \X {<<0, 0>>, <<2, 0>>, <<1, -2>>}) \cup {<<"ACME", <<5, 0>>>>}

Row(source, ordinal, content) ==
  [source |-> source, ordinal |-> ordinal, name |-> content[1],
   latitude |-> content[2][1], longitude |-> content[2][2],
   fields |-> [k \in {} |-> ""]]

ListsOf(source, contents, max) ==
  {[p \in DOMAIN c |-> Row(source, p - 1, c[p])] :
     c \in UNION {[1..n -> contents] : n \in 0..max}}

MCLefts == ListsOf("left", CornerLeft, MaxClaims) \cup ListsOf("left", TieLeft, 1)

MCRights == ListsOf("right", CornerRight, MaxClaims)
              \cup ListsOf("right", TieRight, MaxTies)

MCRows ==
  {Row("left", n, c) : n \in 0..(MaxClaims - 1), c \in CornerLeft \cup TieLeft}
  \cup {Row("right", n, c) : n \in 0..(MaxTies - 1), c \in CornerRight \cup TieRight}

Over(list, contents) ==
  \A p \in DOMAIN list :
    <<list[p].name, <<list[p].latitude, list[p].longitude>>>> \in contents

\* Both lists of the same family.
MCInit ==
  /\ Init
  /\ \/ Over(left, CornerLeft) /\ Over(right, CornerRight)
     \/ Over(left, TieLeft) /\ Over(right, TieRight)

MCSpec == MCInit /\ [][Next]_vars /\ WF_vars(Next)

\* Two records without coordinates are never compared: -1 is never used.
MCDistance(r, s) ==
  IF _has_coordinates(r) /\ _has_coordinates(s)
  THEN (r.latitude - s.latitude) * (r.latitude - s.latitude)
         + (r.longitude - s.longitude) * (r.longitude - s.longitude)
  ELSE -1

Digit(x) == IF x = None THEN 9 ELSE x + 4

\* An injection of identities into the integers, in no meaningful order: the
\* later of two equal rows gets the smaller number.
MCDigest(parts) ==
  LET content == parts[2]
      position == IF Len(parts) = 3 THEN 5 - parts[3] ELSE 0
      name == CASE content.name = "ACME" -> 2 [] content.name = "ZED CO" -> 1
                [] OTHER -> 3
      side == IF parts[1] = "left" THEN 0 ELSE 1
  IN  (((position * 10 + Digit(content.longitude)) * 10
          + Digit(content.latitude)) * 10 + name) * 10 + side
============================================================================
