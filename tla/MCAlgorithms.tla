---------------------------- MODULE MCAlgorithms ----------------------------
(***************************************************************************)
(* Algorithms with every argument from a small set.                        *)
(***************************************************************************)
EXTENDS Algorithms

CONSTANTS
  MaxLeft, MaxRight,  \* rows a side in a call of score_candidates
  MaxSamples,         \* repetitions of a measurement
  MaxDuration         \* of a sample, and of a step of a worker's life

----------------------------------------------------------------------------
(* Rows *)

MCSources == {"left", "right", "preparation-sample"}
MCNames == {"", "--", "ACME", "Acme", "ZED CO"}
MCKeys == {"city", "phone"}
MCValues == {"", "x"}

NoFields == [k \in {} |-> ""]

\* Two sources, no, half and full coordinates, an empty name, and every way of
\* filling, emptying or leaving out two fields.
MergeRows ==
  [source : {"left", "right"}, ordinal : {0}, name : {"", "ACME"},
   latitude : {None, 3}, longitude : {None, 4}, fields : Fields]

Row(source, ordinal, content) ==
  [source |-> source, ordinal |-> ordinal, name |-> content[1],
   latitude |-> content[2][1], longitude |-> content[2][2], fields |-> NoFields]

\* A place in one cell, one in its neighbour, one far from both and none.
LeftContents  == MCNames \X {<<0, 0>>} \cup {<<"ACME", <<9, 0>>>>}
RightContents == MCNames \X {<<-1, 1>>} \cup {<<"ZED CO", <<None, None>>>>}

ListsOf(source, contents, max) ==
  {[p \in DOMAIN c |-> Row(source, p - 1, c[p])] :
     c \in UNION {[1..n -> contents] : n \in 0..max}}

MCGroupSizes == <<1, 2>>

SampleNames(n) == [1..n -> {"", "ACME", "Acme"}]

MCRows ==
  MergeRows
  \cup {Row("left", n, c) : n \in 0..(MaxLeft - 1), c \in LeftContents}
  \cup {Row("right", n, c) : n \in 0..(MaxRight - 1), c \in RightContents}

Digit(x) == IF x = None THEN 0 ELSE x + 2

\* The digits of an identity, one for each part a row can differ in.
MCDigest(parts) ==
  LET content == parts[2]
      Field(k) == IF k \notin DOMAIN content.fields THEN 0
                  ELSE IF content.fields[k] = "" THEN 1 ELSE 2
      side == IF parts[1] = "left" THEN 1 ELSE 0
      name == CASE content.name = "" -> 0 [] content.name = "--" -> 1
                [] content.name = "ACME" -> 2 [] content.name = "Acme" -> 3
                [] OTHER -> 4
      position == IF Len(parts) = 3 THEN parts[3] ELSE 9
  IN  Field("city") + 3 * (Field("phone") + 3 * (Digit(content.latitude)
        + 12 * (Digit(content.longitude) + 12 * (side + 2 * (name
            + 5 * position)))))

----------------------------------------------------------------------------
(* Texts: a blank name, one that is only punctuation and embeds to nothing, *)
(* two spellings of one name of different lengths, and an unlike name.      *)

MCBlank == {""}

MCNormalise(name) ==
  CASE name \in {"ACME", "Acme"} -> <<"acme">>
    [] name = "ZED CO" -> <<"zed", "co">>
    [] OTHER -> <<>>

MCAlike(m, n) == IF m = n THEN 100 ELSE 40

MCEncode(text) ==
  CASE text = "--"     -> <<"-">>
    [] text = "ACME"   -> <<"acme">>
    [] text = "Acme"   -> <<"ac", "me">>
    [] text = "ZED CO" -> <<"z", "ed", "co">>

MCGraph(ids, p) ==
  CASE ids[p] = "-"    -> <<0, 0>>
    [] ids[p] = "acme" -> <<1, 0>>
    [] ids[p] = "ac"   -> <<1, 1>>
    [] ids[p] = "me"   -> <<1, -1>>
    [] ids[p] = "z"    -> <<0, 1>>
    [] ids[p] = "ed"   -> <<1, 1>>
    [] ids[p] = "co"   -> <<-1, 0>>

MCPadding(width) == <<-3, 2>>

\* Equal vectors round to just above one.
MCCosine(u, v) ==
  LET dot == u[1] * v[1] + u[2] * v[2]
  IN  IF u = v THEN 101 ELSE IF dot = 0 THEN 0 ELSE IF dot > 0 THEN 50 ELSE -50

----------------------------------------------------------------------------
(* The calls *)

SamplesUpTo(n) == UNION {[1..k -> 0..MaxDuration] : k \in 1..n}

MCCalls ==
  [op : {"merge"}, a : MergeRows, b : MergeRows]
  \cup [op : {"score"}, scorer : Scorers,
        left : ListsOf("left", LeftContents, MaxLeft),
        right : ListsOf("right", RightContents, MaxRight)]
  \cup UNION {[op : {"sample"}, left_names : SampleNames(n), right_names : SampleNames(n)] :
                n \in (SampleSize - 1)..(SampleSize + 1)}
  \cup [op : {"latency"}, durations : SamplesUpTo(MaxSamples)]
  \cup [op : {"cost"}, hoisted : [1..3 -> 0..MaxDuration],
        naive : [1..3 -> 0..MaxDuration]]
  \cup [op : {"cold start"}, worker : Timeline(0..MaxDuration, {-1, 0, 1})]
=============================================================================
