---------------------------- MODULE Preparation ----------------------------
(***************************************************************************)
(* Preparing and scoring names: candidate_pairs, score_candidates and both *)
(* of its preparation paths in src/joinless/resolver.py, the scorers'      *)
(* prepare_all, prepare and score in scoring.py and embedding.py, and the  *)
(* sample src/joinless/cli.py measures preparation over.                   *)
(*                                                                         *)
(* The text cleaning of the classical arms, the tokenizer, the graph and   *)
(* the two rapidfuzz metrics are constants.  The graph computes a text's   *)
(* vectors from that text alone; what it puts in the padded positions of a *)
(* batch is arbitrary.  Vectors have integer coordinates, and the unit     *)
(* vector of a direction is its smallest integer vector.  Scores are in    *)
(* percent.                                                                *)
(***************************************************************************)
EXTENDS Grid, SequencesExt

CONSTANTS
  Blank,            \* the names that are empty or only whitespace
  _normalise(_),    \* a name's tokens in order, after case and punctuation
  Alike(_, _),      \* the larger of the two rapidfuzz metrics
  Encode(_),        \* the token ids of a text, never none
  Graph(_, _),      \* of a token sequence, the vector at a position
  Padding(_),       \* of a batch's width, the vector at a padded position
  Cosine(_, _),     \* of two non-zero vectors, as floating point rounds it
  GroupSizes,       \* _PREPARATION_OCCUPANCY_GROUPS
  Degree            \* one degree in units of the coordinates

ASSUME PreparationAssumption ==
  /\ Blank \subseteq Names
  /\ \A name \in Names \ Blank : Len(Encode(name)) \in Nat \ {0}
  /\ \A name \in Names : IsFiniteSet(Range(_normalise(name)))
  /\ \A m, n \in Names :
       _normalise(m) # <<>> /\ _normalise(n) # <<>> =>
         Alike(_normalise(m), _normalise(n)) \in 0..100
  /\ Degree \in Nat /\ Degree >= 2 * CellSize
  /\ GroupSizes \in Seq(Nat \ {0}) \ {<<>>}
  /\ "preparation-sample" \in Sources

Scorers == {"overlap", "fuzzy", "embed"}

----------------------------------------------------------------------------
(* Candidate pairs *)

\* The items of a list at some of its positions, in the list's order.
Selected(list, positions) ==
  LET n == Cardinality(positions)
      place == CHOOSE f \in [1..n -> positions] :
                 \A j, k \in 1..n : j < k => f[j] < f[k]
  IN  [k \in 1..n |-> list[place[k]]]

\* cell -> the placed records in it, in list order.
_index_by_cell(records) ==
  LET placed == {p \in DOMAIN records : _has_coordinates(records[p])}
  IN  [cell \in {_cell(records[p]) : p \in placed} |->
         Selected(records, {p \in placed : _cell(records[p]) = cell})]

\* The nine buckets around a record, one after the other.
_candidates_for(record, index) ==
  LET Neighbour(delta) == <<_cell(record)[1] + delta[1],
                            _cell(record)[2] + delta[2]>>
      BucketAt(cell) == IF cell \in DOMAIN index THEN index[cell] ELSE <<>>
  IN  IF ~_has_coordinates(record) THEN <<>>
      ELSE FlattenSeq([n \in DOMAIN _NEIGHBOUR_OFFSETS |->
                         BucketAt(Neighbour(_NEIGHBOUR_OFFSETS[n]))])

candidate_pairs(left, right) ==
  LET PairsOf(record) ==
        LET candidates == _candidates_for(record, _index_by_cell(right))
        IN  [n \in DOMAIN candidates |-> <<record, candidates[n]>>]
  IN  FlattenSeq([p \in DOMAIN left |-> PairsOf(left[p])])

bucket_occupancy(records) ==
  LET index == _index_by_cell(records)
  IN  [cell \in DOMAIN index |-> Len(index[cell])]

----------------------------------------------------------------------------
(* Embedding a batch *)

\* The vectors at some positions of a text added up: the direction of their sum
\* is that of their mean.
VectorSum(token_embeddings, positions) ==
  [d \in DOMAIN token_embeddings[1] |->
     SumFunction([p \in positions |-> token_embeddings[p][d]])]

\* Mutant: every position counts, padded ones included.
_mean_pool_unmasked(token_embeddings, attention_mask) ==
  VectorSum(token_embeddings, DOMAIN token_embeddings)

_mean_pool(token_embeddings, attention_mask) ==
  VectorSum(token_embeddings, {p \in DOMAIN token_embeddings : attention_mask[p] = 1})

IsZero(vector) == \A d \in DOMAIN vector : vector[d] = 0

\* Scaled to unit length, which a zero vector has no direction to be.
_l2_normalize(vector) ==
  LET Size(x) == IF x < 0 THEN -x ELSE x
      Divides(k) == \A d \in DOMAIN vector : Size(vector[d]) % k = 0
      Common == {k \in 1..Max({Size(vector[d]) : d \in DOMAIN vector}) : Divides(k)}
  IN  IF IsZero(vector) THEN vector
      ELSE [d \in DOMAIN vector |->
              IF vector[d] < 0 THEN -(Size(vector[d]) \div Max(Common))
                               ELSE vector[d] \div Max(Common)]

\* One tokenizer call, which pads every text to the longest, one graph call,
\* and each text's own mask.
_embed_texts(texts) ==
  LET ids == [i \in DOMAIN texts |-> Encode(texts[i])]
      width == Max({Len(ids[i]) : i \in DOMAIN ids})
      attention_masks == [i \in DOMAIN ids |->
                            [p \in 1..width |-> IF p <= Len(ids[i]) THEN 1 ELSE 0]]
      outputs == [i \in DOMAIN ids |->
                    [p \in 1..width |-> IF p <= Len(ids[i]) THEN Graph(ids[i], p)
                                        ELSE Padding(width)]]
  IN  [i \in DOMAIN texts |->
         _l2_normalize(_mean_pool(outputs[i], attention_masks[i]))]

\* The distinct names of a batch that are not blank, as they first occur.
order(names) ==
  Selected(names, {i \in DOMAIN names : /\ names[i] \notin Blank
                                       /\ \A j \in 1..(i - 1) : names[j] # names[i]})

EmbedAll(names) ==
  LET embeddings == _embed_texts(order(names))
      index_by_name(name) == CHOOSE k \in DOMAIN order(names) : order(names)[k] = name
  IN  [i \in DOMAIN names |-> IF names[i] \in Blank THEN None
                              ELSE embeddings[index_by_name(names[i])]]

----------------------------------------------------------------------------
(* The scorers *)

prepare(scorer, name) ==
  CASE scorer = "overlap" -> Range(_normalise(name))
    [] scorer = "fuzzy"   -> _normalise(name)
    [] scorer = "embed"   -> IF name \in Blank THEN None
                             ELSE _embed_texts(<<name>>)[1]

prepare_all(scorer, names) ==
  IF scorer = "embed" THEN EmbedAll(names)
  ELSE [i \in DOMAIN names |-> prepare(scorer, names[i])]

OverlapScore(a, b) ==
  IF a = {} \/ b = {} THEN 0
  ELSE (100 * Cardinality(a \cap b)) \div Min({Cardinality(a), Cardinality(b)})

FuzzyScore(a, b) == IF a = <<>> \/ b = <<>> THEN 0 ELSE Alike(a, b)

\* Mutant: the cosine of a zero vector is 0, not undefined.
_cosine_similarity_zero(a, b) == IF IsZero(a) \/ IsZero(b) THEN 0 ELSE Cosine(a, b)

_cosine_similarity(a, b) == IF IsZero(a) \/ IsZero(b) THEN None ELSE Cosine(a, b)

\* Rescaled from [-1, 1] to [0, 1] and clamped to it.
EmbeddingScore(a, b) ==
  IF a = None \/ b = None THEN 0
  ELSE LET cosine == _cosine_similarity(a, b)
       IN  IF cosine = None THEN 0
           ELSE Max({0, Min({100, (cosine + 100) \div 2})})

score(scorer, a, b) ==
  CASE scorer = "overlap" -> OverlapScore(a, b)
    [] scorer = "fuzzy"   -> FuzzyScore(a, b)
    [] scorer = "embed"   -> EmbeddingScore(a, b)

\* The cosine of two prepared names is a number, if not always one in [-1, 1].
ASSUME CosineAssumption ==
  \A m, n \in Names \ Blank :
    LET u == prepare("embed", m)
        v == prepare("embed", n)
    IN  ~IsZero(u) /\ ~IsZero(v) => Cosine(u, v) \in Int

----------------------------------------------------------------------------
(* The two preparation paths *)

\* dict(zip(ids, prepared)): a record's prepared value.
PreparedById(scorer, records) ==
  LET prepared == prepare_all(scorer, [p \in DOMAIN records |-> records[p].name])
      Place(record) == CHOOSE p \in DOMAIN records : records[p] = record
  IN  [record \in Range(records) |-> prepared[Place(record)]]

prepare_naive(scorer, pairs) ==
  [n \in DOMAIN pairs |-> <<prepare(scorer, pairs[n][1].name),
                            prepare(scorer, pairs[n][2].name)>>]

ScoreHoisted(scorer, left, right) ==
  LET pairs == candidate_pairs(left, right)
      prepared_left == PreparedById(scorer, left)
      prepared_right == PreparedById(scorer, right)
  IN  [n \in DOMAIN pairs |-> score(scorer, prepared_left[pairs[n][1]],
                                            prepared_right[pairs[n][2]])]

ScoreNaive(scorer, left, right) ==
  LET prepared == prepare_naive(scorer, candidate_pairs(left, right))
  IN  [n \in DOMAIN prepared |-> score(scorer, prepared[n][1], prepared[n][2])]

score_candidates(scorer, left, right, preparation) ==
  [path   |-> preparation,
   scores |-> IF preparation = "hoisted" THEN ScoreHoisted(scorer, left, right)
              ELSE ScoreNaive(scorer, left, right)]

----------------------------------------------------------------------------
(* The sample preparation is measured over *)

\* A record of a group is a place in it.
GroupMembers(groups) == UNION {{g} \X (1..GroupSizes[g]) : g \in groups}

SampleSize == Cardinality(GroupMembers(DOMAIN GroupSizes))

\* The group the n-th record belongs to.
Group(n) ==
  CHOOSE g \in DOMAIN GroupSizes :
    /\ Cardinality(GroupMembers(1..(g - 1))) < n
    /\ n <= Cardinality(GroupMembers(1..g))

\* Mutant: groups a cell apart instead of a degree.
SampleCoordinate_by_cell(n) == (Group(n) - 1) * CellSize

SampleCoordinate(n) == (Group(n) - 1) * Degree

SampleRecords(names) ==
  [n \in 1..SampleSize |->
     [source |-> "preparation-sample", ordinal |-> n - 1, name |-> names[n],
      latitude |-> SampleCoordinate(n), longitude |-> SampleCoordinate(n),
      fields |-> [k \in {} |-> ""]]]

_build_preparation_sample(left_names, right_names) ==
  LET left_records == SampleRecords(left_names)
      right_records == SampleRecords(right_names)
      pairs == candidate_pairs(left_records, right_records)
      occupancy == bucket_occupancy(right_records)
      Index(records, record) == CHOOSE i \in DOMAIN records : records[i] = record
  IN  [left_names       |-> SubSeq(left_names, 1, SampleSize),
       right_names      |-> SubSeq(right_names, 1, SampleSize),
       comparison_pairs |-> [n \in DOMAIN pairs |->
                               <<Index(left_records, pairs[n][1]),
                                 Index(right_records, pairs[n][2])>>],
       counts           |-> [cell \in DOMAIN occupancy |-> occupancy[cell]],
       max_occupancy    |-> Max(Range(occupancy))]

\* What the worker rebuilds from the sample: the names of each pair it times.
TimedPairs(sample) ==
  [n \in DOMAIN sample.comparison_pairs |->
     <<sample.left_names[sample.comparison_pairs[n][1]],
       sample.right_names[sample.comparison_pairs[n][2]]>>]
============================================================================
