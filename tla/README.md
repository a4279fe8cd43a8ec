# A TLA+ model of joinless

`joinless` links the rows of two files without a shared key, by place and name,
and benchmarks the scorers it may do that with. This directory holds a TLA+
model of it, the configurations that TLC checks the model with, and theorems
about it that TLAPS checks. Paths below are relative to the repository's root.

To check one module: `tlc -workers 2 -config store.cfg MCRunRecordStore`; to
check its proofs: `tlapm StoreProofs.tla`. `PROJECT.json` lists every
run, the mutated operator that makes each checked property fail, the source
lines each definition stands for, and the hazards the properties are for.

## 1. Inventory

Everything runs in one thread of one process, except the workers `measurement.py`
starts, one at a time, and the commands a user starts side by side. What is hard
is therefore not locking but: several commands sharing files; files changing
while a benchmark works for hours; a step of many failing; and decisions made
in loops whose outcome must not depend on order.

**records** (`joinless/records.py`). No state. A record is a source, an ordinal,
a name, two coordinates that may each be missing, and fields. `content_id`
digests source and content, `record_id` the ordinal too. Used by the resolver
(index, tie-break, claims) and the command. *Correct if* equal rows at different
places stay different records.

**resolver** (`joinless/resolver.py`). State: a grid index over the right list;
per left record the candidates and the best so far; the result under
construction. `resolve` indexes, then decides each left record, then sweeps the
right list; `merge` combines a pair; `score_candidates` scores candidate pairs
with names prepared beforehand (hoisted) or each time (naive). *Hard:* ties,
cells around zero, rows without coordinates, several claims on one right
record. *Correct if* no record is lost or reported twice, every reason is true,
the choice is the documented order whatever the lists' order, blocking hides no
neighbour and bounds the comparisons, `merge` is symmetric and loses nothing.

**scorers and registry** (`joinless/scoring.py`). A fixed registry from names to
factories and probes. `get_scorer` probes, then builds. `ThresholdMatcher` is
the only place a threshold is applied. *Hard:* what the probe saw may be gone
when the factory looks.

**embedding arms** (`joinless/embedding.py`). State: model and tokenizer files in
a cache directory, verified against pinned checksums by the probe, read again by
the factory, and the int8 graph once more by the operator census. `prepare_all`
encodes each distinct name once. *Hard:* files changing between those readings;
names that clean to nothing; zero vectors; a batch's padding. *Correct if* no
figure comes from an unverified file while nobody touches the files, the census
speaks for what was measured, a batch gives each name what it would get alone,
and a name without information is like nothing.

**measurement** (`joinless/measurement.py`). Starts a fresh interpreter per
figure, which loads the scorer itself and answers with a line of JSON; percentile,
cold-start phases, artefact size. *Hard:* workers that fail, die, or never
answer; phases cut from two processes' clocks. *Correct if* a failure costs one
figure, a percentile is a rank of its samples, and the phases count every instant once.

**evaluation** (`joinless/evaluation.py`). No state. Counts per family and
aggregate, threshold selection on calibration pairs, freezing, the sealed test,
variation over seeds, divergence, contradictions of pre-registered winners.
*Hard:* undefined ratios, ties between thresholds, a threshold reaching the
pairs it was selected on. *Correct if* undefined never becomes zero and a
selected threshold is the best of its candidates.

**corpus** (`joinless/corpus.py`). Generates labelled pairs by family from a
seed and splits each family into roles. *Correct if* the roles partition the
pairs and every family is in every role.

**commands** (`joinless/cli.py`). `resolve` reads two files, replaces a third.
`benchmark` measures every arm and writes one record. `report` renders a record.
`compare` and `doctor` print. *Hard:* output that is an input; failure after
something was written; the whole of `benchmark` between its first and last step.

**run records** (`joinless/runrecord.py`). State: `benchmarks/`, one JSON file
per run, named after the second the run started in. *Hard:* two runs in one
second, a crash while writing, a report while a run writes. *Correct if* records
are never overwritten and never half believed.

**report** and **README results** (`joinless/report.py`,
`joinless/readme_results.py`, `scripts/render_readme_results.py`). Render a
record as a table, or into README.md between two markers. *Hard:* records of
another schema; arms that did not run; README.md is read, spliced and written
back without a lock. *Correct if* every arm keeps its row, both tables tell the
same figures, README.md shows only what a record says, and a person's prose
survives it.

**frontier** (`joinless/frontier.py`). Per family: qualify every arm against
stated constraints, keep the arms nobody dominates, give the others a reason.
*Hard:* undefined and missing figures; domination that must stay a strict
partial order. *Correct if* each arm gets one verdict, kept arms meet the
constraints, and every dropped arm is dominated by one that is kept.

**quantization spike** (`spikes/quantization/`). Eight commands that a user runs
in order: resolve and fetch the model, export it, quantize it, compare the
graphs' signatures and operators, embed a smoke set, measure in workers, record.
State: in the cache directory a fragment per step, two graphs and two workers'
answers, all overwritten in place; in `benchmarks/` the records. *Hard:* any
step may be killed between two writes, retried or rerun, while the model's
repository moves on and what a killed command has started, an exporter or a
worker, still runs. *Correct if* a record holds seven whole fragments, speaks
of one model when the steps were done in order and no such process wrote over
their files, and replaces no other.

**git hooks** (`.githooks/`) and **CI** (`.github/workflows/`): checks of a
commit; no state of their own.

How they interact: a command calls everything else by plain calls; benchmark
processes, their workers, reports, the spike and the user meet only in files.

## 2. Modules

| module | models | state | checked by |
|---|---|---|---|
| `Records` | the record type, `content_id`, `record_id` | none | through the next |
| `MergePolicy` | `_has_coordinates`, `_populatedness`, `_winner`, `merge` | none | `algorithms`, `resolver` |
| `Grid` | `_cell`, the nine neighbour offsets | none | `algorithms`, `resolver` |
| `Linkage` | what `resolve` promises: each left record to its best acceptable neighbour | decisions taken so far | `resolver`, as the target of a refinement |
| `Resolver` | `resolve` step by step | index, loop positions, candidates, result | `resolver` |
| `Preparation` | `candidate_pairs`, `bucket_occupancy`, `score_candidates` on both paths, the arms' `prepare`, `prepare_all` and `score`, the preparation sample | none | `algorithms` |
| `Measurement` | percentiles, warm latency, preparation cost, the phases of a cold start | none | `algorithms` |
| `Algorithms` | one call of any of the pure algorithms above, to state what it returns | the call, the result | `algorithms` |
| `ResolveCommand` | `joinless resolve` around `resolve` | files, what was read, what is written | `command`, `command_ids` |
| `RunRecordStore` | `benchmarks/` and the processes that share it | clock, files, runs, reports | `store` |
| `Publication` | README.md and the script that writes its results, over `RunRecordStore` | README.md, the publishers, people's edits | `store` |
| `BenchmarkRun` | one benchmark process, its workers, the cache directory, the record | files, place in the protocol, rows, record | `benchmark`, `benchmark_stat` |
| `Frontier` | `compute_frontier`, one family at a time | verdicts so far | `frontier`, `frontier_reasons` |
| `Evaluation` | the corpora, their split, threshold selection, the sealed test and the comparisons between arms | corpora, thresholds, accuracies | `evaluation` |
| `Tables` | the accuracy tables of `report` and of README.md, over what `Evaluation` ends with | none | `evaluation` |
| `SpikePipeline` | the spike's eight commands over the files they share | files, the command that runs, exporters and workers without one | `spike`, `spike_overwrite` |

`Grid` extends `MergePolicy`, which extends `Records`; `Resolver` and
`Preparation` extend `Grid`. `Publication` extends `RunRecordStore`, which
`BenchmarkRun` implements; `Tables` extends `Evaluation`. `Algorithms` extends
`Preparation` and `Measurement` and puts one call of a pure algorithm into a
behaviour of two states, called and returned, so that what an algorithm promises
is an invariant like any other.

`MC...` modules give the constants small values. `ResolverProofs`,
`AlgorithmsProofs`, `ResolveCommandProofs`, `StoreProofs` (for `RunRecordStore`
and `Publication`), `BenchmarkRunProofs`, `FrontierProofs`, `EvaluationProofs`
(for `Tables` too) and `SpikePipelineProofs` hold the theorems. An operator
commented as a mutant is a plausible bug in the code; no specification uses it.

**Resolver.** `left` and `right` are resolve's arguments; `right_index` is the
dict `_index_by_cell` builds; `offset` and `candidates` are the loop of
`_candidates_for`; `scanned` and `best` that of `_select_best`; `pairs`,
`unmatched` and `matched_right_ids` are the locals of those names. One action
is one turn of one loop: `IndexRight`, `Gather`, `Consider`, then the way a left
record leaves (`LeftWithoutCoordinates`, `LeftWithoutCandidates`,
`LeftBelowThreshold`, `LinkBest`), then `SkipClaimed` or `ReportRight`, then
`Return`. The code remembers claims and prepared names by `id(record)`; the lists
hold no object twice, so a record's value does the same here.

**Preparation.** Functions, each with the name it has in the source. A record's
prepared value is looked up by the record, which `prepare_hoisted` does by
`id(record)`. `EmbedAll` is the neural arm's `prepare_all`: the distinct names
that are not blank, in order, through one `_embed_texts`, which pads them to one
width; `prepare` sends a name alone. Tokenizer, graph, text cleaning and the two
rapidfuzz metrics are constants. `_build_preparation_sample` is followed into
the worker that rebuilds the timed pairs from indices (`TimedPairs`). What the
code collects in a loop over a list, a bucket's records and the distinct names,
is `Selected`: the items at some positions, in the list's order.

**Measurement.** A `Timeline` is what a worker's life takes, part by part, and how
far the wall clock was set meanwhile; `ColdStartPhases` is what the code makes of
the instants it reads off two clocks in two processes.

**RunRecordStore.** Each run is a process with a place and a record_id; a file is
the sequence of chunks written to it, a chunk being the name of the run that
wrote it. `Create` is the exclusive `open("x")`, `Refuse` its FileExistsError;
`Crash` stops a run wherever it is and leaves the file. A report opens a file,
reads chunk by chunk while it may still grow, and decodes at the end of file.

**Publication.** README.md is a sequence of prose, the two markers, a cited
record_id and figures. A publisher renders a record as a report does, then
`Splice` reads README.md and computes the text to write, `OpenReadme` empties the
file, `WriteReadme` puts out one buffer at its own offset, `CloseReadme` ends it;
`KillPublisher` may come in between. A person saves a new file under the same
name (`Edit`), after which a publisher that is writing writes to the old one.
`disturbed` is not in the code: it says that since the last edit a publisher was
killed in mid-write, or two writers' reads and writes crossed.

**BenchmarkRun.** `disk` holds, for each file of the cache directory, whether it
is as pinned, retrained (another model, same operators), unquantized, corrupt or
missing; `Replace` changes one while the run works. `Probe`, `Probed`, `Load`,
`Loaded` are `get_scorer`, in the benchmark process or in a worker: verifying
each file and reading each again are separate steps. `metric` walks the figures
in `_measure_arm`'s order. A figure's value is the contents of the files it was
measured with, which is all the properties need. `CannotVerify` is a file that goes
between the two halves of `verify_artifact`, `is_file` and `read_bytes`: the OSError
that follows is not a ScorerUnavailable and ends the benchmark process
(`joinless/measurement.py:126`, `joinless/cli.py:928`). `build` assembles `record`: the
rows, and what the record says of the arms a second time, in its thresholds, its
environment, the preparation asymmetry and the divergence. The run ends `built`,
`aborted` (operator mismatch), `died` (an exception nobody catches) or `hung`.
A benchmark process that is killed is `RunRecordStore`'s `Crash`.
`ImplementsStore` ties the two together: a benchmark process is one of the
store's runs up to the point where it has a record to write.

**ResolveCommand.** The files named by `--left`, `--right` and `--output`, any of
which may be one file. Which pairs are linked is left open here (Resolver decides
it); the module is about the order of reading, failing, truncating and writing. What
can go wrong before the output is opened is `FailToRead`, `FailToResolve` and
`FailToOpen`. `FailToWrite`, an OSError of `write_text` such as that of a full disk,
and a `Kill` at that point end in the place `broken off`, with a part of the new
output on disk.

**Frontier.** `Qualify` and `Exclude` are a turn of `_family_frontier`'s loop,
`Keep` and `Drop` one of `_pareto_frontier`'s, `StartComparing` and `Finish` what
lies between and after.

**Evaluation.** `Generate` is `generate_corpus` for the next seed, `_build_pairs`
and `_split_into_roles` in one. Then, arm by arm in `_ARMS`' order, `Skip` (no
scorer to be had), `SelectThreshold` or `CannotSelect` (an uncaught ValueError),
and `TestSealed`; at last `Compare` records contradictions and divergence. The
operators carry the names of evaluation.py's functions. `select_threshold` is
the sweep the code does, against which `ThresholdIsBest` sets the definition of
a best threshold; its argument `rounded_up` holds the candidates that come out
ahead of an F1 equal to theirs, and `SelectThreshold` allows any. A comment on `_EXPECTED_WINNERS` (`joinless/cli.py:448`) has a
family whose expected winner did not run compared among the others;
`find_contradictions` skips such a family (`joinless/evaluation.py:815`), and so
does the model.

**Tables.** A table is a function from what it has rows for to the cells in
them. An arm that did not run has an empty cell set where the code prints the
reason. `KeyOrder` is the arms' order in a record, which `json.dumps` sorts.

**SpikePipeline.** One command runs at a time: `step` and `pc` say which and
where it is. `Read` and `CannotRead` are `read_fragment`; `OpenFragment` and
`CloseFragment` are the two halves of `write_text`, between which `Die` leaves a
file cut off; `BeginExport` and `EndExport`, `BeginQuantize` and
`EndQuantize` do the same for the ONNX files. What a fragment, a graph or a figure says is the set of model revisions it comes
from. A kill need not reach what `subprocess.run` has started. `AbandonExport`
ends step 2 and leaves its exporter behind, of the snapshot it was given, which may
empty the fp32 graph, put the whole of it out, or fail, at any time (`ExporterWrites`,
`ExporterEnds`, `ExporterFails`). `Abandon` ends the measuring command and leaves its
worker behind, which loads its graph when it gets there, writes its answer over
whatever there is, or fails (`OrphanLoads`, `OrphanAnswers`, `OrphanFails`).

Two variables are not in the code. `crossed` says that since the running command
began a process of a killed one has written what it writes or has measured: an
answer between the command's own worker and the reading of that one's, or the
fp32 graph during step 7 or the conversion of step 2. `pass` counts the steps done
so far of an uninterrupted sequence, each completed after the one before and not
`crossed`; starting an earlier step again sets it back, and so does an exporter
that writes the graph, since steps 2 to 8 are to be redone then (`Overwrite`).

### Abstractions

- A coordinate and `cell_size` are integers in one unit: `_cell`'s floor division
  is exact. The rounding of a float quotient just below a cell's edge is not modelled.
- The haversine distance and a scorer are constant operators (`Distance`,
  `Score`) into the integers. No property assumes anything else of them.
- sha256 is `Digest`, assumed collision-free (`DigestAssumption`) and ordered.
- The two lists hold no object twice and share none (`ListsAssumption`), as
  `_read_records` makes them.
- A half-written record never decodes. (Only the closing newline could be missing
  and still leave JSON; the chunk it is in counts as unwritten.)
- A worker that ends badly in any way, from a non-zero exit status to an answer
  that is not JSON, is one `WorkerFails` or `WorkerCrashes`.
- A metric is an exact fraction or None. The code divides floats
  (`joinless/evaluation.py:57`, 78), in which equal fractions may differ in the last
  digit: of four matches, three true among five predicted and two among two both
  have an F1 of 2/3, as 0.6666666666666665 and 0.6666666666666666. Where that
  decides something, in the choice between two thresholds of equal F1, the model
  allows both outcomes (`Improves`); the other properties speak of the fractions.
  A variation is the set of figures it is the standard deviation of.
- `sorted` is defined by what it returns, and the line of a file that a record
  comes from by how many records come before it.
- The shuffles of the split may have any outcome of the sizes the code computes.
- `evaluate_sealed_test`'s refusal of a threshold from another role is left out:
  `select_threshold` is the only source of one in the program.
- A vector has integer coordinates, and its direction is the smallest integer
  vector along it; `_mean_pool`'s mean is its sum, which has the same direction. A
  cosine is any function into a range a little wider than [-1, 1].
- The graph computes a text's vectors from that text alone; what it puts in
  padded positions is arbitrary. A dynamically quantized graph scales its
  activations by the whole batch, so that the int8 arm's hoisted and naive scores
  may differ in their last digits: `PathsAgree` says that nothing else differs.
- Prose of README.md has as many tokens as the drafts of a run have. A person
  saves by replacing the file; an edit between a publisher's read and its write is
  lost, as it is in the code.
- The description of the machine in a record (`_environment`'s hardware, power
  mode and commit) is read once, depends on nothing the model has, and is left out.
- In the spike a snapshot has a directory per revision, as the model host's
  client keeps it, and once fetched does not change. The tokenizer is loaded by
  the model's name, at whatever revision is newest or cached (`smoke.py:151`,
  `workers/measure_arm.py`): no fragment records which, and the model does not
  follow it. At most `MaxOrphans` exporters and workers outlive their command in a
  behaviour, and an answer is written at once. Of two exporters that write one graph
  the file is one's or cut off, never a mixture that loads. Steps 4 to 6 read both
  graphs at once, where they open one after the other: an exporter that writes in
  between sets `pass` back either way. The file sizes step 7 adds to its figures are
  left out.
- Wording and layout of output are left out throughout.

## 3. What the runs show

| run | bounds | states | what it shows |
|---|---|---|---|
| `resolver` | two rows a side over a cell corner at zero, among them rows without a position, with half of one, with no neighbour and far away; and one left row among up to three right rows with equal names, equal distances on both sides of a cell edge, and one out of reach | 111k | `EveryRecordAccounted`, `ReasonsAreTrue`, `LinkedToTheBest`, `BlockingIsExact`, `ComparisonsBoundedByOccupancy`, and `ImplementsLinkage` |
| `algorithms` | one call with any of: pairs of rows with 0, 1 or 2 coordinates, an empty name, two fields each filled, empty or absent; lists of up to three and two records with blank, repeated, long and meaningless names in neighbouring cells, far apart or nowhere; samples of two groups, of names too few, enough and more than enough; up to five samples of a duration; cold starts under a clock that goes forward, back or straight | 151k | `MergeIsSymmetric`, `MergeLosesNothing`, `PathsAgree`, `NoInformationNoMatch`, `OccupancyExplainsTheCost`, `PercentileIsARank`, `ColdStartAccountsForTime` |
| `store` | two runs, two readers that may publish, three seconds of which an older record has one, two chunks; three drafts of README.md, one of them saved by a person at any time | 405k | `TruncatedOnlyByCrash`, `ReportsAreFaithful`, `RecordsAreFinal`, `CompleteRecordsRender`, `ReadmeCitesRecords`, `ProseSurvives` |
| `frontier` | three arms; F1 undefined or two values, two values for everything else, at most one arm without a cost; none, one or all constraints stated | 2.9M | `FrontierSatisfiesConstraints`, `FrontierCoversCandidates` |
| `command` | three paths, two of one stem; six contents, with blank lines, broken lines and repeated rows; failures and kills at every point | 163k | `OnlyTheOutputChanges`, `OutputAccountsForBothFiles` |
| `benchmark` | one classical and two neural arms with a shared tokenizer; any cache directory to begin with; one change of a file at any moment, two worker deaths, any hang | 515k | `EveryArmHasARow`, `FiguresArePinned`, `CensusSpeaksForTheRun`, `RunEnds`, `ImplementsStore` |
| `evaluation` | a family of matches and one of near misses, three or four pairs each, two seeds, every split; three arms with scores that separate, tie or mislead, of which the expected winner or all may be absent; every outcome of a tie between thresholds | 282k | `EveryFamilyIsReported`, `ThresholdIsBest`, `TotalsAddUp`, `UndefinedIsNotZero`, `PooledBetweenSeeds`, `ComparisonsAgree`, `TablesTellTheRun` |
| `spike` | two revisions, two seconds; up to nine commands from an empty cache directory, or four after a whole pass, then with one exporter or worker that outlives its command | 2.9M | `RecordsAreComplete`, `MeasurementsAreFresh`, `PassIsOfOneModel` |

`CommandTypeOK` and `TypeOK` are invariants of the runs `command` and `benchmark`,
and theorems of their modules; those of `Resolver`, `RunRecordStore`,
`Frontier` and `SpikePipeline` are theorems only.

Why the bounds are enough. Resolver: a decision about a left record depends on
that record and the index only, so two left records show what one leaves to the
next and how they claim one right record, and three right ones show a choice that
is neither the first nor the last of a tie; four places around a corner meet all
nine neighbour cells with both signs. Frontier: intransitivity needs three arms.
Algorithms: three rows against two make a batch with a repeated name and one that
pads the others, in both orders; one to five samples put p50 and p99 on the first,
a middle and the last of them; groups of one and two records
already tell an occupancy from a count of pairs.
Store: every conflict is between two processes over one name, or two writers of
README.md. `MCNext` leaves out what cannot matter: readers read one after the
other, since they touch nothing anyone else sees; publishing and editing begin
when the store is at rest, since all a publisher has of it is one record, and
records are final; README.md starts as one of the drafts, the others being an
edit away. Benchmark: the
shared tokenizer makes two arms depend on one file, and a single change of a file
already separates every two readings of it. `CensusSpeaksForTheRun` is stated for
one change: two are enough to swap a graph and swap it back between the last
figure and the census, which no check in the code could see. Evaluation: three
pairs of a family leave none or one for calibration and one for the test, so
every undefined figure comes up, and four are the first size that serves every
role; two seeds are what pooling and spread need. The one size at which both
families have four pairs is run with every arm only. Spike: nine commands are a
whole pass and one retry; from a whole pass, four reruns suffice to leave any two
neighbouring steps out of order and to assemble a record of it. Exporters and workers
outlive their command in the second of these histories, where a whole set of files
is there for them to spoil; one is enough, since two cross a command's own no
differently. It has time for an export killed at one revision, a resolve and an
export at the next, and the old exporter's graph over the new one.

What the properties leave out is worth knowing, though no doc rules it out. `ProseSurvives` holds only where nothing crossed: two publishers at
once, or a kill, can leave README.md cut off, and an edit saved between a
publisher's read and its write is lost. `MissingMarkers` asks only that both markers are there:
with the END before the BEGIN, `splice_into_readme` finds no end and drops
everything after the section (`joinless/readme_results.py:287`); the drafts
leave such a README.md out. `OnlyTheOutputChanges` says what a `resolve` that
breaks off while it writes leaves: a beginning of the new output. If the output was
an input, that input is lost.

`MeasurementsAreFresh` and `PassIsOfOneModel` exclude what an exporter or worker of
a killed command does that nothing in the code detects, and each of these
exclusions is needed: without it TLC finds a violation.

- A worker that answers between the end of step 7's own worker and the reading of
  its answer: the fragment has the other worker's figures.
- An exporter that writes the fp32 graph while step 7 runs: the two arms are then
  measured with different models, or a figure is of a graph that is gone.
- An exporter that writes the fp32 graph at any time since step 2 began anew: kill
  step 2 at one revision, redo steps 1 and 2 at the next, and let the old exporter
  finish; steps 3 to 8 then record the new revision over a graph of the old one, and
  nothing says so (`spikes/quantization/export_fp32.py:105`).

`ThresholdIsBest` does not say which of several thresholds with equal F1 is
selected. `select_threshold`'s docstring says the lowest
(`joinless/evaluation.py:306`, 333), and in exact arithmetic it would be; with floats
it may be a higher one.

`FiguresArePinned` speaks of runs during which no file changed, and
`CensusSpeaksForTheRun` of the int8 graph's operators after one change at most: a
model of another revision with the same operators, or a tokenizer, that is put in
place between probe and load is measured and recorded as the pinned one.

Four runs find what a doc or docstring rules out:

- `frontier_reasons`: `_pareto_frontier` documents the reason as naming "which
  surviving arm dominates it" (`joinless/frontier.py:386`). It names the first
  candidate that dominates (line 401), which may itself be dropped. The results
  in the repository's README show such a chain. That some *kept* arm dominates
  each dropped one does hold (`FrontierCoversCandidates`).
- `command_ids`: "Every input row has its own" record_id
  (`joinless/records.py:20`), but both sides take their file's stem as source,
  so rows of `a/shops.jsonl` and `b/shops.jsonl` can share one.
- `benchmark_stat`: a missing artefact should leave the arm its row
  (`joinless/measurement.py:139`); `measure_artifact_size` lets FileNotFoundError
  out of `stat` (line 854) and the run ends without a record for any arm.
- `spike_overwrite`: "A timestamped filename: records are never overwritten"
  (`spikes/quantization/record.py:115`), but `main` writes to that name with
  `write_text` (line 210), and a second record of the same second replaces the first.

### Fairness

`Resolver`: one thread without a wait, hence weak fairness of `Next`; so has
`Linkage`, which is what makes the refinement speak of termination too.
`RunRecordStore`: a process that creates, writes, finishes or reads is scheduled
again; measuring is under no fairness, since `_run_in_child` has no timeout.
`BenchmarkRun`: weak fairness of the process's own steps; `Replace` and
`WorkerHangs` may or may not happen, and a run that hangs counts as ended in
`RunEnds`, which therefore says that nothing else keeps a run from its end.
`ResolveCommand`, `Frontier`, `Evaluation` and `SpikePipeline` state safety only.

## 4. What is proved

For every value of the constants that meets the named assumptions.

**Resolver** (`ResolverProofs`). `TypeCorrect`: the variables keep their types,
among them that the index holds right records under their own cells. `Retention`:
`EveryRecordAccounted`. The property is not inductive, since it does not say
that `matched_right_ids`, which the sweep consults, is the set of records that
pairs claim; `Accounted` adds this, with one lemma per kind of step: those that
change no result, those that report a record, `LinkBest`, and the sweep.

**The grid and the choice** (`ResolverProofs`). `Blocking`, from two halves. `BlockingComplete`: two records within
`CellSize` of each other in both axes are always compared. `BlockingTight`: no two
records two edges apart are. The argument: floor division puts numbers less than
an edge apart in the same or adjacent cells (`CloseNumbersTouch`, from `CellBounds`,
on either side of zero), the nine offsets are exactly the adjacent cells, and
`IndexInv` and `GatherInv` say that the index and the candidates so far hold
exactly the records of the cells they should.

`WorkBounded`: `ComparisonsBoundedByOccupancy`. No bucket holds a record twice
(`BucketInv`), so the candidates, which come from the buckets gathered so far
(`OccupancyInv`), are no more than nine times the fullest of them. `BestLinked`:
`LinkedToTheBest`. `SelectInv` has `best` beat every other match among the
candidates scanned; `Beats` is transitive, and total because distinct records
have distinct digests, so at the end of a scan one record is best whatever the
order, and `Blocking`'s invariants make the candidates the neighbours.
`ReasonsTrue`: `ReasonsAreTrue`; `ReasonInv` says it of each entry as it is made,
and that no right record is reported before the last sweep, which is when what is
claimed no longer changes. `LinkageImplemented`: every step of `resolve` is a step
of `Linkage` or changes nothing it sees. The steps that decide are taken one by
one (`LeaveStep`, `LinkStep`, `ReportStep`); that a decision once made reads
the same ever after rests on `Accounted`.

**The algorithms** (`AlgorithmsProofs`), of any arguments. `Answered` says that a
result is what the algorithm returns for the call, and that is all a behaviour
has to say; the rest is about operators. `MergeIsFair`: `MergeIsSymmetric`.
`_winner`'s order is total for rows that differ, since different rows have
different digests, so it names the same row whichever comes first.
`MergeKeeps`: `MergeLosesNothing`. The merged fields that are filled are those
filled in either row, and their number is that of a union. `PercentilesAreRanks`:
`PercentileIsARank`. An injection of the positions that sorts the samples exists
(`OrderExists`), so `Sorted` is one; it carries the samples below the value into the places before
it and those above into the places behind. `ColdStartAddsUp`:
`ColdStartAccountsForTime`, for any durations and any setting of the wall clock.

`PathsAreOne`: `PathsAgree`. A bucket is a selection and holds its cell's records
(`SelectedItems`, `IndexIs`); a flattened list holds what its lists do
(`FlattenItems`, an induction over them that takes the first list for which it
fails); so the pairs are those of placed records in touching cells (`PairsAre`).
A prepared name depends on the name alone, because `_embed_texts` masks what
pads a batch (`BatchGivesEachItsOwn`) and a name's place among the distinct ones
is found again (`PreparedTogether`). `NothingMatchesNothing`:
`NoInformationNoMatch`, scorer by scorer (`ScoreInRange`). `OccupancyIsTheCost`:
`OccupancyExplainsTheCost`, for groups of any sizes. Groups a degree apart do not
share a neighbourhood (`GroupsApart`), so eight of a record's nine buckets are
empty and its candidates are the ninth (`SampleCandidates`, `FlattenOne`); the
pairs a record is in are then one stretch of the flattened list, as long as that
bucket (`SamplePairs`, `FlattenCount`).

**The resolve command** (`ResolveCommandProofs`). `TypeCorrect`,
`OnlyTheOutputIsAtRisk` (`OnlyTheOutputChanges`) and `OutputIsComplete`
(`OutputAccountsForBothFiles`), for any paths, any two or all three of them
equal, files of any length and any linkage. `CommandInv` says which files are
still as they were at each place, and that what was read is what `RecordsIn`
finds in the files as they were *before*: once the output is being written, it
may be one of them. The count then needs that ranks number the members of a
finite set without a gap (`RanksDiffer`, `PositionsIs`), hence that the three
parts of the output have a line for each of their members (`ThreeParts`).

**The store** (`StoreProofs`). `OneWriter`, `FaithfulReports`,
`TruncationNeedsCrash`, `Finality`, from `StoreInv`: a file is a prefix of its
one owner's payload, or a legacy record; a run that writes owns its file and no
other run with its name does; what a report has read is a prefix of the file it
reads. The proofs are for any number of runs, reports, seconds and chunks.

**README.md** (`StoreProofs`). `ReadmeIsCited`: `ReadmeCitesRecords`, and
`ProseStays`: `ProseSurvives`, for any number of records, publishers, drafts and
edits and any size of buffer. They are proved of `PubSpec`, in which everybody
interleaves with everybody, and so rest on none of the reductions the run makes.
`PubInv` adds to `StoreInv` that all figures, in README.md or in a publisher's
hands, are of complete records (`ShownInv`), and that as long as nobody is
disturbed one publisher at most is between its read and the end of its write,
with a text that cites its records and has the saved prose in it, of which
README.md is a prefix while that one writes (`UndisturbedInv`). What splicing
does is said position by position (`SpliceIs`); what it keeps, `SpliceShows`,
`SpliceStaysCited` and `SpliceKeepsProse` say of any text with a BEGIN.

**The benchmark** (`BenchmarkRunProofs`). `TypeCorrect`, `FiguresPinned`,
`RowsComplete`, `CensusSpeaks` and `StoreImplemented`, for any arms, files, shared
or not, and bounds. `RunInv` has five parts. `Shape` says where the protocol is,
what a loader has read by then, and that the row of an arm, the results and what
the record says of it elsewhere agree; it is inductive by itself and the others need it.
`AllPinned`: as long as no file has changed, what was probed, loaded or measured
is pinned. `GraphShows`: after one change, either the int8 graph is unquantized
and stays so, or nothing that was read of it ever was; `CensusTaken` that no
record is built over such a graph. `EachMissingForACrash`: without a change of a
file there are as many figures missing, of arms that have others, as workers
died. `StoreImplemented` is `ImplementsStore` whole: neither side states fairness in it.

**Frontier** (`FrontierProofs`). `OneVerdict` and `ConstraintsMet`, from
`FrontierInv`: a candidate has no fault, hence every figure domination compares;
a verdict rules out the others; and a loop that is over has left no arm out.
`CandidatesCovered`: `FrontierCoversCandidates`. `Verdicts` says that who was kept is
dominated by nobody and who was dropped by somebody; and of the candidates that
dominate a dropped one, one with the least sum of costs is dominated by none,
since domination is strict and transitive (`DominationIsStrict`,
`DominationIsTransitive`) and lowers that sum. So it is kept.

**Evaluation** (`EvaluationProofs`), for any number of seeds, families, pairs and
arms, and any scores. The invariant is `EvalInv`: every corpus is an outcome of
the split (`SplitInv`), the loops are where they should be (`Progress`), and the
accuracies (`Accurate`) and the comparisons (`Compared`) are still those that the
corpora give. What is left is about operators:

- `FamiliesReported`: `EveryFamilyIsReported`. The lemma `Rounding` bounds the two
  divisions; `SharesAddUp` counts what they leave to the sealed test.
- `TotalsKept`: `TotalsAddUp`. The model sums with folds over sets; the first
  section shows that such a fold adds up its parts (`EverySubset` is the
  induction, on the cardinality of a subset).
- `UndefinedKept`: `UndefinedIsNotZero`. `PooledKept`: `PooledBetweenSeeds`, because
  the pooled F1 is the mediant of the seeds'.
- `ComparisonsKept`: `ComparisonsAgree`, from fractions being strictly ordered.
- `ThresholdBest`: `ThresholdIsBest`. `Found` is what the sweep keeps: its best so
  far is reached at a score it has seen, and none of those is better, however the
  ties came out (`TurnOfTheSweep`). F1 changes at scores only (`ReachedAtAScore`), so
  no threshold between them does better either. `ThresholdInv` says that the
  thresholds chosen are still those of a sweep over the pooled corpora.
- `TablesAgree`: `TablesTellTheRun`. `TestedInv` says which arms have been tested
  by each place of the loop, so that an arm without a report is one that was
  skipped, and a run without a report one that stopped before. Every report has a row for the
  families its own pairs are of, which are the same for all arms; that is why reading
  the families off the first arm, as `_family_order` does, loses none.

**The spike** (`SpikePipelineProofs`). `TypeCorrect`, `CompleteRecords`,
`FreshMeasurements`, `OneModel`, for any number of revisions, seconds and
commands and of exporters and workers that outlive theirs, with the exclusions of
section 3. `PassIsOfOneModel` speaks of files between commands; while a command
runs it needs to be known what it has read so far and that its own files are not
yet among those the pass covers. The strengthening says so for every step and
every place in it.

Assumptions: `DigestAssumption`, `ListsAssumption`, `RowsAssumption` (among them
that a row has finitely many fields), `ScoringAssumption`, `CellAssumption`
(resolver, grid, merge); `PreparationAssumption` (preparation: a name that is not
blank has a token, the fuzzy ratio is a percentage, the sample's groups have
records and stand at least two cells apart), `CosineAssumption` (the cosine of
two vectors that are not zero is some number, which may round to outside
[-1, 1]); `CallsAssumption` (algorithms: rows that can be read, at least one sample, durations that are natural numbers; the wall clock may be
set to anything); `InputsAssumption` (resolve command); `ChunksAssumption`,
`StoreAssumption` (store); `PublishersAssumption`, `BufferAssumption`,
`DraftsAssumption` (README.md: the figures in a draft are an older record's, and cited);
`ArmsAssumption`, `Int8Assumption`, `KindsAssumption`, `UnavailableAssumption`,
`BoundsAssumption` (benchmark); `ArmsAssumption`, `InputsAssumption` (frontier);
`FamiliesAssumption`, `OrderAssumption`, `ScoresAssumption` (evaluation: finitely
many seeds, families and arms, each once in its order, and scores that are
numbers); `KeyOrderAssumption` (tables: a record's keys are the arms, each
once); `BoundsAssumption`, `SentinelAssumption` (spike); and that `None` and
`Undefined` are no number, reason or spread. TLC evaluates each of them on its instances.

`OneVerdict` needs no run: `EveryArmHasOneVerdict` is proved for every number of
arms.

So every invariant and every action property a passing run checks is a theorem
too. Model-checked only is what is temporal beyond that (`RunEnds`,
`CompleteRecordsRender`, and of `ImplementsLinkage` the fairness that makes it
speak of termination), since liveness under fairness is outside what TLAPS
proves; and the four disagreements of section 3, which are counterexamples.

## 5. What is not modelled, and the plan

Not modelled, and why:

- Text cleaning, the fuzzy ratio, the tokenizer, the ONNX runtime and its
  quantizer are libraries, and constants here. Generating perturbed names is
  seeded text manipulation without state.
- Floating point: the rounding of a quotient at a cell's edge, of a mean, of a
  ratio. At the antimeridian the code compares plain numbers, and so does the model.
- The spike's tokenizer: nothing pins, records or compares its revision, so that
  no property of it could hold (`spikes/quantization/smoke.py:151`). Two commands of
  the spike side by side: it is run by hand, one step after the other.
- `compare` and `doctor` print what they compute and change nothing. The git
  hooks are sequential filters of staged text, with tests of their own; CI is
  configuration of a hosted service.
- How a record's fields are serialised, and the layout of every output.
