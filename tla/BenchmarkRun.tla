---------------------------- MODULE BenchmarkRun ----------------------------
(***************************************************************************)
(* What one `joinless benchmark` process does between starting and handing *)
(* its record to write_record (src/joinless/cli.py _cmd_benchmark,         *)
(* _measure_arm): arm by arm it loads the scorer, measures accuracy in its *)
(* own process and most of the costs in worker processes which load the    *)
(* scorer again, and at the end it reads the int8 graph once more.         *)
(*                                                                         *)
(* An arm's artefacts are files of a cache directory, which the setup      *)
(* scripts of spikes/quantization write and nothing locks: each is         *)
(* verified, loaded, loaded again by every worker, sized and read at       *)
(* different times.  A worker may crash, or never answer.  A file is its   *)
(* relation to the pinned one; a figure is the files it was measured with. *)
(***************************************************************************)
EXTENDS Integers, Sequences, FiniteSets, SequencesExt

CONSTANTS
  _ARMS,             \* the arms, in the order they are measured
  Files,             \* of the cache directory
  Needs,             \* arm -> its model file and its tokenizer file, or <<>>
  _CLASSICAL_ARMS, _NEURAL_ARMS,
  Fp32, Int8,        \* the arms a divergence is reported between; the graph
                     \* of the second is read again at the end
  Unavailable,       \* the figure that could not be taken
  MaxReplacements,   \* how often a file changes during a run
  MaxCrashes         \* how many workers die

Arms == {_ARMS[n] : n \in 1..Len(_ARMS)}

ASSUME ArmsAssumption ==
  /\ _ARMS \in Seq(Arms) /\ IsInjective(_ARMS)
  /\ Needs \in [Arms -> Seq(Files)]
  /\ \A a \in Arms : IsInjective(Needs[a])

ASSUME Int8Assumption == Int8 \in Arms /\ Needs[Int8] # <<>>

ASSUME KindsAssumption ==
  /\ _CLASSICAL_ARMS \cap _NEURAL_ARMS = {}
  /\ Arms \subseteq _CLASSICAL_ARMS \cup _NEURAL_ARMS
  /\ \A a \in Arms \cap _NEURAL_ARMS : Needs[a] # <<>>

\* What a file may hold: the pinned bytes, another model with the same
\* operators, one with other operators, something no loader takes, or nothing.
Contents == {"pinned", "retrained", "unquantized", "corrupt", "missing"}

Loadable == {"pinned", "retrained", "unquantized"}

ASSUME UnavailableAssumption ==
  /\ Unavailable \notin Contents
  /\ \A F \in SUBSET Files : Unavailable \notin [F -> Contents]

ASSUME BoundsAssumption == MaxReplacements \in Nat /\ MaxCrashes \in Nat

\* The figures of an arm, in the order _measure_arm takes them.
Metrics == <<"accuracy", "warm_latency", "peak_memory", "cold_start",
             "artifact_size", "preparation", "preparation_cost">>

Figures == {Metrics[n] : n \in 1..Len(Metrics)}

\* Those measured by a worker, in a fresh interpreter (_measure).
Isolated == {"warm_latency", "peak_memory", "cold_start", "preparation_cost"}

VARIABLES
  disk,                 \* file -> what it holds
  installed,            \* arms whose packages import and whose cache is configured
  pc,
  arm,                  \* position in _ARMS
  metric,               \* position in Metrics, or past its end
  checked,              \* how many files get_scorer's probe has verified
  loaded,               \* file -> contents, what get_scorer's factory has read
  scorer,               \* the same, of the scorer the benchmark process holds
  row,                  \* figure -> value, of the current arm
  results,              \* arm -> its row, what RunAssembly holds
  selected_thresholds,  \* arms a threshold was selected for
  model_identities,     \* arms whose model the record will name
  record,               \* what RunAssembly.build returned
  replacements, crashes

environment == <<disk, installed, replacements, crashes>>
tables == <<results, selected_thresholds, model_identities, record>>
process == <<checked, loaded>>
vars == <<environment, pc, arm, metric, process, scorer, row, tables>>

EmptyMap == [x \in {} |-> {}]

With(f, x, value) == [y \in DOMAIN f \cup {x} |-> IF y = x THEN value ELSE f[y]]

Current == _ARMS[arm]

Required == Needs[Current]

Ended == {"built", "aborted", "died", "hung"}

----------------------------------------------------------------------------

Init ==
  /\ disk \in [Files -> Contents]
  /\ installed \in SUBSET Arms
  /\ \A a, b \in Arms : Needs[a] # <<>> /\ Needs[b] # <<>> =>
       (a \in installed <=> b \in installed)
  /\ pc = "idle" /\ arm = 1 /\ metric = 1
  /\ checked = 0 /\ loaded = EmptyMap /\ scorer = EmptyMap /\ row = EmptyMap
  /\ results = EmptyMap
  /\ selected_thresholds = {} /\ model_identities = {} /\ record = EmptyMap
  /\ replacements = 0 /\ crashes = 0

\* Somebody else writes, damages or removes a file.
Replace(file, contents) ==
  /\ pc \notin Ended \cup {"idle"} /\ replacements < MaxReplacements
  /\ disk[file] # contents
  /\ disk' = [disk EXCEPT ![file] = contents]
  /\ replacements' = replacements + 1
  /\ UNCHANGED <<installed, crashes, pc, arm, metric, process, scorer, row, tables>>

Goto(from, to) == pc = from /\ pc' = to

Start ==
  /\ Goto("idle", "probe")
  /\ UNCHANGED <<environment, arm, metric, process, scorer, row, tables>>

----------------------------------------------------------------------------
(* get_scorer, in the benchmark process or in a worker *)

InWorker == metric \in 1..Len(Metrics) /\ Metrics[metric] \in Isolated

\* Mutant: only the first file's checksum is compared.
Verified_model_only ==
  disk[Required[checked + 1]] = "pinned" \/ checked > 0

\* verify_artifact of the next file.
Verified == disk[Required[checked + 1]] = "pinned"

Probe ==
  /\ Goto("probe", "probe")
  /\ Current \in installed /\ checked < Len(Required) /\ Verified
  /\ checked' = checked + 1
  /\ UNCHANGED <<environment, arm, metric, loaded, scorer, row, tables>>

ProbeFails ==
  \/ Current \notin installed
  \/ checked < Len(Required) /\ ~Verified

\* Mutant: the first file that verifies is enough.
Probed_early ==
  /\ Goto("probe", "load")
  /\ Current \in installed /\ checked \in {1, Len(Required)}
  /\ UNCHANGED <<environment, arm, metric, process, scorer, row, tables>>

Probed ==
  /\ Goto("probe", "load")
  /\ Current \in installed /\ checked = Len(Required)
  /\ UNCHANGED <<environment, arm, metric, process, scorer, row, tables>>

\* The tokenizer is read first, then the model; neither is verified again.
NextFile == Required[Len(Required) - Cardinality(DOMAIN loaded)]

AllLoaded == Cardinality(DOMAIN loaded) = Len(Required)

Load ==
  /\ Goto("load", "load")
  /\ ~AllLoaded /\ disk[NextFile] \in Loadable
  /\ loaded' = With(loaded, NextFile, disk[NextFile])
  /\ UNCHANGED <<environment, arm, metric, checked, scorer, row, tables>>

LoadFails == ~AllLoaded /\ disk[NextFile] \notin Loadable

Loaded ==
  /\ Goto("load", "measure")
  /\ AllLoaded
  /\ scorer' = IF InWorker THEN scorer ELSE loaded
  /\ UNCHANGED <<environment, arm, metric, process, row, tables>>

\* Mutant: an arm that cannot be initialised is tried again.
CannotInitialise_retrying ==
  /\ Goto("probe", "probe") /\ ~InWorker
  /\ ProbeFails
  /\ checked' = 0
  /\ UNCHANGED <<environment, arm, metric, loaded, scorer, row, tables>>

\* ScorerUnavailable in the benchmark process: the whole row says why.
CannotInitialise ==
  /\ Goto("probe", "return") /\ ~InWorker
  /\ ProbeFails
  /\ row' = [figure \in Figures |-> Unavailable]
  /\ UNCHANGED <<environment, arm, metric, process, scorer, tables>>

\* OSError out of verify_artifact's read_bytes, of a file that has gone since
\* its is_file: caught by nobody, so the file goes and the process with it.
\* (In a worker this is a Replace, and then a WorkerFails as any other.)
CannotVerify ==
  /\ Goto("probe", "died") /\ ~InWorker
  /\ Current \in installed /\ checked < Len(Required)
  /\ disk[Required[checked + 1]] # "missing" /\ replacements < MaxReplacements
  /\ disk' = [disk EXCEPT ![Required[checked + 1]] = "missing"]
  /\ replacements' = replacements + 1
  /\ UNCHANGED <<installed, crashes, arm, metric, process, scorer, row, tables>>

\* Any other exception there is caught by nobody.
CannotLoad ==
  /\ Goto("load", "died") /\ ~InWorker
  /\ LoadFails
  /\ UNCHANGED <<environment, arm, metric, process, scorer, row, tables>>

----------------------------------------------------------------------------
(* _measure_arm, once the arm's scorer is there *)

\* The figure taken is the row's next; the one after it may need a worker.
Take(value) ==
  /\ row' = With(row, Metrics[metric], value)
  /\ metric' = metric + 1
  /\ pc' = IF metric = Len(Metrics) THEN "return"
           ELSE IF Metrics[metric + 1] \in Isolated THEN "probe" ELSE "measure"
  /\ checked' = 0 /\ loaded' = EmptyMap

\* select_threshold, freeze_threshold, the sealed test.
MeasureAccuracy ==
  /\ pc = "measure" /\ Metrics[metric] = "accuracy"
  /\ Take(scorer)
  /\ selected_thresholds' = selected_thresholds \cup {Current}
  /\ UNCHANGED <<environment, arm, scorer, results, model_identities, record>>

MeasureInWorker ==
  /\ pc = "measure" /\ InWorker
  /\ Take(loaded)
  /\ UNCHANGED <<environment, arm, scorer, tables>>

\* get_scorer raises in the worker, whatever it raises.
WorkerFails ==
  /\ InWorker
  /\ \/ pc = "probe" /\ ProbeFails
     \/ pc = "load" /\ LoadFails
  /\ Take(Unavailable)
  /\ UNCHANGED <<environment, arm, scorer, tables>>

\* Mutant: one worker's death costs the arm its whole row.
WorkerCrashes_with_the_row ==
  /\ pc \in {"probe", "load", "measure"} /\ InWorker /\ crashes < MaxCrashes
  /\ row' = [figure \in Figures |-> Unavailable]
  /\ pc' = "return" /\ crashes' = crashes + 1
  /\ UNCHANGED <<disk, installed, replacements, arm, metric, process, scorer, tables>>

\* Killed, or out of memory, or without a line of JSON on its stdout.
WorkerCrashes ==
  /\ pc \in {"probe", "load", "measure"} /\ InWorker /\ crashes < MaxCrashes
  /\ Take(Unavailable)
  /\ crashes' = crashes + 1
  /\ UNCHANGED <<disk, installed, replacements, arm, scorer, tables>>

\* subprocess.run has no timeout: the benchmark waits with its worker.
WorkerHangs ==
  /\ pc \in {"probe", "load", "measure"} /\ InWorker
  /\ pc' = "hung"
  /\ UNCHANGED <<environment, arm, metric, process, scorer, row, tables>>

Sized == \A n \in 1..Len(Required) : disk[Required[n]] # "missing"

\* measure_artifact_size: stat of what is there now, verified or not.
MeasureArtifactSize ==
  /\ pc = "measure" /\ Metrics[metric] = "artifact_size"
  /\ Sized
  /\ Take([file \in {Required[n] : n \in 1..Len(Required)} |-> disk[file]])
  /\ UNCHANGED <<environment, arm, scorer, tables>>

\* FileNotFoundError out of stat, which nobody catches.
CannotSize ==
  /\ Goto("measure", "died") /\ Metrics[metric] = "artifact_size"
  /\ ~Sized
  /\ UNCHANGED <<environment, arm, metric, process, scorer, row, tables>>

ComparePreparation ==
  /\ pc = "measure" /\ Metrics[metric] = "preparation"
  /\ Take(scorer)
  /\ UNCHANGED <<environment, arm, scorer, tables>>

\* add_arm; an arm that loaded a model contributes its pinned identity.
ReturnRow ==
  /\ pc = "return"
  /\ results' = With(results, Current, row)
  /\ model_identities' =
       IF row["accuracy"] # Unavailable /\ Required # <<>>
       THEN model_identities \cup {Current} ELSE model_identities
  /\ pc' = IF arm = Len(_ARMS) THEN "census" ELSE "probe"
  /\ arm' = arm + 1 /\ metric' = 1
  /\ checked' = 0 /\ loaded' = EmptyMap /\ scorer' = EmptyMap /\ row' = EmptyMap
  /\ UNCHANGED <<environment, selected_thresholds, record>>

----------------------------------------------------------------------------
(* _quantized_operators, and the record *)

Graph == disk[Needs[Int8][1]]

Measured(figure) == {a \in DOMAIN results : results[a][figure] # Unavailable}

\* Between two accuracy reports, or not at all.
_int8_accuracy_divergence == {Fp32, Int8} \subseteq Measured("accuracy")

\* The arms that have a speedup.
_preparation_asymmetry ==
  [classical |-> _CLASSICAL_ARMS \cap Measured("preparation_cost"),
   neural    |-> _NEURAL_ARMS \cap Measured("preparation_cost")]

\* The version and the threads of a runtime no arm imported are not stated,
\* nor the operators of a graph no arm loaded.
_environment ==
  [models              |-> model_identities,
   onnxruntime         |-> model_identities # {},
   quantized_operators |-> IF Int8 \in model_identities THEN Graph ELSE Unavailable]

build ==
  [results                  |-> results,
   selected_thresholds      |-> selected_thresholds,
   environment              |-> _environment,
   int8_accuracy_divergence |-> _int8_accuracy_divergence,
   preparation_asymmetry    |-> _preparation_asymmetry]

\* Mutant: the census is taken for granted once the checksum has matched.
Build_without_census ==
  /\ Goto("census", "built")
  /\ record' = build
  /\ UNCHANGED <<environment, arm, metric, process, scorer, row,
                 results, selected_thresholds, model_identities>>

Build ==
  /\ Goto("census", "built")
  /\ Int8 \in model_identities => Graph \in {"pinned", "retrained"}
  /\ record' = build
  /\ UNCHANGED <<environment, arm, metric, process, scorer, row,
                 results, selected_thresholds, model_identities>>

\* Mutant: everything is measured again, with a new started_at.
Abort_starting_over ==
  /\ Goto("census", "idle")
  /\ Int8 \in model_identities /\ Graph = "unquantized"
  /\ arm' = 1
  /\ UNCHANGED <<environment, metric, process, scorer, row, tables>>

\* QuantizedOperatorMismatchError: exit status 1, no record.
Abort ==
  /\ Goto("census", "aborted")
  /\ Int8 \in model_identities /\ Graph = "unquantized"
  /\ UNCHANGED <<environment, arm, metric, process, scorer, row, tables>>

\* onnx.load of a graph that is gone or damaged: caught by nobody.
CannotReadGraph ==
  /\ Goto("census", "died")
  /\ Int8 \in model_identities /\ Graph \notin Loadable
  /\ UNCHANGED <<environment, arm, metric, process, scorer, row, tables>>

Stop == pc \in Ended /\ UNCHANGED vars

----------------------------------------------------------------------------

GetScorer == Probe \/ Probed \/ Load \/ Loaded \/ CannotInitialise \/ CannotLoad

Measure ==
  \/ MeasureAccuracy \/ MeasureInWorker \/ WorkerFails \/ WorkerCrashes
  \/ MeasureArtifactSize \/ CannotSize \/ ComparePreparation \/ ReturnRow

Conclude == Build \/ Abort \/ CannotReadGraph

Next ==
  \/ \E file \in Files, contents \in Contents : Replace(file, contents)
  \/ CannotVerify
  \/ Start \/ GetScorer \/ Measure \/ WorkerHangs \/ Conclude
  \/ Stop

(* The process runs, and so does a worker, unless it hangs.                 *)
Spec == Init /\ [][Next]_vars /\ WF_vars(Start \/ GetScorer \/ Measure \/ Conclude)

----------------------------------------------------------------------------

(* Types; a probe never looks past the arm's last file, nothing is loaded   *)
(* before all are verified, and nothing is measured without a whole scorer. *)
TypeOK ==
  /\ disk \in [Files -> Contents]
  /\ installed \subseteq Arms
  /\ pc \in {"idle", "probe", "load", "measure", "return", "census"} \cup Ended
  /\ arm \in 1..(Len(_ARMS) + 1) /\ metric \in 1..(Len(Metrics) + 1)
  /\ pc = "probe" => checked <= Len(Required)
  /\ pc = "load" => checked = Len(Required)
  /\ pc = "measure" => /\ metric = 1 \/ row["accuracy"] # Unavailable
                       /\ DOMAIN scorer = {Required[n] : n \in 1..Len(Required)}
  /\ DOMAIN results \subseteq Arms
  /\ replacements \in 0..MaxReplacements /\ crashes \in 0..MaxCrashes

ModelOf(a) == Needs[a][1]

FilesOf(a) == {Needs[a][n] : n \in 1..Len(Needs[a])}

(* Fail closed (ADR-0013), and partially: a record has a row for every arm  *)
(* and every figure in it; what it says of an arm elsewhere, a threshold, a *)
(* model and the runtime that ran it, a speedup, a divergence, is there for *)
(* the figures that are and for no other; an arm without an accuracy has no *)
(* figure at all; and as long as the files stay as they are, what is        *)
(* missing of the others is one figure for each worker that died.           *)
EveryArmHasARow ==
  pc = "built" =>
    LET ran == record.selected_thresholds
        missing == {pair \in ran \X Figures :
                      record.results[pair[1]][pair[2]] = Unavailable}
        sped == record.preparation_asymmetry
    IN  /\ DOMAIN record.results = Arms
        /\ \A a \in Arms :
             /\ DOMAIN record.results[a] = Figures
             /\ a \in ran <=> record.results[a]["accuracy"] # Unavailable
             /\ a \in record.environment.models <=> a \in ran /\ Needs[a] # <<>>
             /\ a \notin ran =>
                  \A figure \in Figures : record.results[a][figure] = Unavailable
             /\ a \in sped.classical \cup sped.neural <=>
                  a \in ran /\ <<a, "preparation_cost">> \notin missing
        /\ sped.neural # {} => record.environment.onnxruntime
        /\ record.int8_accuracy_divergence => {Fp32, Int8} \subseteq ran
        /\ record.environment.quantized_operators # Unavailable <=> Int8 \in ran
        /\ replacements = 0 => crashes = Cardinality(missing)

(* As long as nobody touches the files, every figure there is was measured  *)
(* with all of the arm's files as pinned, in whichever process.             *)
FiguresArePinned ==
  replacements = 0 =>
    \A a \in DOMAIN results : \A figure \in Figures :
      results[a][figure] # Unavailable =>
        results[a][figure] = [file \in FilesOf(a) |-> "pinned"]

(* The census at the end speaks for the whole run: if the files changed at  *)
(* most once in hours of measuring, no int8 figure of a record came from a  *)
(* graph with other operators than the census says.  (Twice is enough to    *)
(* swap the graph and to swap it back.)                                     *)
CensusSpeaksForTheRun ==
  pc = "built" /\ replacements <= 1 =>
    \A figure \in Figures :
      record.results[Int8][figure] # Unavailable =>
        record.results[Int8][figure][ModelOf(Int8)] # "unquantized"

(* Nothing but a worker that never answers keeps a run from its end: no     *)
(* combination of missing artefacts, failures and crashes makes it wait or  *)
(* go round in circles.                                                     *)
RunEnds == <>(pc \in Ended)

(* "Every measurement function below returns this [Unavailable] instead of  *)
(* a partial or zeroed result, so the arm keeps its row" (measurement.py),  *)
(* for an artefact that is missing among other reasons: a missing file does *)
(* not end the run while its size is taken.                                 *)
MissingFileKeepsTheRow ==
  pc = "died" => Metrics[metric] # "artifact_size"

\* What RunRecordStore sees of the run: hours of "measuring", then its end.
Seen == CASE pc = "idle" -> "idle"
          [] pc = "built" -> "built"
          [] pc = "aborted" -> "aborted"
          [] pc = "died" -> "crashed"
          [] OTHER -> "measuring"

Store == INSTANCE RunRecordStore WITH
  Runs <- {"run"}, Readers <- {}, Seconds <- {1}, Chunks <- 1, Old <- {},
  Legacy <- "nobody", None <- 0, clock <- 1,
  files <- [id \in {} |-> <<>>],
  run <- [r \in {"run"} |-> [at |-> Seen, id |-> IF pc = "idle" THEN 0 ELSE 1]],
  report <- [p \in {} |-> <<>>]

(* A benchmark process is one of the runs of RunRecordStore: measuring ends *)
(* once, with a record to write or without, and a record is not taken back. *)
ImplementsStore == Store!Init /\ [][Store!Next]_(Store!vars)
=============================================================================
