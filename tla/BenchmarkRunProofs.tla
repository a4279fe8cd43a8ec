------------------------- MODULE BenchmarkRunProofs -------------------------
(***************************************************************************)
(* Theorems about BenchmarkRun, for any number of arms, of files each of   *)
(* them needs, of changes to those files and of workers that die.          *)
(***************************************************************************)
EXTENDS BenchmarkRun, FiniteSetTheorems, TLAPS

----------------------------------------------------------------------------
(* The inductive invariant *)

Walking == {"probe", "load", "measure"}

\* There is an arm that is being measured, or was when the run ended.
InArm == arm \in 1..Len(_ARMS)

\* The main process has its scorer, or has verified all that goes into it.
Verifiable == metric > 1 \/ pc \in {"load", "measure"}

Types ==
  /\ disk \in [Files -> Contents] /\ installed \subseteq Arms
  /\ pc \in {"idle", "probe", "load", "measure", "return", "census"} \cup Ended
  /\ arm \in 1..(Len(_ARMS) + 1) /\ metric \in 1..(Len(Metrics) + 1)
  /\ checked \in Nat
  /\ replacements \in 0..MaxReplacements /\ crashes \in 0..MaxCrashes

\* Where the protocol is.
Place ==
  /\ pc = "idle" => arm = 1 /\ metric = 1 /\ checked = 0
  /\ pc \in Walking \cup {"return"} => InArm
  /\ pc \in {"census", "built", "aborted"} => arm = Len(_ARMS) + 1
  /\ pc \in Walking => metric \in 1..Len(Metrics)
  /\ pc \in {"probe", "load"} => metric = 1 \/ InWorker
  /\ pc = "probe" => checked <= Len(Required)
  /\ pc = "load" => checked = Len(Required)

\* What get_scorer's factory has read: the arm's last files, in reverse order.
LoadedSoFar ==
  \E k \in 0..Len(Required) :
    /\ DOMAIN loaded = {Required[n] : n \in (Len(Required) - k + 1)..Len(Required)}
    /\ IsFiniteSet(DOMAIN loaded) /\ Cardinality(DOMAIN loaded) = k

\* A scorer is made of all of its arm's files, and of loadable ones.
Scorers ==
  /\ loaded \in [DOMAIN loaded -> Loadable]
  /\ pc \in {"idle", "probe"} => loaded = EmptyMap
  /\ pc = "load" => LoadedSoFar
  /\ pc = "measure" /\ InWorker => DOMAIN loaded = FilesOf(Current)
  /\ scorer \in [DOMAIN scorer -> Loadable]
  /\ pc \in Walking /\ (metric > 1 \/ pc = "measure") =>
       DOMAIN scorer = FilesOf(Current)

\* What a figure of an arm may be.
Values(a) == [FilesOf(a) -> Contents] \cup {Unavailable}

\* Figures taken so far; without an accuracy there are none.
RowOf(a, r) ==
  /\ DOMAIN r \subseteq Figures
  /\ \A figure \in DOMAIN r :
       /\ r[figure] \in Values(a)
       /\ r["accuracy"] = Unavailable => r[figure] = Unavailable

Rows ==
  /\ InArm => RowOf(Current, row)
  /\ pc \in Walking \cup {"idle"} =>
       /\ DOMAIN row = {Metrics[n] : n \in 1..(metric - 1)}
       /\ metric > 1 => row["accuracy"] # Unavailable
  /\ pc = "return" => DOMAIN row = Figures

\* What the record says of an arm elsewhere is what its row says.
Accounts ==
  /\ DOMAIN results = {_ARMS[n] : n \in 1..(arm - 1)}
  /\ \A a \in DOMAIN results :
       /\ RowOf(a, results[a]) /\ DOMAIN results[a] = Figures
       /\ a \in selected_thresholds <=> results[a]["accuracy"] # Unavailable
       /\ a \in model_identities <=> a \in selected_thresholds /\ Needs[a] # <<>>
  /\ model_identities \subseteq DOMAIN results
  /\ \A a \in selected_thresholds \ DOMAIN results : InArm /\ a = Current
  /\ InArm => (Current \in selected_thresholds <=>
                 "accuracy" \in DOMAIN row /\ row["accuracy"] # Unavailable)
  /\ pc = "built" => record = build

Shape == Types /\ Place /\ Scorers /\ Rows /\ Accounts

\* As long as no file has changed, all that was read of them is pinned.
Pinned(r, a) == \A figure \in DOMAIN r :
  r[figure] # Unavailable => r[figure] = [file \in FilesOf(a) |-> "pinned"]

AllPinned ==
  replacements = 0 =>
    /\ pc \in {"probe", "load"} => \A n \in 1..checked : disk[Required[n]] = "pinned"
    /\ pc \in Walking /\ Verifiable =>
         Current \in installed /\ \A file \in FilesOf(Current) : disk[file] = "pinned"
    /\ \A file \in DOMAIN loaded : loaded[file] = "pinned"
    /\ \A file \in DOMAIN scorer : scorer[file] = "pinned"
    /\ InArm => Pinned(row, Current)
    /\ \A a \in DOMAIN results : Pinned(results[a], a)

\* Nothing that was read of the int8 graph had other operators.
Quantized(f) == ModelOf(Int8) \in DOMAIN f => f[ModelOf(Int8)] # "unquantized"

QuantizedRow(r) ==
  \A figure \in DOMAIN r : r[figure] # Unavailable => Quantized(r[figure])

Unsuspected ==
  /\ InArm /\ Current = Int8 =>
       Quantized(loaded) /\ Quantized(scorer) /\ QuantizedRow(row)
  /\ Int8 \in DOMAIN results => QuantizedRow(results[Int8])

\* If something was, the one change of a file was to that graph, and it shows.
GraphShows ==
  replacements = 1 => disk[ModelOf(Int8)] = "unquantized" \/ Unsuspected

\* The figures that are missing of arms that have others.
Missing ==
  {pair \in selected_thresholds \X Figures :
     \/ pair[1] \in DOMAIN results /\ results[pair[1]][pair[2]] = Unavailable
     \/ /\ InArm /\ pair[1] = Current
        /\ pair[2] \in DOMAIN row /\ row[pair[2]] = Unavailable}

EachMissingForACrash ==
  replacements = 0 => IsFiniteSet(Missing) /\ Cardinality(Missing) = crashes

\* A record was written after the census, and its graph is still there.
CensusTaken ==
  pc = "built" /\ Int8 \in model_identities => Graph # "unquantized"

RunInv == Shape /\ AllPinned /\ GraphShows /\ CensusTaken /\ EachMissingForACrash

----------------------------------------------------------------------------
(* The constants *)

(* _ARMS lists the arms, each once.                                         *)
LEMMA ArmsFacts ==
  /\ Len(_ARMS) \in Nat \ {0}
  /\ \A n \in 1..Len(_ARMS) : _ARMS[n] \in Arms
  /\ \A m, n \in 1..Len(_ARMS) : _ARMS[m] = _ARMS[n] => m = n
  /\ Arms = {_ARMS[n] : n \in 1..Len(_ARMS)}
<1>1. _ARMS \in Seq(Arms) /\ IsInjective(_ARMS)
  BY ArmsAssumption
<1>2. Len(_ARMS) \in Nat /\ DOMAIN _ARMS = 1..Len(_ARMS)
  BY <1>1
<1>3. Arms = {_ARMS[n] : n \in 1..Len(_ARMS)}
  BY DEF Arms
<1>4. Len(_ARMS) # 0
  BY <1>2, <1>3, Int8Assumption
<1> QED
  BY <1>1, <1>2, <1>3, <1>4 DEF IsInjective

(* Needs lists the files of an arm, each once.                              *)
LEMMA NeedsFacts ==
  ASSUME NEW a \in Arms
  PROVE  /\ Len(Needs[a]) \in Nat
         /\ \A n \in 1..Len(Needs[a]) : Needs[a][n] \in Files
         /\ \A m, n \in 1..Len(Needs[a]) : Needs[a][m] = Needs[a][n] => m = n
         /\ FilesOf(a) = {Needs[a][n] : n \in 1..Len(Needs[a])}
         /\ FilesOf(a) \subseteq Files
<1>1. Needs[a] \in Seq(Files) /\ IsInjective(Needs[a])
  BY ArmsAssumption
<1>2. Len(Needs[a]) \in Nat /\ DOMAIN Needs[a] = 1..Len(Needs[a])
  BY <1>1
<1> QED
  BY <1>1, <1>2 DEF IsInjective, FilesOf

(* Metrics lists the figures of a row, each once.                           *)
LEMMA MetricsFacts ==
  /\ Len(Metrics) = 7
  /\ Figures = {Metrics[n] : n \in 1..7}
  /\ \A m, n \in 1..7 : Metrics[m] = Metrics[n] => m = n
  /\ Metrics[1] = "accuracy" /\ Metrics[5] = "artifact_size"
  /\ Metrics[6] = "preparation" /\ Metrics[7] = "preparation_cost"
  /\ Metrics[1] \notin Isolated
BY DEF Metrics, Figures, Isolated

(* A scorer is not Unavailable.                                             *)
LEMMA ValuesAreAvailable ==
  ASSUME NEW a \in Arms, NEW f \in [FilesOf(a) -> Contents]
  PROVE  f # Unavailable
BY NeedsFacts, UnavailableAssumption

(* What loads is something a file can hold.                                 *)
LEMMA LoadableContents == Loadable \subseteq Contents
BY DEF Loadable, Contents

----------------------------------------------------------------------------
(* The shape of the state: how each kind of step keeps it *)

(* The shape holds before the run.                                          *)
LEMMA InitShape == Init => Shape
<1> SUFFICES ASSUME Init PROVE Shape
  OBVIOUS
<1>1. DOMAIN EmptyMap = {} /\ EmptyMap \in [{} -> Loadable]
  BY DEF EmptyMap
<1>2. Types
  BY ArmsFacts, MetricsFacts, BoundsAssumption DEF Init, Types
<1>3. Place /\ Scorers
  BY <1>1, ArmsFacts DEF Init, Place, Scorers, Walking, InArm
<1>4. Rows /\ Accounts
  BY <1>1 DEF Init, Rows, Accounts, RowOf, Walking
<1> QED
  BY <1>2, <1>3, <1>4 DEF Shape

(* The arm being measured is one of the arms, and the files it requires are *)
(* its own.                                                                 *)
LEMMA CurrentFacts ==
  ASSUME InArm
  PROVE  /\ Current \in Arms
         /\ Len(Required) \in Nat
         /\ \A n \in 1..Len(Required) : Required[n] \in Files
         /\ \A m, n \in 1..Len(Required) : Required[m] = Required[n] => m = n
         /\ FilesOf(Current) = {Required[n] : n \in 1..Len(Required)}
BY ArmsFacts, NeedsFacts DEF InArm, Current, Required

(* What a step that keeps to the arm's place leaves as it was.              *)
LEMMA SameArm ==
  ASSUME UNCHANGED <<arm, metric>>
  PROVE  /\ InArm' = InArm /\ Current' = Current /\ Required' = Required
         /\ InWorker' = InWorker /\ FilesOf(Current)' = FilesOf(Current)
BY DEF InArm, Current, Required, InWorker, FilesOf

(* A step on no row, into no walk, keeps what the shape says of the rows.   *)
LEMMA RowsStay ==
  ASSUME Rows, UNCHANGED <<arm, metric, row>>,
         pc' \in Walking => pc \in Walking \cup {"idle"},
         pc' = "return" => pc = "return", pc' # "idle" \/ pc = "idle"
  PROVE  Rows'
BY SameArm DEF Rows, RowOf

(* A step that writes no record keeps what the shape says of the accounts.  *)
LEMMA AccountsStay ==
  ASSUME Accounts, UNCHANGED <<arm, row, results, selected_thresholds, model_identities>>,
         pc' # "built"
  PROVE  Accounts'
<1>1. InArm' = InArm /\ Current' = Current
  BY DEF InArm, Current
<1> QED
  BY <1>1 DEF Accounts, RowOf

(* A change of a file leaves everything else alone.                         *)
LEMMA ReplaceShape ==
  ASSUME Shape, NEW file \in Files, NEW contents \in Contents,
         Replace(file, contents)
  PROVE  Shape'
<1>1. /\ disk' \in [Files -> Contents] /\ replacements' \in 0..MaxReplacements
      /\ UNCHANGED <<installed, crashes, pc, arm, metric, process, scorer, row, tables>>
      /\ pc # "built"
  BY BoundsAssumption DEF Shape, Types, Replace, Ended
<1>2. UNCHANGED <<installed, crashes, pc, arm, metric, checked, loaded, scorer, row,
                  results, selected_thresholds, model_identities>>
  BY <1>1 DEF process, tables
<1>3. Types'
  BY <1>1, <1>2 DEF Shape, Types
<1>4. Place'
  BY <1>2, SameArm DEF Shape, Place
<1>5. Scorers'
  <2>1. /\ Required' = Required /\ InWorker' = InWorker
        /\ FilesOf(Current)' = FilesOf(Current)
    BY <1>2, SameArm
  <2>2. LoadedSoFar' <=> LoadedSoFar
    BY <1>2, <2>1 DEF LoadedSoFar
  <2> QED
    BY <1>2, <2>1, <2>2 DEF Shape, Scorers
<1>6. Rows' /\ Accounts'
  BY <1>1, <1>2, RowsStay, AccountsStay DEF Shape
<1> QED
  BY <1>3, <1>4, <1>5, <1>6 DEF Shape

(* Each step keeps the shape.                                               *)
LEMMA StartShape ==
  ASSUME Shape, Start
  PROVE  Shape'
<1>1. /\ pc = "idle" /\ pc' = "probe"
      /\ UNCHANGED <<disk, installed, replacements, crashes, arm, metric, checked,
                     loaded, scorer, row, results, selected_thresholds, model_identities>>
  BY DEF Start, Goto, environment, process, tables
<1>2. arm = 1 /\ metric = 1 /\ checked = 0 /\ loaded = EmptyMap /\ InArm
  BY <1>1, ArmsFacts DEF Shape, Place, Scorers, InArm
<1>3. Types' /\ Rows' /\ Accounts'
  BY <1>1, AccountsStay, RowsStay DEF Shape, Types, Walking
<1>4. Required' = Required /\ InArm' = InArm /\ 0 <= Len(Required)
  BY <1>1, <1>2, SameArm, CurrentFacts
<1>5. Place'
  BY <1>1, <1>2, <1>4, MetricsFacts DEF Place, Walking
<1>6. Scorers'
  BY <1>1, <1>2 DEF Shape, Scorers, Walking
<1> QED
  BY <1>3, <1>5, <1>6 DEF Shape

(* get_scorer verifies and reads files: nothing of the arm's row changes.   *)
LEMMA ProbeShape ==
  ASSUME Shape, Probe
  PROVE  Shape'
<1>1. /\ pc = "probe" /\ pc' = "probe" /\ checked < Len(Required)
      /\ checked' = checked + 1
      /\ UNCHANGED <<disk, installed, replacements, crashes, arm, metric,
                     loaded, scorer, row, results, selected_thresholds, model_identities>>
  BY DEF Probe, Goto, environment, tables
<1>2. /\ Required' = Required /\ InArm' = InArm /\ InWorker' = InWorker /\ InArm
      /\ FilesOf(Current)' = FilesOf(Current) /\ Len(Required) \in Nat
  BY <1>1, SameArm, CurrentFacts DEF Shape, Place, Walking
<1>3. Types' /\ Rows' /\ Accounts'
  BY <1>1, AccountsStay, RowsStay DEF Shape, Types, Walking
<1>4. Place'
  BY <1>1, <1>2 DEF Shape, Place, Types
<1>5. Scorers'
  BY <1>1, <1>2 DEF Shape, Scorers
<1> QED
  BY <1>3, <1>4, <1>5 DEF Shape

(* Probing a file keeps it.                                                 *)
LEMMA ProbedShape ==
  ASSUME Shape, Probed
  PROVE  Shape'
<1>1. /\ pc = "probe" /\ pc' = "load" /\ checked = Len(Required)
      /\ UNCHANGED <<disk, installed, replacements, crashes, arm, metric, checked,
                     loaded, scorer, row, results, selected_thresholds, model_identities>>
  BY DEF Probed, Goto, environment, process, tables
<1>2. /\ Required' = Required /\ InArm' = InArm /\ InWorker' = InWorker /\ InArm
      /\ FilesOf(Current)' = FilesOf(Current) /\ Len(Required) \in Nat
  BY <1>1, SameArm, CurrentFacts DEF Shape, Place, Walking
<1>3. Types' /\ Rows' /\ Accounts'
  BY <1>1, AccountsStay, RowsStay DEF Shape, Types, Walking
<1>4. Place'
  BY <1>1, <1>2 DEF Shape, Place, Walking
<1>5. LoadedSoFar'
  <2>1. loaded' = EmptyMap
    BY <1>1 DEF Shape, Scorers
  <2>2. DOMAIN loaded' = {} /\ IsFiniteSet({}) /\ Cardinality({}) = 0
    BY <2>1, FS_EmptySet DEF EmptyMap
  <2>3. {Required[n] : n \in (Len(Required) - 0 + 1)..Len(Required)} = {}
    BY <1>2
  <2> QED
    BY <1>2, <2>2, <2>3 DEF LoadedSoFar
<1>6. Scorers'
  BY <1>1, <1>2, <1>5 DEF Shape, Scorers, Walking
<1> QED
  BY <1>3, <1>4, <1>6 DEF Shape

(* Loading a file keeps it.                                                 *)
LEMMA LoadShape ==
  ASSUME Shape, Load
  PROVE  Shape'
<1>1. /\ pc = "load" /\ pc' = "load" /\ ~AllLoaded /\ disk[NextFile] \in Loadable
      /\ loaded' = With(loaded, NextFile, disk[NextFile])
      /\ UNCHANGED <<disk, installed, replacements, crashes, arm, metric, checked,
                     scorer, row, results, selected_thresholds, model_identities>>
  BY DEF Load, Goto, environment, tables
<1>2. /\ Required' = Required /\ InArm' = InArm /\ InWorker' = InWorker /\ InArm
      /\ FilesOf(Current)' = FilesOf(Current) /\ Len(Required) \in Nat
  BY <1>1, SameArm, CurrentFacts DEF Shape, Place, Walking
<1>3. Types' /\ Rows' /\ Accounts'
  BY <1>1, AccountsStay, RowsStay DEF Shape, Types, Walking
<1>4. Place'
  BY <1>1, <1>2 DEF Shape, Place, Walking
<1>5. /\ DOMAIN loaded' = DOMAIN loaded \cup {NextFile}
      /\ loaded' \in [DOMAIN loaded' -> Loadable]
  BY <1>1 DEF With, Shape, Scorers
<1>6. LoadedSoFar'
  <2>1. PICK k \in 0..Len(Required) :
          /\ DOMAIN loaded = {Required[n] : n \in (Len(Required) - k + 1)..Len(Required)}
          /\ IsFiniteSet(DOMAIN loaded) /\ Cardinality(DOMAIN loaded) = k
    BY <1>1 DEF Shape, Scorers, LoadedSoFar
  <2>2. k # Len(Required) /\ NextFile = Required[Len(Required) - k]
    BY <1>1, <2>1 DEF AllLoaded, NextFile
  <2>3. k + 1 \in 0..Len(Required) /\ Len(Required) - k \in 1..Len(Required)
    BY <1>2, <2>1, <2>2
  <2>4. DOMAIN loaded' = {Required[n] : n \in (Len(Required) - (k + 1) + 1)..Len(Required)}
    <3>1. (Len(Required) - (k + 1) + 1)..Len(Required)
            = ((Len(Required) - k + 1)..Len(Required)) \cup {Len(Required) - k}
      BY <1>2, <2>1, <2>3
    <3> QED
      BY <1>5, <2>1, <2>2, <3>1
  <2>5. NextFile \notin DOMAIN loaded
    <3>1. ASSUME NEW n \in (Len(Required) - k + 1)..Len(Required),
                 Required[n] = Required[Len(Required) - k]
          PROVE  FALSE
      <4>1. n \in 1..Len(Required) /\ n # Len(Required) - k
        BY <1>2, <2>1, <2>3, <3>1
      <4> QED
        BY <1>2, <2>3, <3>1, <4>1, CurrentFacts
    <3> QED
      BY <2>1, <2>2, <3>1
  <2>6. /\ IsFiniteSet(DOMAIN loaded \cup {NextFile})
        /\ Cardinality(DOMAIN loaded \cup {NextFile}) = k + 1
    BY <2>1, <2>5, FS_AddElement
  <2> QED
    BY <1>2, <1>5, <2>3, <2>4, <2>6 DEF LoadedSoFar
<1>7. Scorers'
  BY <1>1, <1>2, <1>5, <1>6 DEF Shape, Scorers, Walking
<1> QED
  BY <1>3, <1>4, <1>7 DEF Shape

(* Going on with what was loaded keeps it.                                  *)
LEMMA LoadedShape ==
  ASSUME Shape, Loaded
  PROVE  Shape'
<1>1. /\ pc = "load" /\ pc' = "measure" /\ AllLoaded
      /\ scorer' = IF InWorker THEN scorer ELSE loaded
      /\ UNCHANGED <<disk, installed, replacements, crashes, arm, metric, checked,
                     loaded, row, results, selected_thresholds, model_identities>>
  BY DEF Loaded, Goto, environment, process, tables
<1>2. /\ Required' = Required /\ InArm' = InArm /\ InWorker' = InWorker /\ InArm
      /\ FilesOf(Current)' = FilesOf(Current) /\ Len(Required) \in Nat
  BY <1>1, SameArm, CurrentFacts DEF Shape, Place, Walking
<1>3. Types' /\ Rows' /\ Accounts'
  BY <1>1, AccountsStay, RowsStay DEF Shape, Types, Walking
<1>4. Place'
  BY <1>1, <1>2 DEF Shape, Place, Walking
<1>5. DOMAIN loaded = FilesOf(Current)
  <2>1. PICK k \in 0..Len(Required) :
          /\ DOMAIN loaded = {Required[n] : n \in (Len(Required) - k + 1)..Len(Required)}
          /\ Cardinality(DOMAIN loaded) = k
    BY <1>1 DEF Shape, Scorers, LoadedSoFar
  <2>2. k = Len(Required)
    BY <1>1, <2>1 DEF AllLoaded
  <2>3. (Len(Required) - k + 1)..Len(Required) = 1..Len(Required)
    BY <1>2, <2>2
  <2> QED
    BY <1>2, <2>1, <2>3, CurrentFacts
<1>6. metric = 1 \/ metric > 1
  BY MetricsFacts DEF Shape, Types
<1>7. InWorker => metric > 1
  BY <1>6, MetricsFacts DEF InWorker
<1>8. Scorers'
  BY <1>1, <1>2, <1>5, <1>7 DEF Shape, Scorers, Walking
<1> QED
  BY <1>3, <1>4, <1>8 DEF Shape

(* A row that says why there is none takes no threshold with it.            *)
LEMMA CannotInitialiseShape ==
  ASSUME Shape, CannotInitialise
  PROVE  Shape'
<1>1. /\ pc = "probe" /\ pc' = "return" /\ ~InWorker
      /\ row' = [figure \in Figures |-> Unavailable]
      /\ UNCHANGED <<disk, installed, replacements, crashes, arm, metric, checked,
                     loaded, scorer, results, selected_thresholds, model_identities>>
  BY DEF CannotInitialise, Goto, environment, process, tables
<1>2. /\ Required' = Required /\ InArm' = InArm /\ InWorker' = InWorker /\ InArm
      /\ Current' = Current /\ FilesOf(Current)' = FilesOf(Current) /\ metric = 1
  BY <1>1, SameArm DEF Shape, Place, Walking
<1>3. Types'
  BY <1>1 DEF Shape, Types
<1>4. Place' /\ Scorers'
  BY <1>1, <1>2 DEF Shape, Place, Scorers, Walking
<1>5. /\ DOMAIN row' = Figures /\ "accuracy" \in Figures
      /\ \A figure \in Figures : row'[figure] = Unavailable
  BY <1>1, MetricsFacts
<1>6. Rows'
  BY <1>1, <1>2, <1>5 DEF Rows, RowOf, Values, Walking
<1>7. Current \notin selected_thresholds
  <2>1. DOMAIN row = {Metrics[n] : n \in 1..(1 - 1)}
    BY <1>1, <1>2 DEF Shape, Rows, Walking
  <2> QED
    BY <1>2, <2>1 DEF Shape, Accounts
<1>8. Accounts'
  BY <1>1, <1>2, <1>5, <1>7 DEF Shape, Accounts, RowOf
<1> QED
  BY <1>3, <1>4, <1>6, <1>8 DEF Shape

(* The row after a figure: only an arm's first can leave it without an      *)
(* accuracy, and it does not.                                               *)
LEMMA RowTaken ==
  ASSUME Shape, pc \in Walking, NEW value \in Values(Current),
         metric = 1 => value # Unavailable, Take(value)
  PROVE  /\ DOMAIN row' = {Metrics[n] : n \in 1..metric}
         /\ RowOf(Current, row') /\ row'["accuracy"] # Unavailable
         /\ row'[Metrics[metric]] = value
         /\ \A figure \in DOMAIN row : row'[figure] = row[figure]
<1>1. /\ InArm /\ metric \in 1..7 /\ RowOf(Current, row)
      /\ DOMAIN row = {Metrics[n] : n \in 1..(metric - 1)}
      /\ metric > 1 => row["accuracy"] # Unavailable
  BY MetricsFacts DEF Shape, Place, Rows, Walking
<1>2. row' = With(row, Metrics[metric], value)
  BY DEF Take
<1>3. DOMAIN row' = DOMAIN row \cup {Metrics[metric]}
  BY <1>2 DEF With
<1>4. 1..metric = (1..(metric - 1)) \cup {metric}
  BY <1>1
<1>5. DOMAIN row' = {Metrics[n] : n \in 1..metric}
  BY <1>1, <1>3, <1>4
<1>6. Metrics[metric] \notin DOMAIN row
  <2>1. ASSUME NEW n \in 1..(metric - 1), Metrics[n] = Metrics[metric]
        PROVE  FALSE
    <3>1. n \in 1..7 /\ n # metric
      BY <1>1, <2>1
    <3> QED
      BY <1>1, <2>1, <3>1, MetricsFacts
  <2> QED
    BY <1>1, <2>1
<1>7. /\ row'[Metrics[metric]] = value
      /\ \A figure \in DOMAIN row : row'[figure] = row[figure]
  BY <1>2, <1>6 DEF With
<1>8. row'["accuracy"] # Unavailable
  <2>1. CASE metric = 1
    BY <1>7, <2>1, MetricsFacts
  <2>2. CASE metric > 1
    <3>1. 1 \in 1..(metric - 1)
      BY <1>1, <2>2
    <3>2. "accuracy" \in DOMAIN row
      BY <1>1, <3>1, MetricsFacts
    <3> QED
      BY <1>1, <1>7, <2>2, <3>2
  <2> QED
    BY <1>1, <2>1, <2>2
<1>9. DOMAIN row' \subseteq Figures
  BY <1>1, <1>3, MetricsFacts DEF RowOf
<1>10. \A figure \in DOMAIN row' : row'[figure] \in Values(Current)
  BY <1>1, <1>3, <1>7 DEF RowOf
<1> QED
  BY <1>5, <1>7, <1>8, <1>9, <1>10 DEF RowOf

(* Every figure is taken into its place.                                    *)
LEMMA TakeShape ==
  ASSUME Shape, pc \in Walking, metric > 1 \/ pc = "measure",
         NEW value \in Values(Current), metric = 1 => value # Unavailable,
         Take(value),
         selected_thresholds' = IF metric = 1 THEN selected_thresholds \cup {Current}
                                ELSE selected_thresholds,
         crashes' \in 0..MaxCrashes,
         UNCHANGED <<disk, installed, replacements, arm, scorer, results, model_identities>>
  PROVE  Shape'
<1>1. /\ InArm /\ metric \in 1..7 /\ Len(Metrics) = 7
      /\ DOMAIN row = {Metrics[n] : n \in 1..(metric - 1)}
      /\ metric > 1 => row["accuracy"] # Unavailable
  BY MetricsFacts DEF Shape, Place, Rows, Walking
<1>2. /\ metric' = metric + 1 /\ checked' = 0 /\ loaded' = EmptyMap
      /\ pc' = IF metric = Len(Metrics) THEN "return"
               ELSE IF Metrics[metric + 1] \in Isolated THEN "probe" ELSE "measure"
  BY DEF Take
<1>3. pc' = "return" <=> metric = 7
  BY <1>1, <1>2
<1>4. pc' \in Walking \cup {"return"} /\ (pc' \in Walking <=> metric < 7)
  BY <1>1, <1>2 DEF Walking
<1>5. pc' = "probe" => InWorker'
  BY <1>1, <1>2, MetricsFacts DEF InWorker
<1>6. pc' = "measure" => ~InWorker'
  BY <1>1, <1>2, MetricsFacts DEF InWorker
<1>7. /\ InArm' /\ Current' = Current /\ Required' = Required
      /\ FilesOf(Current)' = FilesOf(Current) /\ 0 <= Len(Required)
  BY <1>1, CurrentFacts DEF InArm, Current, Required, FilesOf
<1>8. Types'
  BY <1>1, <1>2, <1>4 DEF Shape, Types, Walking
<1>9. Place'
  BY <1>1, <1>2, <1>4, <1>5, <1>7 DEF Place, Walking
<1>10. Scorers'
  <2>1. loaded' \in [DOMAIN loaded' -> Loadable]
    BY <1>2 DEF EmptyMap
  <2>2. DOMAIN scorer = FilesOf(Current)
    BY DEF Shape, Scorers
  <2> QED
    BY <1>2, <1>4, <1>6, <1>7, <2>1, <2>2 DEF Shape, Scorers, Walking
<1>11. Rows'
  <2>1. 1..(metric' - 1) = 1..metric
    BY <1>1, <1>2
  <2>2. metric = 7 => DOMAIN row' = Figures
    BY RowTaken, MetricsFacts
  <2> QED
    BY <1>2, <1>3, <1>4, <1>7, <2>1, <2>2, RowTaken DEF Rows, Walking
<1>12. Accounts'
  <2>1. /\ Current \in selected_thresholds'
        /\ "accuracy" \in DOMAIN row' /\ row'["accuracy"] # Unavailable
    <3>1. row'["accuracy"] # Unavailable
      BY RowTaken
    <3>2. 1 \in 1..metric
      BY <1>1
    <3>3. "accuracy" \in DOMAIN row'
      BY <3>2, RowTaken, MetricsFacts
    <3>4. CASE metric = 1
      BY <3>1, <3>3, <3>4
    <3>5. CASE metric > 1
      <4>1. 1 \in 1..(metric - 1)
        BY <1>1, <3>5
      <4>2. "accuracy" \in DOMAIN row
        BY <1>1, <4>1, MetricsFacts
      <4> QED
        BY <1>1, <3>1, <3>3, <3>5, <4>2 DEF Shape, Accounts
    <3> QED
      BY <1>1, <3>4, <3>5
  <2>2. Current \notin DOMAIN results
    <3>1. ASSUME NEW n \in 1..(arm - 1), Current = _ARMS[n]
          PROVE  FALSE
      BY <1>1, <3>1, ArmsFacts DEF InArm, Current
    <3> QED
      BY <3>1 DEF Shape, Accounts
  <2>3. \A a : a # Current => (a \in selected_thresholds' <=> a \in selected_thresholds)
    OBVIOUS
  <2>4. pc' # "built"
    BY <1>4 DEF Walking
  <2> QED
    BY <1>1, <1>7, <2>1, <2>2, <2>3, <2>4 DEF Shape, Accounts, RowOf
<1> QED
  BY <1>8, <1>9, <1>10, <1>11, <1>12 DEF Shape

Taking == MeasureAccuracy \/ MeasureInWorker \/ WorkerFails \/ WorkerCrashes
            \/ MeasureArtifactSize \/ ComparePreparation

(* The steps that take a figure, and what it may be.                        *)
LEMMA FigureTaken ==
  ASSUME Shape, Taking
  PROVE  /\ pc \in Walking /\ (metric > 1 \/ pc = "measure")
         /\ \E value \in Values(Current) :
              /\ Take(value) /\ (metric = 1 => value # Unavailable)
              /\ \/ pc = "measure" /\ ~InWorker /\ value = scorer
                 \/ pc = "measure" /\ InWorker /\ value = loaded
                 \/ MeasureArtifactSize /\ value = [file \in FilesOf(Current) |-> disk[file]]
                 \/ (WorkerFails \/ WorkerCrashes) /\ value = Unavailable
         /\ selected_thresholds' = IF metric = 1 THEN selected_thresholds \cup {Current}
                                   ELSE selected_thresholds
         /\ crashes' \in 0..MaxCrashes /\ (crashes' = crashes \/ WorkerCrashes)
         /\ UNCHANGED <<disk, installed, replacements, arm, scorer, results,
                        model_identities, record>>
<1>1. pc \in Walking
  BY DEF Taking, MeasureAccuracy, MeasureInWorker, WorkerFails, WorkerCrashes,
         MeasureArtifactSize, ComparePreparation, Walking
<1>2. InArm /\ Current \in Arms /\ metric \in 1..7
  BY <1>1, CurrentFacts, MetricsFacts DEF Shape, Place
<1>3. InWorker => metric > 1
  BY <1>2, MetricsFacts DEF InWorker
<1>4. /\ Metrics[metric] = "accuracy" <=> metric = 1
      /\ Metrics[metric] = "artifact_size" <=> metric = 5
      /\ Metrics[metric] = "preparation" <=> metric = 6
  BY <1>2, MetricsFacts
<1>5. crashes \in 0..MaxCrashes /\ MaxCrashes \in Nat
  BY BoundsAssumption DEF Shape, Types
<1>6. pc = "measure" => scorer \in [FilesOf(Current) -> Contents] /\ scorer # Unavailable
  BY <1>2, LoadableContents, ValuesAreAvailable DEF Shape, Scorers, Walking
<1>7. pc = "measure" /\ InWorker => loaded \in [FilesOf(Current) -> Contents]
  BY LoadableContents DEF Shape, Scorers
<1>8. CASE MeasureAccuracy
  BY <1>1, <1>2, <1>3, <1>4, <1>5, <1>6, <1>8, MetricsFacts
     DEF MeasureAccuracy, Values, environment, InWorker
<1>9. CASE MeasureInWorker
  BY <1>1, <1>3, <1>5, <1>7, <1>9 DEF MeasureInWorker, Values, environment, tables
<1>10. CASE WorkerFails
  BY <1>1, <1>3, <1>5, <1>10 DEF WorkerFails, Values, environment, tables
<1>11. CASE WorkerCrashes
  <2>1. crashes' = crashes + 1 /\ crashes < MaxCrashes
    BY <1>11 DEF WorkerCrashes
  <2>2. crashes' \in 0..MaxCrashes
    BY <1>5, <2>1
  <2> QED
    BY <1>1, <1>3, <1>11, <2>2 DEF WorkerCrashes, Values, tables
<1>12. CASE MeasureArtifactSize
  <2> DEFINE value == [file \in FilesOf(Current) |-> disk[file]]
  <2>1. value \in [FilesOf(Current) -> Contents]
    BY <1>2, NeedsFacts DEF Shape, Types
  <2>2. FilesOf(Current) = {Required[n] : n \in 1..Len(Required)}
    BY <1>2, CurrentFacts
  <2>3. Take(value)
    BY <1>12, <2>2 DEF MeasureArtifactSize
  <2> QED
    BY <1>1, <1>2, <1>4, <1>5, <1>12, <2>1, <2>3
       DEF MeasureArtifactSize, Values, environment, tables
<1>13. CASE ComparePreparation
  <2>1. metric = 6 /\ ~InWorker
    BY <1>4, <1>13, MetricsFacts DEF ComparePreparation, InWorker, Isolated
  <2> QED
    BY <1>1, <1>5, <1>6, <1>13, <2>1 DEF ComparePreparation, Values, environment, tables
<1> QED
  BY <1>8, <1>9, <1>10, <1>11, <1>12, <1>13 DEF Taking

(* A step that takes a figure keeps the shape.                              *)
LEMMA TakingShape ==
  ASSUME Shape, Taking
  PROVE  Shape'
<1>1. PICK value \in Values(Current) :
        Take(value) /\ (metric = 1 => value # Unavailable)
  BY FigureTaken
<1> QED
  BY <1>1, FigureTaken, TakeShape

(* The next arm starts from nothing, the ended one is in the results.       *)
LEMMA ReturnRowShape ==
  ASSUME Shape, ReturnRow
  PROVE  Shape'
<1>1. /\ pc = "return" /\ InArm /\ DOMAIN row = Figures /\ RowOf(Current, row)
      /\ "accuracy" \in Figures
  BY MetricsFacts DEF ReturnRow, Shape, Place, Rows
<1>2. /\ results' = With(results, Current, row)
      /\ model_identities' =
           IF row["accuracy"] # Unavailable /\ Required # <<>>
           THEN model_identities \cup {Current} ELSE model_identities
      /\ pc' = IF arm = Len(_ARMS) THEN "census" ELSE "probe"
      /\ arm' = arm + 1 /\ metric' = 1
      /\ checked' = 0 /\ loaded' = EmptyMap /\ scorer' = EmptyMap /\ row' = EmptyMap
      /\ UNCHANGED <<disk, installed, replacements, crashes, selected_thresholds>>
  BY DEF ReturnRow, environment
<1>3. /\ arm \in 1..Len(_ARMS) /\ Len(_ARMS) \in Nat
      /\ (InArm' <=> arm # Len(_ARMS)) /\ (InArm' => Current' = _ARMS[arm + 1])
  BY <1>1, <1>2, ArmsFacts DEF InArm, Current
<1>4. Types'
  BY <1>2, <1>3, MetricsFacts DEF Shape, Types
<1>5. InArm' => Len(Required') \in Nat
  BY <1>2, <1>3, ArmsFacts, NeedsFacts DEF Required, InArm
<1>6. Place'
  BY <1>2, <1>3, <1>5, MetricsFacts DEF Place, Walking
<1>7. EmptyMap \in [DOMAIN EmptyMap -> Loadable] /\ DOMAIN EmptyMap = {}
  BY DEF EmptyMap
<1>8. Scorers'
  BY <1>2, <1>7 DEF Scorers, Walking
<1>9. Rows'
  BY <1>2, <1>7 DEF Rows, RowOf, Walking
<1>10. Accounts'
  <2>1. /\ DOMAIN results' = DOMAIN results \cup {Current}
        /\ results'[Current] = row
        /\ \A a \in DOMAIN results : a # Current => results'[a] = results[a]
    BY <1>2 DEF With
  <2>2. DOMAIN results' = {_ARMS[n] : n \in 1..(arm' - 1)}
    <3>1. 1..(arm' - 1) = (1..(arm - 1)) \cup {arm}
      BY <1>2, <1>3
    <3> QED
      BY <2>1, <3>1 DEF Shape, Accounts, Current
  <2>3. Current \notin DOMAIN results
    <3>1. ASSUME NEW n \in 1..(arm - 1), Current = _ARMS[n]
          PROVE  FALSE
      BY <1>1, <3>1, ArmsFacts DEF InArm, Current
    <3> QED
      BY <3>1 DEF Shape, Accounts
  <2>4. Current \notin model_identities /\ Required = Needs[Current]
    BY <2>3 DEF Shape, Accounts, Required
  <2>5. Current \in selected_thresholds <=> row["accuracy"] # Unavailable
    BY <1>1 DEF Shape, Accounts
  <2>6. ASSUME NEW a \in DOMAIN results'
        PROVE  /\ RowOf(a, results'[a]) /\ DOMAIN results'[a] = Figures
               /\ a \in selected_thresholds <=> results'[a]["accuracy"] # Unavailable
               /\ a \in model_identities' <=> a \in selected_thresholds /\ Needs[a] # <<>>
    <3>1. CASE a = Current
      BY <1>1, <1>2, <2>1, <2>4, <2>5, <3>1
    <3>2. CASE a # Current
      <4>1. /\ a \in DOMAIN results /\ results'[a] = results[a]
            /\ a \in model_identities' <=> a \in model_identities
        BY <1>2, <2>1, <3>2
      <4> QED
        BY <4>1 DEF Shape, Accounts
    <3> QED
      BY <3>1, <3>2
  <2>7. model_identities' \subseteq DOMAIN results'
    BY <1>2, <2>1 DEF Shape, Accounts
  <2>8. selected_thresholds' \ DOMAIN results' = {}
    BY <1>2, <2>1 DEF Shape, Accounts
  <2>9. InArm' => Current' \notin selected_thresholds'
    <3>1. SUFFICES ASSUME InArm', Current' \in DOMAIN results' PROVE FALSE
      BY <2>8
    <3>2. PICK n \in 1..arm : _ARMS[arm + 1] = _ARMS[n]
      BY <1>2, <1>3, <2>2, <3>1
    <3> QED
      BY <1>3, <3>1, <3>2, ArmsFacts
  <2>10. "accuracy" \notin DOMAIN row' /\ pc' # "built"
    BY <1>2, <1>7
  <2> QED
    BY <1>2, <2>2, <2>6, <2>7, <2>8, <2>9, <2>10 DEF Accounts, RowOf
<1> QED
  BY <1>4, <1>6, <1>8, <1>9, <1>10 DEF Shape

Halting == CannotLoad \/ WorkerHangs \/ CannotSize \/ Abort \/ CannotReadGraph

(* The ends of a run without a record change nothing else.                  *)
LEMMA HaltingChanges ==
  ASSUME Halting
  PROVE  /\ \/ pc' \in {"died", "hung"}
            \/ pc = "census" /\ pc' = "aborted"
         /\ UNCHANGED <<disk, installed, replacements, crashes, arm, metric, checked,
                        loaded, scorer, row, results, selected_thresholds,
                        model_identities, record>>
BY DEF Halting, CannotLoad, WorkerHangs, CannotSize, Abort, CannotReadGraph, Goto,
       environment, process, tables

(* A run that halts keeps it.                                               *)
LEMMA HaltingShape ==
  ASSUME Shape, Halting
  PROVE  Shape'
<1>1. /\ \/ pc' \in {"died", "hung"}
         \/ pc = "census" /\ pc' = "aborted"
      /\ UNCHANGED <<disk, installed, replacements, crashes, arm, metric, checked,
                     loaded, scorer, row, results, selected_thresholds, model_identities>>
  BY HaltingChanges
<1>2. pc' \in Ended \ {"built"} /\ pc' \notin Walking \cup {"idle", "return"}
  BY <1>1 DEF Ended, Walking
<1>3. Types' /\ Rows' /\ Accounts'
  BY <1>1, <1>2, RowsStay, AccountsStay DEF Shape, Types
<1>4. Place' /\ Scorers'
  BY <1>1, <1>2 DEF Shape, Place, Scorers, Walking
<1> QED
  BY <1>3, <1>4 DEF Shape

(* Building the record keeps it.                                            *)
LEMMA BuildShape ==
  ASSUME Shape, Build
  PROVE  Shape'
<1>1. /\ pc = "census" /\ pc' = "built" /\ record' = build
      /\ UNCHANGED <<disk, installed, replacements, crashes, arm, metric, checked,
                     loaded, scorer, row, results, selected_thresholds, model_identities>>
  BY DEF Build, Goto, environment, process
<1>2. Types' /\ Rows'
  BY <1>1, RowsStay DEF Shape, Types, Ended, Walking
<1>3. Place' /\ Scorers'
  BY <1>1 DEF Shape, Place, Scorers, Walking
<1>4. build' = build
  BY <1>1 DEF build, _environment, Graph, _int8_accuracy_divergence,
              _preparation_asymmetry, Measured
<1>5. Accounts'
  <2>1. InArm' = InArm /\ Current' = Current
    BY <1>1 DEF InArm, Current
  <2> QED
    BY <1>1, <1>4, <2>1 DEF Shape, Accounts, RowOf
<1> QED
  BY <1>2, <1>3, <1>5 DEF Shape

(* So does doing nothing.                                                   *)
LEMMA StutterShape ==
  ASSUME Shape, UNCHANGED vars
  PROVE  Shape'
<1>1. UNCHANGED <<disk, installed, replacements, crashes, pc, arm, metric, checked,
                  loaded, scorer, row, results, selected_thresholds, model_identities,
                  record>>
  BY DEF vars, environment, process, tables
<1>2. Types' /\ Rows'
  BY <1>1, RowsStay DEF Shape, Types, Ended, Walking
<1>3. /\ InArm' = InArm /\ Current' = Current /\ Required' = Required
      /\ InWorker' = InWorker /\ FilesOf(Current)' = FilesOf(Current)
  BY <1>1, SameArm
<1>4. LoadedSoFar' <=> LoadedSoFar
  BY <1>1, <1>3 DEF LoadedSoFar
<1>5. Place' /\ Scorers'
  BY <1>1, <1>3, <1>4 DEF Shape, Place, Scorers
<1>6. build' = build
  BY <1>1 DEF build, _environment, Graph, _int8_accuracy_divergence,
              _preparation_asymmetry, Measured
<1>7. Accounts'
  BY <1>1, <1>3, <1>6 DEF Shape, Accounts, RowOf
<1> QED
  BY <1>2, <1>5, <1>7 DEF Shape

(* A file that goes while it is verified ends the run, and changes nothing  *)
(* else.                                                                    *)
LEMMA CannotVerifyChanges ==
  ASSUME Shape, CannotVerify
  PROVE  /\ pc = "probe" /\ pc' = "died"
         /\ disk' \in [Files -> Contents] /\ replacements \in Nat
         /\ replacements' = replacements + 1 /\ replacements' \in 0..MaxReplacements
         /\ UNCHANGED <<installed, crashes, arm, metric, checked, loaded, scorer, row,
                        results, selected_thresholds, model_identities, record>>
<1>1. /\ pc = "probe" /\ pc' = "died" /\ replacements < MaxReplacements
      /\ disk' = [disk EXCEPT ![Required[checked + 1]] = "missing"]
      /\ replacements' = replacements + 1
      /\ UNCHANGED <<installed, crashes, arm, metric, checked, loaded, scorer, row,
                     results, selected_thresholds, model_identities, record>>
  BY DEF CannotVerify, Goto, process, tables
<1>2. disk \in [Files -> Contents] /\ replacements \in 0..MaxReplacements
  BY DEF Shape, Types
<1>3. disk' \in [Files -> Contents]
  BY <1>1, <1>2 DEF Contents
<1> QED
  BY <1>1, <1>2, <1>3, BoundsAssumption

(* A run that ends so keeps it.                                             *)
LEMMA CannotVerifyShape ==
  ASSUME Shape, CannotVerify
  PROVE  Shape'
<1>1. /\ disk' \in [Files -> Contents] /\ replacements' \in 0..MaxReplacements
      /\ pc' = "died"
      /\ UNCHANGED <<installed, crashes, arm, metric, checked, loaded, scorer, row, results,
                     selected_thresholds, model_identities>>
  BY CannotVerifyChanges
<1>2. pc' \in Ended \ {"built"} /\ pc' \notin Walking \cup {"idle", "return"}
  BY <1>1 DEF Ended, Walking
<1>3. Types' /\ Rows' /\ Accounts'
  BY <1>1, <1>2, RowsStay, AccountsStay DEF Shape, Types
<1>4. Place' /\ Scorers'
  BY <1>1, <1>2 DEF Shape, Place, Scorers, Walking
<1> QED
  BY <1>3, <1>4 DEF Shape

Reading == Probe \/ Probed \/ Load \/ Loaded

(* The steps of the process, by what they do to its state.                  *)
LEMMA KindsOfSteps ==
  ASSUME [Next]_vars
  PROVE  \/ \E file \in Files, contents \in Contents : Replace(file, contents)
         \/ Start \/ Reading \/ CannotInitialise \/ Taking \/ ReturnRow
         \/ Halting \/ CannotVerify \/ Build \/ UNCHANGED vars
BY DEF Next, GetScorer, Measure, Conclude, Stop, Reading, Taking, Halting

(* Every step keeps the shape.                                              *)
LEMMA ShapeStep ==
  ASSUME Shape, [Next]_vars
  PROVE  Shape'
BY KindsOfSteps, ReplaceShape, StartShape, ProbeShape, ProbedShape, LoadShape, LoadedShape,
   CannotInitialiseShape, TakingShape, ReturnRowShape, HaltingShape, BuildShape,
   CannotVerifyShape, StutterShape DEF Reading

(* The shape of the state is kept in every run.                             *)
THEOREM ShapeKept == Spec => []Shape
BY InitShape, ShapeStep, PTL DEF Spec

(* The shape has the types in it.                                           *)
LEMMA ShapeGivesTypeOK == Shape => TypeOK
<1> SUFFICES ASSUME Shape PROVE TypeOK
  OBVIOUS
<1>1. pc = "measure" =>
        /\ metric = 1 \/ row["accuracy"] # Unavailable
        /\ DOMAIN scorer = {Required[n] : n \in 1..Len(Required)}
  BY CurrentFacts, MetricsFacts DEF Shape, Types, Place, Scorers, Rows, Walking
<1>2. DOMAIN results \subseteq Arms
  <2>1. ASSUME NEW n \in 1..(arm - 1) PROVE _ARMS[n] \in Arms
    BY ArmsFacts DEF Shape, Types
  <2> QED
    BY <2>1 DEF Shape, Accounts
<1> QED
  BY <1>1, <1>2 DEF Shape, Types, Place, TypeOK

(* TypeOK, for any number of arms, files, changes and crashes: nothing is   *)
(* read before all of an arm's files are verified (get_scorer), and nothing *)
(* measured without a whole scorer (_measure_arm).                          *)
THEOREM TypeCorrect == Spec => []TypeOK
BY ShapeKept, ShapeGivesTypeOK, PTL

----------------------------------------------------------------------------
(* Files that stay as they are                                              *)

(* What reading the files of a scorer leaves as it was.                     *)
LEMMA ReadingChanges ==
  ASSUME Shape, Reading
  PROVE  /\ pc \in {"probe", "load"} /\ InArm
         /\ pc' \in Walking
         /\ UNCHANGED <<disk, installed, replacements, crashes, arm, metric, row, results,
                        selected_thresholds, model_identities, record>>
BY DEF Reading, Probe, Probed, Load, Loaded, Goto, environment, process, tables, Walking,
       Shape, Place

(* The next file to be read is one of the arm's, and was not read yet.      *)
LEMMA NextFileFacts ==
  ASSUME Shape, pc = "load", ~AllLoaded
  PROVE  NextFile \in FilesOf(Current)
<1>1. InArm /\ Len(Required) \in Nat
  BY CurrentFacts DEF Shape, Place, Walking
<1>2. PICK k \in 0..Len(Required) : Cardinality(DOMAIN loaded) = k
  BY DEF Shape, Scorers, LoadedSoFar
<1>3. Len(Required) - k \in 1..Len(Required)
  BY <1>1, <1>2 DEF AllLoaded
<1> QED
  BY <1>1, <1>2, <1>3, CurrentFacts DEF NextFile

(* A scorer of pinned files alone.                                          *)
LEMMA PinnedValue ==
  ASSUME NEW a, NEW f, f \in [FilesOf(a) -> Contents],
         \A file \in FilesOf(a) : f[file] = "pinned"
  PROVE  f = [file \in FilesOf(a) |-> "pinned"]
OBVIOUS

(* A step that reads the files of an arm keeps what it reads pinned.        *)
LEMMA ReadingPinned ==
  ASSUME Shape, AllPinned, Reading
  PROVE  AllPinned'
<1>1. /\ pc \in {"probe", "load"} /\ pc' \in Walking /\ InArm /\ InArm'
      /\ UNCHANGED <<disk, installed, replacements, arm, metric, row, results>>
      /\ Required' = Required /\ Current' = Current
      /\ FilesOf(Current)' = FilesOf(Current)
  BY ReadingChanges, SameArm
<1> SUFFICES ASSUME replacements = 0
             PROVE  /\ pc' \in {"probe", "load"} =>
                         \A n \in 1..checked' : disk[Required[n]] = "pinned"
                    /\ Verifiable' => /\ Current \in installed
                                      /\ \A file \in FilesOf(Current) : disk[file] = "pinned"
                    /\ \A file \in DOMAIN loaded' : loaded'[file] = "pinned"
                    /\ \A file \in DOMAIN scorer' : scorer'[file] = "pinned"
  BY <1>1 DEF AllPinned, Pinned
<1>2. CASE Probe
  <2>1. /\ pc = "probe" /\ pc' = "probe" /\ checked < Len(Required) /\ checked' = checked + 1
        /\ disk[Required[checked + 1]] = "pinned" /\ UNCHANGED <<loaded, scorer>>
    BY <1>2 DEF Probe, Goto, Verified
  <2>2. checked \in Nat
    BY DEF Shape, Types
  <2>3. \A n \in 1..checked' : n \in 1..checked \/ n = checked + 1
    BY <2>1, <2>2
  <2>4. Verifiable' => Verifiable
    BY <1>1, <2>1 DEF Verifiable
  <2> QED
    BY <1>1, <2>1, <2>3, <2>4 DEF AllPinned, Walking
<1>3. CASE Probed
  <2>1. /\ pc = "probe" /\ pc' = "load" /\ Current \in installed /\ checked = Len(Required)
        /\ UNCHANGED <<checked, loaded, scorer>>
    BY <1>3 DEF Probed, Goto, process
  <2>2. \A file \in FilesOf(Current) : disk[file] = "pinned"
    BY <1>1, <2>1, CurrentFacts DEF AllPinned
  <2> QED
    BY <1>1, <2>1, <2>2 DEF AllPinned
<1>4. CASE Load
  <2>1. /\ pc = "load" /\ pc' = "load" /\ ~AllLoaded
        /\ loaded' = With(loaded, NextFile, disk[NextFile]) /\ UNCHANGED <<checked, scorer>>
    BY <1>4 DEF Load, Goto
  <2>2. Current \in installed /\ \A file \in FilesOf(Current) : disk[file] = "pinned"
    BY <2>1 DEF AllPinned, Verifiable, Walking
  <2>3. disk[NextFile] = "pinned"
    BY <2>1, <2>2, NextFileFacts
  <2>4. \A file \in DOMAIN loaded' : loaded'[file] = "pinned"
    BY <2>1, <2>3 DEF With, AllPinned
  <2> QED
    BY <1>1, <2>1, <2>2, <2>4 DEF AllPinned
<1>5. CASE Loaded
  <2>1. /\ pc = "load" /\ pc' = "measure" /\ UNCHANGED loaded
        /\ scorer' = IF InWorker THEN scorer ELSE loaded
    BY <1>5 DEF Loaded, Goto, process
  <2>2. Current \in installed /\ \A file \in FilesOf(Current) : disk[file] = "pinned"
    BY <2>1 DEF AllPinned, Verifiable, Walking
  <2> QED
    BY <1>1, <2>1, <2>2 DEF AllPinned
<1> QED
  BY <1>2, <1>3, <1>4, <1>5 DEF Reading

(* A figure that was taken is there, and with every file as pinned, unless  *)
(* a worker failed to take it; and only one that died can fail.             *)
LEMMA TakenPinned ==
  ASSUME Shape, AllPinned, Taking, replacements = 0
  PROVE  \E value \in Values(Current) :
           /\ Take(value) /\ (metric = 1 => value # Unavailable)
           /\ \/ value = [file \in FilesOf(Current) |-> "pinned"] /\ crashes' = crashes
              \/ value = Unavailable /\ WorkerCrashes
<1>1. PICK value \in Values(Current) :
        /\ Take(value) /\ (metric = 1 => value # Unavailable)
        /\ \/ pc = "measure" /\ ~InWorker /\ value = scorer
           \/ pc = "measure" /\ InWorker /\ value = loaded
           \/ MeasureArtifactSize /\ value = [file \in FilesOf(Current) |-> disk[file]]
           \/ (WorkerFails \/ WorkerCrashes) /\ value = Unavailable
  BY FigureTaken
<1>2. pc \in Walking /\ Verifiable /\ InArm
  BY FigureTaken DEF Verifiable, Shape, Place
<1>3. Current \in installed /\ \A file \in FilesOf(Current) : disk[file] = "pinned"
  BY <1>2 DEF AllPinned
<1>4. ~WorkerFails
  <2>1. ASSUME WorkerFails, pc = "probe" PROVE ~ProbeFails
    <3>1. checked < Len(Required) => checked + 1 \in 1..Len(Required)
      BY <1>2, CurrentFacts DEF Shape, Types
    <3> QED
      BY <1>2, <1>3, <3>1, CurrentFacts DEF ProbeFails, Verified
  <2>2. ASSUME WorkerFails, pc = "load" PROVE ~LoadFails
    <3>1. ~AllLoaded => disk[NextFile] = "pinned"
      BY <1>3, <2>2, NextFileFacts
    <3> QED
      BY <3>1 DEF LoadFails, Loadable
  <2> QED
    BY <2>1, <2>2 DEF WorkerFails
<1>5. CASE value = Unavailable
  <2>1. WorkerCrashes
    <3>1. pc = "measure" => scorer # Unavailable
      BY <1>2, CurrentFacts, LoadableContents, ValuesAreAvailable DEF Shape, Scorers
    <3>2. pc = "measure" /\ InWorker => loaded # Unavailable
      BY <1>2, CurrentFacts, LoadableContents, ValuesAreAvailable DEF Shape, Scorers
    <3>3. [file \in FilesOf(Current) |-> disk[file]] # Unavailable
      <4>1. [file \in FilesOf(Current) |-> disk[file]] \in [FilesOf(Current) -> Contents]
        BY <1>2, CurrentFacts, NeedsFacts DEF Shape, Types
      <4> QED
        BY <1>2, <4>1, CurrentFacts, ValuesAreAvailable
    <3> QED
      BY <1>1, <1>4, <1>5, <3>1, <3>2, <3>3
  <2> QED
    BY <1>1, <1>5, <2>1
<1>6. CASE value # Unavailable
  <2>1. value \in [FilesOf(Current) -> Contents]
    BY <1>6 DEF Values
  <2>2. \A file \in FilesOf(Current) : value[file] = "pinned"
    <3>1. DOMAIN value = FilesOf(Current)
      BY <2>1
    <3> QED
      BY <1>1, <1>3, <1>6, <3>1 DEF AllPinned
  <2>3. value = [file \in FilesOf(Current) |-> "pinned"]
    BY <2>1, <2>2, PinnedValue
  <2>4. crashes' = crashes
    <3>1. CASE WorkerCrashes
      <4>1. Take(Unavailable)
        BY <3>1 DEF WorkerCrashes
      <4>2. row'[Metrics[metric]] = Unavailable /\ row'[Metrics[metric]] = value
        BY <1>1, <4>1 DEF Take, With
      <4> QED
        BY <1>6, <4>2
    <3> QED
      BY <3>1, FigureTaken
  <2> QED
    BY <1>1, <2>3, <2>4
<1> QED
  BY <1>5, <1>6

(* A figure is taken of a scorer that is the pinned one.                    *)
LEMMA TakingPinned ==
  ASSUME Shape, AllPinned, Taking
  PROVE  AllPinned'
<1> SUFFICES ASSUME replacements' = 0 PROVE AllPinned'
  BY DEF AllPinned
<1>1. /\ pc \in Walking /\ Verifiable /\ InArm /\ replacements = 0
      /\ UNCHANGED <<disk, installed, arm, scorer, results>>
  BY FigureTaken DEF Verifiable, Shape, Place
<1>2. PICK value \in Values(Current) :
        /\ Take(value) /\ (metric = 1 => value # Unavailable)
        /\ value = [file \in FilesOf(Current) |-> "pinned"] \/ value = Unavailable
  BY <1>1, TakenPinned
<1>3. /\ InArm' /\ Current' = Current /\ Required' = Required
      /\ FilesOf(Current)' = FilesOf(Current)
  BY <1>1 DEF InArm, Current, Required, FilesOf
<1>4. checked' = 0 /\ loaded' = EmptyMap
  BY <1>2 DEF Take
<1>5. DOMAIN loaded' = {}
  BY <1>4 DEF EmptyMap
<1>6. Pinned(row', Current)
  <2>1. DOMAIN row' = DOMAIN row \cup {Metrics[metric]}
    BY <1>2 DEF Take, With
  <2> QED
    BY <1>1, <1>2, <2>1, RowTaken DEF AllPinned, Pinned
<1>7. Current \in installed /\ \A file \in FilesOf(Current) : disk[file] = "pinned"
  BY <1>1 DEF AllPinned
<1> QED
  BY <1>1, <1>3, <1>4, <1>5, <1>6, <1>7 DEF AllPinned, Pinned

(* A row that is returned has the figures that were taken.                  *)
LEMMA ReturnRowPinned ==
  ASSUME Shape, AllPinned, ReturnRow
  PROVE  AllPinned'
<1> SUFFICES ASSUME replacements' = 0 PROVE AllPinned'
  BY DEF AllPinned
<1>1. /\ InArm /\ replacements = 0 /\ UNCHANGED <<disk, installed>>
      /\ results' = With(results, Current, row)
      /\ pc' \in {"census", "probe"} /\ metric' = 1 /\ checked' = 0
      /\ loaded' = EmptyMap /\ scorer' = EmptyMap /\ row' = EmptyMap
  BY DEF ReturnRow, environment, Shape, Place
<1>2. DOMAIN EmptyMap = {}
  BY DEF EmptyMap
<1>3. \A a \in DOMAIN results' : Pinned(results'[a], a)
  BY <1>1 DEF With, AllPinned
<1>4. ~Verifiable'
  BY <1>1 DEF Verifiable
<1> QED
  BY <1>1, <1>2, <1>3, <1>4 DEF AllPinned, Pinned

(* As long as no file changes, whatever is read is pinned.                  *)
LEMMA PinnedStep ==
  ASSUME Shape, AllPinned, [Next]_vars
  PROVE  AllPinned'
<1>1. CASE \E file \in Files, contents \in Contents : Replace(file, contents)
  <2>1. replacements' # 0
    BY <1>1 DEF Replace, Shape, Types
  <2> QED
    BY <2>1 DEF AllPinned
<1>2. CASE Start
  <2>1. /\ pc = "idle" /\ pc' = "probe"
        /\ UNCHANGED <<disk, installed, replacements, arm, metric, checked, loaded,
                       scorer, row, results>>
    BY <1>2 DEF Start, Goto, environment, process, tables
  <2>2. metric' = 1 /\ checked' = 0 /\ InArm' = InArm /\ Current' = Current
    BY <2>1 DEF Shape, Place, InArm, Current
  <2> QED
    BY <2>1, <2>2 DEF AllPinned, Pinned, Verifiable
<1>3. CASE CannotInitialise
  <2>1. /\ pc' = "return" /\ row' = [figure \in Figures |-> Unavailable]
        /\ UNCHANGED <<disk, installed, replacements, arm, metric, loaded, scorer, results>>
    BY <1>3 DEF CannotInitialise, Goto, environment, process, tables
  <2>2. \A a : Pinned(row', a)
    BY <2>1 DEF Pinned
  <2> QED
    BY <2>1, <2>2 DEF AllPinned, Pinned, Walking
<1>4. CASE Halting
  <2>1. /\ pc' \notin Walking
        /\ UNCHANGED <<disk, installed, replacements, arm, loaded, scorer, row, results>>
    BY <1>4, HaltingChanges DEF Walking
  <2>2. InArm' = InArm /\ Current' = Current
    BY <2>1 DEF InArm, Current
  <2> QED
    BY <2>1, <2>2 DEF AllPinned, Pinned, Walking
<1>5. CASE Build
  <2>1. /\ pc' \notin Walking
        /\ UNCHANGED <<disk, installed, replacements, arm, loaded, scorer, row, results>>
    BY <1>5 DEF Build, Goto, environment, process, Walking
  <2>2. InArm' = InArm /\ Current' = Current
    BY <2>1 DEF InArm, Current
  <2> QED
    BY <2>1, <2>2 DEF AllPinned, Pinned, Walking
<1>6. CASE UNCHANGED vars
  <2>1. UNCHANGED <<disk, installed, replacements, pc, arm, metric, checked, loaded,
                    scorer, row, results>>
    BY <1>6 DEF vars, environment, process, tables
  <2>2. /\ InArm' = InArm /\ Current' = Current /\ Required' = Required
        /\ FilesOf(Current)' = FilesOf(Current) /\ Verifiable' = Verifiable
    BY <2>1, SameArm DEF Verifiable
  <2> QED
    BY <2>1, <2>2 DEF AllPinned, Pinned
<1>7. CASE CannotVerify
  <2>1. replacements' # 0
    BY <1>7, CannotVerifyChanges
  <2> QED
    BY <2>1 DEF AllPinned
<1> QED
  BY <1>1, <1>2, <1>3, <1>4, <1>5, <1>6, <1>7, KindsOfSteps, ReadingPinned, TakingPinned,
     ReturnRowPinned

(* Nothing is read before the run.                                          *)
LEMMA InitPinned == Init => AllPinned
<1> SUFFICES ASSUME Init PROVE AllPinned
  OBVIOUS
<1>1. DOMAIN EmptyMap = {}
  BY DEF EmptyMap
<1> QED
  BY <1>1 DEF Init, AllPinned, Pinned, Walking, Verifiable

(* And so is what there is to say of files that nobody touched.             *)
THEOREM PinnedKept == Spec => [](Shape /\ AllPinned)
<1>1. Init => Shape /\ AllPinned
  BY InitShape, InitPinned
<1>2. Shape /\ AllPinned /\ [Next]_vars => (Shape /\ AllPinned)'
  BY ShapeStep, PinnedStep
<1> QED
  BY <1>1, <1>2, PTL DEF Spec

(* FiguresArePinned, for any arms and files: what the factory reads, what   *)
(* the workers read and what is sized are the files the checksum vouched    *)
(* for, as long as nobody changes them (get_scorer, _measure_arm).          *)
THEOREM FiguresPinned == Spec => []FiguresArePinned
<1>1. Shape /\ AllPinned => FiguresArePinned
  <2> SUFFICES ASSUME Shape, AllPinned PROVE FiguresArePinned
    OBVIOUS
  <2> QED
    BY DEF FiguresArePinned, AllPinned, Pinned, Shape, Accounts
<1> QED
  BY <1>1, PinnedKept, PTL

----------------------------------------------------------------------------
(* One change of a file, and the census                                     *)

(* The graph the census looks at is a file of the int8 arm.                 *)
LEMMA Int8Facts ==
  ModelOf(Int8) \in FilesOf(Int8) /\ ModelOf(Int8) \in Files /\ Graph = disk[ModelOf(Int8)]
<1>1. Needs[Int8] \in Seq(Files) /\ Needs[Int8] # <<>>
  BY ArmsAssumption, Int8Assumption
<1>2. 1 \in 1..Len(Needs[Int8]) /\ Needs[Int8][1] \in Files
  BY <1>1
<1> QED
  BY <1>2 DEF ModelOf, FilesOf, Graph

(* Before any change there was nothing to be seen.                          *)
LEMMA PinnedUnsuspected ==
  ASSUME AllPinned, replacements = 0
  PROVE  Unsuspected
<1>1. ASSUME NEW a, NEW r, Pinned(r, a) PROVE QuantizedRow(r)
  <2>1. ASSUME NEW figure \in DOMAIN r, r[figure] # Unavailable
        PROVE  Quantized(r[figure])
    <3>1. r[figure] = [file \in FilesOf(a) |-> "pinned"]
      BY <1>1, <2>1 DEF Pinned
    <3> QED
      BY <3>1 DEF Quantized
  <2> QED
    BY <2>1 DEF QuantizedRow
<1> QED
  BY <1>1 DEF AllPinned, Unsuspected, Quantized

(* While the graph on disk is quantized, what is read of it is.             *)
LEMMA ReadingUnsuspected ==
  ASSUME Shape, Unsuspected, disk[ModelOf(Int8)] # "unquantized", Reading
  PROVE  Unsuspected'
<1>1. /\ UNCHANGED <<arm, metric, row, results>>
      /\ InArm' = InArm /\ Current' = Current
  BY ReadingChanges, SameArm
<1>2. ASSUME InArm, Current = Int8 PROVE Quantized(loaded') /\ Quantized(scorer')
  <2>1. Quantized(loaded) /\ Quantized(scorer)
    BY <1>2 DEF Unsuspected
  <2>2. CASE Load
    <3>1. loaded' = With(loaded, NextFile, disk[NextFile]) /\ scorer' = scorer
      BY <2>2 DEF Load
    <3> QED
      BY <2>1, <3>1 DEF With, Quantized
  <2>3. CASE Loaded
    <3>1. loaded' = loaded /\ scorer' \in {scorer, loaded}
      BY <2>3 DEF Loaded, process
    <3> QED
      BY <2>1, <3>1
  <2>4. CASE Probe \/ Probed
    <3>1. loaded' = loaded /\ scorer' = scorer
      BY <2>4 DEF Probe, Probed, process
    <3> QED
      BY <2>1, <3>1
  <2> QED
    BY <2>2, <2>3, <2>4 DEF Reading
<1> QED
  BY <1>1, <1>2 DEF Unsuspected, Quantized, QuantizedRow

(* What is quantized gives figures of a quantized model.                    *)
LEMMA TakingUnsuspected ==
  ASSUME Shape, Unsuspected, disk[ModelOf(Int8)] # "unquantized", Taking
  PROVE  Unsuspected'
<1>1. PICK value \in Values(Current) :
        /\ Take(value) /\ (metric = 1 => value # Unavailable)
        /\ \/ value = scorer
           \/ value = loaded
           \/ value = [file \in FilesOf(Current) |-> disk[file]]
           \/ value = Unavailable
  BY FigureTaken
<1>2. /\ pc \in Walking /\ UNCHANGED <<arm, scorer, results>>
      /\ InArm' = InArm /\ Current' = Current /\ loaded' = EmptyMap
  BY <1>1, FigureTaken DEF InArm, Current, Take
<1>3. Quantized(loaded')
  BY <1>2 DEF Quantized, EmptyMap
<1>4. ASSUME InArm, Current = Int8 PROVE Quantized(scorer') /\ QuantizedRow(row')
  <2>1. Quantized(loaded) /\ Quantized(scorer) /\ QuantizedRow(row)
    BY <1>4 DEF Unsuspected
  <2>2. value # Unavailable => Quantized(value)
    BY <1>1, <2>1 DEF Quantized
  <2>3. DOMAIN row' = DOMAIN row \cup {Metrics[metric]}
    BY <1>1 DEF Take, With
  <2>4. QuantizedRow(row')
    BY <1>1, <1>2, <2>1, <2>2, <2>3, RowTaken DEF QuantizedRow
  <2> QED
    BY <1>2, <2>1, <2>4 DEF Quantized
<1> QED
  BY <1>2, <1>3, <1>4 DEF Unsuspected, Quantized, QuantizedRow

(* And they go into the results as they are.                                *)
LEMMA ReturnRowUnsuspected ==
  ASSUME Shape, Unsuspected, ReturnRow
  PROVE  Unsuspected'
<1>1. /\ InArm /\ results' = With(results, Current, row)
      /\ loaded' = EmptyMap /\ scorer' = EmptyMap /\ row' = EmptyMap
  BY DEF ReturnRow, Shape, Place
<1>2. Quantized(EmptyMap) /\ QuantizedRow(EmptyMap)
  BY DEF Quantized, QuantizedRow, EmptyMap
<1>3. Int8 \in DOMAIN results' => QuantizedRow(results'[Int8])
  BY <1>1 DEF With, Unsuspected
<1> QED
  BY <1>1, <1>2, <1>3 DEF Unsuspected, Quantized, QuantizedRow

(* After one change, a figure of another graph means that the graph of the  *)
(* census is another one.                                                   *)
LEMMA GraphStep ==
  ASSUME Shape, AllPinned, GraphShows, [Next]_vars
  PROVE  GraphShows'
<1> SUFFICES ASSUME replacements' = 1
             PROVE  disk'[ModelOf(Int8)] = "unquantized" \/ Unsuspected'
  BY DEF GraphShows, ModelOf
<1>1. CASE CannotVerify \/ \E file \in Files, contents \in Contents : Replace(file, contents)
  <2>1. /\ replacements = 0
        /\ UNCHANGED <<arm, loaded, scorer, row, results>>
    BY <1>1, CannotVerifyChanges DEF Replace, process, tables, Shape, Types
  <2>2. Unsuspected
    BY <2>1, PinnedUnsuspected
  <2>3. InArm' = InArm /\ Current' = Current
    BY <2>1 DEF InArm, Current
  <2> QED
    BY <2>1, <2>2, <2>3 DEF Unsuspected, Quantized, QuantizedRow
<1>2. CASE /\ ~CannotVerify
           /\ ~\E file \in Files, contents \in Contents : Replace(file, contents)
  <2>1. UNCHANGED <<disk, replacements>>
    BY <1>2, KindsOfSteps, ReadingChanges, FigureTaken, HaltingChanges
       DEF Start, CannotInitialise, ReturnRow, Build, environment, vars
  <2> SUFFICES ASSUME disk[ModelOf(Int8)] # "unquantized", Unsuspected PROVE Unsuspected'
    BY <2>1 DEF GraphShows
  <2>2. CASE CannotInitialise
    <3>1. /\ row' = [figure \in Figures |-> Unavailable]
          /\ UNCHANGED <<arm, loaded, scorer, results>>
      BY <2>2 DEF CannotInitialise, process, tables
    <3>2. QuantizedRow(row') /\ InArm' = InArm /\ Current' = Current
      BY <3>1 DEF QuantizedRow, InArm, Current
    <3> QED
      BY <3>1, <3>2 DEF Unsuspected, Quantized, QuantizedRow
  <2>3. CASE Start \/ Halting \/ Build \/ UNCHANGED vars
    <3>1. UNCHANGED <<arm, loaded, scorer, row, results>>
      BY <2>3, HaltingChanges DEF Start, Build, process, tables, vars
    <3>2. InArm' = InArm /\ Current' = Current
      BY <3>1 DEF InArm, Current
    <3> QED
      BY <3>1, <3>2 DEF Unsuspected, Quantized, QuantizedRow
  <2> QED
    BY <1>2, <2>2, <2>3, KindsOfSteps, ReadingUnsuspected, TakingUnsuspected,
       ReturnRowUnsuspected
<1> QED
  BY <1>1, <1>2

(* The census comes before the record, and looks at the graph.              *)
LEMMA CensusStep ==
  ASSUME Shape, CensusTaken, [Next]_vars
  PROVE  CensusTaken'
<1> SUFFICES ASSUME pc' = "built", Int8 \in model_identities' PROVE Graph' # "unquantized"
  BY DEF CensusTaken
<1>1. Build \/ UNCHANGED vars
  <2>1. ~\E file \in Files, contents \in Contents : Replace(file, contents)
    BY DEF Replace, Ended
  <2>2. ~Start /\ ~Reading /\ ~CannotInitialise
    BY ReadingChanges DEF Start, CannotInitialise, Goto, Walking
  <2>3. ~ReturnRow /\ ~Halting /\ ~CannotVerify
    BY HaltingChanges, CannotVerifyChanges DEF ReturnRow
  <2>4. ~Taking
    BY FigureTaken DEF Take
  <2> QED
    BY <2>1, <2>2, <2>3, <2>4, KindsOfSteps
<1>2. CASE Build
  BY <1>2 DEF Build, environment, Graph
<1>3. CASE UNCHANGED vars
  BY <1>3 DEF CensusTaken, vars, environment, tables, Graph
<1> QED
  BY <1>1, <1>2, <1>3

----------------------------------------------------------------------------
(* Missing figures, and the workers that died                               *)

(* The arm being measured has no row yet.                                   *)
LEMMA CurrentIsNew ==
  ASSUME Shape, InArm
  PROVE  Current \notin DOMAIN results
<1>1. ASSUME NEW n \in 1..(arm - 1), Current = _ARMS[n]
      PROVE  FALSE
  BY <1>1, ArmsFacts DEF InArm, Current
<1> QED
  BY <1>1 DEF Shape, Accounts

(* A step on no row and no result leaves no other figure missing.           *)
LEMMA MissingStays ==
  ASSUME UNCHANGED <<arm, row, results, selected_thresholds>>
  PROVE  Missing' = Missing
<1>1. InArm' = InArm /\ Current' = Current
  BY DEF InArm, Current
<1> QED
  BY <1>1 DEF Missing

(* A figure that was taken is not missing; one that a dead worker owed is   *)
(* the only one more that is.                                               *)
LEMMA TakingMissing ==
  ASSUME Shape, AllPinned, EachMissingForACrash, Taking, replacements = 0
  PROVE  EachMissingForACrash'
<1>1. PICK value \in Values(Current) :
        /\ Take(value) /\ (metric = 1 => value # Unavailable)
        /\ \/ value = [file \in FilesOf(Current) |-> "pinned"] /\ crashes' = crashes
           \/ value = Unavailable /\ WorkerCrashes
  BY TakenPinned
<1>2. /\ pc \in Walking /\ InArm /\ InArm' /\ Current' = Current
      /\ UNCHANGED <<arm, results>>
      /\ selected_thresholds' = IF metric = 1 THEN selected_thresholds \cup {Current}
                                ELSE selected_thresholds
      /\ metric \in 1..7 /\ Current \in Arms
  BY FigureTaken, CurrentFacts, MetricsFacts DEF Shape, Place, InArm, Current
<1>3. Current \notin DOMAIN results
  BY <1>2, CurrentIsNew
<1>4. /\ DOMAIN row' = DOMAIN row \cup {Metrics[metric]}
      /\ row'[Metrics[metric]] = value
      /\ \A figure \in DOMAIN row : row'[figure] = row[figure]
  BY <1>1, <1>2, RowTaken DEF Take, With
<1>5. Metrics[metric] \in Figures /\ Metrics[metric] \notin DOMAIN row
  <2>1. DOMAIN row = {Metrics[n] : n \in 1..(metric - 1)}
    BY <1>2 DEF Shape, Rows
  <2>2. ASSUME NEW n \in 1..(metric - 1), Metrics[n] = Metrics[metric] PROVE FALSE
    <3>1. n \in 1..7 /\ n # metric
      BY <1>2
    <3> QED
      BY <1>2, <2>2, <3>1, MetricsFacts
  <2> QED
    BY <1>2, <2>1, <2>2, MetricsFacts
<1>6. metric = 1 => DOMAIN row = {} /\ Current \notin selected_thresholds
  <2>1. metric = 1 => DOMAIN row = {}
    BY <1>2 DEF Shape, Rows
  <2> QED
    BY <1>2, <2>1 DEF Shape, Accounts
<1>7. metric > 1 => Current \in selected_thresholds
  <2>1. metric > 1 => 1 \in 1..(metric - 1)
    BY <1>2
  <2>2. metric > 1 => "accuracy" \in DOMAIN row /\ row["accuracy"] # Unavailable
    BY <1>2, <2>1, MetricsFacts DEF Shape, Rows
  <2> QED
    BY <1>2, <2>2 DEF Shape, Accounts
<1>8. IsFiniteSet(Missing) /\ Cardinality(Missing) = crashes
  BY DEF EachMissingForACrash
<1>9. CASE value = [file \in FilesOf(Current) |-> "pinned"] /\ crashes' = crashes
  <2>1. value # Unavailable
    <3>1. value \in [FilesOf(Current) -> Contents]
      BY <1>9 DEF Contents
    <3> QED
      BY <1>2, <3>1, ValuesAreAvailable
  <2>2. Missing' = Missing
    <3>1. ASSUME NEW a, NEW figure \in Figures
          PROVE  <<a, figure>> \in Missing' <=> <<a, figure>> \in Missing
      <4>1. CASE a = Current
        BY <1>2, <1>3, <1>4, <1>6, <1>7, <2>1, <4>1 DEF Missing
      <4>2. CASE a # Current
        BY <1>2, <4>2 DEF Missing
      <4> QED
        BY <4>1, <4>2
    <3> QED
      BY <3>1 DEF Missing
  <2> QED
    BY <1>8, <1>9, <2>2 DEF EachMissingForACrash
<1>10. CASE value = Unavailable /\ WorkerCrashes
  <2>1. crashes' = crashes + 1 /\ metric > 1
    BY <1>1, <1>2, <1>10 DEF WorkerCrashes
  <2> DEFINE pair == <<Current, Metrics[metric]>>
  <2>2. Missing' = Missing \cup {pair}
    <3>1. ASSUME NEW a, NEW figure \in Figures
          PROVE  <<a, figure>> \in Missing' <=> <<a, figure>> \in Missing \cup {pair}
      <4>1. CASE a = Current
        BY <1>2, <1>3, <1>4, <1>5, <1>7, <1>10, <2>1, <4>1 DEF Missing
      <4>2. CASE a # Current
        BY <1>2, <4>2 DEF Missing
      <4> QED
        BY <4>1, <4>2
    <3>2. pair \in Missing'
      BY <1>5, <1>2, <1>4, <1>7, <1>10, <2>1 DEF Missing
    <3> QED
      BY <3>1, <3>2 DEF Missing
  <2>3. pair \notin Missing
    BY <1>3, <1>5 DEF Missing
  <2>4. IsFiniteSet(Missing \cup {pair}) /\ Cardinality(Missing \cup {pair}) = crashes + 1
    BY <1>8, <2>3, FS_AddElement
  <2> QED
    BY <2>1, <2>2, <2>4 DEF EachMissingForACrash
<1> QED
  BY <1>1, <1>9, <1>10

(* Every step keeps one crash for each missing figure.                      *)
LEMMA MissingStep ==
  ASSUME Shape, AllPinned, EachMissingForACrash, [Next]_vars
  PROVE  EachMissingForACrash'
<1> SUFFICES ASSUME replacements' = 0 PROVE EachMissingForACrash'
  BY DEF EachMissingForACrash
<1>1. /\ ~CannotVerify
      /\ ~\E file \in Files, contents \in Contents : Replace(file, contents)
  BY CannotVerifyChanges DEF Replace, Shape, Types
<1>2. CASE Taking
  BY <1>2, FigureTaken, TakingMissing
<1>3. CASE ~Taking
  <2>1. UNCHANGED <<replacements, crashes>>
    BY <1>1, <1>3, KindsOfSteps, ReadingChanges, HaltingChanges
       DEF Start, CannotInitialise, ReturnRow, Build, environment, vars
  <2>2. Missing' = Missing
    <3>1. CASE Start \/ Reading \/ Halting \/ Build \/ UNCHANGED vars
      <4>1. UNCHANGED <<arm, row, results, selected_thresholds>>
        BY <3>1, ReadingChanges, HaltingChanges DEF Start, Build, tables, vars
      <4> QED
        BY <4>1, MissingStays
    <3>2. CASE CannotInitialise
      <4>1. /\ pc = "probe" /\ ~InWorker
            /\ UNCHANGED <<arm, results, selected_thresholds>>
        BY <3>2 DEF CannotInitialise, Goto, tables
      <4>2. InArm /\ metric = 1
        BY <4>1 DEF Shape, Place, Walking
      <4>3. DOMAIN row = {}
        BY <4>1, <4>2 DEF Shape, Rows, Walking
      <4>4. Current \notin selected_thresholds
        BY <4>2, <4>3 DEF Shape, Accounts
      <4>5. InArm' = InArm /\ Current' = Current
        BY <4>1 DEF InArm, Current
      <4> QED
        BY <4>1, <4>4, <4>5 DEF Missing
    <3>3. CASE ReturnRow
      <4>1. /\ InArm /\ DOMAIN row = Figures
            /\ results' = With(results, Current, row) /\ row' = EmptyMap
            /\ UNCHANGED selected_thresholds
        BY <3>3 DEF ReturnRow, Shape, Place, Rows
      <4>2. Current \notin DOMAIN results /\ DOMAIN row' = {}
        BY <4>1, CurrentIsNew DEF EmptyMap
      <4>3. /\ DOMAIN results' = DOMAIN results \cup {Current} /\ results'[Current] = row
            /\ \A a \in DOMAIN results : results'[a] = results[a]
        BY <4>1, <4>2 DEF With
      <4>4. ASSUME NEW a, NEW figure \in Figures
            PROVE  <<a, figure>> \in Missing' <=> <<a, figure>> \in Missing
        <5>1. CASE a = Current
          BY <4>1, <4>2, <4>3, <5>1 DEF Missing
        <5>2. CASE a # Current
          BY <4>1, <4>2, <4>3, <5>2 DEF Missing
        <5> QED
          BY <5>1, <5>2
      <4> QED
        BY <4>4 DEF Missing
    <3> QED
      BY <1>1, <1>3, <3>1, <3>2, <3>3, KindsOfSteps
  <2> QED
    BY <2>1, <2>2 DEF EachMissingForACrash
<1> QED
  BY <1>2, <1>3

----------------------------------------------------------------------------
(* What a record says                                                       *)

(* The inductive invariant, for any arms, files, changes and crashes.       *)
THEOREM RunInvKept == Spec => []RunInv
<1>1. Init => RunInv
  <2> SUFFICES ASSUME Init PROVE RunInv
    OBVIOUS
  <2>1. Missing = {} /\ crashes = 0 /\ replacements = 0 /\ pc = "idle"
    BY DEF Init, Missing
  <2>2. GraphShows /\ CensusTaken /\ EachMissingForACrash
    BY <2>1, FS_EmptySet DEF GraphShows, CensusTaken, EachMissingForACrash
  <2> QED
    BY <2>2, InitShape, InitPinned DEF RunInv
<1>2. RunInv /\ [Next]_vars => RunInv'
  BY ShapeStep, PinnedStep, GraphStep, CensusStep, MissingStep DEF RunInv
<1> QED
  BY <1>1, <1>2, PTL DEF Spec

(* A record has every arm, and nothing of any other.                        *)
LEMMA AllArmsThere ==
  ASSUME Shape, pc = "built"
  PROVE  /\ DOMAIN results = Arms /\ selected_thresholds \subseteq Arms /\ ~InArm
         /\ record = build
<1>1. arm = Len(_ARMS) + 1 /\ Len(_ARMS) \in Nat
  BY ArmsFacts DEF Shape, Place
<1>2. 1..(arm - 1) = 1..Len(_ARMS) /\ ~InArm
  BY <1>1 DEF InArm
<1>3. DOMAIN results = Arms
  BY <1>2, ArmsFacts DEF Shape, Accounts
<1> QED
  BY <1>2, <1>3 DEF Shape, Accounts

(* With the invariant, a record has a row of each arm and says what it      *)
(* lacks.                                                                   *)
LEMMA RecordIsWhole == RunInv => EveryArmHasARow
<1> SUFFICES ASSUME RunInv, pc = "built" PROVE EveryArmHasARow
  BY DEF EveryArmHasARow
<1> DEFINE ran == record.selected_thresholds
           missing == {pair \in ran \X Figures :
                         record.results[pair[1]][pair[2]] = Unavailable}
           sped == record.preparation_asymmetry
<1>1. /\ DOMAIN results = Arms /\ selected_thresholds \subseteq Arms /\ ~InArm
      /\ record = build
  BY AllArmsThere DEF RunInv
<1>2. /\ ran = selected_thresholds /\ record.results = results
      /\ sped.classical = _CLASSICAL_ARMS \cap Measured("preparation_cost")
      /\ sped.neural = _NEURAL_ARMS \cap Measured("preparation_cost")
      /\ record.environment.models = model_identities
      /\ record.environment.onnxruntime <=> model_identities # {}
      /\ record.environment.quantized_operators =
           IF Int8 \in model_identities THEN Graph ELSE Unavailable
      /\ record.int8_accuracy_divergence <=> {Fp32, Int8} \subseteq Measured("accuracy")
  BY <1>1 DEF build, _environment, _preparation_asymmetry, _int8_accuracy_divergence
<1>3. "accuracy" \in Figures /\ "preparation_cost" \in Figures
  BY MetricsFacts
<1>4. \A a \in Arms :
        /\ DOMAIN results[a] = Figures
        /\ a \in selected_thresholds <=> results[a]["accuracy"] # Unavailable
        /\ a \in model_identities <=> a \in selected_thresholds /\ Needs[a] # <<>>
        /\ a \notin selected_thresholds =>
             \A figure \in Figures : results[a][figure] = Unavailable
  BY <1>1 DEF RunInv, Shape, Accounts, RowOf
<1>5. \A a \in Arms : a \in Measured("preparation_cost") <=>
                        a \in ran /\ <<a, "preparation_cost">> \notin missing
  BY <1>1, <1>2, <1>3, <1>4 DEF Measured
<1>6. \A a \in Arms : a \in sped.classical \cup sped.neural <=>
                        a \in ran /\ <<a, "preparation_cost">> \notin missing
  BY <1>2, <1>5, KindsAssumption
<1>7. sped.neural # {} => record.environment.onnxruntime
  <2>1. ASSUME NEW a \in sped.neural PROVE a \in model_identities
    <3>1. a \in Arms \cap _NEURAL_ARMS
      BY <1>1, <1>2, <2>1 DEF Measured
    <3>2. a \in ran /\ Needs[a] # <<>>
      BY <1>2, <1>5, <2>1, <3>1, KindsAssumption
    <3> QED
      BY <1>2, <1>4, <3>1, <3>2
  <2> QED
    BY <1>2, <2>1
<1>8. record.int8_accuracy_divergence => {Fp32, Int8} \subseteq ran
  BY <1>1, <1>2, <1>4 DEF Measured
<1>9. record.environment.quantized_operators # Unavailable <=> Int8 \in ran
  <2>1. Graph # Unavailable
    BY Int8Facts, UnavailableAssumption DEF RunInv, Shape, Types
  <2> QED
    BY <1>2, <1>4, <2>1, Int8Assumption
<1>10. replacements = 0 => crashes = Cardinality(missing)
  <2>1. missing = Missing
    BY <1>1, <1>2 DEF Missing
  <2> QED
    BY <2>1 DEF RunInv, EachMissingForACrash
<1>11. DOMAIN record.results = Arms
  BY <1>1, <1>2
<1> HIDE DEF missing
<1>12. \A a \in Arms :
         /\ DOMAIN record.results[a] = Figures
         /\ a \in ran <=> record.results[a]["accuracy"] # Unavailable
         /\ a \in record.environment.models <=> a \in ran /\ Needs[a] # <<>>
         /\ a \notin ran =>
              \A figure \in Figures : record.results[a][figure] = Unavailable
  BY <1>2, <1>4
<1> QED
  BY <1>6, <1>7, <1>8, <1>9, <1>10, <1>11, <1>12 DEF EveryArmHasARow, missing

(* EveryArmHasARow, for any arms, files, changes and deaths of workers:     *)
(* RunAssembly.build is handed a row of every arm, the rest of the record   *)
(* agrees with it, and figures are lost to dead workers only, one each.     *)
THEOREM RowsComplete == Spec => []EveryArmHasARow
BY RunInvKept, RecordIsWhole, PTL

(* CensusSpeaksForTheRun, for any arms and files: one change of a file      *)
(* during a run is not enough to write a record of int8 figures which       *)
(* another graph gave (_quantized_operators runs after all measuring).      *)
THEOREM CensusSpeaks == Spec => []CensusSpeaksForTheRun
<1>1. RunInv => CensusSpeaksForTheRun
  <2> SUFFICES ASSUME RunInv, pc = "built", replacements <= 1,
                      NEW figure \in Figures,
                      record.results[Int8][figure] # Unavailable
               PROVE  record.results[Int8][figure][ModelOf(Int8)] # "unquantized"
    BY DEF CensusSpeaksForTheRun
  <2>1. DOMAIN results = Arms /\ record.results = results /\ Int8 \in Arms
    BY AllArmsThere, Int8Assumption DEF RunInv, build
  <2>2. /\ RowOf(Int8, results[Int8]) /\ DOMAIN results[Int8] = Figures
        /\ Int8 \in selected_thresholds <=> results[Int8]["accuracy"] # Unavailable
        /\ Int8 \in model_identities <=> Int8 \in selected_thresholds /\ Needs[Int8] # <<>>
    BY <2>1 DEF RunInv, Shape, Accounts
  <2>3. /\ results[Int8][figure] \in [FilesOf(Int8) -> Contents]
        /\ results[Int8]["accuracy"] # Unavailable
    BY <2>1, <2>2 DEF RowOf, Values
  <2>4. Graph # "unquantized"
    BY <2>2, <2>3, Int8Assumption DEF RunInv, CensusTaken
  <2>5. replacements \in {0, 1}
    BY BoundsAssumption DEF RunInv, Shape, Types
  <2>6. Unsuspected
    <3>1. CASE replacements = 0
      BY <3>1, PinnedUnsuspected DEF RunInv
    <3>2. CASE replacements = 1
      BY <2>4, <3>2, Int8Facts DEF RunInv, GraphShows
    <3> QED
      BY <2>5, <3>1, <3>2
  <2> QED
    BY <2>1, <2>2, <2>3, <2>6, Int8Facts DEF Unsuspected, QuantizedRow, Quantized
<1> QED
  BY <1>1, RunInvKept, PTL

----------------------------------------------------------------------------
(* A run of the store of records                                            *)

Tracked == [at |-> Seen, id |-> IF pc = "idle" THEN 0 ELSE 1]

RunMap == [r \in {"run"} |-> Tracked]

(* What a step of a run is to somebody who sees when measuring ends.        *)
LEMMA SeenSteps ==
  ASSUME Shape, [Next]_vars
  PROVE  \/ Tracked = [at |-> "idle", id |-> 0] /\ Tracked' = [at |-> "measuring", id |-> 1]
         \/ /\ Tracked = [at |-> "measuring", id |-> 1]
            /\ Tracked' \in [at : {"built", "aborted", "crashed"}, id : {1}]
         \/ Tracked' = Tracked
<1>1. CASE Start
  BY <1>1 DEF Start, Goto, Tracked, Seen
<1>2. CASE Build \/ Halting \/ CannotVerify
  <2>1. pc \in {"load", "probe", "measure", "census"} /\ pc' \in Ended
    BY <1>2, CannotVerifyChanges
       DEF Build, Halting, CannotLoad, WorkerHangs, CannotSize, Abort, CannotReadGraph,
           Goto, Ended
  <2> QED
    BY <2>1 DEF Tracked, Seen, Ended
<1>3. CASE Reading \/ Taking \/ CannotInitialise \/ ReturnRow
  <2>1. pc \in Walking \cup {"return"}
    BY <1>3, ReadingChanges, FigureTaken DEF CannotInitialise, ReturnRow, Goto, Walking
  <2>2. pc' \in Walking \cup {"return", "census"}
    BY <1>3, ReadingChanges, FigureTaken DEF CannotInitialise, ReturnRow, Goto, Walking, Take
  <2> QED
    BY <2>1, <2>2 DEF Tracked, Seen, Walking
<1>4. CASE \E file \in Files, contents \in Contents : Replace(file, contents)
  BY <1>4 DEF Replace, Tracked, Seen
<1>5. CASE UNCHANGED vars
  BY <1>5 DEF vars, Tracked, Seen
<1> QED
  BY <1>1, <1>2, <1>3, <1>4, <1>5, KindsOfSteps

(* Every run of RunRecordStore that this one is seen as is one it allows:   *)
(* it has a record at most once, and never after it gave up.                *)
THEOREM StoreImplemented == Spec => ImplementsStore
<1>1. Init => Store!Init
  BY DEF Init, Store!Init, Seen
<1>2. Shape /\ [Next]_vars => [Store!Next]_(Store!vars)
  <2> SUFFICES ASSUME Shape, [Next]_vars
               PROVE  Store!Next \/ UNCHANGED RunMap
    BY DEF Store!vars, RunMap, Tracked
  <2>1. CASE /\ Tracked = [at |-> "idle", id |-> 0]
             /\ Tracked' = [at |-> "measuring", id |-> 1]
    <3>1. Store!Start("run")
      BY <2>1 DEF Store!Start, Tracked
    <3> QED
      BY <3>1 DEF Store!Next, Store!RunStep
  <2>2. CASE /\ Tracked = [at |-> "measuring", id |-> 1]
             /\ Tracked' \in [at : {"built", "aborted", "crashed"}, id : {1}]
    <3>1. Store!Build("run") \/ Store!Abort("run") \/ Store!Crash("run")
      BY <2>2 DEF Store!Build, Store!Abort, Store!Crash, Store!MoveRun, Tracked
    <3> QED
      BY <3>1 DEF Store!Next, Store!RunStep
  <2>3. CASE Tracked' = Tracked
    BY <2>3 DEF RunMap
  <2> QED
    BY <2>1, <2>2, <2>3, SeenSteps
<1> QED
  BY <1>1, <1>2, ShapeKept, PTL DEF Spec, ImplementsStore
=============================================================================
