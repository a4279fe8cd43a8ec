------------------------ MODULE SpikePipelineProofs ------------------------
(***************************************************************************)
(* That no rerun, kill or commit to the model host makes a pass over the   *)
(* spike's steps speak of two revisions, and that a record is complete.    *)
(***************************************************************************)
EXTENDS SpikePipeline, TLAPS

(* The steps and their order, spelled out once.                             *)
LEMMA Positions ==
  /\ Steps = {"model", "export", "quantize", "signatures", "operators", "smoke",
              "measure", "record"}
  /\ Fragments = {"model", "export", "quantize", "signatures", "operators", "smoke",
                  "measure"}
  /\ Position["model"] = 1 /\ Position["export"] = 2 /\ Position["quantize"] = 3
  /\ Position["signatures"] = 4 /\ Position["operators"] = 5
  /\ Position["smoke"] = 6 /\ Position["measure"] = 7 /\ Position["record"] = 8
  /\ NoStep \notin Steps
  BY SentinelAssumption DEF Steps, Fragments, Position

(* The bounds are numbers from one up.                                      *)
LEMMA Bounds ==
  /\ MaxRevision \in Nat \ {0} /\ MaxSecond \in Nat \ {0} /\ MaxStarts \in Nat \ {0}
  /\ MaxOrphans \in Nat
  BY BoundsAssumption

(* Types, with what a step needs while it works and the phases it has.      *)
WorkInv ==
  /\ pc \notin {"idle", "read"} => Needs(step) \subseteq DOMAIN fragment
  /\ pc = "convert" => step \in {"export", "quantize"}
  /\ pc = "answer" => step = "measure"
  /\ step = "record" /\ pc \in {"write", "close"} => started_at # 0

Typed == TypeOK /\ WorkInv

(* The types hold at the start.                                             *)
LEMMA TypedInit == Init => Typed
<1> SUFFICES ASSUME Init PROVE Typed
  OBVIOUS
<1>1. head \in Revisions
  BY Bounds DEF Init, Revisions
<1>2. /\ graph \in [Arms -> Revisions \cup {CutOff}]
      /\ output \in [Arms -> Revisions \cup {CutOff}]
  BY DEF Init
<1>3. /\ clock \in 1..MaxSecond /\ starts \in 0..MaxStarts /\ started_at \in 0..MaxSecond
      /\ pass \in 0..8
  BY Bounds DEF Init
<1>4. WorkInv
  BY Positions DEF Init, WorkInv
<1>5. DOMAIN fragment = {} /\ DOMAIN records = {} /\ DOMAIN figures = {}
  BY DEF Init, EmptyMap
<1>6. TypeOK
  BY <1>1, <1>2, <1>3, <1>5 DEF Init, TypeOK
<1> QED
  BY <1>4, <1>6 DEF Typed

(* Every step keeps them.                                                   *)
LEMMA TypedNext == Typed /\ [Next]_vars => Typed'
<1> SUFFICES ASSUME Typed, [Next]_vars PROVE Typed'
  OBVIOUS
<1> USE Positions, Bounds DEF Typed, TypeOK, WorkInv, world, left_behind, files, locals
<1>1. CASE HostMoves
  BY <1>1 DEF HostMoves, Revisions, Needs
<1>2. CASE Tick
  BY <1>2 DEF Tick, Needs
<1>3. ASSUME NEW s \in Steps, Start(s) PROVE Typed'
  <2>1. Position[s] \in 1..8
    OBVIOUS
  <2>2. pass' \in 0..8 /\ pass' < Position[s]
    BY <1>3, <2>1 DEF Start
  <2>3. TypeOK'
    <3>1. starts' \in 0..MaxStarts
      BY <1>3 DEF Start
    <3>2. DOMAIN figures' = {} /\ revisions' = {} /\ started_at' = 0
      BY <1>3 DEF Start, EmptyMap
    <3>3. step' = s /\ pc' = "read" /\ crossed' = FALSE
      BY <1>3 DEF Start
    <3>4. UNCHANGED <<head, clock, orphans, exporters, spare, fragment, partial, graph,
                      output, records>>
      BY <1>3 DEF Start
    <3>5. step' \in Steps /\ pass' < Position[step'] /\ pc' # "idle"
      BY <2>2, <3>3
    <3>6. /\ revisions' \subseteq Revisions
          /\ DOMAIN figures' \subseteq Arms
          /\ \A arm \in DOMAIN figures' : figures'[arm] \in Revisions
          /\ started_at' \in 0..MaxSecond
      BY <3>2
    <3> HIDE DEF Typed, WorkInv, world, left_behind, files, locals
    <3> QED
      BY <2>2, <3>1, <3>3, <3>4, <3>5, <3>6 DEF Typed
  <2>4. WorkInv'
    BY <1>3 DEF Start
  <2> QED
    BY <2>3, <2>4
<1>4. CASE Die
  BY <1>4 DEF Die, Leave
<1>5. CASE Read
  BY <1>5 DEF Read, Needs
<1>6. CASE CannotRead
  BY <1>6 DEF CannotRead, Leave
<1>7. CASE OpenFragment
  BY <1>7 DEF OpenFragment, Without, Needs
<1>8. CASE CloseFragment
  BY <1>8 DEF CloseFragment, Extended, Leave
<1>9. CASE Resolve
  BY <1>9 DEF Resolve, Working, Found, Revisions, Needs
<1>10. CASE BeginExport
  BY <1>10 DEF BeginExport, BeginGraph, Working, Needs, Arms
<1>11. CASE EndExport
  BY <1>11 DEF EndExport, EndGraph, Found, Needs, Arms
<1>12. CASE BeginQuantize
  BY <1>12 DEF BeginQuantize, BeginGraph, Working, Needs, Arms
<1>13. CASE EndQuantize
  BY <1>13 DEF EndQuantize, EndGraph, Found, Needs, Arms
<1>14. ASSUME NEW s \in {"signatures", "operators", "smoke"}, Inspect(s) PROVE Typed'
  <2>1. {graph[arm] : arm \in Arms} \subseteq Revisions
    BY <1>14 DEF Inspect, CanLoad
  <2> QED
    BY <1>14, <2>1 DEF Inspect, Working, Found
<1>15. CASE CannotLoad
  BY <1>15 DEF CannotLoad, Leave
<1>16. CASE RunWorker
  BY <1>16 DEF RunWorker, Working, NextArm, Needs, Arms
<1>17. CASE WorkerFails
  BY <1>17 DEF WorkerFails, Leave
<1>18. CASE ReadOutput
  BY <1>18 DEF ReadOutput, Extended, NextArm, Needs, Arms
<1>19. CASE Summarize
  BY <1>19 DEF Summarize, Working, Found, Needs, Arms
<1>20. CASE Assemble
  BY <1>20 DEF Assemble, Working, Needs
<1>21. CASE OpenRecord
  BY <1>21 DEF OpenRecord, Without, Needs
<1>22. CASE CloseRecord
  BY <1>22 DEF CloseRecord, Extended, Leave
<1>23. CASE UNCHANGED vars
  BY <1>23 DEF vars, Needs
<1>24. CASE Abandon
  BY <1>24 DEF Abandon, Working, Leave, NextArm, Arms, Orphans
<1>25. ASSUME NEW o \in orphans, OrphanLoads(o) PROVE Typed'
  BY <1>25 DEF OrphanLoads, Needs, Orphans
<1>26. ASSUME NEW o \in orphans, OrphanAnswers(o) PROVE Typed'
  BY <1>26 DEF OrphanAnswers, Needs, Orphans
<1>27. ASSUME NEW o \in orphans, OrphanFails(o) PROVE Typed'
  BY <1>27 DEF OrphanFails, Needs
<1>28. CASE AbandonExport
  <2>1. fragment["model"] \subseteq Revisions
    BY <1>28 DEF AbandonExport, Needs
  <2>2. exporters' \subseteq Exporters
    BY <1>28, <2>1 DEF AbandonExport, Exporters
  <2>3. TypeOK'
    <3>1. spare' \in 0..MaxOrphans
      BY <1>28 DEF AbandonExport
    <3>2. step' = NoStep /\ pc' = "idle"
      BY <1>28 DEF AbandonExport, Leave
    <3>3. UNCHANGED <<head, clock, starts, orphans, crossed, pass, fragment, partial,
                      graph, output, records, revisions, figures, started_at>>
      BY <1>28 DEF AbandonExport, Leave
    <3> QED
      BY <2>2, <3>1, <3>2, <3>3
  <2>4. WorkInv'
    BY <1>28 DEF AbandonExport, Leave
  <2> QED
    BY <2>3, <2>4
<1>29. ASSUME NEW e \in exporters, ExporterWrites(e) PROVE Typed'
  <2>1. exporters' \subseteq Exporters
    BY <1>29 DEF ExporterWrites, Exporters
  <2> QED
    BY <1>29, <2>1 DEF ExporterWrites, Overwrite, Needs, Arms
<1>30. ASSUME NEW e \in exporters, ExporterEnds(e) PROVE Typed'
  <2>1. e.revision \in Revisions
    BY DEF Exporters
  <2> QED
    BY <1>30, <2>1 DEF ExporterEnds, Overwrite, Needs, Arms
<1>31. ASSUME NEW e \in exporters, ExporterFails(e) PROVE Typed'
  BY <1>31 DEF ExporterFails, Needs
<1> QED
  BY <1>1, <1>2, <1>3, <1>4, <1>5, <1>6, <1>7, <1>8, <1>9, <1>10, <1>11, <1>12,
     <1>13, <1>14, <1>15, <1>16, <1>17, <1>18, <1>19, <1>20, <1>21, <1>22, <1>23,
     <1>24, <1>25, <1>26, <1>27, <1>28, <1>29, <1>30, <1>31
     DEF Next, CompareSignatures, CountOperators, EmbedSmokeSet

\* Whatever fails, and whatever is answered late, every step leaves values
\* of the kinds the scripts mean (run_pipeline.py).
THEOREM TypeCorrect == Spec => []TypeOK
<1>1. Typed => TypeOK
  BY DEF Typed
<1> QED
  BY TypedInit, TypedNext, <1>1, PTL DEF Spec

(* A record is assembled of all seven fragments, or not at all.             *)
THEOREM CompleteRecords == Spec => []RecordsAreComplete
<1>1. Init => RecordsAreComplete
  BY DEF Init, RecordsAreComplete, EmptyMap
<1>2. Typed /\ RecordsAreComplete /\ [Next]_vars => RecordsAreComplete'
  <2> SUFFICES ASSUME Typed, RecordsAreComplete, [Next]_vars PROVE RecordsAreComplete'
    OBVIOUS
  <2>1. CASE OpenRecord
    BY <2>1 DEF OpenRecord, Without, RecordsAreComplete
  <2>2. CASE CloseRecord
    <3>1. DOMAIN fragment = Fragments
      BY <2>2, Positions DEF CloseRecord, Typed, TypeOK, WorkInv, Needs
    <3> QED
      BY <2>2, <3>1 DEF CloseRecord, Extended, RecordsAreComplete
  <2>3. CASE UNCHANGED records
    BY <2>3 DEF RecordsAreComplete
  <2> QED
    BY <2>1, <2>2, <2>3 DEF Next, vars, world, left_behind, files, locals, HostMoves, Tick, Start, Die,
       Read, CannotRead, OpenFragment, CloseFragment, Resolve, BeginExport, EndExport,
       BeginQuantize, EndQuantize, BeginGraph, EndGraph, CompareSignatures,
       CountOperators, EmbedSmokeSet, Inspect, CannotLoad, RunWorker, WorkerFails,
       ReadOutput, Summarize, Assemble, Abandon, OrphanLoads, OrphanAnswers, OrphanFails,
       AbandonExport, ExporterWrites, ExporterEnds, ExporterFails, Overwrite
<1> QED
  BY TypedInit, TypedNext, <1>1, <1>2, PTL DEF Spec

(* Between a worker's end and the reading of its answer nothing but an      *)
(* exporter of another run changes the graph it is about, and nothing but a *)
(* worker of another run the answer.                                        *)
FreshInv ==
  /\ MeasurementsAreFresh
  /\ pc = "answer" /\ ~crossed => output[NextArm] = graph[NextArm]

(* Every step keeps what is fresh so.                                       *)
LEMMA FreshNext == Typed /\ FreshInv /\ [Next]_vars => FreshInv'
<1> SUFFICES ASSUME Typed, FreshInv, [Next]_vars PROVE FreshInv'
  OBVIOUS
<1> USE Positions DEF Typed, TypeOK, WorkInv, FreshInv, MeasurementsAreFresh, world,
        left_behind, files, locals
<1>1. CASE pc' = "idle"
  <2>1. step' = NoStep
    BY <1>1, TypedNext
  <2> QED
    BY <1>1, <2>1
<1>2. ASSUME NEW s \in Steps, Start(s) PROVE FreshInv'
  BY <1>2 DEF Start, EmptyMap
<1>3. CASE RunWorker
  BY <1>3 DEF RunWorker, Working, NextArm, Arms
<1>4. CASE ReadOutput
  BY <1>4 DEF ReadOutput, Extended, NextArm, Arms
<1>5. CASE EndExport \/ EndQuantize
  BY <1>5 DEF EndExport, EndQuantize, EndGraph, Found
<1>6. CASE BeginExport \/ BeginQuantize
  BY <1>6 DEF BeginExport, BeginQuantize, BeginGraph, Working
<1>7. CASE /\ UNCHANGED <<step, graph, output, figures, crossed>>
           /\ pc' = "answer" => pc = "answer"
  BY <1>7 DEF NextArm
<1>8. ASSUME NEW o \in orphans, OrphanAnswers(o) PROVE FreshInv'
  BY <1>8 DEF OrphanAnswers, NextArm, Arms, Orphans
<1>9. ASSUME NEW left \in Revisions \cup {CutOff}, Overwrite(left), UNCHANGED output
      PROVE FreshInv'
  BY <1>9 DEF Overwrite
<1>10. ASSUME NEW e \in exporters, ExporterWrites(e) \/ ExporterEnds(e) PROVE FreshInv'
  <2>1. e.revision \in Revisions
    BY DEF Exporters
  <2> QED
    BY <1>9, <1>10, <2>1 DEF ExporterWrites, ExporterEnds, Overwrite
<1> QED
  BY <1>1, <1>2, <1>3, <1>4, <1>5, <1>6, <1>7, <1>8, <1>10
     DEF Next, vars, AbandonExport, ExporterFails, HostMoves, Tick, Die, Leave, Found, Read, CannotRead, OpenFragment,
         CloseFragment, Resolve, CompareSignatures, CountOperators, EmbedSmokeSet,
         Inspect, CannotLoad, WorkerFails, Summarize, Assemble, OpenRecord, CloseRecord,
         Abandon, OrphanLoads, OrphanFails

(* A worker that fails ends step 7, so no old answer is read in its place;  *)
(* runs of it that another run's process has crossed are excluded.          *)
THEOREM FreshMeasurements == Spec => []MeasurementsAreFresh
<1>1. Init => FreshInv
  BY Positions DEF Init, FreshInv, MeasurementsAreFresh
<1>2. FreshInv => MeasurementsAreFresh
  BY DEF FreshInv
<1> QED
  BY TypedInit, TypedNext, FreshNext, <1>1, <1>2, PTL DEF Spec

(* What is on disk, and what the running step knows, agrees with the        *)
(* revision of the pass so far.                                             *)
Finished(s) == step = s /\ pc \in {"write", "close"}

Agrees(revision) ==
  /\ fragment["model"] = {revision}
  /\ \A s \in Fragments : Position[s] <= pass =>
       s \in DOMAIN fragment /\ fragment[s] \subseteq {revision}
  /\ pass >= 2 \/ (Finished("export") /\ ~crossed) => graph["fp32"] = revision
  /\ pass = 2 /\ step = "quantize" /\ pc = "convert" => revisions \subseteq {revision}
  /\ pass >= 3 \/ (pass = 2 /\ Finished("quantize")) => graph["int8"] = revision
  /\ step \in Fragments /\ Finished(step) /\ Position[step] = pass + 1 /\ ~crossed
       => revisions \subseteq {revision}

PassInv ==
  /\ pass > 0 => \E revision \in Revisions : Agrees(revision)
  /\ pass = 0 /\ Finished("model")
       => \E revision \in Revisions : revisions = {revision}

(* Every step keeps what a pass rests on.                                   *)
LEMMA PassNext == Typed /\ FreshInv /\ PassInv /\ [Next]_vars => PassInv'
<1> SUFFICES ASSUME Typed, FreshInv, PassInv, [Next]_vars PROVE PassInv'
  OBVIOUS
<1> USE Positions DEF Typed, TypeOK, WorkInv, Finished, world, left_behind, files, locals
\* Nothing is finished that was not.
<1>1. CASE /\ UNCHANGED <<fragment, graph, pass>> /\ (crossed => crossed')
           /\ pc' \notin {"convert", "write", "close"} \/ step' = "record"
                \/ UNCHANGED <<step, pc, revisions>>
  BY <1>1 DEF PassInv, Agrees
\* A pass may be cut short,
<1>2. ASSUME NEW s \in Steps, Start(s) PROVE PassInv'
  <2>1. pass' \in 0..8 /\ pass' <= pass
    BY <1>2 DEF Start
  <2>2. ASSUME NEW revision \in Revisions, Agrees(revision), pass' > 0
        PROVE Agrees(revision)'
    BY <1>2, <2>1, <2>2 DEF Start, Agrees
  <2> QED
    BY <1>2, <2>1, <2>2 DEF Start, PassInv
\* and is carried on only by a step that read what the pass has left.
<1>3. CASE Resolve
  <2>1. pass = 0
    BY <1>3 DEF Resolve, Working
  <2>2. PICK revision \in 1..head : revisions' = {revision}
    BY <1>3 DEF Resolve, Found
  <2>3. revision \in Revisions
    BY <2>2, Bounds DEF Revisions
  <2> QED
    BY <1>3, <2>1, <2>2, <2>3 DEF Resolve, PassInv
<1>4. CASE BeginExport \/ BeginQuantize
  <2>1. ASSUME NEW revision \in Revisions, Agrees(revision), pass > 0
        PROVE Agrees(revision)'
    BY <1>4, <2>1 DEF BeginExport, BeginQuantize, BeginGraph, Working, Agrees, Arms
  <2> QED
    BY <1>4, <2>1 DEF BeginExport, BeginQuantize, BeginGraph, Working, PassInv
<1>5. CASE EndExport
  <2>1. ASSUME NEW revision \in Revisions, Agrees(revision), pass > 0
        PROVE Agrees(revision)'
    BY <1>5, <2>1 DEF EndExport, EndGraph, Found, Agrees, Arms
  <2> QED
    BY <1>5, <2>1 DEF EndExport, EndGraph, Found, PassInv
<1>6. CASE EndQuantize
  <2>1. ASSUME NEW revision \in Revisions, Agrees(revision), pass > 0
        PROVE Agrees(revision)'
    BY <1>6, <2>1 DEF EndQuantize, EndGraph, Found, Agrees, Arms
  <2> QED
    BY <1>6, <2>1 DEF EndQuantize, EndGraph, Found, PassInv
<1>7. ASSUME NEW s \in {"signatures", "operators", "smoke"}, Inspect(s) PROVE PassInv'
  <2>1. ASSUME NEW revision \in Revisions, Agrees(revision), pass > 0
        PROVE Agrees(revision)'
    BY <1>7, <2>1 DEF Inspect, Working, Found, Agrees, Arms
  <2> QED
    BY <1>7, <2>1 DEF Inspect, Working, Found, PassInv
<1>8. CASE Summarize
  <2>1. ASSUME NEW revision \in Revisions, Agrees(revision), pass > 0
        PROVE Agrees(revision)'
    BY <1>8, <2>1 DEF Summarize, Working, Found, Agrees, Arms, FreshInv, MeasurementsAreFresh
  <2> QED
    BY <1>8, <2>1 DEF Summarize, Working, Found, PassInv
<1>9. CASE OpenFragment
  <2>1. ASSUME NEW revision \in Revisions, Agrees(revision), pass > 0
        PROVE Agrees(revision)'
    BY <1>9, <2>1 DEF OpenFragment, Without, Agrees
  <2> QED
    BY <1>9, <2>1 DEF OpenFragment, PassInv
<1>10. CASE CloseFragment
  <2>1. ASSUME NEW revision \in Revisions, Agrees(revision), pass > 0
        PROVE Agrees(revision)'
    BY <1>10, <2>1 DEF CloseFragment, Extended, Leave, Agrees
  <2>2. ASSUME NEW revision \in Revisions, revisions = {revision}, pass = 0,
               step = "model"
        PROVE Agrees(revision)'
    BY <1>10, <2>2 DEF CloseFragment, Extended, Leave, Agrees
  <2>3. CASE pass > 0
    BY <1>10, <2>1, <2>3 DEF CloseFragment, Leave, PassInv
  <2>4. CASE pass = 0 /\ step = "model"
    BY <1>10, <2>2, <2>4 DEF CloseFragment, Leave, PassInv
  <2>5. CASE pass = 0 /\ step # "model"
    BY <1>10, <2>5 DEF CloseFragment, Leave, PassInv
  <2> QED
    BY <2>3, <2>4, <2>5
<1>11. CASE CloseRecord
  <2>1. ASSUME NEW revision \in Revisions, Agrees(revision), pass > 0
        PROVE Agrees(revision)'
    BY <1>11, <2>1 DEF CloseRecord, Leave, Agrees
  <2> QED
    BY <1>11, <2>1 DEF CloseRecord, Leave, PassInv
\* What an exporter overwrites is no longer counted on.
<1>12. ASSUME NEW left \in Revisions \cup {CutOff}, Overwrite(left) PROVE PassInv'
  <2>1. pass' <= 1 /\ pass' <= pass /\ (pass' > 0 => pass > 0) /\ (pass' = 0 => pass = 0)
    BY <1>12 DEF Overwrite
  <2>2. ASSUME NEW revision \in Revisions, Agrees(revision), pass' > 0
        PROVE Agrees(revision)'
    <3>1. pass' = 1 /\ pass > 0 /\ UNCHANGED <<fragment, step, pc, revisions>>
      BY <1>12, <2>1, <2>2 DEF Overwrite
    <3>2. step # "model"
      BY <3>1
    <3>3. Finished("export") => crossed'
      BY <1>12 DEF Overwrite
    <3>4. \A s \in Fragments : Position[s] <= pass' => s = "model"
      BY <3>1
    <3>5. step \in Fragments /\ Position[step] = 2 => step = "export"
      OBVIOUS
    <3> QED
      BY <2>2, <3>1, <3>2, <3>3, <3>4, <3>5 DEF Agrees
  <2> QED
    BY <1>12, <2>1, <2>2 DEF Overwrite, PassInv
<1>13. ASSUME NEW e \in exporters, ExporterWrites(e) \/ ExporterEnds(e) PROVE PassInv'
  <2>1. e.revision \in Revisions
    BY DEF Exporters
  <2> QED
    BY <1>12, <1>13, <2>1 DEF ExporterWrites, ExporterEnds
<1> QED
  BY <1>1, <1>2, <1>3, <1>4, <1>5, <1>6, <1>7, <1>8, <1>9, <1>10, <1>11, <1>13
     DEF Next, vars, AbandonExport, ExporterFails, HostMoves, Tick, Die, Leave, Read, CannotRead, CannotLoad, RunWorker,
         Working, WorkerFails, ReadOutput, Assemble, OpenRecord, CompareSignatures,
         CountOperators, EmbedSmokeSet, Abandon, OrphanLoads, OrphanAnswers, OrphanFails

(* Whatever is rerun, killed or retried, and however often the model host   *)
(* moves on: steps completed each after the one before are of one revision, *)
(* as long as no process of another run has written over what they left.    *)
THEOREM OneModel == Spec => []PassIsOfOneModel
<1>1. Init => FreshInv /\ PassInv
  BY Positions DEF Init, FreshInv, MeasurementsAreFresh, PassInv, Finished
<1>2. Typed /\ PassInv => PassIsOfOneModel
  BY DEF Typed, TypeOK, PassInv, Agrees, PassIsOfOneModel, Arms
<1> QED
  BY TypedInit, TypedNext, FreshNext, PassNext, <1>1, <1>2, PTL DEF Spec
================================================================================
