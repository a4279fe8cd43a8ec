--------------------------- MODULE SpikePipeline ---------------------------
(***************************************************************************)
(* The quantization spike (src/spikes/quantization/): eight commands that  *)
(* a user runs in order, and reruns as needed.  Each reads the fragments   *)
(* of earlier ones from the cache directory and leaves its own there; the  *)
(* last one puts all of them into a record.  Nothing ties a fragment to    *)
(* the files it speaks of: fragments and graphs are overwritten in place,  *)
(* and a command may be killed between any two writes.  The process that   *)
(* step 2 or step 7 has started does not die with its command: it runs on, *)
(* and writes its graph or its answer when it is done.                     *)
(*                                                                         *)
(* What a fragment, a graph or a figure says is modelled by the revisions  *)
(* of the model that it comes from.                                        *)
(***************************************************************************)
EXTENDS Integers, FiniteSets

CONSTANTS
  MaxRevision,   \* bounds: how often the model host is updated,
  MaxSecond,     \* how long all this takes,
  MaxStarts,     \* how many commands are run,
  MaxOrphans,    \* how many processes outlive their command
  CutOff,        \* a file that is not there, or not all of it
  NoStep

ASSUME BoundsAssumption ==
  {MaxRevision, MaxSecond, MaxStarts} \subseteq Nat \ {0} /\ MaxOrphans \in Nat

Position == [model |-> 1, export |-> 2, quantize |-> 3, signatures |-> 4,
             operators |-> 5, smoke |-> 6, measure |-> 7, record |-> 8]

Steps == DOMAIN Position

Fragments == Steps \ {"record"}

Arms == {"fp32", "int8"}

Revisions == 1..MaxRevision

Orphans == [arm : Arms, graph : Revisions \cup {CutOff}]

Exporters == [revision : Revisions, pc : {"work", "convert"}]

ASSUME SentinelAssumption == CutOff \notin Revisions /\ NoStep \notin Steps

VARIABLES
  head,        \* the model host's newest revision
  clock,
  fragment,    \* of each step that has left a whole one
  partial,     \* steps whose fragment is cut off
  graph,       \* arm -> the revision its ONNX file was made from
  output,      \* arm -> the revision the worker's answer is about
  records,     \* second -> the record named after it, fragment by fragment
  step, pc,    \* the command that runs, and where it is
  revisions,   \* what it found out
  figures,     \* measure: arm -> what it read of its worker
  started_at,  \* record: the second in the file's name
  starts,
  orphans,     \* workers without a command, and the graph each has loaded
  exporters,   \* exporters without a command: of what, and whether under way
  spare,       \* how many more of both there may be
  crossed,     \* has one of them written, under the command that runs, what
               \* that command writes or has measured?
  pass         \* steps 1..pass are done, each after the one before, and none
               \* of them has written the fp32 graph since

vars == <<head, clock, fragment, partial, graph, output, records, step, pc,
          revisions, figures, started_at, starts, orphans, exporters, spare, crossed,
          pass>>

world == <<head, clock, starts, orphans, exporters, spare, crossed>>
left_behind == <<orphans, exporters, spare>>
files == <<fragment, partial, graph, output, records>>
locals == <<revisions, figures, started_at>>

Extended(f, x, value) == [y \in DOMAIN f \cup {x} |-> IF y = x THEN value ELSE f[y]]

Without(f, x) == [y \in DOMAIN f \ {x} |-> f[y]]

EmptyMap == [x \in {} |-> {}]

Init ==
  /\ head = 1 /\ clock = 1 /\ starts = 0 /\ pass = 0
  /\ orphans = {} /\ exporters = {} /\ spare \in 0..MaxOrphans /\ crossed = FALSE
  /\ fragment = EmptyMap /\ partial = {} /\ records = EmptyMap
  /\ graph = [arm \in Arms |-> CutOff] /\ output = [arm \in Arms |-> CutOff]
  /\ step = NoStep /\ pc = "idle"
  /\ revisions = {} /\ figures = EmptyMap /\ started_at = 0

----------------------------------------------------------------------------
(* The world *)

\* The model's repository gets a commit.
HostMoves ==
  /\ head < MaxRevision /\ head' = head + 1
  /\ UNCHANGED <<clock, starts, left_behind, crossed, pass, step, pc, files, locals>>

Tick ==
  /\ clock < MaxSecond /\ clock' = clock + 1
  /\ UNCHANGED <<head, starts, left_behind, crossed, pass, step, pc, files, locals>>

\* Any command, at any time; what follows it in order is then to be redone.
Start(s) ==
  /\ pc = "idle" /\ starts < MaxStarts
  /\ starts' = starts + 1
  /\ step' = s /\ pc' = "read"
  /\ revisions' = {} /\ figures' = EmptyMap /\ started_at' = 0
  /\ pass' = IF Position[s] <= pass THEN Position[s] - 1 ELSE pass
  /\ crossed' = FALSE
  /\ UNCHANGED <<head, clock, left_behind, files>>

Leave == pc' = "idle" /\ step' = NoStep /\ UNCHANGED locals

\* Killed along with what it has started, or ended by an exception of a
\* library, a tool or the network.
Die ==
  /\ pc # "idle" /\ Leave
  /\ UNCHANGED <<world, pass, files>>

----------------------------------------------------------------------------
(* Fragments *)

Needs(s) ==
  CASE s = "model" -> {}
    [] s = "export" -> {"model"}
    [] s = "quantize" -> {"export"}
    [] s = "record" -> Fragments
    [] OTHER -> {"quantize"}

\* read_fragment
Read ==
  /\ pc = "read" /\ Needs(step) \subseteq DOMAIN fragment
  /\ pc' = "work"
  /\ UNCHANGED <<world, pass, step, files, locals>>

\* Mutant: what is missing is left out of the record.
CannotRead_defaulting ==
  /\ step = "record" /\ pc = "read" /\ ~(Needs(step) \subseteq DOMAIN fragment)
  /\ pc' = "work"
  /\ UNCHANGED <<world, pass, step, files, locals>>

\* FileNotFoundError, or JSONDecodeError for one that is cut off.
CannotRead ==
  /\ pc = "read" /\ ~(Needs(step) \subseteq DOMAIN fragment)
  /\ Leave
  /\ UNCHANGED <<world, pass, files>>

Found(found) ==
  /\ revisions' = found /\ pc' = "write"
  /\ UNCHANGED <<step, figures, started_at>>

\* write_text empties the file,
OpenFragment ==
  /\ pc = "write" /\ step \in Fragments
  /\ fragment' = Without(fragment, step) /\ partial' = partial \cup {step}
  /\ pc' = "close"
  /\ UNCHANGED <<world, pass, step, graph, output, records, locals>>

\* and then writes it.
CloseFragment ==
  /\ pc = "close" /\ step \in Fragments
  /\ fragment' = Extended(fragment, step, revisions) /\ partial' = partial \ {step}
  /\ pass' = IF Position[step] = pass + 1 /\ ~crossed THEN pass + 1 ELSE pass
  /\ Leave
  /\ UNCHANGED <<world, graph, output, records>>

----------------------------------------------------------------------------
(* The steps *)

Working(s) == step = s /\ pc = "work"

\* Step 1: the revision asked for, or the newest; its snapshot, once fetched,
\* is in a directory of its own.
Resolve ==
  /\ Working("model")
  /\ \E revision \in 1..head : Found({revision})
  /\ UNCHANGED <<world, pass, files>>

BeginGraph(arm) ==
  /\ graph' = [graph EXCEPT ![arm] = CutOff]
  /\ pc' = "convert"
  /\ UNCHANGED <<world, pass, step, fragment, partial, output, records, figures,
                 started_at>>

EndGraph(arm, revision) ==
  /\ graph' = [graph EXCEPT ![arm] = revision]
  /\ UNCHANGED <<world, pass, fragment, partial, output, records>>

\* Step 2, by a process of its own.
BeginExport == Working("export") /\ BeginGraph("fp32") /\ UNCHANGED revisions

\* Mutant: exported by the model's name, which the host resolves.
EndExport_by_name ==
  /\ step = "export" /\ pc = "convert"
  /\ EndGraph("fp32", head) /\ Found(fragment["model"])

\* Of the snapshot that step 1 names, whose path is in the command recorded.
\* Of two exporters the last to write has the file, or neither has.
EndExport ==
  /\ step = "export" /\ pc = "convert"
  /\ \E left \in fragment["model"] \cup IF crossed THEN {graph["fp32"], CutOff} ELSE {} :
       EndGraph("fp32", left)
  /\ Found(fragment["model"])

\* Only the command is killed, before its exporter has opened the file or
\* after: the exporter runs on.
AbandonExport ==
  /\ step = "export" /\ pc \in {"work", "convert"} /\ spare > 0
  /\ spare' = spare - 1
  /\ \E revision \in fragment["model"] :
       exporters' = exporters \cup {[revision |-> revision, pc |-> pc]}
  /\ Leave
  /\ UNCHANGED <<head, clock, starts, orphans, crossed, pass, files>>

\* Steps 2 to 8 are to be redone, one of them under way included.
Overwrite(left) ==
  /\ graph' = [graph EXCEPT !["fp32"] = left]
  /\ pass' = IF pass > 1 THEN 1 ELSE pass
  /\ crossed' = (crossed \/ step = "measure" \/ (step = "export" /\ pc # "read" /\ pc # "work"))
  /\ UNCHANGED <<head, clock, starts, orphans, spare, step, pc, fragment, partial,
                 output, records, locals>>

\* It empties the file, or writes some more of it;
ExporterWrites(e) ==
  /\ exporters' = (exporters \ {e}) \cup {[e EXCEPT !.pc = "convert"]}
  /\ Overwrite(CutOff)

\* the last of it,
ExporterEnds(e) ==
  /\ e.pc = "convert" /\ exporters' = exporters \ {e}
  /\ Overwrite(e.revision)

\* or nothing more.
ExporterFails(e) ==
  /\ exporters' = exporters \ {e}
  /\ UNCHANGED <<head, clock, starts, orphans, spare, crossed, pass, step, pc, files, locals>>

\* Step 3
BeginQuantize ==
  /\ Working("quantize") /\ graph["fp32"] # CutOff
  /\ BeginGraph("int8") /\ revisions' = {graph["fp32"]}

\* Of what it has read.  The fragment has the paths only.
EndQuantize ==
  /\ step = "quantize" /\ pc = "convert"
  /\ \E revision \in revisions : EndGraph("int8", revision)
  /\ Found({})

CanLoad == \A arm \in Arms : graph[arm] # CutOff

Inspect(s) ==
  /\ Working(s) /\ CanLoad
  /\ Found({graph[arm] : arm \in Arms})
  /\ UNCHANGED <<world, pass, files>>

\* Step 4
CompareSignatures == Inspect("signatures")

\* Step 5
CountOperators == Inspect("operators")

\* Step 6
EmbedSmokeSet == Inspect("smoke")

CannotLoad ==
  /\ \/ Working("quantize") /\ graph["fp32"] = CutOff
     \/ \E s \in {"signatures", "operators", "smoke"} : Working(s) /\ ~CanLoad
  /\ Leave
  /\ UNCHANGED <<world, pass, files>>

\* Step 7: fp32 first, a worker for each.
NextArm == IF "fp32" \in DOMAIN figures THEN "int8" ELSE "fp32"

RunWorker ==
  /\ Working("measure") /\ DOMAIN figures # Arms
  /\ graph[NextArm] # CutOff
  /\ output' = [output EXCEPT ![NextArm] = graph[NextArm]]
  /\ pc' = "answer"
  /\ UNCHANGED <<world, pass, step, fragment, partial, graph, records, locals>>

\* Mutant: subprocess.run without check=True.
WorkerFails_unchecked ==
  /\ Working("measure") /\ DOMAIN figures # Arms
  /\ pc' = "answer"
  /\ UNCHANGED <<world, pass, step, files, locals>>

\* CalledProcessError: also whenever there is no graph to load; the answer
\* may have been written by then, or part of it.
WorkerFails ==
  /\ Working("measure") /\ DOMAIN figures # Arms
  /\ \E left \in {output[NextArm], CutOff, graph[NextArm]} :
       output' = [output EXCEPT ![NextArm] = left]
  /\ Leave
  /\ UNCHANGED <<world, pass, fragment, partial, graph, records>>

\* Only the command is killed: its worker runs on.
Abandon ==
  /\ Working("measure") /\ DOMAIN figures # Arms /\ spare > 0
  /\ spare' = spare - 1
  /\ orphans' = orphans \cup {[arm |-> NextArm, graph |-> CutOff]}
  /\ Leave
  /\ UNCHANGED <<head, clock, starts, exporters, crossed, pass, files>>

OrphanLoads(o) ==
  /\ o.graph = CutOff /\ graph[o.arm] # CutOff
  /\ orphans' = (orphans \ {o}) \cup {[o EXCEPT !.graph = graph[o.arm]]}
  /\ UNCHANGED <<head, clock, starts, exporters, spare, crossed, pass, step, pc, files,
                 locals>>

\* It writes its answer, of which a kill may leave a part.
OrphanAnswers(o) ==
  /\ o.graph # CutOff
  /\ \E left \in {o.graph, CutOff} : output' = [output EXCEPT ![o.arm] = left]
  /\ orphans' = orphans \ {o}
  /\ crossed' = (crossed \/ (pc = "answer" /\ NextArm = o.arm))
  /\ UNCHANGED <<head, clock, starts, exporters, spare, pass, step, pc, fragment,
                 partial, graph, records, locals>>

OrphanFails(o) ==
  /\ orphans' = orphans \ {o}
  /\ UNCHANGED <<head, clock, starts, exporters, spare, crossed, pass, step, pc, files,
                 locals>>

\* What is there by now, whoever wrote it.
ReadOutput ==
  /\ step = "measure" /\ pc = "answer" /\ output[NextArm] # CutOff
  /\ figures' = Extended(figures, NextArm, output[NextArm])
  /\ pc' = "work"
  /\ UNCHANGED <<world, pass, step, files, revisions, started_at>>

Summarize ==
  /\ Working("measure") /\ DOMAIN figures = Arms
  /\ Found({figures[arm] : arm \in Arms})
  /\ UNCHANGED <<world, pass, files>>

\* Step 8
Assemble ==
  /\ Working("record")
  /\ started_at' = clock /\ pc' = "write"
  /\ UNCHANGED <<world, pass, step, files, revisions, figures>>

\* write_text, whether or not there is a file of that name.
OpenRecord ==
  /\ step = "record" /\ pc = "write"
  /\ records' = Without(records, started_at) /\ pc' = "close"
  /\ UNCHANGED <<world, pass, step, fragment, partial, graph, output, locals>>

CloseRecord ==
  /\ step = "record" /\ pc = "close"
  /\ records' = Extended(records, started_at, fragment)
  /\ pass' = IF pass = 7 THEN 8 ELSE pass
  /\ Leave
  /\ UNCHANGED <<world, fragment, partial, graph, output>>

Next ==
  \/ HostMoves \/ Tick \/ \E s \in Steps : Start(s)
  \/ Die
  \/ Read \/ CannotRead \/ OpenFragment \/ CloseFragment
  \/ Resolve \/ BeginExport \/ EndExport \/ BeginQuantize \/ EndQuantize
  \/ CompareSignatures \/ CountOperators \/ EmbedSmokeSet \/ CannotLoad
  \/ RunWorker \/ WorkerFails \/ ReadOutput \/ Summarize
  \/ AbandonExport
  \/ \E e \in exporters : ExporterWrites(e)
  \/ \E e \in exporters : ExporterEnds(e)
  \/ \E e \in exporters : ExporterFails(e)
  \/ Abandon
  \/ \E o \in orphans : OrphanLoads(o)
  \/ \E o \in orphans : OrphanAnswers(o)
  \/ \E o \in orphans : OrphanFails(o)
  \/ Assemble \/ OpenRecord \/ CloseRecord

Spec == Init /\ [][Next]_vars

----------------------------------------------------------------------------

(* Types; a fragment is whole or cut off, and a step that runs is not done. *)
TypeOK ==
  /\ head \in Revisions /\ clock \in 1..MaxSecond /\ starts \in 0..MaxStarts
  /\ pass \in 0..8
  /\ DOMAIN fragment \subseteq Fragments /\ partial \subseteq Fragments \ DOMAIN fragment
  /\ \A s \in DOMAIN fragment : fragment[s] \subseteq Revisions
  /\ graph \in [Arms -> Revisions \cup {CutOff}]
  /\ output \in [Arms -> Revisions \cup {CutOff}]
  /\ DOMAIN records \subseteq 1..MaxSecond
  /\ pc \in {"idle", "read", "work", "convert", "answer", "write", "close"}
  /\ IF pc = "idle" THEN step = NoStep
     ELSE step \in Steps /\ pass < Position[step]
  /\ revisions \subseteq Revisions
  /\ DOMAIN figures \subseteq Arms /\ \A arm \in DOMAIN figures : figures[arm] \in Revisions
  /\ started_at \in 0..MaxSecond
  /\ orphans \subseteq Orphans
  /\ exporters \subseteq Exporters
  /\ spare \in 0..MaxOrphans /\ crossed \in BOOLEAN

(* "A missing prerequisite step is a reason to stop, not to invent a        *)
(* default" (cli_common.read_fragment): a record that can be read has a     *)
(* whole fragment of each of the seven steps, whatever was killed or left   *)
(* out before.                                                              *)
RecordsAreComplete ==
  \A second \in DOMAIN records : DOMAIN records[second] = Fragments

(* No worker's answer from an earlier run of step 7, whose files stay in    *)
(* the cache directory, is ever taken for one of this run: a figure is of   *)
(* the graph that is there now.  Excluded is what a process that outlived   *)
(* its command can do to a run of step 7 and nothing in the code detects: a *)
(* worker that answers between the end of this run's worker and the reading *)
(* of its answer, and an exporter that writes the graph while step 7 runs.  *)
(* At any other moment neither does harm.                                   *)
MeasurementsAreFresh ==
  step = "measure" /\ ~crossed => \A arm \in DOMAIN figures : figures[arm] = graph[arm]

(* The checksum is there "so the record names exactly what was measured"    *)
(* (model.sha256_file), which "every step is independently re-runnable"     *)
(* (README.md) puts at risk: while each of steps 1 to n was last completed  *)
(* after the one before, whatever was killed, retried or committed to the   *)
(* model host in between, all they left is of the one revision that step 1  *)
(* names; after all seven, so is the record that step 8 assembles.  A pass  *)
(* counts for that only as long as no exporter that outlived its command    *)
(* has written the fp32 graph since step 2 began, and no worker that did    *)
(* has answered in place of step 7's own: after either, the fragments tell  *)
(* of a graph that is no longer there, and nothing in the code detects it.  *)
(* An exporter that wrote earlier, or has not written yet, does no harm.    *)
PassIsOfOneModel ==
  pass > 0 => \E revision \in Revisions :
    /\ fragment["model"] = {revision}
    /\ \A s \in Fragments : Position[s] <= pass =>
         s \in DOMAIN fragment /\ fragment[s] \subseteq {revision}
    /\ pass >= 2 => graph["fp32"] = revision
    /\ pass >= 3 => graph["int8"] = revision

(* "A timestamped filename: records are never overwritten"                  *)
(* (record.build_record_filename).                                          *)
RecordsAreNeverOverwritten ==
  [][\A second \in DOMAIN records :
       second \in DOMAIN records' /\ records'[second] = records[second]]_vars
=============================================================================
