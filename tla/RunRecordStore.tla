--------------------------- MODULE RunRecordStore ---------------------------
(***************************************************************************)
(* The directory benchmarks/ and the processes that share it: any number   *)
(* of `joinless benchmark` runs, each of which writes one record into it   *)
(* (src/joinless/cli.py _cmd_benchmark, src/joinless/runrecord.py          *)
(* write_record), and any number of `joinless report` commands, each of    *)
(* which reads one (src/joinless/cli.py _cmd_report).                      *)
(*                                                                         *)
(* A record's file name is the second its run started in, so two runs may  *)
(* claim one name.  The payload leaves the process in Chunks writes, and a *)
(* chunk is represented by the run that wrote it: a proper prefix of a     *)
(* record is not JSON.  A process can stop anywhere: killed, out of disk,  *)
(* or by an exception nothing catches.                                     *)
(***************************************************************************)
EXTENDS Integers, Sequences

CONSTANTS
  Runs,      \* benchmark processes
  Readers,   \* report processes
  Seconds,   \* the readings of the clock, as record_id formats them
  Chunks,    \* writes a payload takes
  Old,       \* record_ids already on disk under an earlier schema
  Legacy,    \* whoever wrote those
  None

ASSUME ChunksAssumption == Chunks \in Nat \ {0}

ASSUME StoreAssumption == Old \subseteq Seconds /\ Legacy \notin Runs

ASSUME NoneAssumption == None \notin Seconds

VARIABLES
  clock,    \* datetime.now(UTC), to the second
  files,    \* record_id -> the chunks in that file
  run,      \* where each benchmark process is, and its record_id
  report    \* where each report process is, its file, and what it has read

vars == <<clock, files, run, report>>

RunSteps == {"idle", "measuring", "built", "writing",
             "wrote", "refused", "aborted", "crashed"}

ReportSteps == {"idle", "reading", "rendered", "failed"}

Payload(r) == [n \in 1..Chunks |-> r]

Init ==
  /\ clock \in Seconds
  /\ files = [id \in Old |-> Payload(Legacy)]
  /\ run = [r \in Runs |-> [at |-> "idle", id |-> None]]
  /\ report = [p \in Readers |-> [at |-> "idle", id |-> None, got |-> <<>>]]

\* Nothing makes the clock monotonic: it is the system's, and may be set back.
Tick == clock' \in Seconds \ {clock} /\ UNCHANGED <<files, run, report>>

----------------------------------------------------------------------------
(* joinless benchmark *)

MoveRun(r, from, to) ==
  /\ run[r].at = from
  /\ run' = [run EXCEPT ![r].at = to]
  /\ UNCHANGED <<clock, report>>

\* started_at is taken before anything is measured, and is the record_id.
Start(r) ==
  /\ run[r].at = "idle"
  /\ run' = [run EXCEPT ![r] = [at |-> "measuring", id |-> clock]]
  /\ UNCHANGED <<clock, files, report>>

\* QuantizedOperatorMismatchError: exit status 1 and no record.
Abort(r) == MoveRun(r, "measuring", "aborted") /\ UNCHANGED files

\* Every arm is measured, the record is built and its payload computed.
Build(r) == MoveRun(r, "measuring", "built") /\ UNCHANGED files

\* Mutant: path.open("w"), which truncates what is there.
Create_truncating(r) ==
  /\ MoveRun(r, "built", "writing")
  /\ files' = [id \in DOMAIN files \cup {run[r].id} |->
                 IF id = run[r].id THEN <<>> ELSE files[id]]

\* path.open("x"): the name is taken in one step, or not at all.
Create(r) ==
  /\ run[r].id \notin DOMAIN files
  /\ MoveRun(r, "built", "writing")
  /\ files' = [id \in DOMAIN files \cup {run[r].id} |->
                 IF id = run[r].id THEN <<>> ELSE files[id]]

\* FileExistsError: exit status 1, the file left alone.
Refuse(r) ==
  /\ run[r].id \in DOMAIN files
  /\ MoveRun(r, "built", "refused")
  /\ UNCHANGED files

Write(r) ==
  /\ run[r].at = "writing" /\ Len(files[run[r].id]) < Chunks
  /\ files' = [files EXCEPT ![run[r].id] = Append(@, r)]
  /\ UNCHANGED <<clock, run, report>>

\* Mutant: "wrote" is printed before the last chunk is flushed.
Finish_unflushed(r) ==
  /\ MoveRun(r, "writing", "wrote")
  /\ Len(files[run[r].id]) >= Chunks - 1
  /\ UNCHANGED files

Finish(r) ==
  /\ MoveRun(r, "writing", "wrote")
  /\ Len(files[run[r].id]) = Chunks
  /\ UNCHANGED files

\* A crash leaves the file as it is: nothing removes a half-written record.
Crash(r) ==
  /\ \E step \in {"measuring", "built", "writing"} : MoveRun(r, step, "crashed")
  /\ UNCHANGED files

----------------------------------------------------------------------------
(* joinless report *)

OpenRecord(p) ==
  /\ report[p].at = "idle"
  /\ \E id \in Seconds :
       report' = [report EXCEPT ![p] =
                    [at  |-> IF id \in DOMAIN files THEN "reading" ELSE "failed",
                     id  |-> id,
                     got |-> <<>>]]
  /\ UNCHANGED <<clock, files, run>>

\* One read() of the file, of which more may have been written since the last.
ReadChunk(p) ==
  /\ report[p].at = "reading"
  /\ Len(report[p].got) < Len(files[report[p].id])
  /\ report' = [report EXCEPT ![p].got =
                  Append(@, files[report[p].id][Len(@) + 1])]
  /\ UNCHANGED <<clock, files, run>>

\* Mutant: one read() is taken for the whole file.
EndOfFile_after_one_read(p) ==
  /\ report[p].at = "reading" /\ report[p].got # <<>>
  /\ report' = [report EXCEPT ![p].at =
                  IF Len(report[p].got) = Chunks /\ report[p].got # Payload(Legacy)
                  THEN "rendered" ELSE "failed"]
  /\ UNCHANGED <<clock, files, run>>

\* Mutant: whatever was read is rendered, if anything was.
EndOfFile_undecoded(p) ==
  /\ report[p].at = "reading"
  /\ Len(report[p].got) = Len(files[report[p].id])
  /\ report' = [report EXCEPT ![p].at =
                  IF report[p].got \notin {<<>>, Payload(Legacy)} THEN "rendered" ELSE "failed"]
  /\ UNCHANGED <<clock, files, run>>

\* read() returned nothing: what was read is decoded and rendered, unless it
\* is not JSON (JSONDecodeError) or of another schema (UnsupportedSchema).
EndOfFile(p) ==
  /\ report[p].at = "reading"
  /\ Len(report[p].got) = Len(files[report[p].id])
  /\ report' = [report EXCEPT ![p].at =
                  IF Len(report[p].got) = Chunks /\ report[p].got # Payload(Legacy)
                  THEN "rendered" ELSE "failed"]
  /\ UNCHANGED <<clock, files, run>>

----------------------------------------------------------------------------

RunStep(r) ==
  \/ Start(r) \/ Abort(r) \/ Build(r)
  \/ Create(r) \/ Refuse(r) \/ Write(r) \/ Finish(r)
  \/ Crash(r)

ReportStep(p) == OpenRecord(p) \/ ReadChunk(p) \/ EndOfFile(p)

Next ==
  \/ Tick
  \/ \E r \in Runs : RunStep(r)
  \/ \E p \in Readers : ReportStep(p)

(* A process that is writing or reading is scheduled again.  Measuring is   *)
(* under no fairness: _run_in_child waits for its worker without a timeout. *)
Fairness ==
  /\ \A r \in Runs : WF_vars(Create(r) \/ Refuse(r) \/ Write(r) \/ Finish(r))
  /\ \A p \in Readers : WF_vars(ReadChunk(p) \/ EndOfFile(p))

Spec == Init /\ [][Next]_vars /\ Fairness

----------------------------------------------------------------------------

Complete(id) == id \in DOMAIN files /\ Len(files[id]) = Chunks

RunState == [at : RunSteps, id : Seconds \cup {None}]

ReportState == [at : ReportSteps, id : Seconds \cup {None},
                got : Seq(Runs \cup {Legacy})]

(* Types; a process past its first step has a record_id, and a file that is *)
(* being read or written exists.                                            *)
TypeOK ==
  /\ clock \in Seconds
  /\ DOMAIN files \subseteq Seconds
  /\ files \in [DOMAIN files -> Seq(Runs \cup {Legacy})]
  /\ run \in [Runs -> RunState]
  /\ report \in [Readers -> ReportState]
  /\ \A r \in Runs : run[r].at # "idle" => run[r].id \in Seconds
  /\ \A r \in Runs : run[r].at \in {"writing", "wrote"} => run[r].id \in DOMAIN files
  /\ \A p \in Readers : report[p].at = "reading" => report[p].id \in DOMAIN files

(* Of the runs that claim one second, at most one gets to write, whatever   *)
(* the order they finish measuring in; and one that reports success has its *)
(* whole payload on disk, unmixed with anybody else's.                      *)
OneRecordPerSecond ==
  \A r \in Runs :
    /\ run[r].at \in {"writing", "wrote"} =>
         \A s \in Runs \ {r} :
           run[s].id = run[r].id => run[s].at \notin {"writing", "wrote"}
    /\ run[r].at = "wrote" => files[run[r].id] = Payload(r)

(* A truncated record is only ever the work of a run that crashed, or one   *)
(* still writing: a census mismatch, a refusal or a success leaves none.    *)
TruncatedOnlyByCrash ==
  \A id \in DOMAIN files :
    ~Complete(id) =>
      \E r \in Runs : run[r].id = id /\ run[r].at \in {"writing", "crashed"}

(* A report never renders a prefix, nor two runs' chunks: only the whole    *)
(* record of one run, which is still there, however the reads interleaved   *)
(* with the writes.                                                         *)
ReportsAreFaithful ==
  \A p \in Readers :
    report[p].at = "rendered" =>
      /\ \E r \in Runs : report[p].got = Payload(r) /\ run[r].id = report[p].id
      /\ files[report[p].id] = report[p].got

(* "Records are never edited after the fact" (benchmarks/README.md): a step *)
(* removes no record, changes no complete one, and only ever adds to an     *)
(* incomplete one.                                                          *)
RecordsAreFinal ==
  [][\A id \in DOMAIN files :
       /\ id \in DOMAIN files'
       /\ Len(files'[id]) >= Len(files[id])
       /\ \A n \in 1..Len(files[id]) : files'[id][n] = files[id][n]]_vars

(* A record that is complete when a report opens it is rendered.            *)
CompleteRecordsRender ==
  \A p \in Readers :
    /\ report[p].at = "reading" /\ Complete(report[p].id)
    /\ report[p].id \notin Old
    ~> report[p].at = "rendered"
============================================================================
