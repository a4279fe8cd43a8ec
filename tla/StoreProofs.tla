----------------------------- MODULE StoreProofs -----------------------------
(***************************************************************************)
(* Theorems about RunRecordStore and Publication, for any number of runs,  *)
(* reports, publishers, drafts and edits, any clock and any size of record *)
(* and buffer.  A record is written by one run and never changed, and a    *)
(* report shows nothing but whole records; the figures of README.md are    *)
(* those of a record that is still there, and what people wrote beside     *)
(* them stays.                                                             *)
(***************************************************************************)
EXTENDS Publication, TLAPS, WellFoundedInduction

----------------------------------------------------------------------------
(* The store *)

Writer(r) == run[r].at \in {"writing", "wrote"}

WrittenBy(chunks, r) == \A n \in 1..Len(chunks) : chunks[n] = r

\* What RunRecordStore's files hold, and why.
FilesInv ==
  /\ \A id \in DOMAIN files : Len(files[id]) <= Chunks
  /\ \A id \in Old : id \in DOMAIN files /\ files[id] = Payload(Legacy)
  /\ \A id \in DOMAIN files \ Old :
       \E r \in Runs : /\ run[r].id = id
                       /\ run[r].at \in {"writing", "wrote", "crashed"}
                       /\ WrittenBy(files[id], r)

\* What a run that got the name may rely on.
WritersInv ==
  /\ \A r \in Runs : Writer(r) =>
       /\ run[r].id \in DOMAIN files \ Old
       /\ WrittenBy(files[run[r].id], r)
       /\ run[r].at = "wrote" => Len(files[run[r].id]) = Chunks
  /\ \A r, s \in Runs :
       Writer(r) /\ Writer(s) /\ run[r].id = run[s].id => r = s

\* What a report has read is a prefix of its file.
ReadersInv ==
  \A p \in Readers :
    report[p].at \in {"reading", "rendered"} =>
      /\ report[p].id \in DOMAIN files
      /\ Len(report[p].got) <= Len(files[report[p].id])
      /\ \A n \in 1..Len(report[p].got) :
           report[p].got[n] = files[report[p].id][n]
      /\ report[p].at = "rendered" =>
           Len(report[p].got) = Chunks /\ report[p].got # Payload(Legacy)

StoreInv == TypeOK /\ FilesInv /\ WritersInv /\ ReadersInv

----------------------------------------------------------------------------

(* A payload is so many parts, all of its run.                              *)
LEMMA PayloadType ==
  ASSUME NEW S, NEW r \in S
  PROVE  /\ Payload(r) \in Seq(S) /\ Len(Payload(r)) = Chunks
         /\ \A n \in 1..Chunks : Payload(r)[n] = r
BY ChunksAssumption DEF Payload

(* The invariant holds at the start.                                        *)
LEMMA InitStore == Init => StoreInv
<1> SUFFICES ASSUME Init PROVE StoreInv
  OBVIOUS
<1>1. /\ files = [id \in Old |-> Payload(Legacy)] /\ DOMAIN files = Old
      /\ \A r \in Runs : run[r] = [at |-> "idle", id |-> None]
      /\ \A p \in Readers :
           report[p] = [at |-> "idle", id |-> None, got |-> <<>>]
  BY DEF Init
<1>2. TypeOK
  <2>1. Payload(Legacy) \in Seq(Runs \cup {Legacy})
    BY PayloadType
  <2>2. clock \in Seconds /\ run \in [Runs -> RunState]
        /\ report \in [Readers -> ReportState]
    BY DEF Init, RunState, ReportState, RunSteps, ReportSteps
  <2> QED
    BY <1>1, <2>1, <2>2, StoreAssumption DEF TypeOK
<1>3. FilesInv
  <2>1. Legacy \in {Legacy} /\ Chunks <= Chunks
    BY ChunksAssumption
  <2>2. Len(Payload(Legacy)) = Chunks
    BY <2>1, PayloadType
  <2>3. \A id \in Old : files[id] = Payload(Legacy)
    BY <1>1
  <2> QED
    BY <1>1, <2>1, <2>2, <2>3 DEF FilesInv
<1>4. WritersInv /\ ReadersInv
  BY <1>1 DEF WritersInv, ReadersInv, Writer
<1> QED
  BY <1>2, <1>3, <1>4 DEF StoreInv

(* A step of MoveRun: one run changes its place and nothing else of it.      *)
LEMMA Moved ==
  ASSUME TypeOK, NEW r \in Runs, NEW from \in RunSteps, NEW to \in RunSteps,
         MoveRun(r, from, to)
  PROVE  /\ run' \in [Runs -> RunState]
         /\ run[r].at = from /\ run'[r].at = to
         /\ \A s \in Runs : run'[s].id = run[s].id
         /\ \A s \in Runs \ {r} : run'[s] = run[s]
         /\ clock' = clock /\ report' = report
BY DEF MoveRun, TypeOK, RunState

(* A run moves without touching a file.  It may become a writer only by      *)
(* Finish.                                                                   *)
LEMMA MovedKeepsStore ==
  ASSUME StoreInv, NEW r \in Runs, NEW from \in RunSteps, NEW to \in RunSteps,
         MoveRun(r, from, to), files' = files,
         from # "idle", from \in {"writing", "wrote", "crashed"}
                          => to \in {"wrote", "crashed"},
         to = "writing" => FALSE,
         to = "wrote" => from = "writing" /\ Len(files[run[r].id]) = Chunks
  PROVE  StoreInv'
<1>1. /\ run' \in [Runs -> RunState]
      /\ run[r].at = from /\ run'[r].at = to
      /\ \A s \in Runs : run'[s].id = run[s].id
      /\ \A s \in Runs \ {r} : run'[s] = run[s]
      /\ clock' = clock /\ report' = report
  BY Moved DEF StoreInv
<1>2. \A s \in Runs : Writer(s)' => Writer(s)
  BY <1>1 DEF Writer
<1>3. TypeOK'
  BY <1>1 DEF StoreInv, TypeOK
<1>4. FilesInv'
  <2>1. \A s \in Runs : run[s].at \in {"writing", "wrote", "crashed"}
          => run'[s].at \in {"writing", "wrote", "crashed"}
    BY <1>1
  <2> QED
    BY <1>1, <2>1 DEF StoreInv, FilesInv, WrittenBy
<1>5. WritersInv'
  <2>1. \A s \in Runs : run'[s].at = "wrote" => Len(files[run[s].id]) = Chunks
    BY <1>1 DEF StoreInv, WritersInv, Writer
  <2> QED
    BY <1>1, <1>2, <2>1 DEF StoreInv, WritersInv, WrittenBy
<1>6. ReadersInv'
  BY <1>1 DEF StoreInv, ReadersInv
<1> QED
  BY <1>3, <1>4, <1>5, <1>6 DEF StoreInv

(* A record_id is taken by one run: the file starts empty, and is its own.   *)
LEMMA CreateKeepsStore ==
  ASSUME StoreInv, NEW r \in Runs, Create(r)
  PROVE  StoreInv'
<1> DEFINE id == run[r].id
<1>1. /\ run' \in [Runs -> RunState]
      /\ run[r].at = "built" /\ run'[r].at = "writing"
      /\ \A s \in Runs : run'[s].id = run[s].id
      /\ \A s \in Runs \ {r} : run'[s] = run[s]
      /\ clock' = clock /\ report' = report
  BY Moved DEF StoreInv, Create, RunSteps
<1>2. /\ id \notin DOMAIN files /\ id \in Seconds
      /\ files' = [i \in DOMAIN files \cup {id} |-> IF i = id THEN <<>> ELSE files[i]]
  BY <1>1 DEF Create, StoreInv, TypeOK
<1>3. /\ DOMAIN files' = DOMAIN files \cup {id} /\ files'[id] = <<>>
      /\ \A i \in DOMAIN files : files'[i] = files[i]
  BY <1>2
<1> HIDE DEF id
<1>4. TypeOK'
  <2>1. files' \in [DOMAIN files' -> Seq(Runs \cup {Legacy})]
    BY <1>2, <1>3 DEF StoreInv, TypeOK
  <2>2. \A s \in Runs : run'[s].at \in {"writing", "wrote"} => run'[s].id \in DOMAIN files'
    BY <1>1, <1>3 DEF StoreInv, TypeOK, id
  <2>3. \A s \in Runs : run'[s].at # "idle" => run'[s].id \in Seconds
    BY <1>1 DEF StoreInv, TypeOK
  <2> QED
    BY <1>1, <1>2, <1>3, <2>1, <2>2, <2>3 DEF StoreInv, TypeOK
<1>5. FilesInv'
  <2>1. ASSUME NEW i \in DOMAIN files' \ Old
        PROVE  \E s \in Runs : /\ run'[s].id = i
                               /\ run'[s].at \in {"writing", "wrote", "crashed"}
                               /\ WrittenBy(files'[i], s)
    <3>1. CASE i = id
      BY <1>1, <1>3, <3>1 DEF WrittenBy, id
    <3>2. CASE i # id
      <4>1. PICK s \in Runs : /\ run[s].id = i
                              /\ run[s].at \in {"writing", "wrote", "crashed"}
                              /\ WrittenBy(files[i], s)
        BY <1>3, <2>1, <3>2 DEF StoreInv, FilesInv
      <4>2. s # r /\ files'[i] = files[i]
        BY <1>1, <1>3, <2>1, <3>2, <4>1
      <4> QED
        BY <1>1, <4>1, <4>2 DEF WrittenBy
    <3> QED
      BY <3>1, <3>2
  <2>2. \A i \in DOMAIN files' : Len(files'[i]) <= Chunks
    BY <1>3, ChunksAssumption DEF StoreInv, FilesInv
  <2>3. \A i \in Old : i \in DOMAIN files' /\ files'[i] = Payload(Legacy)
    BY <1>3 DEF StoreInv, FilesInv
  <2> QED
    BY <2>1, <2>2, <2>3 DEF FilesInv, Payload
<1>6. WritersInv'
  <2>1. id \notin Old
    BY <1>2 DEF StoreInv, FilesInv, id
  <2>2. \A s \in Runs \ {r} : Writer(s)' =>
          /\ Writer(s) /\ run[s].id \in DOMAIN files \ Old /\ run[s].id # id
          /\ files'[run[s].id] = files[run[s].id]
    BY <1>1, <1>2, <1>3 DEF StoreInv, WritersInv, Writer, id
  <2>3. \A s \in Runs : Writer(s)' =>
          /\ run'[s].id \in DOMAIN files' \ Old
          /\ \A n \in 1..Len(files'[run'[s].id]) : files'[run'[s].id][n] = s
          /\ run'[s].at = "wrote" => Len(files'[run'[s].id]) = Chunks
    BY <1>1, <1>3, <2>1, <2>2 DEF StoreInv, WritersInv, WrittenBy, id
  <2>4. \A s, t \in Runs : Writer(s)' /\ Writer(t)' /\ run'[s].id = run'[t].id => s = t
    BY <1>1, <2>2 DEF StoreInv, WritersInv, id
  <2> QED
    BY <2>3, <2>4 DEF WritersInv, WrittenBy
<1>7. ReadersInv'
  BY <1>1, <1>3 DEF StoreInv, ReadersInv
<1> QED
  BY <1>4, <1>5, <1>6, <1>7 DEF StoreInv

(* Writing a record keeps it.                                               *)
LEMMA WriteKeepsStore ==
  ASSUME StoreInv, NEW r \in Runs, Write(r)
  PROVE  StoreInv'
<1> DEFINE id == run[r].id
<1>1. /\ Writer(r) /\ run' = run /\ clock' = clock /\ report' = report
      /\ Len(files[id]) < Chunks
      /\ files' = [files EXCEPT ![id] = Append(@, r)]
  BY DEF Write, Writer
<1>2. /\ id \in DOMAIN files /\ id \notin Old
      /\ files \in [DOMAIN files -> Seq(Runs \cup {Legacy})]
      /\ WrittenBy(files[id], r)
  BY <1>1 DEF StoreInv, WritersInv, TypeOK
<1> HIDE DEF id
<1>3. /\ DOMAIN files' = DOMAIN files
      /\ files'[id] = Append(files[id], r)
      /\ \A i \in DOMAIN files \ {id} : files'[i] = files[i]
      /\ files' \in [DOMAIN files' -> Seq(Runs \cup {Legacy})]
  BY <1>1, <1>2
<1>4. files[id] \in Seq(Runs \cup {Legacy})
  BY <1>2
<1>5. /\ Len(files[id]) \in Nat
      /\ Len(files'[id]) = Len(files[id]) + 1 /\ files'[id][Len(files[id]) + 1] = r
      /\ \A n \in 1..Len(files[id]) : files'[id][n] = files[id][n]
  BY <1>3, <1>4
<1>6. \A n \in 1..Len(files'[id]) : files'[id][n] = r
  <2>1. \A n \in 1..Len(files'[id]) : n \in 1..Len(files[id]) \/ n = Len(files[id]) + 1
    BY <1>5
  <2> QED
    BY <1>2, <1>5, <2>1 DEF WrittenBy
<1>7. TypeOK'
  BY <1>1, <1>3 DEF StoreInv, TypeOK
<1>8. FilesInv'
  <2>1. \A i \in DOMAIN files' : Len(files'[i]) <= Chunks
    BY <1>1, <1>3, <1>5, ChunksAssumption DEF StoreInv, FilesInv
  <2>2. \A i \in DOMAIN files' \ Old :
          \E s \in Runs : /\ run'[s].id = i
                          /\ run'[s].at \in {"writing", "wrote", "crashed"}
                          /\ WrittenBy(files'[i], s)
    <3>1. WrittenBy(files'[id], r)
      BY <1>6 DEF WrittenBy
    <3>2. \A i \in DOMAIN files \ {id} : \A s \in Runs :
            WrittenBy(files[i], s) => WrittenBy(files'[i], s)
      BY <1>3 DEF WrittenBy
    <3>3. run'[r].id = id /\ run'[r].at \in {"writing", "wrote", "crashed"}
      BY <1>1 DEF Writer, id
    <3> QED
      BY <1>1, <1>3, <3>1, <3>2, <3>3 DEF StoreInv, FilesInv
  <2>3. \A i \in Old : i \in DOMAIN files' /\ files'[i] = Payload(Legacy)
    BY <1>2, <1>3 DEF StoreInv, FilesInv
  <2> QED
    BY <2>1, <2>2, <2>3 DEF FilesInv, Payload
<1>9. WritersInv'
  <2>1. \A s \in Runs \ {r} : Writer(s) =>
          run[s].id \in DOMAIN files \ Old /\ run[s].id # id
    BY <1>1 DEF StoreInv, WritersInv, id
  <2>2. \A s \in Runs : Writer(s)' <=> Writer(s)
    BY <1>1 DEF Writer
  <2>3. \A s \in Runs : Writer(s)' =>
          /\ run'[s].id \in DOMAIN files' \ Old
          /\ \A n \in 1..Len(files'[run'[s].id]) : files'[run'[s].id][n] = s
          /\ run'[s].at = "wrote" => Len(files'[run'[s].id]) = Chunks
    <3>1. \A s \in Runs \ {r} : Writer(s) =>
            /\ files'[run[s].id] = files[run[s].id]
            /\ \A n \in 1..Len(files[run[s].id]) : files[run[s].id][n] = s
            /\ run[s].at = "wrote" => Len(files[run[s].id]) = Chunks
      BY <1>3, <2>1 DEF StoreInv, WritersInv, WrittenBy
    <3>2. run[r].at = "writing" /\ run[r].id = id
      BY DEF Write, id
    <3> QED
      BY <1>1, <1>2, <1>3, <1>6, <2>1, <2>2, <3>1, <3>2
  <2> QED
    BY <1>1, <2>2, <2>3 DEF StoreInv, WritersInv, WrittenBy
<1>10. ReadersInv'
  <2> SUFFICES ASSUME NEW p \in Readers, report[p].at \in {"reading", "rendered"}
               PROVE  /\ report[p].id \in DOMAIN files'
                      /\ Len(report[p].got) <= Len(files'[report[p].id])
                      /\ \A n \in 1..Len(report[p].got) :
                           report[p].got[n] = files'[report[p].id][n]
                      /\ report[p].at = "rendered" =>
                           Len(report[p].got) = Chunks /\ report[p].got # Payload(Legacy)
    BY <1>1 DEF ReadersInv, Payload
  <2>1. /\ report[p].id \in DOMAIN files
        /\ Len(report[p].got) <= Len(files[report[p].id])
        /\ \A n \in 1..Len(report[p].got) :
             report[p].got[n] = files[report[p].id][n]
        /\ report[p].at = "rendered" =>
             Len(report[p].got) = Chunks /\ report[p].got # Payload(Legacy)
    BY DEF StoreInv, ReadersInv
  <2>2. Len(report[p].got) \in Nat
    BY DEF StoreInv, TypeOK, ReportState
  <2>3. CASE report[p].id # id
    BY <1>3, <2>1, <2>3
  <2>4. CASE report[p].id = id
    <3>1. \A n \in 1..Len(report[p].got) : n \in 1..Len(files[id])
      BY <1>5, <2>1, <2>2, <2>4
    <3> QED
      BY <1>3, <1>5, <2>1, <2>2, <2>4, <3>1
  <2> QED
    BY <2>3, <2>4
<1> QED
  BY <1>7, <1>8, <1>9, <1>10 DEF StoreInv
(* A step of a reader keeps it.                                             *)
LEMMA ReportKeepsStore ==
  ASSUME StoreInv, NEW p \in Readers, ReportStep(p)
  PROVE  StoreInv'
<1>1. run' = run /\ clock' = clock /\ files' = files
  BY DEF ReportStep, OpenRecord, ReadChunk, EndOfFile
<1>2. FilesInv' /\ WritersInv'
  BY <1>1 DEF StoreInv, FilesInv, WritersInv, Writer
<1>3. /\ report' \in [Readers -> ReportState]
      /\ \A q \in Readers \ {p} : report'[q] = report[q]
      /\ report'[p].at \in {"reading", "rendered"} =>
           /\ report'[p].id \in DOMAIN files
           /\ Len(report'[p].got) <= Len(files[report'[p].id])
           /\ \A n \in 1..Len(report'[p].got) :
                report'[p].got[n] = files[report'[p].id][n]
           /\ report'[p].at = "rendered" =>
                Len(report'[p].got) = Chunks /\ report'[p].got # Payload(Legacy)
  <2>1. CASE OpenRecord(p)
    <3>1. PICK id \in Seconds :
            report' = [report EXCEPT ![p] =
                         [at  |-> IF id \in DOMAIN files THEN "reading" ELSE "failed",
                          id  |-> id,
                          got |-> <<>>]]
      BY <2>1 DEF OpenRecord
    <3>2. files \in [DOMAIN files -> Seq(Runs \cup {Legacy})]
      BY DEF StoreInv, TypeOK
    <3>3. report \in [Readers -> ReportState]
      BY DEF StoreInv, TypeOK
    <3>4. \A i \in DOMAIN files : Len(files[i]) \in Nat
      BY <3>2
    <3>5. /\ report'[p].at \in {"reading", "failed"} /\ report'[p].id = id
          /\ report'[p].got = <<>>
          /\ report'[p].at = "reading" => id \in DOMAIN files
          /\ \A q \in Readers \ {p} : report'[q] = report[q]
      BY <3>1, <3>3
    <3>6. report' \in [Readers -> ReportState]
      BY <3>1, <3>3 DEF ReportState, ReportSteps
    <3> QED
      BY <3>4, <3>5, <3>6
  <2>2. CASE ReadChunk(p)
    <3> DEFINE file == files[report[p].id]
               got == report[p].got
    <3>1. /\ report \in [Readers -> ReportState] /\ report[p].id \in DOMAIN files
          /\ file \in Seq(Runs \cup {Legacy}) /\ got \in Seq(Runs \cup {Legacy})
          /\ report[p].at = "reading" /\ Len(got) < Len(file)
          /\ \A n \in 1..Len(got) : got[n] = file[n]
      BY <2>2 DEF ReadChunk, StoreInv, TypeOK, ReadersInv, ReportState
    <3>2. report' = [report EXCEPT ![p].got = Append(got, file[Len(got) + 1])]
      BY <2>2 DEF ReadChunk
    <3>3. Len(got) + 1 \in 1..Len(file) /\ file[Len(got) + 1] \in Runs \cup {Legacy}
      BY <3>1
    <3> HIDE DEF file, got
    <3>4. /\ Append(got, file[Len(got) + 1]) \in Seq(Runs \cup {Legacy})
          /\ Len(Append(got, file[Len(got) + 1])) = Len(got) + 1
          /\ \A n \in 1..(Len(got) + 1) : Append(got, file[Len(got) + 1])[n] = file[n]
      BY <3>1, <3>3
    <3>5. report'[p] = [report[p] EXCEPT !.got = Append(got, file[Len(got) + 1])]
      BY <3>1, <3>2
    <3>6. /\ report'[p].at = "reading" /\ report'[p].id = report[p].id
          /\ report'[p].got = Append(got, file[Len(got) + 1])
          /\ \A q \in Readers \ {p} : report'[q] = report[q]
      BY <3>1, <3>2 DEF ReportState
    <3>7. report' \in [Readers -> ReportState]
      BY <3>1, <3>2, <3>4 DEF ReportState
    <3> QED
      BY <3>1, <3>3, <3>4, <3>6, <3>7 DEF file
  <2>3. CASE EndOfFile(p)
    <3>1. /\ report \in [Readers -> ReportState] /\ report[p].at = "reading"
          /\ report' = [report EXCEPT ![p].at =
                          IF Len(report[p].got) = Chunks /\ report[p].got # Payload(Legacy)
                          THEN "rendered" ELSE "failed"]
      BY <2>3 DEF EndOfFile, StoreInv, TypeOK
    <3>2. /\ report'[p].id = report[p].id /\ report'[p].got = report[p].got
          /\ report'[p].at = "rendered" =>
               Len(report[p].got) = Chunks /\ report[p].got # Payload(Legacy)
          /\ report'[p].at # "reading"
          /\ \A q \in Readers \ {p} : report'[q] = report[q]
      BY <3>1 DEF ReportState
    <3>3. report' \in [Readers -> ReportState]
      BY <3>1 DEF ReportState, ReportSteps
    <3> QED
      BY <3>1, <3>2, <3>3 DEF StoreInv, ReadersInv
  <2> QED
    BY <2>1, <2>2, <2>3 DEF ReportStep
<1>4. TypeOK'
  <2>1. \A q \in Readers : report'[q].at = "reading" => report'[q].id \in DOMAIN files
    BY <1>3 DEF StoreInv, TypeOK
  <2> QED
    BY <1>1, <1>3, <2>1 DEF StoreInv, TypeOK
<1>5. ReadersInv'
  BY <1>1, <1>3 DEF StoreInv, ReadersInv, Payload
<1> QED
  BY <1>2, <1>4, <1>5 DEF StoreInv

(* Starting a run keeps it.                                                 *)
LEMMA StartKeepsStore ==
  ASSUME StoreInv, NEW r \in Runs, Start(r)
  PROVE  StoreInv'
<1>1. /\ run \in [Runs -> RunState] /\ clock \in Seconds /\ run[r].at = "idle"
      /\ run' = [run EXCEPT ![r] = [at |-> "measuring", id |-> clock]]
      /\ UNCHANGED <<clock, files, report>>
  BY DEF Start, StoreInv, TypeOK
<1>2. /\ run' \in [Runs -> RunState]
      /\ run'[r].at = "measuring" /\ run'[r].id = clock
      /\ \A s \in Runs \ {r} : run'[s] = run[s]
  BY <1>1 DEF RunState, RunSteps
<1>3. TypeOK'
  BY <1>1, <1>2 DEF StoreInv, TypeOK
<1>4. FilesInv'
  BY <1>1, <1>2 DEF StoreInv, FilesInv, Payload
<1>5. WritersInv' /\ ReadersInv'
  BY <1>1, <1>2 DEF StoreInv, WritersInv, ReadersInv, Writer, Payload
<1> QED
  BY <1>3, <1>4, <1>5 DEF StoreInv

(* Every step keeps it.                                                     *)
LEMMA NextStore == StoreInv /\ [Next]_vars => StoreInv'
<1> SUFFICES ASSUME StoreInv, [Next]_vars PROVE StoreInv'
  OBVIOUS
<1>1. CASE Tick
  BY <1>1 DEF Tick, StoreInv, TypeOK, FilesInv, WritersInv, ReadersInv, Writer
<1>2. CASE UNCHANGED vars
  BY <1>2 DEF vars, StoreInv, TypeOK, FilesInv, WritersInv, ReadersInv, Writer
<1>3. ASSUME NEW r \in Runs, RunStep(r) PROVE StoreInv'
  <2>1. CASE Start(r)
    BY <2>1, StartKeepsStore
  <2>2. CASE Create(r)
    BY <2>2, CreateKeepsStore
  <2>3. CASE Write(r)
    BY <2>3, WriteKeepsStore
  <2>4. CASE Abort(r)
    BY <2>4, MovedKeepsStore DEF Abort, RunSteps
  <2>5. CASE Build(r)
    BY <2>5, MovedKeepsStore DEF Build, RunSteps
  <2>6. CASE Refuse(r)
    BY <2>6, MovedKeepsStore DEF Refuse, RunSteps
  <2>7. CASE Finish(r)
    BY <2>7, MovedKeepsStore DEF Finish, RunSteps
  <2>8. CASE Crash(r)
    <3>1. PICK step \in {"measuring", "built", "writing"} : MoveRun(r, step, "crashed")
      BY <2>8 DEF Crash
    <3> QED
      BY <2>8, <3>1, MovedKeepsStore DEF Crash, RunSteps
  <2> QED
    BY <1>3, <2>1, <2>2, <2>3, <2>4, <2>5, <2>6, <2>7, <2>8 DEF RunStep
<1>4. ASSUME NEW p \in Readers, ReportStep(p) PROVE StoreInv'
  BY <1>4, ReportKeepsStore
<1> QED
  BY <1>1, <1>2, <1>3, <1>4 DEF Next

(* It always holds.                                                         *)
LEMMA StoreInvariant == Spec => []StoreInv
BY InitStore, NextStore, PTL DEF Spec

----------------------------------------------------------------------------
(* What the store promises *)

(* Every state of the store is well typed, and no process ever reads or     *)
(* writes a file that is not there.                                         *)
THEOREM TypeCorrect == Spec => []TypeOK
<1>1. StoreInv => TypeOK
  BY DEF StoreInv
<1> QED
  BY StoreInvariant, <1>1, PTL

(* However many runs start in one second, at most one of them writes the    *)
(* record of that second, and success means the whole of it is on disk.     *)
THEOREM OneWriter == Spec => []OneRecordPerSecond
<1>1. StoreInv => OneRecordPerSecond
  <2> SUFFICES ASSUME StoreInv, NEW r \in Runs
               PROVE  /\ run[r].at \in {"writing", "wrote"} =>
                           \A s \in Runs \ {r} :
                             run[s].id = run[r].id
                               => run[s].at \notin {"writing", "wrote"}
                      /\ run[r].at = "wrote" => files[run[r].id] = Payload(r)
    BY DEF OneRecordPerSecond
  <2>1. ASSUME run[r].at = "wrote" PROVE files[run[r].id] = Payload(r)
    <3> DEFINE file == files[run[r].id]
    <3>1. /\ file \in Seq(Runs \cup {Legacy}) /\ Len(file) = Chunks
          /\ \A n \in 1..Len(file) : file[n] = r
      BY <2>1 DEF StoreInv, TypeOK, WritersInv, Writer, WrittenBy
    <3>2. file = [n \in 1..Len(file) |-> file[n]]
      BY <3>1
    <3> QED
      BY <3>1, <3>2 DEF Payload
  <2> QED
    BY <2>1 DEF StoreInv, WritersInv, Writer
<1> QED
  BY StoreInvariant, <1>1, PTL

(* With it a report is faithful.                                            *)
LEMMA StoreShowsFaithfully == StoreInv => ReportsAreFaithful
<1> SUFFICES ASSUME StoreInv, NEW p \in Readers, report[p].at = "rendered"
             PROVE  /\ \E r \in Runs : /\ report[p].got = Payload(r)
                                       /\ run[r].id = report[p].id
                    /\ files[report[p].id] = report[p].got
  BY DEF ReportsAreFaithful
<1> DEFINE id == report[p].id
           got == report[p].got
<1>1. /\ id \in DOMAIN files /\ files[id] \in Seq(Runs \cup {Legacy})
      /\ got \in Seq(Runs \cup {Legacy}) /\ Len(got) = Chunks
      /\ Len(got) <= Len(files[id]) /\ Len(files[id]) <= Chunks
      /\ \A n \in 1..Len(got) : got[n] = files[id][n]
      /\ got # Payload(Legacy)
  BY DEF StoreInv, TypeOK, FilesInv, ReadersInv, ReportState
<1>2. got = files[id]
  <2>1. Len(got) = Len(files[id])
    BY <1>1, ChunksAssumption
  <2>2. got = [n \in 1..Len(got) |-> got[n]]
        /\ files[id] = [n \in 1..Len(files[id]) |-> files[id][n]]
    BY <1>1
  <2> QED
    BY <1>1, <2>1, <2>2
<1>3. id \notin Old
  BY <1>1, <1>2 DEF StoreInv, FilesInv
<1>4. PICK r \in Runs : run[r].id = id /\ WrittenBy(files[id], r)
  BY <1>1, <1>3 DEF StoreInv, FilesInv
<1>5. got = Payload(r)
  <2>1. got = [n \in 1..Len(got) |-> got[n]]
    BY <1>1
  <2> QED
    BY <1>1, <1>2, <1>4, <2>1 DEF Payload, WrittenBy
<1> QED
  BY <1>2, <1>4, <1>5

(* Whatever is rendered is the whole payload of one run, and still what the *)
(* file holds.                                                              *)
THEOREM FaithfulReports == Spec => []ReportsAreFaithful
BY StoreInvariant, StoreShowsFaithfully, PTL

(* Whoever leaves a record unfinished is still writing it, or crashed.      *)
THEOREM TruncationNeedsCrash == Spec => []TruncatedOnlyByCrash
<1>1. StoreInv => TruncatedOnlyByCrash
  <2> SUFFICES ASSUME StoreInv, NEW id \in DOMAIN files, Len(files[id]) # Chunks
               PROVE  \E r \in Runs :
                        run[r].id = id /\ run[r].at \in {"writing", "crashed"}
    BY DEF TruncatedOnlyByCrash, Complete
  <2>1. id \notin Old
    <3>1. Legacy \in {Legacy}
      OBVIOUS
    <3> QED
      BY <3>1, PayloadType DEF StoreInv, FilesInv
  <2> QED
    BY <2>1 DEF StoreInv, FilesInv, WritersInv, Writer
<1> QED
  BY StoreInvariant, <1>1, PTL

RecordsKept ==
  \A id \in DOMAIN files :
    /\ id \in DOMAIN files'
    /\ Len(files'[id]) >= Len(files[id])
    /\ \A n \in 1..Len(files[id]) : files'[id][n] = files[id][n]

(* Every step keeps the records that are complete.                          *)
LEMMA NextKeepsRecords == StoreInv /\ [Next]_vars => RecordsKept
<1> SUFFICES ASSUME StoreInv, [Next]_vars PROVE RecordsKept
  OBVIOUS
<1> USE DEF RecordsKept
<1>1. files \in [DOMAIN files -> Seq(Runs \cup {Legacy})]
  BY DEF StoreInv, TypeOK
<1>2. \A id \in DOMAIN files : Len(files[id]) \in Nat
  BY <1>1
<1>3. CASE files' = files
  BY <1>2, <1>3
<1>4. ASSUME NEW r \in Runs, Create(r) PROVE RecordsKept
  BY <1>2, <1>4 DEF Create
<1>5. ASSUME NEW r \in Runs, Write(r) PROVE RecordsKept
  <2>1. /\ run[r].id \in DOMAIN files
        /\ files' = [files EXCEPT ![run[r].id] = Append(@, r)]
    BY <1>5 DEF Write, StoreInv, TypeOK
  <2> SUFFICES ASSUME NEW id \in DOMAIN files
               PROVE  /\ id \in DOMAIN files'
                      /\ Len(files'[id]) >= Len(files[id])
                      /\ \A n \in 1..Len(files[id]) : files'[id][n] = files[id][n]
    OBVIOUS
  <2>2. CASE id = run[r].id
    <3>1. files[id] \in Seq(Runs \cup {Legacy}) /\ files'[id] = Append(files[id], r)
          /\ DOMAIN files' = DOMAIN files
      BY <1>1, <2>1, <2>2
    <3> QED
      BY <3>1
  <2>3. CASE id # run[r].id
    BY <1>2, <2>1, <2>3
  <2> QED
    BY <2>2, <2>3
<1>6. files' = files \/ \E r \in Runs : Create(r) \/ Write(r)
  BY DEF Next, vars, Tick, RunStep, ReportStep, Start, Abort, Build, Refuse,
         Finish, Crash, OpenRecord, ReadChunk, EndOfFile
<1> QED
  BY <1>3, <1>4, <1>5, <1>6

(* No step of any process removes a record, shortens it or changes a chunk  *)
(* of it.                                                                   *)
THEOREM Finality == Spec => RecordsAreFinal
<1>1. StoreInv /\ [Next]_vars => [RecordsKept]_vars
  BY NextKeepsRecords
<1> QED
  BY <1>1, StoreInvariant, PTL DEF Spec, RecordsAreFinal, RecordsKept

----------------------------------------------------------------------------
(* Splicing a section into a text *)

(* Every non-empty set of natural numbers has a smallest.                   *)
LEMMA SmallestNumber ==
  ASSUME NEW S, S \subseteq Nat, S # {}
  PROVE  \E m \in S : \A n \in S : m <= n
<1> DEFINE less == OpToRel(<, Nat)
<1>1. IsWellFoundedOn(less, Nat)
  BY NatLessThanWellFounded
<1>2. \A m, n \in Nat : m < n => <<m, n>> \in less
  BY DEF OpToRel
<1> HIDE DEF less
<1>3. PICK m \in S : \A n \in S : <<n, m>> \notin less
  BY <1>1, WFMin
<1>4. ASSUME NEW n \in S PROVE m <= n
  <2>1. m \in Nat /\ n \in Nat
    OBVIOUS
  <2>2. ~(n < m)
    BY <1>2, <1>3, <2>1
  <2> QED
    BY <2>1, <2>2
<1> QED
  BY <1>4

(* FirstIn is the first place of a token that is in the text.               *)
LEMMA FirstInIs ==
  ASSUME NEW S, NEW text \in Seq(S), NEW token \in Range(text)
  PROVE  /\ FirstIn(text, token) \in 1..Len(text)
         /\ text[FirstIn(text, token)] = token
         /\ \A n \in 1..Len(text) : n < FirstIn(text, token) => text[n] # token
<1> DEFINE places == {n \in 1..Len(text) : text[n] = token}
<1>1. places \subseteq Nat /\ places # {}
  BY DEF Range
<1>2. FirstIn(text, token) = Min(places)
  BY <1>1 DEF FirstIn, SelectInSeq
<1>3. \E m \in places : \A n \in places : m <= n
  <2> HIDE DEF places
  <2> QED
    BY <1>1, SmallestNumber
<1>4. Min(places) \in places /\ \A n \in places : Min(places) <= n
  <2> HIDE DEF places
  <2> QED
    BY <1>3 DEF Min
<1>5. /\ FirstIn(text, token) \in places
      /\ \A n \in places : FirstIn(text, token) <= n
  <2> HIDE DEF places
  <2> QED
    BY <1>2, <1>4
<1> QED
  BY <1>5

(* A suffix and a prefix, position by position.                             *)
LEMMA BeforeIs ==
  ASSUME NEW S, NEW text \in Seq(S), NEW token \in Range(text)
  PROVE  /\ Before(text, token) \in Seq(S)
         /\ Len(Before(text, token)) = FirstIn(text, token) - 1
         /\ \A n \in 1..(FirstIn(text, token) - 1) : Before(text, token)[n] = text[n]
<1>1. FirstIn(text, token) \in 1..Len(text) /\ Len(text) \in Nat
  BY FirstInIs
<1>2. Before(text, token) = SubSeq(text, 1, FirstIn(text, token) - 1)
  BY DEF Before
<1> QED
  BY <1>1, <1>2

(* What comes after that place, position by position.                       *)
LEMMA AfterIs ==
  ASSUME NEW S, NEW text \in Seq(S), NEW token \in Range(text)
  PROVE  /\ After(text, token) \in Seq(S)
         /\ Len(After(text, token)) = Len(text) - FirstIn(text, token)
         /\ \A n \in 1..(Len(text) - FirstIn(text, token)) :
              After(text, token)[n] = text[FirstIn(text, token) + n]
<1>1. FirstIn(text, token) \in 1..Len(text) /\ Len(text) \in Nat
  BY FirstInIs
<1>2. After(text, token) = SubSeq(text, FirstIn(text, token) + 1, Len(text))
  BY DEF After
<1> QED
  BY <1>1, <1>2

(* A concatenation, position by position.                                   *)
LEMMA ConcatIs ==
  ASSUME NEW S, NEW s \in Seq(S), NEW t \in Seq(S), NEW both, both = s \o t
  PROVE  /\ both \in Seq(S) /\ Len(both) = Len(s) + Len(t)
         /\ \A n \in 1..Len(s) : both[n] = s[n]
         /\ \A n \in 1..Len(t) : both[Len(s) + n] = t[n]
OBVIOUS

\* new is text up to its first BEGIN, then the two tokens of a section between
\* the markers, then what text has after cut, which is the first END past that
\* BEGIN, or the end of text.
IsSplice(text, cites, figures, new, begin, cut) ==
  /\ begin \in 1..Len(text) /\ text[begin] = BEGIN
  /\ \A n \in 1..Len(text) : n < begin => text[n] # BEGIN
  /\ cut \in begin..Len(text)
  /\ cut = Len(text) \/ text[cut] = END
  /\ \A n \in 1..Len(text) : begin < n /\ text[n] = END => cut <= n
  /\ Len(new) = begin + 3 + (Len(text) - cut)
  /\ \A n \in 1..begin : new[n] = text[n]
  /\ new[begin + 1] = cites /\ new[begin + 2] = figures /\ new[begin + 3] = END
  /\ \A n \in 1..(Len(text) - cut) : new[begin + 3 + n] = text[cut + n]

(* splice_into_readme gives a splice of the text, whatever the text is.     *)
LEMMA SpliceIs ==
  ASSUME NEW S, NEW text \in Seq(S), BEGIN \in Range(text), NEW cites \in S,
         NEW figures \in S, BEGIN \in S, END \in S
  PROVE  /\ splice_into_readme(text, <<cites, figures>>) \in Seq(S)
         /\ \E begin, cut \in 1..Len(text) :
              IsSplice(text, cites, figures,
                       splice_into_readme(text, <<cites, figures>>), begin, cut)
<1> DEFINE begin == FirstIn(text, BEGIN)
           head == Before(text, BEGIN)
           rest == After(text, BEGIN)
           tail == After(rest, END)
           cut == IF END \in Range(rest) THEN begin + FirstIn(rest, END) ELSE Len(text)
           new == head \o <<BEGIN>> \o <<cites, figures>> \o <<END>> \o tail
<1>1. splice_into_readme(text, <<cites, figures>>) = new
  BY DEF splice_into_readme
<1>2. /\ begin \in 1..Len(text) /\ text[begin] = BEGIN /\ Len(text) \in Nat
      /\ \A n \in 1..Len(text) : n < begin => text[n] # BEGIN
  BY FirstInIs
<1>3. /\ head \in Seq(S) /\ Len(head) = begin - 1
      /\ \A n \in 1..(begin - 1) : head[n] = text[n]
  BY BeforeIs
<1>4. /\ rest \in Seq(S) /\ Len(rest) = Len(text) - begin
      /\ \A n \in 1..(Len(text) - begin) : rest[n] = text[begin + n]
  BY AfterIs
<1>5. /\ cut \in begin..Len(text) /\ (cut = Len(text) \/ text[cut] = END)
      /\ \A n \in 1..Len(text) : begin < n /\ text[n] = END => cut <= n
      /\ tail \in Seq(S) /\ Len(tail) = Len(text) - cut
      /\ \A n \in 1..(Len(text) - cut) : tail[n] = text[cut + n]
  <2> HIDE DEF begin, head, rest
  <2>0. \A n \in 1..Len(text) : begin < n =>
          n - begin \in 1..(Len(text) - begin) /\ text[n] = rest[n - begin]
    BY <1>2, <1>4
  <2>1. CASE END \in Range(rest)
    <3> DEFINE e == FirstIn(rest, END)
    <3>1. /\ e \in 1..Len(rest) /\ rest[e] = END /\ cut = begin + e
          /\ \A n \in 1..Len(rest) : n < e => rest[n] # END
      BY <1>4, <2>1, FirstInIs
    <3>2. /\ tail \in Seq(S) /\ Len(tail) = Len(rest) - e
          /\ \A n \in 1..(Len(rest) - e) : tail[n] = rest[e + n]
      BY <1>4, <2>1, AfterIs
    <3> HIDE DEF e, tail, cut
    <3>3. cut \in begin..Len(text) /\ text[cut] = END
      BY <1>2, <1>4, <3>1
    <3>4. \A n \in 1..Len(text) : begin < n /\ text[n] = END => cut <= n
      BY <1>2, <1>4, <2>0, <3>1
    <3>5. \A n \in 1..(Len(text) - cut) : tail[n] = text[cut + n]
      <4> SUFFICES ASSUME NEW n \in 1..(Len(text) - cut) PROVE tail[n] = text[cut + n]
        OBVIOUS
      <4>1. n \in 1..(Len(rest) - e) /\ e + n \in 1..(Len(text) - begin)
        BY <1>2, <1>4, <3>1
      <4>2. tail[n] = rest[e + n] /\ rest[e + n] = text[begin + (e + n)]
        BY <1>4, <3>2, <4>1
      <4>3. begin + (e + n) = cut + n
        BY <1>2, <1>4, <3>1
      <4> QED
        BY <4>2, <4>3
    <3> QED
      BY <1>2, <1>4, <3>1, <3>2, <3>3, <3>4, <3>5
  <2>2. CASE END \notin Range(rest)
    <3>1. cut = Len(text) /\ tail = <<>>
      BY <2>2 DEF After
    <3>2. \A n \in 1..Len(rest) : rest[n] # END
      BY <1>4, <2>2 DEF Range
    <3>3. \A n \in 1..Len(text) : begin < n => text[n] # END
      BY <1>4, <2>0, <3>2
    <3>4. <<>> \in Seq(S) /\ Len(<<>>) = 0
      OBVIOUS
    <3> HIDE DEF tail, cut
    <3>5. cut \in begin..Len(text) /\ Len(text) - cut = 0
      BY <1>2, <3>1
    <3> QED
      BY <3>1, <3>3, <3>4, <3>5
  <2> QED
    BY <2>1, <2>2
<1>6. /\ new \in Seq(S) /\ Len(new) = begin + 3 + (Len(text) - cut)
      /\ \A n \in 1..begin : new[n] = text[n]
      /\ new[begin + 1] = cites /\ new[begin + 2] = figures /\ new[begin + 3] = END
      /\ \A n \in 1..(Len(text) - cut) : new[begin + 3 + n] = text[cut + n]
  <2> DEFINE front == head \o <<BEGIN>> \o <<cites, figures>> \o <<END>>
  <2> HIDE DEF begin, head, rest, tail, cut
  <2>1. /\ front \in Seq(S) /\ Len(front) = begin + 3
        /\ \A n \in 1..(begin - 1) : front[n] = head[n]
        /\ front[begin] = BEGIN /\ front[begin + 1] = cites
        /\ front[begin + 2] = figures /\ front[begin + 3] = END
    <3> DEFINE one == head \o <<BEGIN>>
               two == one \o <<cites, figures>>
    <3>1. /\ one \in Seq(S) /\ Len(one) = begin /\ one[begin] = BEGIN
          /\ \A n \in 1..(begin - 1) : one[n] = head[n]
      BY <1>2, <1>3
    <3> HIDE DEF one
    <3>2. /\ two \in Seq(S) /\ Len(two) = begin + 2
          /\ \A n \in 1..begin : two[n] = one[n]
          /\ two[begin + 1] = cites /\ two[begin + 2] = figures
      BY <1>2, <3>1
    <3> HIDE DEF two
    <3>3. front = two \o <<END>>
      BY DEF one, two
    <3> HIDE DEF front
    <3>4. /\ front \in Seq(S) /\ Len(front) = begin + 3
          /\ \A n \in 1..(begin + 2) : front[n] = two[n]
          /\ front[begin + 3] = END
      <4>1. <<END>> \in Seq(S) /\ Len(<<END>>) = 1 /\ <<END>>[1] = END
        OBVIOUS
      <4> QED
        BY <1>2, <3>2, <3>3, <4>1, ConcatIs
    <3> QED
      BY <1>2, <3>1, <3>2, <3>4
  <2>2. new = front \o tail
    OBVIOUS
  <2> HIDE DEF front, new
  <2>3. /\ new \in Seq(S) /\ Len(new) = begin + 3 + (Len(text) - cut)
        /\ \A n \in 1..(begin + 3) : new[n] = front[n]
        /\ \A n \in 1..(Len(text) - cut) : new[begin + 3 + n] = tail[n]
    <3>1. /\ new \in Seq(S) /\ Len(new) = Len(front) + Len(tail)
          /\ \A n \in 1..Len(front) : new[n] = front[n]
          /\ \A n \in 1..Len(tail) : new[Len(front) + n] = tail[n]
      <4>1. front \in Seq(S) /\ tail \in Seq(S)
        BY <1>5, <2>1
      <4> QED
        BY <2>2, <4>1, ConcatIs
    <3>2. Len(front) = begin + 3 /\ Len(tail) = Len(text) - cut
      BY <1>5, <2>1
    <3>3. new \in Seq(S) /\ Len(new) = begin + 3 + (Len(text) - cut)
      BY <3>1, <3>2
    <3>4. \A n \in 1..(begin + 3) : new[n] = front[n]
      BY <3>1, <3>2
    <3>5. \A n \in 1..(Len(text) - cut) : new[begin + 3 + n] = tail[n]
      BY <3>1, <3>2
    <3> QED
      BY <3>3, <3>4, <3>5
  <2>4. begin \in 1..(begin + 3) /\ \A n \in 1..(begin - 1) : n \in 1..(begin + 3)
    BY <1>2
  <2>5. \A n \in 1..begin : n = begin \/ n \in 1..(begin - 1)
    BY <1>2
  <2>6. begin + 1 \in 1..(begin + 3) /\ begin + 2 \in 1..(begin + 3)
        /\ begin + 3 \in 1..(begin + 3)
    BY <1>2
  <2> QED
    BY <1>2, <1>3, <1>5, <2>1, <2>3, <2>4, <2>5, <2>6
<1> HIDE DEF begin, head, rest, tail, cut, new
<1>7. begin \in 1..Len(text) /\ cut \in 1..Len(text)
  BY <1>2, <1>5
<1>8. IsSplice(text, cites, figures, new, begin, cut)
  BY <1>2, <1>5, <1>6 DEF IsSplice
<1> QED
  BY <1>1, <1>6, <1>7, <1>8

----------------------------------------------------------------------------
(* What splicing keeps *)

\* Each figures token of text is one of these, cited by the token before it.
Cited(text, records) ==
  \A n \in 1..Len(text) : Head(text[n]) = "figures" =>
    \E record \in records :
      /\ text[n] = Figures(record.got)
      /\ n > 1 /\ text[n - 1] = Cites(record.id)

\* The figures of text are those of records.
Shows(text, records) ==
  \A n \in 1..Len(text) : Head(text[n]) = "figures" =>
    \E record \in records : text[n] = Figures(record.got)

(* The kinds of token are told apart by their first component.              *)
LEMMA TokensDiffer ==
  /\ \A id : Head(Cites(id)) = "cites" /\ Cites(id) # END /\ Cites(id) # BEGIN
  /\ \A got : Head(Figures(got)) = "figures" /\ Figures(got) # END /\ Figures(got) # BEGIN
  /\ Head(BEGIN) = "begin" /\ Head(END) = "end" /\ Head(Hole) = "hole"
BY DEF Cites, Figures, BEGIN, END, Hole

(* The section cites the record whose figures it has, and what is beside it *)
(* was beside it before.                                                    *)
LEMMA SpliceStaysCited ==
  ASSUME NEW S, NEW text \in Seq(S), NEW new \in Seq(S), NEW records,
         NEW record \in records, NEW begin \in 1..Len(text), NEW cut \in 1..Len(text),
         IsSplice(text, Cites(record.id), Figures(record.got), new, begin, cut),
         Cited(text, records)
  PROVE  Cited(new, records)
<1> SUFFICES ASSUME NEW n \in 1..Len(new), Head(new[n]) = "figures"
             PROVE  \E other \in records :
                      /\ new[n] = Figures(other.got)
                      /\ n > 1 /\ new[n - 1] = Cites(other.id)
  BY DEF Cited
<1>1. Len(text) \in Nat /\ begin \in Nat /\ cut \in Nat /\ Len(new) \in Nat /\ n \in Nat
  OBVIOUS
<1>2. CASE n <= begin
  <2>1. n \in 1..begin /\ n \in 1..Len(text) /\ (n > 1 => n - 1 \in 1..begin)
    BY <1>1, <1>2
  <2>2. new[n] = text[n] /\ (n > 1 => new[n - 1] = text[n - 1])
    BY <2>1 DEF IsSplice
  <2> QED
    BY <2>1, <2>2 DEF Cited
<1>3. CASE n = begin + 1
  BY <1>3, TokensDiffer DEF IsSplice
<1>4. CASE n = begin + 2
  <2>1. n > 1 /\ n - 1 = begin + 1
    BY <1>1, <1>4
  <2> QED
    BY <1>4, <2>1 DEF IsSplice
<1>5. CASE n = begin + 3
  BY <1>5, TokensDiffer DEF IsSplice
<1>6. CASE n > begin + 3
  <2> DEFINE m == n - (begin + 3)
  <2>1. /\ m \in 1..(Len(text) - cut) /\ n = begin + 3 + m
        /\ cut + m \in 1..Len(text) /\ cut + m > 1
    BY <1>1, <1>6 DEF IsSplice
  <2>2. new[n] = text[cut + m]
    BY <2>1 DEF IsSplice
  <2>3. PICK other \in records :
          text[cut + m] = Figures(other.got) /\ text[cut + m - 1] = Cites(other.id)
    BY <2>1, <2>2 DEF Cited
  <2>4. CASE m = 1
    <3>1. text[cut] = END
      BY <1>1, <2>1 DEF IsSplice
    <3>2. cut + m - 1 = cut
      BY <1>1, <2>4
    <3> QED
      BY <2>3, <3>1, <3>2, TokensDiffer
  <2>5. CASE m > 1
    <3>1. m - 1 \in 1..(Len(text) - cut) /\ n - 1 = begin + 3 + (m - 1)
          /\ cut + (m - 1) = cut + m - 1
      BY <1>1, <2>1, <2>5
    <3>2. new[n - 1] = text[cut + m - 1]
      BY <3>1 DEF IsSplice
    <3>3. n > 1
      BY <1>1, <1>6
    <3> QED
      BY <2>2, <2>3, <3>2, <3>3
  <2> QED
    BY <2>1, <2>4, <2>5
<1> QED
  BY <1>1, <1>2, <1>3, <1>4, <1>5, <1>6

(* Splicing shows no figures but the section's and those that were there.   *)
LEMMA SpliceShows ==
  ASSUME NEW S, NEW text \in Seq(S), NEW new \in Seq(S), NEW records,
         NEW record \in records, NEW begin \in 1..Len(text), NEW cut \in 1..Len(text),
         IsSplice(text, Cites(record.id), Figures(record.got), new, begin, cut),
         Shows(text, records)
  PROVE  Shows(new, records)
<1> SUFFICES ASSUME NEW n \in 1..Len(new), Head(new[n]) = "figures"
             PROVE  \E other \in records : new[n] = Figures(other.got)
  BY DEF Shows
<1>1. Len(text) \in Nat /\ begin \in Nat /\ cut \in Nat /\ Len(new) \in Nat /\ n \in Nat
  OBVIOUS
<1>2. CASE n <= begin
  <2>1. n \in 1..begin /\ n \in 1..Len(text)
    BY <1>1, <1>2
  <2>2. new[n] = text[n]
    BY <2>1 DEF IsSplice
  <2> QED
    BY <2>1, <2>2 DEF Shows
<1>3. CASE n = begin + 1 \/ n = begin + 3
  BY <1>3, TokensDiffer DEF IsSplice
<1>4. CASE n = begin + 2
  BY <1>4 DEF IsSplice
<1>5. CASE n > begin + 3
  <2> DEFINE m == n - (begin + 3)
  <2>1. /\ m \in 1..(Len(text) - cut) /\ n = begin + 3 + m /\ cut + m \in 1..Len(text)
    BY <1>1, <1>5 DEF IsSplice
  <2>2. new[n] = text[cut + m]
    BY <2>1 DEF IsSplice
  <2> QED
    BY <2>1, <2>2 DEF Shows
<1> QED
  BY <1>1, <1>2, <1>3, <1>4, <1>5

(* What is outside the markers stays, and stays outside.                    *)
LEMMA SpliceKeepsProse ==
  ASSUME NEW S, NEW text \in Seq(S), NEW new \in Seq(S), NEW id, NEW got,
         NEW begin \in 1..Len(text), NEW cut \in 1..Len(text),
         IsSplice(text, Cites(id), Figures(got), new, begin, cut)
  PROVE  Outside(text) \subseteq Outside(new)
<1> SUFFICES ASSUME NEW line \in Outside(text) PROVE line \in Outside(new)
  OBVIOUS
<1> PICK m \in 1..Len(text) :
      /\ line = text[m] /\ Head(text[m]) = "prose"
      /\ \A b \in 1..(m - 1) : text[b] = BEGIN =>
           \E e \in (b + 1)..(m - 1) : text[e] = END
  BY DEF Outside
<1> SUFFICES \E k \in 1..Len(new) :
               /\ new[k] = text[m]
               /\ \A b \in 1..(k - 1) : new[b] = BEGIN =>
                    \E e \in (b + 1)..(k - 1) : new[e] = END
  BY DEF Outside
<1>1. Len(text) \in Nat /\ begin \in Nat /\ cut \in Nat /\ Len(new) \in Nat /\ m \in Nat
  OBVIOUS
<1>2. text[begin] = BEGIN
  BY DEF IsSplice
<1>3. CASE m <= begin
  <2>1. m # begin
    BY <1>2, TokensDiffer
  <2>2. /\ m \in 1..Len(new) /\ m \in 1..begin
        /\ \A b \in 1..(m - 1) : b \in 1..begin /\ b \in 1..Len(text) /\ b < begin
    BY <1>1, <1>3, <2>1 DEF IsSplice
  <2>3. new[m] = text[m] /\ \A b \in 1..(m - 1) : new[b] # BEGIN
    BY <2>2 DEF IsSplice
  <2> QED
    BY <2>2, <2>3
<1>4. CASE m > begin
  <2>1. PICK f \in (begin + 1)..(m - 1) : text[f] = END
    <3>1. begin \in 1..(m - 1)
      BY <1>1, <1>4
    <3> QED
      BY <1>2, <3>1
  <2>2. cut <= f /\ cut < m
    <3>1. f \in 1..Len(text) /\ begin < f /\ f < m
      BY <1>1, <2>1
    <3> QED
      BY <1>1, <2>1, <3>1 DEF IsSplice
  <2> DEFINE k == begin + 3 + (m - cut)
  <2>3. /\ m - cut \in 1..(Len(text) - cut) /\ k \in 1..Len(new) /\ k > begin + 3
        /\ cut + (m - cut) = m
    BY <1>1, <2>2 DEF IsSplice
  <2>4. new[k] = text[m]
    BY <2>3 DEF IsSplice
  <2>5. ASSUME NEW b \in 1..(k - 1), new[b] = BEGIN
        PROVE  \E e \in (b + 1)..(k - 1) : new[e] = END
    <3>1. CASE b <= begin
      <4>1. begin + 3 \in (b + 1)..(k - 1)
        BY <1>1, <2>3, <3>1
      <4> QED
        BY <4>1 DEF IsSplice
    <3>2. b # begin + 1 /\ b # begin + 2 /\ b # begin + 3
      BY <2>5, TokensDiffer DEF IsSplice
    <3>3. CASE b > begin + 3
      <4> DEFINE a == b - (begin + 3)
      <4>1. /\ a \in 1..(Len(text) - cut) /\ b = begin + 3 + a /\ cut + a \in 1..(m - 1)
        BY <1>1, <2>3, <3>3
      <4>2. text[cut + a] = BEGIN
        BY <2>5, <4>1 DEF IsSplice
      <4>3. PICK e \in (cut + a + 1)..(m - 1) : text[e] = END
        BY <4>1, <4>2
      <4> DEFINE d == e - cut
      <4>4. /\ d \in 1..(Len(text) - cut) /\ cut + d = e
            /\ begin + 3 + d \in (b + 1)..(k - 1)
        BY <1>1, <2>3, <4>1, <4>3
      <4>5. new[begin + 3 + d] = END
        BY <4>3, <4>4 DEF IsSplice
      <4> QED
        BY <4>4, <4>5
    <3> QED
      BY <1>1, <2>3, <3>1, <3>2, <3>3
  <2> QED
    BY <2>3, <2>4, <2>5
<1> QED
  BY <1>1, <1>3, <1>4

----------------------------------------------------------------------------
(* Writing a text over a file *)

(* The greater of two numbers.                                              *)
LEMMA MaxOfTwo ==
  ASSUME NEW m \in Int, NEW n \in Int
  PROVE  Max({m, n}) = IF m >= n THEN m ELSE n
BY DEF Max

(* The lesser of two numbers.                                               *)
LEMMA MinOfTwo ==
  ASSUME NEW m \in Int, NEW n \in Int
  PROVE  Min({m, n}) = IF m <= n THEN m ELSE n
BY DEF Min

(* A file written over holds, at each place, the text, what it held or a    *)
(* hole; one that held only what this writer wrote holds what it has        *)
(* written so far.                                                          *)
LEMMA OverwrittenIs ==
  ASSUME NEW S, Hole \in S, NEW file \in Seq(S), NEW text \in Seq(S),
         NEW from \in Nat, NEW to \in Nat, from <= to, to <= Len(text)
  PROVE  /\ Overwritten(file, text, from, to) \in Seq(S)
         /\ \A n \in 1..Len(Overwritten(file, text, from, to)) :
              \/ n \in 1..Len(text) /\ Overwritten(file, text, from, to)[n] = text[n]
              \/ n \in 1..Len(file) /\ Overwritten(file, text, from, to)[n] = file[n]
              \/ Overwritten(file, text, from, to)[n] = Hole
         /\ file = SubSeq(text, 1, from)
              => Overwritten(file, text, from, to) = SubSeq(text, 1, to)
<1> DEFINE size == IF to >= Len(file) THEN to ELSE Len(file)
           Token(n) == IF n \in (from + 1)..to THEN text[n]
                       ELSE IF n <= Len(file) THEN file[n] ELSE Hole
           new == [n \in 1..size |-> Token(n)]
<1>1. Len(file) \in Nat /\ Len(text) \in Nat /\ size \in Nat
  OBVIOUS
<1>2. Max({to, Len(file)}) = size
  BY <1>1, MaxOfTwo
<1>3. Overwritten(file, text, from, to) = new
  BY <1>2 DEF Overwritten
<1>4. ASSUME NEW n \in 1..size
      PROVE  /\ Token(n) \in S
             /\ \/ n \in 1..Len(text) /\ Token(n) = text[n]
                \/ n \in 1..Len(file) /\ Token(n) = file[n]
                \/ Token(n) = Hole
  BY <1>1
<1> HIDE DEF size, Token
<1>5. new \in Seq(S) /\ Len(new) = size /\ \A n \in 1..size : new[n] = Token(n)
  BY <1>1, <1>4
<1>6. ASSUME file = SubSeq(text, 1, from) PROVE new = SubSeq(text, 1, to)
  <2>1. /\ from <= Len(text) /\ Len(file) = from
        /\ \A n \in 1..from : file[n] = text[n]
    BY <1>1, <1>6
  <2>2. size = to
    BY <1>1, <2>1 DEF size
  <2>3. \A n \in 1..to : Token(n) = text[n]
    BY <1>1, <2>1 DEF Token
  <2>4. SubSeq(text, 1, to) = [n \in 1..to |-> text[n]]
    BY <1>1
  <2> QED
    BY <2>2, <2>3, <2>4
<1> HIDE DEF new
<1> QED
  BY <1>3, <1>4, <1>5, <1>6

(* What is written of a cited text is cited.                                *)
LEMMA PrefixStaysCited ==
  ASSUME NEW S, NEW text \in Seq(S), NEW to \in 0..Len(text), NEW records,
         Cited(text, records)
  PROVE  Cited(SubSeq(text, 1, to), records)
<1>1. /\ Len(SubSeq(text, 1, to)) = to /\ Len(text) \in Nat
      /\ \A n \in 1..to : SubSeq(text, 1, to)[n] = text[n]
  OBVIOUS
<1>2. \A n \in 1..to : n \in 1..Len(text) /\ (n > 1 => n - 1 \in 1..to)
  BY <1>1
<1> QED
  BY <1>1, <1>2 DEF Cited

----------------------------------------------------------------------------
(* The inductive invariant *)

\* What README.md, and a text on its way there, are made of.
Token ==
  (UNION {Range(draft) : draft \in Drafts}) \cup {BEGIN, END, Hole}
    \cup {Cites(id) : id \in Seconds} \cup {Figures(got) : got \in Seq(Runs \cup {Legacy})}

(* The tokens a publication writes are tokens.                              *)
LEMMA TokensAre ==
  /\ BEGIN \in Token /\ END \in Token /\ Hole \in Token
  /\ \A id \in Seconds : Cites(id) \in Token
  /\ \A got \in Seq(Runs \cup {Legacy}) : Figures(got) \in Token
<1>1. BEGIN \in Token /\ END \in Token /\ Hole \in Token
  BY DEF Token
<1>2. \A id \in Seconds : Cites(id) \in Token
  BY DEF Token
<1>3. \A got \in Seq(Runs \cup {Legacy}) : Figures(got) \in Token
  BY DEF Token
<1> QED
  BY <1>1, <1>2, <1>3

PublisherSteps == {"idle", "spliced", "writing", "published", "failed", "killed"}

PublisherState ==
  [at : PublisherSteps, text : Seq(Token), wrote : Nat, linked : BOOLEAN]

PubTypes ==
  /\ readme \in Seq(Token) /\ saved \in Seq(Token) /\ disturbed \in BOOLEAN
  /\ publication \in [Publishers -> PublisherState]
  /\ \A p \in Publishers :
       /\ publication[p].wrote <= Len(publication[p].text)
       /\ publication[p].at \in {"idle", "spliced"} =>
            publication[p].wrote = 0 /\ publication[p].linked

\* The complete records of a store.
Records(store) ==
  {[id |-> id, got |-> store[id]] : id \in {i \in DOMAIN store : Len(store[i]) = Chunks}}

ShownInv ==
  /\ Shows(readme, Records(files))
  /\ \A p \in Publishers : Shows(publication[p].text, Records(files))

\* A text people would have: its figures are cited and their prose is in it.
Sound(text, records, prose) == Cited(text, records) /\ Outside(prose) \subseteq Outside(text)

\* While nobody is disturbed at most one publisher is between its read and the
\* end of its write, and README.md is what that one has written of a sound text.
UndisturbedInv ==
  ~disturbed =>
    /\ \A p, q \in Publishers : Busy(p) /\ Busy(q) => p = q
    /\ \A p \in Publishers : Busy(p) => Sound(publication[p].text, Records(files), saved)
    /\ \A p \in Publishers : publication[p].at = "writing" =>
         /\ publication[p].linked
         /\ readme = SubSeq(publication[p].text, 1, publication[p].wrote)
    /\ (\A p \in Publishers : publication[p].at # "writing")
         => Sound(readme, Records(files), saved)

PubInv == StoreInv /\ PubTypes /\ ShownInv /\ UndisturbedInv

(* Figures that are cited are figures of a record.                          *)
LEMMA CitedShows ==
  ASSUME NEW text, NEW records, Cited(text, records)
  PROVE  Shows(text, records)
BY DEF Cited, Shows

(* More records take nothing away from a text.                              *)
LEMMA MoreRecords ==
  ASSUME NEW text, NEW records, NEW more, records \subseteq more
  PROVE  /\ Shows(text, records) => Shows(text, more)
         /\ Cited(text, records) => Cited(text, more)
         /\ \A prose : Sound(text, records, prose) => Sound(text, more, prose)
BY DEF Shows, Cited, Sound

(* A person's draft is a sound text while the old records are there.        *)
LEMMA DraftsAreSound ==
  ASSUME StoreInv, NEW draft \in Drafts
  PROVE  draft \in Seq(Token) /\ Sound(draft, Records(files), draft)
<1>1. draft \in Seq(Range(draft)) /\ Range(draft) \subseteq Token
  BY DraftsAssumption DEF Token
<1>2. draft \in Seq(Token)
  BY <1>1
<1>3. ASSUME NEW n \in 1..Len(draft), Head(draft[n]) = "figures"
      PROVE  \E record \in Records(files) :
               /\ draft[n] = Figures(record.got)
               /\ n > 1 /\ draft[n - 1] = Cites(record.id)
  <2>1. n \in DOMAIN draft
    BY <1>1
  <2>2. PICK id \in Old : /\ draft[n] = Figures(Payload(Legacy))
                          /\ n > 1 /\ draft[n - 1] = Cites(id)
    BY <1>3, <2>1, DraftsAssumption
  <2>3. Legacy \in {Legacy}
    OBVIOUS
  <2>4. id \in DOMAIN files /\ files[id] = Payload(Legacy) /\ Len(files[id]) = Chunks
    BY <2>3, PayloadType DEF StoreInv, FilesInv
  <2> DEFINE record == [id |-> id, got |-> files[id]]
  <2>5. record \in Records(files)
    BY <2>4 DEF Records
  <2>6. record.id = id /\ record.got = Payload(Legacy)
    BY <2>4
  <2> HIDE DEF record
  <2> QED
    BY <2>2, <2>5, <2>6
<1> QED
  BY <1>2, <1>3 DEF Sound, Cited

(* The invariant holds at the start.                                        *)
LEMMA InitPublished == PubInit => PubInv
<1> SUFFICES ASSUME PubInit PROVE PubInv
  OBVIOUS
<1>1. StoreInv
  BY InitStore DEF PubInit
<1>2. /\ readme \in Drafts /\ saved = readme /\ disturbed = FALSE
      /\ publication = [p \in Publishers |->
           [at |-> "idle", text |-> <<>>, wrote |-> 0, linked |-> TRUE]]
  BY DEF PubInit
<1>3. readme \in Seq(Token) /\ Sound(readme, Records(files), readme)
  BY <1>1, <1>2, DraftsAreSound
<1>4. PubTypes
  <2>1. [at |-> "idle", text |-> <<>>, wrote |-> 0, linked |-> TRUE] \in PublisherState
    BY DEF PublisherState, PublisherSteps
  <2>2. publication \in [Publishers -> PublisherState]
    BY <1>2, <2>1
  <2>3. \A p \in Publishers :
          /\ publication[p].at = "idle" /\ publication[p].wrote = 0
          /\ publication[p].linked /\ publication[p].text = <<>>
    BY <1>2
  <2>4. Len(<<>>) = 0
    OBVIOUS
  <2>5. \A p \in Publishers :
          /\ publication[p].wrote <= Len(publication[p].text)
          /\ publication[p].at \in {"idle", "spliced"} =>
               publication[p].wrote = 0 /\ publication[p].linked
    BY <2>3, <2>4
  <2> QED
    BY <1>2, <1>3, <2>2, <2>5 DEF PubTypes
<1>5. ShownInv
  BY <1>2, <1>3, CitedShows DEF ShownInv, Sound, Shows
<1>6. UndisturbedInv
  BY <1>2, <1>3 DEF UndisturbedInv, Busy
<1> QED
  BY <1>1, <1>4, <1>5, <1>6 DEF PubInv

(* The store only ever gains complete records, whoever is publishing.       *)
LEMMA RecordsStay ==
  ASSUME StoreInv, StoreInv', [Next]_vars
  PROVE  Records(files) \subseteq Records(files')
<1> SUFFICES ASSUME NEW id \in DOMAIN files, Len(files[id]) = Chunks
             PROVE  /\ id \in DOMAIN files' /\ Len(files'[id]) = Chunks
                    /\ files'[id] = files[id]
  BY DEF Records
<1>1. /\ id \in DOMAIN files' /\ Len(files'[id]) >= Len(files[id])
      /\ \A n \in 1..Len(files[id]) : files'[id][n] = files[id][n]
  BY NextKeepsRecords DEF RecordsKept
<1>2. Len(files'[id]) <= Chunks
  BY <1>1 DEF StoreInv, FilesInv
<1>3. files[id] \in Seq(Runs \cup {Legacy}) /\ files'[id] \in Seq(Runs \cup {Legacy})
  BY <1>1 DEF StoreInv, TypeOK
<1>4. Len(files'[id]) = Chunks
  BY <1>1, <1>2, <1>3, ChunksAssumption
<1>5. /\ files[id] = [n \in 1..Len(files[id]) |-> files[id][n]]
      /\ files'[id] = [n \in 1..Len(files'[id]) |-> files'[id][n]]
  BY <1>3
<1>6. files'[id] = files[id]
  BY <1>1, <1>4, <1>5
<1> QED
  BY <1>1, <1>4, <1>6

(* A step of the store keeps it, records being only added.                  *)
LEMMA StoreStepPublished ==
  ASSUME PubInv, [Next]_vars, UNCHANGED pubVars
  PROVE  PubInv'
<1>1. StoreInv /\ StoreInv'
  BY NextStore DEF PubInv
<1>2. Records(files) \subseteq Records(files')
  BY <1>1, RecordsStay
<1>3. /\ readme' = readme /\ publication' = publication /\ saved' = saved
      /\ disturbed' = disturbed
  BY DEF pubVars
<1>4. PubTypes'
  BY <1>3 DEF PubInv, PubTypes
<1>5. ShownInv'
  BY <1>2, <1>3, MoreRecords DEF PubInv, ShownInv
<1>6. UndisturbedInv'
  <2>1. \A text : Sound(text, Records(files), saved) => Sound(text, Records(files'), saved)
    BY <1>2, MoreRecords
  <2> QED
    BY <1>3, <2>1 DEF PubInv, UndisturbedInv, Busy
<1> QED
  BY <1>1, <1>4, <1>5, <1>6 DEF PubInv

(* A step of a publisher or of a person leaves the store alone.             *)
LEMMA StoreUntouched ==
  ASSUME StoreInv, UNCHANGED vars
  PROVE  StoreInv' /\ files' = files
<1>1. StoreInv'
  BY NextStore
<1> QED
  BY <1>1 DEF vars

(* What moving a publisher on does, and to whom.                            *)
LEMMA PublisherMoved ==
  ASSUME PubTypes, NEW p \in Publishers, NEW from, NEW to \in PublisherSteps,
         MovePublisher(p, from, to)
  PROVE  /\ publication' \in [Publishers -> PublisherState]
         /\ publication[p].at = from /\ publication'[p].at = to
         /\ publication'[p].text = publication[p].text
         /\ publication'[p].wrote = publication[p].wrote
         /\ publication'[p].linked = publication[p].linked
         /\ \A q \in Publishers \ {p} : publication'[q] = publication[q]
         /\ saved' = saved /\ UNCHANGED vars
BY DEF MovePublisher, PubTypes, PublisherState

(* A publisher that only moves on keeps its text, and the types.            *)
LEMMA MovedShows ==
  ASSUME PubInv, NEW p \in Publishers, NEW from, NEW to \in PublisherSteps,
         MovePublisher(p, from, to), to \in {"idle", "spliced"} => FALSE,
         readme' \in Seq(Token), disturbed' \in BOOLEAN, Shows(readme', Records(files))
  PROVE  PubTypes' /\ ShownInv' /\ StoreInv'
<1>1. /\ publication' \in [Publishers -> PublisherState]
      /\ publication'[p].at = to
      /\ publication'[p].text = publication[p].text
      /\ publication'[p].wrote = publication[p].wrote
      /\ \A q \in Publishers \ {p} : publication'[q] = publication[q]
      /\ saved' = saved /\ UNCHANGED vars
  BY PublisherMoved DEF PubInv
<1>2. StoreInv' /\ files' = files
  BY <1>1, StoreUntouched DEF PubInv
<1>3. PubTypes'
  BY <1>1 DEF PubInv, PubTypes
<1>4. ShownInv'
  BY <1>1, <1>2 DEF PubInv, ShownInv
<1> QED
  BY <1>2, <1>3, <1>4

(* A publication that fails has written nothing.                            *)
LEMMA FailPublished ==
  ASSUME PubInv, NEW p \in Publishers, FailToSplice(p)
  PROVE  PubInv'
<1>1. MovePublisher(p, "idle", "failed") /\ readme' = readme /\ disturbed' = disturbed
  BY DEF FailToSplice
<1>2. "failed" \in PublisherSteps
  BY DEF PublisherSteps
<1>3. /\ publication[p].at = "idle" /\ publication'[p].at = "failed"
      /\ \A q \in Publishers \ {p} : publication'[q] = publication[q]
      /\ saved' = saved /\ UNCHANGED vars
  BY <1>1, <1>2, PublisherMoved DEF PubInv
<1>4. PubTypes' /\ ShownInv' /\ StoreInv'
  BY <1>1, <1>2, MovedShows DEF PubInv, PubTypes, ShownInv
<1>5. files' = files
  BY <1>3 DEF vars
<1>6. UndisturbedInv'
  BY <1>1, <1>3, <1>5 DEF PubInv, UndisturbedInv, Busy
<1> QED
  BY <1>4, <1>6 DEF PubInv

(* Opening README.md for writing leaves nothing of it, sound or not.        *)
LEMMA OpenPublished ==
  ASSUME PubInv, NEW p \in Publishers, OpenReadme(p)
  PROVE  PubInv'
<1>1. MovePublisher(p, "spliced", "writing") /\ readme' = <<>> /\ disturbed' = disturbed
  BY DEF OpenReadme
<1>2. "writing" \in PublisherSteps
  BY DEF PublisherSteps
<1>3. /\ publication[p].at = "spliced" /\ publication'[p].at = "writing"
      /\ publication'[p].text = publication[p].text
      /\ publication'[p].wrote = 0 /\ publication'[p].linked
      /\ publication[p].text \in Seq(Token)
      /\ \A q \in Publishers \ {p} : publication'[q] = publication[q]
      /\ saved' = saved /\ UNCHANGED vars
  BY <1>1, <1>2, PublisherMoved DEF PubInv, PubTypes, PublisherState
<1>4. <<>> \in Seq(Token) /\ Shows(<<>>, Records(files))
  BY DEF Shows
<1>5. PubTypes' /\ ShownInv' /\ StoreInv'
  BY <1>1, <1>2, <1>4, MovedShows DEF PubInv, PubTypes
<1>6. files' = files
  BY <1>3 DEF vars
<1>7. UndisturbedInv'
  <2> SUFFICES ASSUME ~disturbed PROVE UndisturbedInv'
    BY <1>1 DEF UndisturbedInv
  <2>1. Busy(p) /\ \A q \in Publishers : Busy(q)' <=> Busy(q)
    BY <1>3 DEF Busy
  <2>2. \A q \in Publishers : publication'[q].at = "writing" => q = p
    BY <1>3, <2>1 DEF PubInv, UndisturbedInv, Busy
  <2>3. readme' = SubSeq(publication'[p].text, 1, publication'[p].wrote)
    BY <1>1, <1>3
  <2>4. \A q \in Publishers : publication'[q].text = publication[q].text
    BY <1>3
  <2> QED
    BY <1>3, <1>6, <2>1, <2>2, <2>3, <2>4 DEF PubInv, UndisturbedInv
<1> QED
  BY <1>5, <1>7 DEF PubInv

(* A publication that ends has written its whole text.                      *)
LEMMA ClosePublished ==
  ASSUME PubInv, NEW p \in Publishers, CloseReadme(p)
  PROVE  PubInv'
<1>1. /\ MovePublisher(p, "writing", "published")
      /\ readme' = readme /\ disturbed' = disturbed
      /\ publication[p].wrote = Len(publication[p].text)
  BY DEF CloseReadme
<1>2. "published" \in PublisherSteps
  BY DEF PublisherSteps
<1>3. /\ publication[p].at = "writing" /\ publication'[p].at = "published"
      /\ publication[p].text \in Seq(Token)
      /\ \A q \in Publishers \ {p} : publication'[q] = publication[q]
      /\ saved' = saved /\ UNCHANGED vars
  BY <1>1, <1>2, PublisherMoved DEF PubInv, PubTypes, PublisherState
<1>4. PubTypes' /\ ShownInv' /\ StoreInv'
  BY <1>1, <1>2, MovedShows DEF PubInv, PubTypes, ShownInv
<1>5. files' = files
  BY <1>3 DEF vars
<1>6. UndisturbedInv'
  <2> SUFFICES ASSUME ~disturbed PROVE UndisturbedInv'
    BY <1>1 DEF UndisturbedInv
  <2>1. Busy(p) /\ \A q \in Publishers : ~Busy(q)'
    BY <1>3 DEF PubInv, UndisturbedInv, Busy
  <2>2. \A q \in Publishers : publication'[q].at # "writing"
    BY <2>1 DEF Busy
  <2>3. readme = publication[p].text
    <3>1. readme = SubSeq(publication[p].text, 1, Len(publication[p].text))
      BY <1>1, <1>3 DEF PubInv, UndisturbedInv
    <3>2. SubSeq(publication[p].text, 1, Len(publication[p].text)) = publication[p].text
      BY <1>3
    <3> QED
      BY <3>1, <3>2
  <2>4. Sound(readme', Records(files'), saved')
    BY <1>1, <1>3, <1>5, <2>1, <2>3 DEF PubInv, UndisturbedInv
  <2> QED
    BY <2>1, <2>2, <2>4 DEF UndisturbedInv
<1> QED
  BY <1>4, <1>6 DEF PubInv

(* A publisher killed in mid-write leaves what it had written.              *)
LEMMA KillPublished ==
  ASSUME PubInv, NEW p \in Publishers, KillPublisher(p)
  PROVE  PubInv'
<1>1. /\ readme' = readme /\ disturbed' \in BOOLEAN
      /\ \/ MovePublisher(p, "spliced", "killed") /\ disturbed' = disturbed
         \/ MovePublisher(p, "writing", "killed") /\ disturbed'
  BY DEF KillPublisher, PubInv, PubTypes
<1>2. "killed" \in PublisherSteps
  BY DEF PublisherSteps
<1>3. PubTypes' /\ ShownInv' /\ StoreInv'
  BY <1>1, <1>2, MovedShows DEF PubInv, PubTypes, ShownInv
<1>4. CASE MovePublisher(p, "spliced", "killed") /\ disturbed' = disturbed
  <2>1. /\ publication[p].at = "spliced" /\ publication'[p].at = "killed"
        /\ \A q \in Publishers \ {p} : publication'[q] = publication[q]
        /\ saved' = saved /\ files' = files
    BY <1>2, <1>4, PublisherMoved DEF PubInv, vars
  <2>2. UndisturbedInv'
    BY <1>1, <1>4, <2>1 DEF PubInv, UndisturbedInv, Busy
  <2> QED
    BY <1>3, <2>2 DEF PubInv
<1>5. CASE disturbed'
  BY <1>3, <1>5 DEF PubInv, UndisturbedInv
<1> QED
  BY <1>1, <1>4, <1>5

(* The section a publisher renders is that of a complete record.            *)
LEMMA SectionIsOfARecord ==
  ASSUME StoreInv, NEW p \in Publishers, report[p].at = "rendered"
  PROVE  \E record \in Records(files) :
           /\ render_results_section(report[p].got)
                = <<Cites(record.id), Figures(record.got)>>
           /\ Cites(record.id) \in Token /\ Figures(record.got) \in Token
<1>1. p \in Readers
  BY PublishersAssumption
<1>2. PICK r \in Runs : /\ report[p].got = Payload(r) /\ run[r].id = report[p].id
                        /\ files[report[p].id] = report[p].got
  BY <1>1, StoreShowsFaithfully DEF ReportsAreFaithful
<1>3. report[p].id \in DOMAIN files
  BY <1>1 DEF StoreInv, ReadersInv
<1>4. Payload(r) \in Seq(Runs \cup {Legacy}) /\ Len(Payload(r)) = Chunks
  BY PayloadType
<1>5. Head(Payload(r)) = r
  BY <1>4, PayloadType, ChunksAssumption
<1> DEFINE record == [id |-> report[p].id, got |-> files[report[p].id]]
<1>6. record \in Records(files)
  BY <1>2, <1>3, <1>4 DEF Records
<1>7. record.id = report[p].id /\ record.got = report[p].got
  BY <1>2
<1> HIDE DEF record
<1>8. render_results_section(report[p].got) = <<Cites(record.id), Figures(record.got)>>
  BY <1>2, <1>5, <1>7 DEF render_results_section
<1>9. Cites(record.id) \in Token /\ Figures(record.got) \in Token
  <2>1. report[p].id \in Seconds /\ report[p].got \in Seq(Runs \cup {Legacy})
    BY <1>2, <1>3, <1>4 DEF StoreInv, TypeOK
  <2> QED
    BY <1>7, <2>1, TokensAre
<1> QED
  BY <1>6, <1>8, <1>9

(* What a publisher splices is sound if README.md is.                       *)
LEMMA SplicePublished ==
  ASSUME PubInv, NEW p \in Publishers, Splice(p)
  PROVE  PubInv'
<1> DEFINE new == splice_into_readme(readme, render_results_section(report[p].got))
<1>1. /\ report[p].at = "rendered" /\ publication[p].at = "idle" /\ BEGIN \in Range(readme)
      /\ publication' = [publication EXCEPT ![p] = [@ EXCEPT !.at = "spliced", !.text = new]]
      /\ disturbed' = (disturbed \/ \E q \in Publishers : Busy(q))
      /\ UNCHANGED <<vars, readme, saved>>
  BY DEF Splice, MissingMarkers
<1>2. PICK record \in Records(files) :
        /\ render_results_section(report[p].got)
             = <<Cites(record.id), Figures(record.got)>>
        /\ Cites(record.id) \in Token /\ Figures(record.got) \in Token
  BY <1>1, SectionIsOfARecord DEF PubInv
<1>3. readme \in Seq(Token) /\ BEGIN \in Token /\ END \in Token
  BY TokensAre DEF PubInv, PubTypes
<1>4. /\ new \in Seq(Token)
      /\ \E begin, cut \in 1..Len(readme) :
           IsSplice(readme, Cites(record.id), Figures(record.got), new, begin, cut)
  BY <1>1, <1>2, <1>3, SpliceIs
<1> HIDE DEF new
<1>5. PICK begin \in 1..Len(readme), cut \in 1..Len(readme) :
        IsSplice(readme, Cites(record.id), Figures(record.got), new, begin, cut)
  BY <1>4
<1>6. /\ publication' \in [Publishers -> PublisherState]
      /\ publication'[p].at = "spliced" /\ publication'[p].text = new
      /\ publication'[p].wrote = 0 /\ publication'[p].linked
      /\ \A q \in Publishers \ {p} : publication'[q] = publication[q]
  BY <1>1, <1>4 DEF PubInv, PubTypes, PublisherState, PublisherSteps
<1>7. StoreInv' /\ files' = files
  BY <1>1, StoreUntouched DEF PubInv
<1>8. PubTypes'
  <2>1. 0 <= Len(new)
    BY <1>4
  <2>2. \A q \in Publishers :
          /\ publication'[q].wrote <= Len(publication'[q].text)
          /\ publication'[q].at \in {"idle", "spliced"} =>
               publication'[q].wrote = 0 /\ publication'[q].linked
    BY <1>6, <2>1 DEF PubInv, PubTypes
  <2>3. disturbed' \in BOOLEAN /\ readme' \in Seq(Token) /\ saved' \in Seq(Token)
    BY <1>1 DEF PubInv, PubTypes
  <2> QED
    BY <1>6, <2>2, <2>3 DEF PubTypes
<1>9. ShownInv'
  <2>1. Shows(new, Records(files))
    BY <1>3, <1>4, <1>5, SpliceShows DEF PubInv, ShownInv
  <2> QED
    BY <1>1, <1>6, <1>7, <2>1 DEF PubInv, ShownInv
<1>10. UndisturbedInv'
  <2> SUFFICES ASSUME ~disturbed' PROVE UndisturbedInv'
    BY DEF UndisturbedInv
  <2>1. ~disturbed /\ \A q \in Publishers : ~Busy(q)
    BY <1>1
  <2>2. /\ \A q \in Publishers : Busy(q)' => q = p
        /\ \A q \in Publishers : publication'[q].at # "writing"
    BY <1>6, <2>1 DEF Busy
  <2>3. Sound(readme, Records(files), saved)
    BY <2>1 DEF PubInv, UndisturbedInv, Busy
  <2>4. Sound(new, Records(files), saved)
    <3>1. Cited(new, Records(files))
      BY <1>3, <1>4, <1>5, <2>3, SpliceStaysCited DEF Sound
    <3>2. Outside(readme) \subseteq Outside(new)
      BY <1>3, <1>4, <1>5, SpliceKeepsProse
    <3> QED
      BY <2>3, <3>1, <3>2 DEF Sound
  <2> QED
    BY <1>1, <1>6, <1>7, <2>2, <2>3, <2>4 DEF UndisturbedInv
<1> QED
  BY <1>7, <1>8, <1>9, <1>10 DEF PubInv

(* A write extends what README.md has of the text.                          *)
LEMMA WritePublished ==
  ASSUME PubInv, NEW p \in Publishers, WriteReadme(p)
  PROVE  PubInv'
<1> DEFINE text == publication[p].text
           from == publication[p].wrote
           to == Min({from + Buffer, Len(text)})
           over == Overwritten(readme, text, from, to)
<1>1. /\ publication[p].at = "writing" /\ from < Len(text)
      /\ publication' = [publication EXCEPT ![p].wrote = to]
      /\ readme' = IF publication[p].linked THEN over ELSE readme
      /\ UNCHANGED <<vars, saved, disturbed>>
  <2>1. publication[p].at = "writing" /\ from < Len(text) /\ UNCHANGED <<vars, saved, disturbed>>
    BY DEF WriteReadme
  <2>2. publication' = [publication EXCEPT ![p].wrote = to]
    BY DEF WriteReadme
  <2>3. readme' = IF publication[p].linked THEN over ELSE readme
    BY DEF WriteReadme
  <2> QED
    BY <2>1, <2>2, <2>3
<1>2. /\ text \in Seq(Token) /\ readme \in Seq(Token) /\ from \in Nat /\ Len(text) \in Nat
      /\ Hole \in Token
  BY TokensAre DEF PubInv, PubTypes, PublisherState
<1>3. to \in Nat /\ from <= to /\ to <= Len(text)
  <2> DEFINE more == from + Buffer
             all == Len(text)
  <2>1. to = IF more <= all THEN more ELSE all
    <3>1. more \in Int /\ all \in Int /\ to = Min({more, all})
      BY <1>2, BufferAssumption
    <3> HIDE DEF more, all, to
    <3> QED
      BY <3>1, MinOfTwo
  <2> HIDE DEF to, from, text
  <2> QED
    BY <1>1, <1>2, <2>1, BufferAssumption
<1> HIDE DEF to
<1>4. /\ publication' \in [Publishers -> PublisherState]
      /\ publication'[p].at = "writing" /\ publication'[p].text = text
      /\ publication'[p].wrote = to /\ publication'[p].linked = publication[p].linked
      /\ \A q \in Publishers \ {p} : publication'[q] = publication[q]
  BY <1>1, <1>3 DEF PubInv, PubTypes, PublisherState
<1> HIDE DEF from, text, over
<1>5. /\ over \in Seq(Token)
      /\ \A n \in 1..Len(over) : \/ n \in 1..Len(text) /\ over[n] = text[n]
                                 \/ n \in 1..Len(readme) /\ over[n] = readme[n]
                                 \/ over[n] = Hole
      /\ readme = SubSeq(text, 1, from) => over = SubSeq(text, 1, to)
  BY <1>2, <1>3, OverwrittenIs DEF over
<1>6. StoreInv' /\ files' = files
  BY <1>1, StoreUntouched DEF PubInv
<1>7. PubTypes'
  <2>1. \A q \in Publishers :
          /\ publication'[q].wrote <= Len(publication'[q].text)
          /\ publication'[q].at \in {"idle", "spliced"} =>
               publication'[q].wrote = 0 /\ publication'[q].linked
    BY <1>3, <1>4 DEF PubInv, PubTypes
  <2> QED
    BY <1>1, <1>2, <1>4, <1>5, <2>1 DEF PubInv, PubTypes
<1>8. ShownInv'
  <2>1. Shows(text, Records(files)) /\ Shows(readme, Records(files))
    BY DEF PubInv, ShownInv, text
  <2>2. Shows(over, Records(files))
    BY <1>5, <2>1, TokensDiffer DEF Shows
  <2>3. \A q \in Publishers : publication'[q].text = publication[q].text
    BY <1>4 DEF text
  <2> QED
    BY <1>1, <1>6, <2>1, <2>2, <2>3 DEF PubInv, ShownInv
<1>9. UndisturbedInv'
  <2> SUFFICES ASSUME ~disturbed PROVE UndisturbedInv'
    BY <1>1 DEF UndisturbedInv
  <2>1. Busy(p) /\ \A q \in Publishers : Busy(q)' <=> Busy(q)
    BY <1>1, <1>4 DEF Busy
  <2>2. \A q \in Publishers : publication'[q].at = "writing" => q = p
    BY <1>4, <2>1 DEF PubInv, UndisturbedInv, Busy
  <2>3. publication[p].linked /\ readme = SubSeq(text, 1, from)
    BY <1>1 DEF PubInv, UndisturbedInv, text, from
  <2>4. readme' = SubSeq(publication'[p].text, 1, publication'[p].wrote)
    BY <1>1, <1>4, <1>5, <2>3
  <2>5. \A q \in Publishers : publication'[q].text = publication[q].text
    BY <1>4 DEF text
  <2> QED
    BY <1>1, <1>4, <1>6, <2>1, <2>2, <2>3, <2>4, <2>5 DEF PubInv, UndisturbedInv
<1> QED
  BY <1>6, <1>7, <1>8, <1>9 DEF PubInv

(* A person saves a sound text, over what any publisher had in hand.        *)
LEMMA EditPublished ==
  ASSUME PubInv, Edit
  PROVE  PubInv'
<1>1. /\ readme' \in Drafts /\ saved' = readme' /\ UNCHANGED vars
      /\ disturbed' = (\E p \in Publishers : Busy(p))
      /\ publication' = [p \in Publishers |->
           [publication[p] EXCEPT !.linked = @ /\ publication[p].at # "writing"]]
  BY DEF Edit
<1>2. StoreInv' /\ files' = files
  BY <1>1, StoreUntouched DEF PubInv
<1>3. PICK draft \in Drafts : draft = readme'
  BY <1>1
<1>4. draft \in Seq(Token) /\ Sound(draft, Records(files), draft)
  BY DraftsAreSound DEF PubInv
<1>5. /\ publication' \in [Publishers -> PublisherState]
      /\ \A p \in Publishers :
           /\ publication'[p].at = publication[p].at
           /\ publication'[p].text = publication[p].text
           /\ publication'[p].wrote = publication[p].wrote
           /\ publication'[p].at # "writing" => publication'[p].linked = publication[p].linked
  BY <1>1 DEF PubInv, PubTypes, PublisherState
<1>6. PubTypes'
  <2>1. disturbed' \in BOOLEAN
    BY <1>1
  <2>2. \A p \in Publishers :
          /\ publication'[p].wrote <= Len(publication'[p].text)
          /\ publication'[p].at \in {"idle", "spliced"} =>
               publication'[p].wrote = 0 /\ publication'[p].linked
    BY <1>5 DEF PubInv, PubTypes
  <2> QED
    BY <1>1, <1>3, <1>4, <1>5, <2>1, <2>2 DEF PubTypes
<1>7. ShownInv'
  <2>1. Shows(readme', Records(files))
    BY <1>3, <1>4, CitedShows DEF Sound
  <2> QED
    BY <1>2, <1>5, <2>1 DEF PubInv, ShownInv
<1>8. UndisturbedInv'
  <2> SUFFICES ASSUME ~disturbed' PROVE UndisturbedInv'
    BY DEF UndisturbedInv
  <2>1. \A p \in Publishers : ~Busy(p)' /\ publication'[p].at # "writing"
    BY <1>1, <1>5 DEF Busy
  <2>2. Sound(readme', Records(files'), saved')
    BY <1>1, <1>2, <1>3, <1>4
  <2> QED
    BY <2>1, <2>2 DEF UndisturbedInv
<1> QED
  BY <1>2, <1>6, <1>7, <1>8 DEF PubInv

(* Every step of anybody keeps the invariant.                               *)
LEMMA NextPublished == PubInv /\ [PubNext]_<<vars, pubVars>> => PubInv'
<1> SUFFICES ASSUME PubInv, [PubNext]_<<vars, pubVars>> PROVE PubInv'
  OBVIOUS
<1>1. CASE [Next]_vars /\ UNCHANGED pubVars
  BY <1>1, StoreStepPublished
<1>2. ASSUME NEW p \in Publishers, PublisherStep(p) PROVE PubInv'
  BY <1>2, FailPublished, SplicePublished, OpenPublished, WritePublished,
     ClosePublished, KillPublished DEF PublisherStep
<1>3. CASE Edit
  BY <1>3, EditPublished
<1> QED
  BY <1>1, <1>2, <1>3 DEF PubNext

(* The invariant always holds.                                              *)
LEMMA PublishedInvariant == PubSpec => []PubInv
BY InitPublished, NextPublished, PTL DEF PubSpec

----------------------------------------------------------------------------
(* What README.md promises *)

(* What README.md shows traces to a record, whole and unchanged, however    *)
(* many publishers, readers, runs and people there are and whatever they    *)
(* interleave; and it says which, unless two of them met (the docstring of  *)
(* readme_results.py).                                                      *)
THEOREM ReadmeIsCited == PubSpec => []ReadmeCitesRecords
<1>1. PubInv => ReadmeCitesRecords
  <2> SUFFICES ASSUME PubInv, NEW n \in DOMAIN readme, Head(readme[n]) = "figures"
               PROVE  \E id \in DOMAIN files :
                        /\ readme[n] = Figures(files[id]) /\ Complete(id)
                        /\ ~disturbed => n > 1 /\ readme[n - 1] = Cites(id)
    BY DEF ReadmeCitesRecords
  <2>1. readme \in Seq(Token) /\ n \in 1..Len(readme)
    BY DEF PubInv, PubTypes
  <2>2. \A record \in Records(files) :
          /\ record.id \in DOMAIN files /\ record.got = files[record.id]
          /\ Complete(record.id)
    BY DEF Records, Complete
  <2>3. CASE disturbed
    BY <2>1, <2>2, <2>3 DEF PubInv, ShownInv, Shows
  <2>4. CASE ~disturbed
    <3>1. Cited(readme, Records(files))
      <4>1. CASE \A p \in Publishers : publication[p].at # "writing"
        BY <2>4, <4>1 DEF PubInv, UndisturbedInv, Sound
      <4>2. CASE \E p \in Publishers : publication[p].at = "writing"
        <5>1. PICK p \in Publishers : publication[p].at = "writing"
          BY <4>2
        <5>2. /\ Cited(publication[p].text, Records(files))
              /\ readme = SubSeq(publication[p].text, 1, publication[p].wrote)
          BY <2>4, <5>1 DEF PubInv, UndisturbedInv, Sound, Busy
        <5>3. /\ publication[p].text \in Seq(Token)
              /\ publication[p].wrote \in 0..Len(publication[p].text)
          BY DEF PubInv, PubTypes, PublisherState
        <5> QED
          BY <5>2, <5>3, PrefixStaysCited
      <4> QED
        BY <4>1, <4>2
    <3> QED
      BY <2>1, <2>2, <3>1 DEF Cited
  <2> QED
    BY <2>3, <2>4
<1> QED
  BY <1>1, PublishedInvariant, PTL

(* What people wrote outside the markers outlives any number of            *)
(* publications that are not killed in mid-write and that nobody meets      *)
(* (splice_into_readme, and main of render_readme_results.py).              *)
THEOREM ProseStays == PubSpec => []ProseSurvives
<1>1. PubInv => ProseSurvives
  BY DEF PubInv, UndisturbedInv, Sound, ProseSurvives
<1> QED
  BY <1>1, PublishedInvariant, PTL
==============================================================================
