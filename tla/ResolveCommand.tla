--------------------------- MODULE ResolveCommand ---------------------------
(***************************************************************************)
(* `joinless resolve` around resolve() (src/joinless/cli.py _cmd_resolve): *)
(* the two files are read, the records they hold resolved, and one file    *)
(* written, which may be either of those read.  The process may be killed  *)
(* anywhere, also between two writes.                                      *)
(*                                                                         *)
(* A path is its directory and its stem, which becomes the source of the   *)
(* records read from it.  A line is blank, no JSON, a row without a name,  *)
(* or a row, given by its content.  Which records get linked is Resolver's *)
(* subject: any linkage that sends left records to right ones may result.  *)
(***************************************************************************)
EXTENDS Integers, Sequences, FiniteSets

CONSTANTS
  Paths,      \* records with a directory and a stem
  Contents,   \* what a row may hold
  Inputs,     \* the contents a file may have, sequences of lines
  Missing     \* of a path without a file

Broken == {"not JSON", "no name"}

Line == Contents \cup Broken \cup {"blank"}

ASSUME InputsAssumption == Inputs \subseteq Seq(Line)

VARIABLES
  before,          \* path -> its lines when the command starts, or Missing
  files,           \* path -> its lines now
  arguments,       \* the paths given as --left, --right and --output
  pc,
  left, right,     \* the records read
  link,            \* what resolve decided: left position -> right position
  written          \* lines of the output written so far

vars == <<before, files, arguments, pc, left, right, link, written>>

Places == {"scorer", "read left", "read right", "resolve", "open", "write",
           "done", "failed", "killed", "broken off"}

----------------------------------------------------------------------------

\* How many members of S are smaller than p.
Rank(S, p) == Cardinality({q \in S : q < p})

Nth(S, n) == CHOOSE p \in S : Rank(S, p) = n - 1

\* A set of positions in their order.
Positions(S) == [n \in 1..Cardinality(S) |-> Nth(S, n)]

NotBlank(lines) == {n \in DOMAIN lines : lines[n] # "blank"}

\* Mutant: a blank line counts towards the ordinal.
RecordsIn_counting_blanks(path) ==
  LET rows == Positions(NotBlank(files[path]))
  IN  [n \in DOMAIN rows |->
         [source |-> path.stem, ordinal |-> rows[n] - 1, content |-> files[path][rows[n]]]]

\* _read_records of a file whose lines all are rows or blank: blank lines are
\* skipped, and count for nothing.
RecordsIn(path) ==
  LET rows == Positions(NotBlank(files[path]))
  IN  [n \in DOMAIN rows |->
         [source |-> path.stem, ordinal |-> n - 1, content |-> files[path][rows[n]]]]

Readable(path) ==
  files[path] # Missing /\ \A n \in DOMAIN files[path] : files[path][n] \notin Broken

\* The arguments of record_id's digest, which is taken to be collision-free.
record_id(record) == <<record.source, record.content, record.ordinal>>

Matched(p) ==
  [status |-> "matched", of |-> <<p, link[p]>>,
   sources |-> {left[p].source, right[link[p]].source}]

Unmatched(side, p) == [status |-> "unmatched", side |-> side, of |-> p]

\* Mutant: a right record is left out when no left record claims it.
ResolutionLines_left_only ==
  [n \in 1..Cardinality(DOMAIN link) |-> Matched(Positions(DOMAIN link)[n])]
  \o LET rest == Positions(DOMAIN left \ DOMAIN link)
     IN  [n \in DOMAIN rest |-> Unmatched("left", rest[n])]

\* _write_resolution: the pairs, then the left and the right records left over.
ResolutionLines ==
  LET pairs == Positions(DOMAIN link)
      lefts == Positions(DOMAIN left \ DOMAIN link)
      rights == Positions(DOMAIN right \ {link[p] : p \in DOMAIN link})
  IN  [n \in DOMAIN pairs |-> Matched(pairs[n])]
        \o [n \in DOMAIN lefts |-> Unmatched("left", lefts[n])]
        \o [n \in DOMAIN rights |-> Unmatched("right", rights[n])]

----------------------------------------------------------------------------

Init ==
  /\ before \in [Paths -> Inputs \cup {Missing}]
  /\ files = before
  /\ arguments \in [{"left", "right", "output"} -> Paths]
  /\ pc = "scorer"
  /\ left = <<>> /\ right = <<>> /\ link = <<>> /\ written = <<>>

Goto(from, to) == pc = from /\ pc' = to /\ UNCHANGED <<before, arguments>>

\* get_scorer gives the arm, or a ValueError or ScorerUnavailable.
ChooseScorer ==
  /\ \/ Goto("scorer", "read left")
     \/ Goto("scorer", "failed")
  /\ UNCHANGED <<files, left, right, link, written>>

\* Mutant: the output is opened, and truncated, before the right side is read.
ReadLeft_output_open ==
  /\ Goto("read left", "read right")
  /\ Readable(arguments["left"])
  /\ left' = RecordsIn(arguments["left"])
  /\ files' = [files EXCEPT ![arguments["output"]] = <<>>]
  /\ UNCHANGED <<right, link, written>>

ReadLeft ==
  /\ Goto("read left", "read right")
  /\ Readable(arguments["left"])
  /\ left' = RecordsIn(arguments["left"])
  /\ UNCHANGED <<files, right, link, written>>

ReadRight ==
  /\ Goto("read right", "resolve")
  /\ Readable(arguments["right"])
  /\ right' = RecordsIn(arguments["right"])
  /\ UNCHANGED <<files, left, link, written>>

\* A missing file, a line that is no JSON, or one without a name: by a message
\* or by a traceback, the exit status is 1.
FailToRead ==
  /\ \/ Goto("read left", "failed") /\ ~Readable(arguments["left"])
     \/ Goto("read right", "failed") /\ ~Readable(arguments["right"])
  /\ UNCHANGED <<files, left, right, link, written>>

Resolve ==
  /\ Goto("resolve", "open")
  /\ \E linked \in SUBSET DOMAIN left : link' \in [linked -> DOMAIN right]
  /\ UNCHANGED <<files, left, right, written>>

\* The scorer raises: a traceback.
FailToResolve ==
  Goto("resolve", "failed") /\ UNCHANGED <<files, left, right, link, written>>

\* write_text opens the path, emptying it, ...
OpenOutput ==
  /\ Goto("open", "write")
  /\ files' = [files EXCEPT ![arguments["output"]] = <<>>]
  /\ UNCHANGED <<left, right, link, written>>

\* The path cannot be opened for writing: a traceback.
FailToOpen == Goto("open", "failed") /\ UNCHANGED <<files, left, right, link, written>>

\* ... and writes, part by part.
WriteLine ==
  /\ Goto("write", "write")
  /\ Len(written) < Len(ResolutionLines)
  /\ written' = Append(written, ResolutionLines[Len(written) + 1])
  /\ files' = [files EXCEPT ![arguments["output"]] = written']
  /\ UNCHANGED <<left, right, link>>

\* No more can be written, of a full disk for one: what has been stays.
FailToWrite ==
  Goto("write", "broken off") /\ UNCHANGED <<files, left, right, link, written>>

Finish ==
  /\ Goto("write", "done")
  /\ written = ResolutionLines
  /\ UNCHANGED <<files, left, right, link, written>>

Kill ==
  /\ \/ \E place \in {"scorer", "read left", "read right", "resolve", "open"} :
          Goto(place, "killed")
     \/ Goto("write", "broken off")
  /\ UNCHANGED <<files, left, right, link, written>>

Ended == pc \in {"done", "failed", "killed", "broken off"} /\ UNCHANGED vars

Next ==
  \/ ChooseScorer \/ ReadLeft \/ ReadRight \/ FailToRead
  \/ Resolve \/ FailToResolve \/ OpenOutput \/ FailToOpen
  \/ WriteLine \/ FailToWrite \/ Finish
  \/ Kill \/ Ended

Spec == Init /\ [][Next]_vars

----------------------------------------------------------------------------

RowsOf(path) == NotBlank(before[path])

(* Types; the records read are in the order of their ordinals.              *)
CommandTypeOK ==
  /\ pc \in Places
  /\ \A path \in Paths \ {arguments["output"]} : files[path] \in Inputs \cup {Missing}
  /\ \A side \in {left, right} : \A n \in DOMAIN side :
       /\ side[n].ordinal = n - 1 /\ side[n].content \in Contents
  /\ \A p \in DOMAIN link : p \in DOMAIN left /\ link[p] \in DOMAIN right

(* Nothing but the output is ever changed, and that only once everything    *)
(* has been read and resolved: a command that fails or is killed by then    *)
(* leaves even an output that is one of its inputs as it was.  One that     *)
(* fails or is killed while it writes leaves a beginning of the new output, *)
(* and nothing of what was there, also if that was an input.                *)
OnlyTheOutputChanges ==
  /\ \A path \in Paths \ {arguments["output"]} : files[path] = before[path]
  /\ pc \notin {"write", "done", "broken off"} => files = before
  /\ pc \in {"write", "done", "broken off"} =>
       LET lines == files[arguments["output"]]
       IN  /\ DOMAIN lines \subseteq DOMAIN ResolutionLines
           /\ \A n \in DOMAIN lines : lines[n] = ResolutionLines[n]

(* What was in the two files when the command began is in the output, a     *)
(* left row in one line, a right row in a pair's line or a line of its own, *)
(* also when the output has replaced one of them.                           *)
OutputAccountsForBothFiles ==
  pc = "done" =>
    LET lines == files[arguments["output"]]
        Pairs == {n \in DOMAIN lines : lines[n].status = "matched"}
        Single(side) == {n \in DOMAIN lines \ Pairs : lines[n].side = side}
        l == Cardinality(RowsOf(arguments["left"]))
        r == Cardinality(RowsOf(arguments["right"]))
    IN  /\ Cardinality(Pairs) + Cardinality(Single("left")) = l
        /\ {lines[n].of[1] : n \in Pairs} \cup {lines[n].of : n \in Single("left")}
             = 1..l
        /\ {lines[n].of[2] : n \in Pairs} \cup {lines[n].of : n \in Single("right")}
             = 1..r

(* "Every input row has its own" record_id (src/joinless/records.py), over  *)
(* two different files as within one.                                       *)
EveryRowHasItsOwnId ==
  pc = "resolve" /\ arguments["left"] # arguments["right"] =>
    Cardinality({record_id(left[n]) : n \in DOMAIN left}
                  \cup {record_id(right[n]) : n \in DOMAIN right})
      = Len(left) + Len(right)
============================================================================
