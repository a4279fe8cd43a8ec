---------------------------- MODULE Publication -----------------------------
(***************************************************************************)
(* README.md and the script that writes its results section                *)
(* (src/scripts/render_readme_results.py, src/joinless/readme_results.py), *)
(* composed with the store of records it reads from: a publisher reads a   *)
(* record as a report does, and goes on to render it as a section, read    *)
(* README.md, splice the section in, and write the file back in place.     *)
(* People edit the same file meanwhile, and nothing locks it.              *)
(*                                                                         *)
(* README.md is a sequence of tokens: prose, the two markers, and the two  *)
(* parts of a generated section, the record_id it cites and its figures.   *)
(***************************************************************************)
EXTENDS RunRecordStore, SequencesExt

CONSTANTS
  Publishers,  \* the readers that are the script, not `joinless report`
  Drafts,      \* README.md as people have it and save it
  Buffer,      \* tokens that leave the process in one write
  MaxEdits     \* bounds how often they do

ASSUME PublishersAssumption == Publishers \subseteq Readers

ASSUME BufferAssumption == Buffer \in Nat \ {0}

VARIABLES
  readme,       \* the text of README.md
  publication,  \* where each publisher is past the record it read
  edits,        \* times a person has saved README.md
  saved,        \* what the last of them saved
  disturbed     \* since then, has a publisher been killed in mid-write, or
                \* has one read or written while another or a person did?

pubVars == <<readme, publication, edits, saved, disturbed>>

BEGIN == <<"begin">>
END == <<"end">>
Hole == <<"hole">>
Cites(id) == <<"cites", id>>
Figures(got) == <<"figures", got>>

\* What people save cites older records, and has the figures of no other.
ASSUME DraftsAssumption ==
  \A draft \in Drafts :
    /\ draft \in Seq(Range(draft))
    /\ \A n \in DOMAIN draft : Head(draft[n]) = "figures" =>
         /\ draft[n] = Figures(Payload(Legacy))
         /\ n > 1 /\ \E id \in Old : draft[n - 1] = Cites(id)

----------------------------------------------------------------------------
(* readme_results.py *)

\* The record_id cited is the record's own, not the path it was read from.
render_results_section(got) == <<Cites(run[Head(got)].id), Figures(got)>>

MissingMarkers(text) == ~(BEGIN \in Range(text) /\ END \in Range(text))

FirstIn(text, token) == SelectInSeq(text, LAMBDA t : t = token)

\* str.partition: what is before the first token, and what is after it.
Before(text, token) ==
  IF token \in Range(text) THEN SubSeq(text, 1, FirstIn(text, token) - 1) ELSE text

After(text, token) ==
  IF token \in Range(text)
    THEN SubSeq(text, FirstIn(text, token) + 1, Len(text)) ELSE <<>>

\* Mutant: the text after the last END is kept, not that after the first.
splice_into_readme_last(text, section) ==
  LET end == SelectLastInSeq(text, LAMBDA t : t = END)
  IN  Before(text, BEGIN) \o <<BEGIN>> \o section
        \o <<END>> \o SubSeq(text, end + 1, Len(text))

splice_into_readme(text, section) ==
  Before(text, BEGIN) \o <<BEGIN>> \o section
    \o <<END>> \o After(After(text, BEGIN), END)

----------------------------------------------------------------------------
(* render_readme_results.py *)

\* Between its read of README.md and the end of its write.
Busy(p) == publication[p].at \in {"spliced", "writing"}

MovePublisher(p, from, to) ==
  /\ publication[p].at = from
  /\ publication' = [publication EXCEPT ![p].at = to]
  /\ UNCHANGED <<vars, edits, saved>>

\* OSError, or a MissingMarkers that nothing catches: README.md is not touched.
FailToSplice(p) ==
  /\ report[p].at = "rendered"
  /\ MovePublisher(p, "idle", "failed")
  /\ UNCHANGED <<readme, disturbed>>

\* read_text and splice: from here on the publisher has the whole text it
\* will write, and sees no later change of the file.
Splice(p) ==
  /\ report[p].at = "rendered" /\ publication[p].at = "idle"
  /\ ~MissingMarkers(readme)
  /\ publication' = [publication EXCEPT ![p] =
       [@ EXCEPT !.at = "spliced",
                 !.text = splice_into_readme(readme,
                            render_results_section(report[p].got))]]
  /\ disturbed' = (disturbed \/ \E q \in Publishers : Busy(q))
  /\ UNCHANGED <<vars, readme, edits, saved>>

\* write_text opens with "w", which empties the file people see.
OpenReadme(p) ==
  /\ MovePublisher(p, "spliced", "writing")
  /\ readme' = <<>>
  /\ UNCHANGED disturbed

\* text's tokens after "from", up to "to", over what the file has there.
Overwritten(file, text, from, to) ==
  [n \in 1 .. Max({to, Len(file)}) |->
     IF n \in from + 1 .. to THEN text[n]
     ELSE IF n <= Len(file) THEN file[n] ELSE Hole]

\* A buffer of the text goes out, at its own offset in the file that was
\* opened, which a person's save may have unlinked.
WriteReadme(p) ==
  LET w  == publication[p]
      to == Min({w.wrote + Buffer, Len(w.text)})
  IN  /\ w.at = "writing" /\ w.wrote < Len(w.text)
      /\ publication' = [publication EXCEPT ![p].wrote = to]
      /\ readme' = IF w.linked THEN Overwritten(readme, w.text, w.wrote, to)
                               ELSE readme
      /\ UNCHANGED <<vars, edits, saved, disturbed>>

CloseReadme(p) ==
  /\ publication[p].wrote = Len(publication[p].text)
  /\ MovePublisher(p, "writing", "published")
  /\ UNCHANGED <<readme, disturbed>>

\* Killed: what has been written stays, and what has not is gone.
KillPublisher(p) ==
  /\ \/ MovePublisher(p, "spliced", "killed") /\ UNCHANGED disturbed
     \/ MovePublisher(p, "writing", "killed") /\ disturbed' = TRUE
  /\ UNCHANGED readme

\* A person saves README.md, as a new file under its name.
Edit ==
  /\ edits < MaxEdits
  /\ edits' = edits + 1
  /\ readme' \in Drafts
  /\ saved' = readme'
  /\ disturbed' = (\E p \in Publishers : Busy(p))
  /\ publication' = [p \in Publishers |->
       [publication[p] EXCEPT !.linked = @ /\ publication[p].at # "writing"]]
  /\ UNCHANGED vars

----------------------------------------------------------------------------

PubInit ==
  /\ Init
  /\ readme \in Drafts
  /\ saved = readme
  /\ edits = 0
  /\ disturbed = FALSE
  /\ publication = [p \in Publishers |->
       [at |-> "idle", text |-> <<>>, wrote |-> 0, linked |-> TRUE]]

PublisherStep(p) ==
  \/ FailToSplice(p) \/ Splice(p) \/ OpenReadme(p)
  \/ WriteReadme(p) \/ CloseReadme(p) \/ KillPublisher(p)

PubNext ==
  \/ Next /\ UNCHANGED pubVars
  \/ \E p \in Publishers : PublisherStep(p)
  \/ Edit

PubSpec == PubInit /\ [][PubNext]_<<vars, pubVars>> /\ Fairness

----------------------------------------------------------------------------

(* "Every figure below traces to that one run record": whatever README.md   *)
(* shows was generated from a record that is in benchmarks/, complete and   *)
(* unchanged, however the reads, writes, edits and kills interleaved; and   *)
(* unless two writers met, the section cites that record by its name.       *)
ReadmeCitesRecords ==
  \A n \in DOMAIN readme : Head(readme[n]) = "figures" =>
    \E id \in DOMAIN files :
      /\ readme[n] = Figures(files[id]) /\ Complete(id)
      /\ ~disturbed => n > 1 /\ readme[n - 1] = Cites(id)

\* The prose that is before the first marker or between an END and a BEGIN.
Outside(text) ==
  {text[n] : n \in {m \in DOMAIN text :
     /\ Head(text[m]) = "prose"
     /\ \A b \in 1 .. m - 1 : text[b] = BEGIN =>
          \E e \in b + 1 .. m - 1 : text[e] = END}}

(* What a person wrote outside the markers is only ever lost to a kill in   *)
(* mid-write or to two writers whose reads and writes crossed: any number   *)
(* of publications, one after another, of whatever records, keep all of it. *)
ProseSurvives ==
  ~disturbed /\ (\A p \in Publishers : publication[p].at # "writing") =>
    Outside(saved) \subseteq Outside(readme)
============================================================================
