-------------------------- MODULE MCRunRecordStore --------------------------
(***************************************************************************)
(* Two runs that may start in the same second, or in one whose name an     *)
(* older record has; two readers of any record, each of which may go on to *)
(* publish it; and a README.md that people have had with the section of an *)
(* older record, with a marker quoted in its prose, and without markers.   *)
(***************************************************************************)
EXTENDS Publication

CONSTANTS r1, r2, p1, p2

TwoRuns == {r1, r2}

TwoReaders == {p1, p2}

Prose(n) == <<"prose", n>>

MCDrafts ==
  {<<Prose(1), BEGIN, END, Prose(2)>>,
   <<BEGIN, Cites(2), Figures(Payload(Legacy)), END, Prose(3), END>>,
   <<Prose(5)>>}

(* Readers touch nothing another process sees, so that the second may wait  *)
(* for the first; it is there to publish beside it.                         *)
OneReadsAtATime == \/ report[p2].at = "idle"
                   \/ report[p1].at \in {"rendered", "failed"}

(* Publication touches nothing of the store, and what it reads of it, its   *)
(* own record, never changes again: so it is enough to publish and edit     *)
(* once every process of the store has ended, whatever the clock then says. *)
AtRest ==
  /\ \A r \in Runs : run[r].at \in {"wrote", "refused", "aborted", "crashed"}
  /\ \A p \in Readers : report[p].at \in {"rendered", "failed"}
  /\ \E p \in Readers : report[p].at = "rendered"
  /\ clock = 1

NotPublishing ==
  edits = 0 /\ \A p \in Publishers : publication[p].at = "idle"

MCNext ==
  \/ NotPublishing /\ Next /\ OneReadsAtATime' /\ UNCHANGED pubVars
  \/ AtRest /\ \E p \in Publishers : PublisherStep(p)
  \/ AtRest /\ Edit

\* One README.md to begin with; the others are an edit away.
MCInit == PubInit /\ readme = <<Prose(1), BEGIN, END, Prose(2)>>

MCSpec == MCInit /\ [][MCNext]_<<vars, pubVars>> /\ Fairness
============================================================================
