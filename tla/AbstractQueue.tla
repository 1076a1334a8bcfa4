---------------------------- MODULE AbstractQueue ----------------------------
(***************************************************************************)
(* What the scan queue promises, without streams, pending lists, claims or *)
(* trims: entries are offered and taken in order, and one leaves the queue *)
(* only when the outcome of its image is on record.  A queue that is Lossy *)
(* may lose entries as well.                                               *)
(***************************************************************************)
EXTENDS Naturals

CONSTANTS Id,    (* the entries, in the order they are offered *)
          Lossy

VARIABLES job,      \* what has become of each entry
          recorded  \* the entries with an outcome on record

queueVars == <<job, recorded>>

With(status) == {i \in Id : job[i] \in status}

QueueInit == job = [i \in Id |-> "none"] /\ recorded = {}

\* The image of a new entry may have an outcome already.
Offer ==
    \E i \in With({"none"}) :
        /\ \A j \in With({"none"}) : i <= j
        /\ job' = [job EXCEPT ![i] = "waiting"]
        /\ recorded' \in {recorded, recorded \cup {i}}

Take ==
    \E i \in With({"waiting"}) :
        /\ \A j \in With({"waiting"}) : i <= j
        /\ job' = [job EXCEPT ![i] = "held"]
        /\ UNCHANGED recorded

\* An outcome comes from an entry that was taken (its holder may not know that it was lost),
\* and counts for all entries of the image.
Record ==
    /\ With({"held", "done", "lost"}) # {}
    /\ recorded \subseteq recorded' /\ recorded' \subseteq Id \ With({"none"})
    /\ UNCHANGED job

Leave ==
    \E S \in SUBSET With({"waiting", "held"}) :
        /\ Lossy \/ S \subseteq recorded
        /\ job' = [i \in Id |-> IF i \notin S THEN job[i] ELSE IF i \in recorded THEN "done" ELSE "lost"]
        /\ UNCHANGED recorded

QueueNext == Offer \/ Take \/ Record \/ Leave

QueueSpec == QueueInit /\ [][QueueNext]_queueVars
=============================================================================
