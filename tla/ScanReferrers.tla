---------------------------- MODULE ScanReferrers ----------------------------
(***************************************************************************)
(* Scan results in the registry: `knock attach' pins an image, attaches a  *)
(* report to it and signs the summary; `knock gc' walks the tags and       *)
(* collects superseded reports (use_cases/attach.py, gc.py and the domain  *)
(* modules they call).                                                     *)
(*                                                                         *)
(* Every call to the registry or to cosign is a step.  One repository.     *)
(***************************************************************************)
EXTENDS Integers, FiniteSets, TLC

CONSTANTS Unset,
          Manifests,   (* image digests                                             *)
          Tags,
          FirstTags,   (* the manifest of each tag at first                         *)
          Tools,       (* producers of reports, one format                          *)
          Reports,     (* what they produce: a set of results, or Unset for what is not SARIF *)
          Digests,     (* digests of attached reports: as many as there are attach runs *)
          Attachers, Collectors,
          AttachRefs,  (* what attach is called with: tags, digests                 *)
          Keep,        (* --keep                                                    *)
          OlderThan,   (* --older-than                                              *)
          MaxTime,     (* bound: the clock                                          *)
          MaxMoves,    (* bound: tags that move                                     *)
          MaxFaults    (* bound: calls that fail                                    *)

ASSUME ReferrersAssumption ==
    /\ FirstTags \in [Tags -> Manifests]
    /\ AttachRefs \subseteq Tags \cup Manifests
    /\ Digests \subseteq Nat
    /\ {Keep, OlderThan, MaxTime, MaxMoves, MaxFaults} \subseteq Nat

VARIABLES now, tags,
          reports,     \* report referrers: [digest, subject, tool, time]
          predicates,  \* signed summaries: [subject, facts, time, about]
          attach,      \* what each attacher is at
          gc,          \* and each collector
          moves, faults

registryVars == <<tags, reports, predicates>>
vars == <<now, registryVars, attach, gc, moves, faults>>

Fault == faults < MaxFaults /\ faults' = faults + 1

\* What a reference is resolved to.
At(ref) == IF ref \in Tags THEN tags[ref] ELSE ref

-----------------------------------------------------------------------------
(* A report (formats/sarif.py).  A result is a record [kind, score, rule,  *)
(* level]: its CVSS score and its rule's, in tenths, and any may be Unset. *)

ScoreBucket(score) ==
    IF score >= 90 THEN "critical" ELSE IF score >= 70 THEN "high" ELSE IF score >= 40 THEN "medium" ELSE "low"

LevelBucket(level) ==
    CASE level = "error" -> "high"
      [] level = "warning" -> "medium"
      [] level \in {"note", "none"} -> "low"
      [] OTHER -> "unknown"

Score(r) == IF r.score # Unset THEN r.score ELSE r.rule

\* _classify: an explicit kind makes a verdict of a policy, and those never gate.
Classify(r) ==
    LET bucket == IF Score(r) # Unset THEN ScoreBucket(Score(r)) ELSE LevelBucket(r.level)
    IN  IF r.kind = Unset THEN <<"vuln", bucket>>
        ELSE IF r.kind = "pass" THEN <<"policy", "passed">> ELSE <<"policy", bucket>>

\* summarize: the facts whose count is not zero.
Summarize(report) == {Classify(r) : r \in report}

-----------------------------------------------------------------------------
Idle == [stage |-> "idle"]

Init ==
    /\ now = 0 /\ tags = FirstTags /\ reports = {} /\ predicates = {}
    /\ attach = [c \in Attachers |-> Idle] /\ gc = [g \in Collectors |-> Idle]
    /\ moves = 0 /\ faults = 0

Tick == now < MaxTime /\ now' = now + 1 /\ UNCHANGED <<registryVars, attach, gc, moves, faults>>

\* A tag is pushed again.
Move ==
    /\ moves < MaxMoves /\ moves' = moves + 1
    /\ \E t \in Tags, m \in Manifests : tags[t] # m /\ tags' = [tags EXCEPT ![t] = m]
    /\ UNCHANGED <<now, reports, predicates, attach, gc, faults>>

-----------------------------------------------------------------------------
(* attach_scan.                                                            *)

AttachTo(c, x) == attach' = [attach EXCEPT ![c] = x]

\* A report about an image is handed in, with the reference the caller has for it.
Handed(c) ==
    /\ attach[c].stage = "idle" /\ Cardinality(reports) < Cardinality(Digests)
    /\ \E ref \in AttachRefs, report \in Reports :
          AttachTo(c, [stage |-> "inspect", ref |-> ref, about |-> At(ref), report |-> report])
    /\ UNCHANGED <<now, registryVars, gc, moves, faults>>

\* The reference is pinned, the report is read, and the time is taken.
Inspect(c) ==
    /\ attach[c].stage = "inspect"
    /\ IF attach[c].report = Unset THEN AttachTo(c, Idle)
       ELSE AttachTo(c, [stage |-> "put", ref |-> attach[c].ref, about |-> attach[c].about,
                         report |-> attach[c].report, subject |-> At(attach[c].ref), time |-> now])
    /\ UNCHANGED <<now, registryVars, gc, moves, faults>>

\* Annotated with what the report says its tool is; its digest is as good as random.
PutReferrer(c) ==
    /\ attach[c].stage = "put"
    /\ \E tool \in Tools, d \in Digests \ {r.digest : r \in reports} :
          reports' = reports \cup {[digest |-> d, subject |-> attach[c].subject, tool |-> tool, time |-> attach[c].time]}
    /\ AttachTo(c, [attach[c] EXCEPT !.stage = "attest"])
    /\ UNCHANGED <<now, tags, predicates, gc, moves, faults>>

Attest(c) ==
    /\ attach[c].stage = "attest"
    /\ predicates' = predicates \cup {[subject |-> attach[c].subject, facts |-> Summarize(attach[c].report),
                                       time    |-> attach[c].time,    about |-> attach[c].about]}
    /\ AttachTo(c, Idle)
    /\ UNCHANGED <<now, tags, reports, gc, moves, faults>>

\* Any of the calls fails: what was done stays.
AttachFails(c) ==
    /\ attach[c].stage # "idle" /\ Fault
    /\ AttachTo(c, Idle)
    /\ UNCHANGED <<now, registryVars, gc, moves>>

-----------------------------------------------------------------------------
(* gc_referrers.                                                           *)

Of(m) == {r \in reports : r.subject = m}

Newer(r, q) == r.time > q.time \/ (r.time = q.time /\ r.digest > q.digest)

\* Faulty: a report supersedes those of the other tools.
SupersededAcross(rs, time) ==
    {r \in rs : /\ Cardinality({q \in rs : Newer(q, r)}) >= Keep
                /\ time - r.time > OlderThan}

\* select_superseded_referrers: beyond the newest of the same tool, and old.
Superseded(rs, time) ==
    {r \in rs : /\ Cardinality({q \in rs : q.tool = r.tool /\ Newer(q, r)}) >= Keep
                /\ time - r.time > OlderThan}

GcTo(g, x) == gc' = [gc EXCEPT ![g] = x]

\* Faulty: the walk ends with the first tag that is dealt with.
NextTagEnds(g, todo) == GcTo(g, Idle)

\* An error is the subject's only: the walk goes on.
NextTag(g, todo) == GcTo(g, IF todo = {} THEN Idle ELSE [gc[g] EXCEPT !.stage = "list", !.todo = todo])

GcStart(g) ==
    /\ gc[g].stage = "idle"
    /\ GcTo(g, [stage |-> "list", time |-> now, todo |-> Tags, victims |-> {}])
    /\ UNCHANGED <<now, registryVars, attach, moves, faults>>

\* Faulty: nothing to collect is not told from something to collect.
GcListAll(g) ==
    /\ gc[g].stage = "list"
    /\ \E t \in gc[g].todo :
          GcTo(g, [gc[g] EXCEPT !.stage = "delete", !.todo = gc[g].todo \ {t}, !.victims = Superseded(Of(tags[t]), gc[g].time)])
    /\ UNCHANGED <<now, registryVars, attach, moves, faults>>

GcList(g) ==
    /\ gc[g].stage = "list"
    /\ \E t \in gc[g].todo :
          LET victims == Superseded(Of(tags[t]), gc[g].time)
              rest    == gc[g].todo \ {t}
          IN  IF victims = {} THEN NextTag(g, rest)
              ELSE GcTo(g, [gc[g] EXCEPT !.stage = "delete", !.todo = rest, !.victims = victims])
    /\ UNCHANGED <<now, registryVars, attach, moves, faults>>

\* One is deleted; what another run has deleted is an error.
GcDelete(g) ==
    /\ gc[g].stage = "delete"
    /\ LET r == CHOOSE x \in gc[g].victims : \A y \in gc[g].victims : x.digest <= y.digest
           rest == gc[g].victims \ {r}
       IN  /\ reports' = reports \ {r}
           /\ IF r \notin reports \/ rest = {} THEN NextTag(g, gc[g].todo)
              ELSE GcTo(g, [gc[g] EXCEPT !.victims = rest])
    /\ UNCHANGED <<now, tags, predicates, attach, moves, faults>>

GcFails(g) ==
    /\ Fault
    /\ \/ gc[g].stage = "list" /\ \E t \in gc[g].todo : NextTag(g, gc[g].todo \ {t})
       \/ gc[g].stage = "delete" /\ NextTag(g, gc[g].todo)
    /\ UNCHANGED <<now, registryVars, attach, moves>>

\* The login, the catalog or the tag list fails, which ends the run.
GcAborts(g) ==
    /\ gc[g].stage # "idle" /\ gc[g].todo = Tags /\ Fault
    /\ GcTo(g, Idle)
    /\ UNCHANGED <<now, registryVars, attach, moves>>

-----------------------------------------------------------------------------
AttachStep(c) == Handed(c) \/ Inspect(c) \/ PutReferrer(c) \/ Attest(c) \/ AttachFails(c)
GcStep(g)     == GcList(g) \/ GcDelete(g)

Next ==
    \/ Tick \/ Move
    \/ \E c \in Attachers : AttachStep(c)
    \/ \E g \in Collectors : GcStart(g) \/ GcStep(g) \/ GcFails(g) \/ GcAborts(g)

\* The CronJob runs gc again and again, and each run goes on until it ends.
Fairness == \A g \in Collectors : WF_vars(GcStart(g) \/ GcStep(g))

Spec == Init /\ [][Next]_vars /\ Fairness

-----------------------------------------------------------------------------
(* Properties.                                                             *)

\* Referrers are content-addressed, no report is dated after the clock, and a collector that
\* deletes has something to delete (attach.py, gc.py).
TypeOK ==
    /\ now \in 0 .. MaxTime /\ tags \in [Tags -> Manifests]
    /\ \A r \in reports : r.digest \in Digests /\ r.subject \in Manifests /\ r.time <= now
    /\ \A r, q \in reports : r.digest = q.digest => r = q
    /\ \A p \in predicates : p.subject \in Manifests /\ p.time <= now
    /\ \A g \in Collectors : gc[g].stage \in {"idle", "list", "delete"} /\ (gc[g].stage = "delete" => gc[g].victims # {})

\* The reports of the same tool on the same image that are newer than r.
NewerPeers(r) == {q \in reports : q.subject = r.subject /\ q.tool = r.tool /\ Newer(q, r)}

\* However gc runs and attach overlap, what is collected is old, and at least Keep newer
\* reports of the same tool on the same image are there when it goes (gc.py lists and
\* deletes in separate calls).
NewestKept ==
    [][\A r \in reports \ reports' :
          now - r.time > OlderThan /\ Cardinality(NewerPeers(r)') >= Keep]_vars

\* Superseded reports of tagged images are collected in the end, through failures of the
\* calls and tags that move (gc.py: an error is the subject's, not the run's).
Collects == <>[](\A t \in Tags : Superseded(Of(tags[t]), now) = {})
=============================================================================
