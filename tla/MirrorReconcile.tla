--------------------------- MODULE MirrorReconcile ---------------------------
(***************************************************************************)
(* One destination repository of `knock reconcile': the run of             *)
(* knock/use_cases/reconcile_registry.py (_apply_plan for each import of   *)
(* the policy that owns the repository), the registry it writes to and the *)
(* upstream it reads, under failing calls, lost pods, upstream retags and  *)
(* policy edits.  The items of one stage run concurrently, stages are      *)
(* separated by barriers, and one registry call is one step.  Runs do not  *)
(* overlap: one policy owns a repository, one shard owns a policy, and the *)
(* CronJob forbids concurrent runs.                                        *)
(***************************************************************************)
EXTENDS MirrorPlan

CONSTANTS Imports,       (* the policy's imports into this repository are 1..Imports  *)
          Policies,      (* policies an edit can install: [1..Imports -> Plan]        *)
          FirstPolicy,   (* the policy installed at first                             *)
          Sbom,          (* are SBOM formats configured?                              *)
          Signing,       (* is an attestor configured?                                *)
          ForeignStamp,  (* do upstream images carry a base.digest of their own?      *)
          MaxClock,      (* bound: days                                               *)
          MaxMoves,      (* bound: upstream retags                                    *)
          MaxEdits,      (* bound: policy edits                                       *)
          MaxFailures,   (* bound: registry, build, scan or sign calls that fail      *)
          MaxCrashes     (* bound: reconcile pods lost, or runs aborted by a read     *)

ASSUME ReconcileAssumption ==
    /\ Imports \in Nat \ {0}
    /\ Policies \subseteq [1 .. Imports -> Plan]
    /\ FirstPolicy \in Policies
    \* resolve_aliases points an alias at a selected tag, and both get the variant's suffix.
    /\ \A p \in Policies, n \in 1 .. Imports : \A a \in DOMAIN p[n].alias :
          p[n].alias[a] \in p[n].tags /\ VariantOf[p[n].alias[a]] = VariantOf[a]
    /\ {Sbom, Signing, ForeignStamp} \subseteq BOOLEAN
    /\ {MaxClock, MaxMoves, MaxEdits, MaxFailures, MaxCrashes} \subseteq Nat
    /\ Grace <= MaxClock

VARIABLES upstream,  \* what the source registry serves under each source tag
          policy,    \* the policy in git
          clock      \* the day

VARIABLES tagged,    \* destination: the manifest of each tag, or Absent
          covers,    \* destination: SBOM and signature referrers, <<manifest, kind>>
          marks      \* destination: pending-deletion referrers

VARIABLES stage,     \* where the run is
          plans,     \* the policy as expanded in the plan phase
          cur,       \* the import being applied
          now,       \* the time of the run
          src,       \* the source state read
          mir,       \* the mirror state read
          covered,   \* the coverage referrers read
          marked,    \* the marks read, per tag
          work,      \* the items of the stage: records [tag, step, out]
          clearing   \* the marks the run still has to clear

\* Auxiliary: nothing in the code reads these.
VARIABLES clean,     \* no call of this run failed
          steady,    \* nothing changed since the last clean run began
          moves, edits, failures, crashes

worldVars == <<upstream, policy, clock>>
repoVars  == <<tagged, covers, marks>>
readVars  == <<plans, cur, now, src, mir, covered, marked>>
runVars   == <<stage, readVars, work, clearing>>
boundVars == <<moves, edits, failures, crashes>>
vars      == <<worldVars, repoVars, runVars, clean, steady, boundVars>>

Stages == {"idle", "source", "mirror", "marks", "import", "sign", "sbom", "alias", "delete",
           "retain", "unmark", "report"}
Steps  == {"place", "stamp", "sbom", "sbomSig", "sign", "alias", "delete", "mark", "retain"}
Kinds  == {"sbom", "sbomSig", "transformSig"}

plan == plans[cur]

\* The source state that a run reads.
Inspected == [s \in Source |-> ArtifactOf(upstream[s], now)]

Init ==
    /\ upstream = [s \in Source |-> [digest |-> <<s, 0>>, created |-> 0]]
    /\ policy = FirstPolicy /\ clock = Grace
    /\ tagged = [t \in Tag |-> Absent] /\ covers = {} /\ marks = {}
    /\ stage = "idle" /\ plans = FirstPolicy /\ cur = 1 /\ now = 0
    /\ src = Inspected /\ mir = tagged /\ covered = {} /\ marked = [t \in Tag |-> {}]
    /\ work = {} /\ clearing = {}
    /\ clean = TRUE /\ steady = FALSE
    /\ moves = 0 /\ edits = 0 /\ failures = 0 /\ crashes = 0

-----------------------------------------------------------------------------
\* The items of each stage.

Item(t, step) == [tag |-> t, step |-> step, out |-> Absent]

\* A backfill works on the digest that the mirror walk saw.
Backfill(t, step) == [tag |-> t, step |-> step, out |-> mir[t]]

Attested(m) == \E kind \in {"sbomSig", "transformSig"} : <<m, kind>> \in covered

\* Faulty: no SBOM is ever backfilled.
ToSbomNone == {}

ToSign == {t \in ToKeep(plan, src, mir, now) : Signing /\ ~Attested(mir[t])}
ToSbom == {t \in ToKeep(plan, src, mir, now) : Sbom /\ <<mir[t], "sbom">> \notin covered}

MarkedFor(reason) == {t \in Mirrored(mir) : \E m \in marked[t] : m.reason = reason}

\* Faulty: tags that already carry a mark are marked again at every run.
ToMarkAgain == ToDelete(plan, mir)

ToMark == {t \in ToDelete(plan, mir) : marked[t] = {}}

\* Faulty: the deletion mode is read the wrong way round.
ToRetireInverted ==
    {Item(t, "mark") : t \in {u \in ToMark : ~plan.mark}}
        \cup {Item(t, "delete") : t \in {u \in ToDelete(plan, mir) : plan.mark}}

\* Mark mode puts the tags on notice, purge mode deletes them.
ToRetire ==
    {Item(t, "mark") : t \in {u \in ToMark : plan.mark}}
        \cup {Item(t, "delete") : t \in {u \in ToDelete(plan, mir) : ~plan.mark}}

ToRetain == RetentionExcess(plan, mir, now) \ MarkedFor("retention-excess")

ToUnmark ==
    LET selection == MarkedFor("dropped-from-selection") \cap Desired(plan)
        retention == MarkedFor("retention-excess") \ RetentionExcess(plan, mir, now)
    IN  {m \in UNION {marked[t] : t \in selection} : m.reason = "dropped-from-selection"}
            \cup {m \in UNION {marked[t] : t \in retention} : m.reason = "retention-excess"}

ItemsOf(next) ==
    CASE next = "sign"   -> {Backfill(t, "sign") : t \in ToSign}
      [] next = "sbom"   -> {Backfill(t, "sbom") : t \in ToSbom}
      [] next = "alias"  -> {Item(a, "alias") : a \in DOMAIN plan.alias}
      [] next = "delete" -> ToRetire
      [] next = "retain" -> {Item(t, "retain") : t \in ToRetain}
      [] OTHER           -> {}

-----------------------------------------------------------------------------
\* The run: the plan phase, the reads, then the stages.

StartRun ==
    /\ stage = "idle"
    /\ stage' = "source"
    /\ plans' = policy
    /\ cur' = 1
    /\ now' = clock
    /\ clean' = TRUE
    /\ UNCHANGED <<worldVars, repoVars, src, mir, covered, marked, work, clearing, steady, boundVars>>

ReadSource ==
    /\ stage = "source"
    /\ stage' = "mirror"
    /\ src' = Inspected
    /\ UNCHANGED <<worldVars, repoVars, plans, cur, now, mir, covered, marked, work, clearing,
                   clean, steady, boundVars>>

ReadMirror ==
    /\ stage = "mirror"
    /\ stage' = "marks"
    /\ mir' = [t \in Tag |-> MirrorOf(tagged[t])]
    /\ covered' = covers
    /\ UNCHANGED <<worldVars, repoVars, plans, cur, now, src, marked, work, clearing,
                   clean, steady, boundVars>>

ReadMarks ==
    /\ stage = "marks"
    /\ stage' = "import"
    /\ marked' = [t \in Tag |-> IF t \in Mirrored(mir) THEN {m \in marks : m.of = tagged[t]} ELSE {}]
    /\ work' = {Item(t, "place") : t \in ToPlace(plan, src, mir, now)}
    /\ UNCHANGED <<worldVars, repoVars, plans, cur, now, src, mir, covered, clearing,
                   clean, steady, boundVars>>

StageAfter ==
    [import |-> "sign", sign |-> "sbom", sbom |-> "alias", alias |-> "delete",
     delete |-> "retain", retain |-> "unmark"]

\* Every future of the stage has been joined.
Barrier ==
    /\ stage \in DOMAIN StageAfter
    /\ work = {}
    /\ stage' = StageAfter[stage]
    /\ work' = ItemsOf(stage')
    /\ clearing' = IF stage' = "unmark" THEN ToUnmark ELSE {}
    /\ UNCHANGED <<worldVars, repoVars, readVars, clean, steady, boundVars>>

\* The import's report is assembled; the next import of the policy follows.
EndImport ==
    /\ stage = "unmark"
    /\ clearing = {}
    /\ stage' = IF cur = Imports THEN "report" ELSE "source"
    /\ cur' = IF cur = Imports THEN cur ELSE cur + 1
    /\ UNCHANGED <<worldVars, repoVars, plans, now, src, mir, covered, marked, work, clearing,
                   clean, steady, boundVars>>

EndRun ==
    /\ stage = "report"
    /\ stage' = "idle"
    /\ steady' = (clean /\ policy = plans /\ src = Inspected /\ clock = now)
    /\ UNCHANGED <<worldVars, repoVars, readVars, work, clearing, clean, boundVars>>

-----------------------------------------------------------------------------
\* The items' steps.

\* Item i goes on with step next, its output manifest being out; "done" ends it.
GoOn(i, next, out) ==
    work' = (work \ {i}) \cup (IF next = "done" THEN {} ELSE {[i EXCEPT !.step = next, !.out = out]})

AfterStamp == IF Sbom THEN "sbom" ELSE IF Signing THEN "sign" ELSE "done"

\* In the backfill stage an SBOM item ends with the SBOM; an import goes on to sign.
AfterSbom == IF stage = "import" /\ Signing THEN "sign" ELSE "done"

\* The upstream manifest as a copy places it.
CopyOf(d) == [content |-> d, built |-> 0, base |-> IF ForeignStamp THEN Foreign ELSE NoBase,
              version |-> 0, name |-> 0, at |-> 0]

\* What BuildKit pushes for the transform of that version.
BuildOf(d, version) == [content |-> d, built |-> version, base |-> NoBase,
                        version |-> 0, name |-> 0, at |-> 0]

\* Faulty: the copy names the source by its tag.
PlacedByTag(t) ==
    IF VersionOf(plan, t) = 0 THEN CopyOf(upstream[SourceOf[t]].digest)
    ELSE BuildOf(upstream[SourceOf[t]].digest, VersionOf(plan, t))

Placed(t) ==
    IF VersionOf(plan, t) = 0 THEN CopyOf(src[SourceOf[t]].digest)
    ELSE BuildOf(src[SourceOf[t]].digest, VersionOf(plan, t))

Stamped(m, t) == [m EXCEPT !.base = src[SourceOf[t]].digest, !.version = VersionOf(plan, t),
                           !.name = t, !.at = now]

\* regctl image copy <src>@<digest>, or BuildKit's build and push.
Place(i) ==
    /\ i.step = "place"
    /\ tagged' = [tagged EXCEPT ![i.tag] = Placed(i.tag)]
    /\ GoOn(i, "stamp", Absent)
    /\ UNCHANGED <<covers, marks, clearing, clean, failures>>

\* A copy is stamped by its digest, even if its tag is gone, a build through its tag.
ToStamp(t) == IF VersionOf(plan, t) = 0 THEN Placed(t) ELSE tagged[t]

\* regctl image mod: the tag designates the stamped manifest then.
Stamp(i) ==
    /\ i.step = "stamp"
    /\ ToStamp(i.tag) # Absent
    /\ tagged' = [tagged EXCEPT ![i.tag] = Stamped(ToStamp(i.tag), i.tag)]
    /\ GoOn(i, AfterStamp, tagged'[i.tag])
    /\ UNCHANGED <<covers, marks, clearing, clean, failures>>

AttachSbom(i) ==
    /\ i.step = "sbom"
    /\ covers' = covers \cup {<<i.out, "sbom">>}
    /\ GoOn(i, IF Signing THEN "sbomSig" ELSE AfterSbom, i.out)
    /\ UNCHANGED <<tagged, marks, clearing, clean, failures>>

SignSbom(i) ==
    /\ i.step = "sbomSig"
    /\ covers' = covers \cup {<<i.out, "sbomSig">>}
    /\ GoOn(i, AfterSbom, i.out)
    /\ UNCHANGED <<tagged, marks, clearing, clean, failures>>

Sign(i) ==
    /\ i.step = "sign"
    /\ covers' = covers \cup {<<i.out, "transformSig">>}
    /\ GoOn(i, "done", i.out)
    /\ UNCHANGED <<tagged, marks, clearing, clean, failures>>

SetAlias(i) ==
    /\ i.step = "alias"
    /\ tagged[plan.alias[i.tag]] # Absent
    /\ tagged' = [tagged EXCEPT ![i.tag] = tagged[plan.alias[i.tag]]]
    /\ GoOn(i, "done", Absent)
    /\ UNCHANGED <<covers, marks, clearing, clean, failures>>

DeleteTag(i) ==
    /\ i.step = "delete"
    /\ tagged[i.tag] # Absent
    /\ tagged' = [tagged EXCEPT ![i.tag] = Absent]
    /\ GoOn(i, "done", Absent)
    /\ UNCHANGED <<covers, marks, clearing, clean, failures>>

\* The mark is put on whatever the tag designates at this moment.
PutMark(i) ==
    /\ i.step \in {"mark", "retain"}
    /\ tagged[i.tag] # Absent
    /\ marks' = marks \cup
          {[of |-> tagged[i.tag],
            reason |-> IF i.step = "mark" THEN "dropped-from-selection" ELSE "retention-excess"]}
    /\ GoOn(i, "done", Absent)
    /\ UNCHANGED <<tagged, covers, clearing, clean, failures>>

\* The tag that the call of item i reads.
Subject(i) == IF i.step = "alias" THEN plan.alias[i.tag] ELSE i.tag

\* The call of item i finds no tag to work on: the operation is reported failed.
NoTag(i) ==
    /\ i.step \in {"stamp", "alias", "delete", "mark", "retain"}
    /\ tagged[Subject(i)] = Absent /\ (i.step = "stamp" => VersionOf(plan, i.tag) # 0)
    /\ clean' = FALSE
    /\ GoOn(i, "done", Absent)
    /\ UNCHANGED <<repoVars, clearing, failures>>

\* Any other failure of a call: the rest of the operation is skipped.
OpFails(i) ==
    /\ failures < MaxFailures
    /\ failures' = failures + 1
    /\ clean' = FALSE
    /\ GoOn(i, "done", Absent)
    /\ UNCHANGED <<repoVars, clearing>>

\* Unmarking is best-effort: a failure is swallowed.
ClearMark(m) ==
    /\ m \in clearing
    /\ clearing' = clearing \ {m}
    /\ \/ marks' = marks \ {m} /\ UNCHANGED <<failures, clean>>
       \/ failures < MaxFailures /\ failures' = failures + 1 /\ clean' = FALSE /\ UNCHANGED marks
    /\ UNCHANGED <<tagged, covers, work>>

ItemStep ==
    /\ \/ \E i \in work : \/ Place(i) \/ Stamp(i) \/ AttachSbom(i) \/ SignSbom(i) \/ Sign(i)
                          \/ SetAlias(i) \/ DeleteTag(i) \/ PutMark(i) \/ NoTag(i) \/ OpFails(i)
       \/ \E m \in clearing : ClearMark(m)
    /\ UNCHANGED <<worldVars, stage, readVars, steady, moves, edits, crashes>>

-----------------------------------------------------------------------------
\* Faulty: the items of the aborted run are still there when the next one starts.
AbortKeepsWork ==
    /\ stage # "idle"
    /\ crashes < MaxCrashes
    /\ crashes' = crashes + 1
    /\ stage' = "idle"
    /\ clean' = FALSE
    /\ steady' = FALSE
    /\ UNCHANGED <<worldVars, repoVars, readVars, work, clearing, moves, edits, failures>>

\* The run ends where it stands: what it has written stays.
RunDies ==
    /\ stage # "idle"
    /\ stage' = "idle"
    /\ work' = {}
    /\ clearing' = {}
    /\ clean' = FALSE
    /\ steady' = FALSE
    /\ UNCHANGED <<worldVars, repoVars, readVars, moves, edits, failures>>

\* The pod is lost, or a read fails and the policy is reported failed.
Abort ==
    /\ crashes < MaxCrashes
    /\ crashes' = crashes + 1
    /\ RunDies

\* The upstream pushes another image under a tag: a new one, one made earlier, or one that
\* does not say when it was made.
UpstreamMoves(s) ==
    /\ moves < MaxMoves
    /\ clock + Grace <= MaxClock
    /\ moves' = moves + 1
    /\ \E created \in 0 .. clock \cup {Unknown} :
          upstream' = [upstream EXCEPT ![s] = [digest |-> <<s, @.digest[2] + 1>>, created |-> created]]
    /\ steady' = FALSE
    /\ UNCHANGED <<policy, clock, repoVars, runVars, clean, edits, failures, crashes>>

EditPolicy ==
    /\ edits < MaxEdits
    /\ edits' = edits + 1
    /\ policy' \in Policies \ {policy}
    /\ steady' = FALSE
    /\ UNCHANGED <<upstream, clock, repoVars, runVars, clean, moves, failures, crashes>>

Tick ==
    /\ clock < MaxClock
    /\ clock' = clock + 1
    /\ steady' = FALSE
    /\ UNCHANGED <<upstream, policy, repoVars, runVars, clean, boundVars>>

RunStep ==
    StartRun \/ ReadSource \/ ReadMirror \/ ReadMarks \/ ItemStep \/ Barrier \/ EndImport \/ EndRun

Next ==
    \/ RunStep
    \/ Abort
    \/ \E s \in Source : UpstreamMoves(s)
    \/ EditPolicy
    \/ Tick

Spec == Init /\ [][Next]_vars

\* The CronJob starts runs for ever and a run's calls return; days pass.
FairSpec == Spec /\ WF_vars(RunStep) /\ WF_vars(Tick)

-----------------------------------------------------------------------------
(* Type invariant.                                                         *)

Items == [tag : Tag, step : Steps, out : Manifest \cup {Absent}]

\* Every variable has its type; items exist only in the stages that run them, and
\* marks are cleared only in the last one.
TypeOK ==
    /\ upstream \in [Source -> Upstream] /\ src \in [Source -> Artifact]
    /\ policy \in Policies /\ plans \in Policies
    /\ {clock, now} \subseteq 0 .. MaxClock
    /\ tagged \in [Tag -> Manifest \cup {Absent}] /\ mir \in [Tag -> Manifest \cup {Absent}]
    /\ covers \subseteq Manifest \X Kinds /\ covered \subseteq Manifest \X Kinds
    /\ marks \subseteq Mark /\ clearing \subseteq Mark
    /\ marked \in [Tag -> SUBSET Mark]
    /\ stage \in Stages /\ cur \in 1 .. Imports
    /\ work \subseteq Items
    /\ work # {} => stage \in {"import", "sign", "sbom", "alias", "delete", "retain"}
    /\ clearing # {} => stage = "unmark"
    /\ {clean, steady} \subseteq BOOLEAN
    /\ moves \in 0 .. MaxMoves /\ edits \in 0 .. MaxEdits
    /\ failures \in 0 .. MaxFailures /\ crashes \in 0 .. MaxCrashes

-----------------------------------------------------------------------------
(* Safety.  "A clean run" is one that reports no failed operation.         *)

Stamps(t) == tagged[t] # Absent /\ tagged[t].name # 0

\* A stamp tells the truth about the bytes it is on: whatever upstream retags happen
\* between the inspection, the copy or build and the annotation, the base digest is
\* that of the content placed and the version that of the transform it was built with.
StampTruthful ==
    \A t \in Tag : Stamps(t) =>
        tagged[t].base = tagged[t].content /\ tagged[t].version = tagged[t].built

CleanReport == stage = "report" /\ clean

\* When a clean run reports, every output tag that any import of the policy selects is
\* in the repository, from its own source tag and with the hardening the policy asks
\* for, and every alias designates the manifest of its target.
CleanRunPlaces ==
    CleanReport => \A n \in 1 .. Imports :
        /\ \A t \in plans[n].tags :
              /\ tagged[t] # Absent
              /\ tagged[t].content[1] = SourceOf[t]
              /\ tagged[t].version = VersionOf(plans[n], t)
        /\ \A a \in DOMAIN plans[n].alias : tagged[a] = tagged[plans[n].alias[a]]

\* When a clean run reports, every selected tag carries knock's stamp, and its base is
\* the source digest the run read, unless that digest was too young to be taken (a copy
\* left unstamped is then kept too, where its base digest is the upstream image's own).
CleanRunStamps ==
    CleanReport => \A t \in plan.tags :
        LET read  == src[SourceOf[t]]
            young == now - read.pushed < Grace
        IN  /\ Stamps(t) \/ (ForeignStamp /\ young)
            /\ tagged[t].base = read.digest \/ young

\* When a clean run reports, every selected tag's manifest has each coverage referrer
\* the configuration asks for: an SBOM, and the signed transform attestation.
CleanRunCovers ==
    CleanReport => \A t \in plan.tags :
        /\ Sbom => <<tagged[t], "sbom">> \in covers
        /\ Signing => <<tagged[t], "transformSig">> \in covers

\* When a clean run reports, a mirrored tag the policy does not want is gone in purge
\* mode and in mark mode its manifest carries the pending-deletion mark.
CleanRunRetires ==
    CleanReport => \A t \in Tag \ Desired(plan) :
        \/ MirrorOf(tagged[t]) = Absent
        \/ plan.mark /\ \E m \in marks : m.of = tagged[t]

\* When nothing changed since a clean run began, the next run has nothing to do: no
\* import, backfill, deletion or mark, and no mark to clear.  (Aliases are set again at
\* every run, which moves nothing.)
Idempotent ==
    steady /\ stage \in {"import", "sign", "sbom", "delete", "retain", "unmark"} =>
        work = {} /\ clearing = {}

\* The run saw the marked manifest, and that it is past the archive rule's age, under a tag
\* that is selected, or put it itself in the place of such a one.
JudgedOld(m) ==
    \E t \in plan.tags :
        /\ mir[t] # Absent /\ now - mir[t].at > OlderThan
        /\ \/ m.of = mir[t]
           \/ t \in ToPlace(plan, src, mir, now) /\ m.of \in {Placed(t), Stamped(Placed(t), t)}

\* The age is judged on what the mirror walk saw, and the mark lands on what the tag designates
\* in the end.  However the upstream moves, calls fail and runs die in between, a retention
\* mark never lands on anything but what was judged and what the run put over it.
RetentionMarksJudged ==
    [][\A m \in marks' \ marks : m.reason = "retention-excess" => JudgedOld(m)]_vars

\* When a clean run reports, the archive rule has spared the alias targets and as many
\* tags of each variant as the rule keeps, whatever earlier runs under other rules marked.
RetentionSpares ==
    CleanReport => \A v \in Variant :
        LET ours   == {t \in plan.tags : VariantOf[t] = v}
            hit(t) == \E m \in marks : m.of = tagged[t] /\ m.reason = "retention-excess"
            spared == {t \in ours : ~hit(t)}
        IN  /\ \A a \in DOMAIN plan.alias : plan.alias[a] \in ours => plan.alias[a] \in spared
            /\ spared = ours \/ Cardinality(spared) >= plan.keep

-----------------------------------------------------------------------------
(* Liveness.                                                               *)

Current(t) == tagged[t] # Absent /\ tagged[t].content = upstream[SourceOf[t]].digest

\* Once upstream and policy stay as they are, the repository comes to hold, for good, every
\* selected tag, however the runs before failed, and under it the upstream's content, unless
\* the upstream's image does not say when it was made: such an image is never old enough to
\* replace another one.
Converges ==
    <>[](\A n \in 1 .. Imports : \A t \in policy[n].tags :
            /\ tagged[t] # Absent
            /\ upstream[SourceOf[t]].created # Unknown => Current(t))

=============================================================================
