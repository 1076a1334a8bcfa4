----------------------------- MODULE MirrorPlan -----------------------------
(***************************************************************************)
(* What one reconcile run decides: knock/domain/reconcile.py, retention.py *)
(* and the shapes they work on.  Everything here is a pure function of the *)
(* plan, of what was read of the source and of the mirror, and of the time *)
(* of the run; the steps that carry the decisions out are in               *)
(* MirrorReconcile.                                                        *)
(*                                                                         *)
(* A plan is one expanded import: its selected output tags, the targets of *)
(* its alias names, the transform version of each variant (0: a plain      *)
(* copy), the retention threshold and the resolved deletion mode.  A tag   *)
(* is a number, so that tags have the order of their names; its suffix     *)
(* fixes its variant and its source tag.                                   *)
(***************************************************************************)
EXTENDS Integers, FiniteSets

CONSTANTS Tag,        (* output tag names of one destination repository           *)
          Source,     (* upstream tags                                            *)
          SourceOf,   (* the upstream tag behind each output tag                  *)
          Variant,    (* variants of the policy                                   *)
          VariantOf,  (* the variant of each output tag (its suffix)              *)
          Grace,      (* the stability window                                     *)
          OlderThan,  (* archive.olderThanDays                                    *)
          Absent,     (* no such tag, or not in the mirror state                  *)
          NoBase,     (* a manifest with no base.digest annotation                *)
          Unknown,    (* the creation time of an image whose config has none      *)
          Foreign     (* a base.digest annotation that the upstream itself set    *)

\* An upstream digest: the n-th content of an upstream tag.
Digest == Source \X Nat

\* What the upstream serves under a tag: its config says when the image was made, or not.
Upstream == [digest : Digest, created : Nat \cup {Unknown}]

\* What a run makes of it: SourceArtifact.
Artifact == [digest : Digest, pushed : Nat]

\* A manifest, named by all that its digest depends on: the content, the transform
\* it was built with, and the stamp (base digest, version, tag and time).
Manifest == [content : Digest, built : Nat, base : Digest \cup {NoBase, Foreign},
             version : Nat, name : Tag \cup {0}, at : Nat]

Mark == [of : Manifest, reason : {"dropped-from-selection", "retention-excess"}]

Plan == [tags : SUBSET Tag, alias : UNION {[names -> Tag] : names \in SUBSET Tag},
         version : [Variant -> Nat], keep : Nat, mark : BOOLEAN]

ASSUME PlanAssumption ==
    /\ Tag \subseteq Nat \ {0}
    /\ IsFiniteSet(Tag)
    /\ SourceOf \in [Tag -> Source]
    /\ VariantOf \in [Tag -> Variant]
    /\ Grace \in Nat
    /\ OlderThan \in Nat
    /\ NoBase # Foreign /\ {NoBase, Foreign} \cap Digest = {} /\ Absent \notin Manifest
    /\ Unknown \notin Nat

-----------------------------------------------------------------------------
\* to_source_artifact: an image of unknown age is taken for one pushed at this moment.
ArtifactOf(image, now) ==
    [digest |-> image.digest, pushed |-> IF image.created = Unknown THEN now ELSE image.created]

\* to_mirror_artifact: only what carries a base.digest annotation is mirror state.
MirrorOf(m) == IF m = Absent THEN Absent ELSE IF m.base = NoBase THEN Absent ELSE m

\* Faulty: a new source digest is taken only while it is still fresh.
ClassifyFresh(src, mir, now, version) ==
    IF mir = Absent THEN "import"
    ELSE IF \/ mir.version # version
            \/ mir.base # src.digest /\ now - src.pushed < Grace THEN "update"
    ELSE "keep"

\* Faulty: what is mirrored is never looked at again.
ClassifyAbsentOnly(src, mir, now, version) == IF mir = Absent THEN "import" ELSE "keep"

\* Faulty: the hardening is never compared.
ClassifyNoVersion(src, mir, now, version) ==
    IF mir = Absent THEN "import"
    ELSE IF mir.base # src.digest /\ now - src.pushed >= Grace THEN "update"
    ELSE "keep"

Classify(src, mir, now, version) ==
    IF mir = Absent THEN "import"
    ELSE IF \/ mir.version # version
            \/ mir.base # src.digest /\ now - src.pushed >= Grace THEN "update"
    ELSE "keep"

VersionOf(plan, t) == plan.version[VariantOf[t]]

Decision(plan, src, mir, now, t) ==
    Classify(src[SourceOf[t]], mir[t], now, VersionOf(plan, t))

ToPlace(plan, src, mir, now) == {t \in plan.tags : Decision(plan, src, mir, now, t) # "keep"}
ToKeep(plan, src, mir, now)  == plan.tags \ ToPlace(plan, src, mir, now)

Desired(plan) == plan.tags \cup DOMAIN plan.alias

Mirrored(mir) == {t \in Tag : mir[t] # Absent}

ToDelete(plan, mir) == Mirrored(mir) \ Desired(plan)

-----------------------------------------------------------------------------
\* select_retention_excess.  imported maps the candidate tags to their import times.
NewerThan(imported, u, t) ==
    \/ imported[u] > imported[t]
    \/ imported[u] = imported[t] /\ u > t

Rank(imported, t) == Cardinality({u \in DOMAIN imported : NewerThan(imported, u, t)})

\* Faulty: the age of what is beyond the keep newest does not matter.
ExcessAnyAge(imported, keep, now) == {t \in DOMAIN imported : Rank(imported, t) >= keep}

Excess(imported, keep, now) ==
    {t \in DOMAIN imported : Rank(imported, t) >= keep /\ now - imported[t] > OlderThan}

\* Faulty: alias targets are ranked and marked like any other tag.
ProtectedNone(plan, v) == {}

\* The alias targets of a variant are excluded before the ranking.
Protected(plan, v) == {plan.alias[a] : a \in {b \in DOMAIN plan.alias : VariantOf[b] = v}}

RetentionCandidates(plan, mir, v) ==
    {t \in plan.tags \cap Mirrored(mir) : VariantOf[t] = v} \ Protected(plan, v)

RetentionExcess(plan, mir, now) ==
    UNION {Excess([t \in RetentionCandidates(plan, mir, v) |-> mir[t].at], plan.keep, now) : v \in Variant}

=============================================================================
