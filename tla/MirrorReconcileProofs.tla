----------------------- MODULE MirrorReconcileProofs -----------------------
(***************************************************************************)
(* Theorems about one mirrored repository, for any tags, policies, upstream *)
(* retags, policy edits, failing calls and lost pods.                      *)
(***************************************************************************)
EXTENDS MirrorReconcile, FiniteSetTheorems, WellFoundedInduction, TLAPS

\* The steps that the items of a stage can stand before.
StepsIn == [import |-> {"place", "stamp", "sbom", "sbomSig", "sign"}, sign |-> {"sign"},
            sbom |-> {"sbom", "sbomSig"}, alias |-> {"alias"}, delete |-> {"delete", "mark"},
            retain |-> {"retain"}]

\* What is true of the items of a stage: one for each tag, and those that attach something
\* know the manifest to attach it to.
WorkOK ==
    /\ \A i \in work : i.step \in StepsIn[stage]
    /\ \A i, j \in work : i.tag = j.tag => i = j
    /\ \A i \in work : i.step \in {"sbom", "sbomSig", "sign"} => i.out \in Manifest
    /\ \A i \in work : stage = "import" => i.tag \in ToPlace(plan, src, mir, now)
    /\ \A i \in work : stage = "alias" => i.tag \in DOMAIN plan.alias
    /\ \A i \in work : stage = "delete" => i.tag \notin Desired(plan)

\* What was placed and is not yet stamped is what the run read upstream, if it is still there.
StampsOK ==
    /\ StampTruthful
    /\ \A i \in work : i.step = "stamp" => tagged[i.tag] \in {Placed(i.tag), Absent}

\* A manifest without knock's stamp has no base digest but the upstream's own.
BaseOK ==
    \A t \in Tag : tagged[t] # Absent /\ tagged[t].name = 0 =>
        tagged[t].base = NoBase \/ (ForeignStamp /\ tagged[t].base = Foreign)

Inv == TypeOK /\ WorkOK /\ StampsOK /\ BaseOK

-----------------------------------------------------------------------------
(* What a run has done so far, where no alias is named like a tag that the *)
(* same import selects.                                                    *)

Apart == \A p \in Policies, n \in 1 .. Imports : DOMAIN p[n].alias \cap p[n].tags = {}

\* The stages after the reads.
Acting == {"import", "sign", "sbom", "alias", "delete", "retain", "unmark", "report"}

Fresh(t) == tagged[t] = Stamped(Placed(t), t)

\* t has an item of the import stage that has still to place or to stamp it.
Pending(t) == \E i \in work : i.tag = t /\ i.step \in {"place", "stamp"}

\* While a run goes on, the tags it keeps are as it read them; once it is through with one
\* that it places without a failure, that one is placed and stamped.
RunOK ==
    /\ stage = "marks" => \A t \in Tag : mir[t] = MirrorOf(tagged[t])
    /\ stage \in Acting => \A t \in ToKeep(plan, src, mir, now) : tagged[t] = mir[t] /\ mir[t].base # NoBase
    /\ stage \in Acting /\ clean => \A t \in ToPlace(plan, src, mir, now) :
          Fresh(t) \/ (stage = "import" /\ Pending(t))
    /\ stage = "import" => \A i \in work : i.step \notin {"place", "stamp"} => Fresh(i.tag) /\ i.out = tagged[i.tag]

-----------------------------------------------------------------------------
(* The coverage of what was kept and of what was placed.                   *)

\* An item has still to do that step for the manifest under t.
Owed(t, step) == \E i \in work : i.tag = t /\ i.step = step /\ i.out = tagged[t]

\* Some signature of the manifest is there: its transform attestation, or that of its SBOM.
Signed(m) == \E kind \in {"sbomSig", "transformSig"} : <<m, kind>> \in covers

\* The manifest under t has the referrer, or an item has still to attach it.
HasSbom(t) == <<tagged[t], "sbom">> \in covers \/ Owed(t, "sbom")
HasSign(t) == Signed(tagged[t]) \/ \E step \in {"sbom", "sbomSig", "sign"} : Owed(t, step)

CoverOK ==
    /\ stage \in {"marks"} \cup Acting => covered \subseteq covers
    /\ stage \in Acting /\ clean => \A t \in ToKeep(plan, src, mir, now) :
          /\ Sbom /\ stage \notin {"import", "sign"} => HasSbom(t)
          /\ Signing /\ stage # "import" => HasSign(t)
    /\ stage \in Acting /\ clean => \A t \in ToPlace(plan, src, mir, now) :
          (stage = "import" /\ Pending(t)) \/ ((Sbom => HasSbom(t)) /\ (Signing => HasSign(t)))

\* Where not both SBOMs and signatures are asked for, no SBOM is ever signed.
SbomsUnsigned ==
    /\ \A c \in covers : c[2] # "sbomSig"
    /\ \A i \in work : i.step # "sbomSig" /\ (i.step = "sbom" => Sbom)

-----------------------------------------------------------------------------
(* Where alias names are never tag names, and one import feeds the         *)
(* repository: what is under a tag comes from its source.                  *)

AliasNames == UNION {UNION {DOMAIN p[n].alias : n \in 1 .. Imports} : p \in Policies}

NamesApart == \A p \in Policies, n \in 1 .. Imports : AliasNames \cap p[n].tags = {}

OriginOK ==
    /\ \A s \in Source : upstream[s].digest[1] = s /\ src[s].digest[1] = s
    /\ \A t \in Tag \ AliasNames : tagged[t] # Absent => tagged[t].content[1] = SourceOf[t]

AliasOK ==
    stage \in {"alias", "delete", "retain", "unmark", "report"} /\ clean =>
        \A a \in DOMAIN plan.alias :
            \/ tagged[a] = tagged[plan.alias[a]]
            \/ stage = "alias" /\ \E i \in work : i.tag = a

-----------------------------------------------------------------------------
(* What is not wanted.                                                     *)

RetireOK ==
    \A t \in Tag \ Desired(plan) :
        /\ stage \in {"marks", "import", "sign", "sbom", "alias"} => MirrorOf(tagged[t]) = mir[t]
        /\ stage \in {"delete", "retain", "unmark", "report"} /\ clean =>
              \/ MirrorOf(tagged[t]) = Absent
              \/ plan.mark
              \/ stage = "delete" /\ \E i \in work : i.tag = t /\ i.step = "delete"

-----------------------------------------------------------------------------
(* Lemmas on the plan.                                                     *)

LEMMA PlanFacts ==
  ASSUME TypeOK
  PROVE  /\ plan \in Plan /\ plan.tags \subseteq Tag
         /\ DOMAIN plan.alias \subseteq Tag
         /\ \A a \in DOMAIN plan.alias : plan.alias[a] \in plan.tags
         /\ \A t \in Tag : VersionOf(plan, t) \in Nat
<1>1. plans \in Policies /\ cur \in 1 .. Imports
  BY DEF TypeOK
<1>2. plan \in Plan /\ \A a \in DOMAIN plan.alias : plan.alias[a] \in plan.tags
  BY <1>1, ReconcileAssumption DEF plan
<1> HIDE DEF plan
<1>3. plan.tags \subseteq Tag /\ plan.version \in [Variant -> Nat]
      /\ plan.alias \in UNION {[names -> Tag] : names \in SUBSET Tag}
  BY <1>2 DEF Plan
<1>4. DOMAIN plan.alias \subseteq Tag
  <2>1. PICK names \in SUBSET Tag : plan.alias \in [names -> Tag]
    BY <1>3
  <2>2. QED
    BY <2>1
<1>5. \A t \in Tag : VersionOf(plan, t) \in Nat
  BY <1>3, PlanAssumption DEF VersionOf
<1>6. QED
  BY <1>2, <1>3, <1>4, <1>5

\* What is kept is in the mirror, hardened as asked, of the content read or of one that the
\* new content is too young to replace.
LEMMA KeptFacts ==
  ASSUME NEW p, NEW s, NEW m, NEW time, NEW t \in ToKeep(p, s, m, time)
  PROVE  /\ t \in p.tags /\ t \notin ToPlace(p, s, m, time)
         /\ m[t] # Absent /\ m[t].version = VersionOf(p, t)
         /\ m[t].base = s[SourceOf[t]].digest \/ ~(time - s[SourceOf[t]].pushed >= Grace)
<1>1. t \in p.tags /\ t \notin ToPlace(p, s, m, time) /\ Decision(p, s, m, time, t) = "keep"
  BY DEF ToKeep, ToPlace
<1>2. m[t] # Absent
  <2>1. m[t] = Absent => Decision(p, s, m, time, t) = "import"
    BY DEF Decision, Classify
  <2>2. QED
    BY <1>1, <2>1
<1>3. m[t].version = VersionOf(p, t)
      /\ (m[t].base = s[SourceOf[t]].digest \/ ~(time - s[SourceOf[t]].pushed >= Grace))
  <2>1. ~(\/ m[t].version # VersionOf(p, t)
          \/ m[t].base # s[SourceOf[t]].digest /\ time - s[SourceOf[t]].pushed >= Grace)
    BY <1>1, <1>2 DEF Decision, Classify
  <2>2. QED
    BY <2>1
<1>4. QED
  BY <1>1, <1>2, <1>3

\* What a run makes of an image is an artifact with its digest.
LEMMA ArtifactFacts ==
  ASSUME NEW image \in Upstream, NEW time \in Nat
  PROVE  ArtifactOf(image, time) \in Artifact /\ ArtifactOf(image, time).digest = image.digest
<1>1. image.digest \in Digest /\ (image.created = Unknown \/ image.created \in Nat)
  BY DEF Upstream
<1>2. PICK day \in Nat : ArtifactOf(image, time) = [digest |-> image.digest, pushed |-> day]
  BY <1>1 DEF ArtifactOf
<1>3. QED
  BY <1>1, <1>2 DEF Artifact

LEMMA InspectedFacts ==
  ASSUME upstream \in [Source -> Upstream], now \in Nat
  PROVE  /\ Inspected \in [Source -> Artifact]
         /\ \A s \in Source : Inspected[s].digest = upstream[s].digest
<1>1. \A s \in Source : upstream[s] \in Upstream
  OBVIOUS
<1>2. \A s \in Source : Inspected[s] = ArtifactOf(upstream[s], now)
  BY DEF Inspected
<1>3. \A s \in Source : ArtifactOf(upstream[s], now) \in Artifact
                        /\ ArtifactOf(upstream[s], now).digest = upstream[s].digest
  BY <1>1, ArtifactFacts
<1>4. Inspected \in [Source -> Artifact]
  BY <1>3 DEF Inspected
<1>5. QED
  BY <1>2, <1>3, <1>4

LEMMA PlacedFacts ==
  ASSUME TypeOK, NEW t \in Tag
  PROVE  /\ Placed(t) \in Manifest /\ Placed(t).name = 0
         /\ Placed(t).content = src[SourceOf[t]].digest /\ Placed(t).built = VersionOf(plan, t)
         /\ Placed(t).base = NoBase \/ (ForeignStamp /\ Placed(t).base = Foreign)
         /\ Stamped(Placed(t), t) \in Manifest
         /\ Stamped(Placed(t), t).name = t /\ Stamped(Placed(t), t).version = VersionOf(plan, t)
         /\ Stamped(Placed(t), t).base = src[SourceOf[t]].digest
         /\ Stamped(Placed(t), t).content = src[SourceOf[t]].digest
         /\ Stamped(Placed(t), t).built = VersionOf(plan, t)
<1> DEFINE d == src[SourceOf[t]].digest
           n == VersionOf(plan, t)
<1>1. d \in Digest /\ n \in Nat /\ now \in Nat
  <2>1. SourceOf[t] \in Source
    BY PlanAssumption
  <2>2. src[SourceOf[t]] \in Artifact
    BY <2>1 DEF TypeOK
  <2>3. QED
    BY <2>2, PlanFacts DEF TypeOK, Artifact
<1> HIDE DEF d, n
<1>2. PICK b \in {NoBase, Foreign} : /\ (b = NoBase \/ (ForeignStamp /\ b = Foreign))
                                      /\ Placed(t) = [content |-> d, built |-> n, base |-> b,
                                                      version |-> 0, name |-> 0, at |-> 0]
  <2>1. CASE n = 0
    <3>1. Placed(t) = [content |-> d, built |-> n, base |-> IF ForeignStamp THEN Foreign ELSE NoBase,
                       version |-> 0, name |-> 0, at |-> 0]
      BY <2>1 DEF Placed, CopyOf, d, n
    <3>2. QED
      BY <3>1
  <2>2. CASE n # 0
    BY <2>2 DEF Placed, BuildOf, d, n
  <2>3. QED
    BY <2>1, <2>2
<1>3. Stamped(Placed(t), t) = [content |-> d, built |-> n, base |-> d, version |-> n, name |-> t, at |-> now]
  <2>1. PICK m : m = Placed(t)
    OBVIOUS
  <2>2. m = [content |-> d, built |-> n, base |-> b, version |-> 0, name |-> 0, at |-> 0]
    BY <1>2, <2>1
  <2>3. Stamped(m, t) = [content |-> d, built |-> n, base |-> d, version |-> n, name |-> t, at |-> now]
    <3>1. [m EXCEPT !.base = d, !.version = n, !.name = t, !.at = now]
              = [content |-> d, built |-> n, base |-> d, version |-> n, name |-> t, at |-> now]
      <4>1. [m EXCEPT !.base = d]
                = [content |-> d, built |-> n, base |-> d, version |-> 0, name |-> 0, at |-> 0]
        BY <2>2
      <4>2. [[content |-> d, built |-> n, base |-> d, version |-> 0, name |-> 0, at |-> 0] EXCEPT !.version = n]
                = [content |-> d, built |-> n, base |-> d, version |-> n, name |-> 0, at |-> 0]
        OBVIOUS
      <4>3. [[content |-> d, built |-> n, base |-> d, version |-> n, name |-> 0, at |-> 0] EXCEPT !.name = t]
                = [content |-> d, built |-> n, base |-> d, version |-> n, name |-> t, at |-> 0]
        OBVIOUS
      <4>4. [[content |-> d, built |-> n, base |-> d, version |-> n, name |-> t, at |-> 0] EXCEPT !.at = now]
                = [content |-> d, built |-> n, base |-> d, version |-> n, name |-> t, at |-> now]
        OBVIOUS
      <4>5. QED
        BY <4>1, <4>2, <4>3, <4>4
    <3>2. QED
      BY <3>1 DEF Stamped, d, n
  <2>4. QED
    BY <2>1, <2>3
<1>4. QED
  BY <1>1, <1>2, <1>3 DEF Manifest, d, n

-----------------------------------------------------------------------------
(* The items' steps, as what they do to the items and to the repository.   *)

\* The item of i's tag goes on with step next, or is done with; the others stay.
Replaced(i, next, out) ==
    /\ \A j \in work' : \/ j \in work /\ j.tag # i.tag
                        \/ next # "done" /\ j = [tag |-> i.tag, step |-> next, out |-> out]
    /\ \A j \in work : j.tag # i.tag => j \in work'
    /\ next # "done" => \E j \in work' : j.tag = i.tag /\ j.step = next /\ j.out = out

PlaceShape(i) ==
    /\ stage = "import" /\ i.step = "place"
    /\ tagged' = [tagged EXCEPT ![i.tag] = Placed(i.tag)]
    /\ Replaced(i, "stamp", Absent)
    /\ UNCHANGED <<covers, marks, clean>>

StampShape(i) ==
    /\ stage = "import" /\ i.step = "stamp"
    /\ tagged' = [tagged EXCEPT ![i.tag] = Stamped(Placed(i.tag), i.tag)]
    /\ Replaced(i, AfterStamp, Stamped(Placed(i.tag), i.tag))
    /\ UNCHANGED <<covers, marks, clean>>

AttachShape(i) ==
    /\ stage \in {"import", "sign", "sbom"} /\ i.step \in {"sbom", "sbomSig", "sign"}
    /\ covers' = covers \cup {<<i.out, IF i.step = "sign" THEN "transformSig" ELSE i.step>>}
    /\ Replaced(i, IF i.step = "sign" THEN "done"
                   ELSE IF i.step = "sbom" /\ Signing THEN "sbomSig" ELSE AfterSbom, i.out)
    /\ UNCHANGED <<tagged, marks, clean>>

AliasShape(i) ==
    /\ stage = "alias" /\ i.step = "alias"
    /\ tagged[plan.alias[i.tag]] # Absent
    /\ tagged' = [tagged EXCEPT ![i.tag] = tagged[plan.alias[i.tag]]]
    /\ Replaced(i, "done", Absent)
    /\ UNCHANGED <<covers, marks, clean>>

DeleteShape(i) ==
    /\ stage = "delete" /\ i.step = "delete"
    /\ tagged' = [tagged EXCEPT ![i.tag] = Absent]
    /\ Replaced(i, "done", Absent)
    /\ UNCHANGED <<covers, marks, clean>>

MarkShape(i) ==
    /\ i.step \in {"mark", "retain"} /\ stage \in {"delete", "retain"}
    /\ marks' \subseteq marks \cup {[of |-> tagged[i.tag], reason |-> "dropped-from-selection"],
                                    [of |-> tagged[i.tag], reason |-> "retention-excess"]}
    /\ tagged[i.tag] # Absent
    /\ Replaced(i, "done", Absent)
    /\ UNCHANGED <<tagged, covers, clean>>

GiveUpShape(i) ==
    /\ Replaced(i, "done", Absent)
    /\ clean' = FALSE
    /\ UNCHANGED <<tagged, covers, marks>>

ClearShape ==
    /\ stage = "unmark" /\ marks' \subseteq marks
    /\ UNCHANGED <<tagged, covers, work>>
    /\ clean' = clean \/ clean' = FALSE

ItemShape ==
    \/ ClearShape
    \/ \E i \in work : \/ PlaceShape(i) \/ StampShape(i) \/ AttachShape(i) \/ AliasShape(i)
                       \/ DeleteShape(i) \/ MarkShape(i) \/ GiveUpShape(i)

\* GoOn, told of the tags: each has one item.
LEMMA WorkMoves ==
  ASSUME TypeOK, WorkOK, NEW i \in work, NEW next, NEW out, GoOn(i, next, out)
  PROVE  Replaced(i, next, out)
<1> DEFINE k == [i EXCEPT !.step = next, !.out = out]
<1>1. i \in Items
  BY DEF TypeOK
<1>2. k = [tag |-> i.tag, step |-> next, out |-> out] /\ k.tag = i.tag /\ k.step = next /\ k.out = out
  <2>1. i = [tag |-> i.tag, step |-> i.step, out |-> i.out]
    BY <1>1 DEF Items
  <2>2. [i EXCEPT !.step = next] = [tag |-> i.tag, step |-> next, out |-> i.out]
    BY <2>1
  <2>3. [[tag |-> i.tag, step |-> next, out |-> i.out] EXCEPT !.out = out] = [tag |-> i.tag, step |-> next, out |-> out]
    OBVIOUS
  <2>4. k = [tag |-> i.tag, step |-> next, out |-> out]
    BY <2>2, <2>3
  <2>5. QED
    BY <2>4
<1>3. work' = (work \ {i}) \cup (IF next = "done" THEN {} ELSE {k})
  BY DEF GoOn
<1> HIDE DEF k
<1>4. \A j \in work : j # i => j.tag # i.tag
  BY DEF WorkOK
<1>5. QED
  BY <1>2, <1>3, <1>4 DEF Replaced

LEMMA ItemShapes ==
  ASSUME Inv, ItemStep
  PROVE  ItemShape
<1>1. ASSUME NEW m \in clearing, ClearMark(m)
      PROVE  ClearShape
  <2>1. stage = "unmark"
    BY <1>1 DEF Inv, TypeOK
  <2>2. QED
    BY <1>1, <2>1 DEF ClearMark, ClearShape
<1>2. ASSUME NEW i \in work
      PROVE  /\ i.tag \in Tag /\ i.step \in StepsIn[stage]
             /\ stage \in {"import", "sign", "sbom", "alias", "delete", "retain"}
  BY DEF Inv, TypeOK, WorkOK, Items
<1>3. ASSUME NEW i \in work
      PROVE  /\ i.step \in {"place", "stamp"} => stage = "import"
             /\ i.step \in {"sbom", "sbomSig", "sign"} => stage \in {"import", "sign", "sbom"}
             /\ i.step = "alias" => stage = "alias"
             /\ i.step = "delete" => stage = "delete"
             /\ i.step \in {"mark", "retain"} => stage \in {"delete", "retain"}
  BY <1>2 DEF StepsIn
<1>4. ASSUME NEW i \in work, Place(i)
      PROVE  PlaceShape(i)
  BY <1>3, <1>4, WorkMoves DEF Place, PlaceShape, Inv
<1>5. ASSUME NEW i \in work, Stamp(i)
      PROVE  StampShape(i)
  <2>1. ToStamp(i.tag) = Placed(i.tag) /\ i.step = "stamp"
    <3>1. i.step = "stamp" /\ ToStamp(i.tag) # Absent
      BY <1>5 DEF Stamp
    <3>2. QED
      BY <3>1 DEF Inv, StampsOK, ToStamp
  <2>2. tagged' = [tagged EXCEPT ![i.tag] = Stamped(Placed(i.tag), i.tag)]
    BY <1>5, <2>1 DEF Stamp
  <2>3. tagged'[i.tag] = Stamped(Placed(i.tag), i.tag)
    BY <1>2, <2>2 DEF Inv, TypeOK
  <2>4. Replaced(i, AfterStamp, Stamped(Placed(i.tag), i.tag))
    BY <1>5, <2>3, WorkMoves DEF Stamp, Inv
  <2>5. QED
    BY <1>3, <1>5, <2>1, <2>2, <2>4 DEF Stamp, StampShape
<1>6. ASSUME NEW i \in work, AttachSbom(i) \/ SignSbom(i) \/ Sign(i)
      PROVE  AttachShape(i)
  <2>1. CASE AttachSbom(i)
    <3>1. Replaced(i, IF Signing THEN "sbomSig" ELSE AfterSbom, i.out)
      BY <2>1, WorkMoves DEF AttachSbom, Inv
    <3>2. QED
      BY <1>3, <2>1, <3>1 DEF AttachSbom, AttachShape
  <2>2. CASE SignSbom(i)
    <3>1. Replaced(i, AfterSbom, i.out)
      BY <2>2, WorkMoves DEF SignSbom, Inv
    <3>2. QED
      BY <1>3, <2>2, <3>1 DEF SignSbom, AttachShape
  <2>3. CASE Sign(i)
    <3>1. Replaced(i, "done", i.out)
      BY <2>3, WorkMoves DEF Sign, Inv
    <3>2. QED
      BY <1>3, <2>3, <3>1 DEF Sign, AttachShape
  <2>4. QED
    BY <1>6, <2>1, <2>2, <2>3
<1>7. ASSUME NEW i \in work, SetAlias(i)
      PROVE  AliasShape(i)
  BY <1>3, <1>7, WorkMoves DEF SetAlias, AliasShape, Inv
<1>8. ASSUME NEW i \in work, DeleteTag(i)
      PROVE  DeleteShape(i)
  BY <1>3, <1>8, WorkMoves DEF DeleteTag, DeleteShape, Inv
<1>9. ASSUME NEW i \in work, PutMark(i)
      PROVE  MarkShape(i)
  <2>1. Replaced(i, "done", Absent)
    BY <1>9, WorkMoves DEF PutMark, Inv
  <2>2. CASE i.step = "mark"
    BY <1>3, <1>9, <2>1, <2>2 DEF PutMark, MarkShape
  <2>3. CASE i.step # "mark"
    BY <1>3, <1>9, <2>1, <2>3 DEF PutMark, MarkShape
  <2>4. QED
    BY <2>2, <2>3
<1>10. ASSUME NEW i \in work, NoTag(i) \/ OpFails(i)
       PROVE  GiveUpShape(i)
  <2>1. GoOn(i, "done", Absent) /\ clean' = FALSE /\ UNCHANGED <<tagged, covers, marks>>
    BY <1>10 DEF NoTag, OpFails, repoVars
  <2>2. QED
    BY <2>1, WorkMoves DEF GiveUpShape, Inv
<1>11. QED
  BY <1>1, <1>4, <1>5, <1>6, <1>7, <1>8, <1>9, <1>10 DEF ItemStep, ItemShape

-----------------------------------------------------------------------------
(* Inv is inductive.                                                       *)

Still == UNCHANGED <<stage, readVars>>

\* The next step of an item is one of its stage, and what attaches has what to attach to.
LEMMA WorkGoesOn ==
  ASSUME Inv, Still, NEW i \in work, NEW next, NEW out, Replaced(i, next, out),
         next # "done" => /\ next \in StepsIn[stage] /\ out \in Manifest \cup {Absent}
                          /\ next \in {"sbom", "sbomSig", "sign"} => out \in Manifest
  PROVE  WorkOK' /\ work' \subseteq Items
<1>1. i \in Items /\ stage \in {"import", "sign", "sbom", "alias", "delete", "retain"}
  BY DEF Inv, TypeOK
<1>2. ASSUME NEW j \in work', j \notin work
      PROVE  /\ j = [tag |-> i.tag, step |-> next, out |-> out] /\ next # "done"
             /\ j.tag = i.tag /\ j.step = next /\ j.out = out
  BY <1>2 DEF Replaced
<1>3. ASSUME NEW j \in work'
      PROVE  \E k \in work : k.tag = j.tag
  BY <1>2, <1>3
<1>4. work' \subseteq Items
  <2> SUFFICES ASSUME NEW j \in work' PROVE j \in Items
    OBVIOUS
  <2>1. CASE j \in work
    BY <2>1 DEF Inv, TypeOK
  <2>2. CASE j \notin work
    <3>1. next \in Steps
      BY <1>1, <1>2, <2>2 DEF StepsIn, Steps
    <3>2. QED
      BY <1>1, <1>2, <2>2, <3>1 DEF Items
  <2>3. QED
    BY <2>1, <2>2
<1>5. UNCHANGED <<stage, plan, src, mir, now>>
  BY DEF Still, readVars, plan
<1> HIDE DEF plan
<1>6. \A j \in work' : j.step \in StepsIn[stage]'
  BY <1>2, <1>5 DEF Inv, WorkOK
<1>7. \A j, k \in work' : j.tag = k.tag => j = k
  BY DEF Inv, WorkOK, Replaced
<1>8. \A j \in work' : j.step \in {"sbom", "sbomSig", "sign"} => j.out \in Manifest
  BY <1>2 DEF Inv, WorkOK
<1>9. /\ \A j \in work' : stage' = "import" => j.tag \in ToPlace(plan, src, mir, now)'
      /\ \A j \in work' : stage' = "alias" => j.tag \in (DOMAIN plan.alias)'
      /\ \A j \in work' : stage' = "delete" => j.tag \notin Desired(plan)'
  <2>1. ToPlace(plan, src, mir, now)' = ToPlace(plan, src, mir, now)
    BY <1>5 DEF ToPlace, Decision, Classify, VersionOf
  <2>2. Desired(plan)' = Desired(plan) /\ (DOMAIN plan.alias)' = DOMAIN plan.alias
    BY <1>5 DEF Desired
  <2>3. QED
    BY <1>3, <1>5, <2>1, <2>2 DEF Inv, WorkOK
<1>10. QED
  BY <1>4, <1>6, <1>7, <1>8, <1>9 DEF WorkOK

LEMMA ItemWork ==
  ASSUME Inv, Still, ItemShape
  PROVE  WorkOK' /\ work' \subseteq Items
<1>1. CASE ClearShape
  <2>1. work = {}
    BY <1>1 DEF ClearShape, Inv, TypeOK
  <2>2. work' = {}
    BY <1>1, <2>1 DEF ClearShape
  <2>3. QED
    BY <2>2 DEF WorkOK
<1>2. ASSUME NEW i \in work, PlaceShape(i)
      PROVE  WorkOK' /\ work' \subseteq Items
  <2>1. "stamp" \in StepsIn[stage]
    BY <1>2 DEF PlaceShape, StepsIn
  <2>2. QED
    BY <1>2, <2>1, WorkGoesOn DEF PlaceShape
<1>3. ASSUME NEW i \in work, StampShape(i)
      PROVE  WorkOK' /\ work' \subseteq Items
  <2>1. Stamped(Placed(i.tag), i.tag) \in Manifest
    BY PlacedFacts DEF Inv, TypeOK, Items
  <2>2. AfterStamp # "done" => AfterStamp \in StepsIn[stage]
    BY <1>3 DEF StampShape, AfterStamp, StepsIn
  <2>3. QED
    BY <1>3, <2>1, <2>2, WorkGoesOn DEF StampShape
<1>4. ASSUME NEW i \in work, AttachShape(i)
      PROVE  WorkOK' /\ work' \subseteq Items
  <2>1. i.out \in Manifest
    BY <1>4 DEF AttachShape, Inv, WorkOK
  <2>2. i.step \in StepsIn[stage]
    BY DEF Inv, WorkOK
  <2> DEFINE next == IF i.step = "sign" THEN "done"
                     ELSE IF i.step = "sbom" /\ Signing THEN "sbomSig" ELSE AfterSbom
  <2>3. next # "done" => next \in StepsIn[stage]
    BY <1>4, <2>2 DEF AttachShape, AfterSbom, StepsIn
  <2>4. Replaced(i, next, i.out)
    BY <1>4 DEF AttachShape
  <2> HIDE DEF next
  <2>5. QED
    BY <2>1, <2>3, <2>4, WorkGoesOn
<1>5. ASSUME NEW i \in work, AliasShape(i) \/ DeleteShape(i) \/ MarkShape(i) \/ GiveUpShape(i)
      PROVE  WorkOK' /\ work' \subseteq Items
  <2>1. Replaced(i, "done", Absent)
    BY <1>5 DEF AliasShape, DeleteShape, MarkShape, GiveUpShape
  <2>2. QED
    BY <2>1, WorkGoesOn
<1>6. QED
  BY <1>1, <1>2, <1>3, <1>4, <1>5 DEF ItemShape

\* The repository keeps its type, and stamps stay true.
LEMMA ItemRepo ==
  ASSUME Inv, Still, ItemShape
  PROVE  /\ tagged' \in [Tag -> Manifest \cup {Absent}] /\ covers' \subseteq Manifest \X Kinds
         /\ marks' \subseteq Mark /\ clean' \in BOOLEAN
         /\ StampsOK' /\ BaseOK'
<1>1. \A i \in work : i.tag \in Tag
  BY DEF Inv, TypeOK, Items
<1>2. \A t \in Tag : Placed(t)' = Placed(t)
  BY DEF Still, readVars, Placed, CopyOf, BuildOf, VersionOf, plan
<1>3. ASSUME NEW t \in Tag, NEW m \in Manifest \cup {Absent},
             tagged' = [tagged EXCEPT ![t] = m],
             m # Absent => /\ m.name # 0 => m.base = m.content /\ m.version = m.built
                           /\ m.name = 0 => m.base = NoBase \/ (ForeignStamp /\ m.base = Foreign),
             \A j \in work' : j.step = "stamp" => tagged'[j.tag] \in {Placed(j.tag), Absent}
      PROVE  tagged' \in [Tag -> Manifest \cup {Absent}] /\ StampsOK' /\ BaseOK'
  <2>1. tagged' \in [Tag -> Manifest \cup {Absent}]
        /\ \A u \in Tag : tagged'[u] = IF u = t THEN m ELSE tagged[u]
    BY <1>3 DEF Inv, TypeOK
  <2>2. StampTruthful'
    BY <1>3, <2>1 DEF Inv, StampsOK, StampTruthful, Stamps
  <2>3. BaseOK'
    BY <1>3, <2>1 DEF Inv, BaseOK
  <2>4. \A j \in work' : j.tag \in Tag
    BY ItemWork DEF Items
  <2>5. \A j \in work' : j.step = "stamp" => tagged'[j.tag] \in {Placed(j.tag)', Absent}
    BY <1>2, <1>3, <2>4
  <2>6. QED
    BY <2>1, <2>2, <2>3, <2>5 DEF StampsOK
<1>4. ASSUME tagged' = tagged, \A j \in work' : j.step = "stamp" => j \in work
      PROVE  tagged' \in [Tag -> Manifest \cup {Absent}] /\ StampsOK' /\ BaseOK'
  <2>1. StampTruthful' /\ BaseOK'
    BY <1>4 DEF Inv, StampsOK, StampTruthful, Stamps, BaseOK
  <2>2. \A j \in work' : j.step = "stamp" => tagged'[j.tag] \in {Placed(j.tag)', Absent}
    BY <1>1, <1>2, <1>4 DEF Inv, StampsOK
  <2>3. QED
    BY <1>4, <2>1, <2>2 DEF Inv, TypeOK, StampsOK
<1>5. covers \subseteq Manifest \X Kinds /\ marks \subseteq Mark /\ clean \in BOOLEAN
  BY DEF Inv, TypeOK
<1>6. CASE ClearShape
  BY <1>4, <1>5, <1>6 DEF ClearShape
<1>7. ASSUME NEW i \in work, PlaceShape(i)
      PROVE  tagged' \in [Tag -> Manifest \cup {Absent}] /\ StampsOK' /\ BaseOK'
  <2>1. /\ Placed(i.tag) \in Manifest /\ Placed(i.tag).name = 0
        /\ Placed(i.tag).base = NoBase \/ (ForeignStamp /\ Placed(i.tag).base = Foreign)
    BY <1>1, PlacedFacts DEF Inv
  <2>2. tagged' = [tagged EXCEPT ![i.tag] = Placed(i.tag)]
    BY <1>7 DEF PlaceShape
  <2>3. ASSUME NEW j \in work', j.step = "stamp"
        PROVE  tagged'[j.tag] \in {Placed(j.tag), Absent}
    <3>1. (j \in work /\ j.tag # i.tag) \/ j = [tag |-> i.tag, step |-> "stamp", out |-> Absent]
      BY <1>7 DEF PlaceShape, Replaced
    <3>2. CASE j \in work /\ j.tag # i.tag
      BY <1>1, <2>2, <2>3, <3>2 DEF Inv, StampsOK, TypeOK
    <3>3. CASE j = [tag |-> i.tag, step |-> "stamp", out |-> Absent]
      BY <1>1, <2>2, <3>3 DEF Inv, TypeOK
    <3>4. QED
      BY <3>1, <3>2, <3>3
  <2> DEFINE m == Placed(i.tag)
             t == i.tag
  <2>4. t \in Tag /\ m \in Manifest /\ m.name = 0
        /\ (m.base = NoBase \/ (ForeignStamp /\ m.base = Foreign)) /\ tagged' = [tagged EXCEPT ![t] = m]
    BY <1>1, <2>1, <2>2
  <2> HIDE DEF m, t
  <2>5. QED
    BY <1>3, <2>3, <2>4
<1>8. ASSUME NEW i \in work, StampShape(i)
      PROVE  tagged' \in [Tag -> Manifest \cup {Absent}] /\ StampsOK' /\ BaseOK'
  <2> DEFINE m == Stamped(Placed(i.tag), i.tag)
             t == i.tag
  <2>1. t \in Tag /\ m \in Manifest /\ m.base = m.content /\ m.version = m.built /\ m.name = t /\ t # 0
    BY <1>1, PlacedFacts, PlanAssumption DEF Inv
  <2>2. tagged' = [tagged EXCEPT ![t] = m]
    BY <1>8 DEF StampShape
  <2>3. \A j \in work' : j.step = "stamp" => j \in work /\ j.tag # t
    BY <1>8 DEF StampShape, Replaced, AfterStamp
  <2>4. \A j \in work' : j.step = "stamp" => tagged'[j.tag] \in {Placed(j.tag), Absent}
    <3> HIDE DEF m, t
    <3>1. ASSUME NEW j \in work', j.step = "stamp"
          PROVE  tagged'[j.tag] \in {Placed(j.tag), Absent}
      <4>1. j \in work /\ j.tag # t /\ j.tag \in Tag /\ tagged[j.tag] \in {Placed(j.tag), Absent}
        BY <1>1, <2>3, <3>1 DEF Inv, StampsOK
      <4>2. tagged'[j.tag] = tagged[j.tag]
        BY <2>2, <4>1 DEF Inv, TypeOK
      <4>3. QED
        BY <4>1, <4>2
    <3>2. QED
      BY <3>1
  <2> HIDE DEF m, t
  <2>5. QED
    BY <1>3, <2>1, <2>2, <2>4
<1>9. ASSUME NEW i \in work, AliasShape(i) \/ DeleteShape(i)
      PROVE  tagged' \in [Tag -> Manifest \cup {Absent}] /\ StampsOK' /\ BaseOK'
  <2>1. PICK m \in Manifest \cup {Absent} :
            /\ tagged' = [tagged EXCEPT ![i.tag] = m]
            /\ m # Absent => \E u \in Tag : m = tagged[u]
    <3>1. CASE AliasShape(i)
      <4>1. plan.alias[i.tag] \in Tag
        BY <3>1, PlanFacts DEF AliasShape, Inv, WorkOK
      <4>2. tagged[plan.alias[i.tag]] \in Manifest \cup {Absent}
        BY <4>1 DEF Inv, TypeOK
      <4>3. QED
        BY <3>1, <4>1, <4>2 DEF AliasShape
    <3>2. CASE DeleteShape(i)
      BY <3>2 DEF DeleteShape
    <3>3. QED
      BY <1>9, <3>1, <3>2
  <2>2. m # Absent => /\ m.name # 0 => m.base = m.content /\ m.version = m.built
                      /\ m.name = 0 => m.base = NoBase \/ (ForeignStamp /\ m.base = Foreign)
    BY <2>1 DEF Inv, StampsOK, StampTruthful, Stamps, BaseOK
  <2>3. stage \in {"alias", "delete"} /\ \A j \in work' : j \in work
    BY <1>9 DEF AliasShape, DeleteShape, Replaced
  <2>4. \A j \in work' : j.step # "stamp"
    BY <2>3 DEF Inv, WorkOK, StepsIn
  <2>5. QED
    BY <1>1, <1>3, <2>1, <2>2, <2>4
<1>10. ASSUME NEW i \in work, AttachShape(i) \/ MarkShape(i) \/ GiveUpShape(i)
       PROVE  tagged' \in [Tag -> Manifest \cup {Absent}] /\ StampsOK' /\ BaseOK'
  <2>1. tagged' = tagged /\ \A j \in work' : j.step = "stamp" => j \in work
    BY <1>10 DEF AttachShape, MarkShape, GiveUpShape, Replaced, AfterSbom
  <2>2. QED
    BY <1>4, <2>1
<1>11. ASSUME NEW i \in work, AttachShape(i)
       PROVE  covers' \subseteq Manifest \X Kinds
  <2>1. i.out \in Manifest
    BY <1>11 DEF AttachShape, Inv, WorkOK
  <2>2. QED
    BY <1>5, <1>11, <2>1 DEF AttachShape, Kinds
<1>12. ASSUME NEW i \in work, MarkShape(i)
       PROVE  marks' \subseteq Mark
  <2>1. tagged[i.tag] \in Manifest
    BY <1>1, <1>12 DEF MarkShape, Inv, TypeOK
  <2>2. QED
    BY <1>5, <1>12, <2>1 DEF MarkShape, Mark
<1>13. ASSUME NEW i \in work, \/ PlaceShape(i) \/ StampShape(i) \/ AttachShape(i) \/ AliasShape(i)
                              \/ DeleteShape(i) \/ MarkShape(i) \/ GiveUpShape(i)
       PROVE  covers' \subseteq Manifest \X Kinds /\ marks' \subseteq Mark /\ clean' \in BOOLEAN
  BY <1>5, <1>11, <1>12, <1>13 DEF PlaceShape, StampShape, AttachShape, AliasShape, DeleteShape, MarkShape, GiveUpShape
<1>14. QED
  BY <1>5, <1>6, <1>7, <1>8, <1>9, <1>10, <1>13 DEF ItemShape, ClearShape

\* What WorkOK asks of the items that a stage begins with.
LEMMA StageItems ==
  ASSUME TypeOK, NEW next \in {"sign", "sbom", "alias", "delete", "retain", "unmark"}
  PROVE  /\ ItemsOf(next) \subseteq Items /\ (next = "unmark" => ItemsOf(next) = {})
         /\ \A i \in ItemsOf(next) : i.step \in StepsIn[next] /\ i.step # "stamp"
         /\ \A i, j \in ItemsOf(next) : i.tag = j.tag => i = j
         /\ \A i \in ItemsOf(next) : i.step \in {"sbom", "sbomSig", "sign"} =>
               /\ i.out \in Manifest /\ i.out = mir[i.tag] /\ i.tag \in ToKeep(plan, src, mir, now)
         /\ next = "alias" => {i.tag : i \in ItemsOf(next)} = DOMAIN plan.alias
         /\ \A i \in ItemsOf(next) : next = "delete" => i.tag \notin Desired(plan)
<1>1. plan.tags \subseteq Tag /\ DOMAIN plan.alias \subseteq Tag /\ mir \in [Tag -> Manifest \cup {Absent}]
  BY PlanFacts DEF TypeOK
<1>2. ASSUME NEW t \in ToKeep(plan, src, mir, now)
      PROVE  t \in Tag /\ mir[t] \in Manifest
  BY <1>1, KeptFacts
<1>3. CASE next = "sign"
  <2>1. ItemsOf(next) = {Backfill(t, "sign") : t \in ToSign}
    BY <1>3 DEF ItemsOf
  <2>2. ToSign \subseteq ToKeep(plan, src, mir, now)
    BY DEF ToSign
  <2>3. \A t \in ToSign : /\ Backfill(t, "sign") \in Items
                          /\ Backfill(t, "sign") = [tag |-> t, step |-> "sign", out |-> mir[t]]
    BY <1>2, <2>2 DEF Backfill, Items, Steps
  <2>4. QED
    BY <1>2, <1>3, <2>1, <2>2, <2>3 DEF StepsIn
<1>4. CASE next = "sbom"
  <2>1. ItemsOf(next) = {Backfill(t, "sbom") : t \in ToSbom}
    BY <1>4 DEF ItemsOf
  <2>2. ToSbom \subseteq ToKeep(plan, src, mir, now)
    BY DEF ToSbom
  <2>3. \A t \in ToSbom : /\ Backfill(t, "sbom") \in Items
                          /\ Backfill(t, "sbom") = [tag |-> t, step |-> "sbom", out |-> mir[t]]
    BY <1>2, <2>2 DEF Backfill, Items, Steps
  <2>4. QED
    BY <1>2, <1>4, <2>1, <2>2, <2>3 DEF StepsIn
<1>5. CASE next = "alias"
  <2>1. ItemsOf(next) = {Item(a, "alias") : a \in DOMAIN plan.alias}
    BY <1>5 DEF ItemsOf
  <2>2. \A a \in DOMAIN plan.alias : /\ Item(a, "alias") \in Items
                                     /\ Item(a, "alias") = [tag |-> a, step |-> "alias", out |-> Absent]
    BY <1>1 DEF Item, Items, Steps
  <2>3. QED
    BY <1>5, <2>1, <2>2 DEF StepsIn
<1>6. CASE next = "delete"
  <2>1. ItemsOf(next) = {Item(t, "mark") : t \in {u \in ToMark : plan.mark}}
                            \cup {Item(t, "delete") : t \in {u \in ToDelete(plan, mir) : ~plan.mark}}
    BY <1>6 DEF ItemsOf, ToRetire
  <2>2. ToMark \subseteq ToDelete(plan, mir) /\ ToDelete(plan, mir) \subseteq Tag \ Desired(plan)
    BY DEF ToMark, ToDelete, Mirrored
  <2>3. \A t \in ToDelete(plan, mir), s \in {"mark", "delete"} :
            Item(t, s) \in Items /\ Item(t, s) = [tag |-> t, step |-> s, out |-> Absent]
    BY <2>2 DEF Item, Items, Steps
  <2>4. CASE plan.mark
    <3>1. ItemsOf(next) = {Item(t, "mark") : t \in ToMark}
      BY <2>1, <2>4
    <3>2. QED
      BY <1>6, <2>2, <2>3, <3>1 DEF StepsIn
  <2>5. CASE ~plan.mark
    <3>1. ItemsOf(next) = {Item(t, "delete") : t \in ToDelete(plan, mir)}
      BY <2>1, <2>5
    <3>2. QED
      BY <1>6, <2>2, <2>3, <3>1 DEF StepsIn
  <2>6. QED
    BY <2>4, <2>5
<1>7. CASE next = "retain"
  <2>1. ItemsOf(next) = {Item(t, "retain") : t \in ToRetain}
    BY <1>7 DEF ItemsOf
  <2>2. ToRetain \subseteq Tag
    BY <1>1 DEF ToRetain, RetentionExcess, Excess, RetentionCandidates
  <2>3. \A t \in ToRetain : /\ Item(t, "retain") \in Items
                            /\ Item(t, "retain") = [tag |-> t, step |-> "retain", out |-> Absent]
    BY <2>2 DEF Item, Items, Steps
  <2>4. QED
    BY <1>7, <2>1, <2>3 DEF StepsIn
<1>8. CASE next = "unmark"
  <2>1. ItemsOf(next) = {}
    BY <1>8 DEF ItemsOf
  <2>2. QED
    BY <1>8, <2>1
<1>9. QED
  BY <1>3, <1>4, <1>5, <1>6, <1>7, <1>8

LEMMA BarrierFacts ==
  ASSUME Barrier
  PROVE  /\ stage \in {"import", "sign", "sbom", "alias", "delete", "retain"} /\ work = {}
         /\ stage' \in {"sign", "sbom", "alias", "delete", "retain", "unmark"}
         /\ stage = "import" => stage' = "sign"
         /\ stage = "sign" => stage' = "sbom"
         /\ stage = "sbom" => stage' = "alias"
         /\ stage = "alias" => stage' = "delete"
         /\ stage = "delete" => stage' = "retain"
         /\ stage = "retain" => stage' = "unmark"
         /\ work' = ItemsOf(stage')
  BY DEF Barrier, StageAfter

\* Steps that leave the repository and what the run read of the source alone.
LEMMA SameRepo ==
  ASSUME Inv, UNCHANGED tagged, \A i \in work' : i.step # "stamp"
  PROVE  StampsOK' /\ BaseOK'
<1>1. StampTruthful' /\ BaseOK'
  BY DEF Inv, StampsOK, StampTruthful, Stamps, BaseOK
<1>2. QED
  BY <1>1 DEF StampsOK

LEMMA InvInit == Init => Inv
<1> SUFFICES ASSUME Init PROVE Inv
  OBVIOUS
<1>1. upstream \in [Source -> Upstream]
  <2>1. upstream = [s \in Source |-> [digest |-> <<s, 0>>, created |-> 0]]
    BY DEF Init
  <2>2. \A s \in Source : [digest |-> <<s, 0>>, created |-> 0] \in Upstream
    BY DEF Upstream, Digest
  <2>3. QED
    BY <2>1, <2>2
<1>2. policy \in Policies /\ cur \in 1 .. Imports /\ clock \in 0 .. MaxClock /\ now \in 0 .. MaxClock
  BY PlanAssumption, ReconcileAssumption DEF Init
<1>3. tagged \in [Tag -> Manifest \cup {Absent}] /\ marked \in [Tag -> SUBSET Mark]
  BY DEF Init
<1>4. TypeOK
  <2>1. moves \in 0 .. MaxMoves /\ edits \in 0 .. MaxEdits /\ failures \in 0 .. MaxFailures /\ crashes \in 0 .. MaxCrashes
    BY ReconcileAssumption DEF Init
  <2>2. src \in [Source -> Artifact] /\ mir \in [Tag -> Manifest \cup {Absent}] /\ plans \in Policies
    <3>1. src = Inspected /\ now = 0 /\ mir = tagged /\ plans = policy
      BY DEF Init
    <3>2. QED
      BY <1>1, <1>2, <1>3, <3>1, InspectedFacts
  <2>3. /\ {clock, now} \subseteq 0 .. MaxClock /\ stage \in Stages /\ {clean, steady} \subseteq BOOLEAN
        /\ covers = {} /\ covered = {} /\ marks = {} /\ clearing = {} /\ work = {}
    BY <1>2 DEF Init, Stages
  <2>4. QED
    BY <1>1, <1>2, <1>3, <2>1, <2>2, <2>3 DEF TypeOK
<1>5. \A t \in Tag : tagged[t] = Absent
  BY DEF Init
<1>6. QED
  BY <1>4, <1>5 DEF Inv, Init, WorkOK, StampsOK, StampTruthful, Stamps, BaseOK

LEMMA InvItem ==
  ASSUME Inv, ItemStep
  PROVE  Inv'
<1>1. Still /\ ItemShape
  BY ItemShapes DEF ItemStep, Still
<1>2. WorkOK' /\ work' \subseteq Items
  BY <1>1, ItemWork
<1>3. /\ tagged' \in [Tag -> Manifest \cup {Absent}] /\ covers' \subseteq Manifest \X Kinds
      /\ marks' \subseteq Mark /\ clean' \in BOOLEAN /\ StampsOK' /\ BaseOK'
  BY <1>1, ItemRepo
<1>4. failures' \in 0 .. MaxFailures /\ clearing' \subseteq clearing
  <2>1. failures \in 0 .. MaxFailures /\ MaxFailures \in Nat
    BY ReconcileAssumption DEF Inv, TypeOK
  <2>2. failures' = failures \/ (failures < MaxFailures /\ failures' = failures + 1)
    BY DEF ItemStep, Place, Stamp, AttachSbom, SignSbom, Sign, SetAlias, DeleteTag, PutMark, NoTag, OpFails, ClearMark
  <2>3. failures' \in 0 .. MaxFailures
    BY <2>1, <2>2
  <2>4. clearing' \subseteq clearing
    BY DEF ItemStep, Place, Stamp, AttachSbom, SignSbom, Sign, SetAlias, DeleteTag, PutMark, NoTag, OpFails, ClearMark
  <2>5. QED
    BY <2>3, <2>4
<1>5. work' # {} => work # {}
  BY <1>1 DEF ItemShape, ClearShape
<1>6. UNCHANGED <<upstream, policy, clock, stage, plans, cur, now, src, mir, covered, marked, steady, moves, edits, crashes>>
  BY DEF ItemStep, worldVars, readVars
<1>7. TypeOK'
  BY <1>2, <1>3, <1>4, <1>5, <1>6 DEF Inv, TypeOK
<1>8. QED
  BY <1>2, <1>3, <1>7 DEF Inv

LEMMA InvRead ==
  ASSUME Inv, StartRun \/ ReadSource \/ ReadMirror \/ ReadMarks
  PROVE  Inv'
<1>1. CASE StartRun \/ ReadSource \/ ReadMirror
  <2>1. work = {} /\ clearing = {} /\ UNCHANGED <<worldVars, repoVars, covers, marks, work, clearing, steady, boundVars>>
    BY <1>1 DEF StartRun, ReadSource, ReadMirror, Inv, TypeOK, repoVars
  <2>2. /\ stage' \in Stages /\ plans' \in Policies /\ cur' \in 1 .. Imports /\ now' \in 0 .. MaxClock
        /\ src' \in [Source -> Artifact] /\ covered' \subseteq Manifest \X Kinds
        /\ marked' \in [Tag -> SUBSET Mark] /\ clean' \in BOOLEAN
    <3>1. CASE StartRun
      BY <3>1, ReconcileAssumption DEF StartRun, Inv, TypeOK, Stages
    <3>2. CASE ReadSource
      <4>1. src' = Inspected /\ now \in Nat
        BY <3>2, ReconcileAssumption DEF ReadSource, Inv, TypeOK
      <4>2. src' \in [Source -> Artifact]
        BY <4>1, InspectedFacts DEF Inv, TypeOK
      <4>3. QED
        BY <3>2, <4>2 DEF ReadSource, Inv, TypeOK, Stages
    <3>3. CASE ReadMirror
      BY <3>3 DEF ReadMirror, Inv, TypeOK, Stages
    <3>4. QED
      BY <1>1, <3>1, <3>2, <3>3
  <2>3. mir' \in [Tag -> Manifest \cup {Absent}]
    <3>1. CASE ReadMirror
      BY <3>1 DEF ReadMirror, MirrorOf, Inv, TypeOK
    <3>2. CASE StartRun \/ ReadSource
      BY <3>2 DEF StartRun, ReadSource, Inv, TypeOK
    <3>3. QED
      BY <1>1, <3>1, <3>2
  <2>4. TypeOK'
    BY <2>1, <2>2, <2>3 DEF Inv, TypeOK, worldVars, repoVars, boundVars
  <2>5. WorkOK' /\ StampsOK' /\ BaseOK'
    BY <2>1, SameRepo DEF WorkOK, repoVars
  <2>6. QED
    BY <2>4, <2>5 DEF Inv
<1>2. CASE ReadMarks
  <2>1. /\ stage' = "import" /\ work' = {Item(t, "place") : t \in ToPlace(plan, src, mir, now)}
        /\ UNCHANGED <<worldVars, repoVars, plans, cur, now, src, mir, covered, clearing, clean, steady, boundVars>>
        /\ stage = "marks"
        /\ marked' = [t \in Tag |-> IF t \in Mirrored(mir) THEN {m \in marks : m.of = tagged[t]} ELSE {}]
    BY <1>2 DEF ReadMarks
  <2>2. ToPlace(plan, src, mir, now) \subseteq Tag
    BY PlanFacts DEF Inv, ToPlace
  <2>3. \A t \in ToPlace(plan, src, mir, now) :
            Item(t, "place") \in Items /\ Item(t, "place") = [tag |-> t, step |-> "place", out |-> Absent]
    BY <2>2 DEF Item, Items, Steps
  <2>4. work' \subseteq Items /\ \A i \in work' : i.step = "place" /\ i.tag \in ToPlace(plan, src, mir, now) /\ i.out = Absent
    BY <2>1, <2>3
  <2>5. \A i, j \in work' : i.tag = j.tag => i = j
    BY <2>1, <2>3
  <2>6. WorkOK'
    <3>1. UNCHANGED <<plan, src, mir, now>>
      BY <2>1 DEF plan
    <3>2. ToPlace(plan, src, mir, now)' = ToPlace(plan, src, mir, now)
      BY <3>1 DEF ToPlace, Decision, Classify, VersionOf
    <3>3. QED
      BY <2>1, <2>4, <2>5, <3>2 DEF WorkOK, StepsIn
  <2>7. marked' \in [Tag -> SUBSET Mark]
    BY <2>1 DEF Inv, TypeOK
  <2>8. TypeOK'
    BY <2>1, <2>4, <2>7 DEF Inv, TypeOK, worldVars, repoVars, boundVars, Stages
  <2>9. StampsOK' /\ BaseOK'
    BY <2>1, <2>4, SameRepo DEF repoVars
  <2>10. QED
    BY <2>6, <2>8, <2>9 DEF Inv
<1>3. QED
  BY <1>1, <1>2

LEMMA InvBarrier ==
  ASSUME Inv, Barrier
  PROVE  Inv'
<1>1. /\ stage' \in {"sign", "sbom", "alias", "delete", "retain", "unmark"}
      /\ work' = ItemsOf(stage') /\ clearing' = IF stage' = "unmark" THEN ToUnmark ELSE {}
      /\ UNCHANGED <<worldVars, repoVars, readVars, clean, steady, boundVars>>
  BY BarrierFacts DEF Barrier
<1>2. /\ work' \subseteq Items /\ (stage' = "unmark" => work' = {})
      /\ \A i \in work' : i.step \in StepsIn[stage'] /\ i.step # "stamp"
      /\ \A i, j \in work' : i.tag = j.tag => i = j
      /\ \A i \in work' : i.step \in {"sbom", "sbomSig", "sign"} => i.out \in Manifest
      /\ stage' = "alias" => \A i \in work' : i.tag \in DOMAIN plan.alias
      /\ \A i \in work' : stage' = "delete" => i.tag \notin Desired(plan)
  BY <1>1, StageItems DEF Inv
<1>3. UNCHANGED <<plan, src, mir, now>>
  BY <1>1 DEF readVars, plan
<1>4. WorkOK'
  <2>1. Desired(plan)' = Desired(plan) /\ (DOMAIN plan.alias)' = DOMAIN plan.alias
    BY <1>3 DEF Desired
  <2>2. QED
    BY <1>1, <1>2, <2>1 DEF WorkOK
<1>5. clearing' \subseteq Mark
  <2>1. \A t \in MarkedFor("dropped-from-selection") \cup MarkedFor("retention-excess") : t \in Tag
    BY DEF MarkedFor, Mirrored
  <2>2. \A t \in Tag : marked[t] \subseteq Mark
    BY DEF Inv, TypeOK
  <2>3. ToUnmark \subseteq Mark
    BY <2>1, <2>2 DEF ToUnmark
  <2>4. QED
    BY <1>1, <2>3
<1>6. TypeOK'
  BY <1>1, <1>2, <1>5 DEF Inv, TypeOK, worldVars, repoVars, readVars, boundVars, Stages
<1>7. StampsOK' /\ BaseOK'
  BY <1>1, <1>2, SameRepo DEF repoVars
<1>8. QED
  BY <1>4, <1>6, <1>7 DEF Inv

LEMMA InvEnd ==
  ASSUME Inv, EndImport \/ EndRun
  PROVE  Inv'
<1>1. /\ work = {} /\ clearing' = clearing /\ (clearing # {} => FALSE)
      /\ UNCHANGED <<worldVars, repoVars, plans, now, src, mir, covered, marked, work, clean, boundVars>>
  BY DEF EndImport, EndRun, Inv, TypeOK, readVars
<1>2. stage' \in Stages /\ cur' \in 1 .. Imports /\ steady' \in BOOLEAN
  <2>1. CASE EndImport
    <3>1. cur \in 1 .. Imports /\ Imports \in Nat
      BY ReconcileAssumption DEF Inv, TypeOK
    <3>2. cur' = IF cur = Imports THEN cur ELSE cur + 1
      BY <2>1 DEF EndImport
    <3>3. cur' \in 1 .. Imports
      BY <3>1, <3>2
    <3>4. QED
      BY <2>1, <3>3 DEF EndImport, Inv, TypeOK, Stages
  <2>2. CASE EndRun
    <3>1. (clean /\ policy = plans /\ src = Inspected /\ clock = now) \in BOOLEAN
      OBVIOUS
    <3>2. QED
      BY <2>2, <3>1 DEF EndRun, Inv, TypeOK, readVars, Stages
  <2>3. QED
    BY <2>1, <2>2
<1>3. TypeOK'
  BY <1>1, <1>2 DEF Inv, TypeOK, worldVars, repoVars, boundVars
<1>4. WorkOK' /\ StampsOK' /\ BaseOK'
  BY <1>1, SameRepo DEF WorkOK, repoVars
<1>5. QED
  BY <1>3, <1>4 DEF Inv

LEMMA InvDies ==
  ASSUME Inv, RunDies, crashes' \in 0 .. MaxCrashes
  PROVE  Inv'
<1>1. /\ stage' = "idle" /\ work' = {} /\ clearing' = {} /\ clean' = FALSE /\ steady' = FALSE
      /\ UNCHANGED <<worldVars, repoVars, readVars, moves, edits, failures>>
  BY DEF RunDies
<1>2. TypeOK'
  BY <1>1 DEF Inv, TypeOK, worldVars, repoVars, readVars, Stages
<1>3. WorkOK' /\ StampsOK' /\ BaseOK'
  BY <1>1, SameRepo DEF WorkOK, repoVars
<1>4. QED
  BY <1>2, <1>3 DEF Inv

LEMMA InvAbort ==
  ASSUME Inv, Abort
  PROVE  Inv'
<1>1. RunDies /\ crashes < MaxCrashes /\ crashes' = crashes + 1
  BY DEF Abort
<1>2. crashes' \in 0 .. MaxCrashes
  BY <1>1, ReconcileAssumption DEF Inv, TypeOK
<1>3. QED
  BY <1>1, <1>2, InvDies

LEMMA InvWorld ==
  ASSUME Inv, (\E s \in Source : UpstreamMoves(s)) \/ EditPolicy \/ Tick
  PROVE  Inv'
<1>1. /\ UNCHANGED <<repoVars, runVars, clean, failures, crashes>> /\ steady' = FALSE
  BY DEF UpstreamMoves, EditPolicy, Tick, boundVars
<1>2. /\ upstream' \in [Source -> Upstream] /\ policy' \in Policies /\ clock' \in 0 .. MaxClock
      /\ moves' \in 0 .. MaxMoves /\ edits' \in 0 .. MaxEdits
  <2>1. ASSUME NEW s \in Source, UpstreamMoves(s)
        PROVE  upstream' \in [Source -> Upstream] /\ moves' \in 0 .. MaxMoves
    <3>1. upstream[s].digest[2] \in Nat /\ clock \in Nat
      BY DEF Inv, TypeOK, Upstream, Digest
    <3>2. PICK created \in 0 .. clock \cup {Unknown} :
              upstream' = [upstream EXCEPT ![s] = [digest |-> <<s, upstream[s].digest[2] + 1>>, created |-> created]]
      BY <2>1 DEF UpstreamMoves
    <3>3. [digest |-> <<s, upstream[s].digest[2] + 1>>, created |-> created] \in Upstream
      BY <3>1 DEF Upstream, Digest
    <3>4. upstream' \in [Source -> Upstream]
      BY <3>2, <3>3 DEF Inv, TypeOK
    <3>5. moves' \in 0 .. MaxMoves
      BY <2>1, ReconcileAssumption DEF UpstreamMoves, Inv, TypeOK
    <3>6. QED
      BY <3>4, <3>5
  <2>2. CASE \E s \in Source : UpstreamMoves(s)
    BY <2>1, <2>2 DEF UpstreamMoves, Inv, TypeOK
  <2>3. CASE EditPolicy
    <3>1. edits' \in 0 .. MaxEdits
      BY <2>3, ReconcileAssumption DEF EditPolicy, Inv, TypeOK
    <3>2. QED
      BY <2>3, <3>1 DEF EditPolicy, Inv, TypeOK
  <2>4. CASE Tick
    <3>1. clock' \in 0 .. MaxClock
      BY <2>4, ReconcileAssumption DEF Tick, Inv, TypeOK
    <3>2. QED
      BY <2>4, <3>1 DEF Tick, Inv, TypeOK, boundVars
  <2>5. QED
    BY <2>2, <2>3, <2>4
<1>3. TypeOK'
  BY <1>1, <1>2 DEF Inv, TypeOK, repoVars, runVars, readVars
<1>4. UNCHANGED <<plan, stage, src, mir, now, work, tagged>>
  BY <1>1 DEF runVars, readVars, repoVars, plan
<1> HIDE DEF plan
<1>5. WorkOK'
  <2>1. ToPlace(plan, src, mir, now)' = ToPlace(plan, src, mir, now)
    BY <1>4 DEF ToPlace, Decision, Classify, VersionOf
  <2>2. Desired(plan)' = Desired(plan) /\ (DOMAIN plan.alias)' = DOMAIN plan.alias
    BY <1>4 DEF Desired
  <2>3. QED
    BY <1>4, <2>1, <2>2 DEF Inv, WorkOK
<1>6. \A t \in Tag : Placed(t)' = Placed(t)
  BY <1>4 DEF Placed, CopyOf, BuildOf, VersionOf
<1>7. \A i \in work : i.tag \in Tag
  BY DEF Inv, TypeOK, Items
<1>8. StampsOK' /\ BaseOK'
  BY <1>4, <1>6, <1>7 DEF Inv, StampsOK, StampTruthful, Stamps, BaseOK
<1>9. QED
  BY <1>3, <1>5, <1>8 DEF Inv

LEMMA InvStep == Inv /\ [Next]_vars => Inv'
<1> SUFFICES ASSUME Inv, [Next]_vars PROVE Inv'
  OBVIOUS
<1>1. CASE UNCHANGED vars
  <2>1. /\ TypeOK' /\ BaseOK'
    BY <1>1 DEF vars, worldVars, repoVars, runVars, readVars, boundVars, Inv, TypeOK, BaseOK
  <2>2. UNCHANGED <<plan, stage, src, mir, now, work, tagged>>
    BY <1>1 DEF vars, repoVars, runVars, readVars, plan
  <2>3. WorkOK'
    <3>1. ToPlace(plan, src, mir, now)' = ToPlace(plan, src, mir, now) /\ Desired(plan)' = Desired(plan)
          /\ (DOMAIN plan.alias)' = DOMAIN plan.alias
      BY <2>2 DEF ToPlace, Decision, Classify, VersionOf, Desired
    <3>2. QED
      BY <2>2, <3>1 DEF Inv, WorkOK
  <2>4. \A t \in Tag : Placed(t)' = Placed(t)
    BY <2>2 DEF Placed, CopyOf, BuildOf, VersionOf
  <2>5. \A i \in work : i.tag \in Tag
    BY DEF Inv, TypeOK, Items
  <2>6. StampsOK'
    BY <2>2, <2>4, <2>5 DEF Inv, StampsOK, StampTruthful, Stamps
  <2>7. QED
    BY <2>1, <2>3, <2>6 DEF Inv
<1>2. CASE RunStep
  BY <1>2, InvRead, InvItem, InvBarrier, InvEnd DEF RunStep
<1>3. CASE Abort
  BY <1>3, InvAbort
<1>4. CASE (\E s \in Source : UpstreamMoves(s)) \/ EditPolicy \/ Tick
  BY <1>4, InvWorld
<1>5. QED
  BY <1>1, <1>2, <1>3, <1>4 DEF Next

LEMMA InvAlways == Spec => []Inv
<1>1. QED
  BY InvInit, InvStep, PTL DEF Spec

(***************************************************************************)
(* Every variable has its type: in particular no referrer is ever put on a *)
(* manifest that is not there (AttachSbom, SignSbom, Sign), and items are  *)
(* left over by no stage and no lost run.                                  *)
(***************************************************************************)
THEOREM MirrorTypeCorrect == Spec => []TypeOK
<1>1. Inv => TypeOK
  BY DEF Inv
<1>2. QED
  BY <1>1, InvAlways, PTL

(***************************************************************************)
(* A stamp tells the truth about the bytes it is on (StampTruthful),       *)
(* whatever the upstream does between inspection, copy or build, and       *)
(* annotation, and wherever an operation stops.                            *)
(***************************************************************************)
THEOREM StampsTruthful == Spec => []StampTruthful
<1>1. Inv => StampTruthful
  BY DEF Inv, StampsOK
<1>2. QED
  BY <1>1, InvAlways, PTL

-----------------------------------------------------------------------------
(* What a run leaves behind.                                               *)

\* The items that go on are an import's, or a backfill's.
LEMMA OldItems ==
  ASSUME Inv, ItemStep, NEW i \in work', i \notin work
  PROVE  i.step \in {"stamp", "sbom", "sbomSig", "sign"}
<1>1. ItemShape
  BY ItemShapes
<1>2. ASSUME NEW j \in work, NEW next, NEW out, Replaced(j, next, out)
      PROVE  i.step = next /\ next # "done"
  BY <1>2 DEF Replaced
<1>3. ASSUME NEW j \in work, AttachShape(j)
      PROVE  i.step \in {"sbomSig", "sign"}
  <2> DEFINE next == IF j.step = "sign" THEN "done"
                     ELSE IF j.step = "sbom" /\ Signing THEN "sbomSig" ELSE AfterSbom
  <2>1. next \in {"sbomSig", "sign", "done"}
    BY DEF AfterSbom
  <2>2. Replaced(j, next, j.out)
    BY <1>3 DEF AttachShape
  <2> HIDE DEF next
  <2>3. QED
    BY <1>2, <2>1, <2>2
<1>4. ASSUME NEW j \in work, StampShape(j)
      PROVE  i.step \in {"sbom", "sign"}
  <2>1. AfterStamp \in {"sbom", "sign", "done"}
    BY DEF AfterStamp
  <2>2. Replaced(j, AfterStamp, Stamped(Placed(j.tag), j.tag))
    BY <1>4 DEF StampShape
  <2>3. QED
    BY <1>2, <2>1, <2>2
<1>5. ASSUME NEW j \in work, PlaceShape(j)
      PROVE  i.step = "stamp"
  BY <1>2, <1>5 DEF PlaceShape
<1>6. ASSUME NEW j \in work, AliasShape(j) \/ DeleteShape(j) \/ MarkShape(j) \/ GiveUpShape(j)
      PROVE  FALSE
  <2>1. Replaced(j, "done", Absent)
    BY <1>6 DEF AliasShape, DeleteShape, MarkShape, GiveUpShape
  <2>2. QED
    BY <1>2, <2>1
<1>7. ~ClearShape
  BY DEF ClearShape
<1>8. QED
  BY <1>1, <1>3, <1>4, <1>5, <1>6, <1>7 DEF ItemShape

\* While the plan and what was read stay, so does what they decide.
LEMMA StillFacts ==
  ASSUME UNCHANGED <<plans, cur, src, mir, now>>
  PROVE  /\ UNCHANGED plan
         /\ ToPlace(plan, src, mir, now)' = ToPlace(plan, src, mir, now)
         /\ ToKeep(plan, src, mir, now)' = ToKeep(plan, src, mir, now)
         /\ Desired(plan)' = Desired(plan)
         /\ \A t \in Tag : Placed(t)' = Placed(t) /\ Stamped(Placed(t), t)' = Stamped(Placed(t), t)
<1>1. UNCHANGED plan
  BY DEF plan
<1> HIDE DEF plan
<1>2. ToPlace(plan, src, mir, now)' = ToPlace(plan, src, mir, now)
  BY <1>1 DEF ToPlace, Decision, Classify, VersionOf
<1>3. ToKeep(plan, src, mir, now)' = ToKeep(plan, src, mir, now)
  BY <1>1, <1>2 DEF ToKeep
<1>4. \A t \in Tag : Placed(t)' = Placed(t)
  BY <1>1 DEF Placed, CopyOf, BuildOf, VersionOf
<1>5. \A t \in Tag : Stamped(Placed(t), t)' = Stamped(Placed(t), t)
  BY <1>1, <1>4 DEF Stamped, VersionOf
<1>6. QED
  BY <1>1, <1>2, <1>3, <1>4, <1>5 DEF Desired

LEMMA ApartFacts ==
  ASSUME Apart, TypeOK
  PROVE  \A a \in DOMAIN plan.alias : a \notin plan.tags
BY DEF Apart, TypeOK, plan

LEMMA PlaceOrKeep ==
  ASSUME NEW t
  PROVE  /\ t \in ToPlace(plan, src, mir, now) => t \in plan.tags /\ t \notin ToKeep(plan, src, mir, now)
         /\ t \in plan.tags => t \in ToPlace(plan, src, mir, now) \/ t \in ToKeep(plan, src, mir, now)
         /\ t \in ToKeep(plan, src, mir, now) => t \in plan.tags
BY DEF ToPlace, ToKeep

LEMMA RunItem ==
  ASSUME Apart, Inv, RunOK, ItemStep
  PROVE  RunOK'
<1>1. ItemShape /\ UNCHANGED <<stage, plans, cur, src, mir, now>>
  BY ItemShapes DEF ItemStep, readVars
<1>2. stage \in {"import", "sign", "sbom", "alias", "delete", "retain", "unmark"} /\ stage # "marks" /\ stage \in Acting
  BY DEF ItemStep, Inv, TypeOK, Acting
<1>3. /\ \A i \in work : i.tag \in Tag
      /\ plan.tags \subseteq Tag
      /\ \A t \in Tag : Placed(t)' = Placed(t) /\ Stamped(Placed(t), t)' = Stamped(Placed(t), t)
      /\ ToPlace(plan, src, mir, now)' = ToPlace(plan, src, mir, now)
      /\ ToKeep(plan, src, mir, now)' = ToKeep(plan, src, mir, now)
  BY <1>1, StillFacts, PlanFacts DEF Inv, TypeOK, Items
<1>4. \A t \in Tag : tagged'[t] = tagged[t] /\ Fresh(t) => Fresh(t)'
  BY <1>3 DEF Fresh
<1> DEFINE K == ToKeep(plan, src, mir, now)
           P == ToPlace(plan, src, mir, now)
<1>5. /\ \A t \in K : t \in Tag /\ t \notin P /\ tagged[t] = mir[t] /\ mir[t].base # NoBase
      /\ \A t \in P : t \in Tag
      /\ clean => \A t \in P : Fresh(t) \/ (stage = "import" /\ Pending(t))
      /\ stage = "import" => \A i \in work : i.step \notin {"place", "stamp"} => Fresh(i.tag) /\ i.out = tagged[i.tag]
      /\ stage = "import" => \A i \in work : i.tag \in P
  BY <1>2, <1>3, PlaceOrKeep DEF RunOK, Inv, WorkOK
<1>6. K' = K /\ P' = P /\ UNCHANGED <<stage, mir>>
  BY <1>1, <1>3
<1> HIDE DEF K, P
\* What has to be shown, one tag and one item at a time.
<1>7. ASSUME \A t \in K : tagged'[t] = tagged[t],
             clean' => clean /\ \A t \in P : Fresh(t)' \/ (stage = "import" /\ Pending(t)'),
             stage = "import" => \A i \in work' : i.step \notin {"place", "stamp"} => Fresh(i.tag)' /\ i.out = tagged'[i.tag]
      PROVE  RunOK'
  <2>1. stage' # "marks"
    BY <1>2, <1>6
  <2>2. \A t \in K' : tagged'[t] = mir'[t] /\ mir'[t].base # NoBase
    BY <1>5, <1>6, <1>7
  <2>3. clean' => \A t \in P' : Fresh(t)' \/ (stage' = "import" /\ Pending(t)')
    BY <1>6, <1>7
  <2>4. stage' = "import" => \A i \in work' : i.step \notin {"place", "stamp"} => Fresh(i.tag)' /\ i.out = tagged'[i.tag]
    BY <1>6, <1>7
  <2>5. QED
    BY <2>1, <2>2, <2>3, <2>4 DEF RunOK, K, P
<1>8. ASSUME NEW i \in work, NEW next, NEW out, Replaced(i, next, out)
      PROVE  /\ \A t \in P : t # i.tag /\ Pending(t) => Pending(t)'
             /\ next \in {"place", "stamp"} => Pending(i.tag)'
  <2>1. ASSUME NEW t \in P, t # i.tag, Pending(t)
        PROVE  Pending(t)'
    <3>1. PICK j \in work : j.tag = t /\ j.step \in {"place", "stamp"}
      BY <2>1 DEF Pending
    <3>2. j \in work'
      BY <1>8, <2>1, <3>1 DEF Replaced
    <3>3. QED
      BY <3>1, <3>2 DEF Pending
  <2>2. next \in {"place", "stamp"} => Pending(i.tag)'
    BY <1>8 DEF Replaced, Pending
  <2>3. QED
    BY <2>1, <2>2
<1>9. ASSUME UNCHANGED tagged
      PROVE  /\ \A t \in K : tagged'[t] = tagged[t]
             /\ \A t \in Tag : Fresh(t) => Fresh(t)'
  BY <1>4, <1>9
<1>10. CASE ClearShape
  <2>1. clean' => clean
    BY <1>10 DEF ClearShape
  <2>2. stage # "import"
    BY <1>10 DEF ClearShape
  <2>3. UNCHANGED tagged
    BY <1>10 DEF ClearShape
  <2>4. QED
    BY <1>5, <1>7, <1>9, <2>1, <2>2, <2>3
<1>11. ASSUME NEW i \in work, PlaceShape(i)
       PROVE  RunOK'
  <2>1. /\ stage = "import" /\ clean' = clean /\ Replaced(i, "stamp", Absent)
        /\ tagged' = [tagged EXCEPT ![i.tag] = Placed(i.tag)]
    BY <1>11 DEF PlaceShape
  <2>2. \A t \in Tag : t # i.tag => tagged'[t] = tagged[t]
    BY <2>1 DEF Inv, TypeOK
  <2>3. \A t \in K : tagged'[t] = tagged[t]
    BY <1>5, <2>1, <2>2
  <2>4. clean' => clean /\ \A t \in P : Fresh(t)' \/ (stage = "import" /\ Pending(t)')
    BY <1>4, <1>5, <1>8, <2>1, <2>2
  <2>5. ASSUME NEW j \in work', j.step \notin {"place", "stamp"}
        PROVE  Fresh(j.tag)' /\ j.out = tagged'[j.tag]
    <3>1. j \in work /\ j.tag # i.tag
      BY <2>1, <2>5 DEF Replaced
    <3>2. QED
      BY <1>3, <1>4, <1>5, <2>1, <2>2, <2>5, <3>1
  <2>6. QED
    BY <1>7, <2>3, <2>4, <2>5
<1>12. ASSUME NEW i \in work, StampShape(i)
       PROVE  RunOK'
  <2> DEFINE m == Stamped(Placed(i.tag), i.tag)
  <2>1. stage = "import" /\ clean' = clean /\ Replaced(i, AfterStamp, m) /\ tagged' = [tagged EXCEPT ![i.tag] = m]
    BY <1>12 DEF StampShape
  <2>2. /\ \A t \in Tag : t # i.tag => tagged'[t] = tagged[t]
        /\ tagged'[i.tag] = m
    BY <1>3, <2>1 DEF Inv, TypeOK
  <2>3. Fresh(i.tag)'
    BY <1>3, <2>2 DEF Fresh
  <2> HIDE DEF m
  <2>4. \A t \in K : tagged'[t] = tagged[t]
    BY <1>5, <2>1, <2>2
  <2>5. clean' => clean /\ \A t \in P : Fresh(t)' \/ (stage = "import" /\ Pending(t)')
    BY <1>4, <1>5, <1>8, <2>1, <2>2, <2>3
  <2>6. ASSUME NEW j \in work', j.step \notin {"place", "stamp"}
        PROVE  Fresh(j.tag)' /\ j.out = tagged'[j.tag]
    <3>1. CASE j \in work /\ j.tag # i.tag
      BY <1>3, <1>4, <1>5, <2>1, <2>2, <2>6, <3>1
    <3>2. CASE ~(j \in work /\ j.tag # i.tag)
      <4>1. j = [tag |-> i.tag, step |-> AfterStamp, out |-> m]
        BY <2>1, <3>2 DEF Replaced
      <4>2. j.tag = i.tag /\ j.out = m
        BY <4>1
      <4>3. QED
        BY <2>2, <2>3, <4>2
    <3>3. QED
      BY <3>1, <3>2
  <2>7. QED
    BY <1>7, <2>4, <2>5, <2>6
<1>13. ASSUME NEW i \in work, AttachShape(i)
       PROVE  RunOK'
  <2>1. PICK next : Replaced(i, next, i.out)
    BY <1>13 DEF AttachShape
  <2>2. UNCHANGED <<tagged, clean>> /\ i.step \notin {"place", "stamp"}
    BY <1>13 DEF AttachShape
  <2>3. ~Pending(i.tag)
    BY <2>2 DEF Inv, WorkOK, Pending
  <2>4. clean' => clean /\ \A t \in P : Fresh(t)' \/ (stage = "import" /\ Pending(t)')
    BY <1>5, <1>8, <1>9, <2>1, <2>2, <2>3
  <2>5. ASSUME stage = "import", NEW j \in work', j.step \notin {"place", "stamp"}
        PROVE  Fresh(j.tag)' /\ j.out = tagged'[j.tag]
    <3>1. CASE j \in work
      BY <1>3, <1>5, <1>9, <2>2, <2>5, <3>1
    <3>2. CASE j \notin work
      <4>1. j = [tag |-> i.tag, step |-> next, out |-> i.out]
        BY <2>1, <3>2 DEF Replaced
      <4>2. j.tag = i.tag /\ j.out = i.out
        BY <4>1
      <4>3. QED
        BY <1>3, <1>5, <1>9, <2>2, <2>5, <4>2
    <3>3. QED
      BY <3>1, <3>2
  <2>6. QED
    BY <1>7, <1>9, <2>2, <2>4, <2>5
\* Aliases and unwanted tags are none of those that the import selects.
<1>14. ASSUME NEW i \in work, AliasShape(i) \/ DeleteShape(i)
       PROVE  RunOK'
  <2>1. PICK m : tagged' = [tagged EXCEPT ![i.tag] = m]
    BY <1>14 DEF AliasShape, DeleteShape
  <2>2. stage \in {"alias", "delete"} /\ clean' = clean
    BY <1>14 DEF AliasShape, DeleteShape
  <2>3. i.tag \notin plan.tags
    BY <1>14, <2>2, ApartFacts DEF AliasShape, DeleteShape, Inv, WorkOK, Desired
  <2>4. \A t \in Tag : t # i.tag => tagged'[t] = tagged[t]
    BY <2>1 DEF Inv, TypeOK
  <2>5. \A t \in K \cup P : t \in Tag /\ t # i.tag
    BY <1>5, <2>3, PlaceOrKeep DEF K, P
  <2>6. clean' => clean /\ \A t \in P : Fresh(t)'
    BY <1>4, <1>5, <2>2, <2>4, <2>5
  <2>7. QED
    BY <1>7, <2>2, <2>4, <2>5, <2>6
<1>15. ASSUME NEW i \in work, MarkShape(i)
       PROVE  RunOK'
  <2>1. UNCHANGED <<tagged, clean>> /\ stage # "import"
    BY <1>15 DEF MarkShape
  <2>2. QED
    BY <1>5, <1>7, <1>9, <2>1
<1>16. ASSUME NEW i \in work, GiveUpShape(i)
       PROVE  RunOK'
  <2>1. UNCHANGED tagged /\ clean' = FALSE /\ \A j \in work' : j \in work
    BY <1>16 DEF GiveUpShape, Replaced
  <2>2. QED
    BY <1>3, <1>5, <1>7, <1>9, <2>1
<1>17. QED
  BY <1>1, <1>10, <1>11, <1>12, <1>13, <1>14, <1>15, <1>16 DEF ItemShape

LEMMA RunReadsMarks ==
  ASSUME Inv, RunOK, ReadMarks
  PROVE  RunOK'
<1>1. /\ stage = "marks" /\ stage' = "import" /\ UNCHANGED <<tagged, plans, cur, src, mir, now>>
      /\ work' = {Item(t, "place") : t \in ToPlace(plan, src, mir, now)}
  BY DEF ReadMarks, repoVars
<1>2. /\ ToPlace(plan, src, mir, now)' = ToPlace(plan, src, mir, now)
      /\ ToKeep(plan, src, mir, now)' = ToKeep(plan, src, mir, now)
  BY <1>1, StillFacts
<1>3. \A t \in ToKeep(plan, src, mir, now) : tagged'[t] = mir'[t] /\ mir'[t].base # NoBase
  <2> SUFFICES ASSUME NEW t \in ToKeep(plan, src, mir, now)
               PROVE  tagged[t] = mir[t] /\ mir[t].base # NoBase
    BY <1>1
  <2>1. t \in Tag /\ mir[t] # Absent
    BY KeptFacts, PlanFacts DEF Inv
  <2>2. mir[t] = MirrorOf(tagged[t])
    BY <1>1, <2>1 DEF RunOK
  <2>3. QED
    BY <2>1, <2>2 DEF MirrorOf
<1>4. \A i \in work' : i.step = "place"
  BY <1>1 DEF Item
<1>5. \A t \in ToPlace(plan, src, mir, now) : Pending(t)'
  <2> SUFFICES ASSUME NEW t \in ToPlace(plan, src, mir, now) PROVE Pending(t)'
    OBVIOUS
  <2>1. Item(t, "place") \in work' /\ Item(t, "place").tag = t /\ Item(t, "place").step = "place"
    BY <1>1 DEF Item
  <2>2. QED
    BY <2>1 DEF Pending
<1>6. QED
  BY <1>1, <1>2, <1>3, <1>4, <1>5 DEF RunOK

LEMMA RunOKStep ==
  ASSUME Apart, Inv, RunOK, [Next]_vars
  PROVE  RunOK'
<1>1. CASE stage' \notin {"marks"} \cup Acting
  BY <1>1 DEF RunOK, Acting
<1>2. CASE ReadMirror
  <2>1. stage' = "marks" /\ tagged' = tagged /\ mir' = [t \in Tag |-> MirrorOf(tagged[t])]
    BY <1>2 DEF ReadMirror, repoVars
  <2>2. \A t \in Tag : mir'[t] = MirrorOf(tagged[t])'
    BY <2>1 DEF MirrorOf
  <2>3. QED
    BY <2>1, <2>2 DEF RunOK, Acting
<1>3. CASE ReadMarks
  BY <1>3, RunReadsMarks
<1>4. CASE ItemStep
  BY <1>4, RunItem
\* Nothing that this is about changes but the stage, and no item of the import stage is left.
<1>5. ASSUME UNCHANGED <<tagged, plans, cur, src, mir, now, clean>>, stage' # "marks", stage \in Acting,
             stage' # "import", work = {}
      PROVE  RunOK'
  <2>1. /\ ToPlace(plan, src, mir, now)' = ToPlace(plan, src, mir, now)
        /\ ToKeep(plan, src, mir, now)' = ToKeep(plan, src, mir, now)
        /\ \A t \in Tag : Stamped(Placed(t), t)' = Stamped(Placed(t), t)
    BY <1>5, StillFacts
  <2>2. \A t \in ToPlace(plan, src, mir, now) : t \in Tag
    BY PlanFacts, PlaceOrKeep DEF Inv
  <2>3. \A t : ~Pending(t)
    BY <1>5 DEF Pending
  <2>4. QED
    BY <1>5, <2>1, <2>2, <2>3 DEF RunOK, Fresh
<1>6. CASE Barrier
  <2>1. UNCHANGED <<tagged, plans, cur, src, mir, now, clean>>
    BY <1>6 DEF Barrier, repoVars, readVars
  <2>2. QED
    BY <1>5, <1>6, <2>1, BarrierFacts DEF Acting
<1>7. CASE EndImport
  <2>1. CASE cur = Imports
    <3>1. UNCHANGED <<tagged, plans, cur, src, mir, now, clean>> /\ stage' = "report" /\ stage = "unmark"
      BY <1>7, <2>1 DEF EndImport, repoVars
    <3>2. work = {}
      BY <3>1 DEF Inv, TypeOK
    <3>3. QED
      BY <1>5, <3>1, <3>2 DEF Acting
  <2>2. CASE cur # Imports
    BY <1>1, <1>7, <2>2 DEF EndImport, Acting
  <2>3. QED
    BY <2>1, <2>2
<1>8. CASE UNCHANGED vars \/ (\E s \in Source : UpstreamMoves(s)) \/ EditPolicy \/ Tick
  <2>1. UNCHANGED <<stage, tagged, plans, cur, src, mir, now, clean, work>>
    BY <1>8 DEF UpstreamMoves, EditPolicy, Tick, vars, runVars, readVars, repoVars
  <2>2. /\ ToPlace(plan, src, mir, now)' = ToPlace(plan, src, mir, now)
        /\ ToKeep(plan, src, mir, now)' = ToKeep(plan, src, mir, now)
        /\ \A t \in Tag : Stamped(Placed(t), t)' = Stamped(Placed(t), t)
    BY <2>1, StillFacts
  <2>3. \A t \in ToPlace(plan, src, mir, now) : t \in Tag
    BY PlanFacts, PlaceOrKeep DEF Inv
  <2>4. \A i \in work : i.tag \in Tag
    BY DEF Inv, TypeOK, Items
  <2>5. QED
    BY <2>1, <2>2, <2>3, <2>4 DEF RunOK, Fresh, Pending, MirrorOf
<1>9. CASE StartRun \/ ReadSource \/ EndRun \/ Abort
  BY <1>1, <1>9 DEF StartRun, ReadSource, EndRun, Abort, RunDies, Acting
<1>10. QED
  BY <1>2, <1>3, <1>4, <1>6, <1>7, <1>8, <1>9 DEF Next, RunStep

LEMMA RunAlways == ASSUME Apart PROVE Spec => [](Inv /\ RunOK)
<1>1. Init => RunOK
  BY DEF Init, RunOK, Acting
<1>2. Inv /\ RunOK /\ [Next]_vars => RunOK'
  BY RunOKStep
<1>3. QED
  BY <1>1, <1>2, InvInit, InvStep, PTL DEF Spec

(***************************************************************************)
(* When a clean run reports, every selected tag carries knock's stamp and  *)
(* the digest the run read, or that digest was too young (CleanRunStamps). *)
(* No alias of an import may be named like a tag that it selects: the code *)
(* does not refuse such a policy, and the alias then takes the tag's place. *)
(***************************************************************************)
THEOREM CleanRunsStamp ==
  ASSUME Apart
  PROVE  Spec => []CleanRunStamps
<1>1. Inv /\ RunOK => CleanRunStamps
  <2> SUFFICES ASSUME Inv, RunOK, stage = "report", clean, NEW t \in plan.tags
               PROVE  LET read  == src[SourceOf[t]]
                          young == now - read.pushed < Grace
                      IN  /\ Stamps(t) \/ (ForeignStamp /\ young)
                          /\ tagged[t].base = read.digest \/ young
    BY DEF CleanRunStamps, CleanReport
  <2> DEFINE read == src[SourceOf[t]]
             young == now - read.pushed < Grace
  <2>1. t \in Tag /\ t # 0 /\ read \in Artifact /\ now \in Nat
    <3>1. TypeOK
      BY DEF Inv
    <3>2. t \in Tag
      BY <3>1, PlanFacts
    <3>3. t # 0 /\ SourceOf[t] \in Source
      BY <3>2, PlanAssumption
    <3>4. now \in Nat /\ src \in [Source -> Artifact]
      BY <3>1 DEF TypeOK
    <3>5. QED
      BY <3>2, <3>3, <3>4
  <2>2. CASE t \in ToPlace(plan, src, mir, now)
    <3>1. Fresh(t)
      BY <2>2 DEF RunOK, Acting
    <3>2. tagged[t] # Absent /\ tagged[t].name = t /\ tagged[t].base = read.digest
      BY <2>1, <3>1, PlacedFacts, PlanAssumption DEF Fresh, Inv
    <3>3. QED
      BY <2>1, <3>2 DEF Stamps
  <2>3. CASE t \in ToKeep(plan, src, mir, now)
    <3>1. tagged[t] = mir[t] /\ mir[t].base # NoBase /\ mir[t] # Absent
      BY <2>3, KeptFacts DEF RunOK, Acting
    <3>2. read.digest \in Digest /\ read.pushed \in Nat
      BY <2>1 DEF Artifact
    <3>3. tagged[t].base = read.digest \/ young
      <4>1. mir[t].base = read.digest \/ ~(now - read.pushed >= Grace)
        BY <2>3, KeptFacts
      <4>2. ~(now - read.pushed >= Grace) => now - read.pushed < Grace
        BY <2>1, <3>2, PlanAssumption
      <4>3. QED
        BY <3>1, <4>1, <4>2
    <3>4. ASSUME ~Stamps(t)
          PROVE  ForeignStamp /\ young
      <4>1. tagged[t].name = 0 /\ tagged[t] # Absent
        BY <3>1, <3>4 DEF Stamps
      <4>2. ForeignStamp /\ tagged[t].base = Foreign
        BY <2>1, <3>1, <4>1 DEF Inv, BaseOK
      <4>3. tagged[t].base # read.digest
        BY <3>2, <4>2, PlanAssumption
      <4>4. QED
        BY <3>3, <4>2, <4>3
    <3>5. QED
      BY <3>3, <3>4
  <2>4. QED
    BY <2>2, <2>3, PlaceOrKeep
<1>2. QED
  BY <1>1, RunAlways, PTL

-----------------------------------------------------------------------------
(* Coverage.                                                               *)

\* While the manifest under t stays, what it has it keeps, unless an operation fails.
LEMMA CoverStays ==
  ASSUME Inv, ItemShape, clean', NEW t \in Tag, tagged'[t] = tagged[t]
  PROVE  (HasSbom(t) => HasSbom(t)') /\ (Signing /\ HasSign(t) => HasSign(t)')
<1>1. covers \subseteq covers'
  BY DEF ItemShape, ClearShape, PlaceShape, StampShape, AttachShape, AliasShape, DeleteShape, MarkShape, GiveUpShape
<1>2. ASSUME NEW j \in work, j \in work', j.tag = t, j.out = tagged[t]
      PROVE  Owed(t, j.step)'
  BY <1>2 DEF Owed
\* The item that is done with has attached what it owed.
<1>3. ASSUME NEW j \in work, j.step \in {"sbom", "sbomSig", "sign"}, j.tag = t, j.out = tagged[t], j \notin work'
      PROVE  /\ <<tagged[t], IF j.step = "sign" THEN "transformSig" ELSE j.step>> \in covers'
             /\ j.step = "sbom" /\ Signing => Owed(t, "sbomSig")'
  <2>1. ~ClearShape
    BY <1>3 DEF ClearShape
  <2>2. ASSUME NEW i \in work, \E next, out : Replaced(i, next, out)
        PROVE  i = j
    <3>1. i.tag = j.tag
      BY <1>3, <2>2 DEF Replaced
    <3>2. QED
      BY <3>1 DEF Inv, WorkOK
  <2>3. ASSUME NEW i \in work, AttachShape(i)
        PROVE  /\ <<tagged[t], IF j.step = "sign" THEN "transformSig" ELSE j.step>> \in covers'
               /\ j.step = "sbom" /\ Signing => Owed(t, "sbomSig")'
    <3>1. i = j
      BY <2>2, <2>3 DEF AttachShape
    <3>2. covers' = covers \cup {<<j.out, IF j.step = "sign" THEN "transformSig" ELSE j.step>>}
      BY <2>3, <3>1 DEF AttachShape
    <3>3. j.step = "sbom" /\ Signing => Replaced(j, "sbomSig", j.out)
      BY <2>3, <3>1 DEF AttachShape
    <3>4. QED
      BY <1>3, <3>2, <3>3 DEF Replaced, Owed
  <2>4. ASSUME NEW i \in work, PlaceShape(i) \/ StampShape(i) \/ AliasShape(i) \/ DeleteShape(i) \/ MarkShape(i)
        PROVE  FALSE
    <3>1. i.step \in {"place", "stamp", "alias", "delete", "mark", "retain"}
      BY <2>4 DEF PlaceShape, StampShape, AliasShape, DeleteShape, MarkShape
    <3>2. \E next, out : Replaced(i, next, out)
      BY <2>4 DEF PlaceShape, StampShape, AliasShape, DeleteShape, MarkShape
    <3>3. QED
      BY <1>3, <2>2, <3>1, <3>2
  <2>5. \A i \in work : ~GiveUpShape(i)
    BY DEF GiveUpShape
  <2>6. QED
    BY <2>1, <2>3, <2>4, <2>5 DEF ItemShape
<1>4. Owed(t, "sbom") => HasSbom(t)'
  <2> SUFFICES ASSUME NEW j \in work, j.tag = t, j.step = "sbom", j.out = tagged[t]
               PROVE  HasSbom(t)'
    BY DEF Owed
  <2>1. QED
    BY <1>2, <1>3 DEF HasSbom
<1>5. ASSUME NEW step \in {"sbom", "sbomSig", "sign"}, Owed(t, step), Signing
      PROVE  HasSign(t)'
  <2>1. PICK j \in work : j.tag = t /\ j.step = step /\ j.out = tagged[t]
    BY <1>5 DEF Owed
  <2>2. CASE j \in work'
    BY <1>2, <2>1, <2>2 DEF HasSign
  <2>3. CASE j \notin work' /\ step = "sbom"
    BY <1>3, <1>5, <2>1, <2>3 DEF HasSign
  <2>4. CASE j \notin work' /\ step # "sbom"
    <3>1. \E kind \in {"sbomSig", "transformSig"} : <<tagged[t], kind>> \in covers'
      BY <1>3, <2>1, <2>4
    <3>2. QED
      BY <3>1 DEF HasSign, Signed
  <2>5. QED
    BY <2>2, <2>3, <2>4
<1>6. Signed(tagged[t]) => Signed(tagged[t])'
  BY <1>1 DEF Signed
<1>7. QED
  BY <1>1, <1>4, <1>5, <1>6 DEF HasSbom, HasSign

\* A tag still to be placed or stamped stays so while its item does.
LEMMA PendingStays ==
  ASSUME Inv, NEW i \in work, NEW next, NEW out, Replaced(i, next, out), NEW t, t # i.tag, Pending(t)
  PROVE  Pending(t)'
BY DEF Replaced, Pending

LEMMA CoverItem ==
  ASSUME Apart, Inv, RunOK, CoverOK, ItemStep
  PROVE  CoverOK'
<1>1. ItemShape /\ UNCHANGED <<stage, plans, cur, src, mir, now, covered>>
  BY ItemShapes DEF ItemStep, readVars
<1>2. stage \in {"import", "sign", "sbom", "alias", "delete", "retain", "unmark"} /\ stage # "marks" /\ stage \in Acting
  BY DEF ItemStep, Inv, TypeOK, Acting
<1>3. RunOK'
  BY RunItem
<1> DEFINE K == ToKeep(plan, src, mir, now)
           P == ToPlace(plan, src, mir, now)
<1>4. /\ K' = K /\ P' = P
      /\ \A t \in K : t \in Tag /\ tagged'[t] = tagged[t]
      /\ \A t \in P : t \in plan.tags /\ t \in Tag
  <2>1. K' = K /\ P' = P /\ plan.tags \subseteq Tag
    BY <1>1, StillFacts, PlanFacts DEF Inv
  <2>2. \A t \in K : tagged[t] = mir[t] /\ tagged'[t] = mir'[t]
    BY <1>1, <1>2, <1>3, <2>1 DEF RunOK
  <2>3. QED
    BY <1>1, <2>1, <2>2, PlaceOrKeep
<1>5. /\ covered \subseteq covers
      /\ clean => \A t \in K : /\ Sbom /\ stage \notin {"import", "sign"} => HasSbom(t)
                               /\ Signing /\ stage # "import" => HasSign(t)
      /\ clean => \A t \in P :
            (stage = "import" /\ Pending(t)) \/ ((Sbom => HasSbom(t)) /\ (Signing => HasSign(t)))
  BY <1>2 DEF CoverOK
<1> HIDE DEF K, P
<1>6. covers \subseteq covers' /\ (clean' => clean)
  BY <1>1 DEF ItemShape, ClearShape, PlaceShape, StampShape, AttachShape, AliasShape, DeleteShape, MarkShape, GiveUpShape
\* It remains to follow one tag that is placed.
<1>7. ASSUME clean' => \A t \in P :
                 (stage = "import" /\ Pending(t)') \/ ((Sbom => HasSbom(t)') /\ (Signing => HasSign(t)'))
      PROVE  CoverOK'
  <2>1. clean' => \A t \in K' : /\ Sbom /\ stage' \notin {"import", "sign"} => HasSbom(t)'
                                /\ Signing /\ stage' # "import" => HasSign(t)'
    BY <1>1, <1>4, <1>5, <1>6, CoverStays
  <2>2. covered' \subseteq covers'
    BY <1>1, <1>5, <1>6
  <2>3. clean' => \A t \in P' :
            (stage' = "import" /\ Pending(t)') \/ ((Sbom => HasSbom(t)') /\ (Signing => HasSign(t)'))
    BY <1>1, <1>4, <1>7
  <2>4. QED
    BY <1>1, <2>1, <2>2, <2>3 DEF CoverOK, K, P
<1>8. ASSUME clean', NEW t \in P, tagged'[t] = tagged[t], stage = "import" /\ Pending(t) => Pending(t)'
      PROVE  (stage = "import" /\ Pending(t)') \/ ((Sbom => HasSbom(t)') /\ (Signing => HasSign(t)'))
  BY <1>1, <1>4, <1>5, <1>6, <1>8, CoverStays
<1>9. CASE ClearShape
  <2>1. stage # "import" /\ UNCHANGED tagged
    BY <1>9 DEF ClearShape
  <2>2. QED
    BY <1>7, <1>8, <2>1
<1>10. ASSUME NEW i \in work, PlaceShape(i)
       PROVE  CoverOK'
  <2>1. stage = "import" /\ Replaced(i, "stamp", Absent) /\ tagged' = [tagged EXCEPT ![i.tag] = Placed(i.tag)]
    BY <1>10 DEF PlaceShape
  <2>2. \A t \in Tag : t # i.tag => tagged'[t] = tagged[t]
    BY <2>1 DEF Inv, TypeOK
  <2>3. Pending(i.tag)'
    BY <2>1 DEF Replaced, Pending
  <2>4. QED
    BY <1>4, <1>7, <1>8, <2>1, <2>2, <2>3, PendingStays
<1>11. ASSUME NEW i \in work, StampShape(i)
       PROVE  CoverOK'
  <2> DEFINE m == Stamped(Placed(i.tag), i.tag)
  <2>1. stage = "import" /\ Replaced(i, AfterStamp, m) /\ tagged' = [tagged EXCEPT ![i.tag] = m] /\ i.tag \in Tag
    BY <1>11 DEF StampShape, Inv, TypeOK, Items
  <2>2. (\A t \in Tag : t # i.tag => tagged'[t] = tagged[t]) /\ tagged'[i.tag] = m
    BY <2>1 DEF Inv, TypeOK
  <2> HIDE DEF m
  <2>3. (Sbom => HasSbom(i.tag)') /\ (Signing => HasSign(i.tag)')
    <3>1. (Sbom => AfterStamp = "sbom") /\ (Signing => AfterStamp \in {"sbom", "sign"})
      BY DEF AfterStamp
    <3>2. AfterStamp # "done" => Owed(i.tag, AfterStamp)'
      BY <2>1, <2>2 DEF Replaced, Owed
    <3>3. QED
      BY <3>1, <3>2 DEF HasSbom, HasSign
  <2>4. QED
    BY <1>4, <1>7, <1>8, <2>1, <2>2, <2>3, PendingStays
<1>12. ASSUME NEW i \in work, AttachShape(i) \/ MarkShape(i) \/ GiveUpShape(i)
       PROVE  CoverOK'
  <2>1. UNCHANGED tagged /\ (GiveUpShape(i) => ~clean') /\ \E next, out : Replaced(i, next, out)
    BY <1>12 DEF AttachShape, MarkShape, GiveUpShape
  <2>2. ASSUME NEW t \in P, clean', Pending(t)
        PROVE  t # i.tag \/ stage # "import"
    <3>1. i.step \notin {"place", "stamp"}
      BY <1>12, <2>1, <2>2 DEF AttachShape, MarkShape
    <3>2. QED
      BY <2>2, <3>1 DEF Pending, Inv, WorkOK
  <2>3. ASSUME NEW t \in P, clean', stage = "import", Pending(t)
        PROVE  Pending(t)'
    BY <2>1, <2>2, <2>3, PendingStays
  <2>4. QED
    BY <1>7, <1>8, <2>1, <2>3
<1>13. ASSUME NEW i \in work, AliasShape(i) \/ DeleteShape(i)
       PROVE  CoverOK'
  <2>1. PICK m : tagged' = [tagged EXCEPT ![i.tag] = m]
    BY <1>13 DEF AliasShape, DeleteShape
  <2>2. stage \in {"alias", "delete"}
    BY <1>13 DEF AliasShape, DeleteShape
  <2>3. i.tag \notin plan.tags
    BY <1>13, <2>2, ApartFacts DEF AliasShape, DeleteShape, Inv, WorkOK, Desired
  <2>4. \A t \in P : tagged'[t] = tagged[t]
    <3>1. \A t \in Tag : t # i.tag => tagged'[t] = tagged[t]
      BY <2>1 DEF Inv, TypeOK
    <3>2. QED
      BY <1>4, <2>3, <3>1
  <2>5. QED
    BY <1>7, <1>8, <2>2, <2>4
<1>14. QED
  BY <1>1, <1>9, <1>10, <1>11, <1>12, <1>13 DEF ItemShape

\* The backfill stages have an item for each kept tag that lacks what they attach.
LEMMA CoverBarrier ==
  ASSUME Inv, RunOK, CoverOK, Barrier
  PROVE  CoverOK'
<1>1. /\ UNCHANGED <<tagged, covers, covered, plans, cur, src, mir, now, clean>>
      /\ stage \in Acting /\ stage' \in Acting /\ stage' # "import"
  BY BarrierFacts DEF Barrier, repoVars, readVars, Acting
<1> DEFINE K == ToKeep(plan, src, mir, now)
           P == ToPlace(plan, src, mir, now)
<1>2. K' = K /\ P' = P
  BY <1>1, StillFacts
<1>3. work = {} /\ work' = ItemsOf(stage')
      /\ (stage = "import" => stage' = "sign") /\ (stage = "sign" => stage' = "sbom")
      /\ stage' \in {"sign", "sbom", "alias", "delete", "retain", "unmark"}
  BY BarrierFacts
<1>4. \A t : ~Pending(t) /\ \A step : ~Owed(t, step)
  BY <1>3 DEF Owed, Pending
<1>5. \A t : /\ HasSbom(t) => <<tagged[t], "sbom">> \in covers /\ HasSbom(t)'
             /\ HasSign(t) => Signed(tagged[t]) /\ HasSign(t)'
  BY <1>1, <1>4 DEF HasSbom, HasSign, Signed
<1>7. \A t \in K : tagged[t] = mir[t]
  BY <1>1 DEF RunOK
<1>8. ASSUME clean, NEW t \in K, Signing
      PROVE  HasSign(t)'
  <2>1. CASE stage # "import"
    BY <1>1, <1>5, <1>8, <2>1 DEF CoverOK, K
  <2>2. CASE stage = "import"
    <3>1. work' = {Backfill(u, "sign") : u \in ToSign} /\ covered \subseteq covers
      BY <1>1, <1>3, <2>2 DEF ItemsOf, CoverOK
    <3>2. CASE Attested(mir[t])
      <4>1. \E kind \in {"sbomSig", "transformSig"} : <<mir[t], kind>> \in covers'
        BY <1>1, <3>1, <3>2 DEF Attested
      <4>2. tagged'[t] = mir[t]
        BY <1>1, <1>7, <1>8
      <4>3. QED
        BY <4>1, <4>2 DEF HasSign, Signed
    <3>3. CASE ~Attested(mir[t])
      <4>1. Backfill(t, "sign") \in work'
        BY <1>8, <3>1, <3>3 DEF ToSign, K
      <4>2. Owed(t, "sign")'
        BY <1>1, <1>7, <1>8, <4>1 DEF Owed, Backfill
      <4>3. QED
        BY <4>2 DEF HasSign
    <3>4. QED
      BY <3>2, <3>3
  <2>3. QED
    BY <2>1, <2>2
<1>9. ASSUME clean, NEW t \in K, Sbom, stage' # "sign"
      PROVE  HasSbom(t)'
  <2>1. CASE stage # "sign"
    BY <1>1, <1>3, <1>5, <1>9, <2>1 DEF CoverOK, K
  <2>2. CASE stage = "sign"
    <3>1. work' = {Backfill(u, "sbom") : u \in ToSbom} /\ covered \subseteq covers
      BY <1>1, <1>3, <2>2 DEF ItemsOf, CoverOK
    <3>2. CASE <<mir[t], "sbom">> \in covered
      BY <1>1, <1>7, <1>9, <3>1, <3>2 DEF HasSbom
    <3>3. CASE <<mir[t], "sbom">> \notin covered
      <4>1. Backfill(t, "sbom") \in work'
        BY <1>9, <3>1, <3>3 DEF ToSbom, K
      <4>2. Owed(t, "sbom")'
        BY <1>1, <1>7, <1>9, <4>1 DEF Owed, Backfill
      <4>3. QED
        BY <4>2 DEF HasSbom
    <3>4. QED
      BY <3>2, <3>3
  <2>3. QED
    BY <2>1, <2>2
<1>10. ASSUME clean, NEW t \in P
       PROVE  (Sbom => HasSbom(t)') /\ (Signing => HasSign(t)')
  BY <1>1, <1>4, <1>5, <1>10 DEF CoverOK, P
<1>11. covered' \subseteq covers'
  BY <1>1 DEF CoverOK
<1> HIDE DEF K, P
<1>12. clean' => \A t \in K' : /\ Sbom /\ stage' \notin {"import", "sign"} => HasSbom(t)'
                               /\ Signing /\ stage' # "import" => HasSign(t)'
  BY <1>1, <1>2, <1>8, <1>9
<1>13. clean' => \A t \in P' :
           (stage' = "import" /\ Pending(t)') \/ ((Sbom => HasSbom(t)') /\ (Signing => HasSign(t)'))
  BY <1>1, <1>2, <1>10
<1>14. QED
  BY <1>11, <1>12, <1>13 DEF CoverOK, K, P

LEMMA CoverOKStep ==
  ASSUME Apart, Inv, RunOK, CoverOK, [Next]_vars
  PROVE  CoverOK'
<1>1. CASE StartRun \/ ReadSource \/ EndRun \/ Abort \/ (EndImport /\ cur # Imports)
  <2>1. stage' \in {"idle", "source", "mirror"}
    BY <1>1 DEF StartRun, ReadSource, EndRun, Abort, RunDies, EndImport
  <2>2. stage' \notin {"marks"} \cup Acting
    BY <2>1 DEF Acting
  <2>3. QED
    BY <2>2 DEF CoverOK
<1>2. CASE ReadMirror
  <2>1. stage' = "marks" /\ covered' = covers /\ covers' = covers
    BY <1>2 DEF ReadMirror, repoVars
  <2>2. QED
    BY <2>1 DEF CoverOK, Acting
<1>3. CASE ReadMarks
  <2>1. /\ stage = "marks" /\ stage' = "import" /\ UNCHANGED <<covers, covered, plans, cur, src, mir, now>>
        /\ work' = {Item(t, "place") : t \in ToPlace(plan, src, mir, now)}
    BY <1>3 DEF ReadMarks, repoVars
  <2>2. ToPlace(plan, src, mir, now)' = ToPlace(plan, src, mir, now)
    BY <2>1, StillFacts
  <2>3. ASSUME NEW t \in ToPlace(plan, src, mir, now)
        PROVE  Pending(t)'
    <3>1. Item(t, "place") \in work' /\ Item(t, "place").tag = t /\ Item(t, "place").step = "place"
      BY <2>1 DEF Item
    <3>2. QED
      BY <3>1 DEF Pending
  <2>4. covered' \subseteq covers'
    BY <2>1 DEF CoverOK
  <2>5. QED
    BY <2>1, <2>2, <2>3, <2>4 DEF CoverOK
<1>4. CASE ItemStep
  BY <1>4, CoverItem
<1>5. CASE Barrier
  BY <1>5, CoverBarrier
<1>6. CASE \/ (EndImport /\ cur = Imports)
           \/ UNCHANGED vars \/ (\E s \in Source : UpstreamMoves(s)) \/ EditPolicy \/ Tick
  <2>1. /\ UNCHANGED <<tagged, covers, covered, plans, cur, src, mir, now, clean, work>>
        /\ stage' = stage \/ (stage = "unmark" /\ stage' = "report")
    BY <1>6 DEF EndImport, UpstreamMoves, EditPolicy, Tick, vars, runVars, readVars, repoVars
  <2>2. /\ ToPlace(plan, src, mir, now)' = ToPlace(plan, src, mir, now)
        /\ ToKeep(plan, src, mir, now)' = ToKeep(plan, src, mir, now)
    BY <2>1, StillFacts
  <2>3. \A t : HasSbom(t)' = HasSbom(t) /\ HasSign(t)' = HasSign(t) /\ Pending(t)' = Pending(t)
    BY <2>1 DEF HasSbom, HasSign, Signed, Owed, Pending
  <2>4. CASE stage' = stage
    BY <2>1, <2>2, <2>3, <2>4 DEF CoverOK
  <2>5. CASE stage = "unmark" /\ stage' = "report"
    BY <2>1, <2>2, <2>3, <2>5 DEF CoverOK, Acting
  <2>6. QED
    BY <2>1, <2>4, <2>5
<1>7. QED
  BY <1>1, <1>2, <1>3, <1>4, <1>5, <1>6 DEF Next, RunStep

LEMMA CoverAlways == ASSUME Apart PROVE Spec => [](Inv /\ RunOK /\ CoverOK)
<1>1. Init => CoverOK
  BY DEF Init, CoverOK, Acting
<1>2. Inv /\ RunOK /\ CoverOK /\ [Next]_vars => CoverOK'
  BY CoverOKStep
<1>3. QED
  BY <1>1, <1>2, RunAlways, PTL DEF Spec

\* What a clean run has seen to when it reports.
LEMMA CoveredTags ==
  ASSUME Inv, CoverOK, CleanReport, NEW t \in plan.tags
  PROVE  /\ Sbom => <<tagged[t], "sbom">> \in covers
         /\ Signing => Signed(tagged[t])
<1>1. work = {} /\ stage = "report" /\ clean
  BY DEF Inv, TypeOK, CleanReport
<1>2. (Sbom => HasSbom(t)) /\ (Signing => HasSign(t))
  <2>1. CASE t \in ToKeep(plan, src, mir, now)
    BY <1>1, <2>1 DEF CoverOK, Acting
  <2>2. CASE t \in ToPlace(plan, src, mir, now)
    BY <1>1, <2>2 DEF CoverOK, Acting
  <2>3. QED
    BY <2>1, <2>2, PlaceOrKeep
<1>3. QED
  BY <1>1, <1>2 DEF HasSbom, HasSign, Owed

(***************************************************************************)
(* Whatever is configured, when a clean run reports every selected tag has *)
(* its SBOM, if SBOMs are asked for, and some signature, if signatures     *)
(* are: that of its transform or that of its SBOM, which the probe of the  *)
(* coverage does not tell apart.                                           *)
(***************************************************************************)
THEOREM CleanRunsAttest ==
  ASSUME Apart
  PROVE  Spec => [](CleanReport => \A t \in plan.tags :
                        /\ Sbom => <<tagged[t], "sbom">> \in covers
                        /\ Signing => Signed(tagged[t]))
<1>1. Inv /\ CoverOK => (CleanReport => \A t \in plan.tags :
                             /\ Sbom => <<tagged[t], "sbom">> \in covers
                             /\ Signing => Signed(tagged[t]))
  BY CoveredTags
<1>2. QED
  BY <1>1, CoverAlways, PTL

\* What the items of the cover stages attach, and what they go on with.
LEMMA UnsignedItem ==
  ASSUME ~(Sbom /\ Signing), Inv, SbomsUnsigned, ItemShape
  PROVE  SbomsUnsigned'
<1>1. /\ \A c \in covers : c[2] # "sbomSig"
      /\ \A i \in work : i.step # "sbomSig" /\ (i.step = "sbom" => Sbom)
  BY DEF SbomsUnsigned
<1>2. ASSUME NEW i \in work, NEW next, NEW out, Replaced(i, next, out), next # "sbomSig", next = "sbom" => Sbom
      PROVE  \A j \in work' : j.step # "sbomSig" /\ (j.step = "sbom" => Sbom)
  BY <1>1, <1>2 DEF Replaced
<1>3. CASE ClearShape
  BY <1>1, <1>3 DEF ClearShape, SbomsUnsigned
<1>4. ASSUME NEW i \in work, PlaceShape(i) \/ AliasShape(i) \/ DeleteShape(i) \/ MarkShape(i) \/ GiveUpShape(i)
      PROVE  /\ \A c \in covers' : c[2] # "sbomSig"
             /\ \A j \in work' : j.step # "sbomSig" /\ (j.step = "sbom" => Sbom)
  <2>1. covers' = covers
    BY <1>4 DEF PlaceShape, AliasShape, DeleteShape, MarkShape, GiveUpShape
  <2>2. Replaced(i, "stamp", Absent) \/ Replaced(i, "done", Absent)
    BY <1>4 DEF PlaceShape, AliasShape, DeleteShape, MarkShape, GiveUpShape
  <2>3. QED
    BY <1>1, <1>2, <2>1, <2>2
<1>5. ASSUME NEW i \in work, StampShape(i)
      PROVE  /\ \A c \in covers' : c[2] # "sbomSig"
             /\ \A j \in work' : j.step # "sbomSig" /\ (j.step = "sbom" => Sbom)
  <2>1. covers' = covers /\ Replaced(i, AfterStamp, Stamped(Placed(i.tag), i.tag))
    BY <1>5 DEF StampShape
  <2>2. AfterStamp # "sbomSig" /\ (AfterStamp = "sbom" => Sbom)
    BY DEF AfterStamp
  <2>3. QED
    BY <1>1, <1>2, <2>1, <2>2
<1>6. ASSUME NEW i \in work, AttachShape(i)
      PROVE  /\ \A c \in covers' : c[2] # "sbomSig"
             /\ \A j \in work' : j.step # "sbomSig" /\ (j.step = "sbom" => Sbom)
  <2> DEFINE next == IF i.step = "sign" THEN "done"
                     ELSE IF i.step = "sbom" /\ Signing THEN "sbomSig" ELSE AfterSbom
  <2>1. i.step \in {"sbom", "sign"} /\ (i.step = "sbom" => Sbom)
    BY <1>1, <1>6 DEF AttachShape
  <2>2. covers' = covers \cup {<<i.out, IF i.step = "sign" THEN "transformSig" ELSE i.step>>} /\ Replaced(i, next, i.out)
    BY <1>6 DEF AttachShape
  <2>3. next # "sbomSig" /\ next # "sbom"
    BY <2>1 DEF AfterSbom
  <2> HIDE DEF next
  <2>4. QED
    BY <1>1, <1>2, <2>1, <2>2, <2>3
<1>7. QED
  BY <1>3, <1>4, <1>5, <1>6 DEF ItemShape, SbomsUnsigned

LEMMA UnsignedStep ==
  ASSUME ~(Sbom /\ Signing), Inv, SbomsUnsigned, [Next]_vars
  PROVE  SbomsUnsigned'
<1>1. CASE ItemStep
  BY <1>1, ItemShapes, UnsignedItem
<1>2. ASSUME UNCHANGED covers, \A i \in work' : i.step # "sbomSig" /\ (i.step = "sbom" => Sbom)
      PROVE  SbomsUnsigned'
  BY <1>2 DEF SbomsUnsigned
<1>3. CASE Barrier
  <2>1. /\ UNCHANGED covers /\ work' = ItemsOf(stage')
        /\ stage' \in {"sign", "sbom", "alias", "delete", "retain", "unmark"}
    BY <1>3, BarrierFacts DEF Barrier, repoVars
  <2>2. CASE stage' \in {"alias", "delete", "retain", "unmark"}
    <3>1. \A i \in work' : i.step \in StepsIn[stage'] /\ stage' # "unmark"
      BY <2>1, StageItems DEF Inv
    <3>2. QED
      BY <1>2, <2>1, <2>2, <3>1 DEF StepsIn
  <2>3. CASE stage' = "sign"
    <3>1. work' = {Backfill(t, "sign") : t \in ToSign}
      BY <2>1, <2>3 DEF ItemsOf
    <3>2. QED
      BY <1>2, <2>1, <3>1 DEF Backfill
  <2>4. CASE stage' = "sbom"
    <3>1. work' = {Backfill(t, "sbom") : t \in ToSbom} /\ \A t \in ToSbom : Sbom
      BY <2>1, <2>4 DEF ItemsOf, ToSbom
    <3>2. QED
      BY <1>2, <2>1, <3>1 DEF Backfill
  <2>5. QED
    BY <2>1, <2>2, <2>3, <2>4
<1>4. CASE ReadMarks
  <2>1. UNCHANGED covers /\ work' = {Item(t, "place") : t \in ToPlace(plan, src, mir, now)}
    BY <1>4 DEF ReadMarks, repoVars
  <2>2. QED
    BY <1>2, <2>1 DEF Item
<1>5. CASE ~ItemStep /\ ~Barrier /\ ~ReadMarks
  <2>1. UNCHANGED covers /\ (work' = work \/ work' = {})
    BY <1>5 DEF Next, RunStep, StartRun, ReadSource, ReadMirror, EndImport, EndRun, Abort, RunDies,
                UpstreamMoves, EditPolicy, Tick, vars, runVars, repoVars
  <2>2. QED
    BY <1>2, <2>1 DEF SbomsUnsigned
<1>6. QED
  BY <1>1, <1>3, <1>4, <1>5

(***************************************************************************)
(* When a clean run reports, every selected tag has the coverage referrers *)
(* that the configuration asks for (CleanRunCovers), as long as it asks    *)
(* for SBOMs or for signatures and not for both: one referrer type stands  *)
(* for both kinds of signature when coverage is probed, and the signature  *)
(* of an SBOM then hides that the transform attestation is missing.        *)
(***************************************************************************)
THEOREM CleanRunsCover ==
  ASSUME Apart, ~(Sbom /\ Signing)
  PROVE  Spec => []CleanRunCovers
<1>1. Init => SbomsUnsigned
  BY DEF Init, SbomsUnsigned
<1>2. Inv /\ SbomsUnsigned /\ [Next]_vars => SbomsUnsigned'
  BY UnsignedStep
<1>3. Inv /\ CoverOK /\ SbomsUnsigned => CleanRunCovers
  <2> SUFFICES ASSUME Inv, CoverOK, SbomsUnsigned, CleanReport, NEW t \in plan.tags
               PROVE  /\ Sbom => <<tagged[t], "sbom">> \in covers
                      /\ Signing => <<tagged[t], "transformSig">> \in covers
    BY DEF CleanRunCovers
  <2>1. (Sbom => <<tagged[t], "sbom">> \in covers) /\ (Signing => Signed(tagged[t]))
    BY CoveredTags
  <2>2. <<tagged[t], "sbomSig">> \notin covers
    BY DEF SbomsUnsigned
  <2>3. QED
    BY <2>1, <2>2 DEF Signed
<1>4. QED
  BY <1>1, <1>2, <1>3, CoverAlways, PTL DEF Spec

-----------------------------------------------------------------------------
(* Origins and aliases, where no alias of the policies is named like a tag *)
(* that they select.                                                       *)

LEMMA NamesFacts ==
  ASSUME NamesApart
  PROVE  /\ Apart
         /\ TypeOK => \A t \in plan.tags : t \notin AliasNames
         /\ TypeOK => \A a \in DOMAIN plan.alias : a \in AliasNames
<1>1. Apart
  BY DEF NamesApart, Apart, AliasNames
<1>2. ASSUME TypeOK
      PROVE  /\ \A t \in plan.tags : t \notin AliasNames
             /\ \A a \in DOMAIN plan.alias : a \in AliasNames
  <2>1. plans \in Policies /\ cur \in 1 .. Imports
    BY <1>2 DEF TypeOK
  <2>2. QED
    BY <2>1 DEF plan, NamesApart, AliasNames
<1>3. QED
  BY <1>1, <1>2

\* What the upstream serves at first, and what a run would make of it.
LEMMA FirstDigests ==
  ASSUME Init, NEW s \in Source
  PROVE  /\ upstream[s].digest = <<s, 0>> /\ upstream[s].digest[1] = s
         /\ src[s].digest = <<s, 0>> /\ src[s].digest[1] = s
<1>1. upstream[s] = [digest |-> <<s, 0>>, created |-> 0] /\ src = Inspected
  BY DEF Init
<1>2. src[s] = ArtifactOf(upstream[s], now)
  BY <1>1 DEF Inspected
<1>3. upstream[s].digest = <<s, 0>>
  BY <1>1
<1>4. src[s].digest = upstream[s].digest
  BY <1>2 DEF ArtifactOf
<1>5. QED
  BY <1>3, <1>4

LEMMA OriginStep ==
  ASSUME NamesApart, Inv, OriginOK, [Next]_vars
  PROVE  OriginOK'
<1>1. /\ \A s \in Source : upstream[s].digest[1] = s /\ src[s].digest[1] = s
      /\ \A t \in Tag \ AliasNames : tagged[t] # Absent => tagged[t].content[1] = SourceOf[t]
  BY DEF OriginOK
<1>2. CASE UNCHANGED <<upstream, src, tagged>>
  BY <1>1, <1>2 DEF OriginOK
<1>3. CASE ReadSource
  <2>1. src' = Inspected /\ UNCHANGED <<upstream, tagged>> /\ now \in Nat
    BY <1>3, ReconcileAssumption DEF ReadSource, repoVars, worldVars, Inv, TypeOK
  <2>2. \A s \in Source : src'[s].digest = upstream[s].digest
    BY <2>1, InspectedFacts DEF Inv, TypeOK
  <2>3. QED
    BY <1>1, <2>1, <2>2 DEF OriginOK
<1>4. CASE \E s \in Source : UpstreamMoves(s)
  <2>1. PICK s \in Source : UpstreamMoves(s)
    BY <1>4
  <2>2. PICK created :
           /\ upstream' = [upstream EXCEPT ![s] = [digest |-> <<s, upstream[s].digest[2] + 1>>, created |-> created]]
           /\ UNCHANGED <<src, tagged>>
    BY <2>1 DEF UpstreamMoves, repoVars, runVars, readVars
  <2>3. ASSUME NEW u \in Source
        PROVE  upstream'[u].digest[1] = u
    <3>1. CASE u = s
      <4>1. upstream'[u] = [digest |-> <<s, upstream[s].digest[2] + 1>>, created |-> created]
        BY <2>2, <3>1 DEF Inv, TypeOK
      <4>2. QED
        BY <3>1, <4>1
    <3>2. CASE u # s
      <4>1. upstream'[u] = upstream[u]
        BY <2>2, <3>2 DEF Inv, TypeOK
      <4>2. QED
        BY <1>1, <4>1
    <3>3. QED
      BY <3>1, <3>2
  <2>4. QED
    BY <1>1, <2>2, <2>3 DEF OriginOK
<1>5. CASE ItemStep
  <2>1. ItemShape /\ UNCHANGED <<upstream, src>>
    BY <1>5, ItemShapes DEF ItemStep, worldVars, readVars
  <2>2. ASSUME NEW t \in Tag, NEW m, tagged' = [tagged EXCEPT ![t] = m],
               t \notin AliasNames /\ m # Absent => m.content[1] = SourceOf[t]
        PROVE  OriginOK'
    <3>1. \A u \in Tag : tagged'[u] = IF u = t THEN m ELSE tagged[u]
      BY <2>2 DEF Inv, TypeOK
    <3>2. QED
      BY <1>1, <2>1, <2>2, <3>1 DEF OriginOK
  <2>3. ASSUME NEW i \in work
        PROVE  /\ i.tag \in Tag /\ Placed(i.tag).content = src[SourceOf[i.tag]].digest
               /\ Stamped(Placed(i.tag), i.tag).content = src[SourceOf[i.tag]].digest
               /\ src[SourceOf[i.tag]].digest[1] = SourceOf[i.tag]
    <3>1. i.tag \in Tag
      BY DEF Inv, TypeOK, Items
    <3>2. SourceOf[i.tag] \in Source
      BY <3>1, PlanAssumption
    <3>3. QED
      BY <1>1, <3>1, <3>2, PlacedFacts DEF Inv
  <2>4. ASSUME NEW i \in work, PlaceShape(i)
        PROVE  OriginOK'
    BY <2>2, <2>3, <2>4 DEF PlaceShape
  <2>5. ASSUME NEW i \in work, StampShape(i)
        PROVE  OriginOK'
    BY <2>2, <2>3, <2>5 DEF StampShape
  <2>6. ASSUME NEW i \in work, AliasShape(i)
        PROVE  OriginOK'
    <3>1. i.tag \in AliasNames
      BY <2>6, NamesFacts DEF AliasShape, Inv, WorkOK
    <3>2. QED
      BY <2>2, <2>3, <2>6, <3>1 DEF AliasShape
  <2>7. ASSUME NEW i \in work, DeleteShape(i)
        PROVE  OriginOK'
    BY <2>2, <2>3, <2>7 DEF DeleteShape
  <2>8. CASE UNCHANGED tagged
    BY <1>2, <2>1, <2>8
  <2>9. QED
    BY <2>1, <2>4, <2>5, <2>6, <2>7, <2>8 DEF ItemShape, ClearShape, AttachShape, MarkShape, GiveUpShape
<1>6. CASE StartRun \/ ReadMirror \/ ReadMarks \/ Barrier \/ EndImport \/ EndRun \/ Abort \/ EditPolicy \/ Tick
  BY <1>2, <1>6 DEF StartRun, ReadMirror, ReadMarks, Barrier, EndImport, EndRun, Abort, RunDies, EditPolicy, Tick,
                    worldVars, repoVars, readVars, runVars
<1>7. CASE UNCHANGED vars
  BY <1>2, <1>7 DEF vars, worldVars, repoVars, runVars, readVars
<1>8. QED
  BY <1>3, <1>4, <1>5, <1>6, <1>7 DEF Next, RunStep

\* An item of the stage other than t's own leaves t's item in place.
LEMMA OthersStay ==
  ASSUME Inv, NEW i \in work, NEW next, NEW out, Replaced(i, next, out), NEW j \in work, j.tag # i.tag
  PROVE  j \in work'
BY DEF Replaced

LEMMA AliasStep ==
  ASSUME Apart, Inv, AliasOK, [Next]_vars
  PROVE  AliasOK'
<1> DEFINE After == {"alias", "delete", "retain", "unmark", "report"}
<1>1. CASE stage' \notin After
  BY <1>1 DEF AliasOK
<1>2. CASE Barrier /\ stage = "sbom"
  <2>1. stage' = "alias" /\ work' = ItemsOf("alias") /\ UNCHANGED <<plans, cur>>
    BY <1>2, BarrierFacts DEF Barrier, readVars
  <2>2. {i.tag : i \in ItemsOf("alias")} = DOMAIN plan.alias
    BY StageItems DEF Inv
  <2>3. UNCHANGED plan
    BY <2>1 DEF plan
  <2>4. \A a \in DOMAIN plan'.alias : \E i \in work' : i.tag = a
    BY <2>1, <2>2, <2>3
  <2>5. QED
    BY <2>1, <2>4 DEF AliasOK
\* The stage moves on, and no alias item is left.
<1>3. ASSUME UNCHANGED <<tagged, plans, cur, clean>>, stage \in After, UNCHANGED <<stage, work>> \/ work = {}
      PROVE  AliasOK'
  <2>1. UNCHANGED plan
    BY <1>3 DEF plan
  <2>2. QED
    BY <1>3, <2>1 DEF AliasOK
<1>4. CASE (Barrier /\ stage # "sbom") \/ EndImport
  <2>1. CASE Barrier /\ stage # "sbom"
    <3>1. UNCHANGED <<tagged, plans, cur, clean>> /\ work = {}
          /\ (stage \in {"alias", "delete", "retain"} \/ stage' \in {"sign", "sbom"})
      BY <2>1, BarrierFacts DEF Barrier, readVars, repoVars
    <3>2. QED
      BY <1>1, <1>3, <3>1
  <2>2. CASE EndImport /\ cur = Imports
    <3>1. UNCHANGED <<tagged, plans, cur, clean>> /\ stage = "unmark"
      BY <2>2 DEF EndImport, repoVars
    <3>2. work = {}
      BY <3>1 DEF Inv, TypeOK
    <3>3. QED
      BY <1>3, <3>1, <3>2
  <2>3. CASE EndImport /\ cur # Imports
    BY <1>1, <2>3 DEF EndImport
  <2>4. QED
    BY <1>4, <2>1, <2>2, <2>3
<1>5. CASE ItemStep /\ stage \in After
  <2>1. ItemShape /\ UNCHANGED <<stage, plans, cur>>
    BY <1>5, ItemShapes DEF ItemStep, readVars
  <2>2. UNCHANGED plan
    BY <2>1 DEF plan
  <2>3. /\ DOMAIN plan.alias \subseteq Tag /\ plan.tags \subseteq Tag
        /\ \A a \in DOMAIN plan.alias : plan.alias[a] \in plan.tags /\ a \notin plan.tags
    BY PlanFacts, ApartFacts DEF Inv
  <2> DEFINE Set(a)  == tagged[a] = tagged[plan.alias[a]]
             Left(a) == \E i \in work : i.tag = a
  <2>4. clean => \A a \in DOMAIN plan.alias : Set(a) \/ (stage = "alias" /\ Left(a))
    BY <1>5 DEF AliasOK
  <2>5. ASSUME clean' => clean /\ \A a \in DOMAIN plan.alias : Set(a)' \/ (stage = "alias" /\ Left(a)')
        PROVE  AliasOK'
    BY <2>1, <2>2, <2>5 DEF AliasOK
  <2>6. ASSUME NEW i \in work, NEW next, NEW out, Replaced(i, next, out)
        PROVE  \A a : a # i.tag /\ Left(a) => Left(a)'
    BY <2>6, OthersStay
  <2>7. (\A t \in Tag : tagged'[t] = tagged[t]) => \A a \in DOMAIN plan.alias : Set(a) => Set(a)'
    BY <2>2, <2>3
  <2>8. CASE ClearShape
    <3>1. UNCHANGED <<tagged, work>> /\ (clean' => clean)
      BY <2>8 DEF ClearShape
    <3>2. QED
      BY <2>4, <2>5, <2>7, <3>1
  <2>9. ASSUME NEW i \in work, PlaceShape(i) \/ StampShape(i) \/ AttachShape(i) \/ GiveUpShape(i)
        PROVE  AliasOK'
    <3>1. ~clean'
      BY <1>5, <2>9 DEF PlaceShape, StampShape, AttachShape, GiveUpShape
    <3>2. QED
      BY <2>5, <3>1
  <2>10. ASSUME NEW i \in work, AliasShape(i)
         PROVE  AliasOK'
    <3>1. /\ stage = "alias" /\ clean' = clean /\ Replaced(i, "done", Absent)
          /\ tagged' = [tagged EXCEPT ![i.tag] = tagged[plan.alias[i.tag]]] /\ i.tag \in DOMAIN plan.alias
      BY <2>10 DEF AliasShape, Inv, WorkOK
    <3>2. /\ \A t \in Tag : t # i.tag => tagged'[t] = tagged[t]
          /\ tagged'[i.tag] = tagged[plan.alias[i.tag]]
      BY <2>3, <3>1 DEF Inv, TypeOK
    <3>3. \A a \in DOMAIN plan.alias : plan.alias[a] # i.tag /\ plan.alias[a] \in Tag /\ a \in Tag
      BY <2>3, <3>1
    <3>4. Set(i.tag)'
      BY <2>2, <3>1, <3>2, <3>3
    <3>5. \A a \in DOMAIN plan.alias : a # i.tag /\ Set(a) => Set(a)'
      BY <2>2, <3>2, <3>3
    <3> HIDE DEF Set, Left
    <3>6. QED
      BY <2>4, <2>5, <2>6, <3>1, <3>4, <3>5
  <2>11. ASSUME NEW i \in work, DeleteShape(i)
         PROVE  AliasOK'
    <3>1. /\ stage = "delete" /\ clean' = clean /\ tagged' = [tagged EXCEPT ![i.tag] = Absent]
          /\ i.tag \notin plan.tags /\ i.tag \notin DOMAIN plan.alias
      BY <2>11 DEF DeleteShape, Inv, WorkOK, Desired
    <3>2. \A a \in DOMAIN plan.alias : tagged'[a] = tagged[a] /\ tagged'[plan.alias[a]] = tagged[plan.alias[a]]
      BY <2>3, <3>1 DEF Inv, TypeOK
    <3>3. \A a \in DOMAIN plan.alias : Set(a) => Set(a)'
      BY <2>2, <3>2
    <3> HIDE DEF Set, Left
    <3>4. QED
      BY <2>4, <2>5, <3>1, <3>3
  <2>12. ASSUME NEW i \in work, MarkShape(i)
         PROVE  AliasOK'
    <3>1. UNCHANGED <<tagged, clean>> /\ stage \in {"delete", "retain"}
      BY <2>12 DEF MarkShape
    <3>2. QED
      BY <2>4, <2>5, <2>7, <3>1
  <2>13. QED
    BY <2>1, <2>8, <2>9, <2>10, <2>11, <2>12 DEF ItemShape
<1>6. CASE ItemStep /\ stage \notin After
  BY <1>1, <1>6 DEF ItemStep
<1>7. CASE UNCHANGED vars \/ (\E s \in Source : UpstreamMoves(s)) \/ EditPolicy \/ Tick
  <2>1. UNCHANGED <<tagged, plans, cur, clean, stage, work>>
    BY <1>7 DEF UpstreamMoves, EditPolicy, Tick, vars, runVars, readVars, repoVars
  <2>2. QED
    BY <1>1, <1>3, <2>1
<1>8. CASE StartRun \/ ReadSource \/ ReadMirror \/ ReadMarks \/ EndRun \/ Abort
  BY <1>1, <1>8 DEF StartRun, ReadSource, ReadMirror, ReadMarks, EndRun, Abort, RunDies
<1>9. QED
  BY <1>2, <1>4, <1>5, <1>6, <1>7, <1>8 DEF Next, RunStep

(***************************************************************************)
(* When a clean run reports, every selected tag is in the repository, from *)
(* its own source and with the hardening asked for, and every alias        *)
(* designates its target (CleanRunPlaces).  One import of the policy feeds *)
(* the repository: a sibling import deletes what another has placed.  And  *)
(* no alias is named like a tag that some import selects: what an alias    *)
(* left under such a tag comes from another source, and is kept.           *)
(***************************************************************************)
THEOREM CleanRunsPlace ==
  ASSUME Imports = 1, NamesApart
  PROVE  Spec => []CleanRunPlaces
<1>1. Init => OriginOK /\ AliasOK
  <2> SUFFICES ASSUME Init PROVE OriginOK /\ AliasOK
    OBVIOUS
  <2>1. tagged = [t \in Tag |-> Absent] /\ stage = "idle"
    BY DEF Init
  <2>2. QED
    BY <2>1, FirstDigests DEF OriginOK, AliasOK
<1>2. Inv /\ OriginOK /\ [Next]_vars => OriginOK'
  BY OriginStep
<1>3. Inv /\ AliasOK /\ [Next]_vars => AliasOK'
  BY AliasStep, NamesFacts
<1>4. Inv /\ RunOK /\ OriginOK /\ AliasOK => CleanRunPlaces
  <2> SUFFICES ASSUME Inv, RunOK, OriginOK, AliasOK, stage = "report", clean, NEW n \in 1 .. Imports
               PROVE  /\ \A t \in plans[n].tags :
                            /\ tagged[t] # Absent
                            /\ tagged[t].content[1] = SourceOf[t]
                            /\ tagged[t].version = VersionOf(plans[n], t)
                      /\ \A a \in DOMAIN plans[n].alias : tagged[a] = tagged[plans[n].alias[a]]
    BY DEF CleanRunPlaces, CleanReport
  <2>1. plans[n] = plan
    BY DEF Inv, TypeOK, plan
  <2>2. ASSUME NEW t \in plan.tags
        PROVE  /\ tagged[t] # Absent
               /\ tagged[t].content[1] = SourceOf[t]
               /\ tagged[t].version = VersionOf(plan, t)
    <3>1. t \in Tag /\ t \notin AliasNames
      BY PlanFacts, NamesFacts DEF Inv
    <3>2. tagged[t] # Absent => tagged[t].content[1] = SourceOf[t]
      BY <3>1 DEF OriginOK
    <3>3. CASE t \in ToPlace(plan, src, mir, now)
      <4>1. Fresh(t)
        BY <3>3 DEF RunOK, Acting
      <4>2. tagged[t] # Absent /\ tagged[t].version = VersionOf(plan, t)
        BY <3>1, <4>1, PlacedFacts, PlanAssumption DEF Fresh, Inv
      <4>3. QED
        BY <3>2, <4>2
    <3>4. CASE t \in ToKeep(plan, src, mir, now)
      <4>1. tagged[t] = mir[t]
        BY <3>4 DEF RunOK, Acting
      <4>2. mir[t] # Absent /\ mir[t].version = VersionOf(plan, t)
        BY <3>4, KeptFacts
      <4>3. QED
        BY <3>2, <4>1, <4>2
    <3>5. QED
      BY <3>3, <3>4, PlaceOrKeep
  <2>3. \A a \in DOMAIN plan.alias : tagged[a] = tagged[plan.alias[a]]
    BY DEF AliasOK
  <2>4. QED
    BY <2>1, <2>2, <2>3
<1>5. Apart
  BY NamesFacts
<1>6. QED
  BY <1>1, <1>2, <1>3, <1>4, <1>5, RunAlways, PTL DEF Spec

-----------------------------------------------------------------------------
(* Retirement.                                                             *)

LEMMA RetireStep ==
  ASSUME Inv, RetireOK, [Next]_vars
  PROVE  RetireOK'
<1> DEFINE Reading  == {"marks", "import", "sign", "sbom", "alias"}
           Retiring == {"delete", "retain", "unmark", "report"}
           Kept(t)  == MirrorOf(tagged[t]) = mir[t]
           Gone(t)  == MirrorOf(tagged[t]) = Absent
           Left(t)  == \E i \in work : i.tag = t /\ i.step = "delete"
           Must     == clean /\ ~plan.mark
<1>1. UNCHANGED <<plans, cur, clean>> => (Must' <=> Must)
  BY DEF plan
<1>2. /\ stage \in Reading => \A t \in Tag \ Desired(plan) : Kept(t)
      /\ stage \in Retiring /\ Must => \A t \in Tag \ Desired(plan) : Gone(t) \/ (stage = "delete" /\ Left(t))
  BY DEF RetireOK
<1>3. ASSUME /\ stage' \in Reading => \A t \in Tag \ Desired(plan)' : Kept(t)'
             /\ stage' \in Retiring /\ Must' =>
                    \A t \in Tag \ Desired(plan)' : Gone(t)' \/ (stage' = "delete" /\ Left(t)')
      PROVE  RetireOK'
  BY <1>3 DEF RetireOK
<1>4. \A t : tagged'[t] = tagged[t] => (Gone(t)' <=> Gone(t)) /\ (mir' = mir => (Kept(t)' <=> Kept(t)))
  BY DEF MirrorOf
<1>5. CASE stage' \notin Reading \cup Retiring
  BY <1>3, <1>5
<1>6. CASE ReadMirror
  <2>1. stage' = "marks" /\ tagged' = tagged /\ mir' = [t \in Tag |-> MirrorOf(tagged[t])]
    BY <1>6 DEF ReadMirror, repoVars
  <2>2. \A t \in Tag : Kept(t)'
    BY <2>1 DEF MirrorOf
  <2> HIDE DEF Kept, Gone, Left, Must
  <2>3. QED
    BY <1>3, <2>1, <2>2
\* The stage stays, or goes on without touching a tag or the items that delete.
<1>7. ASSUME UNCHANGED <<tagged, plans, cur, src, mir, now, clean>>,
             \/ UNCHANGED <<stage, work>>
             \/ stage \in Reading /\ stage' \in Reading
             \/ stage \in Retiring /\ stage' \in Retiring /\ work = {}
      PROVE  RetireOK'
  <2>1. Desired(plan)' = Desired(plan)
    BY <1>7, StillFacts
  <2>2. work = {} => \A t : ~Left(t)
    OBVIOUS
  <2>3. \A t : (Gone(t)' <=> Gone(t)) /\ (Kept(t)' <=> Kept(t)) /\ (work' = work => (Left(t)' <=> Left(t)))
    BY <1>4, <1>7
  <2> HIDE DEF Kept, Gone, Left, Must
  <2>4. QED
    BY <1>1, <1>2, <1>3, <1>7, <2>1, <2>2, <2>3
<1>8. CASE Barrier
  <2>1. UNCHANGED <<tagged, plans, cur, src, mir, now, clean>> /\ work = {} /\ work' = ItemsOf(stage')
    BY <1>8, BarrierFacts DEF Barrier, repoVars, readVars
  <2>2. CASE stage = "alias"
    <3>1. stage' = "delete"
      BY <1>8, <2>2, BarrierFacts
    <3>2. work' = {Item(t, "mark") : t \in {u \in ToMark : plan.mark}}
                      \cup {Item(t, "delete") : t \in {u \in ToDelete(plan, mir) : ~plan.mark}}
      BY <2>1, <3>1 DEF ItemsOf, ToRetire
    <3>3. Must => \A t \in Tag \ Desired(plan) : Gone(t)' \/ Left(t)'
      <4> SUFFICES ASSUME Must, NEW t \in Tag \ Desired(plan) PROVE Gone(t)' \/ Left(t)'
        OBVIOUS
      <4>1. Kept(t)
        BY <1>2, <2>2
      <4>2. CASE mir[t] = Absent
        BY <1>4, <2>1, <4>1, <4>2
      <4>3. CASE mir[t] # Absent
        <5>1. t \in ToDelete(plan, mir)
          BY <4>3 DEF ToDelete, Mirrored
        <5>2. Item(t, "delete") \in work'
          BY <3>2, <5>1
        <5>3. QED
          BY <5>2 DEF Item
      <4>4. QED
        BY <4>2, <4>3
    <3>4. Desired(plan)' = Desired(plan)
      BY <2>1, StillFacts
    <3> HIDE DEF Kept, Gone, Left, Must
    <3>5. QED
      BY <1>1, <1>3, <2>1, <3>1, <3>3, <3>4
  <2>3. CASE stage # "alias"
    <3>1. \/ stage \in Reading /\ stage' \in Reading
          \/ stage \in Retiring /\ stage' \in Retiring
      BY <1>8, <2>3, BarrierFacts
    <3>2. QED
      BY <1>7, <2>1, <3>1
  <2>4. QED
    BY <2>2, <2>3
<1>9. CASE ItemStep
  <2>1. ItemShape /\ UNCHANGED <<stage, plans, cur, src, mir, now>>
    BY <1>9, ItemShapes DEF ItemStep, readVars
  <2>2. Desired(plan)' = Desired(plan) /\ plan.tags \subseteq Desired(plan) /\ DOMAIN plan.alias \subseteq Desired(plan)
    BY <2>1, StillFacts DEF Desired
  <2>3. ASSUME /\ stage \in Reading => \A t \in Tag \ Desired(plan) : Kept(t)'
               /\ stage \in Retiring /\ Must' =>
                      \A t \in Tag \ Desired(plan) : Gone(t)' \/ (stage = "delete" /\ Left(t)')
        PROVE  RetireOK'
    <3> HIDE DEF Kept, Gone, Left, Must
    <3>1. QED
      BY <1>3, <2>1, <2>2, <2>3
  <2>4. ASSUME NEW i \in work, i.tag \in Desired(plan), stage \notin Retiring, NEW m, tagged' = [tagged EXCEPT ![i.tag] = m]
        PROVE  RetireOK'
    <3>1. \A t \in Tag \ Desired(plan) : tagged'[t] = tagged[t]
      BY <2>4 DEF Inv, TypeOK
    <3>2. \A t \in Tag \ Desired(plan) : Kept(t) => Kept(t)'
      BY <1>4, <2>1, <3>1
    <3> HIDE DEF Kept, Gone, Left, Must
    <3>3. QED
      BY <1>2, <2>3, <2>4, <3>2
  <2>5. ASSUME NEW i \in work, PlaceShape(i) \/ StampShape(i)
        PROVE  RetireOK'
    <3>1. stage = "import" /\ \E m : tagged' = [tagged EXCEPT ![i.tag] = m]
      BY <2>5 DEF PlaceShape, StampShape
    <3>2. i.tag \in Desired(plan)
      BY <2>2, <3>1, PlaceOrKeep DEF Inv, WorkOK
    <3>3. QED
      BY <2>4, <3>1, <3>2
  <2>6. ASSUME NEW i \in work, AliasShape(i)
        PROVE  RetireOK'
    <3>1. stage = "alias" /\ i.tag \in Desired(plan)
      BY <2>2, <2>6 DEF AliasShape, Inv, WorkOK
    <3>2. QED
      BY <2>4, <2>6, <3>1 DEF AliasShape
  <2>7. ASSUME NEW i \in work, DeleteShape(i)
        PROVE  RetireOK'
    <3>1. stage = "delete" /\ clean' = clean /\ tagged' = [tagged EXCEPT ![i.tag] = Absent] /\ Replaced(i, "done", Absent)
      BY <2>7 DEF DeleteShape
    <3>2. ASSUME Must, NEW t \in Tag \ Desired(plan)
          PROVE  Gone(t)' \/ Left(t)'
      <4>1. CASE t = i.tag
        <5>1. tagged'[t] = Absent
          BY <3>1, <4>1 DEF Inv, TypeOK
        <5>2. QED
          BY <5>1 DEF MirrorOf
      <4>2. CASE t # i.tag
        <5>1. tagged'[t] = tagged[t]
          BY <3>1, <4>2 DEF Inv, TypeOK
        <5>2. Left(t) => Left(t)'
          BY <3>1, <4>2, OthersStay
        <5>3. QED
          BY <1>2, <1>4, <3>1, <3>2, <5>1, <5>2
      <4>3. QED
        BY <4>1, <4>2
    <3> HIDE DEF Kept, Gone, Left, Must
    <3>3. QED
      BY <1>1, <2>1, <2>3, <3>1, <3>2
  <2>8. CASE UNCHANGED tagged /\ (stage # "delete" \/ ~clean' \/ ~(\E i \in work : i.step = "delete" /\ i \notin work'))
    <3>1. \A t : (Gone(t) => Gone(t)') /\ (Kept(t) => Kept(t)')
      BY <1>4, <2>1, <2>8
    <3>2. stage = "delete" /\ clean' => \A t : Left(t) => Left(t)'
      BY <2>8
    <3>3. clean' => clean
      BY <2>1 DEF ItemShape, ClearShape, PlaceShape, StampShape, AttachShape, AliasShape, DeleteShape, MarkShape, GiveUpShape
    <3>4. Must' => Must /\ clean'
      BY <2>1, <3>3 DEF plan
    <3> HIDE DEF Kept, Gone, Left, Must
    <3>5. QED
      BY <1>2, <2>3, <3>1, <3>2, <3>4
  <2>9. ASSUME NEW i \in work, AttachShape(i) \/ MarkShape(i) \/ GiveUpShape(i)
        PROVE  RetireOK'
    <3>1. UNCHANGED tagged /\ (stage # "delete" \/ ~clean' \/ MarkShape(i))
      BY <2>9 DEF AttachShape, MarkShape, GiveUpShape
    <3>2. MarkShape(i) => i.step # "delete" /\ Replaced(i, "done", Absent)
      BY DEF MarkShape
    <3>3. MarkShape(i) => ~(\E j \in work : j.step = "delete" /\ j \notin work')
      BY <3>2, OthersStay DEF Inv, WorkOK
    <3>4. QED
      BY <2>8, <3>1, <3>3
  <2>10. CASE ClearShape
    BY <2>8, <2>10 DEF ClearShape
  <2>11. QED
    BY <2>1, <2>5, <2>6, <2>7, <2>9, <2>10 DEF ItemShape
<1>10. CASE ReadMarks
  BY <1>7, <1>10 DEF ReadMarks, repoVars
<1>11. CASE EndImport
  <2>1. CASE cur = Imports
    <3>1. UNCHANGED <<tagged, plans, cur, src, mir, now, clean>> /\ stage' = "report" /\ stage = "unmark"
      BY <1>11, <2>1 DEF EndImport, repoVars
    <3>2. work = {}
      BY <3>1 DEF Inv, TypeOK
    <3>3. QED
      BY <1>7, <3>1, <3>2
  <2>2. CASE cur # Imports
    BY <1>5, <1>11, <2>2 DEF EndImport
  <2>3. QED
    BY <2>1, <2>2
<1>12. CASE UNCHANGED vars \/ (\E s \in Source : UpstreamMoves(s)) \/ EditPolicy \/ Tick
  <2>1. UNCHANGED <<stage, tagged, plans, cur, src, mir, now, clean, work>>
    BY <1>12 DEF UpstreamMoves, EditPolicy, Tick, vars, runVars, readVars, repoVars
  <2>2. QED
    BY <1>7, <2>1
<1>13. CASE StartRun \/ ReadSource \/ EndRun \/ Abort
  BY <1>5, <1>13 DEF StartRun, ReadSource, EndRun, Abort, RunDies
<1>14. QED
  BY <1>6, <1>8, <1>9, <1>10, <1>11, <1>12, <1>13 DEF Next, RunStep

(***************************************************************************)
(* When a clean run reports, a mirrored tag that the policy does not want  *)
(* is gone (CleanRunRetires), if the run purges.  In mark mode the mark    *)
(* can be missing: a run does not mark a tag that carries the retention    *)
(* mark, which it then clears; and it clears the mark of a manifest that   *)
(* an alias still designates.                                              *)
(***************************************************************************)
THEOREM CleanRunsRetire == Spec => [](~plan.mark => CleanRunRetires)
<1>1. Init => RetireOK
  BY DEF Init, RetireOK
<1>2. Inv /\ RetireOK /\ [Next]_vars => RetireOK'
  BY RetireStep
<1>3. Inv /\ RetireOK => (~plan.mark => CleanRunRetires)
  <2>1. Inv => (stage = "report" => work = {})
    BY DEF Inv, TypeOK
  <2>2. QED
    BY <2>1 DEF RetireOK, CleanRunRetires, CleanReport
<1>4. QED
  BY <1>1, <1>2, <1>3, InvAlways, PTL DEF Spec

-----------------------------------------------------------------------------
(* The archive rule.                                                       *)

\* Every set of naturals that is not empty has a least element.
LEMMA NatLeast ==
  ASSUME NEW T \in SUBSET Nat, T # {}
  PROVE  \E x \in T : \A y \in T : x <= y
<1>1. PICK x \in T : \A y \in T : ~ (<<y, x>> \in OpToRel(<, Nat))
  BY NatLessThanWellFounded, WFMin, Zenon
<1>2. \A y \in T : ~ (y < x)
  BY <1>1 DEF OpToRel
<1>3. QED
  BY <1>2

\* The ranking is by a strict order: what is newer ranks strictly before.
LEMMA RankOrder ==
  ASSUME NEW C \in SUBSET Tag, NEW imp \in [C -> Nat]
  PROVE  /\ \A t \in C : Rank(imp, t) \in Nat
         /\ \A t, u \in C : NewerThan(imp, u, t) => Rank(imp, u) < Rank(imp, t)
<1> DEFINE Newer(t) == {u \in C : NewerThan(imp, u, t)}
<1>1. C \subseteq Nat /\ IsFiniteSet(C) /\ DOMAIN imp = C
  BY PlanAssumption, FS_Subset
<1>2. \A t : Rank(imp, t) = Cardinality(Newer(t))
  BY <1>1 DEF Rank
<1>3. \A t : IsFiniteSet(Newer(t)) /\ Cardinality(Newer(t)) \in Nat
  <2>1. ASSUME NEW t
        PROVE  IsFiniteSet(Newer(t)) /\ Cardinality(Newer(t)) \in Nat
    <3>1. Newer(t) \in SUBSET C
      OBVIOUS
    <3> HIDE DEF Newer
    <3>2. QED
      BY <1>1, <3>1, FS_Subset, FS_CardinalityType
  <2>2. QED
    BY <2>1
<1>4. ASSUME NEW t \in C, NEW u \in C, NewerThan(imp, u, t)
      PROVE  Rank(imp, u) < Rank(imp, t)
  <2>1. \A x \in C : NewerThan(imp, x, u) => NewerThan(imp, x, t)
    <3>1. ASSUME NEW x \in C, NewerThan(imp, x, u)
          PROVE  NewerThan(imp, x, t)
      <4>1. /\ imp[x] \in Nat /\ imp[u] \in Nat /\ imp[t] \in Nat
            /\ x \in Nat /\ u \in Nat /\ t \in Nat
        BY <1>1
      <4>2. QED
        BY <1>4, <3>1, <4>1 DEF NewerThan
    <3>2. QED
      BY <3>1
  <2>2. u \in Newer(t) /\ u \notin Newer(u)
    <3>1. imp[u] \in Nat /\ u \in Nat
      BY <1>1
    <3>2. ~NewerThan(imp, u, u)
      BY <3>1 DEF NewerThan
    <3>3. QED
      BY <1>4, <3>2
  <2>3. Newer(u) \in SUBSET Newer(t)
    BY <2>1
  <2> DEFINE S == Newer(t)
             T == Newer(u)
  <2>4. IsFiniteSet(S) /\ T \in SUBSET S /\ S # T /\ Cardinality(S) \in Nat /\ Cardinality(T) \in Nat
    BY <1>3, <2>2, <2>3
  <2>5. Rank(imp, t) = Cardinality(S) /\ Rank(imp, u) = Cardinality(T)
    BY <1>2
  <2> HIDE DEF S, T
  <2>6. Cardinality(T) <= Cardinality(S) /\ (Cardinality(S) = Cardinality(T) => S = T)
    BY <2>4, FS_Subset
  <2>7. QED
    BY <2>4, <2>5, <2>6
<1>5. QED
  BY <1>2, <1>3, <1>4

(***************************************************************************)
(* What the archive rule finds in excess leaves at least as many of the    *)
(* candidates as the rule keeps, whatever their import times are: those    *)
(* that are newer than the newest one in excess.                           *)
(***************************************************************************)
THEOREM ExcessLeavesKeep ==
  ASSUME NEW C \in SUBSET Tag, NEW imp \in [C -> Nat], NEW keep \in Nat, NEW time,
         Excess(imp, keep, time) # {}
  PROVE  /\ IsFiniteSet(C \ Excess(imp, keep, time))
         /\ Cardinality(C \ Excess(imp, keep, time)) >= keep
<1> DEFINE X     == Excess(imp, keep, time)
           Ranks == {Rank(imp, t) : t \in X}
<1>1. /\ DOMAIN imp = C /\ X \subseteq C /\ IsFiniteSet(C)
      /\ \A t \in X : Rank(imp, t) >= keep /\ time - imp[t] > OlderThan
  BY PlanAssumption, FS_Subset DEF Excess
<1>2. Ranks \in SUBSET Nat /\ Ranks # {}
  BY <1>1, RankOrder
<1>3. PICK n \in Ranks : \A k \in Ranks : n <= k
  BY <1>2, NatLeast
<1>4. PICK x \in X : n = Rank(imp, x)
  OBVIOUS
<1> DEFINE Newer == {u \in C : NewerThan(imp, u, x)}
           Left  == C \ X
<1>5. Newer \cap X = {}
  <2> SUFFICES ASSUME NEW u \in Newer, u \in X PROVE FALSE
    OBVIOUS
  <2>1. Rank(imp, u) < Rank(imp, x) /\ Rank(imp, u) \in Nat /\ Rank(imp, x) \in Nat
    BY <1>1, <1>4, RankOrder
  <2>2. n <= Rank(imp, u)
    BY <1>3
  <2>3. QED
    BY <1>4, <2>1, <2>2
<1>6. Newer \in SUBSET Left /\ Left \in SUBSET C
  BY <1>5
<1>7. Cardinality(Newer) >= keep
  BY <1>1, <1>4 DEF Rank
<1> HIDE DEF X, Newer, Left
<1>8. IsFiniteSet(Left) /\ IsFiniteSet(Newer)
  BY <1>1, <1>6, FS_Subset
<1>9. Cardinality(Newer) <= Cardinality(Left) /\ Cardinality(Newer) \in Nat /\ Cardinality(Left) \in Nat
  BY <1>6, <1>8, FS_Subset, FS_CardinalityType
<1>10. QED
  BY <1>7, <1>8, <1>9 DEF Left, X

\* What is in excess is selected and was in the mirror, imported long enough ago; and an alias
\* target is not.
LEMMA ExcessFacts ==
  ASSUME TypeOK, NEW t \in RetentionExcess(plan, mir, now)
  PROVE  /\ t \in plan.tags /\ t \in Tag /\ mir[t] # Absent /\ mir[t] \in Manifest
         /\ now - mir[t].at > OlderThan
         /\ t \in Excess([u \in RetentionCandidates(plan, mir, VariantOf[t]) |-> mir[u].at], plan.keep, now)
         /\ \A a \in DOMAIN plan.alias : plan.alias[a] # t
<1> DEFINE C(v)   == RetentionCandidates(plan, mir, v)
           imp(v) == [u \in C(v) |-> mir[u].at]
<1>1. PICK v \in Variant : t \in Excess(imp(v), plan.keep, now)
  BY DEF RetentionExcess
<1>2. t \in C(v) /\ now - imp(v)[t] > OlderThan
  BY <1>1 DEF Excess
<1>3. t \in plan.tags /\ t \in Mirrored(mir) /\ VariantOf[t] = v /\ t \notin Protected(plan, v)
  BY <1>2 DEF RetentionCandidates
<1>4. t \in Tag /\ mir[t] # Absent /\ mir[t] \in Manifest
  BY <1>3, PlanFacts DEF Mirrored, TypeOK
<1>5. ASSUME NEW a \in DOMAIN plan.alias, plan.alias[a] = t
      PROVE  FALSE
  <2>1. VariantOf[plan.alias[a]] = VariantOf[a]
    BY ReconcileAssumption DEF TypeOK, plan
  <2>2. QED
    BY <1>3, <1>5, <2>1 DEF Protected
<1>6. QED
  BY <1>1, <1>2, <1>3, <1>4, <1>5

LEMMA ExcessStays ==
  ASSUME UNCHANGED <<plans, cur, mir, now>>
  PROVE  RetentionExcess(plan, mir, now)' = RetentionExcess(plan, mir, now)
<1>1. UNCHANGED plan
  BY DEF plan
<1> HIDE DEF plan
<1>2. \A v : RetentionCandidates(plan, mir, v)' = RetentionCandidates(plan, mir, v)
  BY <1>1 DEF RetentionCandidates, Protected, Mirrored
<1>3. QED
  BY <1>1, <1>2 DEF RetentionExcess

\* How the marks move.
LEMMA MarksMove ==
  ASSUME [Next]_vars
  PROVE  \/ UNCHANGED marks
         \/ ItemStep /\ \E i \in work : PutMark(i)
         \/ ItemStep /\ \E m \in clearing : ClearMark(m)
<1>1. CASE ItemStep
  <2>1. ASSUME NEW i \in work, \/ Place(i) \/ Stamp(i) \/ AttachSbom(i) \/ SignSbom(i) \/ Sign(i)
                               \/ SetAlias(i) \/ DeleteTag(i) \/ NoTag(i) \/ OpFails(i)
        PROVE  UNCHANGED marks
    BY <2>1 DEF Place, Stamp, AttachSbom, SignSbom, Sign, SetAlias, DeleteTag, NoTag, OpFails, repoVars
  <2>2. QED
    BY <1>1, <2>1 DEF ItemStep
<1>2. CASE ~ItemStep
  BY <1>2 DEF Next, RunStep, StartRun, ReadSource, ReadMirror, ReadMarks, Barrier, EndImport, EndRun, Abort, RunDies,
              UpstreamMoves, EditPolicy, Tick, vars, repoVars
<1>3. QED
  BY <1>1, <1>2

\* The items that mark for retention are those the stage began with.
LEMMA RetainWork ==
  ASSUME Inv, [Next]_vars, NEW i \in work', i.step = "retain"
  PROVE  \/ i \in work /\ UNCHANGED <<plans, cur, mir, now>>
         \/ Barrier /\ i.tag \in RetentionExcess(plan, mir, now)
<1>1. CASE ItemStep
  <2>1. UNCHANGED <<plans, cur, mir, now>>
    BY <1>1 DEF ItemStep, readVars
  <2>2. QED
    BY <1>1, <2>1, OldItems
<1>2. CASE Barrier
  <2>1. work' = ItemsOf(stage') /\ stage' \in {"sign", "sbom", "alias", "delete", "retain", "unmark"}
    BY <1>2, BarrierFacts
  <2>2. stage' = "retain"
    <3>1. i.step \in StepsIn[stage'] /\ stage' # "unmark"
      BY <2>1, StageItems DEF Inv
    <3>2. QED
      BY <2>1, <3>1 DEF StepsIn
  <2>3. work' = {Item(t, "retain") : t \in ToRetain}
    BY <2>1, <2>2 DEF ItemsOf
  <2>4. i.tag \in ToRetain
    BY <2>3 DEF Item
  <2>5. QED
    BY <1>2, <2>4 DEF ToRetain
<1>3. CASE ReadMarks
  <2>1. work' = {Item(t, "place") : t \in ToPlace(plan, src, mir, now)}
    BY <1>3 DEF ReadMarks
  <2>2. QED
    BY <2>1 DEF Item
<1>4. CASE EndImport
  <2>1. work' = work /\ stage = "unmark"
    BY <1>4 DEF EndImport
  <2>2. QED
    BY <2>1 DEF Inv, TypeOK
<1>5. CASE StartRun \/ ReadMirror
  <2>1. work' = work /\ stage \in {"idle", "mirror"}
    BY <1>5 DEF StartRun, ReadMirror
  <2>2. QED
    BY <2>1 DEF Inv, TypeOK
<1>6. CASE ReadSource \/ EndRun \/ (\E s \in Source : UpstreamMoves(s)) \/ EditPolicy \/ Tick \/ UNCHANGED vars
  BY <1>6 DEF ReadSource, EndRun, UpstreamMoves, EditPolicy, Tick, vars, runVars, readVars
<1>7. CASE Abort
  BY <1>7 DEF Abort, RunDies
<1>8. QED
  BY <1>1, <1>2, <1>3, <1>4, <1>5, <1>6, <1>7 DEF Next, RunStep

\* The items that mark for retention are for tags in excess.
RetainOK == \A i \in work : i.step = "retain" => i.tag \in RetentionExcess(plan, mir, now)

\* A mirrored tag that the run updates designates what the mirror walk saw, or what the run put there.
UpdateOK ==
    stage \in Acting => \A t \in ToPlace(plan, src, mir, now) :
        mir[t] # Absent => tagged[t] \in {mir[t], Placed(t), Stamped(Placed(t), t)}

LEMMA RetainStep ==
  ASSUME Inv, RetainOK, [Next]_vars
  PROVE  RetainOK'
<1> SUFFICES ASSUME NEW i \in work', i.step = "retain"
             PROVE  i.tag \in RetentionExcess(plan, mir, now)'
  BY DEF RetainOK
<1>1. CASE i \in work /\ UNCHANGED <<plans, cur, mir, now>>
  BY <1>1, ExcessStays DEF RetainOK
<1>2. CASE Barrier /\ i.tag \in RetentionExcess(plan, mir, now)
  <2>1. UNCHANGED <<plans, cur, mir, now>>
    BY <1>2 DEF Barrier, readVars
  <2>2. QED
    BY <1>2, <2>1, ExcessStays
<1>3. QED
  BY <1>1, <1>2, RetainWork

LEMMA UpdateItem ==
  ASSUME Apart, Inv, UpdateOK, ItemStep
  PROVE  UpdateOK'
<1>1. ItemShape /\ UNCHANGED <<stage, plans, cur, src, mir, now>>
  BY ItemShapes DEF ItemStep, readVars
<1>2. /\ ToPlace(plan, src, mir, now)' = ToPlace(plan, src, mir, now)
      /\ \A t \in Tag : Placed(t)' = Placed(t) /\ Stamped(Placed(t), t)' = Stamped(Placed(t), t)
  BY <1>1, StillFacts
<1> SUFFICES ASSUME stage \in Acting, NEW t \in ToPlace(plan, src, mir, now), mir[t] # Absent
             PROVE  tagged'[t] \in {mir[t], Placed(t), Stamped(Placed(t), t)}
  <2>1. ToPlace(plan, src, mir, now) \subseteq Tag
    BY PlaceOrKeep, PlanFacts DEF Inv
  <2>2. QED
    BY <1>1, <1>2, <2>1 DEF UpdateOK
<1>3. /\ tagged[t] \in {mir[t], Placed(t), Stamped(Placed(t), t)}
      /\ t \in Tag /\ t \in plan.tags /\ t \in Desired(plan) /\ t \notin DOMAIN plan.alias
  BY PlaceOrKeep, PlanFacts, ApartFacts DEF UpdateOK, Inv, Desired
<1>4. ASSUME NEW i \in work, NEW m, tagged' = [tagged EXCEPT ![i.tag] = m],
             i.tag = t => m \in {Placed(t), Stamped(Placed(t), t)}
      PROVE  tagged'[t] \in {mir[t], Placed(t), Stamped(Placed(t), t)}
  <2>1. tagged'[t] = IF t = i.tag THEN m ELSE tagged[t]
    BY <1>3, <1>4 DEF Inv, TypeOK
  <2>2. QED
    BY <1>3, <1>4, <2>1
<1>5. ASSUME NEW i \in work, PlaceShape(i) \/ StampShape(i)
      PROVE  tagged'[t] \in {mir[t], Placed(t), Stamped(Placed(t), t)}
  BY <1>4, <1>5 DEF PlaceShape, StampShape
<1>6. ASSUME NEW i \in work, AliasShape(i)
      PROVE  tagged'[t] \in {mir[t], Placed(t), Stamped(Placed(t), t)}
  <2>1. i.tag # t
    BY <1>3, <1>6 DEF AliasShape, Inv, WorkOK
  <2>2. QED
    BY <1>4, <1>6, <2>1 DEF AliasShape
<1>7. ASSUME NEW i \in work, DeleteShape(i)
      PROVE  tagged'[t] \in {mir[t], Placed(t), Stamped(Placed(t), t)}
  <2>1. i.tag # t
    BY <1>3, <1>7 DEF DeleteShape, Inv, WorkOK
  <2>2. QED
    BY <1>4, <1>7, <2>1 DEF DeleteShape
<1>8. CASE UNCHANGED tagged
  BY <1>3, <1>8
<1>9. QED
  BY <1>1, <1>5, <1>6, <1>7, <1>8 DEF ItemShape, ClearShape, AttachShape, MarkShape, GiveUpShape

LEMMA UpdateStep ==
  ASSUME Apart, Inv, RunOK, UpdateOK, [Next]_vars
  PROVE  UpdateOK'
<1>1. CASE stage' \notin Acting
  BY <1>1 DEF UpdateOK
<1>2. CASE ItemStep
  BY <1>2, UpdateItem
<1>3. ASSUME stage' \in Acting, UNCHANGED <<tagged, plans, cur, src, mir, now>>,
             \A t \in ToPlace(plan, src, mir, now) :
                 mir[t] # Absent => tagged[t] \in {mir[t], Placed(t), Stamped(Placed(t), t)}
      PROVE  UpdateOK'
  <2>1. /\ ToPlace(plan, src, mir, now)' = ToPlace(plan, src, mir, now)
        /\ \A t \in Tag : Placed(t)' = Placed(t) /\ Stamped(Placed(t), t)' = Stamped(Placed(t), t)
        /\ ToPlace(plan, src, mir, now) \subseteq Tag
    BY <1>3, StillFacts, PlaceOrKeep, PlanFacts DEF Inv
  <2>2. QED
    BY <1>3, <2>1 DEF UpdateOK
<1>4. CASE ReadMarks
  <2>1. stage = "marks" /\ stage' \in Acting /\ UNCHANGED <<tagged, plans, cur, src, mir, now>>
    BY <1>4 DEF ReadMarks, repoVars, Acting
  <2>2. ASSUME NEW t \in ToPlace(plan, src, mir, now), mir[t] # Absent
        PROVE  tagged[t] = mir[t]
    <3>1. t \in Tag
      BY PlaceOrKeep, PlanFacts DEF Inv
    <3>2. mir[t] = MirrorOf(tagged[t])
      BY <2>1, <3>1 DEF RunOK
    <3>3. QED
      BY <2>2, <3>2 DEF MirrorOf
  <2>3. QED
    BY <1>3, <2>1, <2>2
<1>5. CASE Barrier
  <2>1. stage \in Acting /\ stage' \in Acting /\ UNCHANGED <<tagged, plans, cur, src, mir, now>>
    BY <1>5, BarrierFacts DEF Barrier, repoVars, readVars, Acting
  <2>2. QED
    BY <1>3, <2>1 DEF UpdateOK
<1>6. CASE EndImport /\ cur = Imports
  <2>1. stage \in Acting /\ stage' \in Acting /\ UNCHANGED <<tagged, plans, cur, src, mir, now>>
    BY <1>6 DEF EndImport, repoVars, Acting
  <2>2. QED
    BY <1>3, <2>1 DEF UpdateOK
<1>7. CASE EndImport /\ cur # Imports
  BY <1>1, <1>7 DEF EndImport, Acting
<1>8. CASE StartRun \/ ReadSource \/ ReadMirror \/ EndRun \/ Abort
  BY <1>1, <1>8 DEF StartRun, ReadSource, ReadMirror, EndRun, Abort, RunDies, Acting
<1>9. CASE UNCHANGED vars \/ (\E s \in Source : UpstreamMoves(s)) \/ EditPolicy \/ Tick
  <2>1. UNCHANGED <<stage, tagged, plans, cur, src, mir, now>>
    BY <1>9 DEF UpstreamMoves, EditPolicy, Tick, vars, runVars, readVars, repoVars
  <2>2. QED
    BY <1>1, <1>3, <2>1 DEF UpdateOK
<1>10. QED
  BY <1>2, <1>4, <1>5, <1>6, <1>7, <1>8, <1>9 DEF Next, RunStep

LEMMA JudgedAlways == ASSUME Apart PROVE Spec => [](Inv /\ RunOK /\ RetainOK /\ UpdateOK)
<1>1. Init => RetainOK /\ UpdateOK
  BY DEF Init, RetainOK, UpdateOK, Acting
<1>2. Inv /\ RetainOK /\ [Next]_vars => RetainOK'
  BY RetainStep
<1>3. Inv /\ RunOK /\ UpdateOK /\ [Next]_vars => UpdateOK'
  BY UpdateStep
<1>4. QED
  BY <1>1, <1>2, <1>3, RunAlways, PTL DEF Spec

\* A new retention mark is that of an item, on what its tag designates.
LEMMA NewRetainMark ==
  ASSUME [Next]_vars, NEW m \in marks' \ marks, m.reason = "retention-excess"
  PROVE  \E i \in work : /\ ItemStep /\ PutMark(i) /\ i.step = "retain"
                         /\ m.of = tagged[i.tag] /\ tagged[i.tag] # Absent
<1>1. PICK i \in work : ItemStep /\ PutMark(i)
  BY MarksMove DEF ClearMark
<1>2. /\ m = [of |-> tagged[i.tag], reason |-> IF i.step = "mark" THEN "dropped-from-selection" ELSE "retention-excess"]
      /\ i.step \in {"mark", "retain"} /\ tagged[i.tag] # Absent
  BY <1>1 DEF PutMark
<1>3. i.step = "retain" /\ m.of = tagged[i.tag]
  BY <1>2
<1>4. QED
  BY <1>1, <1>2, <1>3

(***************************************************************************)
(* A retention mark falls on a manifest that the run saw under a selected  *)
(* tag and that was imported longer ago than the archive rule's age, or on *)
(* what the run itself placed over such a one (RetentionMarksJudged),      *)
(* however upstream, policies and failures interleave.                     *)
(***************************************************************************)
THEOREM MarksAreJudged ==
  ASSUME Apart
  PROVE  Spec => RetentionMarksJudged
<1>1. Inv /\ RunOK /\ RetainOK /\ UpdateOK /\ [Next]_vars
          => [\A m \in marks' \ marks : m.reason = "retention-excess" => JudgedOld(m)]_vars
  <2> SUFFICES ASSUME Inv, RunOK, RetainOK, UpdateOK, [Next]_vars,
                      NEW m \in marks' \ marks, m.reason = "retention-excess"
               PROVE  JudgedOld(m)
    OBVIOUS
  <2>1. PICK i \in work : i.step = "retain" /\ m.of = tagged[i.tag]
    BY NewRetainMark
  <2> DEFINE t == i.tag
  <2>2. stage \in Acting /\ t \in RetentionExcess(plan, mir, now)
    BY <2>1 DEF Inv, TypeOK, Acting, RetainOK
  <2>3. t \in plan.tags /\ mir[t] # Absent /\ now - mir[t].at > OlderThan
    BY <2>2, ExcessFacts DEF Inv
  <2>4. CASE t \in ToKeep(plan, src, mir, now)
    <3>1. tagged[t] = mir[t]
      BY <2>2, <2>4 DEF RunOK
    <3>2. QED
      BY <2>1, <2>3, <3>1 DEF JudgedOld
  <2>5. CASE t \in ToPlace(plan, src, mir, now)
    <3>1. tagged[t] \in {mir[t], Placed(t), Stamped(Placed(t), t)}
      BY <2>2, <2>3, <2>5 DEF UpdateOK
    <3>2. QED
      BY <2>1, <2>3, <2>5, <3>1 DEF JudgedOld
  <2>6. QED
    BY <2>3, <2>4, <2>5, PlaceOrKeep
<1>2. QED
  BY <1>1, JudgedAlways, PTL DEF Spec, RetentionMarksJudged

RetainMarks(t) == {m \in marks : m.of = tagged[t] /\ m.reason = "retention-excess"}

\* The tags that the run keeps and that the archive rule spares.
Spared == ToKeep(plan, src, mir, now) \ RetentionExcess(plan, mir, now)

\* The retention marks on a spared tag are those the run read, it clears them, and they are gone.
SpareOK ==
    /\ stage \in {"import", "sign", "sbom", "alias", "delete", "retain"} =>
           \A t \in Spared : RetainMarks(t) \subseteq marked[t]
    /\ stage = "unmark" /\ clean => \A t \in Spared : RetainMarks(t) \subseteq clearing
    /\ stage = "report" /\ clean => \A t \in Spared : RetainMarks(t) = {}

\* A tag that is no alias name designates no manifest that was stamped for another tag.
NameOK == \A t \in Tag \ AliasNames : tagged[t] # Absent => tagged[t].name \in {0, t}

\* Nothing was stamped after the run began.
TimesOK ==
    /\ now <= clock
    /\ \A t \in Tag : tagged[t] # Absent => tagged[t].at <= now
    /\ \A m \in marks : m.of.at <= now

\* A retention mark on what this run has stamped is this run's, on a tag it found in excess.
ThisRunOK ==
    stage # "idle" => \A m \in marks : m.reason = "retention-excess" =>
        \/ m.of.at < now
        \/ /\ stage \in {"retain", "unmark", "report"}
           /\ \E u \in RetentionExcess(plan, mir, now) : tagged[u] = m.of

LEMMA NameStep ==
  ASSUME NamesApart, Inv, NameOK, [Next]_vars
  PROVE  NameOK'
<1>1. CASE ItemStep
  <2>1. ItemShape
    BY <1>1, ItemShapes
  <2>2. ASSUME NEW t \in Tag, NEW m, tagged' = [tagged EXCEPT ![t] = m],
               t \notin AliasNames /\ m # Absent => m.name \in {0, t}
        PROVE  NameOK'
    <3>1. \A u \in Tag : tagged'[u] = IF u = t THEN m ELSE tagged[u]
      BY <2>2 DEF Inv, TypeOK
    <3>2. QED
      BY <2>2, <3>1 DEF NameOK
  <2>3. ASSUME NEW i \in work
        PROVE  i.tag \in Tag /\ Placed(i.tag).name = 0 /\ Stamped(Placed(i.tag), i.tag).name = i.tag
    <3>1. i.tag \in Tag
      BY DEF Inv, TypeOK, Items
    <3>2. QED
      BY <3>1, PlacedFacts DEF Inv
  <2>4. ASSUME NEW i \in work, PlaceShape(i)
        PROVE  NameOK'
    BY <2>2, <2>3, <2>4 DEF PlaceShape
  <2>5. ASSUME NEW i \in work, StampShape(i)
        PROVE  NameOK'
    BY <2>2, <2>3, <2>5 DEF StampShape
  <2>6. ASSUME NEW i \in work, AliasShape(i)
        PROVE  NameOK'
    <3>1. i.tag \in AliasNames
      BY <2>6, NamesFacts DEF AliasShape, Inv, WorkOK
    <3>2. QED
      BY <2>2, <2>3, <2>6, <3>1 DEF AliasShape
  <2>7. ASSUME NEW i \in work, DeleteShape(i)
        PROVE  NameOK'
    BY <2>2, <2>3, <2>7 DEF DeleteShape
  <2>8. CASE UNCHANGED tagged
    BY <2>8 DEF NameOK
  <2>9. QED
    BY <2>1, <2>4, <2>5, <2>6, <2>7, <2>8 DEF ItemShape, ClearShape, AttachShape, MarkShape, GiveUpShape
<1>2. CASE ~ItemStep
  <2>1. UNCHANGED tagged
    BY <1>2 DEF Next, RunStep, StartRun, ReadSource, ReadMirror, ReadMarks, Barrier, EndImport, EndRun, Abort, RunDies,
                UpstreamMoves, EditPolicy, Tick, vars, repoVars
  <2>2. QED
    BY <2>1 DEF NameOK
<1>3. QED
  BY <1>1, <1>2

LEMMA PlacedTimes ==
  ASSUME TypeOK, NEW t \in Tag
  PROVE  Placed(t).at = 0 /\ Stamped(Placed(t), t).at = now
<1> DEFINE p == Placed(t)
<1>1. p \in Manifest
  BY PlacedFacts
<1>2. DOMAIN p = {"content", "built", "base", "version", "name", "at"}
  BY <1>1 DEF Manifest
<1>3. p.at = 0
  BY DEF Placed, CopyOf, BuildOf
<1> HIDE DEF p
<1>4. [p EXCEPT !.base = src[SourceOf[t]].digest, !.version = VersionOf(plan, t), !.name = t, !.at = now].at = now
  BY <1>2
<1>5. QED
  BY <1>3, <1>4 DEF Stamped, p

LEMMA TimesStep ==
  ASSUME Inv, TimesOK, [Next]_vars
  PROVE  TimesOK'
<1>1. /\ now \in Nat /\ clock \in Nat /\ now <= clock
      /\ \A t \in Tag : tagged[t] # Absent => tagged[t].at \in Nat /\ tagged[t].at <= now
      /\ \A m \in marks : m.of.at \in Nat /\ m.of.at <= now
  <2>1. now \in Nat /\ clock \in Nat
    BY ReconcileAssumption DEF Inv, TypeOK
  <2>2. \A t \in Tag : tagged[t] # Absent => tagged[t] \in Manifest
    BY DEF Inv, TypeOK
  <2>3. \A m \in marks : m.of \in Manifest
    BY DEF Inv, TypeOK, Mark
  <2>4. \A x \in Manifest : x.at \in Nat
    BY DEF Manifest
  <2>5. QED
    BY <2>1, <2>2, <2>3, <2>4 DEF TimesOK
<1>2. CASE StartRun
  <2>1. now' = clock /\ UNCHANGED <<clock, tagged, marks>>
    BY <1>2 DEF StartRun, worldVars, repoVars
  <2>2. QED
    BY <1>1, <2>1 DEF TimesOK
<1>3. CASE Tick
  <2>1. clock' = clock + 1 /\ UNCHANGED <<now, tagged, marks>>
    BY <1>3 DEF Tick, repoVars, runVars, readVars
  <2>2. QED
    BY <1>1, <2>1 DEF TimesOK
<1>4. CASE ItemStep
  <2>1. ItemShape /\ UNCHANGED <<now, clock>>
    BY <1>4, ItemShapes DEF ItemStep, readVars, worldVars
  <2>2. ASSUME NEW t \in Tag, NEW x, tagged' = [tagged EXCEPT ![t] = x], x # Absent => x.at <= now, marks' = marks
        PROVE  TimesOK'
    <3>1. \A u \in Tag : tagged'[u] = IF u = t THEN x ELSE tagged[u]
      BY <2>2 DEF Inv, TypeOK
    <3>2. QED
      BY <1>1, <2>1, <2>2, <3>1 DEF TimesOK
  <2>3. ASSUME NEW i \in work
        PROVE  i.tag \in Tag /\ Placed(i.tag).at <= now /\ Stamped(Placed(i.tag), i.tag).at <= now
    <3>1. i.tag \in Tag
      BY DEF Inv, TypeOK, Items
    <3>2. Placed(i.tag).at = 0 /\ Stamped(Placed(i.tag), i.tag).at = now
      BY <3>1, PlacedTimes DEF Inv
    <3>3. QED
      BY <1>1, <3>1, <3>2
  <2>4. ASSUME NEW i \in work, PlaceShape(i)
        PROVE  TimesOK'
    BY <2>2, <2>3, <2>4 DEF PlaceShape
  <2>5. ASSUME NEW i \in work, StampShape(i)
        PROVE  TimesOK'
    BY <2>2, <2>3, <2>5 DEF StampShape
  <2>6. ASSUME NEW i \in work, AliasShape(i)
        PROVE  TimesOK'
    <3>1. i.tag \in DOMAIN plan.alias
      BY <2>6 DEF AliasShape, Inv, WorkOK
    <3>2. plan.alias[i.tag] \in Tag
      BY <3>1, PlanFacts DEF Inv
    <3>3. QED
      BY <1>1, <2>2, <2>3, <2>6, <3>2 DEF AliasShape
  <2>7. ASSUME NEW i \in work, DeleteShape(i)
        PROVE  TimesOK'
    BY <2>2, <2>3, <2>7 DEF DeleteShape
  <2>8. ASSUME NEW i \in work, MarkShape(i)
        PROVE  TimesOK'
    <3>1. tagged' = tagged /\ tagged[i.tag] # Absent /\ i.tag \in Tag
      BY <2>3, <2>8 DEF MarkShape
    <3>2. \A m \in marks' : m \in marks \/ m.of = tagged[i.tag]
      BY <2>8 DEF MarkShape
    <3>3. QED
      BY <1>1, <2>1, <3>1, <3>2 DEF TimesOK
  <2>9. CASE tagged' = tagged /\ marks' \subseteq marks
    BY <1>1, <2>1, <2>9 DEF TimesOK
  <2>10. QED
    BY <2>1, <2>4, <2>5, <2>6, <2>7, <2>8, <2>9 DEF ItemShape, ClearShape, AttachShape, GiveUpShape
<1>5. CASE ~StartRun /\ ~Tick /\ ~ItemStep
  <2>1. UNCHANGED <<now, clock, tagged, marks>>
    BY <1>5 DEF Next, RunStep, ReadSource, ReadMirror, ReadMarks, Barrier, EndImport, EndRun, Abort, RunDies,
                UpstreamMoves, EditPolicy, vars, worldVars, repoVars, runVars, readVars
  <2>2. QED
    BY <1>1, <2>1 DEF TimesOK
<1>6. QED
  BY <1>2, <1>3, <1>4, <1>5

\* The stages in which marks for retention are put or already there.
Retaining == {"retain", "unmark", "report"}

LEMMA ThisRunStep ==
  ASSUME Imports = 1, Inv, TimesOK, RetainOK, ThisRunOK, [Next]_vars, StartRun => now < clock
  PROVE  ThisRunOK'
<1>1. now \in Nat /\ \A m \in marks : m.of.at \in Nat
  <2>1. \A m \in marks : m.of \in Manifest
    BY DEF Inv, TypeOK, Mark
  <2>2. QED
    BY <2>1, ReconcileAssumption DEF Inv, TypeOK, Manifest
<1>2. CASE StartRun
  <2>1. now' = clock /\ UNCHANGED marks /\ now < clock /\ clock \in Nat
    BY <1>2, ReconcileAssumption DEF StartRun, repoVars, Inv, TypeOK
  <2>2. \A m \in marks : m.of.at < now'
    BY <1>1, <2>1 DEF TimesOK
  <2>3. QED
    BY <2>1, <2>2 DEF ThisRunOK
<1>3. ASSUME UNCHANGED <<plans, cur, mir, now, tagged>>, stage # "idle", stage \in Retaining => stage' \in Retaining,
             NEW m \in marks, m.reason = "retention-excess"
      PROVE  \/ m.of.at < now'
             \/ /\ stage' \in {"retain", "unmark", "report"}
                /\ \E u \in RetentionExcess(plan, mir, now)' : tagged'[u] = m.of
  BY <1>3, ExcessStays DEF ThisRunOK, Retaining
<1>4. CASE ItemStep /\ stage \in Retaining
  <2>1. ItemShape /\ UNCHANGED <<stage, plans, cur, mir, now>> /\ stage # "idle"
    BY <1>4, ItemShapes DEF ItemStep, readVars, Retaining
  <2>2. UNCHANGED tagged
    BY <1>4, <2>1 DEF ItemShape, PlaceShape, StampShape, AttachShape, AliasShape, DeleteShape, MarkShape, GiveUpShape,
                      ClearShape, Retaining
  <2>3. ASSUME NEW m \in marks' \ marks, m.reason = "retention-excess"
        PROVE  \E u \in RetentionExcess(plan, mir, now) : tagged[u] = m.of
    <3>1. PICK i \in work : i.step = "retain" /\ m.of = tagged[i.tag]
      BY <2>3, NewRetainMark
    <3>2. QED
      BY <3>1 DEF RetainOK
  <2>4. RetentionExcess(plan, mir, now)' = RetentionExcess(plan, mir, now)
    BY <2>1, ExcessStays
  <2>5. ASSUME NEW m \in marks', m.reason = "retention-excess"
        PROVE  \/ m.of.at < now'
               \/ /\ stage' \in {"retain", "unmark", "report"}
                  /\ \E u \in RetentionExcess(plan, mir, now)' : tagged'[u] = m.of
    <3>1. CASE m \in marks
      BY <1>3, <2>1, <2>2, <2>5, <3>1
    <3>2. CASE m \notin marks
      BY <1>4, <2>1, <2>2, <2>3, <2>4, <2>5, <3>2 DEF Retaining
    <3>3. QED
      BY <3>1, <3>2
  <2>6. QED
    BY <2>5 DEF ThisRunOK
<1>5. CASE ItemStep /\ stage \notin Retaining
  <2>1. UNCHANGED <<stage, now>> /\ work # {} /\ stage # "idle" /\ stage \in DOMAIN StepsIn
    <3>1. clearing = {}
      BY <1>5 DEF Inv, TypeOK, Retaining
    <3>2. work # {}
      BY <1>5, <3>1 DEF ItemStep
    <3>3. QED
      BY <1>5, <3>2 DEF ItemStep, readVars, Inv, TypeOK, StepsIn
  <2>2. ASSUME NEW m \in marks', m.reason = "retention-excess"
        PROVE  m \in marks
    <3> SUFFICES ASSUME m \notin marks PROVE FALSE
      OBVIOUS
    <3>1. PICK i \in work : i.step = "retain"
      BY <2>2, NewRetainMark
    <3>2. i.step \in StepsIn[stage]
      BY DEF Inv, WorkOK
    <3>3. QED
      BY <1>5, <2>1, <3>1, <3>2 DEF StepsIn, Retaining
  <2>3. \A m \in marks : m.reason = "retention-excess" => m.of.at < now
    BY <1>5, <2>1 DEF ThisRunOK, Retaining
  <2>4. QED
    BY <2>1, <2>2, <2>3 DEF ThisRunOK
<1>6. CASE stage' = "idle"
  BY <1>6 DEF ThisRunOK
<1>7. CASE ReadSource \/ ReadMirror \/ ReadMarks
  <2>1. /\ UNCHANGED <<marks, now>> /\ stage \in {"source", "mirror", "marks"}
    BY <1>7 DEF ReadSource, ReadMirror, ReadMarks, repoVars
  <2>2. \A m \in marks : m.reason = "retention-excess" => m.of.at < now
    BY <2>1 DEF ThisRunOK
  <2>3. QED
    BY <2>1, <2>2 DEF ThisRunOK
<1>8. CASE Barrier \/ EndImport \/ UNCHANGED vars \/ (\E s \in Source : UpstreamMoves(s)) \/ EditPolicy \/ Tick
  <2>1. UNCHANGED <<plans, cur, mir, now, tagged, marks>> /\ (stage \in Retaining => stage' \in Retaining)
        /\ (stage = "idle" => stage' = "idle")
    <3>1. CASE Barrier
      BY <3>1, BarrierFacts DEF Barrier, repoVars, readVars, Retaining, StageAfter
    <3>2. CASE EndImport
      <4>1. cur = Imports
        BY DEF Inv, TypeOK
      <4>2. QED
        BY <3>2, <4>1 DEF EndImport, repoVars, Retaining
    <3>3. CASE UNCHANGED vars \/ (\E s \in Source : UpstreamMoves(s)) \/ EditPolicy \/ Tick
      BY <3>3 DEF UpstreamMoves, EditPolicy, Tick, vars, runVars, readVars, repoVars
    <3>4. QED
      BY <1>8, <3>1, <3>2, <3>3
  <2>2. CASE stage # "idle"
    BY <1>3, <2>1, <2>2 DEF ThisRunOK
  <2>3. QED
    BY <1>6, <2>1, <2>2
<1>9. CASE EndRun \/ Abort
  BY <1>6, <1>9 DEF EndRun, Abort, RunDies
<1>10. QED
  BY <1>2, <1>4, <1>5, <1>7, <1>8, <1>9 DEF Next, RunStep

LEMMA SpareItem ==
  ASSUME NamesApart, ~ForeignStamp, Inv, RunOK, RetainOK, NameOK, SpareOK, ItemStep
  PROVE  SpareOK'
<1>1. /\ ItemShape /\ UNCHANGED <<stage, plans, cur, src, mir, now, marked>> /\ stage \in Acting
      /\ stage # "report"
  BY ItemShapes DEF ItemStep, readVars, Inv, TypeOK, Acting
<1>2. RunOK' /\ Apart
  BY RunItem, NamesFacts
<1>3. /\ Spared' = Spared
      /\ \A t \in Spared : t \in plan.tags /\ t \in Tag /\ t \notin AliasNames
                           /\ tagged'[t] = tagged[t] /\ tagged[t] # Absent
                           /\ t \notin RetentionExcess(plan, mir, now)
  <2>1. /\ ToKeep(plan, src, mir, now)' = ToKeep(plan, src, mir, now)
        /\ RetentionExcess(plan, mir, now)' = RetentionExcess(plan, mir, now)
    BY <1>1, StillFacts, ExcessStays
  <2>2. ASSUME NEW t \in ToKeep(plan, src, mir, now)
        PROVE  t \in plan.tags /\ t \in Tag /\ t \notin AliasNames /\ tagged'[t] = tagged[t] /\ tagged[t] # Absent
    <3>1. t \in plan.tags /\ mir[t] # Absent
      BY KeptFacts
    <3>2. tagged[t] = mir[t] /\ tagged'[t] = mir'[t]
      BY <1>1, <1>2, <2>1 DEF RunOK
    <3>3. t \in Tag /\ t \notin AliasNames
      BY <3>1, PlanFacts, NamesFacts DEF Inv
    <3>4. QED
      BY <1>1, <3>1, <3>2, <3>3
  <2>3. QED
    BY <2>1, <2>2 DEF Spared
<1>4. ASSUME NEW i \in work, PutMark(i), NEW t \in Spared
      PROVE  RetainMarks(t)' \subseteq RetainMarks(t)
  <2> SUFFICES ASSUME NEW m \in marks', m.of = tagged[t], m.reason = "retention-excess", m \notin marks
               PROVE  FALSE
    BY <1>3 DEF RetainMarks
  <2>1. m = [of |-> tagged[i.tag], reason |-> IF i.step = "mark" THEN "dropped-from-selection" ELSE "retention-excess"]
        /\ i.step \in {"mark", "retain"} /\ tagged[i.tag] # Absent
    BY <1>4 DEF PutMark
  <2>2. i.step = "retain" /\ m.of = tagged[i.tag]
    BY <2>1
  <2>3. i.tag \in RetentionExcess(plan, mir, now)
    BY <2>2 DEF RetainOK
  <2>4. i.tag \in Tag /\ i.tag \notin AliasNames /\ i.tag # t
    BY <1>3, <2>3, ExcessFacts, NamesFacts DEF Inv
  <2>5. tagged[i.tag].name \in {0, i.tag} /\ tagged[t].name \in {0, t} /\ t # 0 /\ i.tag # 0
    BY <1>3, <2>1, <2>4, PlanAssumption DEF NameOK
  <2>6. CASE tagged[t].name = 0
    <3>1. tagged[t].base = NoBase
      BY <1>3, <2>6 DEF Inv, BaseOK
    <3>2. tagged[t] = mir[t] /\ mir[t].base # NoBase
      BY <1>1 DEF RunOK, Spared
    <3>3. QED
      BY <3>1, <3>2
  <2>7. QED
    BY <2>2, <2>4, <2>5, <2>6
<1>5. ASSUME NEW m \in clearing, ClearMark(m), NEW t \in Spared, clean'
      PROVE  /\ RetainMarks(t)' \subseteq RetainMarks(t) \ {m}
             /\ clearing' = clearing \ {m} /\ clean
  <2>1. clearing' = clearing \ {m} /\ marks' = marks \ {m} /\ UNCHANGED clean
    BY <1>5 DEF ClearMark
  <2>2. QED
    BY <1>3, <1>5, <2>1 DEF RetainMarks
<1>6. CASE stage = "unmark"
  <2>1. work = {}
    BY <1>6 DEF Inv, TypeOK
  <2>2. PICK m \in clearing : ClearMark(m)
    BY <2>1 DEF ItemStep
  <2>3. ASSUME clean', NEW t \in Spared
        PROVE  RetainMarks(t)' \subseteq clearing'
    BY <1>5, <1>6, <2>2, <2>3 DEF SpareOK
  <2>4. QED
    BY <1>1, <1>3, <1>6, <2>3 DEF SpareOK
<1>7. CASE stage # "unmark"
  <2>1. clearing = {}
    BY <1>7 DEF Inv, TypeOK
  <2>2. UNCHANGED marks \/ \E i \in work : PutMark(i)
    BY <2>1, MarksMove DEF Next, RunStep
  <2>3. \A t \in Spared : RetainMarks(t)' \subseteq RetainMarks(t)
    <3>1. CASE UNCHANGED marks
      BY <1>3, <3>1 DEF RetainMarks
    <3>2. QED
      BY <1>4, <2>2, <3>1
  <2>4. QED
    BY <1>1, <1>3, <1>7, <2>3 DEF SpareOK
<1>8. QED
  BY <1>6, <1>7

LEMMA SpareStep ==
  ASSUME NamesApart, ~ForeignStamp, Inv, RunOK, RetainOK, NameOK, SpareOK, [Next]_vars
  PROVE  SpareOK'
<1> DEFINE Before == {"import", "sign", "sbom", "alias", "delete", "retain"}
<1>1. CASE stage' \notin Before \cup {"unmark", "report"}
  BY <1>1 DEF SpareOK
<1>2. CASE ItemStep
  BY <1>2, SpareItem
\* Nothing that this is about changes but the stage.
<1>3. ASSUME UNCHANGED <<plans, cur, src, mir, now, tagged, marks, marked>>
      PROVE  Spared' = Spared /\ \A t : RetainMarks(t)' = RetainMarks(t)
  <2>1. /\ ToKeep(plan, src, mir, now)' = ToKeep(plan, src, mir, now)
        /\ RetentionExcess(plan, mir, now)' = RetentionExcess(plan, mir, now)
    BY <1>3, StillFacts, ExcessStays
  <2>2. QED
    BY <1>3, <2>1 DEF Spared, RetainMarks
<1>4. CASE ReadMarks
  <2>1. /\ stage = "marks" /\ stage' = "import" /\ UNCHANGED <<tagged, marks, plans, cur, src, mir, now>>
        /\ marked' = [t \in Tag |-> IF t \in Mirrored(mir) THEN {m \in marks : m.of = tagged[t]} ELSE {}]
    BY <1>4 DEF ReadMarks, repoVars
  <2>2. ToKeep(plan, src, mir, now)' = ToKeep(plan, src, mir, now)
    BY <2>1, StillFacts
  <2>3. ASSUME NEW t \in ToKeep(plan, src, mir, now)
        PROVE  RetainMarks(t)' \subseteq marked'[t]
    <3>1. t \in Tag /\ mir[t] # Absent
      BY KeptFacts, PlanFacts DEF Inv
    <3>2. marked'[t] = {m \in marks : m.of = tagged[t]}
      BY <2>1, <3>1 DEF Mirrored
    <3>3. QED
      BY <2>1, <3>2 DEF RetainMarks
  <2>4. QED
    BY <2>1, <2>2, <2>3 DEF SpareOK, Spared
<1>5. CASE Barrier
  <2>1. /\ UNCHANGED <<plans, cur, src, mir, now, tagged, marks, marked, clean>>
        /\ clearing' = IF stage' = "unmark" THEN ToUnmark ELSE {}
        /\ stage \in Before /\ stage' \in (Before \ {"import"}) \cup {"unmark"}
    BY <1>5, BarrierFacts DEF Barrier, repoVars, readVars
  <2>2. CASE stage' # "unmark"
    BY <1>3, <2>1, <2>2 DEF SpareOK
  <2>3. CASE stage' = "unmark"
    <3>1. ASSUME NEW t \in Spared, NEW m \in RetainMarks(t)
          PROVE  m \in ToUnmark
      <4>1. m \in marked[t] /\ m.reason = "retention-excess"
        BY <2>1, <3>1 DEF SpareOK, RetainMarks
      <4>2. t \in Tag /\ mir[t] # Absent /\ t \notin RetentionExcess(plan, mir, now)
        BY <3>1, KeptFacts, PlanFacts DEF Inv, Spared
      <4>3. t \in MarkedFor("retention-excess") \ RetentionExcess(plan, mir, now)
        BY <4>1, <4>2 DEF MarkedFor, Mirrored
      <4>4. QED
        BY <4>1, <4>3 DEF ToUnmark
    <3>2. QED
      BY <1>3, <2>1, <2>3, <3>1 DEF SpareOK
  <2>4. QED
    BY <2>2, <2>3
<1>6. CASE EndImport
  <2>1. CASE cur = Imports
    <3>1. /\ UNCHANGED <<plans, cur, src, mir, now, tagged, marks, marked, clean>> /\ clearing = {}
          /\ stage = "unmark" /\ stage' = "report"
      BY <1>6, <2>1 DEF EndImport, repoVars
    <3>2. clean => \A t \in Spared : RetainMarks(t) = {}
      BY <3>1 DEF SpareOK
    <3>3. QED
      BY <1>3, <3>1, <3>2 DEF SpareOK
  <2>2. CASE cur # Imports
    BY <1>1, <1>6, <2>2 DEF EndImport
  <2>3. QED
    BY <2>1, <2>2
<1>7. CASE UNCHANGED vars \/ (\E s \in Source : UpstreamMoves(s)) \/ EditPolicy \/ Tick
  <2>1. UNCHANGED <<stage, plans, cur, src, mir, now, tagged, marks, marked, clearing, clean>>
    BY <1>7 DEF UpstreamMoves, EditPolicy, Tick, vars, runVars, readVars, repoVars
  <2>2. QED
    BY <1>3, <2>1 DEF SpareOK
<1>8. CASE StartRun \/ ReadSource \/ ReadMirror \/ EndRun \/ Abort
  BY <1>1, <1>8 DEF StartRun, ReadSource, ReadMirror, EndRun, Abort, RunDies
<1>9. QED
  BY <1>2, <1>4, <1>5, <1>6, <1>7, <1>8 DEF Next, RunStep

\* After a clean run, only what is in excess carries the retention mark.
LEMMA HitsAreExcess ==
  ASSUME NamesApart, Inv, RunOK, NameOK, ThisRunOK, SpareOK, CleanReport, NEW t \in plan.tags,
         NEW m \in marks, m.of = tagged[t], m.reason = "retention-excess"
  PROVE  t \in RetentionExcess(plan, mir, now)
<1>1. t \in Tag /\ stage \in Acting /\ now \in Nat
  BY PlanFacts, ReconcileAssumption DEF CleanReport, Acting, Inv, TypeOK
<1>2. CASE t \in ToPlace(plan, src, mir, now)
  <2>1. tagged[t] = Stamped(Placed(t), t)
    BY <1>1, <1>2 DEF RunOK, CleanReport, Fresh
  <2>2. tagged[t].at = now /\ tagged[t].name = t
    BY <1>1, <2>1, PlacedFacts, PlacedTimes DEF Inv
  <2>3. ~(m.of.at < now)
    BY <1>1, <2>2
  <2>4. PICK u \in RetentionExcess(plan, mir, now) : tagged[u] = m.of
    BY <2>3 DEF ThisRunOK, CleanReport
  <2>5. u \in Tag /\ u \notin AliasNames
    BY ExcessFacts, NamesFacts DEF Inv
  <2>6. tagged[t] # Absent /\ t # 0
    BY <1>1, <2>1, PlacedFacts, PlanAssumption DEF Inv
  <2>7. tagged[u].name \in {0, u}
    BY <2>4, <2>5, <2>6 DEF NameOK
  <2>8. QED
    BY <2>2, <2>4, <2>6, <2>7
<1>3. CASE t \in ToKeep(plan, src, mir, now)
  BY <1>3 DEF SpareOK, CleanReport, Spared, RetainMarks
<1>4. QED
  BY <1>2, <1>3, PlaceOrKeep

(***************************************************************************)
(* When a clean run reports, the archive rule has spared the alias targets *)
(* and as many tags of each variant as it keeps, whatever earlier runs     *)
(* under other rules marked (RetentionSpares), where no two runs start at  *)
(* the same time: a stamp tells the runs apart by nothing but their times. *)
(* One import feeds the repository, upstream images carry no base digest   *)
(* of their own, and no alias is named like a tag that the import selects: *)
(* otherwise two tags can share the manifest that one of them has marked.  *)
(***************************************************************************)
THEOREM CleanRunsSpare ==
  ASSUME Imports = 1, NamesApart, ~ForeignStamp
  PROVE  Spec /\ [][StartRun => now < clock]_vars => []RetentionSpares
<1>1. Init => NameOK /\ SpareOK /\ ThisRunOK /\ TimesOK /\ RetainOK
  <2> SUFFICES ASSUME Init PROVE TimesOK
    BY DEF Init, NameOK, SpareOK, ThisRunOK, RetainOK
  <2>1. now = 0 /\ clock = Grace /\ marks = {} /\ \A t \in Tag : tagged[t] = Absent
    BY DEF Init
  <2>2. QED
    BY <2>1, PlanAssumption DEF TimesOK
<1>2. Inv /\ NameOK /\ [Next]_vars => NameOK'
  BY NameStep
<1>3. Inv /\ RunOK /\ RetainOK /\ NameOK /\ SpareOK /\ [Next]_vars => SpareOK'
  BY SpareStep
<1>4. Inv /\ RunOK /\ NameOK /\ ThisRunOK /\ SpareOK => RetentionSpares
  <2> SUFFICES ASSUME Inv, RunOK, NameOK, ThisRunOK, SpareOK, CleanReport, NEW v \in Variant
               PROVE  LET ours   == {t \in plan.tags : VariantOf[t] = v}
                          hit(t) == \E m \in marks : m.of = tagged[t] /\ m.reason = "retention-excess"
                          spared == {t \in ours : ~hit(t)}
                      IN  /\ \A a \in DOMAIN plan.alias : plan.alias[a] \in ours => plan.alias[a] \in spared
                          /\ spared = ours \/ Cardinality(spared) >= plan.keep
    BY DEF RetentionSpares
  <2> DEFINE ours   == {t \in plan.tags : VariantOf[t] = v}
             hit(t) == \E m \in marks : m.of = tagged[t] /\ m.reason = "retention-excess"
             spared == {t \in ours : ~hit(t)}
             C      == RetentionCandidates(plan, mir, v)
             imp    == [u \in C |-> mir[u].at]
             X      == Excess(imp, plan.keep, now)
  <2>1. TypeOK /\ plan.tags \subseteq Tag /\ plan.keep \in Nat /\ IsFiniteSet(Tag)
    <3>1. TypeOK /\ plan \in Plan
      BY PlanFacts DEF Inv
    <3>2. plan.keep \in Nat
      BY <3>1 DEF Plan
    <3>3. QED
      BY <3>1, <3>2, PlanFacts, PlanAssumption
  <2>2. ASSUME NEW t \in ours, hit(t)
        PROVE  t \in RetentionExcess(plan, mir, now)
    BY <2>2, HitsAreExcess
  <2>3. \A a \in DOMAIN plan.alias : plan.alias[a] \in ours => plan.alias[a] \in spared
    BY <2>1, <2>2, ExcessFacts
  <2>4. \A t \in ours : hit(t) => t \in X
    <3>1. ASSUME NEW t \in ours, hit(t)
          PROVE  t \in Excess([u \in RetentionCandidates(plan, mir, VariantOf[t]) |-> mir[u].at], plan.keep, now)
      BY <2>1, <2>2, <3>1, ExcessFacts
    <3>2. QED
      BY <3>1
  <2>5. C \in SUBSET Tag /\ imp \in [C -> Nat] /\ C \subseteq ours
    <3>1. C \subseteq ours /\ \A u \in C : mir[u] # Absent
      BY DEF RetentionCandidates, Mirrored
    <3>2. \A u \in C : mir[u] \in Manifest
      BY <2>1, <3>1 DEF TypeOK
    <3>3. \A u \in C : mir[u].at \in Nat
      BY <3>2 DEF Manifest
    <3>4. C \subseteq Tag
      BY <2>1, <3>1
    <3>5. imp \in [C -> Nat]
      BY <3>3
    <3>6. QED
      BY <3>1, <3>4, <3>5
  <2>6. C \ X \subseteq spared /\ spared \in SUBSET Tag
    BY <2>1, <2>4, <2>5
  <2>7. spared = ours \/ X # {}
    BY <2>4
  <2>8. X # {} => Cardinality(spared) >= plan.keep
    <3> SUFFICES ASSUME X # {} PROVE Cardinality(spared) >= plan.keep
      OBVIOUS
    <3> DEFINE keep == plan.keep
    <3>1. keep \in Nat
      BY <2>1
    <3> HIDE DEF spared, C, imp, keep
    <3>2. IsFiniteSet(C \ Excess(imp, keep, now)) /\ Cardinality(C \ Excess(imp, keep, now)) >= keep
      BY <2>5, <3>1, ExcessLeavesKeep DEF keep
    <3>3. X = Excess(imp, keep, now)
      BY DEF keep
    <3> HIDE DEF X
    <3>4. IsFiniteSet(spared) /\ C \ X \in SUBSET spared
      BY <2>1, <2>6, FS_Subset
    <3>5. Cardinality(C \ X) <= Cardinality(spared) /\ Cardinality(C \ X) \in Nat /\ Cardinality(spared) \in Nat
      BY <3>2, <3>3, <3>4, FS_Subset, FS_CardinalityType
    <3>6. Cardinality(spared) >= keep
      BY <3>1, <3>2, <3>3, <3>5
    <3>7. QED
      BY <3>6 DEF keep
  <2> HIDE DEF X
  <2>9. QED
    BY <2>3, <2>7, <2>8
<1>5. Apart
  BY NamesFacts
<1>6. Inv /\ TimesOK /\ [Next]_vars => TimesOK'
  BY TimesStep
<1>7. Inv /\ RetainOK /\ [Next]_vars => RetainOK'
  BY RetainStep
<1>8. Inv /\ TimesOK /\ RetainOK /\ ThisRunOK /\ [Next]_vars /\ [StartRun => now < clock]_vars => ThisRunOK'
  <2> SUFFICES ASSUME Inv, TimesOK, RetainOK, ThisRunOK, [Next]_vars, [StartRun => now < clock]_vars
               PROVE  ThisRunOK'
    OBVIOUS
  <2>1. CASE StartRun => now < clock
    BY <2>1, ThisRunStep
  <2>2. CASE UNCHANGED vars
    <3>1. ~StartRun
      BY <2>2 DEF StartRun, vars, runVars
    <3>2. QED
      BY <2>1, <3>1
  <2>3. QED
    BY <2>1, <2>2
<1>9. QED
  BY <1>1, <1>2, <1>3, <1>4, <1>5, <1>6, <1>7, <1>8, RunAlways, PTL DEF Spec

\* Upstream tags are never pushed to again and carry no base digest of their own, no policy
\* asks for another hardening, and no alias is named like a tag.
OneVersion == \A p, q \in Policies, n, k \in 1 .. Imports : p[n].version = q[k].version

Settled == MaxMoves = 0 /\ ~ForeignStamp /\ OneVersion /\ NamesApart

\* m is what every policy asks for under t.
Asked(t, m) ==
    /\ m.base = <<SourceOf[t], 0>>
    /\ \A p \in Policies, n \in 1 .. Imports : m.version = VersionOf(p[n], t)

SettledOK ==
    /\ \A s \in Source : upstream[s].digest = <<s, 0>> /\ src[s].digest = <<s, 0>>
    /\ \A t \in Tag \ AliasNames : tagged[t] # Absent /\ tagged[t].base # NoBase => Asked(t, tagged[t])
    /\ \A t \in Tag \ AliasNames : mir[t] # Absent => Asked(t, mir[t])

LEMMA SettledItem ==
  ASSUME Settled, Inv, SettledOK, ItemStep
  PROVE  SettledOK'
<1>1. ItemShape /\ UNCHANGED <<upstream, src, mir>>
  BY ItemShapes DEF ItemStep, worldVars, readVars
<1>2. ASSUME NEW t \in Tag, NEW m, tagged' = [tagged EXCEPT ![t] = m],
             t \notin AliasNames /\ m # Absent /\ m.base # NoBase => Asked(t, m)
      PROVE  SettledOK'
  <2>1. \A u \in Tag : tagged'[u] = IF u = t THEN m ELSE tagged[u]
    BY <1>2 DEF Inv, TypeOK
  <2>2. ASSUME NEW u \in Tag \ AliasNames, tagged'[u] # Absent, tagged'[u].base # NoBase
        PROVE  Asked(u, tagged'[u])
    BY <1>2, <2>1, <2>2 DEF SettledOK
  <2>3. QED
    BY <1>1, <2>2 DEF SettledOK, Asked
<1>3. ASSUME NEW i \in work
      PROVE  /\ i.tag \in Tag /\ Placed(i.tag).base = NoBase
             /\ Asked(i.tag, Stamped(Placed(i.tag), i.tag))
  <2> DEFINE m == Stamped(Placed(i.tag), i.tag)
  <2>1. i.tag \in Tag /\ SourceOf[i.tag] \in Source
    BY PlanAssumption DEF Inv, TypeOK, Items
  <2>2. m.base = <<SourceOf[i.tag], 0>> /\ m.version = VersionOf(plan, i.tag) /\ Placed(i.tag).base = NoBase
    BY <2>1, PlacedFacts DEF Settled, SettledOK, Inv
  <2> HIDE DEF m
  <2>3. ASSUME NEW p \in Policies, NEW n \in 1 .. Imports
        PROVE  VersionOf(plan, i.tag) = VersionOf(p[n], i.tag)
    <3>1. plans \in Policies /\ cur \in 1 .. Imports
      BY DEF Inv, TypeOK
    <3>2. plans[cur].version = p[n].version
      BY <3>1 DEF Settled, OneVersion
    <3>3. QED
      BY <3>2 DEF VersionOf, plan
  <2>4. Asked(i.tag, m)
    BY <2>2, <2>3 DEF Asked
  <2>5. QED
    BY <2>1, <2>2, <2>4 DEF m
<1>4. ASSUME NEW i \in work, PlaceShape(i)
      PROVE  SettledOK'
  BY <1>2, <1>3, <1>4 DEF PlaceShape
<1>5. ASSUME NEW i \in work, StampShape(i)
      PROVE  SettledOK'
  BY <1>2, <1>3, <1>5 DEF StampShape
<1>6. ASSUME NEW i \in work, AliasShape(i)
      PROVE  SettledOK'
  <2>1. i.tag \in AliasNames
    BY <1>6, NamesFacts DEF AliasShape, Inv, WorkOK, Settled
  <2>2. QED
    BY <1>2, <1>3, <1>6, <2>1 DEF AliasShape
<1>7. ASSUME NEW i \in work, DeleteShape(i)
      PROVE  SettledOK'
  BY <1>2, <1>3, <1>7 DEF DeleteShape
<1>8. CASE UNCHANGED tagged
  BY <1>1, <1>8 DEF SettledOK, Asked
<1>9. QED
  BY <1>1, <1>4, <1>5, <1>6, <1>7, <1>8 DEF ItemShape, ClearShape, AttachShape, MarkShape, GiveUpShape

LEMMA SettledStep ==
  ASSUME Settled, Inv, SettledOK, [Next]_vars
  PROVE  SettledOK'
<1>1. CASE ItemStep
  BY <1>1, SettledItem
<1>2. CASE ReadSource
  <2>1. src' = Inspected /\ UNCHANGED <<upstream, tagged, mir>> /\ now \in Nat
    BY <1>2, ReconcileAssumption DEF ReadSource, worldVars, repoVars, Inv, TypeOK
  <2>2. \A s \in Source : src'[s].digest = upstream[s].digest
    BY <2>1, InspectedFacts DEF Inv, TypeOK
  <2>3. QED
    BY <2>1, <2>2 DEF SettledOK, Asked
<1>3. CASE ReadMirror
  <2>1. mir' = [t \in Tag |-> MirrorOf(tagged[t])] /\ UNCHANGED <<upstream, src, tagged>>
    BY <1>3 DEF ReadMirror, worldVars, repoVars
  <2>2. \A t \in Tag : mir'[t] # Absent => mir'[t] = tagged[t] /\ tagged[t] # Absent /\ tagged[t].base # NoBase
    BY <2>1 DEF MirrorOf
  <2>3. QED
    BY <2>1, <2>2 DEF SettledOK, Asked
<1>4. CASE \E s \in Source : UpstreamMoves(s)
  <2>1. moves < MaxMoves /\ moves \in 0 .. MaxMoves /\ MaxMoves = 0
    BY <1>4 DEF UpstreamMoves, Inv, TypeOK, Settled
  <2>2. QED
    BY <2>1
<1>5. CASE UNCHANGED <<upstream, src, tagged, mir>>
  BY <1>5 DEF SettledOK, Asked
<1>6. CASE StartRun \/ ReadMarks \/ Barrier \/ EndImport \/ EndRun \/ Abort \/ EditPolicy \/ Tick \/ UNCHANGED vars
  BY <1>5, <1>6 DEF StartRun, ReadMarks, Barrier, EndImport, EndRun, Abort, RunDies, EditPolicy, Tick,
                    vars, worldVars, repoVars, readVars, runVars
<1>7. QED
  BY <1>1, <1>2, <1>3, <1>4, <1>6 DEF Next, RunStep

\* Then no run updates anything.
LEMMA SettledKeeps ==
  ASSUME Settled, Inv, SettledOK, NEW t \in plan.tags, mir[t] # Absent
  PROVE  t \notin ToPlace(plan, src, mir, now)
<1>1. t \in plan.tags /\ t \in Tag /\ t \notin AliasNames /\ mir[t] # Absent /\ SourceOf[t] \in Source
  BY PlanFacts, NamesFacts, PlanAssumption DEF Inv, Settled
<1>2. mir[t].base = <<SourceOf[t], 0>> /\ mir[t].version = VersionOf(plan, t)
  <2>1. Asked(t, mir[t])
    BY <1>1 DEF SettledOK
  <2>2. plans \in Policies /\ cur \in 1 .. Imports
    BY DEF Inv, TypeOK
  <2>3. QED
    BY <2>1, <2>2 DEF Asked, plan
<1>3. src[SourceOf[t]].digest = <<SourceOf[t], 0>>
  BY <1>1 DEF SettledOK
<1>4. Decision(plan, src, mir, now, t) = "keep"
  BY <1>1, <1>2, <1>3 DEF Decision, Classify
<1>5. QED
  BY <1>4 DEF ToPlace

\* A manifest receives the retention mark only when it was itself imported longer ago than
\* the archive rule's age (docs/explanation/deletion-and-retention.md).
RetentionMarksAreOld ==
    [][\A m \in marks' \ marks :
          m.reason = "retention-excess" => now - m.of.at > OlderThan]_vars

(***************************************************************************)
(* That holds of a settled repository, whatever policies are edited in,    *)
(* calls fail and pods are lost: nothing gives a run a reason to update    *)
(* what it has mirrored.                                                   *)
(***************************************************************************)
THEOREM SettledRetention ==
  ASSUME Settled
  PROVE  Spec => RetentionMarksAreOld
<1>1. Init => SettledOK
  <2> SUFFICES ASSUME Init PROVE SettledOK
    OBVIOUS
  <2>1. tagged = [t \in Tag |-> Absent] /\ mir = tagged
    BY DEF Init
  <2>2. QED
    BY <2>1, FirstDigests DEF SettledOK
<1>2. Inv /\ SettledOK /\ [Next]_vars => SettledOK'
  BY SettledStep
<1>3. Apart
  BY NamesFacts DEF Settled
<1>4. Inv /\ SettledOK /\ [\A m \in marks' \ marks : m.reason = "retention-excess" => JudgedOld(m)]_vars
          => [\A m \in marks' \ marks : m.reason = "retention-excess" => now - m.of.at > OlderThan]_vars
  BY SettledKeeps DEF JudgedOld
<1>5. Spec => RetentionMarksJudged
  BY <1>3, MarksAreJudged
<1>6. QED
  BY <1>1, <1>2, <1>4, <1>5, InvAlways, PTL DEF Spec, RetentionMarksJudged, RetentionMarksAreOld

-----------------------------------------------------------------------------
(* The two reasons for a mark.  Where every policy purges what leaves the  *)
(* selection no tag is marked for having left it; where the archive rule,  *)
(* if there is one, keeps as many tags as there are none is marked for     *)
(* being in excess.                                                        *)

PurgeMode == \A p \in Policies, n \in 1 .. Imports : ~p[n].mark
KeepsAll  == \A p \in Policies, n \in 1 .. Imports : p[n].keep >= Cardinality(Tag)

\* The reasons that do not arise, and the steps of items that would give them.
OffReasons == {r \in {"dropped-from-selection", "retention-excess"} :
                  IF r = "dropped-from-selection" THEN PurgeMode ELSE KeepsAll}
OffSteps   == {s \in {"mark", "retain"} : IF s = "mark" THEN PurgeMode ELSE KeepsAll}

ReasonsOK ==
    /\ \A m \in marks : m.reason \notin OffReasons
    /\ \A t \in Tag : \A m \in marked[t] : m.reason \notin OffReasons
    /\ \A i \in work : i.step \notin OffSteps

\* An archive rule that keeps as many tags as there are finds nothing in excess.
LEMMA NothingInExcess ==
  ASSUME Inv, KeepsAll
  PROVE  RetentionExcess(plan, mir, now) = {}
<1>1. plan.keep >= Cardinality(Tag) /\ plan.keep \in Nat /\ plan.tags \subseteq Tag
  <2>1. plans \in Policies /\ cur \in 1 .. Imports /\ plan \in Plan
    BY PlanFacts DEF Inv, TypeOK
  <2>2. plan.keep \in Nat
    BY <2>1 DEF Plan
  <2>3. QED
    BY <2>1, <2>2, PlanFacts DEF KeepsAll, plan, Inv
<1>2. IsFiniteSet(Tag) /\ Cardinality(Tag) \in Nat
  BY PlanAssumption, FS_CardinalityType
<1>3. ASSUME NEW v \in Variant
      PROVE  Excess([t \in RetentionCandidates(plan, mir, v) |-> mir[t].at], plan.keep, now) = {}
  <2> DEFINE C   == RetentionCandidates(plan, mir, v)
             imp == [t \in C |-> mir[t].at]
  <2>1. C \subseteq Tag /\ \A t \in C : mir[t] \in Manifest
    BY <1>1 DEF RetentionCandidates, Mirrored, Inv, TypeOK
  <2>2. \A t \in C : imp[t] \in Nat
    BY <2>1 DEF Manifest
  <2>3. DOMAIN imp = C
    OBVIOUS
  <2> HIDE DEF imp, C
  <2>4. ASSUME NEW t \in C
        PROVE  ~(Rank(imp, t) >= plan.keep)
    <3> DEFINE Newer == {u \in DOMAIN imp : NewerThan(imp, u, t)}
    <3>1. t \in Nat /\ t \in Tag
      BY <2>1, PlanAssumption
    <3>2. t \notin Newer
      BY <2>2, <3>1 DEF NewerThan
    <3>3. Newer \subseteq Tag \ {t}
      BY <2>1, <2>3, <3>2
    <3> HIDE DEF Newer
    <3>4. IsFiniteSet(Tag \ {t}) /\ Cardinality(Tag \ {t}) = Cardinality(Tag) - 1
      BY <1>2, <3>1, FS_RemoveElement
    <3>5. Cardinality(Newer) <= Cardinality(Tag \ {t}) /\ Cardinality(Newer) \in Nat
      BY <3>3, <3>4, FS_Subset, FS_CardinalityType
    <3>6. Rank(imp, t) = Cardinality(Newer)
      BY DEF Rank, Newer
    <3>7. QED
      BY <1>1, <1>2, <3>4, <3>5, <3>6
  <2>5. Excess(imp, plan.keep, now) = {}
    BY <2>3, <2>4 DEF Excess
  <2>6. QED
    BY <2>5 DEF imp, C
<1>4. QED
  BY <1>3 DEF RetentionExcess

\* The items that stages begin with, and those that their steps go on with.
LEMMA ReasonWork ==
  ASSUME Inv, ReasonsOK, [Next]_vars
  PROVE  \A i \in work' : i.step \notin OffSteps
<1>1. OffSteps \subseteq {"mark", "retain"} /\ \A i \in work : i.step \notin OffSteps
  BY DEF ReasonsOK, OffSteps
<1>2. CASE ItemStep
  BY <1>1, <1>2, OldItems
<1>3. CASE Barrier
  <2>1. work' = ItemsOf(stage') /\ stage' \in {"sign", "sbom", "alias", "delete", "retain", "unmark"}
    BY <1>3, BarrierFacts
  <2>2. CASE stage' \in {"sign", "sbom", "alias", "unmark"}
    <3>1. \A i \in work' : stage' # "unmark" /\ i.step \in StepsIn[stage']
      BY <2>1, StageItems DEF Inv
    <3>2. QED
      BY <1>1, <2>2, <3>1 DEF StepsIn
  <2>3. CASE stage' = "delete"
    <3>1. \A i \in work' : i.step \in {"delete", "mark"}
      BY <2>1, <2>3, StageItems DEF Inv, StepsIn
    <3>2. CASE PurgeMode
      <4>1. ~plan.mark
        BY <3>2 DEF PurgeMode, Inv, TypeOK, plan
      <4>2. work' = {Item(t, "mark") : t \in {u \in ToMark : plan.mark}}
                        \cup {Item(t, "delete") : t \in {u \in ToDelete(plan, mir) : ~plan.mark}}
        BY <2>1, <2>3 DEF ItemsOf, ToRetire
      <4>3. \A i \in work' : i.step = "delete"
        BY <4>1, <4>2 DEF Item
      <4>4. QED
        BY <1>1, <4>3
    <3>3. CASE ~PurgeMode
      BY <3>1, <3>3 DEF OffSteps
    <3>4. QED
      BY <3>2, <3>3
  <2>4. CASE stage' = "retain"
    <3>1. \A i \in work' : i.step = "retain"
      BY <2>1, <2>4, StageItems DEF Inv, StepsIn
    <3>2. CASE KeepsAll
      <4>1. ToRetain = {}
        BY <3>2, NothingInExcess DEF ToRetain
      <4>2. work' = {Item(t, "retain") : t \in ToRetain}
        BY <2>1, <2>4 DEF ItemsOf
      <4>3. QED
        BY <4>1, <4>2
    <3>3. CASE ~KeepsAll
      BY <3>1, <3>3 DEF OffSteps
    <3>4. QED
      BY <3>2, <3>3
  <2>5. QED
    BY <2>1, <2>2, <2>3, <2>4
<1>4. CASE ReadMarks
  <2>1. work' = {Item(t, "place") : t \in ToPlace(plan, src, mir, now)}
    BY <1>4 DEF ReadMarks
  <2>2. QED
    BY <1>1, <2>1 DEF Item
<1>5. CASE StartRun \/ ReadSource \/ ReadMirror \/ EndImport \/ EndRun
           \/ (\E s \in Source : UpstreamMoves(s)) \/ EditPolicy \/ Tick \/ UNCHANGED vars
  BY <1>1, <1>5 DEF StartRun, ReadSource, ReadMirror, EndImport, EndRun, UpstreamMoves, EditPolicy, Tick,
                    vars, runVars
<1>6. CASE Abort
  BY <1>6 DEF Abort, RunDies
<1>7. QED
  BY <1>2, <1>3, <1>4, <1>5, <1>6 DEF Next, RunStep

\* The marks that a run puts have the reason of the item.
LEMMA ReasonMarks ==
  ASSUME ReasonsOK, [Next]_vars
  PROVE  \A m \in marks' : m.reason \notin OffReasons
<1>1. /\ \A m \in marks : m.reason \notin OffReasons
      /\ \A i \in work : i.step \notin OffSteps
  BY DEF ReasonsOK
<1>2. CASE marks' \subseteq marks
  BY <1>1, <1>2
<1>3. ASSUME NEW i \in work, PutMark(i)
      PROVE  \A m \in marks' : m.reason \notin OffReasons
  <2> DEFINE r == IF i.step = "mark" THEN "dropped-from-selection" ELSE "retention-excess"
  <2>1. marks' = marks \cup {[of |-> tagged[i.tag], reason |-> r]} /\ i.step \in {"mark", "retain"}
    BY <1>3 DEF PutMark
  <2>2. r \notin OffReasons
    BY <1>1, <2>1 DEF OffSteps, OffReasons
  <2> HIDE DEF r
  <2>3. QED
    BY <1>1, <2>1, <2>2
<1>4. CASE ItemStep
  <2>1. ASSUME NEW m \in clearing, ClearMark(m)
        PROVE  marks' \subseteq marks
    BY <2>1 DEF ClearMark
  <2>2. ASSUME NEW i \in work, \/ Place(i) \/ Stamp(i) \/ AttachSbom(i) \/ SignSbom(i) \/ Sign(i)
                               \/ SetAlias(i) \/ DeleteTag(i) \/ NoTag(i) \/ OpFails(i)
        PROVE  marks' \subseteq marks
    BY <2>2 DEF Place, Stamp, AttachSbom, SignSbom, Sign, SetAlias, DeleteTag, NoTag, OpFails, repoVars
  <2>3. QED
    BY <1>2, <1>3, <1>4, <2>1, <2>2 DEF ItemStep
<1>5. CASE ~ItemStep
  <2>1. marks' = marks
    BY <1>5 DEF Next, RunStep, StartRun, ReadSource, ReadMirror, ReadMarks, Barrier, EndImport, EndRun, Abort, RunDies,
                UpstreamMoves, EditPolicy, Tick, vars, repoVars
  <2>2. QED
    BY <1>2, <2>1
<1>6. QED
  BY <1>4, <1>5

LEMMA ReasonsStep ==
  ASSUME Inv, ReasonsOK, [Next]_vars
  PROVE  ReasonsOK'
<1>1. \A t \in Tag : \A m \in marked'[t] : m.reason \notin OffReasons
  <2>1. CASE ReadMarks
    <3>1. marked' = [t \in Tag |-> IF t \in Mirrored(mir) THEN {m \in marks : m.of = tagged[t]} ELSE {}]
      BY <2>1 DEF ReadMarks
    <3>2. \A t \in Tag : marked'[t] \subseteq marks
      BY <3>1
    <3>3. QED
      BY <3>2 DEF ReasonsOK
  <2>2. CASE ~ReadMarks
    <3>1. UNCHANGED marked
      BY <2>2 DEF Next, RunStep, StartRun, ReadSource, ReadMirror, ItemStep, Barrier, EndImport, EndRun, Abort, RunDies,
                  UpstreamMoves, EditPolicy, Tick, vars, runVars, readVars
    <3>2. QED
      BY <3>1 DEF ReasonsOK
  <2>3. QED
    BY <2>1, <2>2
<1>2. QED
  BY <1>1, ReasonWork, ReasonMarks DEF ReasonsOK

LEMMA ReasonsAlways == Spec => []ReasonsOK
<1>1. Init => ReasonsOK
  BY DEF Init, ReasonsOK
<1>2. Inv /\ ReasonsOK /\ [Next]_vars => ReasonsOK'
  BY ReasonsStep
<1>3. QED
  BY <1>1, <1>2, InvAlways, PTL DEF Spec

-----------------------------------------------------------------------------
(* Notice: what is not wanted is marked, and what is wanted is not.        *)

\* A wanted tag and an unwanted one did not designate the same manifest when the run read them.
Unshared ==
    stage \in Acting /\ plan.mark =>
        \A t \in Desired(plan), u \in Tag \ Desired(plan) : mir[t] # Absent => mir[u] # mir[t]

OnTag(t) == {m \in marks : m.of = tagged[t]}

NoticeOK ==
    /\ \A i \in work : i.step \in {"mark", "delete"} =>
          i.tag \in ToDelete(plan, mir) /\ (i.step = "mark" <=> plan.mark)
    /\ stage \in {"marks"} \cup Acting /\ plan.mark =>
          \A t \in Tag \ Desired(plan) : MirrorOf(tagged[t]) = mir[t]
    /\ stage \in Acting \ {"unmark", "report"} =>
          \A t \in Tag : \A m \in marked[t] : m \in marks /\ m.of = mir[t]
    /\ \A m \in clearing : \E t \in Desired(plan) : mir[t] # Absent /\ m.of = mir[t]
    /\ stage \in {"delete", "retain", "unmark", "report"} /\ clean /\ plan.mark =>
          \A t \in Tag \ Desired(plan) :
              \/ mir[t] = Absent
              \/ OnTag(t) # {}
              \/ stage = "delete" /\ \E i \in work : i.tag = t /\ i.step = "mark"

\* An item that was to put a mark has put it, unless an operation failed.
LEMMA MarkIsPut ==
  ASSUME Inv, ItemStep, clean', NEW i \in work, i.step \in {"mark", "retain"}, i \notin work'
  PROVE  PutMark(i)
<1>1. ASSUME NEW j \in work, NEW next, NEW out, GoOn(j, next, out)
      PROVE  i = j
  BY <1>1 DEF GoOn
<1>2. ASSUME NEW j \in work, Place(j) \/ Stamp(j) \/ AttachSbom(j) \/ SignSbom(j) \/ Sign(j) \/ SetAlias(j) \/ DeleteTag(j)
      PROVE  FALSE
  <2>1. j.step \in {"place", "stamp", "sbom", "sbomSig", "sign", "alias", "delete"} /\ \E next, out : GoOn(j, next, out)
    BY <1>2 DEF Place, Stamp, AttachSbom, SignSbom, Sign, SetAlias, DeleteTag
  <2>2. QED
    BY <1>1, <2>1
<1>3. ASSUME NEW j \in work, NoTag(j) \/ OpFails(j)
      PROVE  FALSE
  BY <1>3 DEF NoTag, OpFails
<1>4. ASSUME NEW j \in work, PutMark(j)
      PROVE  PutMark(i)
  BY <1>1, <1>4 DEF PutMark
<1>5. ASSUME NEW m \in clearing, ClearMark(m)
      PROVE  FALSE
  BY <1>5 DEF ClearMark
<1>6. QED
  BY <1>2, <1>3, <1>4, <1>5 DEF ItemStep

\* Marks are cleared in the last stage, and only those that the run has to clear.
LEMMA MarksOfItem ==
  ASSUME Inv, ItemStep
  PROVE  /\ marks \ marks' \subseteq clearing /\ clearing' \subseteq clearing
         /\ stage # "unmark" => marks \subseteq marks' /\ clearing = {}
         /\ clean' => clean /\ \A m \in clearing : m \in clearing' \/ m \notin marks'
         /\ \A m \in marks' \ marks : \E i \in work : PutMark(i) /\ m.of = tagged[i.tag]
<1>1. stage # "unmark" => clearing = {}
  BY DEF Inv, TypeOK
<1>2. ASSUME NEW i \in work, \/ Place(i) \/ Stamp(i) \/ AttachSbom(i) \/ SignSbom(i) \/ Sign(i)
                             \/ SetAlias(i) \/ DeleteTag(i) \/ NoTag(i) \/ OpFails(i)
      PROVE  marks' = marks /\ clearing' = clearing /\ (clean' => clean)
  BY <1>2 DEF Place, Stamp, AttachSbom, SignSbom, Sign, SetAlias, DeleteTag, NoTag, OpFails, repoVars
<1>3. ASSUME NEW i \in work, PutMark(i)
      PROVE  /\ marks \subseteq marks' /\ clearing' = clearing /\ clean' = clean
             /\ \A m \in marks' \ marks : m.of = tagged[i.tag]
  <2> DEFINE r == IF i.step = "mark" THEN "dropped-from-selection" ELSE "retention-excess"
  <2>1. marks' = marks \cup {[of |-> tagged[i.tag], reason |-> r]} /\ clearing' = clearing /\ clean' = clean
    BY <1>3 DEF PutMark
  <2> HIDE DEF r
  <2>2. QED
    BY <2>1
<1>4. ASSUME NEW m \in clearing, ClearMark(m)
      PROVE  /\ clearing' = clearing \ {m} /\ (clean' => clean)
             /\ (marks' = marks \ {m} \/ (marks' = marks /\ ~clean'))
  BY <1>4 DEF ClearMark
<1>5. ItemStep => (\E i \in work : PutMark(i)) \/ (\E m \in clearing : ClearMark(m))
                  \/ \E i \in work : \/ Place(i) \/ Stamp(i) \/ AttachSbom(i) \/ SignSbom(i) \/ Sign(i)
                                     \/ SetAlias(i) \/ DeleteTag(i) \/ NoTag(i) \/ OpFails(i)
  BY DEF ItemStep
<1>6. CASE \E i \in work : PutMark(i)
  <2>1. PICK i \in work : PutMark(i)
    BY <1>6
  <2>2. clearing = {}
    <3>1. stage # "unmark"
      BY DEF Inv, TypeOK
    <3>2. QED
      BY <1>1, <3>1
  <2>3. QED
    BY <1>3, <2>1, <2>2
<1>7. CASE \E m \in clearing : ClearMark(m)
  <2>1. PICK m \in clearing : ClearMark(m)
    BY <1>7
  <2>2. QED
    BY <1>1, <1>4, <2>1
<1>8. CASE \E i \in work : \/ Place(i) \/ Stamp(i) \/ AttachSbom(i) \/ SignSbom(i) \/ Sign(i)
                           \/ SetAlias(i) \/ DeleteTag(i) \/ NoTag(i) \/ OpFails(i)
  <2>1. clearing = {}
    <3>1. stage # "unmark"
      BY <1>8 DEF Inv, TypeOK
    <3>2. QED
      BY <1>1, <3>1
  <2>2. QED
    BY <1>2, <1>8, <2>1
<1>9. QED
  BY <1>5, <1>6, <1>7, <1>8

\* An item touches no tag that is not wanted, but to retire it.
LEMMA UnwantedStay ==
  ASSUME Inv, ItemStep, NEW t \in Tag \ Desired(plan), \A i \in work : i.step # "delete"
  PROVE  tagged'[t] = tagged[t]
<1>1. ItemShape
  BY ItemShapes
<1>2. ASSUME NEW i \in work, PlaceShape(i) \/ StampShape(i) \/ AliasShape(i)
      PROVE  i.tag # t /\ \E m : tagged' = [tagged EXCEPT ![i.tag] = m]
  <2>1. (stage = "import" => i.tag \in plan.tags) /\ (stage = "alias" => i.tag \in DOMAIN plan.alias)
    BY PlaceOrKeep DEF Inv, WorkOK
  <2>2. stage = "import" \/ stage = "alias"
    BY <1>2 DEF PlaceShape, StampShape, AliasShape
  <2>3. i.tag \in Desired(plan)
    BY <2>1, <2>2 DEF Desired
  <2>4. QED
    BY <1>2, <2>3 DEF PlaceShape, StampShape, AliasShape
<1>3. ASSUME NEW i \in work, AttachShape(i) \/ MarkShape(i) \/ GiveUpShape(i)
      PROVE  tagged' = tagged
  BY <1>3 DEF AttachShape, MarkShape, GiveUpShape
<1>4. \A i \in work : ~DeleteShape(i)
  BY DEF DeleteShape
<1>5. ClearShape => tagged' = tagged
  BY DEF ClearShape
<1>6. ASSUME NEW i \in work, PlaceShape(i) \/ StampShape(i) \/ AliasShape(i)
      PROVE  tagged'[t] = tagged[t]
  <2>1. PICK m : tagged' = [tagged EXCEPT ![i.tag] = m]
    BY <1>2, <1>6
  <2>2. i.tag # t
    BY <1>2, <1>6
  <2>3. QED
    BY <2>1, <2>2 DEF Inv, TypeOK
<1>7. QED
  BY <1>1, <1>3, <1>4, <1>5, <1>6 DEF ItemShape

LEMMA NoticeItem ==
  ASSUME Inv, NoticeOK, Unshared, ItemStep
  PROVE  NoticeOK'
<1> DEFINE D == Desired(plan)
           Due(t) == \E i \in work : i.tag = t /\ i.step = "mark"
<1>1. UNCHANGED <<stage, plans, cur, src, mir, now, marked>> /\ UNCHANGED plan /\ D' = D
  <2>1. UNCHANGED <<stage, plans, cur, src, mir, now, marked>>
    BY DEF ItemStep, readVars
  <2>2. QED
    BY <2>1, StillFacts
<1>2. ToDelete(plan, mir)' = ToDelete(plan, mir)
  BY <1>1 DEF ToDelete, Mirrored, Desired
<1>3. \A i \in work' : i.step \in {"mark", "delete"} =>
          i.tag \in ToDelete(plan, mir)' /\ (i.step = "mark" <=> plan'.mark)
  <2> SUFFICES ASSUME NEW i \in work', i.step \in {"mark", "delete"}
               PROVE  i.tag \in ToDelete(plan, mir) /\ (i.step = "mark" <=> plan.mark)
    BY <1>1, <1>2
  <2>1. i \in work
    BY OldItems
  <2>2. QED
    BY <2>1 DEF NoticeOK
<1>4. plan.mark => \A t \in Tag \ D : tagged'[t] = tagged[t]
  <2>1. plan.mark => \A i \in work : i.step # "delete"
    BY DEF NoticeOK
  <2>2. QED
    BY <2>1, UnwantedStay
<1>5. stage' \in {"marks"} \cup Acting /\ plan'.mark => \A t \in Tag \ D' : MirrorOf(tagged'[t]) = mir'[t]
  BY <1>1, <1>4 DEF NoticeOK
<1>6. stage' \in Acting \ {"unmark", "report"} =>
          \A t \in Tag : \A m \in marked'[t] : m \in marks' /\ m.of = mir'[t]
  BY <1>1, MarksOfItem DEF NoticeOK
<1>7. \A m \in clearing' : \E t \in D' : mir'[t] # Absent /\ m.of = mir'[t]
  BY <1>1, MarksOfItem DEF NoticeOK
<1>8. ASSUME stage \in {"delete", "retain", "unmark", "report"}, clean', plan.mark, NEW t \in Tag \ D,
             mir[t] # Absent
      PROVE  OnTag(t)' # {} \/ (stage = "delete" /\ Due(t)')
  <2>1. stage \in Acting /\ tagged'[t] = tagged[t] /\ clean
    BY <1>4, <1>8, MarksOfItem DEF Acting
  <2>2. tagged[t] = mir[t]
    <3>1. MirrorOf(tagged[t]) = mir[t]
      BY <1>8, <2>1 DEF NoticeOK
    <3>2. QED
      BY <1>8, <3>1 DEF MirrorOf
  <2>3. CASE OnTag(t) # {}
    <3>1. PICK m \in marks : m.of = tagged[t]
      BY <2>3 DEF OnTag
    <3>2. m \in marks'
      <4>1. ASSUME m \in clearing
            PROVE  FALSE
        <5>1. PICK u \in D : mir[u] # Absent /\ m.of = mir[u]
          BY <4>1 DEF NoticeOK
        <5>2. mir[t] # mir[u]
          BY <1>8, <2>1, <5>1 DEF Unshared
        <5>3. QED
          BY <2>2, <3>1, <5>1, <5>2
      <4>2. QED
        BY <3>1, <4>1, MarksOfItem
    <3>3. QED
      BY <2>1, <3>1, <3>2 DEF OnTag
  <2>4. CASE OnTag(t) = {}
    <3>1. PICK i \in work : i.tag = t /\ i.step = "mark" /\ stage = "delete"
      BY <1>8, <2>1, <2>4 DEF NoticeOK
    <3>2. CASE i \in work'
      BY <3>1, <3>2
    <3>3. CASE i \notin work'
      <4>1. PutMark(i)
        BY <1>8, <3>1, <3>3, MarkIsPut
      <4>2. [of |-> tagged[t], reason |-> "dropped-from-selection"] \in marks'
        BY <3>1, <4>1 DEF PutMark
      <4>3. QED
        BY <2>1, <4>2 DEF OnTag
    <3>4. QED
      BY <3>2, <3>3
  <2>5. QED
    BY <2>3, <2>4
<1> HIDE DEF D, Due
<1>9. stage' \in {"delete", "retain", "unmark", "report"} /\ clean' /\ plan'.mark =>
          \A t \in Tag \ D' : mir'[t] = Absent \/ OnTag(t)' # {} \/ (stage' = "delete" /\ Due(t)')
  BY <1>1, <1>8
<1>10. QED
  BY <1>3, <1>5, <1>6, <1>7, <1>9 DEF NoticeOK, D, Due

\* The marks to clear are on tags that are wanted, where none is for being in excess.
LEMMA ClearedFacts ==
  ASSUME KeepsAll, ReasonsOK, NEW m \in ToUnmark
  PROVE  \E t \in Desired(plan) : t \in Tag /\ mir[t] # Absent /\ m \in marked[t]
<1>1. \A t \in Tag : \A k \in marked[t] : k.reason # "retention-excess"
  BY DEF ReasonsOK, OffReasons
<1>2. MarkedFor("retention-excess") = {}
  BY <1>1 DEF MarkedFor, Mirrored
<1>3. PICK t \in MarkedFor("dropped-from-selection") \cap Desired(plan) : m \in marked[t]
  BY <1>2 DEF ToUnmark
<1>4. QED
  BY <1>3 DEF MarkedFor, Mirrored

LEMMA NoticeBarrier ==
  ASSUME KeepsAll, Inv, ReasonsOK, NoticeOK, Barrier
  PROVE  NoticeOK'
<1> DEFINE D == Desired(plan)
           Due(t) == \E i \in work : i.tag = t /\ i.step = "mark"
           Marking == {"delete", "retain", "unmark", "report"}
<1>1. /\ UNCHANGED <<tagged, marks, plans, cur, src, mir, now, marked, clean>> /\ UNCHANGED plan /\ D' = D
      /\ stage \in Acting \ {"unmark", "report"} /\ stage' \in Acting
  <2>1. UNCHANGED <<tagged, marks, plans, cur, src, mir, now, marked, clean>>
    BY DEF Barrier, repoVars, readVars
  <2>2. QED
    BY <2>1, StillFacts, BarrierFacts DEF Acting
<1>2. work = {} /\ work' = ItemsOf(stage') /\ stage' \in {"sign", "sbom", "alias", "delete", "retain", "unmark"}
  BY BarrierFacts
<1>3. ToDelete(plan, mir)' = ToDelete(plan, mir)
  BY <1>1 DEF ToDelete, Mirrored, Desired
<1>4. stage' = "delete" => work' = {Item(t, "mark") : t \in {u \in ToMark : plan.mark}}
                               \cup {Item(t, "delete") : t \in {u \in ToDelete(plan, mir) : ~plan.mark}}
  BY <1>2 DEF ItemsOf, ToRetire
<1>5. \A i \in work' : i.step \in {"mark", "delete"} =>
          i.tag \in ToDelete(plan, mir)' /\ (i.step = "mark" <=> plan'.mark)
  <2> SUFFICES ASSUME NEW i \in work', i.step \in {"mark", "delete"}
               PROVE  i.tag \in ToDelete(plan, mir) /\ (i.step = "mark" <=> plan.mark)
    BY <1>1, <1>3
  <2>1. stage' # "unmark" /\ i.step \in StepsIn[stage']
    BY <1>2, StageItems DEF Inv
  <2>2. stage' = "delete"
    BY <1>2, <2>1 DEF StepsIn
  <2>3. QED
    BY <1>4, <2>2 DEF Item, ToMark
<1>6. plan'.mark => \A t \in Tag \ D' : MirrorOf(tagged'[t]) = mir'[t]
  BY <1>1 DEF NoticeOK
<1>7. \A t \in Tag : \A m \in marked'[t] : m \in marks' /\ m.of = mir'[t]
  BY <1>1 DEF NoticeOK
<1>8. \A m \in clearing' : \E t \in D' : mir'[t] # Absent /\ m.of = mir'[t]
  <2>1. CASE stage' = "unmark"
    <3>1. clearing' = ToUnmark
      BY <2>1 DEF Barrier
    <3>2. QED
      BY <1>1, <1>7, <3>1, ClearedFacts
  <2>2. CASE stage' # "unmark"
    BY <2>2 DEF Barrier
  <2>3. QED
    BY <2>1, <2>2
<1>9. ASSUME stage' \in Marking, clean, plan.mark, NEW t \in Tag \ D, mir[t] # Absent
      PROVE  OnTag(t)' # {} \/ (stage' = "delete" /\ Due(t)')
  <2>1. OnTag(t)' = OnTag(t)
    BY <1>1 DEF OnTag
  <2>2. CASE stage \in Marking
    BY <1>2, <1>9, <2>1, <2>2 DEF NoticeOK
  <2>3. CASE stage \notin Marking
    <3>1. stage' = "delete"
      BY <1>9, <2>3, BarrierFacts
    <3>2. CASE marked[t] = {}
      <4>1. t \in ToMark
        BY <1>9, <3>2 DEF ToMark, ToDelete, Mirrored
      <4>2. Item(t, "mark") \in work' /\ Item(t, "mark").tag = t /\ Item(t, "mark").step = "mark"
        BY <1>4, <1>9, <3>1, <4>1 DEF Item
      <4>3. QED
        BY <3>1, <4>2
    <3>3. CASE marked[t] # {}
      <4>1. PICK m \in marks : m.of = mir[t]
        BY <1>1, <3>3 DEF NoticeOK
      <4>2. MirrorOf(tagged[t]) = mir[t]
        BY <1>1, <1>9 DEF NoticeOK
      <4>3. tagged[t] = mir[t]
        BY <1>9, <4>2 DEF MirrorOf
      <4>4. QED
        BY <2>1, <4>1, <4>3 DEF OnTag
    <3>4. QED
      BY <3>2, <3>3
  <2>4. QED
    BY <2>2, <2>3
<1> HIDE DEF D, Due
<1>10. stage' \in Marking /\ clean' /\ plan'.mark =>
          \A t \in Tag \ D' : mir'[t] = Absent \/ OnTag(t)' # {} \/ (stage' = "delete" /\ Due(t)')
  BY <1>1, <1>9
<1>11. QED
  BY <1>5, <1>6, <1>7, <1>8, <1>10 DEF NoticeOK, D, Due

LEMMA NoticeStep ==
  ASSUME KeepsAll, Inv, RunOK, ReasonsOK, NoticeOK, Unshared, [Next]_vars
  PROVE  NoticeOK'
<1>1. work # {} => stage \in {"import", "sign", "sbom", "alias", "delete", "retain"}
  BY DEF Inv, TypeOK
<1>2. clearing # {} => stage = "unmark"
  BY DEF Inv, TypeOK
\* Between two runs, and between two imports, there is no item and no mark to clear.
<1>3. CASE StartRun \/ ReadSource \/ EndRun \/ Abort \/ (EndImport /\ cur # Imports)
  <2>1. stage' \in {"idle", "source", "mirror"} /\ work' = {} /\ clearing' = {}
    BY <1>1, <1>2, <1>3 DEF StartRun, ReadSource, EndRun, Abort, RunDies, EndImport
  <2>2. stage' \notin {"marks"} \cup Acting
    BY <2>1 DEF Acting
  <2>3. QED
    BY <2>1, <2>2 DEF NoticeOK, Acting
<1>4. CASE ReadMirror
  <2>1. stage' = "marks" /\ tagged' = tagged /\ mir' = [t \in Tag |-> MirrorOf(tagged[t])] /\ work' = {} /\ clearing' = {}
    BY <1>1, <1>2, <1>4 DEF ReadMirror, repoVars
  <2>2. \A t \in Tag : MirrorOf(tagged'[t]) = mir'[t]
    BY <2>1
  <2>3. QED
    BY <2>1, <2>2 DEF NoticeOK, Acting
<1>5. CASE ReadMarks
  <2>1. /\ stage = "marks" /\ stage' = "import" /\ UNCHANGED <<tagged, marks, plans, cur, mir, src, now>> /\ clearing' = {}
        /\ marked' = [t \in Tag |-> IF t \in Mirrored(mir) THEN {m \in marks : m.of = tagged[t]} ELSE {}]
        /\ work' = {Item(t, "place") : t \in ToPlace(plan, src, mir, now)}
    BY <1>2, <1>5 DEF ReadMarks, repoVars
  <2>2. ASSUME NEW t \in Tag, NEW m \in marked'[t]
        PROVE  m \in marks' /\ m.of = mir'[t]
    <3>1. t \in Mirrored(mir) /\ m \in marks /\ m.of = tagged[t]
      BY <2>1, <2>2
    <3>2. tagged[t] = mir[t]
      BY <2>1, <3>1 DEF RunOK, MirrorOf, Mirrored
    <3>3. QED
      BY <2>1, <3>1, <3>2
  <2>3. UNCHANGED plan /\ Desired(plan)' = Desired(plan)
    BY <2>1, StillFacts
  <2>4. plan'.mark => \A t \in Tag \ Desired(plan)' : MirrorOf(tagged'[t]) = mir'[t]
    BY <2>1, <2>3 DEF NoticeOK
  <2>5. \A i \in work' : i.step = "place"
    BY <2>1 DEF Item
  <2>6. QED
    BY <2>1, <2>2, <2>4, <2>5 DEF NoticeOK
<1>6. CASE ItemStep
  BY <1>6, NoticeItem
<1>7. CASE Barrier
  BY <1>7, NoticeBarrier
<1>8. CASE EndImport /\ cur = Imports
  <2>1. /\ UNCHANGED <<tagged, marks, plans, cur, src, mir, now, marked, clean>>
        /\ stage = "unmark" /\ stage' = "report" /\ work' = {} /\ clearing' = {}
    BY <1>1, <1>8 DEF EndImport, repoVars
  <2>2. UNCHANGED plan /\ Desired(plan)' = Desired(plan)
    BY <2>1, StillFacts
  <2>3. \A t : OnTag(t)' = OnTag(t)
    BY <2>1 DEF OnTag
  <2>4. QED
    BY <2>1, <2>2, <2>3 DEF NoticeOK, Acting
<1>9. CASE UNCHANGED vars \/ (\E s \in Source : UpstreamMoves(s)) \/ EditPolicy \/ Tick
  <2>1. UNCHANGED <<stage, tagged, marks, plans, cur, src, mir, now, marked, clean, work, clearing>>
    BY <1>9 DEF UpstreamMoves, EditPolicy, Tick, vars, runVars, readVars, repoVars
  <2>2. UNCHANGED plan /\ Desired(plan)' = Desired(plan)
    BY <2>1, StillFacts
  <2>3. ToDelete(plan, mir)' = ToDelete(plan, mir) /\ \A t : OnTag(t)' = OnTag(t)
    BY <2>1, <2>2 DEF OnTag, ToDelete, Mirrored
  <2>4. QED
    BY <2>1, <2>2, <2>3 DEF NoticeOK
<1>10. QED
  BY <1>3, <1>4, <1>5, <1>6, <1>7, <1>8, <1>9 DEF Next, RunStep

LEMMA NoticeAlways ==
  ASSUME Apart, KeepsAll
  PROVE  Spec /\ []Unshared => [](Inv /\ RunOK /\ CoverOK /\ ReasonsOK /\ NoticeOK)
<1>1. Init => NoticeOK
  <2> SUFFICES ASSUME Init PROVE NoticeOK
    OBVIOUS
  <2>1. stage = "idle" /\ work = {} /\ clearing = {}
    BY DEF Init
  <2>2. QED
    BY <2>1 DEF NoticeOK, Acting
<1>2. Inv /\ RunOK /\ ReasonsOK /\ NoticeOK /\ Unshared /\ [Next]_vars => NoticeOK'
  BY NoticeStep
<1>3. QED
  BY <1>1, <1>2, CoverAlways, ReasonsAlways, PTL DEF Spec

(***************************************************************************)
(* When a clean run reports, a mirrored tag that the policy does not want  *)
(* is gone in purge mode and carries the mark in mark mode                 *)
(* (CleanRunRetires), where no tag is in excess and no run reads a wanted  *)
(* tag and an unwanted one on the same manifest.  The manifest of an alias *)
(* that could not be moved is such a one: the run clears the mark that the *)
(* earlier one put on the unwanted tag.                                    *)
(***************************************************************************)
THEOREM CleanRunsGiveNotice ==
  ASSUME Apart, KeepsAll
  PROVE  Spec /\ []Unshared => []CleanRunRetires
<1>1. Inv /\ NoticeOK /\ (~plan.mark => CleanRunRetires) => CleanRunRetires
  <2> SUFFICES ASSUME Inv, NoticeOK, plan.mark, stage = "report", clean, NEW t \in Tag \ Desired(plan),
                      MirrorOf(tagged[t]) # Absent
               PROVE  \E m \in marks : m.of = tagged[t]
    BY DEF CleanRunRetires, CleanReport
  <2>1. mir[t] # Absent /\ work = {}
    BY DEF NoticeOK, Acting, Inv, TypeOK
  <2>2. OnTag(t) # {}
    BY <2>1 DEF NoticeOK
  <2>3. QED
    BY <2>2 DEF OnTag
<1>2. QED
  BY <1>1, NoticeAlways, CleanRunsRetire, PTL

\* What this run places carries no mark: its manifest has the time of the run in its stamp.
FreshUnmarked ==
    stage \in Acting => \A t \in ToPlace(plan, src, mir, now), m \in marks : m.of # Stamped(Placed(t), t)

\* The marks of the tags that the run keeps are those it read, then those it has to clear.
TidyOK ==
    /\ stage \in Acting \ {"unmark", "report"} => \A t \in ToKeep(plan, src, mir, now) : OnTag(t) \subseteq marked[t]
    /\ stage = "unmark" /\ clean => \A t \in ToKeep(plan, src, mir, now) : OnTag(t) \subseteq clearing
    /\ stage = "report" /\ clean => \A t \in ToKeep(plan, src, mir, now) : OnTag(t) = {}

LEMMA TidyItem ==
  ASSUME Apart, KeepsAll, Inv, RunOK, ReasonsOK, NoticeOK, TidyOK, Unshared, ItemStep
  PROVE  TidyOK'
<1> DEFINE K == ToKeep(plan, src, mir, now)
<1>1. UNCHANGED <<stage, plans, cur, src, mir, now, marked>> /\ K' = K
      /\ stage \in {"import", "sign", "sbom", "alias", "delete", "retain", "unmark"} /\ stage \in Acting
  <2>1. UNCHANGED <<stage, plans, cur, src, mir, now, marked>>
    BY DEF ItemStep, readVars
  <2>2. stage \in {"import", "sign", "sbom", "alias", "delete", "retain", "unmark"}
    BY DEF ItemStep, Inv, TypeOK
  <2>3. QED
    BY <2>1, <2>2, StillFacts DEF Acting
<1>2. RunOK'
  BY RunItem
<1>3. ASSUME NEW t \in K
      PROVE  tagged[t] = mir[t] /\ tagged'[t] = mir[t] /\ mir[t] # Absent /\ t \in Desired(plan)
  <2>1. tagged[t] = mir[t]
    BY <1>1, <1>3 DEF RunOK
  <2>2. tagged'[t] = mir'[t]
    BY <1>1, <1>2, <1>3 DEF RunOK
  <2>3. QED
    BY <1>1, <1>3, <2>1, <2>2, KeptFacts DEF Desired
\* What is marked is not wanted, and is none of these manifests.
<1>4. ASSUME NEW t \in K, NEW m \in marks', m.of = mir[t]
      PROVE  m \in marks
  <2> SUFFICES ASSUME m \notin marks PROVE FALSE
    OBVIOUS
  <2>1. PICK i \in work : PutMark(i) /\ m.of = tagged[i.tag]
    BY MarksOfItem
  <2>2. i.step = "mark" /\ tagged[i.tag] # Absent
    <3>1. "retain" \in OffSteps
      BY DEF OffSteps
    <3>2. QED
      BY <2>1, <3>1 DEF PutMark, ReasonsOK
  <2>3. i.tag \in ToDelete(plan, mir) /\ plan.mark
    BY <2>2 DEF NoticeOK
  <2>4. i.tag \in Tag \ Desired(plan) /\ mir[i.tag] # Absent
    BY <2>3 DEF ToDelete, Mirrored
  <2>5. MirrorOf(tagged[i.tag]) = mir[i.tag]
    BY <1>1, <2>3, <2>4 DEF NoticeOK
  <2>6. tagged[i.tag] = mir[i.tag]
    BY <2>4, <2>5 DEF MirrorOf
  <2>7. mir[i.tag] # mir[t]
    BY <1>1, <1>3, <2>3, <2>4 DEF Unshared
  <2>8. QED
    BY <1>4, <2>1, <2>6, <2>7
<1>5. \A t \in K : OnTag(t)' \subseteq OnTag(t)
  BY <1>3, <1>4 DEF OnTag
<1> HIDE DEF K
<1>6. CASE stage # "unmark"
  BY <1>1, <1>5, <1>6 DEF TidyOK, K
<1>7. CASE stage = "unmark"
  <2>1. ASSUME clean', NEW t \in K, NEW m \in OnTag(t)'
        PROVE  m \in clearing'
    <3>1. m \in OnTag(t) /\ m \in marks'
      BY <1>5, <2>1 DEF OnTag
    <3>2. m \in clearing
      BY <1>7, <2>1, <3>1, MarksOfItem DEF TidyOK, K
    <3>3. QED
      BY <2>1, <3>1, <3>2, MarksOfItem
  <2>2. QED
    BY <1>1, <1>7, <2>1 DEF TidyOK, K
<1>8. QED
  BY <1>6, <1>7

LEMMA TidyBarrier ==
  ASSUME KeepsAll, Inv, ReasonsOK, TidyOK, Barrier
  PROVE  TidyOK'
<1> DEFINE K == ToKeep(plan, src, mir, now)
<1>1. UNCHANGED <<tagged, marks, plans, cur, src, mir, now, marked, clean>> /\ K' = K
      /\ stage \in Acting \ {"unmark", "report"} /\ stage' \in Acting /\ stage' # "report"
  <2>1. UNCHANGED <<tagged, marks, plans, cur, src, mir, now, marked, clean>>
    BY DEF Barrier, repoVars, readVars
  <2>2. QED
    BY <2>1, StillFacts, BarrierFacts DEF Acting
<1>2. \A t : OnTag(t)' = OnTag(t)
  BY <1>1 DEF OnTag
<1>3. \A t \in K : OnTag(t) \subseteq marked[t]
  BY <1>1 DEF TidyOK
<1>4. ASSUME stage' = "unmark", NEW t \in K, NEW m \in marked[t]
      PROVE  m \in clearing'
  <2>1. t \in Tag /\ t \in Desired(plan) /\ mir[t] # Absent
    BY KeptFacts, PlanFacts DEF Desired, Inv
  <2>2. m.reason = "dropped-from-selection"
    <3>1. m \in Mark
      BY <2>1 DEF Inv, TypeOK
    <3>2. m.reason # "retention-excess"
      BY <2>1 DEF ReasonsOK, OffReasons
    <3>3. QED
      BY <3>1, <3>2 DEF Mark
  <2>3. t \in MarkedFor("dropped-from-selection") \cap Desired(plan)
    BY <2>1, <2>2 DEF MarkedFor, Mirrored
  <2>4. m \in ToUnmark
    BY <2>2, <2>3 DEF ToUnmark
  <2>5. QED
    BY <1>4, <2>4 DEF Barrier
<1> HIDE DEF K
<1>5. QED
  BY <1>1, <1>2, <1>3, <1>4 DEF TidyOK, K

LEMMA TidyStep ==
  ASSUME Apart, KeepsAll, Inv, RunOK, ReasonsOK, NoticeOK, TidyOK, Unshared, [Next]_vars
  PROVE  TidyOK'
<1>1. CASE StartRun \/ ReadSource \/ ReadMirror \/ EndRun \/ Abort \/ (EndImport /\ cur # Imports)
  <2>1. stage' \notin Acting
    BY <1>1 DEF StartRun, ReadSource, ReadMirror, EndRun, Abort, RunDies, EndImport, Acting
  <2>2. QED
    BY <2>1 DEF TidyOK, Acting
<1>2. CASE ReadMarks
  <2>1. /\ stage = "marks" /\ stage' = "import" /\ UNCHANGED <<tagged, marks, plans, cur, mir, src, now>>
        /\ marked' = [t \in Tag |-> IF t \in Mirrored(mir) THEN {m \in marks : m.of = tagged[t]} ELSE {}]
    BY <1>2 DEF ReadMarks, repoVars
  <2>2. ToKeep(plan, src, mir, now)' = ToKeep(plan, src, mir, now)
    BY <2>1, StillFacts
  <2>3. ASSUME NEW t \in ToKeep(plan, src, mir, now)
        PROVE  OnTag(t)' \subseteq marked'[t]
    <3>1. t \in Tag /\ t \in Mirrored(mir)
      BY <2>3, KeptFacts, PlanFacts DEF Mirrored, Inv
    <3>2. QED
      BY <2>1, <3>1 DEF OnTag
  <2>4. QED
    BY <2>1, <2>2, <2>3 DEF TidyOK
<1>3. CASE ItemStep
  BY <1>3, TidyItem
<1>4. CASE Barrier
  BY <1>4, TidyBarrier
<1>5. CASE EndImport /\ cur = Imports
  <2>1. /\ UNCHANGED <<tagged, marks, plans, cur, src, mir, now, clean>>
        /\ stage = "unmark" /\ stage' = "report" /\ clearing = {}
    BY <1>5 DEF EndImport, repoVars
  <2>2. ToKeep(plan, src, mir, now)' = ToKeep(plan, src, mir, now)
    BY <2>1, StillFacts
  <2>3. \A t : OnTag(t)' = OnTag(t)
    BY <2>1 DEF OnTag
  <2>4. QED
    BY <2>1, <2>2, <2>3 DEF TidyOK
<1>6. CASE UNCHANGED vars \/ (\E s \in Source : UpstreamMoves(s)) \/ EditPolicy \/ Tick
  <2>1. UNCHANGED <<stage, tagged, marks, plans, cur, src, mir, now, marked, clean, clearing>>
    BY <1>6 DEF UpstreamMoves, EditPolicy, Tick, vars, runVars, readVars, repoVars
  <2>2. ToKeep(plan, src, mir, now)' = ToKeep(plan, src, mir, now)
    BY <2>1, StillFacts
  <2>3. \A t : OnTag(t)' = OnTag(t)
    BY <2>1 DEF OnTag
  <2>4. QED
    BY <2>1, <2>2, <2>3 DEF TidyOK
<1>7. QED
  BY <1>1, <1>2, <1>3, <1>4, <1>5, <1>6 DEF Next, RunStep

LEMMA TidyAlways ==
  ASSUME Apart, KeepsAll
  PROVE  Spec /\ []Unshared => []TidyOK
<1>1. Init => TidyOK
  BY DEF Init, TidyOK, Acting
<1>2. Inv /\ RunOK /\ ReasonsOK /\ NoticeOK /\ TidyOK /\ Unshared /\ [Next]_vars => TidyOK'
  BY TidyStep
<1>3. QED
  BY <1>1, <1>2, NoticeAlways, PTL DEF Spec

LEMMA AliasAlways == ASSUME Apart PROVE Spec => []AliasOK
<1>1. Init => AliasOK
  BY DEF Init, AliasOK
<1>2. Inv /\ AliasOK /\ [Next]_vars => AliasOK'
  BY AliasStep
<1>3. QED
  BY <1>1, <1>2, InvAlways, PTL DEF Spec

-----------------------------------------------------------------------------
(* A run that has nothing to do, where one import feeds the repository.    *)

\* There is nothing to do in the repository, for the plan and the source as they were read.
Done ==
    /\ \A t \in plan.tags : Classify(src[SourceOf[t]], MirrorOf(tagged[t]), now, VersionOf(plan, t)) = "keep"
    /\ \A t \in plan.tags : (Sbom => <<tagged[t], "sbom">> \in covers) /\ (Signing => Signed(tagged[t]))
    /\ \A t \in Tag \ Desired(plan) : MirrorOf(tagged[t]) = Absent \/ (plan.mark /\ OnTag(t) # {})
    /\ \A t \in Desired(plan) : OnTag(t) = {}
    /\ \A a \in DOMAIN plan.alias : tagged[a] = tagged[plan.alias[a]]

\* What the run has read of the repository so far is what is there.
ReadsOK ==
    /\ stage \in {"marks"} \cup Acting => covered = covers /\ \A t \in Tag : mir[t] = MirrorOf(tagged[t])
    /\ stage \in Acting => \A t \in Tag : marked[t] = IF t \in Mirrored(mir) THEN OnTag(t) ELSE {}

SteadyOK ==
    steady => /\ policy = plans /\ clock = now /\ src = Inspected
              /\ Done /\ ReadsOK
              /\ clearing = {} /\ \A i \in work : i.step = "alias"

LEMMA DoneStays ==
  ASSUME Done, UNCHANGED <<plans, cur, src, now, tagged, covers, marks>>
  PROVE  Done'
<1>1. UNCHANGED plan
  BY DEF plan
<1> HIDE DEF plan
<1>2. \A t : OnTag(t)' = OnTag(t) /\ Signed(tagged[t])' = Signed(tagged[t])
  BY DEF OnTag, Signed
<1>3. Desired(plan)' = Desired(plan)
  BY <1>1 DEF Desired
<1>4. \A t \in plan'.tags : Classify(src'[SourceOf[t]], MirrorOf(tagged'[t]), now', VersionOf(plan', t)) = "keep"
  BY <1>1 DEF Done
<1>5. QED
  BY <1>1, <1>2, <1>3, <1>4 DEF Done

\* A clean run leaves nothing to do.
LEMMA CleanRunDone ==
  ASSUME Inv, RunOK, CoverOK, AliasOK, TidyOK, FreshUnmarked, CleanRunRetires, CleanReport
  PROVE  Done
<1>1. stage = "report" /\ stage \in Acting /\ clean /\ work = {} /\ plan.tags \subseteq Tag
  BY PlanFacts DEF CleanReport, Acting, Inv, TypeOK
<1>2. ASSUME NEW t \in ToKeep(plan, src, mir, now)
      PROVE  /\ Classify(src[SourceOf[t]], MirrorOf(tagged[t]), now, VersionOf(plan, t)) = "keep"
             /\ OnTag(t) = {}
  <2>1. tagged[t] = mir[t] /\ mir[t].base # NoBase /\ mir[t] # Absent
    BY <1>1, <1>2, KeptFacts DEF RunOK
  <2>2. MirrorOf(tagged[t]) = mir[t]
    BY <2>1 DEF MirrorOf
  <2>3. Decision(plan, src, mir, now, t) = "keep"
    BY <1>2 DEF ToKeep, ToPlace
  <2>4. QED
    BY <1>1, <1>2, <2>2, <2>3 DEF Decision, TidyOK
<1>3. ASSUME NEW t \in ToPlace(plan, src, mir, now)
      PROVE  /\ Classify(src[SourceOf[t]], MirrorOf(tagged[t]), now, VersionOf(plan, t)) = "keep"
             /\ OnTag(t) = {}
  <2>1. t \in Tag /\ tagged[t] = Stamped(Placed(t), t)
    BY <1>1, <1>3, PlaceOrKeep DEF RunOK, Fresh
  <2>2. tagged[t] \in Manifest /\ tagged[t].base = src[SourceOf[t]].digest /\ tagged[t].version = VersionOf(plan, t)
    BY <2>1, PlacedFacts DEF Inv
  <2>3. src[SourceOf[t]].digest \in Digest
    <3>1. src[SourceOf[t]] \in Artifact
      BY <2>1, PlanAssumption DEF Inv, TypeOK
    <3>2. QED
      BY <3>1 DEF Artifact
  <2>4. tagged[t] # Absent /\ tagged[t].base # NoBase
    BY <2>2, <2>3, PlanAssumption
  <2>5. MirrorOf(tagged[t]) = tagged[t]
    BY <2>4 DEF MirrorOf
  <2>6. Classify(src[SourceOf[t]], tagged[t], now, VersionOf(plan, t)) = "keep"
    BY <2>2, <2>4 DEF Classify
  <2>7. OnTag(t) = {}
    BY <1>1, <1>3, <2>1 DEF FreshUnmarked, OnTag
  <2>8. QED
    BY <2>5, <2>6, <2>7
<1>4. \A t \in plan.tags : /\ Classify(src[SourceOf[t]], MirrorOf(tagged[t]), now, VersionOf(plan, t)) = "keep"
                           /\ OnTag(t) = {}
  BY <1>2, <1>3, PlaceOrKeep
<1>5. \A a \in DOMAIN plan.alias : tagged[a] = tagged[plan.alias[a]] /\ plan.alias[a] \in plan.tags
  BY <1>1, PlanFacts DEF AliasOK, Inv
<1>6. \A t \in Desired(plan) : OnTag(t) = {}
  <2> SUFFICES ASSUME NEW a \in DOMAIN plan.alias PROVE OnTag(a) = {}
    BY <1>4 DEF Desired
  <2>1. OnTag(a) = OnTag(plan.alias[a])
    BY <1>5 DEF OnTag
  <2>2. QED
    BY <1>4, <1>5, <2>1
<1>7. \A t \in Tag \ Desired(plan) : MirrorOf(tagged[t]) = Absent \/ (plan.mark /\ OnTag(t) # {})
  BY DEF CleanRunRetires, OnTag
<1>8. \A t \in plan.tags : (Sbom => <<tagged[t], "sbom">> \in covers) /\ (Signing => Signed(tagged[t]))
  BY CoveredTags
<1>9. QED
  BY <1>4, <1>5, <1>6, <1>7, <1>8 DEF Done

\* Where nothing is to do, no stage has an item but that of the aliases.
LEMMA NothingToDo ==
  ASSUME KeepsAll, Inv, ReasonsOK, Done, ReadsOK
  PROVE  /\ stage \in {"marks"} \cup Acting => ToPlace(plan, src, mir, now) = {}
         /\ stage \in Acting => /\ ToSign = {} /\ ToSbom = {} /\ ToRetain = {} /\ ToUnmark = {}
                                /\ ToRetire = {}
<1>1. plan.tags \subseteq Tag
  BY PlanFacts DEF Inv
<1>2. ASSUME stage \in {"marks"} \cup Acting
      PROVE  ToPlace(plan, src, mir, now) = {}
  <2>1. ASSUME NEW t \in plan.tags
        PROVE  Decision(plan, src, mir, now, t) = "keep"
    <3>1. mir[t] = MirrorOf(tagged[t])
      BY <1>1, <1>2 DEF ReadsOK
    <3>2. QED
      BY <3>1 DEF Decision, Done
  <2>2. QED
    BY <2>1 DEF ToPlace
<1>3. ASSUME stage \in Acting, NEW t \in ToKeep(plan, src, mir, now)
      PROVE  mir[t] = tagged[t] /\ t \in plan.tags /\ covered = covers
  <2>1. t \in plan.tags /\ mir[t] # Absent
    BY <1>3, KeptFacts
  <2>2. mir[t] = MirrorOf(tagged[t]) /\ covered = covers
    BY <1>1, <1>3, <2>1 DEF ReadsOK
  <2>3. QED
    BY <2>1, <2>2 DEF MirrorOf
<1>4. ASSUME stage \in Acting
      PROVE  ToSign = {} /\ ToSbom = {}
  <2>1. ASSUME NEW t \in ToKeep(plan, src, mir, now)
        PROVE  (Sbom => <<mir[t], "sbom">> \in covered) /\ (Signing => Attested(mir[t]))
    <3>1. (Sbom => <<tagged[t], "sbom">> \in covers) /\ (Signing => Signed(tagged[t]))
      BY <1>3, <1>4, <2>1 DEF Done
    <3>2. QED
      BY <1>3, <1>4, <2>1, <3>1 DEF Signed, Attested
  <2>2. QED
    BY <2>1 DEF ToSign, ToSbom
<1>5. ASSUME stage \in Acting, NEW t \in ToDelete(plan, mir)
      PROVE  plan.mark /\ marked[t] # {}
  <2>1. t \in Tag \ Desired(plan) /\ t \in Mirrored(mir) /\ mir[t] # Absent
    BY <1>5 DEF ToDelete, Mirrored
  <2>2. mir[t] = MirrorOf(tagged[t]) /\ marked[t] = OnTag(t)
    BY <1>5, <2>1 DEF ReadsOK
  <2>3. QED
    BY <2>1, <2>2 DEF Done
<1>6. stage \in Acting => ToRetire = {}
  BY <1>5 DEF ToRetire, ToMark
<1>7. ToRetain = {}
  BY NothingInExcess DEF ToRetain
<1>8. ASSUME stage \in Acting, NEW m \in ToUnmark
      PROVE  FALSE
  <2>1. PICK t \in Desired(plan) : t \in Tag /\ mir[t] # Absent /\ m \in marked[t]
    BY <1>8, ClearedFacts
  <2>2. m \in OnTag(t)
    BY <1>8, <2>1 DEF ReadsOK, Mirrored
  <2>3. QED
    BY <2>1, <2>2 DEF Done
<1>9. QED
  BY <1>2, <1>4, <1>6, <1>7, <1>8

LEMMA SteadyItem ==
  ASSUME Inv, SteadyOK, ItemStep
  PROVE  SteadyOK'
<1>1. UNCHANGED <<policy, clock, upstream, stage, plans, cur, src, mir, now, covered, marked, steady>>
  BY DEF ItemStep, worldVars, readVars
<1>2. ASSUME steady, NEW i \in work, SetAlias(i) \/ NoTag(i) \/ OpFails(i)
      PROVE  UNCHANGED <<tagged, covers, marks, clearing>> /\ work' \subseteq work
  <2>1. UNCHANGED <<covers, marks, clearing>> /\ GoOn(i, "done", Absent)
    BY <1>2 DEF SetAlias, NoTag, OpFails, repoVars
  <2>2. work' \subseteq work
    BY <2>1 DEF GoOn
  <2>3. i.step = "alias" /\ i.tag \in DOMAIN plan.alias
    <3>1. i.step = "alias" /\ i.step \in StepsIn[stage]
      BY <1>2 DEF SteadyOK, Inv, WorkOK
    <3>2. stage \in {"import", "sign", "sbom", "alias", "delete", "retain"}
      BY <1>2 DEF Inv, TypeOK
    <3>3. stage = "alias"
      BY <3>1, <3>2 DEF StepsIn
    <3>4. QED
      BY <3>1, <3>3 DEF Inv, WorkOK
  <2>4. tagged[i.tag] = tagged[plan.alias[i.tag]]
    BY <1>2, <2>3 DEF SteadyOK, Done
  <2>5. [tagged EXCEPT ![i.tag] = tagged[plan.alias[i.tag]]] = tagged
    BY <2>4 DEF Inv, TypeOK
  <2>6. tagged' = tagged
    BY <1>2, <2>5 DEF SetAlias, NoTag, OpFails, repoVars
  <2>7. QED
    BY <2>1, <2>2, <2>6
<1>3. ASSUME steady
      PROVE  \E i \in work : SetAlias(i) \/ NoTag(i) \/ OpFails(i)
  <2>1. \A i \in work : ~(Place(i) \/ Stamp(i) \/ AttachSbom(i) \/ SignSbom(i) \/ Sign(i) \/ DeleteTag(i) \/ PutMark(i))
    BY <1>3 DEF SteadyOK, Place, Stamp, AttachSbom, SignSbom, Sign, DeleteTag, PutMark
  <2>2. clearing = {}
    BY <1>3 DEF SteadyOK
  <2>3. QED
    BY <2>1, <2>2 DEF ItemStep
<1>4. ASSUME steady
      PROVE  UNCHANGED <<tagged, covers, marks, clearing>> /\ work' \subseteq work
  BY <1>2, <1>3, <1>4
<1>5. ASSUME steady
      PROVE  Done' /\ ReadsOK'
  <2>1. Done'
    BY <1>1, <1>4, <1>5, DoneStays DEF SteadyOK
  <2>2. \A t : OnTag(t)' = OnTag(t)
    BY <1>4, <1>5 DEF OnTag
  <2>3. ReadsOK'
    BY <1>1, <1>4, <1>5, <2>2 DEF SteadyOK, ReadsOK, Mirrored
  <2>4. QED
    BY <2>1, <2>3
<1>6. Inspected' = Inspected
  BY <1>1 DEF Inspected
<1>7. QED
  BY <1>1, <1>4, <1>5, <1>6 DEF SteadyOK

LEMMA SteadyStep ==
  ASSUME Imports = 1, KeepsAll, Inv, RunOK, CoverOK, AliasOK, ReasonsOK, TidyOK, FreshUnmarked, CleanRunRetires,
         SteadyOK, [Next]_vars
  PROVE  SteadyOK'
<1>1. cur = 1 /\ (work # {} => stage \in {"import", "sign", "sbom", "alias", "delete", "retain"})
  BY DEF Inv, TypeOK
<1>2. steady => /\ policy = plans /\ clock = now /\ src = Inspected
                /\ Done /\ ReadsOK /\ clearing = {} /\ \A i \in work : i.step = "alias"
  BY DEF SteadyOK
\* It remains to see to what the run has read.
<1>3. ASSUME steady' = steady,
             steady => /\ UNCHANGED <<tagged, covers, marks, plans, cur, src, now, policy, clock, upstream>>
                       /\ ReadsOK' /\ clearing' = {} /\ \A i \in work' : i.step = "alias"
      PROVE  SteadyOK'
  <2>1. steady => Done'
    BY <1>2, <1>3, DoneStays
  <2>2. steady => Inspected' = Inspected
    BY <1>3 DEF Inspected
  <2>3. QED
    BY <1>2, <1>3, <2>1, <2>2 DEF SteadyOK
<1>4. ASSUME UNCHANGED <<tagged, marks, covers>>
      PROVE  \A t : OnTag(t)' = OnTag(t) /\ MirrorOf(tagged'[t]) = MirrorOf(tagged[t])
  BY <1>4 DEF OnTag
<1>5. CASE StartRun \/ ReadSource
  <2>1. /\ UNCHANGED <<tagged, covers, marks, policy, clock, upstream, clearing, steady, work>> /\ stage' \in {"source", "mirror"}
        /\ stage \in {"idle", "source"}
    BY <1>5 DEF StartRun, ReadSource, repoVars, worldVars
  <2>2. steady => UNCHANGED <<plans, cur, src, now>>
    BY <1>1, <1>2, <1>5 DEF StartRun, ReadSource
  <2>3. ReadsOK'
    BY <2>1 DEF ReadsOK, Acting
  <2>4. QED
    BY <1>2, <1>3, <2>1, <2>2, <2>3
<1>6. CASE ReadMirror
  <2>1. /\ UNCHANGED <<tagged, covers, marks, policy, clock, upstream, clearing, steady, work, plans, cur, src, now>>
        /\ stage' = "marks" /\ mir' = [t \in Tag |-> MirrorOf(tagged[t])] /\ covered' = covers
    BY <1>6 DEF ReadMirror, repoVars, worldVars
  <2>2. \A t \in Tag : mir'[t] = MirrorOf(tagged'[t])
    BY <2>1
  <2>3. ReadsOK'
    BY <2>1, <2>2 DEF ReadsOK, Acting
  <2>4. QED
    BY <1>2, <1>3, <2>1, <2>3
<1>7. CASE ReadMarks
  <2>1. /\ UNCHANGED <<tagged, covers, marks, policy, clock, upstream, clearing, steady, plans, cur, src, now, mir, covered>>
        /\ stage = "marks" /\ stage' = "import"
        /\ marked' = [t \in Tag |-> IF t \in Mirrored(mir) THEN {m \in marks : m.of = tagged[t]} ELSE {}]
        /\ work' = {Item(t, "place") : t \in ToPlace(plan, src, mir, now)}
    BY <1>7 DEF ReadMarks, repoVars, worldVars
  <2>2. ASSUME steady
        PROVE  ReadsOK' /\ work' = {}
    <3>1. ReadsOK /\ ToPlace(plan, src, mir, now) = {}
      BY <1>2, <2>1, <2>2, NothingToDo
    <3>2. covered' = covers' /\ \A t \in Tag : mir'[t] = MirrorOf(tagged'[t])
      BY <2>1, <3>1, <1>4 DEF ReadsOK
    <3>3. Mirrored(mir)' = Mirrored(mir)
      BY <2>1 DEF Mirrored
    <3>4. \A t \in Tag : marked'[t] = IF t \in Mirrored(mir)' THEN OnTag(t)' ELSE {}
      BY <2>1, <3>3, <1>4 DEF OnTag
    <3>5. QED
      BY <2>1, <3>1, <3>2, <3>4 DEF ReadsOK
  <2>3. QED
    BY <1>2, <1>3, <2>1, <2>2
<1>8. CASE ItemStep
  BY <1>8, SteadyItem
<1>9. CASE Barrier
  <2>1. /\ UNCHANGED <<tagged, covers, marks, policy, clock, upstream, steady, plans, cur, src, now, mir, covered, marked>>
        /\ stage \in Acting /\ stage' \in Acting /\ work' = ItemsOf(stage')
        /\ stage' \in {"sign", "sbom", "alias", "delete", "retain", "unmark"}
        /\ clearing' = IF stage' = "unmark" THEN ToUnmark ELSE {}
    BY <1>9, BarrierFacts DEF Barrier, repoVars, worldVars, readVars, Acting
  <2>2. ASSUME steady
        PROVE  clearing' = {} /\ \A i \in work' : i.step = "alias"
    <3>1. ToSign = {} /\ ToSbom = {} /\ ToRetain = {} /\ ToUnmark = {} /\ ToRetire = {}
      BY <1>2, <2>1, <2>2, NothingToDo
    <3>2. CASE stage' = "alias"
      <4>1. work' = {Item(a, "alias") : a \in DOMAIN plan.alias}
        BY <2>1, <3>2 DEF ItemsOf
      <4>2. QED
        BY <2>1, <3>2, <4>1 DEF Item
    <3>3. CASE stage' # "alias"
      BY <2>1, <3>1, <3>3 DEF ItemsOf
    <3>4. QED
      BY <3>2, <3>3
  <2>3. steady => ReadsOK'
    BY <1>2, <1>4, <2>1 DEF ReadsOK, Mirrored
  <2>4. QED
    BY <1>3, <2>1, <2>2, <2>3
<1>10. CASE EndImport
  <2>1. /\ UNCHANGED <<tagged, covers, marks, policy, clock, upstream, clearing, steady, work, plans, src, now, mir, covered, marked>>
        /\ stage = "unmark" /\ stage' = "report" /\ cur' = cur
    BY <1>1, <1>10 DEF EndImport, repoVars, worldVars
  <2>2. steady => ReadsOK'
    BY <1>2, <1>4, <2>1 DEF ReadsOK, Mirrored, Acting
  <2>3. QED
    BY <1>2, <1>3, <2>1, <2>2
<1>11. CASE EndRun
  <2>1. /\ UNCHANGED <<tagged, covers, marks, policy, clock, upstream, clearing, work, plans, cur, src, now>>
        /\ stage = "report" /\ stage' = "idle"
        /\ steady' = (clean /\ policy = plans /\ src = Inspected /\ clock = now)
    BY <1>11 DEF EndRun, repoVars, worldVars, readVars
  <2>2. work = {} /\ clearing = {}
    BY <2>1 DEF Inv, TypeOK
  <2>3. steady' => Done
    BY <2>1, CleanRunDone DEF CleanReport
  <2>4. steady' => Done'
    BY <2>1, <2>3, DoneStays
  <2>5. ReadsOK' /\ Inspected' = Inspected
    BY <2>1 DEF ReadsOK, Acting, Inspected
  <2>6. QED
    BY <2>1, <2>2, <2>4, <2>5 DEF SteadyOK
<1>12. CASE Abort \/ (\E s \in Source : UpstreamMoves(s)) \/ EditPolicy \/ Tick
  <2>1. steady' = FALSE
    BY <1>12 DEF Abort, RunDies, UpstreamMoves, EditPolicy, Tick
  <2>2. QED
    BY <2>1 DEF SteadyOK
<1>13. CASE UNCHANGED vars
  <2>1. UNCHANGED <<tagged, covers, marks, policy, clock, upstream, clearing, steady, work, plans, cur, src, now, mir, covered,
                    marked, stage>>
    BY <1>13 DEF vars, worldVars, repoVars, runVars, readVars
  <2>2. steady => ReadsOK'
    BY <1>2, <1>4, <2>1 DEF ReadsOK, Mirrored
  <2>3. QED
    BY <1>2, <1>3, <2>1, <2>2
<1>14. QED
  BY <1>5, <1>6, <1>7, <1>8, <1>9, <1>10, <1>11, <1>12, <1>13 DEF Next, RunStep

(***************************************************************************)
(* When nothing changed since a clean run began, the next run has nothing  *)
(* to do (Idempotent), where one import feeds the repository, no tag is in *)
(* excess, no run reads a wanted tag and an unwanted one on the same       *)
(* manifest, and none places a manifest that already carries a mark.       *)
(***************************************************************************)
THEOREM RunsAreIdempotent ==
  ASSUME Imports = 1, Apart, KeepsAll
  PROVE  Spec /\ []Unshared /\ []FreshUnmarked => []Idempotent
<1>1. Init => SteadyOK
  BY DEF Init, SteadyOK
<1>2. Inv /\ RunOK /\ CoverOK /\ AliasOK /\ ReasonsOK /\ TidyOK /\ FreshUnmarked /\ CleanRunRetires /\ SteadyOK /\ [Next]_vars
          => SteadyOK'
  BY SteadyStep
<1>3. Inv /\ SteadyOK => Idempotent
  <2> SUFFICES ASSUME Inv, SteadyOK, steady, stage \in {"import", "sign", "sbom", "delete", "retain", "unmark"}
               PROVE  work = {} /\ clearing = {}
    BY DEF Idempotent
  <2>1. ASSUME NEW i \in work
        PROVE  FALSE
    <3>1. i.step = "alias" /\ i.step \in StepsIn[stage] /\ stage # "unmark"
      BY <2>1 DEF SteadyOK, Inv, WorkOK, TypeOK
    <3>2. QED
      BY <3>1 DEF StepsIn
  <2>2. QED
    BY <2>1 DEF SteadyOK
<1>4. QED
  BY <1>1, <1>2, <1>3, NoticeAlways, TidyAlways, AliasAlways, CleanRunsGiveNotice, PTL DEF Spec

(***************************************************************************)
(* Where every policy purges and no tag is in excess there is no mark at   *)
(* all, and the next run has nothing to do (Idempotent) without the        *)
(* conditions on marks.                                                    *)
(***************************************************************************)
THEOREM PurgingRunsAreIdempotent ==
  ASSUME Imports = 1, Apart, KeepsAll, PurgeMode
  PROVE  Spec => []Idempotent
<1>1. Inv => Unshared
  BY DEF Unshared, PurgeMode, Inv, TypeOK, plan
<1>2. Inv /\ ReasonsOK => FreshUnmarked
  <2> SUFFICES ASSUME Inv, ReasonsOK PROVE marks = {}
    BY DEF FreshUnmarked
  <2>1. ASSUME NEW m \in marks
        PROVE  FALSE
    <3>1. m \in Mark /\ m.reason \notin OffReasons
      BY <2>1 DEF Inv, TypeOK, ReasonsOK
    <3>2. OffReasons = {"dropped-from-selection", "retention-excess"}
      BY DEF OffReasons
    <3>3. QED
      BY <3>1, <3>2 DEF Mark
  <2>2. QED
    BY <2>1
<1>3. QED
  BY <1>1, <1>2, InvAlways, ReasonsAlways, RunsAreIdempotent, PTL

-----------------------------------------------------------------------------
(* Where the policies agree on the aliases, what a run reads under a tag   *)
(* was stamped for the tag or for the target of the alias.                 *)

AliasesFixed == \A p, q \in Policies, n, k \in 1 .. Imports : p[n].alias = q[k].alias

Fixed == AliasesFixed /\ NamesApart /\ ~ForeignStamp

\* The tag that a tag's manifests are stamped for.
TargetOf(t) == IF t \in DOMAIN FirstPolicy[1].alias THEN FirstPolicy[1].alias[t] ELSE t

NamedOK ==
    /\ \A t \in Tag : tagged[t] # Absent => tagged[t].name \in {0, TargetOf(t)}
    /\ \A t \in Tag : mir[t] # Absent => mir[t].name = TargetOf(t)

LEMMA TargetFacts ==
  ASSUME Fixed, TypeOK
  PROVE  /\ \A t \in Tag \ DOMAIN plan.alias : TargetOf(t) = t
         /\ \A a \in DOMAIN plan.alias : TargetOf(a) = plan.alias[a] /\ TargetOf(plan.alias[a]) = plan.alias[a]
         /\ \A t \in plan.tags : TargetOf(t) = t
<1>1. plan.alias = FirstPolicy[1].alias
  <2>1. plans \in Policies /\ cur \in 1 .. Imports /\ FirstPolicy \in Policies /\ 1 \in 1 .. Imports
    BY ReconcileAssumption DEF TypeOK
  <2>2. QED
    BY <2>1 DEF Fixed, AliasesFixed, plan
<1>2. \A t \in plan.tags : t \notin DOMAIN plan.alias
  BY NamesFacts, ApartFacts DEF Fixed
<1>3. \A a \in DOMAIN plan.alias : plan.alias[a] \in plan.tags
  BY PlanFacts
<1>4. QED
  BY <1>1, <1>2, <1>3 DEF TargetOf

LEMMA NamedStep ==
  ASSUME Fixed, Inv, NamedOK, [Next]_vars
  PROVE  NamedOK'
<1>1. CASE ItemStep
  <2>1. ItemShape /\ mir' = mir
    BY <1>1, ItemShapes DEF ItemStep, readVars
  <2>2. ASSUME NEW t \in Tag, NEW m, tagged' = [tagged EXCEPT ![t] = m], m # Absent => m.name \in {0, TargetOf(t)}
        PROVE  NamedOK'
    <3>1. \A u \in Tag : tagged'[u] = IF u = t THEN m ELSE tagged[u]
      BY <2>2 DEF Inv, TypeOK
    <3>2. QED
      BY <2>1, <2>2, <3>1 DEF NamedOK
  <2>3. ASSUME NEW i \in work
        PROVE  /\ i.tag \in Tag /\ Placed(i.tag).name = 0 /\ Stamped(Placed(i.tag), i.tag).name = i.tag
               /\ stage = "import" => TargetOf(i.tag) = i.tag
    <3>1. i.tag \in Tag /\ (stage = "import" => i.tag \in plan.tags)
      BY PlaceOrKeep DEF Inv, TypeOK, Items, WorkOK
    <3>2. QED
      BY <3>1, PlacedFacts, TargetFacts DEF Inv
  <2>4. ASSUME NEW i \in work, PlaceShape(i)
        PROVE  NamedOK'
    BY <2>2, <2>3, <2>4 DEF PlaceShape
  <2>5. ASSUME NEW i \in work, StampShape(i)
        PROVE  NamedOK'
    BY <2>2, <2>3, <2>5 DEF StampShape
  <2>6. ASSUME NEW i \in work, AliasShape(i)
        PROVE  NamedOK'
    <3>1. i.tag \in DOMAIN plan.alias
      BY <2>6 DEF AliasShape, Inv, WorkOK
    <3>2. plan.alias[i.tag] \in Tag /\ TargetOf(i.tag) = TargetOf(plan.alias[i.tag])
      BY <3>1, PlanFacts, TargetFacts DEF Inv
    <3>3. tagged[plan.alias[i.tag]] # Absent => tagged[plan.alias[i.tag]].name \in {0, TargetOf(i.tag)}
      BY <3>2 DEF NamedOK
    <3>4. QED
      BY <2>2, <2>3, <2>6, <3>3 DEF AliasShape
  <2>7. ASSUME NEW i \in work, DeleteShape(i)
        PROVE  NamedOK'
    BY <2>2, <2>3, <2>7 DEF DeleteShape
  <2>8. CASE UNCHANGED tagged
    BY <2>1, <2>8 DEF NamedOK
  <2>9. QED
    BY <2>1, <2>4, <2>5, <2>6, <2>7, <2>8 DEF ItemShape, ClearShape, AttachShape, MarkShape, GiveUpShape
<1>2. CASE ReadMirror
  <2>1. tagged' = tagged /\ mir' = [t \in Tag |-> MirrorOf(tagged[t])]
    BY <1>2 DEF ReadMirror, repoVars
  <2>2. ASSUME NEW t \in Tag, mir'[t] # Absent
        PROVE  mir'[t].name = TargetOf(t)
    <3>1. mir'[t] = tagged[t] /\ tagged[t] # Absent /\ tagged[t].base # NoBase
      BY <2>1, <2>2 DEF MirrorOf
    <3>2. tagged[t].name # 0
      BY <3>1 DEF Inv, BaseOK, Fixed
    <3>3. QED
      BY <3>1, <3>2 DEF NamedOK
  <2>3. QED
    BY <2>1, <2>2 DEF NamedOK
<1>3. CASE ~ItemStep /\ ~ReadMirror
  <2>1. UNCHANGED <<tagged, mir>>
    BY <1>3 DEF Next, RunStep, StartRun, ReadSource, ReadMarks, Barrier, EndImport, EndRun, Abort, RunDies,
                UpstreamMoves, EditPolicy, Tick, vars, repoVars, runVars, readVars
  <2>2. QED
    BY <2>1 DEF NamedOK
<1>4. QED
  BY <1>1, <1>2, <1>3

(***************************************************************************)
(* Where the policies agree on the aliases and upstream images carry no    *)
(* base digest of their own, no run reads a wanted tag and an unwanted one *)
(* on the same manifest.                                                   *)
(***************************************************************************)
THEOREM FixedAliasesUnshared ==
  ASSUME Fixed
  PROVE  Spec => []Unshared
<1>1. Init => NamedOK
  <2> SUFFICES ASSUME Init PROVE NamedOK
    OBVIOUS
  <2>1. \A t \in Tag : tagged[t] = Absent /\ mir[t] = Absent
    BY DEF Init
  <2>2. QED
    BY <2>1 DEF NamedOK
<1>2. Inv /\ NamedOK /\ [Next]_vars => NamedOK'
  BY NamedStep
<1>3. Inv /\ NamedOK => Unshared
  <2> SUFFICES ASSUME Inv, NamedOK, NEW t \in Desired(plan), NEW u \in Tag \ Desired(plan), mir[t] # Absent, mir[u] = mir[t]
               PROVE  FALSE
    BY DEF Unshared
  <2>1. t \in Tag /\ u \in Tag \ DOMAIN plan.alias /\ u \notin plan.tags
    BY PlanFacts DEF Desired, Inv
  <2>2. mir[t].name = TargetOf(t) /\ mir[t].name = u
    BY <2>1, TargetFacts DEF NamedOK, Inv
  <2>3. TargetOf(t) \in Desired(plan)
    BY TargetFacts, PlanFacts DEF Desired, Inv
  <2>4. QED
    BY <2>2, <2>3
<1>4. QED
  BY <1>1, <1>2, <1>3, InvAlways, PTL DEF Spec

(***************************************************************************)
(* In either mode, when a clean run reports, a mirrored tag that the       *)
(* policy does not want is gone or carries the mark (CleanRunRetires),     *)
(* where no tag is in excess, the policies agree on the aliases and        *)
(* upstream images carry no base digest of their own.                      *)
(***************************************************************************)
THEOREM FixedAliasesGiveNotice ==
  ASSUME Fixed, KeepsAll
  PROVE  Spec => []CleanRunRetires
<1>1. Apart
  BY NamesFacts DEF Fixed
<1>2. QED
  BY <1>1, FixedAliasesUnshared, CleanRunsGiveNotice, PTL
=============================================================================
