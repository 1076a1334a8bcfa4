------------------------- MODULE ScanReferrersProofs -------------------------
(***************************************************************************)
(* Proofs about ScanReferrers for every set of images, tags, attachers and *)
(* collectors and for every bound.                                         *)
(***************************************************************************)
EXTENDS ScanReferrers, TLAPS, FiniteSetTheorems, WellFoundedInduction

-----------------------------------------------------------------------------
\* The inductive invariant: what is attached, what each client holds, and that what a
\* collector is about to delete may go, whatever the others do in between.
Report == [digest : Digests, subject : Manifests, tool : Tools, time : Nat]

HandedIn == [stage : {"inspect"}, ref : AttachRefs, about : Manifests, report : Reports]
Pinned   == [stage : {"put", "attest"}, ref : AttachRefs, about : Manifests, report : Reports,
             subject : Manifests, time : Nat]
Walk     == [stage : {"list", "delete"}, time : Nat, todo : SUBSET Tags, victims : SUBSET Report]

RegistryOK ==
    /\ now \in 0 .. MaxTime /\ tags \in [Tags -> Manifests]
    /\ reports \subseteq Report /\ IsFiniteSet(reports)
    /\ \A r \in reports : r.time <= now
    /\ \A r, q \in reports : r.digest = q.digest => r = q
    /\ \A p \in predicates : p.subject \in Manifests /\ p.time \in Nat /\ p.time <= now

AttachOK ==
    /\ attach \in [Attachers -> {Idle} \cup HandedIn \cup Pinned]
    /\ \A c \in Attachers : attach[c] \in Pinned => attach[c].time <= now

GcOK ==
    /\ gc \in [Collectors -> {Idle} \cup Walk]
    /\ \A g \in Collectors : gc[g] \in Walk => gc[g].time <= now
    /\ \A g \in Collectors : gc[g].stage = "delete" => gc[g].victims # {}

\* A report that may go.
Spent(r) == now - r.time > OlderThan /\ Cardinality(NewerPeers(r)) >= Keep

VictimsSpent == \A g \in Collectors : gc[g].stage = "delete" => \A r \in gc[g].victims : Spent(r)

Inv == RegistryOK /\ AttachOK /\ GcOK /\ VictimsSpent

-----------------------------------------------------------------------------
\* Every set of naturals that is not empty has a least element.
LEMMA NatLeast ==
  ASSUME NEW T \in SUBSET Nat, T # {}
  PROVE  \E x \in T : \A y \in T : x <= y
<1>1. PICK x \in T : \A y \in T : ~ (<<y, x>> \in OpToRel(<, Nat))
  BY NatLessThanWellFounded, WFMin, Zenon
<1>2. \A y \in T : ~ (y < x)
  BY <1>1 DEF OpToRel
<1>3. QED
  BY <1>2

\* The report that a collector takes first exists.
LEMMA LeastDigest ==
  ASSUME NEW S \in SUBSET Report, S # {}
  PROVE  (CHOOSE x \in S : \A y \in S : x.digest <= y.digest) \in S
<1> DEFINE T == {x.digest : x \in S}
<1>1. T \in SUBSET Nat /\ T # {}
  BY ReferrersAssumption DEF Report
<1>2. PICK d \in T : \A e \in T : d <= e
  BY <1>1, NatLeast
<1>3. PICK x \in S : x.digest = d
  OBVIOUS
<1>4. \A y \in S : x.digest <= y.digest
  BY <1>2, <1>3
<1>5. QED
  BY <1>4

\* The keys by which reports are ordered are numbers.
LEMMA ReportKeys ==
  ASSUME NEW r \in Report
  PROVE  r.digest \in Nat /\ r.time \in Nat
  BY ReferrersAssumption DEF Report

LEMMA NewerTransitive ==
  ASSUME NEW a \in Report, NEW b \in Report, NEW c \in Report, Newer(a, b), Newer(b, c)
  PROVE  Newer(a, c)
  BY ReportKeys DEF Newer

LEMMA NewerIrreflexive ==
  ASSUME NEW a \in Report
  PROVE  ~ Newer(a, a)
  BY ReportKeys DEF Newer

\* What may go still may when time passes and reports are attached.
LEMMA SpentStays ==
  ASSUME NEW r \in Report, Spent(r), RegistryOK, now' \in Nat, now <= now',
         reports \subseteq reports', IsFiniteSet(reports')
  PROVE  Spent(r)'
<1>1. NewerPeers(r) \subseteq NewerPeers(r)' /\ NewerPeers(r)' \subseteq reports'
  BY DEF NewerPeers
<1>2. IsFiniteSet(NewerPeers(r)')
  BY <1>1, FS_Subset
<1>3. IsFiniteSet(NewerPeers(r))
  BY <1>1, <1>2, FS_Subset
<1>4. Cardinality(NewerPeers(r)) <= Cardinality(NewerPeers(r)')
  BY <1>1, <1>2, FS_Subset
<1>5. Cardinality(NewerPeers(r)) \in Nat /\ Cardinality(NewerPeers(r)') \in Nat
  BY <1>2, <1>3, FS_CardinalityType
<1>6. now - r.time > OlderThan /\ now' - r.time > OlderThan
  BY ReferrersAssumption DEF Spent, Report, RegistryOK
<1>7. QED
  BY <1>4, <1>5, <1>6, ReferrersAssumption DEF Spent

\* What may go still may when another such report has gone: what is newer than that one
\* is newer than both.
LEMMA SpentOutlives ==
  ASSUME NEW r \in Report, NEW q \in Report, Spent(r), Spent(q), RegistryOK,
         now' = now, reports' = reports \ {q}
  PROVE  Spent(r)'
<1>1. CASE q \notin NewerPeers(r)
  <2>1. NewerPeers(r)' = NewerPeers(r)
    BY <1>1 DEF NewerPeers
  <2>2. QED
    BY <2>1 DEF Spent
<1>2. CASE q \in NewerPeers(r)
  <2>1. Newer(q, r) /\ q.subject = r.subject /\ q.tool = r.tool
    BY <1>2 DEF NewerPeers
  <2>2. ASSUME NEW p \in NewerPeers(q) PROVE p \in NewerPeers(r)'
    <3>1. p \in reports /\ p \in Report /\ p.subject = r.subject /\ p.tool = r.tool /\ Newer(p, q)
      BY <2>1 DEF NewerPeers, RegistryOK
    <3>2. Newer(p, r) /\ p # q
      BY <2>1, <3>1, NewerTransitive, NewerIrreflexive
    <3>3. QED
      BY <3>1, <3>2 DEF NewerPeers
  <2>3. NewerPeers(r)' \subseteq reports /\ IsFiniteSet(reports)
    BY DEF NewerPeers, RegistryOK
  <2>4. IsFiniteSet(NewerPeers(r)')
    BY <2>3, FS_Subset
  <2>5. IsFiniteSet(NewerPeers(q)) /\ Cardinality(NewerPeers(q)) <= Cardinality(NewerPeers(r)')
    BY <2>2, <2>4, FS_Subset
  <2>6. Cardinality(NewerPeers(q)) \in Nat /\ Cardinality(NewerPeers(r)') \in Nat
    BY <2>4, <2>5, FS_CardinalityType
  <2>7. QED
    BY <2>5, <2>6, ReferrersAssumption DEF Spent
<1>3. QED
  BY <1>1, <1>2

\* What gc lists may go.
LEMMA ListedSpent ==
  ASSUME NEW m, NEW time \in Nat, time <= now, RegistryOK, NEW r \in Superseded(Of(m), time)
  PROVE  r \in Report /\ Spent(r)
<1>1. r \in reports /\ r \in Report /\ r.subject = m
  BY DEF Superseded, Of, RegistryOK
<1>2. {q \in Of(m) : q.tool = r.tool /\ Newer(q, r)} = NewerPeers(r)
  BY <1>1 DEF Of, NewerPeers
<1>3. Cardinality(NewerPeers(r)) >= Keep /\ time - r.time > OlderThan
  BY <1>2, Zenon DEF Superseded
<1>4. now - r.time > OlderThan
  BY <1>1, <1>3, ReferrersAssumption DEF Report, RegistryOK
<1>5. QED
  BY <1>1, <1>3, <1>4 DEF Spent

-----------------------------------------------------------------------------
LEMMA InvInit == Init => Inv
<1> SUFFICES ASSUME Init PROVE Inv
  OBVIOUS
<1>1. RegistryOK
  BY ReferrersAssumption, FS_EmptySet DEF Init, RegistryOK
<1>2. AttachOK
  BY DEF Init, AttachOK, Idle, Pinned
<1>3. GcOK /\ VictimsSpent
  BY DEF Init, GcOK, VictimsSpent, Idle, Walk
<1>4. QED
  BY <1>1, <1>2, <1>3 DEF Inv

LEMMA NowNat == Inv => now \in Nat
  BY ReferrersAssumption DEF Inv, RegistryOK

\* The registry and what the collectors hold, when gc stands still: reports and time only grow.
LEMMA GcStands ==
  ASSUME Inv, RegistryOK', gc' = gc, now <= now', reports \subseteq reports'
  PROVE  GcOK' /\ VictimsSpent'
<1>1. now \in Nat /\ now' \in Nat /\ IsFiniteSet(reports')
  BY ReferrersAssumption DEF Inv, RegistryOK
<1>2. GcOK'
  <2>1. \A g \in Collectors : gc[g] \in Walk => gc[g].time \in Nat /\ gc[g].time <= now'
    BY <1>1 DEF Inv, GcOK, Walk
  <2>2. QED
    BY <2>1 DEF Inv, GcOK
<1>3. ASSUME NEW g \in Collectors, gc[g].stage = "delete", NEW r \in gc[g].victims
      PROVE  Spent(r)'
  <2>1. gc[g] \in Walk
    BY <1>3 DEF Inv, GcOK, Idle
  <2>2. r \in Report /\ Spent(r)
    BY <1>3, <2>1 DEF Inv, VictimsSpent, Walk
  <2>3. QED
    BY <1>1, <2>2, SpentStays DEF Inv
<1>4. QED
  BY <1>2, <1>3 DEF VictimsSpent

\* The attachers, when they stand still.
LEMMA AttachStands ==
  ASSUME Inv, RegistryOK', attach' = attach, now <= now'
  PROVE  AttachOK'
<1>1. now \in Nat /\ now' \in Nat
  BY ReferrersAssumption DEF Inv, RegistryOK
<1>2. \A c \in Attachers : attach[c] \in Pinned => attach[c].time \in Nat /\ attach[c].time <= now'
  BY <1>1 DEF Inv, AttachOK, Pinned
<1>3. QED
  BY <1>2 DEF Inv, AttachOK

LEMMA AttachToKept ==
  ASSUME Inv, NEW c \in Attachers, NEW x \in {Idle} \cup HandedIn \cup Pinned,
         x \in Pinned => x.time <= now, AttachTo(c, x), now' = now
  PROVE  AttachOK'
  BY DEF Inv, AttachOK, AttachTo

LEMMA TickInv == ASSUME Inv, Tick PROVE Inv'
<1>1. RegistryOK'
  <2>1. now' \in 0 .. MaxTime /\ now <= now' /\ now \in Nat /\ now' \in Nat
    BY ReferrersAssumption DEF Inv, RegistryOK, Tick
  <2>2. \A r \in reports : r.time \in Nat /\ r.time <= now'
    BY <2>1, ReportKeys DEF Inv, RegistryOK
  <2>3. \A p \in predicates : p.time <= now'
    BY <2>1 DEF Inv, RegistryOK
  <2>4. QED
    BY <2>1, <2>2, <2>3 DEF Inv, RegistryOK, Tick, registryVars
<1>2. now <= now' /\ reports \subseteq reports' /\ gc' = gc /\ attach' = attach
  BY ReferrersAssumption DEF Inv, RegistryOK, Tick, registryVars
<1>3. QED
  BY <1>1, <1>2, GcStands, AttachStands DEF Inv

LEMMA MoveInv == ASSUME Inv, Move PROVE Inv'
<1>1. RegistryOK'
  <2>1. tags' \in [Tags -> Manifests]
    BY DEF Inv, RegistryOK, Move
  <2>2. QED
    BY <2>1 DEF Inv, RegistryOK, Move
<1>2. now <= now' /\ reports \subseteq reports' /\ gc' = gc /\ attach' = attach
  BY ReferrersAssumption DEF Inv, RegistryOK, Move
<1>3. QED
  BY <1>1, <1>2, GcStands, AttachStands DEF Inv

\* What an attacher resolves is an image.
LEMMA AtManifest ==
  ASSUME RegistryOK, NEW ref \in AttachRefs
  PROVE  At(ref) \in Manifests
  BY ReferrersAssumption DEF RegistryOK, At

LEMMA AttachStepInv ==
  ASSUME Inv, NEW c \in Attachers, AttachStep(c)
  PROVE  Inv'
<1>1. now \in Nat
  BY ReferrersAssumption DEF Inv, RegistryOK
<1>2. attach[c] \in {Idle} \cup HandedIn \cup Pinned
  BY DEF Inv, AttachOK
<1>3. now' = now /\ gc' = gc
  BY DEF AttachStep, Handed, Inspect, PutReferrer, Attest, AttachFails, Fault
<1>4. CASE Handed(c) \/ Inspect(c) \/ AttachFails(c)
  <2>1. RegistryOK' /\ reports' = reports
    BY <1>4 DEF Inv, RegistryOK, Handed, Inspect, AttachFails, registryVars
  <2>2. AttachOK'
    <3>1. CASE Handed(c)
      <4>1. PICK ref \in AttachRefs, report \in Reports :
              AttachTo(c, [stage |-> "inspect", ref |-> ref, about |-> At(ref), report |-> report])
        BY <3>1 DEF Handed
      <4> DEFINE x == [stage |-> "inspect", ref |-> ref, about |-> At(ref), report |-> report]
      <4>2. x \in HandedIn /\ x \notin Pinned
        BY AtManifest DEF Inv, HandedIn, Pinned
      <4>3. QED
        BY <4>1, <4>2, <1>3, AttachToKept
    <3>2. CASE Inspect(c) /\ attach[c].report # Unset
      <4>1. attach[c] \in HandedIn
        BY <1>2, <3>2 DEF Inspect, Idle, Pinned
      <4> DEFINE x == [stage |-> "put", ref |-> attach[c].ref, about |-> attach[c].about,
                       report |-> attach[c].report, subject |-> At(attach[c].ref), time |-> now]
      <4>2. At(attach[c].ref) \in Manifests
        BY <4>1, AtManifest DEF Inv, HandedIn
      <4>3. x \in Pinned /\ x.time <= now
        BY <1>1, <4>1, <4>2 DEF HandedIn, Pinned
      <4>4. AttachTo(c, x)
        BY <3>2 DEF Inspect
      <4>5. QED
        BY <4>3, <4>4, <1>3, AttachToKept
    <3>3. CASE AttachFails(c) \/ (Inspect(c) /\ attach[c].report = Unset)
      <4>1. AttachTo(c, Idle) /\ Idle \notin Pinned
        BY <3>3 DEF AttachFails, Inspect, Idle, Pinned
      <4>2. QED
        BY <4>1, <1>3, AttachToKept
    <3>4. QED
      BY <1>4, <3>1, <3>2, <3>3
  <2>3. QED
    BY <2>1, <2>2, <1>1, <1>3, GcStands DEF Inv
<1>5. CASE PutReferrer(c)
  <2>1. attach[c] \in Pinned /\ attach[c].time <= now
    BY <1>2, <1>5 DEF Inv, AttachOK, PutReferrer, Idle, HandedIn
  <2>2. PICK tool \in Tools, d \in Digests \ {r.digest : r \in reports} :
          reports' = reports \cup {[digest |-> d, subject |-> attach[c].subject, tool |-> tool, time |-> attach[c].time]}
    BY <1>5 DEF PutReferrer
  <2> DEFINE q == [digest |-> d, subject |-> attach[c].subject, tool |-> tool, time |-> attach[c].time]
  <2>3. q \in Report /\ q.time <= now
    BY <2>1 DEF Pinned, Report
  <2>4. IsFiniteSet(reports')
    BY <2>2, FS_AddElement DEF Inv, RegistryOK
  <2>5. \A r, p \in reports' : r.digest = p.digest => r = p
    BY <2>2 DEF Inv, RegistryOK
  <2>6. RegistryOK'
    BY <2>2, <2>3, <2>4, <2>5, <1>5 DEF Inv, RegistryOK, PutReferrer
  <2>7. AttachOK'
    <3> DEFINE x == [attach[c] EXCEPT !.stage = "attest"]
    <3>1. x \in Pinned /\ x.time <= now
      BY <2>1 DEF Pinned
    <3>2. AttachTo(c, x)
      BY <1>5 DEF PutReferrer
    <3>3. QED
      BY <3>1, <3>2, <1>3, AttachToKept
  <2>8. QED
    BY <2>2, <2>6, <2>7, <1>1, <1>3, GcStands DEF Inv
<1>6. CASE Attest(c)
  <2>1. attach[c] \in Pinned /\ attach[c].time <= now
    BY <1>2, <1>6 DEF Inv, AttachOK, Attest, Idle, HandedIn
  <2>2. \A p \in predicates' : p.subject \in Manifests /\ p.time \in Nat /\ p.time <= now
    BY <2>1, <1>6 DEF Inv, RegistryOK, Attest, Pinned
  <2>3. RegistryOK' /\ reports' = reports
    BY <2>2, <1>6 DEF Inv, RegistryOK, Attest
  <2>4. AttachOK'
    <3>1. AttachTo(c, Idle) /\ Idle \notin Pinned
      BY <1>6 DEF Attest, Idle, Pinned
    <3>2. QED
      BY <3>1, <1>3, AttachToKept
  <2>5. QED
    BY <2>3, <2>4, <1>1, <1>3, GcStands DEF Inv
<1>7. QED
  BY <1>4, <1>5, <1>6 DEF AttachStep

-----------------------------------------------------------------------------
\* A collector that goes on to x: what it holds then may go, and what the others hold
\* still may.
LEMMA GcToKept ==
  ASSUME Inv, NEW g \in Collectors, NEW x \in {Idle} \cup Walk, GcTo(g, x), now' = now,
         x \in Walk => x.time <= now,
         x.stage = "delete" => x.victims # {} /\ \A r \in x.victims : Spent(r)',
         \A r \in Report : Spent(r) => Spent(r)'
  PROVE  GcOK' /\ VictimsSpent'
<1>1. gc' = [gc EXCEPT ![g] = x] /\ gc \in [Collectors -> {Idle} \cup Walk]
  BY DEF GcTo, Inv, GcOK
<1>2. GcOK'
  BY <1>1 DEF Inv, GcOK
<1>3. ASSUME NEW h \in Collectors, gc'[h].stage = "delete", NEW r \in gc'[h].victims
      PROVE  Spent(r)'
  <2>1. CASE h = g
    BY <1>1, <1>3, <2>1
  <2>2. CASE h # g
    <3>1. gc[h] \in Walk /\ gc[h].stage = "delete" /\ r \in gc[h].victims
      BY <1>1, <1>3, <2>2 DEF Idle
    <3>2. r \in Report /\ Spent(r)
      BY <3>1 DEF Inv, VictimsSpent, Walk
    <3>3. QED
      BY <3>2
  <2>3. QED
    BY <2>1, <2>2
<1>4. QED
  BY <1>2, <1>3 DEF VictimsSpent

\* The next tag of a walk.
LEMMA NextTagWalks ==
  ASSUME Inv, NEW g \in Collectors, gc[g] \in Walk, NEW todo \in SUBSET Tags, NextTag(g, todo)
  PROVE  \E x \in {Idle} \cup Walk :
            GcTo(g, x) /\ (x \in Walk => x.time <= now) /\ x.stage # "delete"
<1> DEFINE y == [gc[g] EXCEPT !.stage = "list", !.todo = todo]
<1>1. CASE todo = {}
  BY <1>1 DEF NextTag, Idle, Walk
<1>2. CASE todo # {}
  <2>1. y \in Walk /\ y.time <= now /\ y.stage # "delete"
    BY DEF Walk, Inv, GcOK
  <2>2. GcTo(g, y)
    BY <1>2 DEF NextTag
  <2>3. QED
    BY <2>1, <2>2
<1>3. QED
  BY <1>1, <1>2

\* Steps of gc that delete nothing.
LEMMA GcReadsInv ==
  ASSUME Inv, NEW g \in Collectors, GcStart(g) \/ GcList(g) \/ GcFails(g) \/ GcAborts(g)
  PROVE  Inv'
<1>1. RegistryOK' /\ now' = now /\ reports' = reports
  BY DEF Inv, RegistryOK, GcStart, GcList, GcFails, GcAborts, registryVars
<1>2. AttachOK'
  <2>1. attach' = attach
    BY DEF GcStart, GcList, GcFails, GcAborts
  <2>2. QED
    BY <1>1, <2>1, NowNat, AttachStands
<1>3. \A r \in Report : Spent(r) => Spent(r)'
  BY <1>1 DEF Spent, NewerPeers
<1>4. gc[g] \in {Idle} \cup Walk
  BY DEF Inv, GcOK
<1>5. \E x \in {Idle} \cup Walk :
        /\ GcTo(g, x)
        /\ x \in Walk => x.time <= now
        /\ x.stage = "delete" => x.victims # {} /\ \A r \in x.victims : Spent(r)
  <2>1. CASE GcStart(g)
    <3> DEFINE x == [stage |-> "list", time |-> now, todo |-> Tags, victims |-> {}]
    <3>1. x \in Walk /\ x.time <= now /\ x.stage # "delete"
      BY NowNat DEF Walk
    <3>2. GcTo(g, x)
      BY <2>1 DEF GcStart
    <3>3. QED
      BY <3>1, <3>2
  <2>2. CASE GcList(g)
    <3>1. gc[g] \in Walk
      <4>1. gc[g].stage = "list"
        BY <2>2 DEF GcList
      <4>2. QED
        BY <1>4, <4>1 DEF Idle
    <3>2. PICK t \in gc[g].todo :
            LET victims == Superseded(Of(tags[t]), gc[g].time)
                rest    == gc[g].todo \ {t}
            IN  IF victims = {} THEN NextTag(g, rest)
                ELSE GcTo(g, [gc[g] EXCEPT !.stage = "delete", !.todo = rest, !.victims = victims])
      BY <2>2 DEF GcList
    <3> DEFINE victims == Superseded(Of(tags[t]), gc[g].time)
               rest    == gc[g].todo \ {t}
               x       == [gc[g] EXCEPT !.stage = "delete", !.todo = rest, !.victims = victims]
    <3>3. CASE victims = {}
      <4>1. NextTag(g, rest) /\ rest \in SUBSET Tags
        BY <3>1, <3>2, <3>3 DEF Walk
      <4>2. QED
        BY <3>1, <4>1, NextTagWalks
    <3>4. CASE victims # {}
      <4>1. gc[g].time \in Nat /\ gc[g].time <= now
        BY <3>1 DEF Inv, GcOK, Walk
      <4>2. \A r \in victims : r \in Report /\ Spent(r)
        BY <4>1, ListedSpent DEF Inv
      <4>3. x \in Walk /\ x.time <= now /\ x.victims = victims
        BY <3>1, <4>1, <4>2 DEF Walk
      <4>4. GcTo(g, x)
        BY <3>2, <3>4
      <4>5. QED
        BY <3>4, <4>2, <4>3, <4>4
    <3>5. QED
      BY <3>3, <3>4
  <2>3. CASE GcFails(g)
    <3>1. gc[g] \in Walk
      BY <1>4, <2>3 DEF GcFails, Idle
    <3>2. \E todo \in SUBSET Tags : NextTag(g, todo)
      BY <2>3, <3>1 DEF GcFails, Walk
    <3>3. QED
      BY <3>1, <3>2, NextTagWalks
  <2>4. CASE GcAborts(g)
    BY <2>4 DEF GcAborts, Idle, Walk
  <2>5. QED
    BY <2>1, <2>2, <2>3, <2>4
<1>6. PICK x \in {Idle} \cup Walk :
        /\ GcTo(g, x)
        /\ x \in Walk => x.time <= now
        /\ x.stage = "delete" => x.victims # {} /\ \A r \in x.victims : Spent(r)
  BY <1>5
<1>7. x.stage = "delete" => \A r \in x.victims : Spent(r)'
  <2>1. ASSUME x.stage = "delete" PROVE x \in Walk
    BY <2>1 DEF Idle
  <2>2. QED
    BY <1>3, <1>6, <2>1 DEF Walk
<1>8. GcOK' /\ VictimsSpent'
  BY <1>1, <1>3, <1>6, <1>7, GcToKept
<1>9. QED
  BY <1>1, <1>2, <1>8 DEF Inv

\* What GcDelete takes: one of the victims.
First(g) == CHOOSE x \in gc[g].victims : \A y \in gc[g].victims : x.digest <= y.digest

LEMMA FirstSpent ==
  ASSUME Inv, NEW g \in Collectors, gc[g].stage = "delete"
  PROVE  gc[g] \in Walk /\ First(g) \in gc[g].victims /\ First(g) \in Report /\ Spent(First(g))
<1>1. gc[g] \in Walk /\ gc[g].victims # {}
  BY DEF Inv, GcOK, Idle
<1>2. gc[g].victims \in SUBSET Report
  BY <1>1 DEF Walk
<1>3. First(g) \in gc[g].victims
  BY <1>1, <1>2, LeastDigest DEF First
<1>4. QED
  BY <1>1, <1>2, <1>3 DEF Inv, VictimsSpent

LEMMA GcDeleteInv ==
  ASSUME Inv, NEW g \in Collectors, GcDelete(g)
  PROVE  Inv'
<1>1. gc[g].stage = "delete"
  BY DEF GcDelete
<1>2. gc[g] \in Walk /\ First(g) \in gc[g].victims /\ First(g) \in Report /\ Spent(First(g))
  BY <1>1, FirstSpent
<1> DEFINE rest == gc[g].victims \ {First(g)}
<1>3. /\ reports' = reports \ {First(g)} /\ now' = now /\ attach' = attach
      /\ tags' = tags /\ predicates' = predicates
      /\ IF First(g) \notin reports \/ rest = {} THEN NextTag(g, gc[g].todo)
         ELSE GcTo(g, [gc[g] EXCEPT !.victims = rest])
  BY DEF GcDelete, First
<1>4. RegistryOK'
  <2>1. IsFiniteSet(reports')
    BY <1>3, FS_Subset DEF Inv, RegistryOK
  <2>2. QED
    BY <1>3, <2>1 DEF Inv, RegistryOK
<1>5. AttachOK'
  <2>1. now <= now'
    BY <1>3, ReferrersAssumption DEF Inv, RegistryOK
  <2>2. QED
    BY <1>3, <1>4, <2>1, AttachStands
<1>6. \A r \in Report : Spent(r) => Spent(r)'
  BY <1>2, <1>3, SpentOutlives DEF Inv
<1>7. \E x \in {Idle} \cup Walk :
        /\ GcTo(g, x)
        /\ x \in Walk => x.time <= now
        /\ x.stage = "delete" => x.victims # {} /\ x.victims \subseteq gc[g].victims
  <2>1. CASE First(g) \notin reports \/ rest = {}
    <3>1. gc[g].todo \in SUBSET Tags /\ NextTag(g, gc[g].todo)
      BY <1>2, <1>3, <2>1 DEF Walk
    <3>2. QED
      BY <1>2, <3>1, NextTagWalks
  <2>2. CASE ~ (First(g) \notin reports \/ rest = {})
    <3> DEFINE x == [gc[g] EXCEPT !.victims = rest]
    <3>1. x \in Walk /\ x.time <= now /\ x.victims # {} /\ x.victims \subseteq gc[g].victims
      BY <1>2, <2>2 DEF Walk, Inv, GcOK
    <3>2. GcTo(g, x)
      BY <1>3, <2>2
    <3>3. QED
      BY <3>1, <3>2
  <2>3. QED
    BY <2>1, <2>2
<1>8. PICK x \in {Idle} \cup Walk :
        /\ GcTo(g, x)
        /\ x \in Walk => x.time <= now
        /\ x.stage = "delete" => x.victims # {} /\ x.victims \subseteq gc[g].victims
  BY <1>7
<1>9. \A r \in gc[g].victims : Spent(r)'
  BY <1>1, <1>2, <1>6 DEF Inv, VictimsSpent, Walk
<1>10. GcOK' /\ VictimsSpent'
  BY <1>3, <1>6, <1>8, <1>9, GcToKept
<1>11. QED
  BY <1>4, <1>5, <1>10 DEF Inv

-----------------------------------------------------------------------------
LEMMA InvStep == Inv /\ [Next]_vars => Inv'
<1> SUFFICES ASSUME Inv, [Next]_vars PROVE Inv'
  OBVIOUS
<1>1. CASE Tick \/ Move
  BY <1>1, TickInv, MoveInv
<1>2. CASE \E c \in Attachers : AttachStep(c)
  BY <1>2, AttachStepInv
<1>3. CASE \E g \in Collectors : GcStart(g) \/ GcStep(g) \/ GcFails(g) \/ GcAborts(g)
  BY <1>3, GcReadsInv, GcDeleteInv DEF GcStep
<1>4. CASE UNCHANGED vars
  BY <1>4 DEF vars, registryVars, Inv, RegistryOK, AttachOK, GcOK, VictimsSpent, Spent, NewerPeers
<1>5. QED
  BY <1>1, <1>2, <1>3, <1>4 DEF Next

\* The inductive invariant holds in every reachable state.
THEOREM Invariant == Spec => []Inv
<1>1. Init => Inv
  BY InvInit
<1>2. Inv /\ [Next]_vars => Inv'
  BY InvStep
<1>3. QED
  BY <1>1, <1>2, PTL DEF Spec

\* Referrers are content-addressed, no report is dated after the clock, and a collector that
\* deletes has something to delete.
THEOREM TypeCorrect == Spec => []TypeOK
<1>1. Inv => TypeOK
  <2> SUFFICES ASSUME Inv PROVE TypeOK
    OBVIOUS
  <2>1. \A g \in Collectors : gc[g].stage \in {"idle", "list", "delete"}
    BY DEF Inv, GcOK, Idle, Walk
  <2>2. QED
    BY <2>1 DEF Inv, TypeOK, RegistryOK, GcOK, Report
<1>2. QED
  BY <1>1, Invariant, PTL

\* Only gc deletes a report, and only one that may go.
LEMMA OnlySpentGo ==
  ASSUME Inv, [Next]_vars, NEW r \in reports \ reports'
  PROVE  Spent(r) /\ reports' = reports \ {r} /\ now' = now
<1>1. PICK g \in Collectors : GcDelete(g)
  BY DEF Next, vars, registryVars, Tick, Move, AttachStep, Handed, Inspect, PutReferrer, Attest, AttachFails,
         GcStart, GcStep, GcList, GcFails, GcAborts
<1>2. reports' = reports \ {First(g)} /\ now' = now
  BY <1>1 DEF GcDelete, First
<1>3. r = First(g)
  BY <1>2
<1>4. QED
  BY <1>1, <1>2, <1>3, FirstSpent DEF GcDelete

\* However gc runs and attach overlap, what is collected is old, and at least Keep newer
\* reports of the same tool on the same image are there when it goes.
THEOREM CollectsOnlySuperseded == Spec => NewestKept
<1>1. ASSUME Inv, [Next]_vars, NEW r \in reports \ reports'
      PROVE  now - r.time > OlderThan /\ Cardinality(NewerPeers(r)') >= Keep
  <2>1. Spent(r) /\ reports' = reports \ {r} /\ now' = now
    BY <1>1, OnlySpentGo
  <2>2. r \in Report
    BY <1>1 DEF Inv, RegistryOK
  <2>3. Spent(r)'
    BY <1>1, <2>1, <2>2, SpentOutlives DEF Inv
  <2>4. QED
    BY <2>1, <2>3 DEF Spent
<1>2. Inv /\ [Next]_vars =>
        [\A r \in reports \ reports' :
            now - r.time > OlderThan /\ Cardinality(NewerPeers(r)') >= Keep]_vars
  BY <1>1
<1>3. QED
  BY <1>2, Invariant, PTL DEF Spec, NewestKept
=============================================================================
