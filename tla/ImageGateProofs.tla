--------------------------- MODULE ImageGateProofs ---------------------------
(***************************************************************************)
(* Proofs about ImageGate: the two answers that a release is gated on, for *)
(* every set of images, tags and clients and for every policy.             *)
(***************************************************************************)
EXTENDS ImageGate, ScanReferrersProofs

-----------------------------------------------------------------------------
\* What the gates' own steps leave alone keeps the invariant of the scan results.
LEMMA InvUnmoved ==
  ASSUME Inv, UNCHANGED <<now, registryVars, attach, gc>>
  PROVE  Inv'
  BY DEF registryVars, Inv, RegistryOK, AttachOK, GcOK, VictimsSpent, Spent, NewerPeers

VerifyStep(v) == VerifyDigest(v) \/ VerifyAnnotations(v) \/ VerifyPredicates(v) \/ CosignRefuses(v) \/ VerifyFails(v)
AuditStep(a) == AuditStart(a) \/ AuditDigest(a) \/ AuditAnnotations(a) \/ AuditSigned(a) \/ AuditFails(a)

LEMMA VerifyUnmoved ==
  ASSUME NEW v \in Verifiers, VerifyStep(v)
  PROVE  UNCHANGED <<now, registryVars, attach, gc, moves, audit>>
  BY DEF VerifyStep, VerifyDigest, VerifyAnnotations, VerifyPredicates, CosignRefuses, VerifyFails, vars

LEMMA AuditUnmoved ==
  ASSUME NEW a \in Auditors, AuditStep(a)
  PROVE  UNCHANGED <<now, registryVars, attach, gc, moves, verify>>
  BY DEF AuditStep, AuditStart, AuditDigest, AuditAnnotations, AuditSigned, AuditFails, vars

LEMMA GateInvStep ==
  ASSUME Inv, [GateNext]_gateVars
  PROVE  Inv'
<1>1. CASE MoveSeen
  BY <1>1, MoveInv DEF MoveSeen
<1>2. CASE Elsewhere
  BY <1>2, TickInv, AttachStepInv DEF Elsewhere
<1>3. CASE \E v \in Verifiers : VerifyStep(v)
  BY <1>3, VerifyUnmoved, InvUnmoved
<1>4. CASE \E a \in Auditors : AuditStep(a)
  BY <1>4, AuditUnmoved, InvUnmoved
<1>5. CASE UNCHANGED gateVars
  BY <1>5, InvUnmoved DEF gateVars, vars
<1>6. QED
  BY <1>1, <1>2, <1>3, <1>4, <1>5 DEF GateNext, VerifyStep, AuditStep

-----------------------------------------------------------------------------
\* Signed summaries are only ever added.
LEMMA PredicatesGrow ==
  ASSUME Inv, [GateNext]_gateVars
  PROVE  predicates \subseteq predicates'
<1>1. CASE MoveSeen
  BY <1>1 DEF MoveSeen, Move
<1>2. CASE Elsewhere
  BY <1>2 DEF Elsewhere, Tick, AttachStep, Handed, Inspect, PutReferrer, Attest, AttachFails, registryVars
<1>3. CASE (\E v \in Verifiers : VerifyStep(v)) \/ (\E a \in Auditors : AuditStep(a))
  BY <1>3, VerifyUnmoved, AuditUnmoved DEF registryVars
<1>4. CASE UNCHANGED gateVars
  BY <1>4 DEF gateVars, vars, registryVars
<1>5. QED
  BY <1>1, <1>2, <1>3, <1>4 DEF GateNext, VerifyStep, AuditStep

-----------------------------------------------------------------------------
(* Audit.  Until an image is found wanting, every tag that is behind the   *)
(* auditor and was not pushed again is covered; the one it is at is        *)
(* stamped once its annotations were read.                                 *)

Gap == {"uncovered", "unsigned", "errored"}

Round   == [stage : {"digest", "annotations", "signed"}, todo : SUBSET Tags, at : Tags \cup {Unset},
            found : SUBSET Gap, moved : SUBSET Tags]
Audited == [stage : {"done"}, exit : {0, 1, 2}, moved : SUBSET Tags]

Covered(t) == tags[t] \in Stamped /\ \E p \in predicates : p.subject = tags[t]

\* The tag an auditor is at.
Current(x) == IF x.stage = "digest" THEN {} ELSE {x.at}

RoundOK(x) ==
    /\ x.found = {} => \A t \in Tags \ (x.todo \cup x.moved \cup Current(x)) : Covered(t)
    /\ x.stage # "digest" => x.at \in Tags
    /\ x.stage = "signed" /\ x.at \notin x.moved => tags[x.at] \in Stamped

AuditedOK(x) == x.exit = 0 => \A t \in Tags \ x.moved : Covered(t)

AuditInv ==
    /\ audit \in [Auditors -> {Idle} \cup Round \cup Audited]
    /\ \A a \in Auditors : audit[a] \in Round => RoundOK(audit[a])
    /\ \A a \in Auditors : audit[a] \in Audited => AuditedOK(audit[a])

\* The kinds of record are told apart by their stage.
LEMMA AuditKinds ==
  ASSUME AuditInv, NEW a \in Auditors
  PROVE  /\ audit[a].stage \in {"idle", "done", "digest", "annotations", "signed"}
         /\ audit[a].stage = "idle" <=> audit[a] = Idle
         /\ audit[a].stage = "done" <=> audit[a] \in Audited
         /\ audit[a].stage \in {"digest", "annotations", "signed"} <=> audit[a] \in Round
<1>1. audit[a] \in {Idle} \cup Round \cup Audited
  BY DEF AuditInv
<1>2. QED
  BY <1>1 DEF Idle, Round, Audited

LEMMA AuditToKept ==
  ASSUME AuditInv, NEW a \in Auditors, NEW x \in {Idle} \cup Round \cup Audited, AuditTo(a, x),
         UNCHANGED registryVars,
         x \in Round => RoundOK(x), x \in Audited => AuditedOK(x)
  PROVE  AuditInv'
<1>1. \A t : Covered(t)' = Covered(t)
  BY DEF Covered, registryVars
<1>2. \A y : RoundOK(y)' = RoundOK(y)
  BY <1>1 DEF RoundOK, registryVars
<1>3. \A y : AuditedOK(y)' = AuditedOK(y)
  BY <1>1 DEF AuditedOK
<1>4. audit' = [audit EXCEPT ![a] = x]
  BY DEF AuditTo
<1>5. QED
  BY <1>2, <1>3, <1>4 DEF AuditInv

\* The image is dealt with: the walk goes on, or ends with an exit code.
LEMMA ClassifiedKept ==
  ASSUME AuditInv, NEW a \in Auditors, audit[a] \in Round, audit[a].stage # "digest",
         UNCHANGED registryVars, NEW what \in SUBSET Gap, Classified(a, what),
         what = {} => audit[a].at \in audit[a].moved \/ Covered(audit[a].at)
  PROVE  AuditInv'
<1> DEFINE found == audit[a].found \cup what
           x     == [audit[a] EXCEPT !.found = found]
           last  == [stage |-> "done", exit |-> AuditExit(found), moved |-> x.moved]
           next  == [x EXCEPT !.stage = "digest"]
<1>1. x \in Round /\ x.todo = audit[a].todo /\ x.moved = audit[a].moved /\ x.found = found /\ x.at = audit[a].at
  BY DEF Round
<1>2. RoundOK(audit[a])
  BY DEF AuditInv
<1>3. found = {} => \A t \in Tags \ (x.todo \cup x.moved) : Covered(t)
  BY <1>1, <1>2 DEF RoundOK, Current
<1>4. CASE x.todo = {}
  <2>1. AuditTo(a, last)
    BY <1>4 DEF Classified
  <2>2. AuditExit(found) \in {0, 1, 2} /\ (AuditExit(found) = 0 => found = {})
    BY DEF AuditExit
  <2>3. last \in Audited /\ last \notin Round
    BY <1>1, <2>2 DEF Audited, Round
  <2>4. AuditedOK(last)
    BY <1>3, <1>4, <2>2 DEF AuditedOK
  <2>5. QED
    BY <2>1, <2>3, <2>4, AuditToKept
<1>5. CASE x.todo # {}
  <2>1. AuditTo(a, next)
    BY <1>5 DEF Classified
  <2>2. /\ next \in Round /\ next \notin Audited
        /\ next.todo = x.todo /\ next.moved = x.moved /\ next.found = found /\ next.stage = "digest"
    BY <1>1 DEF Round, Audited
  <2>3. RoundOK(next)
    BY <1>3, <2>2 DEF RoundOK, Current
  <2>4. QED
    BY <2>1, <2>2, <2>3, AuditToKept
<1>6. QED
  BY <1>4, <1>5

LEMMA AuditStepKept ==
  ASSUME AuditInv, NEW a \in Auditors, AuditStep(a)
  PROVE  AuditInv'
<1>1. UNCHANGED registryVars
  BY AuditUnmoved
<1>2. CASE AuditStart(a)
  <2> DEFINE x == [stage |-> "digest", todo |-> Tags, at |-> Unset, found |-> {}, moved |-> {}]
  <2>1. AuditTo(a, x)
    BY <1>2 DEF AuditStart
  <2>2. x \in Round /\ x \notin Audited
    BY DEF Round, Audited
  <2>3. RoundOK(x)
    BY DEF RoundOK
  <2>4. QED
    BY <1>1, <2>1, <2>2, <2>3, AuditToKept
<1>3. CASE AuditDigest(a)
  <2>1. audit[a].stage = "digest" /\ audit[a] \in Round /\ RoundOK(audit[a])
    BY <1>3, AuditKinds DEF AuditDigest, AuditInv
  <2>2. PICK t \in audit[a].todo :
          AuditTo(a, [audit[a] EXCEPT !.stage = "annotations", !.at = t, !.todo = @ \ {t}])
    BY <1>3 DEF AuditDigest
  <2> DEFINE x == [audit[a] EXCEPT !.stage = "annotations", !.at = t, !.todo = @ \ {t}]
  <2>3. /\ x \in Round /\ x \notin Audited /\ x.stage = "annotations" /\ x.at = t /\ t \in Tags
        /\ x.todo = audit[a].todo \ {t} /\ x.moved = audit[a].moved /\ x.found = audit[a].found
    BY <2>1 DEF Round, Audited
  <2>4. RoundOK(x)
    BY <2>1, <2>3 DEF RoundOK, Current
  <2>5. QED
    BY <1>1, <2>2, <2>3, <2>4, AuditToKept
<1>4. CASE AuditAnnotations(a)
  <2>1. audit[a].stage = "annotations" /\ audit[a] \in Round /\ RoundOK(audit[a])
    BY <1>4, AuditKinds DEF AuditAnnotations, AuditInv
  <2>2. CASE tags[audit[a].at] \in Stamped
    <3> DEFINE x == [audit[a] EXCEPT !.stage = "signed"]
    <3>1. AuditTo(a, x)
      BY <1>4, <2>2 DEF AuditAnnotations
    <3>2. /\ x \in Round /\ x \notin Audited /\ x.stage = "signed" /\ x.at = audit[a].at
          /\ x.todo = audit[a].todo /\ x.moved = audit[a].moved /\ x.found = audit[a].found
      BY <2>1 DEF Round, Audited
    <3>3. RoundOK(x)
      BY <2>1, <2>2, <3>2 DEF RoundOK, Current
    <3>4. QED
      BY <1>1, <3>1, <3>2, <3>3, AuditToKept
  <2>3. CASE tags[audit[a].at] \notin Stamped
    <3>1. Classified(a, {"uncovered"}) /\ {"uncovered"} \in SUBSET Gap
      BY <1>4, <2>3 DEF AuditAnnotations, Gap
    <3>2. QED
      BY <1>1, <2>1, <3>1, ClassifiedKept
  <2>4. QED
    BY <2>2, <2>3
<1>5. CASE AuditSigned(a)
  <2>1. audit[a].stage = "signed" /\ audit[a] \in Round /\ RoundOK(audit[a])
    BY <1>5, AuditKinds DEF AuditSigned, AuditInv
  <2> DEFINE what == IF \E p \in predicates : p.subject = tags[audit[a].at] THEN {} ELSE {"unsigned"}
  <2>2. what \in SUBSET Gap /\ Classified(a, what)
    BY <1>5 DEF AuditSigned, Gap
  <2>3. what = {} => audit[a].at \in audit[a].moved \/ Covered(audit[a].at)
    BY <2>1 DEF RoundOK, Covered
  <2>4. QED
    BY <1>1, <2>1, <2>2, <2>3, ClassifiedKept
<1>6. CASE AuditFails(a)
  <2>1. audit[a].stage # "digest" /\ audit[a] \in Round
    BY <1>6, AuditKinds DEF AuditFails
  <2>2. Classified(a, {"errored"}) /\ {"errored"} \in SUBSET Gap
    BY <1>6 DEF AuditFails, Gap
  <2>3. QED
    BY <1>1, <2>1, <2>2, ClassifiedKept
<1>7. QED
  BY <1>2, <1>3, <1>4, <1>5, <1>6 DEF AuditStep

\* A tag that moves is remembered by the auditors at work.
LEMMA MoveSeenKept ==
  ASSUME AuditInv, MoveSeen
  PROVE  AuditInv'
<1> DEFINE pushed == {t \in Tags : tags'[t] # tags[t]}
<1>1. predicates' = predicates
  BY DEF MoveSeen, Move
<1>2. \A t \in Tags \ pushed : Covered(t) => Covered(t)'
  BY <1>1 DEF Covered
<1>3. audit' = [a \in Auditors |-> IF audit[a].stage = "idle" THEN Idle
                                   ELSE [audit[a] EXCEPT !.moved = audit[a].moved \cup pushed]]
  BY DEF MoveSeen
<1>4. ASSUME NEW a \in Auditors, NEW x, audit[a] \in Round,
             x = [audit[a] EXCEPT !.moved = audit[a].moved \cup pushed]
      PROVE  x \in Round /\ x \notin Audited /\ RoundOK(x)'
  <2>1. /\ x \in Round /\ x \notin Audited
        /\ x.stage = audit[a].stage /\ x.todo = audit[a].todo /\ x.at = audit[a].at
        /\ x.found = audit[a].found /\ x.moved = audit[a].moved \cup pushed
    BY <1>4 DEF Round, Audited
  <2>2. RoundOK(audit[a])
    BY <1>4 DEF AuditInv
  <2>3. x.found = {} => \A t \in Tags \ (x.todo \cup x.moved \cup Current(x)) : Covered(t)'
    BY <1>2, <2>1, <2>2 DEF RoundOK, Current
  <2>4. x.stage = "signed" /\ x.at \notin x.moved => tags'[x.at] \in Stamped
    BY <2>1, <2>2 DEF RoundOK
  <2>5. QED
    BY <2>1, <2>2, <2>3, <2>4 DEF RoundOK
<1>5. ASSUME NEW a \in Auditors, NEW x, audit[a] \in Audited,
             x = [audit[a] EXCEPT !.moved = audit[a].moved \cup pushed]
      PROVE  x \in Audited /\ x \notin Round /\ AuditedOK(x)'
  <2>1. /\ x \in Audited /\ x \notin Round
        /\ x.exit = audit[a].exit /\ x.moved = audit[a].moved \cup pushed
    BY <1>5 DEF Round, Audited
  <2>2. AuditedOK(audit[a])
    BY <1>5 DEF AuditInv
  <2>3. QED
    BY <1>2, <2>1, <2>2 DEF AuditedOK
<1>6. ASSUME NEW a \in Auditors, NEW x, x = audit'[a]
      PROVE  /\ x \in {Idle} \cup Round \cup Audited
             /\ x \in Round => RoundOK(x)'
             /\ x \in Audited => AuditedOK(x)'
  <2>1. CASE audit[a] = Idle
    <3>1. x = Idle /\ Idle \notin Round /\ Idle \notin Audited
      BY <1>3, <1>6, <2>1 DEF Idle, Round, Audited
    <3>2. QED
      BY <3>1
  <2>2. CASE audit[a] \in Round
    <3>1. audit[a].stage # "idle"
      BY <2>2 DEF Round
    <3>2. x = [audit[a] EXCEPT !.moved = audit[a].moved \cup pushed]
      BY <1>3, <1>6, <3>1
    <3>3. QED
      BY <1>4, <2>2, <3>2
  <2>3. CASE audit[a] \in Audited
    <3>1. audit[a].stage # "idle"
      BY <2>3 DEF Audited
    <3>2. x = [audit[a] EXCEPT !.moved = audit[a].moved \cup pushed]
      BY <1>3, <1>6, <3>1
    <3>3. QED
      BY <1>5, <2>3, <3>2
  <2>4. QED
    BY <2>1, <2>2, <2>3 DEF AuditInv
<1>7. audit' \in [Auditors -> {Idle} \cup Round \cup Audited]
  BY <1>3, <1>6
<1>8. QED
  BY <1>6, <1>7 DEF AuditInv

\* While the auditors stand still, images stay covered.
LEMMA AuditStands ==
  ASSUME AuditInv, tags' = tags, predicates \subseteq predicates', audit' = audit
  PROVE  AuditInv'
<1>1. \A t : Covered(t) => Covered(t)'
  BY DEF Covered
<1>2. \A y : RoundOK(y) => RoundOK(y)'
  BY <1>1 DEF RoundOK
<1>3. \A y : AuditedOK(y) => AuditedOK(y)'
  BY <1>1 DEF AuditedOK
<1>4. QED
  BY <1>2, <1>3 DEF AuditInv

LEMMA AuditInvStep ==
  ASSUME Inv, AuditInv, [GateNext]_gateVars
  PROVE  AuditInv'
<1>1. predicates \subseteq predicates'
  BY PredicatesGrow
<1>2. CASE MoveSeen
  BY <1>2, MoveSeenKept
<1>3. CASE Elsewhere
  <2>1. tags' = tags /\ audit' = audit
    BY <1>3 DEF Elsewhere, Tick, AttachStep, Handed, Inspect, PutReferrer, Attest, AttachFails, registryVars
  <2>2. QED
    BY <1>1, <2>1, AuditStands
<1>4. CASE \E v \in Verifiers : VerifyStep(v)
  <2>1. tags' = tags /\ audit' = audit
    BY <1>4, VerifyUnmoved DEF registryVars
  <2>2. QED
    BY <1>1, <2>1, AuditStands
<1>5. CASE \E a \in Auditors : AuditStep(a)
  BY <1>5, AuditStepKept
<1>6. CASE UNCHANGED gateVars
  <2>1. tags' = tags /\ audit' = audit
    BY <1>6 DEF gateVars, vars, registryVars
  <2>2. QED
    BY <1>1, <2>1, AuditStands
<1>7. QED
  BY <1>2, <1>3, <1>4, <1>5, <1>6 DEF GateNext, VerifyStep, AuditStep

LEMMA GateInitInv == GateInit => Inv /\ AuditInv
<1> SUFFICES ASSUME GateInit PROVE Inv /\ AuditInv
  OBVIOUS
<1>1. Inv
  BY InvInit DEF GateInit
<1>2. AuditInv
  BY DEF GateInit, AuditInv, Idle, Round, Audited
<1>3. QED
  BY <1>1, <1>2

\* The inductive invariant of the audit, beside that of the scan results.
THEOREM AuditInvariant == GateSpec => [](Inv /\ AuditInv)
<1>1. GateInit => Inv /\ AuditInv
  BY GateInitInv
<1>2. (Inv /\ AuditInv) /\ [GateNext]_gateVars => (Inv /\ AuditInv)'
  BY GateInvStep, AuditInvStep
<1>3. QED
  BY <1>1, <1>2, PTL DEF GateSpec

\* An audit that exits with 0 has missed nothing: every tag that was not pushed again since
\* it began is stamped and signed.
THEOREM AuditExitTold == GateSpec => []AuditClean
<1>1. AuditInv => AuditClean
  <2> SUFFICES ASSUME AuditInv, NEW a \in Auditors, audit[a].stage = "done", audit[a].exit = 0
               PROVE  \A t \in Tags \ audit[a].moved : Covered(t)
    BY DEF AuditClean, Covered
  <2>1. audit[a] \in Audited
    BY AuditKinds
  <2>2. QED
    BY <2>1 DEF AuditInv, AuditedOK
<1>2. QED
  BY <1>1, AuditInvariant, PTL

-----------------------------------------------------------------------------
(* Verify.  Reports are handed in by digest here: a tag may be pushed      *)
(* again before attach_scan pins it.                                       *)

ByDigest == AttachRefs \cap Tags = {}

\* What is attached and signed is about the image it is attached to.
AboutInv ==
    /\ \A c \in Attachers : attach[c] \in HandedIn \cup Pinned => attach[c].about = attach[c].ref
    /\ \A c \in Attachers : attach[c] \in Pinned => attach[c].subject = attach[c].about
    /\ \A p \in predicates : p.about = p.subject

\* A summary on which verify may pass, given what it knew.
Sound(p, x) ==
    /\ p.subject = x.digest /\ p.about = x.digest
    /\ ~GateBreached(p.facts, MaxSeverity) /\ x.time - p.time <= MaxAge
    /\ \A q \in x.known : GateBreached(q.facts, MaxSeverity) => q.time <= p.time

\* Until the verdict, what verify knew when it began is signed for the image it resolved.
VerifyInv ==
    /\ verify = [v \in Verifiers |-> verify[v]]
    /\ \A v \in Verifiers : verify[v].stage \in {"idle", "annotations", "predicates", "done"}
    /\ \A v \in Verifiers : verify[v].stage \in {"annotations", "predicates"} =>
          verify[v].known \subseteq {p \in predicates : p.subject = verify[v].digest}
    /\ \A v \in Verifiers : verify[v].stage = "done" /\ verify[v].passed /\ "scan-pass" \in Require =>
          \E p \in predicates : Sound(p, verify[v])

LEMMA VerifyToKept ==
  ASSUME VerifyInv, NEW v \in Verifiers, NEW x, VerifyTo(v, x), predicates' = predicates,
         x.stage \in {"idle", "annotations", "predicates", "done"},
         x.stage \in {"annotations", "predicates"} => x.known \subseteq {p \in predicates : p.subject = x.digest},
         x.stage = "done" /\ x.passed /\ "scan-pass" \in Require => \E p \in predicates : Sound(p, x)
  PROVE  VerifyInv'
<1>1. \A p, y : Sound(p, y)' = Sound(p, y)
  BY DEF Sound
<1>2. verify' = [verify EXCEPT ![v] = x]
  BY DEF VerifyTo
<1>3. verify' = [w \in Verifiers |-> IF w = v THEN x ELSE verify[w]]
  BY <1>2 DEF VerifyInv
<1>4. QED
  BY <1>1, <1>3 DEF VerifyInv

\* A verdict on what is signed for the image, or on nothing at all.
LEMMA JudgedKept ==
  ASSUME Inv, VerifyInv, AboutInv, NEW v \in Verifiers, verify[v].stage = "predicates",
         NEW ps, ps = {} \/ ps = {p \in predicates : p.subject = verify[v].digest},
         Judged(v, ps), UNCHANGED <<now, predicates>>
  PROVE  VerifyInv'
<1>1. PICK f \in IF ps = {} THEN {Unset} ELSE Freshest(ps) :
        VerifyTo(v, [stage |-> "done", ref |-> verify[v].ref, digest |-> verify[v].digest,
                     known |-> verify[v].known, time |-> now, passed |-> Passes(v, ps, f)])
  BY DEF Judged
<1> DEFINE x == [stage |-> "done", ref |-> verify[v].ref, digest |-> verify[v].digest,
                 known |-> verify[v].known, time |-> now, passed |-> Passes(v, ps, f)]
<1>2. ASSUME x.passed, "scan-pass" \in Require PROVE \E p \in predicates : Sound(p, x)
  <2>1. ScanPasses(ps, f)
    BY <1>2 DEF Passes
  <2>2. ps = {p \in predicates : p.subject = verify[v].digest} /\ f \in Freshest(ps)
    BY <2>1 DEF ScanPasses
  <2>3. f \in predicates /\ f.subject = x.digest /\ f.about = x.digest
    BY <2>2 DEF Freshest, AboutInv
  <2>4. \A q \in x.known : q.time <= f.time
    BY <2>2 DEF Freshest, VerifyInv
  <2>5. Sound(f, x)
    BY <2>1, <2>3, <2>4 DEF Sound, ScanPasses
  <2>6. QED
    BY <2>3, <2>5
<1>3. QED
  BY <1>1, <1>2, VerifyToKept

LEMMA VerifyStepKept ==
  ASSUME Inv, VerifyInv, AboutInv, NEW v \in Verifiers, VerifyStep(v)
  PROVE  VerifyInv'
<1>1. now' = now /\ predicates' = predicates
  BY VerifyUnmoved DEF registryVars
<1>2. CASE VerifyDigest(v)
  <2>1. PICK ref \in VerifyRefs :
          VerifyTo(v, [stage |-> "annotations", ref |-> ref, digest |-> At(ref),
                       known |-> {p \in predicates : p.subject = At(ref)}])
    BY <1>2 DEF VerifyDigest
  <2>2. QED
    BY <1>1, <2>1, VerifyToKept
<1>3. CASE VerifyAnnotations(v)
  <2> DEFINE x == [stage |-> "predicates", ref |-> verify[v].ref, digest |-> verify[v].digest,
                   known |-> verify[v].known, stamped |-> At(verify[v].ref) \in Stamped]
  <2>1. VerifyTo(v, x) /\ verify[v].stage = "annotations"
    BY <1>3 DEF VerifyAnnotations
  <2>2. x.known \subseteq {p \in predicates : p.subject = x.digest}
    BY <2>1 DEF VerifyInv
  <2>3. QED
    BY <1>1, <2>1, <2>2, VerifyToKept
<1>4. CASE VerifyPredicates(v)
  BY <1>1, <1>4, JudgedKept DEF VerifyPredicates
<1>5. CASE CosignRefuses(v)
  BY <1>1, <1>5, JudgedKept DEF CosignRefuses
<1>6. CASE VerifyFails(v)
  <2>1. VerifyTo(v, Idle) /\ Idle.stage = "idle"
    BY <1>6 DEF VerifyFails, Idle
  <2>2. QED
    BY <1>1, <2>1, VerifyToKept
<1>7. QED
  BY <1>2, <1>3, <1>4, <1>5, <1>6 DEF VerifyStep

\* While the verifiers stand still, what was signed stays signed.
LEMMA VerifyStands ==
  ASSUME VerifyInv, predicates \subseteq predicates', verify' = verify
  PROVE  VerifyInv'
<1>1. \A p, y : Sound(p, y)' = Sound(p, y)
  BY DEF Sound
<1>2. QED
  BY <1>1 DEF VerifyInv

LEMMA VerifyInvStep ==
  ASSUME Inv, VerifyInv, AboutInv, [GateNext]_gateVars
  PROVE  VerifyInv'
<1>1. predicates \subseteq predicates'
  BY PredicatesGrow
<1>2. CASE \E v \in Verifiers : VerifyStep(v)
  BY <1>2, VerifyStepKept
<1>3. CASE \E a \in Auditors : AuditStep(a)
  BY <1>1, <1>3, AuditUnmoved, VerifyStands
<1>4. CASE MoveSeen \/ Elsewhere \/ UNCHANGED gateVars
  BY <1>1, <1>4, VerifyStands DEF MoveSeen, Elsewhere, gateVars
<1>5. QED
  BY <1>2, <1>3, <1>4 DEF GateNext, VerifyStep, AuditStep

\* An attacher pins the digest it was handed.
LEMMA AboutAttachStep ==
  ASSUME ByDigest, Inv, AboutInv, NEW c \in Attachers, AttachStep(c)
  PROVE  AboutInv'
<1>1. attach \in [Attachers -> {Idle} \cup HandedIn \cup Pinned]
  BY DEF Inv, AttachOK
<1>2. \A ref \in AttachRefs : At(ref) = ref
  BY DEF ByDigest, At
<1>3. \A x \in HandedIn \cup Pinned : x # Idle
  BY DEF Idle, HandedIn, Pinned
<1>4. CASE Handed(c)
  <2>1. PICK ref \in AttachRefs, report \in Reports :
          AttachTo(c, [stage |-> "inspect", ref |-> ref, about |-> At(ref), report |-> report])
    BY <1>4 DEF Handed
  <2> DEFINE x == [stage |-> "inspect", ref |-> ref, about |-> At(ref), report |-> report]
  <2>2. x.about = x.ref /\ x \notin Pinned
    BY <1>2 DEF Pinned
  <2>3. predicates' = predicates /\ attach' = [attach EXCEPT ![c] = x]
    BY <1>4, <2>1 DEF Handed, AttachTo, registryVars
  <2>4. QED
    BY <1>1, <2>2, <2>3 DEF AboutInv
<1>5. CASE Inspect(c) /\ attach[c].report # Unset
  <2>1. attach[c] \in HandedIn
    BY <1>1, <1>5 DEF Inspect, Idle, Pinned
  <2> DEFINE x == [stage |-> "put", ref |-> attach[c].ref, about |-> attach[c].about,
                   report |-> attach[c].report, subject |-> At(attach[c].ref), time |-> now]
  <2>2. attach[c].about = attach[c].ref /\ attach[c].ref \in AttachRefs
    BY <2>1 DEF AboutInv, HandedIn
  <2>3. x.about = x.ref /\ x.subject = x.about
    BY <1>2, <2>2
  <2>4. predicates' = predicates /\ attach' = [attach EXCEPT ![c] = x]
    BY <1>5 DEF Inspect, AttachTo, registryVars
  <2>5. QED
    BY <1>1, <2>3, <2>4 DEF AboutInv
<1>6. CASE PutReferrer(c)
  <2>1. attach[c] \in Pinned
    BY <1>1, <1>6 DEF PutReferrer, Idle, HandedIn
  <2> DEFINE x == [attach[c] EXCEPT !.stage = "attest"]
  <2>2. x.about = x.ref /\ x.subject = x.about
    BY <2>1 DEF AboutInv, Pinned
  <2>3. predicates' = predicates /\ attach' = [attach EXCEPT ![c] = x]
    BY <1>6 DEF PutReferrer, AttachTo
  <2>4. QED
    BY <1>1, <2>2, <2>3 DEF AboutInv
<1>7. CASE Attest(c)
  <2>1. attach[c] \in Pinned
    BY <1>1, <1>7 DEF Attest, Idle, HandedIn
  <2>2. attach[c].about = attach[c].subject
    BY <2>1 DEF AboutInv
  <2>3. \A p \in predicates' : p.about = p.subject
    BY <1>7, <2>2 DEF AboutInv, Attest
  <2>4. attach' = [attach EXCEPT ![c] = Idle]
    BY <1>7 DEF Attest, AttachTo
  <2>5. QED
    BY <1>1, <1>3, <2>3, <2>4 DEF AboutInv
<1>8. CASE AttachFails(c) \/ (Inspect(c) /\ attach[c].report = Unset)
  <2>1. predicates' = predicates /\ attach' = [attach EXCEPT ![c] = Idle]
    BY <1>8 DEF AttachFails, Inspect, AttachTo, registryVars
  <2>2. QED
    BY <1>1, <1>3, <2>1 DEF AboutInv
<1>9. QED
  BY <1>4, <1>5, <1>6, <1>7, <1>8 DEF AttachStep

LEMMA AboutInvStep ==
  ASSUME ByDigest, Inv, AboutInv, [GateNext]_gateVars
  PROVE  AboutInv'
<1>1. CASE \E c \in Attachers : AttachStep(c)
  BY <1>1, AboutAttachStep
<1>2. CASE UNCHANGED <<attach, predicates>>
  BY <1>2 DEF AboutInv
<1>3. MoveSeen => UNCHANGED <<attach, predicates>>
  BY DEF MoveSeen, Move
<1>4. Elsewhere => (\E c \in Attachers : AttachStep(c)) \/ UNCHANGED <<attach, predicates>>
  BY DEF Elsewhere, Tick, registryVars
<1>5. (\E v \in Verifiers : VerifyStep(v)) \/ (\E a \in Auditors : AuditStep(a)) => UNCHANGED <<attach, predicates>>
  BY VerifyUnmoved, AuditUnmoved DEF registryVars
<1>6. UNCHANGED gateVars => UNCHANGED <<attach, predicates>>
  BY DEF gateVars, vars, registryVars
<1>7. QED
  BY <1>1, <1>2, <1>3, <1>4, <1>5, <1>6 DEF GateNext, VerifyStep, AuditStep

LEMMA VerifyInitInv == GateInit => AboutInv /\ VerifyInv
  BY DEF GateInit, Init, AboutInv, VerifyInv, Idle, HandedIn, Pinned

\* verify passes only if a scan of this very image was signed within the age, and nothing
\* that breached was signed later, as far as the registry knew when verify began.
THEOREM VerifyPassesHonestly ==
  ASSUME ByDigest
  PROVE  GateSpec => []VerifyHonest
<1> DEFINE GateInv == Inv /\ AboutInv /\ VerifyInv
<1>1. GateInit => GateInv
  BY GateInitInv, VerifyInitInv
<1>2. GateInv /\ [GateNext]_gateVars => GateInv'
  BY ByDigest, GateInvStep, AboutInvStep, VerifyInvStep
<1>3. GateInv => VerifyHonest
  BY DEF VerifyInv, VerifyHonest, Sound
<1>4. QED
  BY <1>1, <1>2, <1>3, PTL DEF GateSpec
=============================================================================
