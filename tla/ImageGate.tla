----------------------------- MODULE ImageGate ------------------------------
(***************************************************************************)
(* The readers of scan results: `knock verify' gates an image on its       *)
(* stamp, its SBOM and its signed summaries, `knock audit' walks the tags  *)
(* and tells which images are stamped and signed (use_cases/verify.py,     *)
(* audit.py, domain/verify.py, coverage.py).  They run beside the          *)
(* attachers of ScanReferrers and tags that move; gc touches nothing they  *)
(* read.                                                                   *)
(***************************************************************************)
EXTENDS ScanReferrers, SequencesExt

CONSTANTS Stamped,     (* images whose manifest carries the stamp                   *)
          HasSbom,     (* images with an SBOM                                       *)
          Verifiers, Auditors,
          VerifyRefs,  (* what verify is called with                                *)
          Require,     (* --require                                                 *)
          MaxSeverity, (* --max-severity                                            *)
          MaxAge       (* --max-age                                                 *)

Severity == <<"critical", "high", "medium", "low", "unknown">>

ASSUME GateAssumption ==
    /\ Stamped \subseteq Manifests /\ HasSbom \subseteq Manifests
    /\ VerifyRefs \subseteq Tags \cup Manifests
    /\ Require \subseteq {"stamp", "sbom", "scan-pass"} /\ Require # {}
    /\ MaxSeverity \in ToSet(Severity) /\ MaxAge \in Nat

VARIABLES verify,  \* what each verifier is at, and what it said last
          audit    \* and each auditor

gateVars == <<vars, verify, audit>>

GateInit == Init /\ verify = [v \in Verifiers |-> Idle] /\ audit = [a \in Auditors |-> Idle]

\* gate_breached: unknown counts at the two lowest thresholds.
GateBreached(facts, failOn) ==
    LET rank == CHOOSE i \in DOMAIN Severity : Severity[i] = failOn
        atOrAbove == {Severity[i] : i \in 1 .. rank} \cup (IF failOn \in {"low", "unknown"} THEN {"unknown"} ELSE {})
    IN  \E s \in atOrAbove : <<"vuln", s>> \in facts

-----------------------------------------------------------------------------
(* verify_image.                                                           *)

VerifyTo(v, x) == verify' = [verify EXCEPT ![v] = x]

Resting(x) == x.stage \in {"idle", "done"}

\* get_annotations reads the digest first and the manifest then, both by the reference.
VerifyDigest(v) ==
    /\ Resting(verify[v])
    /\ \E ref \in VerifyRefs :
          VerifyTo(v, [stage |-> "annotations", ref |-> ref, digest |-> At(ref),
                       known |-> {p \in predicates : p.subject = At(ref)}])
    /\ UNCHANGED <<vars, audit>>

VerifyAnnotations(v) ==
    /\ verify[v].stage = "annotations"
    /\ VerifyTo(v, [stage |-> "predicates", ref |-> verify[v].ref, digest |-> verify[v].digest,
                    known |-> verify[v].known, stamped |-> At(verify[v].ref) \in Stamped])
    /\ UNCHANGED <<vars, audit>>

\* The first one that cosign lists among the freshest: any of them.
Freshest(ps) == {p \in ps : \A q \in ps : q.time <= p.time}

\* Faulty: one clean summary is enough.
ScanPassesAny(ps, f) == \E p \in ps : ~GateBreached(p.facts, MaxSeverity) /\ now - p.time <= MaxAge

\* _scan_outcome, f being the freshest.
ScanPasses(ps, f) ==
    /\ ps # {}
    /\ ~GateBreached(f.facts, MaxSeverity)
    /\ now - f.time <= MaxAge

\* evaluate
Passes(v, ps, f) ==
    /\ "stamp" \in Require => verify[v].stamped
    /\ "sbom" \in Require => verify[v].digest \in HasSbom
    /\ "scan-pass" \in Require => ScanPasses(ps, f)

Judged(v, ps) ==
    \E f \in IF ps = {} THEN {Unset} ELSE Freshest(ps) :
        VerifyTo(v, [stage |-> "done", ref |-> verify[v].ref, digest |-> verify[v].digest,
                     known |-> verify[v].known, time |-> now, passed |-> Passes(v, ps, f)])

\* The summaries cosign verifies on the pinned image, and the verdict.
VerifyPredicates(v) ==
    /\ verify[v].stage = "predicates"
    /\ Judged(v, {p \in predicates : p.subject = verify[v].digest})
    /\ UNCHANGED <<vars, audit>>

\* cosign runs and verifies nothing.
CosignRefuses(v) ==
    /\ verify[v].stage = "predicates" /\ Fault
    /\ Judged(v, {})
    /\ UNCHANGED <<now, registryVars, attach, gc, moves, audit>>

VerifyFails(v) ==
    /\ ~Resting(verify[v]) /\ Fault
    /\ VerifyTo(v, Idle)
    /\ UNCHANGED <<now, registryVars, attach, gc, moves, audit>>

-----------------------------------------------------------------------------
(* audit_coverage, with --check-signed and both gates.                     *)

AuditTo(a, x) == audit' = [audit EXCEPT ![a] = x]

\* Faulty: an image that could not be read is no gap.
AuditExitUnread(found) == IF found \ {"errored"} # {} THEN 1 ELSE 0

\* audit_exit_code
AuditExit(found) == IF "errored" \in found THEN 2 ELSE IF found # {} THEN 1 ELSE 0

Classified(a, what) ==
    LET found == audit[a].found \cup what
        x     == [audit[a] EXCEPT !.found = found]
    IN  AuditTo(a, IF x.todo = {} THEN [stage |-> "done", exit |-> AuditExit(found), moved |-> x.moved]
                   ELSE [x EXCEPT !.stage = "digest"])

AuditStart(a) ==
    /\ Resting(audit[a])
    /\ AuditTo(a, [stage |-> "digest", todo |-> Tags, at |-> Unset, found |-> {}, moved |-> {}])
    /\ UNCHANGED <<vars, verify>>

\* The digest is reported and not used.
AuditDigest(a) ==
    /\ audit[a].stage = "digest"
    /\ \E t \in audit[a].todo :
          AuditTo(a, [audit[a] EXCEPT !.stage = "annotations", !.at = t, !.todo = @ \ {t}])
    /\ UNCHANGED <<vars, verify>>

AuditAnnotations(a) ==
    /\ audit[a].stage = "annotations"
    /\ IF tags[audit[a].at] \in Stamped THEN AuditTo(a, [audit[a] EXCEPT !.stage = "signed"])
       ELSE Classified(a, {"uncovered"})
    /\ UNCHANGED <<vars, verify>>

\* Any attestation that cosign made counts as a signature.
AuditSigned(a) ==
    /\ audit[a].stage = "signed"
    /\ Classified(a, IF \E p \in predicates : p.subject = tags[audit[a].at] THEN {} ELSE {"unsigned"})
    /\ UNCHANGED <<vars, verify>>

AuditFails(a) ==
    /\ audit[a].stage \in {"annotations", "signed"} /\ Fault
    /\ Classified(a, {"errored"})
    /\ UNCHANGED <<now, registryVars, attach, gc, moves, verify>>

-----------------------------------------------------------------------------
(* The others go on meanwhile; an auditor's record of the tags that were   *)
(* pushed again since it began is kept for the property only.              *)

MoveSeen ==
    /\ Move
    /\ audit' = [a \in Auditors |-> IF audit[a].stage = "idle" THEN Idle
                                    ELSE [audit[a] EXCEPT !.moved = @ \cup {t \in Tags : tags'[t] # tags[t]}]]
    /\ UNCHANGED verify

Elsewhere == (Tick \/ \E c \in Attachers : AttachStep(c)) /\ UNCHANGED <<verify, audit>>

GateNext ==
    \/ MoveSeen \/ Elsewhere
    \/ \E v \in Verifiers : VerifyDigest(v) \/ VerifyAnnotations(v) \/ VerifyPredicates(v) \/ CosignRefuses(v) \/ VerifyFails(v)
    \/ \E a \in Auditors : AuditStart(a) \/ AuditDigest(a) \/ AuditAnnotations(a) \/ AuditSigned(a) \/ AuditFails(a)

GateSpec == GateInit /\ [][GateNext]_gateVars

-----------------------------------------------------------------------------
(* Properties.                                                             *)

\* verify passes only if a scan of this very image was signed within the age, and nothing
\* that breached was signed later, as far as the registry knew when verify began.
VerifyHonest ==
    \A v \in Verifiers : verify[v].stage = "done" /\ verify[v].passed /\ "scan-pass" \in Require =>
        \E p \in predicates :
            /\ p.subject = verify[v].digest /\ p.about = verify[v].digest
            /\ ~GateBreached(p.facts, MaxSeverity) /\ verify[v].time - p.time <= MaxAge
            /\ \A q \in verify[v].known : GateBreached(q.facts, MaxSeverity) => q.time <= p.time

\* An audit that exits with 0 has missed nothing: every tag that was not pushed again since
\* it began is stamped and signed.
AuditClean ==
    \A a \in Auditors : audit[a].stage = "done" /\ audit[a].exit = 0 =>
        \A t \in Tags \ audit[a].moved : tags[t] \in Stamped /\ \E p \in predicates : p.subject = tags[t]
=============================================================================
