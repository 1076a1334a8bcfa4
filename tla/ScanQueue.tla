----------------------------- MODULE ScanQueue -----------------------------
(***************************************************************************)
(* The scan queue: knock/adapters/redis_streams.py driven by               *)
(* knock/use_cases/scan_worker.py and the CLI commands scan enqueue,       *)
(* reserve, attach and reaper and the scan-dlq script.  Each client is a   *)
(* process of its own (a pod); the grain of atomicity is one Redis command *)
(* or one registry call, and a client may die between any two of them.     *)
(***************************************************************************)
EXTENDS RedisStream

CONSTANTS Workers,        (* scan-worker Jobs alive at one time                    *)
          Reapers,        (* the reaper CronJob (concurrencyPolicy: Forbid)        *)
          Enqueuers,      (* enqueuer sidecars, one per reconcile shard            *)
          Operators,      (* people running scan-dlq replay / drop                 *)
          MaxDeliveries,  (* reaper --max-deliveries                               *)
          ClaimCount,     (* count= of the reaper's XAUTOCLAIM (50)                *)
          Signing,        (* is an attestor configured for scan attach?            *)
          MaxCrashes,     (* bound: pods lost in the middle of their work          *)
          MaxOperations   (* bound: scan-dlq commands run                          *)

Client  == Workers \cup Reapers \cup Enqueuers \cup Operators
Trimmer == Workers \cup Reapers

ASSUME QueueAssumption ==
    /\ MaxDeliveries \in Nat \ {0}
    /\ ClaimCount \in Nat \ {0}
    /\ Signing \in BOOLEAN
    /\ MaxCrashes \in Nat
    /\ MaxOperations \in Nat
    /\ Workers \cap Reapers = {}
    /\ Trimmer \cap (Enqueuers \cup Operators) = {}
    /\ Enqueuers \cap Operators = {}

VARIABLES dead,       \* the dead stream: records [n, ref, of, why], n its entry id
          deadTop,    \* last id of the dead stream
          confirmed,  \* knock:scan:confirmed (every score counts as fresh)
          placed      \* knock:scan:placed

VARIABLES referred,   \* registry: refs that carry a scan-report referrer
          signed      \* registry: refs whose report is signed as well

VARIABLES pc,         \* where each client is
          tok,        \* worker, reaper: the work entry in hand (0: none)
          floor,      \* worker, reaper: the id a trim has read (0: none)
          seen,       \* auxiliary: the last-delivered id when that trim read XPENDING
          cursor,     \* reaper: XAUTOCLAIM cursor
          batch,      \* reaper: claimed entries not looked at yet
          todo,       \* enqueuer: refs of the report not enqueued yet
          picked      \* operator: dead entries selected and not handled yet

\* Auxiliary: nothing in the code reads these.
VARIABLES buried,     \* entries a dead-letter record was ever written for
          lost,       \* entries that vanished with no scan and no dead letter
          crashes,    \* pods lost so far
          operations  \* scan-dlq commands run so far

setVars   == <<dead, deadTop, confirmed, placed>>
imageVars == <<referred, signed>>
localVars == <<pc, tok, floor, seen, cursor, batch, todo, picked>>
auxVars   == <<buried, lost, crashes, operations>>
vars      == <<streamVars, setVars, imageVars, localVars, auxVars>>

DeadEntry == [n : Nat, ref : Ref \cup {NoRef}, of : Id, why : {"permanent", "max retries"}]

WorkerPc   == {"idle", "reserved", "referred", "confirm", "ack"}
ReaperPc   == {"claim", "check"}
BuryPc     == {"bury", "buryAck"}
TrimPc     == {"xpending", "xgroups", "xstream", "trimPending", "trimBelow", "trimAll"}
EnqueuerPc == {"xadd", "sadd"}
OperatorPc == {"replayAdd", "replayDel", "dropDel"}
Pc         == WorkerPc \cup ReaperPc \cup BuryPc \cup TrimPc \cup EnqueuerPc \cup OperatorPc

Init ==
    /\ StreamInit
    /\ dead = {} /\ deadTop = 0 /\ confirmed = {} /\ placed = {}
    /\ referred = {} /\ signed = {}
    /\ pc = [c \in Client |-> "idle"]
    /\ tok = [c \in Client |-> 0]
    /\ floor = [c \in Client |-> 0]
    /\ seen = [c \in Client |-> 0]
    /\ cursor = [c \in Client |-> 0]
    /\ batch = [c \in Client |-> {}]
    /\ todo = [c \in Client |-> {}]
    /\ picked = [c \in Client |-> {}]
    /\ buried = {} /\ lost = {}
    /\ crashes = 0 /\ operations = 0

Goto(c, label) == pc' = [pc EXCEPT ![c] = label]

\* The client's process ends, or starts over with nothing in hand.
Exit(c) ==
    /\ Goto(c, "idle")
    /\ tok' = [tok EXCEPT ![c] = 0]
    /\ floor' = [floor EXCEPT ![c] = 0]
    /\ seen' = [seen EXCEPT ![c] = 0]

-----------------------------------------------------------------------------
\* Enqueuer: `knock scan enqueue' on the report of a reconcile.

\* The sidecar reads a report; its refs are the placed digests.  (The bound MaxAdds:
\* no report comes that there are no ids left for.)
Report(q) ==
    /\ pc[q] = "idle"
    /\ \E refs \in (SUBSET Ref) \ {{}} :
          /\ top + Cardinality(refs) <= MaxAdds
          /\ todo' = [todo EXCEPT ![q] = refs]
    /\ Goto(q, "xadd")
    /\ UNCHANGED <<streamVars, setVars, imageVars, tok, floor, seen, cursor, batch, picked, auxVars>>

EnqueueAdd(q) ==
    /\ pc[q] = "xadd"
    /\ \E r \in todo[q] : XAdd(r)
    /\ tok' = [tok EXCEPT ![q] = top + 1]
    /\ Goto(q, "sadd")
    /\ UNCHANGED <<setVars, imageVars, floor, seen, cursor, batch, todo, picked, auxVars>>

WithPlaced(r) == placed \cup {r}

EnqueuePlace(q) ==
    /\ pc[q] = "sadd"
    /\ placed' = WithPlaced(ref[tok[q]])
    /\ todo' = [todo EXCEPT ![q] = @ \ {ref[tok[q]]}]
    /\ tok' = [tok EXCEPT ![q] = 0]
    /\ Goto(q, IF todo'[q] = {} THEN "idle" ELSE "xadd")
    /\ UNCHANGED <<streamVars, dead, deadTop, confirmed, imageVars, floor, seen, cursor, batch,
                   picked, auxVars>>

-----------------------------------------------------------------------------
\* Worker: `knock scan reserve', the scanner containers, `knock scan attach'.

Reserve(w) ==
    /\ pc[w] = "idle"
    /\ \E i \in Unread :
          /\ XReadGroup(i)
          /\ tok' = [tok EXCEPT ![w] = i]
    /\ Goto(w, "reserved")
    /\ UNCHANGED <<setVars, imageVars, floor, seen, cursor, batch, todo, picked, auxVars>>

PutReferrer(w) ==
    /\ pc[w] = "reserved"
    /\ referred' = referred \cup {ref[tok[w]]}
    /\ Goto(w, "referred")
    /\ UNCHANGED <<streamVars, setVars, signed, tok, floor, seen, cursor, batch, todo, picked, auxVars>>

Attest(w) ==
    /\ pc[w] = "referred"
    /\ signed' = IF Signing THEN signed \cup {ref[tok[w]]} ELSE signed
    /\ Goto(w, "confirm")
    /\ UNCHANGED <<streamVars, setVars, referred, tok, floor, seen, cursor, batch, todo, picked, auxVars>>

\* Faulty: a worker with no scan report confirms the image all the same.
FailureConfirmed(w) ==
    /\ pc[w] \in {"reserved", "referred"}
    /\ Goto(w, "confirm")
    /\ UNCHANGED <<streamVars, setVars, imageVars, tok, floor, seen, cursor, batch, todo, picked, auxVars>>

\* No SARIF, a scanner container that failed, or an error classified transient:
\* the pod ends and the entry stays pending.
TransientFailure(w) ==
    /\ pc[w] \in {"reserved", "referred"}
    /\ Exit(w)
    /\ UNCHANGED <<streamVars, setVars, imageVars, cursor, batch, todo, picked, auxVars>>

\* The error text says that the image is gone: the entry is dead-lettered.
PermanentFailure(w) ==
    /\ pc[w] \in {"reserved", "referred"}
    /\ Goto(w, "bury")
    /\ UNCHANGED <<streamVars, setVars, imageVars, tok, floor, seen, cursor, batch, todo, picked, auxVars>>

Confirm(w) ==
    /\ pc[w] = "confirm"
    /\ confirmed' = confirmed \cup {ref[tok[w]]}
    /\ Goto(w, "ack")
    /\ UNCHANGED <<streamVars, dead, deadTop, placed, imageVars, tok, floor, seen, cursor, batch, todo,
                   picked, auxVars>>

Ack(w) ==
    /\ pc[w] = "ack"
    /\ XAck(tok[w])
    /\ tok' = [tok EXCEPT ![w] = 0]
    /\ Goto(w, "xpending")
    /\ UNCHANGED <<setVars, imageVars, floor, seen, cursor, batch, todo, picked, auxVars>>

-----------------------------------------------------------------------------
\* Reaper: XAUTOCLAIM from the cursor, then each claimed entry in turn.

InRange(p)   == {i \in pel : i >= cursor[p]}
Claimable(p) == InRange(p) \cap idle \cap entries
Claimed(p)   == {i \in Claimable(p) : Cardinality({j \in Claimable(p) : j < i}) < ClaimCount}
Scanned(p)   == IF Cardinality(Claimable(p)) < ClaimCount THEN InRange(p)
                ELSE {i \in InRange(p) : \E j \in Claimed(p) : i <= j}

\* Where the reaper goes with `left' still to look at and the cursor at `at'.
ReaperNext(left, at) ==
    IF left # {} THEN "check" ELSE IF at # 0 THEN "claim" ELSE "xpending"

\* The coverage of an entry's image, or its dead letter, is on record.
HasOutcome(i) == ref[i] \in confirmed \/ i \in buried

ReaperStart(p) ==
    /\ pc[p] = "idle"
    /\ cursor' = [cursor EXCEPT ![p] = 0]
    /\ Goto(p, "claim")
    /\ UNCHANGED <<streamVars, setVars, imageVars, tok, floor, seen, batch, todo, picked, auxVars>>

\* Faulty: XAUTOCLAIM ... JUSTID, which does not count a delivery.
ClaimPageJustId(p) ==
    /\ pel' = pel \ (Scanned(p) \ entries)
    /\ idle' = (idle \ Claimed(p)) \ (Scanned(p) \ entries)
    /\ UNCHANGED <<entries, stamp, ref, top, last, deliveries>>

ClaimPage(p) == XAutoClaim(Claimed(p), Scanned(p))

Claim(p) ==
    /\ pc[p] = "claim"
    /\ ClaimPage(p)
    /\ \E next \in Id0 :
          /\ \/ Oldest(next, InRange(p) \ Scanned(p))
             \/ next = 0 /\ InRange(p) = Scanned(p)
          /\ cursor' = [cursor EXCEPT ![p] = next]
          /\ Goto(p, ReaperNext(Claimed(p), next))
    /\ batch' = [batch EXCEPT ![p] = Claimed(p)]
    /\ lost' = lost \cup {i \in Scanned(p) \ entries : ~HasOutcome(i)}
    /\ UNCHANGED <<setVars, imageVars, tok, floor, seen, todo, picked,
                   buried, crashes, operations>>

ShouldDeadLetter(delivered) == delivered > MaxDeliveries

\* XPENDING of one id: an entry acked since the claim counts as delivered once.
Delivered(i) == IF i \in pel THEN deliveries[i] ELSE 1

Check(p) ==
    /\ pc[p] = "check"
    /\ \E i \in batch[p] :
          /\ Oldest(i, batch[p])
          /\ \/ /\ ShouldDeadLetter(Delivered(i))
                /\ tok' = [tok EXCEPT ![p] = i]
                /\ Goto(p, "bury")
                /\ UNCHANGED batch
             \/ /\ ~ShouldDeadLetter(Delivered(i))
                /\ batch' = [batch EXCEPT ![p] = @ \ {i}]
                /\ Goto(p, ReaperNext(batch'[p], cursor[p]))
                /\ UNCHANGED tok
    /\ UNCHANGED <<streamVars, setVars, imageVars, floor, seen, cursor, todo, picked, auxVars>>

-----------------------------------------------------------------------------
\* _dead_letter_no_trim, by a worker or by the reaper: XADD dead, then XACK.

\* Faulty: the XADD to the dead stream is skipped, the XACK is not.
BuryUnrecorded(c) ==
    /\ pc[c] = "bury"
    /\ Goto(c, "buryAck")
    /\ UNCHANGED <<streamVars, setVars, imageVars, tok, floor, seen, cursor, batch, todo, picked, auxVars>>

Bury(c) ==
    /\ pc[c] = "bury"
    /\ dead' = dead \cup {[n |-> deadTop + 1, ref |-> ref[tok[c]], of |-> tok[c],
                           why |-> IF c \in Workers THEN "permanent" ELSE "max retries"]}
    /\ deadTop' = deadTop + 1
    /\ buried' = buried \cup {tok[c]}
    /\ Goto(c, "buryAck")
    /\ UNCHANGED <<streamVars, confirmed, placed, imageVars, tok, floor, seen, cursor, batch, todo,
                   picked, lost, crashes, operations>>

BuryAck(c) ==
    /\ pc[c] = "buryAck"
    /\ XAck(tok[c])
    /\ tok' = [tok EXCEPT ![c] = 0]
    /\ batch' = [batch EXCEPT ![c] = @ \ {tok[c]}]
    /\ Goto(c, ReaperNext(batch'[c], cursor[c]))
    /\ UNCHANGED <<setVars, imageVars, floor, seen, cursor, todo, picked, auxVars>>

-----------------------------------------------------------------------------
\* _trim_minid: three reads, each of a later state than the one before, and a trim.

TrimPending(c) ==
    /\ pc[c] = "xpending"
    /\ seen' = [seen EXCEPT ![c] = last]
    /\ \/ \E i \in pel :
             /\ Oldest(i, pel)
             /\ floor' = [floor EXCEPT ![c] = i]
             /\ Goto(c, "trimPending")
       \/ /\ pel = {}
          /\ Goto(c, "xgroups")
          /\ UNCHANGED floor
    /\ UNCHANGED <<streamVars, setVars, imageVars, tok, cursor, batch, todo, picked,
                   buried, lost, crashes, operations>>

\* Faulty: the first id to keep is taken to be the one after the last delivered.
TrimGroupsNextId(c) ==
    /\ pc[c] = "xgroups"
    /\ floor' = [floor EXCEPT ![c] = last + 1]
    /\ Goto(c, IF last = 0 THEN "idle" ELSE "xstream")
    /\ UNCHANGED <<streamVars, setVars, imageVars, tok, seen, cursor, batch, todo, picked, auxVars>>

TrimGroups(c) ==
    /\ pc[c] = "xgroups"
    /\ floor' = [floor EXCEPT ![c] = last]
    /\ Goto(c, IF last = 0 THEN "idle" ELSE "xstream")
    /\ UNCHANGED <<streamVars, setVars, imageVars, tok, seen, cursor, batch, todo, picked, auxVars>>

TrimStream(c) ==
    /\ pc[c] = "xstream"
    /\ Goto(c, IF floor[c] = top THEN "trimAll" ELSE "trimBelow")
    /\ UNCHANGED <<streamVars, setVars, imageVars, tok, floor, seen, cursor, batch, todo, picked, auxVars>>

\* Faulty: the floor itself is evicted; everything is evicted; the last entry is never evicted.
KeptAboveFloor(c) == {i \in Id : i > floor[c]}
KeptNothing(c)    == IF pc[c] = "trimAll" THEN {} ELSE {i \in Id : i >= floor[c]}
KeptFromFloor(c)  == {i \in Id : i >= floor[c]}

\* XTRIM MINID floor keeps the floor; XTRIM MINID (ms + 1)-0 keeps only later milliseconds.
Kept(c) == IF pc[c] = "trimAll" THEN {i \in Id : stamp[i] > stamp[floor[c]]}
           ELSE {i \in Id : i >= floor[c]}

Trim(c) ==
    /\ pc[c] \in {"trimPending", "trimBelow", "trimAll"}
    /\ XTrim(Kept(c))
    /\ lost' = lost \cup {i \in Unread \ Kept(c) : ~HasOutcome(i)}
    /\ Exit(c)
    /\ UNCHANGED <<setVars, imageVars, cursor, batch, todo, picked,
                   buried, crashes, operations>>

-----------------------------------------------------------------------------
\* Operator: `scan-dlq replay' and `scan-dlq drop' over an XRANGE of the dead stream.

Selections == {dead} \cup {{e \in dead : e.ref = r} : r \in Ref}

SelectDead(o) ==
    /\ pc[o] = "idle"
    /\ operations < MaxOperations
    /\ operations' = operations + 1
    /\ \E chosen \in Selections \ {{}} : picked' = [picked EXCEPT ![o] = chosen]
    /\ Goto(o, "replayAdd") \/ Goto(o, "dropDel")
    /\ UNCHANGED <<streamVars, setVars, imageVars, tok, floor, seen, cursor, batch, todo,
                   buried, lost, crashes>>

FirstPicked(o, e) == e \in picked[o] /\ \A f \in picked[o] : e.n <= f.n

\* Faulty: the replayed entry is deleted without having been added to the work stream.
ReplayDeletes(o) ==
    /\ pc[o] = "replayAdd"
    /\ Goto(o, "replayDel")
    /\ UNCHANGED <<streamVars, setVars, imageVars, tok, floor, seen, cursor, batch, todo, picked, auxVars>>

ReplayAdd(o) ==
    /\ pc[o] = "replayAdd"
    /\ \E e \in picked[o] : FirstPicked(o, e) /\ XAdd(e.ref)
    /\ Goto(o, "replayDel")
    /\ UNCHANGED <<setVars, imageVars, tok, floor, seen, cursor, batch, todo, picked, auxVars>>

\* XDEL of the entry just replayed, or of the next one to drop.
DeleteDead(o) ==
    /\ pc[o] \in {"replayDel", "dropDel"}
    /\ \E e \in picked[o] :
          /\ FirstPicked(o, e)
          /\ dead' = dead \ {e}
          /\ picked' = [picked EXCEPT ![o] = @ \ {e}]
    /\ Goto(o, IF picked'[o] = {} THEN "idle"
               ELSE IF pc[o] = "replayDel" THEN "replayAdd" ELSE "dropDel")
    /\ UNCHANGED <<streamVars, deadTop, confirmed, placed, imageVars, tok, floor, seen, cursor, batch,
                   todo, auxVars>>

-----------------------------------------------------------------------------
\* A pod is lost, or a Redis error ends it (the adapter does not retry).
Crash(c) ==
    /\ pc[c] # "idle"
    /\ crashes < MaxCrashes
    /\ crashes' = crashes + 1
    /\ Exit(c)
    /\ cursor' = [cursor EXCEPT ![c] = 0]
    /\ batch' = [batch EXCEPT ![c] = {}]
    /\ todo' = [todo EXCEPT ![c] = {}]
    /\ picked' = [picked EXCEPT ![c] = {}]
    /\ UNCHANGED <<streamVars, setVars, imageVars, buried, lost, operations>>

TimePasses ==
    /\ \E i \in Id : GrowsIdle(i)
    /\ UNCHANGED <<setVars, imageVars, localVars, auxVars>>

EnqueuerStep(q) == EnqueueAdd(q) \/ EnqueuePlace(q)

ScanStep(w) ==
    \/ PutReferrer(w) \/ Attest(w) \/ TransientFailure(w) \/ PermanentFailure(w)
    \/ Confirm(w) \/ Ack(w)

ReapStep(p) == Claim(p) \/ Check(p)

SettleStep(c) == Bury(c) \/ BuryAck(c) \/ TrimPending(c) \/ TrimGroups(c) \/ TrimStream(c) \/ Trim(c)

OperatorStep(o) == ReplayAdd(o) \/ DeleteDead(o)

Next ==
    \/ \E q \in Enqueuers : Report(q) \/ EnqueuerStep(q)
    \/ \E w \in Workers   : Reserve(w) \/ ScanStep(w)
    \/ \E p \in Reapers   : ReaperStart(p) \/ ReapStep(p)
    \/ \E c \in Trimmer   : SettleStep(c)
    \/ \E o \in Operators : SelectDead(o) \/ OperatorStep(o)
    \/ \E c \in Client    : Crash(c)
    \/ TimePasses

Spec == Init /\ [][Next]_vars

-----------------------------------------------------------------------------
SetsTypeOK ==
    /\ dead \subseteq DeadEntry
    /\ deadTop \in Nat
    /\ confirmed \subseteq Ref \cup {NoRef}
    /\ placed \subseteq Ref \cup {NoRef}

ImagesTypeOK ==
    /\ referred \subseteq Ref \cup {NoRef}
    /\ signed \subseteq Ref \cup {NoRef}

LocalsTypeOK ==
    /\ pc \in [Client -> Pc]
    /\ tok \in [Client -> Id0]
    /\ floor \in [Client -> Id0]
    /\ seen \in [Client -> Id0]
    /\ cursor \in [Client -> Id0]
    /\ batch \in [Client -> SUBSET Id]
    /\ todo \in [Client -> SUBSET Ref]
    /\ picked \in [Client -> SUBSET DeadEntry]

AuxTypeOK ==
    /\ buried \subseteq Id
    /\ lost \subseteq Id
    /\ crashes \in Nat
    /\ operations \in Nat

\* Every variable of the broker, the registry and the clients stays in its range.
TypeOK == StreamTypeOK /\ SetsTypeOK /\ ImagesTypeOK /\ LocalsTypeOK /\ AuxTypeOK

(***************************************************************************)
(* The XACK-is-last rule of redis_streams.py:1-5, seen from the entries:   *)
(* whatever is interleaved and wherever a client dies, an entry that was   *)
(* enqueued is still unread, still pending, has its outcome on record (its *)
(* image confirmed, or a dead letter written for it), or was evicted by a  *)
(* trim, which TrimKeepsNeeded is about.                                   *)
(***************************************************************************)
Accounted ==
    \A i \in 1 .. top : i \in Unread \/ i \in pel \/ HasOutcome(i) \/ i \in lost

(***************************************************************************)
(* A digest enters knock:scan:confirmed only after its report is attached  *)
(* and, when an attestor is configured, signed (attach_scan, then ack):    *)
(* a crash, a failure or a late worker never confirms an unscanned image.  *)
(***************************************************************************)
ConfirmedIsAttached ==
    /\ confirmed \subseteq referred
    /\ Signing => confirmed \subseteq signed

(***************************************************************************)
(* How far the reads of _trim_minid can go stale.  When XPENDING showed a  *)
(* pending entry, the trim that follows evicts nothing anybody needs, no   *)
(* matter what was read, acked or added since.  When it showed none, the   *)
(* trim may evict a needed entry, but only one that had not been delivered *)
(* when XPENDING was answered.                                             *)
(***************************************************************************)
StaleTrimScope ==
    \A c \in Trimmer : \A i \in Needed \ Kept(c) :
        /\ pc[c] # "trimPending"
        /\ pc[c] \in {"trimBelow", "trimAll"} => i > seen[c]

(***************************************************************************)
(* dlq_replay re-enqueues before it deletes: a dead letter leaves the dead *)
(* stream only because an operator drops it, or after a younger entry for  *)
(* the same image was added to the work stream.                            *)
(***************************************************************************)
DeadLetterOutlivesReplay ==
    [][\A e \in dead \ dead' :
          \/ \E o \in Operators : pc[o] = "dropDel" /\ FirstPicked(o, e)
          \/ \E i \in 1 .. top : i > e.of /\ ref[i] = e.ref]_vars

(***************************************************************************)
(* _trim_minid's docstring (redis_streams.py:117): a trim reclaims entries *)
(* "WITHOUT evicting an un-acked OR un-read entry".                        *)
(***************************************************************************)
TrimKeepsNeeded == [][Needed \subseteq entries']_vars

-----------------------------------------------------------------------------
(***************************************************************************)
(* Fairness.  A pod that runs goes on (or dies: Crash is not forced).  The *)
(* ScaledJob starts a worker while the stream is not empty, the reaper is  *)
(* a CronJob, and time passes.  Reports and operators are not forced.      *)
(***************************************************************************)
Fairness ==
    /\ \A q \in Enqueuers : WF_vars(EnqueuerStep(q))
    /\ \A w \in Workers   : WF_vars(Reserve(w)) /\ WF_vars(ScanStep(w))
    /\ \A p \in Reapers   : WF_vars(ReaperStart(p)) /\ WF_vars(ReapStep(p))
    /\ \A c \in Trimmer   : WF_vars(SettleStep(c))
    /\ \A o \in Operators : WF_vars(OperatorStep(o))
    /\ WF_vars(TimePasses)

FairSpec == Spec /\ Fairness

(***************************************************************************)
(* Every entry is eventually read and acknowledged or given up (a worker   *)
(* that dies or fails does not leave its entry pending for ever, because   *)
(* the reaper's deliveries add up to the dead-letter threshold), and XLEN, *)
(* the metric KEDA scales on, drains to 0 (scaledjob.yaml): once no more   *)
(* entries arrive nothing is pending and the stream is and stays empty,    *)
(* also when the trim of the last ack died half-way.                       *)
(***************************************************************************)
WorkDrains == <>[](entries = {} /\ pel = {})

=============================================================================
