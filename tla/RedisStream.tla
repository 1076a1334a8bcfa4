---------------------------- MODULE RedisStream ----------------------------
(***************************************************************************)
(* The Redis server as the scan queue uses it: one stream (the work        *)
(* stream) with one consumer group.  Every operator below is one Redis     *)
(* command, and a command is atomic; what the clients do between two       *)
(* commands is in ScanQueue.                                               *)
(*                                                                         *)
(* An entry id of Redis is <milliseconds>-<sequence>.  Here an entry is    *)
(* named by its position 1..MaxAdds in the order of the XADDs, and stamp   *)
(* gives the millisecond part, because _trim_minid computes with it.  Id 0 *)
(* is Redis's "0-0".                                                       *)
(***************************************************************************)
EXTENDS Naturals, FiniteSets

CONSTANTS Ref,      (* the image references (repo@digest) that can be enqueued  *)
          NoRef,    (* the payload of an id that has not been issued            *)
          MaxAdds,  (* bound: the number of XADDs on the work stream            *)
          SameMs    (* may two XADDs fall in the same millisecond?              *)

ASSUME StreamAssumption ==
    /\ MaxAdds \in Nat
    /\ SameMs \in BOOLEAN
    /\ NoRef \notin Ref

Id  == 1 .. MaxAdds
Id0 == 0 .. MaxAdds

VARIABLES entries,     \* the ids the stream holds
          stamp,       \* the millisecond of each id
          ref,         \* the payload of each id
          top,         \* XINFO STREAM last-generated-id
          last,        \* XINFO GROUPS last-delivered-id
          pel,         \* the pending entries list: delivered, not acknowledged
          deliveries,  \* XPENDING times_delivered of each id
          idle         \* the pending ids idle for longer than min-idle-time

streamVars == <<entries, stamp, ref, top, last, pel, deliveries, idle>>

StreamTypeOK ==
    /\ entries \subseteq Id
    /\ stamp \in [Id0 -> Nat]
    /\ ref \in [Id -> Ref \cup {NoRef}]
    /\ top \in Id0
    /\ last \in Id0
    /\ pel \subseteq Id
    /\ deliveries \in [Id -> Nat]
    /\ idle \subseteq pel

\* XGROUP CREATE work scan 0 MKSTREAM: an empty stream read from its beginning.
StreamInit ==
    /\ entries = {}
    /\ stamp = [i \in Id0 |-> 0]
    /\ ref = [i \in Id |-> NoRef]
    /\ top = 0
    /\ last = 0
    /\ pel = {}
    /\ deliveries = [i \in Id |-> 0]
    /\ idle = {}

Oldest(i, S) == i \in S /\ \A j \in S : i <= j

Unread == {i \in entries : i > last}

\* What a trim must not evict: the entries nobody read and those nobody acked.
Needed == {i \in entries : i > last \/ i \in pel}

XAdd(r) ==
    /\ top < MaxAdds
    /\ top' = top + 1
    /\ entries' = entries \cup {top + 1}
    /\ ref' = [ref EXCEPT ![top + 1] = r]
    /\ \/ stamp' = [stamp EXCEPT ![top + 1] = stamp[top] + 1]
       \/ /\ SameMs
          /\ top > 0
          /\ stamp' = [stamp EXCEPT ![top + 1] = stamp[top]]
    /\ UNCHANGED <<last, pel, deliveries, idle>>

\* XREADGROUP ... STREAMS work > COUNT 1: the first entry never delivered.
XReadGroup(i) ==
    /\ Oldest(i, Unread)
    /\ last' = i
    /\ pel' = pel \cup {i}
    /\ deliveries' = [deliveries EXCEPT ![i] = 1]
    /\ UNCHANGED <<entries, stamp, ref, top, idle>>

\* XACK is by group: any client may acknowledge, whoever the consumer is.
XAck(i) ==
    /\ pel' = pel \ {i}
    /\ idle' = idle \ {i}
    /\ UNCHANGED <<entries, stamp, ref, top, last, deliveries>>

\* XAUTOCLAIM counts a delivery, restarts the idle clock of what it claims,
\* and drops from the list the ids in its range that the stream no longer holds.
XAutoClaim(claimed, scanned) ==
    /\ pel' = pel \ (scanned \ entries)
    /\ idle' = (idle \ claimed) \ (scanned \ entries)
    /\ deliveries' = [i \in Id |-> IF i \in claimed THEN deliveries[i] + 1 ELSE deliveries[i]]
    /\ UNCHANGED <<entries, stamp, ref, top, last>>

\* XTRIM MINID with an exact threshold: keeps the ids of `kept'.
XTrim(kept) ==
    /\ entries' = entries \cap kept
    /\ UNCHANGED <<stamp, ref, top, last, pel, deliveries, idle>>

\* Time: a pending entry that nobody claims or acknowledges becomes idle.
GrowsIdle(i) ==
    /\ i \in pel \ idle
    /\ idle' = idle \cup {i}
    /\ UNCHANGED <<entries, stamp, ref, top, last, pel, deliveries>>

=============================================================================
