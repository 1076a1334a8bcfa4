------------------------ MODULE QueueRefinementProofs ------------------------
(***************************************************************************)
(* Proofs about what the trims of the scan queue may evict, and that the   *)
(* queue implements AbstractQueue.                                         *)
(***************************************************************************)
EXTENDS QueueRefinement, ScanQueueProofs

-----------------------------------------------------------------------------
(* What a trim may evict.                                                  *)

\* Redis issues ids in the order of their milliseconds.
StampsInOrder ==
    \A i, j \in 0 .. top : i < j => stamp[i] <= stamp[j] /\ (SameMs \/ stamp[i] < stamp[j])

\* Between XPENDING and XINFO GROUPS only other clients can have been handed entries.
GroupReads ==
    \A c \in Trimmer :
        pc[c] \in AfterEmpty =>
            /\ pc[c] # "xgroups" => seen[c] <= floor[c] /\ floor[c] <= last
            /\ Workers \subseteq {c} => seen[c] = last

ReadsInv == TrimReads /\ StampsInOrder /\ GroupReads

\* Another worker was handed i after XPENDING had been answered to c.
HandedOutSince(c, i) == i \in pel /\ seen[c] < i /\ \E w \in Workers : w # c

\* i, unread, is of the very millisecond of the last-delivered id that c has read.
InFloorMs(c, i) == SameMs /\ pc[c] = "trimAll" /\ last < i /\ stamp[i] = stamp[floor[c]]

\* What a trim evicts although it is needed has one of the two explanations.
LEMMA TrimLoses ==
  ASSUME TypeInv, ReadsInv, NEW c \in Trimmer, Trim(c), NEW i \in Needed \ Kept(c)
  PROVE  HandedOutSince(c, i) \/ InFloorMs(c, i)
<1>1. i \in Id /\ (i > last \/ i \in pel) /\ c \in Client /\ pc[c] \in {"trimPending", "trimBelow", "trimAll"}
  <2>1. pc[c] \in {"trimPending", "trimBelow", "trimAll"}
    BY DEF Trim
  <2>2. c \in Client
    BY DEF Client, Trimmer
  <2>3. QED
    BY <2>1, <2>2 DEF Needed, TypeInv, StreamInv, StreamTypeOK
<1>2. /\ last \in Nat /\ top \in Nat /\ last <= top /\ floor[c] \in Nat /\ seen[c] \in Nat
      /\ i \in Nat /\ i <= top /\ pel \subseteq 1 .. last
  BY <1>1, StreamAssumption
     DEF TypeInv, ClientsOK, LocalsTypeOK, StreamInv, StreamTypeOK, Id, Id0, Needed
<1>3. pc[c] # "trimPending"
  <2> SUFFICES ASSUME pc[c] = "trimPending" PROVE FALSE
    OBVIOUS
  <2>1. floor[c] <= i
    BY <1>1, <1>2 DEF ReadsInv, TrimReads
  <2>2. QED
    BY <1>1, <2>1 DEF Kept
<1>4. /\ pc[c] \in AfterEmpty /\ floor[c] <= last
      /\ i \in pel => seen[c] < i
      /\ Workers \subseteq {c} => seen[c] = last
  BY <1>1, <1>3 DEF AfterEmpty, ReadsInv, TrimReads, GroupReads
<1>5. CASE i \in pel
  <2>1. seen[c] # last
    BY <1>2, <1>4, <1>5
  <2>2. QED
    BY <1>4, <1>5, <2>1 DEF HandedOutSince
<1>6. CASE i \notin pel
  <2>1. i > last /\ floor[c] < i /\ pc[c] = "trimAll"
    BY <1>1, <1>2, <1>3, <1>4, <1>6 DEF Kept
  <2>2. ~ (stamp[i] > stamp[floor[c]]) /\ stamp[floor[c]] <= stamp[i] /\ (SameMs \/ stamp[floor[c]] < stamp[i])
    BY <1>1, <1>2, <2>1 DEF Kept, ReadsInv, StampsInOrder
  <2>3. stamp[i] \in Nat /\ stamp[floor[c]] \in Nat
    BY <1>1, StreamAssumption DEF TypeInv, StreamInv, ClientsOK, LocalsTypeOK, StreamTypeOK, Id, Id0
  <2>4. QED
    BY <2>1, <2>2, <2>3 DEF InFloorMs
<1>7. QED
  BY <1>5, <1>6

\* Entries go only where one is trimmed.
LEMMA StepEntries ==
  ASSUME TypeInv, [Next]_vars
  PROVE  \/ UNCHANGED <<entries, stamp, top, last, ref>> /\ pel' \subseteq pel
         \/ \E r \in Ref \cup {NoRef} : XAdd(r) /\ \E c \in Enqueuers \cup Operators : Moves(c, {"sadd", "replayDel"})
         \/ \E w \in Workers : Reserve(w)
         \/ \E c \in Trimmer : Trim(c)
<1> DEFINE Quiet == UNCHANGED <<entries, stamp, top, last, ref>> /\ pel' \subseteq pel
           Adds  == \E r \in Ref \cup {NoRef} : XAdd(r) /\ \E c \in Enqueuers \cup Operators : Moves(c, {"sadd", "replayDel"})
<1>1. ASSUME NEW q \in Enqueuers, Report(q) \/ EnqueuePlace(q)
      PROVE  Quiet
  BY <1>1 DEF Report, EnqueuePlace, streamVars
<1>2. ASSUME NEW q \in Enqueuers, EnqueueAdd(q)
      PROVE  Adds
  <2>1. PICK r \in todo[q] : XAdd(r)
    BY <1>2 DEF EnqueueAdd
  <2>2. r \in Ref
    BY <2>1 DEF TypeInv, ClientsOK, LocalsTypeOK, Client
  <2>3. Moves(q, {"sadd", "replayDel"})
    BY <1>2, EnqueuerMoves DEF Moves
  <2>4. QED
    BY <2>1, <2>2, <2>3
<1>3. ASSUME NEW w \in Workers, ScanStep(w)
      PROVE  Quiet
  BY <1>3
     DEF ScanStep, PutReferrer, Attest, TransientFailure, PermanentFailure, Confirm, Ack, XAck, streamVars
<1>4. ASSUME NEW p \in Reapers, ReaperStart(p) \/ ReapStep(p)
      PROVE  Quiet
  BY <1>4 DEF ReapStep, ReaperStart, Claim, ClaimPage, XAutoClaim, Check, streamVars
<1>5. ASSUME NEW c \in Trimmer, Bury(c) \/ BuryAck(c) \/ TrimPending(c) \/ TrimGroups(c) \/ TrimStream(c)
      PROVE  Quiet
  BY <1>5 DEF Bury, BuryAck, XAck, TrimPending, TrimGroups, TrimStream, streamVars
<1>6. ASSUME NEW o \in Operators, ReplayAdd(o)
      PROVE  Adds
  <2>1. PICK e \in picked[o] : XAdd(e.ref)
    BY <1>6 DEF ReplayAdd
  <2>2. e.ref \in Ref \cup {NoRef}
    <3>1. e \in DeadEntry
      BY <2>1 DEF TypeInv, ClientsOK, LocalsTypeOK, Client
    <3>2. QED
      BY <3>1 DEF DeadEntry
  <2>3. Moves(o, {"sadd", "replayDel"})
    BY <1>6, OperatorMoves DEF Moves
  <2>4. QED
    BY <2>1, <2>2, <2>3
<1>7. ASSUME NEW o \in Operators, SelectDead(o) \/ DeleteDead(o)
      PROVE  Quiet
  BY <1>7 DEF SelectDead, DeleteDead, streamVars
<1>8. ASSUME NEW c \in Client, Crash(c)
      PROVE  Quiet
  BY <1>8 DEF Crash, streamVars
<1>9. TimePasses \/ UNCHANGED vars => Quiet
  BY DEF TimePasses, GrowsIdle, vars, streamVars
<1> HIDE DEF Quiet, Adds
<1>10. Quiet \/ Adds \/ (\E w \in Workers : Reserve(w)) \/ (\E c \in Trimmer : Trim(c))
  BY <1>1, <1>2, <1>3, <1>4, <1>5, <1>6, <1>7, <1>8, <1>9 DEF Next, EnqueuerStep, SettleStep, OperatorStep
<1>11. QED
  BY <1>10 DEF Quiet, Adds

LEMMA StepStamps ==
  ASSUME TypeInv, StampsInOrder, [Next]_vars
  PROVE  StampsInOrder'
<1>1. top \in Nat /\ stamp \in [Id0 -> Nat] /\ top \in Id0
  BY StreamAssumption DEF TypeInv, StreamInv, StreamTypeOK, Id0
<1>2. ASSUME UNCHANGED <<stamp, top>>
      PROVE  StampsInOrder'
  BY <1>2 DEF StampsInOrder
<1>3. ASSUME NEW r, XAdd(r)
      PROVE  StampsInOrder'
  <2>1. top' = top + 1 /\ top + 1 \in Id0
    BY <1>1, <1>3, StreamAssumption DEF XAdd, Id0
  <2>2. \/ stamp' = [stamp EXCEPT ![top + 1] = stamp[top] + 1]
        \/ SameMs /\ stamp' = [stamp EXCEPT ![top + 1] = stamp[top]]
    BY <1>3 DEF XAdd
  <2>3. \A i \in 0 .. top : stamp'[i] = stamp[i] /\ i \in Id0 /\ stamp[i] \in Nat
    BY <1>1, <2>1, <2>2, StreamAssumption DEF Id0
  <2>4. stamp[top] \in Nat /\ (stamp'[top + 1] = stamp[top] + 1 \/ (SameMs /\ stamp'[top + 1] = stamp[top]))
    BY <1>1, <2>1, <2>2
  <2>5. \A i \in 0 .. top : stamp[i] <= stamp[top]
    BY <1>1, <2>3 DEF StampsInOrder
  <2>6. SUFFICES ASSUME NEW i \in 0 .. top', NEW j \in 0 .. top', i < j
                 PROVE  stamp'[i] <= stamp'[j] /\ (SameMs \/ stamp'[i] < stamp'[j])
    BY DEF StampsInOrder
  <2>7. CASE j = top + 1
    <3>1. i \in 0 .. top
      BY <1>1, <2>1, <2>6, <2>7
    <3>2. stamp[i] \in Nat /\ stamp[i] <= stamp[top] /\ stamp'[i] = stamp[i]
      BY <2>3, <2>5, <3>1
    <3>3. QED
      BY <2>4, <2>7, <3>2
  <2>8. CASE j # top + 1
    <3>1. i \in 0 .. top /\ j \in 0 .. top
      BY <1>1, <2>1, <2>6, <2>8
    <3>2. QED
      BY <2>3, <2>6, <3>1 DEF StampsInOrder
  <2>9. QED
    BY <2>7, <2>8
<1>4. ASSUME (\E w \in Workers : Reserve(w)) \/ (\E c \in Trimmer : Trim(c))
      PROVE  UNCHANGED <<stamp, top>>
  BY <1>4 DEF Reserve, XReadGroup, Trim, XTrim
<1>5. QED
  BY <1>2, <1>3, <1>4, StepEntries

\* Only a worker that reserves moves the last-delivered id, and it moves it up.
LEMMA StepLast ==
  ASSUME TypeInv, [Next]_vars
  PROVE  last <= last' /\ (last' = last \/ \E w \in Workers : Reserve(w))
<1>1. last <= last'
  BY StepDeliversForward DEF DeliversForward
<1>2. ASSUME NEW r, XAdd(r) PROVE last' = last
  BY <1>2 DEF XAdd
<1>3. ASSUME NEW c \in Trimmer, Trim(c) PROVE last' = last
  BY <1>3 DEF Trim, XTrim
<1>4. QED
  BY <1>1, <1>2, <1>3, StepEntries

LEMMA StepGroupReads ==
  ASSUME TypeInv, ReadsInv, [Next]_vars
  PROVE  GroupReads'
<1> DEFINE Right(c) ==
              /\ pc[c] # "xgroups" => seen[c] <= floor[c] /\ floor[c] <= last
              /\ Workers \subseteq {c} => seen[c] = last
<1> SUFFICES ASSUME NEW c \in Trimmer, pc'[c] \in AfterEmpty
             PROVE  /\ pc'[c] # "xgroups" => seen'[c] <= floor'[c] /\ floor'[c] <= last'
                    /\ Workers \subseteq {c} => seen'[c] = last'
  BY DEF GroupReads
<1>1. /\ c \in Client /\ pc \in [Client -> Pc] /\ floor \in [Client -> Id0] /\ seen \in [Client -> Id0]
      /\ last \in Nat /\ last' \in Nat /\ floor[c] \in Nat /\ seen[c] \in Nat
  <2>1. StreamGrows
    BY StepGrows
  <2>2. QED
    BY <2>1, StreamAssumption
       DEF Client, Trimmer, TypeInv, ClientsOK, LocalsTypeOK, StreamGrows, StreamInv, StreamTypeOK, Id0
<1>2. CASE TrimPending(c)
  BY <1>1, <1>2 DEF TrimPending, Goto, streamVars, AfterEmpty
<1>3. CASE TrimGroups(c)
  <2>1. pc[c] = "xgroups" /\ floor'[c] = last /\ UNCHANGED <<seen, last>>
    BY <1>1, <1>3 DEF TrimGroups, streamVars
  <2>2. seen[c] <= last /\ (Workers \subseteq {c} => seen[c] = last)
    BY <1>1, <2>1 DEF ReadsInv, TrimReads, GroupReads, AfterEmpty
  <2>3. QED
    BY <1>1, <2>1, <2>2
<1>4. CASE TrimStream(c)
  <2>1. pc[c] = "xstream" /\ UNCHANGED <<floor, seen, last>>
    BY <1>4 DEF TrimStream, streamVars
  <2>2. QED
    BY <2>1 DEF ReadsInv, GroupReads, AfterEmpty
<1>5. CASE ~ (TrimPending(c) \/ TrimGroups(c) \/ TrimStream(c))
  <2>1. ASSUME NEW labels, Moves(c, labels), labels \cap AfterEmpty = {}
        PROVE  FALSE
    BY <2>1 DEF Moves
  <2>2. \A d, labels : Moves(d, labels) /\ (d = c => labels \cap AfterEmpty = {}) =>
            pc'[c] = pc[c] /\ floor'[c] = floor[c] /\ seen'[c] = seen[c]
    BY <1>1, <2>1 DEF Moves
  <2>3. pc'[c] = pc[c] /\ floor'[c] = floor[c] /\ seen'[c] = seen[c]
    <3>1. CASE Stays
      BY <3>1 DEF Stays
    <3>2. ASSUME NEW d \in Client, Moves(d, Plain)
          PROVE  pc'[c] = pc[c] /\ floor'[c] = floor[c] /\ seen'[c] = seen[c]
      BY <2>2, <3>2 DEF Plain, Marked, AfterEmpty
    <3>3. ASSUME NEW w \in Workers, PutReferrer(w) \/ Attest(w) \/ Confirm(w)
          PROVE  pc'[c] = pc[c] /\ floor'[c] = floor[c] /\ seen'[c] = seen[c]
      BY <2>2, <3>3, WorkerMoves DEF AfterEmpty
    <3>4. ASSUME NEW d \in Trimmer, Bury(d)
          PROVE  pc'[c] = pc[c] /\ floor'[c] = floor[c] /\ seen'[c] = seen[c]
      BY <2>2, <3>4, TrimmerMoves DEF AfterEmpty
    <3>5. ASSUME NEW d \in Trimmer, TrimPending(d) \/ TrimGroups(d) \/ TrimStream(d)
          PROVE  pc'[c] = pc[c] /\ floor'[c] = floor[c] /\ seen'[c] = seen[c]
      BY <1>5, <2>2, <3>5, TrimmerMoves
    <3>6. ASSUME NEW o \in Operators, ReplayAdd(o) \/ DeleteDead(o) \/ SelectDead(o)
          PROVE  pc'[c] = pc[c] /\ floor'[c] = floor[c] /\ seen'[c] = seen[c]
      BY <2>2, <3>6, OperatorMoves DEF AfterEmpty
    <3>7. QED
      BY <3>1, <3>2, <3>3, <3>4, <3>5, <3>6, StepMoves
  <2>4. Right(c)
    BY <2>3 DEF ReadsInv, GroupReads
  <2>5. Workers \subseteq {c} => last' = last
    <3>1. ASSUME Reserve(c), c \in Workers PROVE FALSE
      <4>1. Moves(c, {"reserved"})
        BY <3>1, WorkerMoves
      <4>2. QED
        BY <2>1, <4>1 DEF AfterEmpty
    <3>2. QED
      BY <3>1, StepLast
  <2>6. QED
    BY <1>1, <2>3, <2>4, <2>5, StepLast
<1>6. QED
  BY <1>2, <1>3, <1>4, <1>5

LEMMA ReadsInit == Init => ReadsInv
<1> SUFFICES ASSUME Init PROVE ReadsInv
  OBVIOUS
<1>1. TrimReads /\ GroupReads
  BY DEF Init, TrimReads, GroupReads, AfterEmpty, Client, Trimmer
<1>2. StampsInOrder
  BY DEF Init, StreamInit, StampsInOrder
<1>3. QED
  BY <1>1, <1>2 DEF ReadsInv

LEMMA StepReads ==
  ASSUME TypeInv, ReadsInv, [Next]_vars
  PROVE  ReadsInv'
  BY StepTrimReads, StepStamps, StepGroupReads DEF ReadsInv

\* What somebody needs and the stream loses went in a trim, for one of the two reasons.
LossExplained(i) == \E c \in Trimmer : Trim(c) /\ (HandedOutSince(c, i) \/ InFloorMs(c, i))

LEMMA StepLosses ==
  ASSUME TypeInv, ReadsInv, [Next]_vars, NEW i \in Needed \ entries'
  PROVE  LossExplained(i)
<1>1. i \in entries
  BY DEF Needed
<1>2. ASSUME NEW r, XAdd(r) PROVE FALSE
  BY <1>1, <1>2 DEF XAdd
<1>3. ASSUME NEW w \in Workers, Reserve(w) PROVE FALSE
  BY <1>1, <1>3 DEF Reserve, XReadGroup
<1>4. ASSUME NEW c \in Trimmer, Trim(c) PROVE LossExplained(i)
  <2>1. i \notin Kept(c)
    BY <1>1, <1>4 DEF Trim, XTrim
  <2>2. QED
    BY <1>4, <2>1, TrimLoses DEF LossExplained
<1>5. QED
  BY <1>1, <1>2, <1>3, <1>4, StepEntries

(***************************************************************************)
(* The docstring of _trim_minid (redis_streams.py:117) says that a trim    *)
(* evicts no unread and no unacknowledged entry.  With any number of       *)
(* workers and reapers, and whatever crashes, it can fail in two ways and  *)
(* in no other: the entry was handed to another worker after XPENDING      *)
(* answered that nothing is pending, or it is unread and was added in the  *)
(* very millisecond of the last-delivered id read by XINFO GROUPS.  So a   *)
(* trim whose XPENDING showed an entry loses nothing; nor, where no two    *)
(* entries share a millisecond, does one with no reservation since then.   *)
(* Inductive with ReadsInv.                                                *)
(***************************************************************************)
THEOREM TrimLossesExplained ==
  Spec => [][\A i \in Needed \ entries' : LossExplained(i)]_vars
<1> DEFINE IInv == TypeInv /\ ReadsInv
<1>1. Init => IInv
  BY TypeInvInit, ReadsInit
<1>2. IInv /\ [Next]_vars => IInv'
  BY StepTypes, StepReads
<1>3. IInv /\ [Next]_vars => [\A i \in Needed \ entries' : LossExplained(i)]_vars
  BY StepLosses
<1>4. QED
  BY <1>1, <1>2, <1>3, PTL DEF Spec

\* One client that trims, and no shared millisecond: neither reason is to be had.
LEMMA SoleTrimKeeps ==
  ASSUME ~MayLose, TypeInv, ReadsInv, NEW c \in Trimmer, Trim(c)
  PROVE  Needed \subseteq Kept(c)
<1>1. \A w \in Workers : w = c
  BY DEF MayLose, Trimmer
<1>2. ~SameMs
  BY DEF MayLose
<1>3. QED
  BY <1>1, <1>2, TrimLoses DEF HandedOutSince, InFloorMs

\* Then the stream holds all that is pending.
LEMMA StepPelHeld ==
  ASSUME ~MayLose, TypeInv, ReadsInv, pel \subseteq entries, [Next]_vars
  PROVE  pel' \subseteq entries'
<1>1. CASE UNCHANGED <<entries, stamp, top, last, ref>> /\ pel' \subseteq pel
  BY <1>1
<1>2. ASSUME NEW r, XAdd(r) PROVE pel' \subseteq entries'
  BY <1>2 DEF XAdd
<1>3. ASSUME NEW w \in Workers, Reserve(w) PROVE pel' \subseteq entries'
  BY <1>3 DEF Reserve, XReadGroup, Oldest, Unread
<1>4. ASSUME NEW c \in Trimmer, Trim(c) PROVE pel' \subseteq entries'
  <2>1. pel \subseteq Needed /\ pel' = pel /\ entries' = entries \cap Kept(c)
    BY <1>4 DEF Needed, Trim, XTrim
  <2>2. QED
    BY <1>4, <2>1, SoleTrimKeeps
<1>5. QED
  BY <1>1, <1>2, <1>3, <1>4, StepEntries

-----------------------------------------------------------------------------
(* The refinement.                                                         *)

\* What was lost is neither waiting nor pending, and never is again.
LostGone == lost \subseteq 1 .. top /\ lost \cap (Unread \cup pel) = {}

QInv == TypeInv /\ OutcomeFirst /\ ReadsInv /\ LostGone /\ (MayLose \/ pel \subseteq entries)

Job == [i \in Id |-> JobOf(i)]
Recorded == {i \in 1 .. top : HasOutcome(i)}

\* The unread entries are above the last delivered one, and the pending ones are not.
LEMMA UnreadPending ==
  ASSUME TypeInv
  PROVE  /\ top \in Nat /\ last \in Nat /\ last <= top
         /\ entries \subseteq 1 .. top /\ Unread \subseteq entries
         /\ pel \subseteq 1 .. last /\ pel \subseteq 1 .. top
         /\ Unread \cap pel = {}
<1>1. top \in Nat /\ last \in Nat /\ last <= top /\ entries \subseteq 1 .. top /\ pel \subseteq 1 .. last
  BY StreamAssumption DEF TypeInv, StreamInv, StreamTypeOK, Id0
<1>2. Unread \subseteq entries /\ \A i \in Unread : i > last
  BY DEF Unread
<1>3. \A i \in pel : i \in Nat /\ ~ (i > last) /\ i \in 1 .. top
  BY <1>1
<1>4. QED
  BY <1>1, <1>2, <1>3

\* The sets of the stream and the states of the abstract entries.
LEMMA JobKinds ==
  ASSUME TypeInv, NEW i \in Id
  PROVE  /\ Job[i] = "none" <=> i > top
         /\ Job[i] = "waiting" <=> i \in Unread
         /\ Job[i] = "held" <=> i \in pel
         /\ Job[i] \in {"lost", "done"} <=> i \in 1 .. top /\ i \notin Unread /\ i \notin pel
         /\ i \in 1 .. top /\ i \notin Unread /\ i \notin pel => Job[i] = IF i \in lost THEN "lost" ELSE "done"
<1>1. /\ i \in Nat /\ i >= 1 /\ top \in Nat /\ last \in Nat /\ last <= top
      /\ entries \subseteq 1 .. top /\ pel \subseteq 1 .. last
  BY StreamAssumption DEF TypeInv, StreamInv, StreamTypeOK, Id, Id0
<1>2. /\ i \in Unread => i <= top /\ i > last
      /\ i \in pel => i <= last
  BY <1>1 DEF Unread
<1>3. Job[i] = JobOf(i)
  BY DEF Job
<1>4. CASE i > top
  BY <1>1, <1>2, <1>3, <1>4 DEF JobOf
<1>5. CASE i <= top /\ i \in Unread
  BY <1>1, <1>2, <1>3, <1>5 DEF JobOf
<1>6. CASE i <= top /\ i \notin Unread /\ i \in pel
  BY <1>1, <1>2, <1>3, <1>6 DEF JobOf
<1>7. CASE i <= top /\ i \notin Unread /\ i \notin pel
  BY <1>1, <1>2, <1>3, <1>7 DEF JobOf
<1>8. QED
  BY <1>1, <1>4, <1>5, <1>6, <1>7

LEMMA AbstractInit == Init => Queue!QueueInit
<1> SUFFICES ASSUME Init PROVE Queue!QueueInit
  OBVIOUS
<1>1. top = 0
  BY DEF Init, StreamInit
<1>2. \A i \in Id : i > top
  BY <1>1, StreamAssumption DEF Id
<1>3. \A i \in Id : JobOf(i) = "none"
  BY <1>2 DEF JobOf
<1>4. {i \in 1 .. top : HasOutcome(i)} = {}
  BY <1>1
<1>5. QED
  BY <1>3, <1>4 DEF Queue!QueueInit

\* An XADD offers the next entry.
LEMMA AddOffers ==
  ASSUME TypeInv, LostGone, StreamGrows, TypeInv', NEW r, XAdd(r), UNCHANGED <<confirmed, buried, lost>>
  PROVE  Queue!Offer
<1>1. /\ top \in Nat /\ last \in Nat /\ last <= top /\ top + 1 \in Id
      /\ top' = top + 1 /\ last' = last /\ pel' = pel /\ entries' = entries \cup {top + 1}
      /\ entries \subseteq 1 .. top /\ pel \subseteq 1 .. last
  BY StreamAssumption DEF XAdd, TypeInv, StreamInv, StreamTypeOK, Id, Id0
<1>2. Unread' = Unread \cup {top + 1}
  BY <1>1 DEF Unread
<1>3. ASSUME NEW j \in Id PROVE Job'[j] = IF j = top + 1 THEN "waiting" ELSE Job[j]
  <2>1. CASE j = top + 1
    <3>1. j \in Unread' /\ ~ (j > top')
      BY <1>1, <1>2, <2>1
    <3>2. QED
      BY <2>1, <3>1 DEF Job, JobOf
  <2>2. CASE j # top + 1 /\ j > top + 1
    BY <1>1, <2>2 DEF Job, JobOf, Id
  <2>3. CASE j # top + 1 /\ j <= top + 1
    <3>1. j \in Nat /\ j <= top /\ ~ (j > top) /\ ~ (j > top')
      BY <1>1, <2>3 DEF Id
    <3>2. (j \in Unread' <=> j \in Unread) /\ (j \in pel' <=> j \in pel) /\ lost' = lost
      BY <1>1, <1>2, <2>3
    <3>3. QED
      BY <2>3, <3>1, <3>2 DEF Job, JobOf
  <2>4. QED
    BY <1>1, <2>1, <2>2, <2>3 DEF Id
<1>4. Job' = [Job EXCEPT ![top + 1] = "waiting"]
  BY <1>3 DEF Job
<1>5. Recorded' \in {Recorded, Recorded \cup {top + 1}}
  <2>1. \A j \in 1 .. top : HasOutcome(j)' <=> HasOutcome(j)
    BY DEF StreamGrows, HasOutcome
  <2>2. 1 .. top' = 1 .. top \cup {top + 1} /\ top + 1 \notin 1 .. top
    BY <1>1
  <2>3. QED
    BY <2>1, <2>2 DEF Recorded
<1>6. Job[top + 1] = "none" /\ \A j \in Id : Job[j] = "none" => top + 1 <= j
  BY <1>1, JobKinds DEF Id
<1>7. QED
  BY <1>1, <1>4, <1>5, <1>6 DEF Queue!Offer, Queue!With, Job, Recorded

\* An XREADGROUP takes the oldest that waits.
LEMMA ReserveTakes ==
  ASSUME TypeInv, LostGone, TypeInv', NEW w \in Workers, Reserve(w)
  PROVE  Queue!Take
<1>1. PICK i \in Unread : XReadGroup(i)
  BY DEF Reserve
<1>2. /\ i \in Id /\ i > last /\ last' = i /\ pel' = pel \cup {i} /\ UNCHANGED <<entries, top, ref, lost, confirmed, buried>>
      /\ \A j \in Unread : i <= j
  BY <1>1 DEF Reserve, XReadGroup, Oldest, Unread, TypeInv, StreamInv, StreamTypeOK, setVars, auxVars
<1>3. top \in Nat /\ last \in Nat /\ entries \subseteq Nat /\ \A j \in Unread : j \in Nat
  <2>1. top \in Id0 /\ last \in Id0 /\ entries \subseteq Id
    BY DEF TypeInv, StreamInv, StreamTypeOK
  <2>2. Id0 \subseteq Nat /\ Id \subseteq Nat
    BY StreamAssumption DEF Id, Id0
  <2>3. QED
    BY <2>1, <2>2 DEF Unread
<1>4. Unread' = Unread \ {i}
  <2>1. Unread' = {j \in entries : j > i} /\ i \in Nat
    BY <1>2, <1>3 DEF Unread
  <2>2. \A j \in entries : j > i <=> j > last /\ j # i
    BY <1>2, <1>3, <2>1 DEF Unread
  <2>3. QED
    BY <2>1, <2>2 DEF Unread
<1>5. ASSUME NEW j \in Id PROVE Job'[j] = IF j = i THEN "held" ELSE Job[j]
  <2>1. CASE j = i
    <3>1. j \notin Unread' /\ j \in pel' /\ ~ (j > top')
      BY <1>2, <1>3, <1>4, <2>1 DEF Unread, TypeInv, StreamInv, StreamTypeOK, Id0
    <3>2. QED
      BY <2>1, <3>1 DEF Job, JobOf
  <2>2. CASE j # i
    BY <1>2, <1>4, <2>2 DEF Job, JobOf
  <2>3. QED
    BY <2>1, <2>2
<1>6. Job' = [Job EXCEPT ![i] = "held"]
  BY <1>5 DEF Job
<1>7. Recorded' = Recorded
  BY <1>2 DEF Recorded, HasOutcome
<1>8. Job[i] = "waiting" /\ \A j \in Id : Job[j] = "waiting" => i <= j
  BY <1>2, JobKinds
<1>9. QED
  BY <1>2, <1>6, <1>7, <1>8 DEF Queue!Take, Queue!With, Job, Recorded

\* A confirmation or a dead letter, by the holder of an entry, is an outcome.
LEMMA OutcomeRecords ==
  ASSUME TypeInv, OutcomesGrow, UNCHANGED <<entries, top, last, pel, ref, lost>>, NEW i \in 1 .. last
  PROVE  Queue!Record
<1>1. Job' = Job
  BY DEF Job, JobOf, Unread
<1>2. i \in Id /\ ~ (i > top) /\ i \notin Unread
  BY StreamAssumption DEF TypeInv, StreamInv, StreamTypeOK, Id, Id0, Unread
<1>3. Job[i] \in {"held", "done", "lost"}
  BY <1>2, JobKinds DEF Job, JobOf
<1>4. Recorded \subseteq Recorded'
  BY DEF Recorded, HasOutcome, OutcomesGrow
<1>5. \A j \in Recorded' : j \in Id /\ Job[j] # "none"
  <2>1. ASSUME NEW j \in Recorded' PROVE j \in Id /\ ~ (j > top)
    BY StreamAssumption DEF Recorded, TypeInv, StreamInv, StreamTypeOK, Id, Id0
  <2>2. QED
    BY <2>1, JobKinds
<1>6. QED
  BY <1>1, <1>2, <1>3, <1>4, <1>5 DEF Queue!Record, Queue!With, Job, Recorded

\* Entries that are acknowledged, dropped from the pending list or evicted unread leave.
LEMMA GoneLeave ==
  ASSUME TypeInv, LostGone, NEW S \in SUBSET (Unread \cup pel),
         UNCHANGED <<top, ref, confirmed, buried>>,
         Unread' = Unread \ S, pel' = pel \ S, lost' = lost \cup {i \in S : ~HasOutcome(i)},
         MayLose \/ \A i \in S : HasOutcome(i)
  PROVE  Queue!Leave
<1>1. /\ top \in Nat /\ Unread \cup pel \subseteq 1 .. top /\ Unread \cup pel \subseteq Id
      /\ \A i \in Unread \cup pel : ~ (i > top)
  <2>1. /\ top \in Nat /\ last \in Nat /\ last <= top /\ entries \subseteq 1 .. top /\ pel \subseteq 1 .. last
        /\ entries \subseteq Id /\ pel \subseteq Id
    BY StreamAssumption DEF TypeInv, StreamInv, StreamTypeOK, Id0
  <2>2. Unread \subseteq entries
    BY DEF Unread
  <2>3. Unread \cup pel \subseteq 1 .. top
    BY <2>1, <2>2
  <2>4. QED
    BY <2>1, <2>2, <2>3
<1>2. Recorded' = Recorded /\ \A i \in S : i \in Recorded <=> HasOutcome(i)
  BY <1>1 DEF Recorded, HasOutcome
<1>3. ASSUME NEW i \in Id
      PROVE  Job'[i] = IF i \notin S THEN Job[i] ELSE IF i \in Recorded THEN "done" ELSE "lost"
  <2>1. CASE i \notin S
    BY <2>1 DEF Job, JobOf
  <2>2. CASE i \in S
    <3>1. i \notin Unread' /\ i \notin pel' /\ i \notin lost /\ ~ (i > top')
      BY <1>1, <2>2 DEF LostGone
    <3>2. i \in lost' <=> i \notin Recorded
      BY <1>2, <2>2, <3>1
    <3>3. QED
      BY <2>2, <3>1, <3>2 DEF Job, JobOf
  <2>3. QED
    BY <2>1, <2>2
<1>4. Job' = [i \in Id |-> IF i \notin S THEN Job[i] ELSE IF i \in Recorded THEN "done" ELSE "lost"]
  BY <1>3 DEF Job
<1>5. \A i \in S : i \in Id /\ Job[i] \in {"waiting", "held"}
  BY <1>1, JobKinds
<1>6. MayLose \/ S \subseteq Recorded
  BY <1>2
<1>7. QED
  BY <1>2, <1>4, <1>5, <1>6 DEF Queue!Leave, Queue!With, Job, Recorded

\* What the abstract queue does not see.
LEMMA NothingHappens ==
  ASSUME UNCHANGED <<entries, top, last, pel, ref, lost, confirmed, buried>>
  PROVE  UNCHANGED Queue!queueVars
<1>1. Job' = Job
  BY DEF Job, JobOf, Unread
<1>2. Recorded' = Recorded
  BY DEF Recorded, HasOutcome
<1>3. QED
  BY <1>1, <1>2 DEF Queue!queueVars, Job, Recorded

\* The lost entries grow where a page is claimed and where the stream is trimmed.
LEMMA StepLost ==
  ASSUME [Next]_vars
  PROVE  lost' = lost \/ (\E p \in Reapers : Claim(p)) \/ (\E c \in Trimmer : Trim(c))
<1> USE DEF auxVars
<1>1. ASSUME NEW q \in Enqueuers, Report(q) \/ EnqueuerStep(q)
      PROVE  lost' = lost
  BY <1>1 DEF EnqueuerStep, Report, EnqueueAdd, EnqueuePlace
<1>2. ASSUME NEW w \in Workers, Reserve(w) \/ ScanStep(w)
      PROVE  lost' = lost
  BY <1>2 DEF ScanStep, Reserve, PutReferrer, Attest, TransientFailure, PermanentFailure, Confirm, Ack
<1>3. ASSUME NEW p \in Reapers, ReaperStart(p) \/ Check(p)
      PROVE  lost' = lost
  BY <1>3 DEF ReaperStart, Check
<1>4. ASSUME NEW c \in Trimmer, Bury(c) \/ BuryAck(c) \/ TrimPending(c) \/ TrimGroups(c) \/ TrimStream(c)
      PROVE  lost' = lost
  BY <1>4 DEF Bury, BuryAck, TrimPending, TrimGroups, TrimStream
<1>5. ASSUME NEW o \in Operators, SelectDead(o) \/ OperatorStep(o)
      PROVE  lost' = lost
  BY <1>5 DEF OperatorStep, SelectDead, ReplayAdd, DeleteDead
<1>6. ASSUME NEW c \in Client, Crash(c)
      PROVE  lost' = lost
  BY <1>6 DEF Crash
<1>7. TimePasses \/ UNCHANGED vars => lost' = lost
  BY DEF TimePasses, vars
<1>8. QED
  BY <1>1, <1>2, <1>3, <1>4, <1>5, <1>6, <1>7 DEF Next, ReapStep, SettleStep

LEMMA StepLostGone ==
  ASSUME TypeInv, LostGone, [Next]_vars
  PROVE  LostGone'
<1>1. /\ top \in Nat /\ last \in Nat /\ last <= top /\ entries \subseteq 1 .. top
      /\ Unread \subseteq entries /\ pel \subseteq 1 .. top /\ Unread \cap pel = {}
  BY UnreadPending
<1>2. ASSUME NEW p \in Reapers, Claim(p)
      PROVE  LostGone'
  <2>1. /\ Unread' = Unread /\ top' = top
        /\ pel' = pel \ (Scanned(p) \ entries)
        /\ lost' = lost \cup {i \in Scanned(p) \ entries : ~HasOutcome(i)}
    BY <1>2 DEF Claim, ClaimPage, XAutoClaim, Unread
  <2>2. Scanned(p) \subseteq pel
    BY DEF Scanned, InRange
  <2>3. QED
    BY <1>1, <2>1, <2>2 DEF LostGone
<1>3. ASSUME NEW c \in Trimmer, Trim(c)
      PROVE  LostGone'
  <2>1. /\ entries' = entries \cap Kept(c) /\ UNCHANGED <<top, last, pel>>
        /\ lost' = lost \cup {i \in Unread \ Kept(c) : ~HasOutcome(i)}
    BY <1>3 DEF Trim, XTrim
  <2>2. Unread' = Unread \cap Kept(c)
    BY <2>1 DEF Unread
  <2>3. QED
    BY <1>1, <2>1, <2>2 DEF LostGone
<1>4. CASE lost' = lost
  <2>1. CASE UNCHANGED <<entries, stamp, top, last, ref>> /\ pel' \subseteq pel
    BY <1>4, <2>1 DEF LostGone, Unread
  <2>2. ASSUME NEW r, XAdd(r) PROVE LostGone'
    <3>1. top' = top + 1 /\ last' = last /\ pel' = pel /\ entries' = entries \cup {top + 1}
      BY <2>2 DEF XAdd
    <3>2. Unread' \subseteq Unread \cup {top + 1}
      BY <3>1 DEF Unread
    <3>3. top + 1 \notin 1 .. top /\ 1 .. top \subseteq 1 .. top'
      BY <1>1, <3>1
    <3>4. QED
      BY <1>4, <3>1, <3>2, <3>3 DEF LostGone
  <2>3. ASSUME NEW w \in Workers, Reserve(w) PROVE LostGone'
    <3>1. PICK i \in Unread : XReadGroup(i)
      BY <2>3 DEF Reserve
    <3>2. last' = i /\ pel' = pel \cup {i} /\ UNCHANGED <<entries, top>> /\ i > last
      BY <3>1 DEF XReadGroup, Unread
    <3>3. Unread' \subseteq Unread
      <4>1. \A j \in entries : j \in Nat /\ i \in Nat /\ (j > i => j > last)
        BY <1>1, <3>2
      <4>2. QED
        BY <3>2, <4>1 DEF Unread
    <3>4. QED
      BY <1>4, <3>1, <3>2, <3>3 DEF LostGone
  <2>4. QED
    BY <1>3, <2>1, <2>2, <2>3, StepEntries
<1>5. QED
  BY <1>2, <1>3, <1>4, StepLost

-----------------------------------------------------------------------------
\* Each step of the scan queue is a step of the abstract queue, or nothing to it.

LEMMA AckLeaves ==
  ASSUME TypeInv, LostGone, NEW i, HasOutcome(i), XAck(i), UNCHANGED <<confirmed, buried, lost>>
  PROVE  Queue!Leave
<1> DEFINE S == {i} \cap pel
<1>1. Unread \cap pel = {}
  BY UnreadPending
<1>2. UNCHANGED <<top, ref, entries, last, lost, confirmed, buried>> /\ pel' = pel \ {i}
  BY DEF XAck
<1>3. S \in SUBSET (Unread \cup pel) /\ Unread' = Unread \ S /\ pel' = pel \ S
  BY <1>1, <1>2 DEF Unread
<1>4. lost' = lost \cup {j \in S : ~HasOutcome(j)} /\ \A j \in S : HasOutcome(j)
  BY <1>2
<1> HIDE DEF S
<1>5. QED
  BY <1>2, <1>3, <1>4, GoneLeave

LEMMA ClaimLeaves ==
  ASSUME QInv, NEW p \in Reapers, Claim(p)
  PROVE  Queue!Leave
<1> DEFINE S == Scanned(p) \ entries
<1>1. Unread \subseteq entries /\ Scanned(p) \subseteq pel
  BY DEF Unread, Scanned, InRange
<1>2. /\ UNCHANGED <<top, ref, entries, last, confirmed, buried>> /\ pel' = pel \ S
      /\ lost' = lost \cup {j \in S : ~HasOutcome(j)}
  BY DEF Claim, ClaimPage, XAutoClaim, setVars
<1>3. S \in SUBSET (Unread \cup pel) /\ Unread' = Unread \ S
  BY <1>1, <1>2 DEF Unread
<1>4. MayLose \/ \A j \in S : HasOutcome(j)
  BY <1>1 DEF QInv
<1> HIDE DEF S
<1>5. QED
  BY <1>2, <1>3, <1>4, GoneLeave DEF QInv

LEMMA TrimLeaves ==
  ASSUME QInv, NEW c \in Trimmer, Trim(c)
  PROVE  Queue!Leave
<1> DEFINE S == Unread \ Kept(c)
<1>1. Unread \cap pel = {}
  BY UnreadPending DEF QInv
<1>2. /\ UNCHANGED <<top, ref, last, pel, confirmed, buried>> /\ entries' = entries \cap Kept(c)
      /\ lost' = lost \cup {j \in S : ~HasOutcome(j)}
  BY DEF Trim, XTrim, setVars
<1>3. S \in SUBSET (Unread \cup pel) /\ Unread' = Unread \ S /\ pel' = pel \ S
  BY <1>1, <1>2 DEF Unread
<1>4. MayLose \/ \A j \in S : HasOutcome(j)
  <2>1. ~MayLose => Unread \subseteq Kept(c)
    BY SoleTrimKeeps DEF QInv, Needed, Unread
  <2>2. QED
    BY <2>1
<1> HIDE DEF S
<1>5. QED
  BY <1>2, <1>3, <1>4, GoneLeave DEF QInv

LEMMA StepRefines ==
  ASSUME QInv, TypeInv', [Next]_vars
  PROVE  Queue!QueueNext \/ UNCHANGED Queue!queueVars
<1> DEFINE Nothing == UNCHANGED <<entries, top, last, pel, ref, lost, confirmed, buried>>
<1> USE DEF Queue!QueueNext
<1>1. TypeInv /\ OutcomeFirst /\ LostGone /\ StreamGrows /\ OutcomesGrow
  BY StepGrows, StepOutcomesGrow DEF QInv
<1>2. Nothing => UNCHANGED Queue!queueVars
  BY NothingHappens
<1>3. ASSUME NEW q \in Enqueuers, Report(q) \/ EnqueuePlace(q)
      PROVE  Nothing
  BY <1>3 DEF Report, EnqueuePlace, streamVars, setVars, auxVars
<1>4. ASSUME NEW q \in Enqueuers, EnqueueAdd(q)
      PROVE  Queue!Offer
  BY <1>1, <1>4, AddOffers DEF EnqueueAdd, setVars, auxVars
<1>5. ASSUME NEW o \in Operators, ReplayAdd(o)
      PROVE  Queue!Offer
  BY <1>1, <1>5, AddOffers DEF ReplayAdd, setVars, auxVars
<1>6. ASSUME NEW w \in Workers, PutReferrer(w) \/ Attest(w) \/ TransientFailure(w) \/ PermanentFailure(w)
      PROVE  Nothing
  BY <1>6 DEF PutReferrer, Attest, TransientFailure, PermanentFailure, streamVars, setVars, auxVars
<1>7. ASSUME NEW w \in Workers, Confirm(w)
      PROVE  Queue!Record
  <2>1. tok[w] \in 1 .. last
    BY <1>1, <1>7 DEF Confirm, TypeInv, ClientsOK, HandsOK, Holding, Client
  <2>2. QED
    BY <1>1, <1>7, <2>1, OutcomeRecords DEF Confirm, streamVars, auxVars
<1>8. ASSUME NEW c \in Trimmer, Bury(c)
      PROVE  Queue!Record
  <2>1. tok[c] \in 1 .. last
    BY <1>1, <1>8 DEF Bury, TypeInv, ClientsOK, HandsOK, Holding, Client, Trimmer
  <2>2. QED
    BY <1>1, <1>8, <2>1, OutcomeRecords DEF Bury, streamVars
<1>9. ASSUME NEW w \in Workers, Ack(w)
      PROVE  Queue!Leave
  <2>1. HasOutcome(tok[w])
    BY <1>1, <1>9 DEF Ack, OutcomeFirst, HasOutcome, Client
  <2>2. QED
    BY <1>1, <1>9, <2>1, AckLeaves DEF Ack, setVars, auxVars
<1>10. ASSUME NEW c \in Trimmer, BuryAck(c)
       PROVE  Queue!Leave
  <2>1. HasOutcome(tok[c])
    BY <1>1, <1>10 DEF BuryAck, OutcomeFirst, HasOutcome, Client, Trimmer
  <2>2. QED
    BY <1>1, <1>10, <2>1, AckLeaves DEF BuryAck, setVars, auxVars
<1>11. ASSUME NEW p \in Reapers, ReaperStart(p) \/ Check(p)
       PROVE  Nothing
  BY <1>11 DEF ReaperStart, Check, streamVars, setVars, auxVars
<1>12. ASSUME NEW c \in Trimmer, TrimPending(c) \/ TrimGroups(c) \/ TrimStream(c)
       PROVE  Nothing
  BY <1>12 DEF TrimPending, TrimGroups, TrimStream, streamVars, setVars, auxVars
<1>13. ASSUME NEW o \in Operators, SelectDead(o) \/ DeleteDead(o)
       PROVE  Nothing
  BY <1>13 DEF SelectDead, DeleteDead, streamVars, setVars, auxVars
<1>14. ASSUME NEW c \in Client, Crash(c)
       PROVE  Nothing
  BY <1>14 DEF Crash, streamVars, setVars, auxVars
<1>15. TimePasses \/ UNCHANGED vars => Nothing
  BY DEF TimePasses, GrowsIdle, vars, streamVars, setVars, auxVars
<1> HIDE DEF Nothing
<1>16. ASSUME NEW q \in Enqueuers, Report(q) \/ EnqueuerStep(q)
       PROVE  Queue!QueueNext \/ Nothing
  BY <1>3, <1>4, <1>16 DEF EnqueuerStep
<1>17. ASSUME NEW w \in Workers, Reserve(w) \/ ScanStep(w)
       PROVE  Queue!QueueNext \/ Nothing
  BY <1>1, <1>6, <1>7, <1>9, <1>17, ReserveTakes DEF ScanStep
<1>18. ASSUME NEW p \in Reapers, ReaperStart(p) \/ ReapStep(p)
       PROVE  Queue!QueueNext \/ Nothing
  BY <1>11, <1>18, ClaimLeaves DEF ReapStep
<1>19. ASSUME NEW c \in Trimmer, SettleStep(c)
       PROVE  Queue!QueueNext \/ Nothing
  BY <1>8, <1>10, <1>12, <1>19, TrimLeaves DEF SettleStep
<1>20. ASSUME NEW o \in Operators, SelectDead(o) \/ OperatorStep(o)
       PROVE  Queue!QueueNext \/ Nothing
  BY <1>5, <1>13, <1>20 DEF OperatorStep
<1>21. QED
  BY <1>2, <1>14, <1>15, <1>16, <1>17, <1>18, <1>19, <1>20 DEF Next

(***************************************************************************)
(* The scan queue implements AbstractQueue (ImplementsQueue): whatever is  *)
(* interleaved and wherever clients die, entries are taken in order and    *)
(* leave only with an outcome on record, save that entries may be lost     *)
(* where two clients trim or two entries share a millisecond.  Needs QInv: *)
(* an acknowledgement follows the outcome, what was lost stays lost, and   *)
(* with one trimmer nothing is lost.                                       *)
(***************************************************************************)
THEOREM QueueImplemented == Spec => ImplementsQueue
<1>1. Init => QInv /\ Queue!QueueInit
  <2>1. Init => TypeInv /\ ReadsInv /\ Queue!QueueInit
    BY TypeInvInit, ReadsInit, AbstractInit
  <2>2. Init => OutcomeFirst /\ LostGone /\ pel \subseteq entries
    BY DEF Init, StreamInit, OutcomeFirst, LostGone, Unread
  <2>3. QED
    BY <2>1, <2>2 DEF QInv
<1>2. QInv /\ [Next]_vars => QInv'
  <2> SUFFICES ASSUME QInv, [Next]_vars PROVE QInv'
    OBVIOUS
  <2>1. TypeInv' /\ OutcomeFirst' /\ ReadsInv' /\ LostGone'
    BY StepTypes, StepOutcomeFirst, StepReads, StepLostGone DEF QInv
  <2>2. MayLose \/ pel' \subseteq entries'
    BY StepPelHeld DEF QInv
  <2>3. QED
    BY <2>1, <2>2 DEF QInv, MayLose
<1>3. QInv /\ [Next]_vars => [Queue!QueueNext]_(Queue!queueVars)
  BY StepTypes, StepRefines DEF QInv
<1>4. QED
  BY <1>1, <1>2, <1>3, PTL DEF Spec, ImplementsQueue, Queue!QueueSpec
=============================================================================
