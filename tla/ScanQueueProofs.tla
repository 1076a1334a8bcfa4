-------------------------- MODULE ScanQueueProofs --------------------------
(***************************************************************************)
(* Proofs about ScanQueue for every set of clients and every bound.        *)
(***************************************************************************)
EXTENDS ScanQueue, TLAPS

-----------------------------------------------------------------------------
\* The broker.  Every id in play has been issued, and what is pending was delivered.
StreamInv ==
    /\ StreamTypeOK
    /\ last <= top
    /\ entries \subseteq 1 .. top
    /\ pel \subseteq 1 .. last

\* What every command keeps of the broker's past.
StreamGrows ==
    /\ StreamInv'
    /\ last <= last'
    /\ top <= top'
    /\ \A i \in 1 .. top : ref'[i] = ref[i]

LEMMA XAddGrows ==
  ASSUME StreamInv, NEW r \in Ref \cup {NoRef}, XAdd(r)
  PROVE  StreamGrows
<1> USE StreamAssumption DEF StreamInv, StreamTypeOK, Id, Id0
<1>1. top + 1 \in Id /\ top' = top + 1 /\ last' = last
  BY DEF XAdd
<1>2. stamp' \in [Id0 -> Nat]
  <2>1. stamp[top] \in Nat /\ stamp[top] + 1 \in Nat
    OBVIOUS
  <2>2. PICK t \in Nat : stamp' = [stamp EXCEPT ![top + 1] = t]
    BY <2>1 DEF XAdd
  <2>3. QED
    BY <2>2
<1>3. ref' = [ref EXCEPT ![top + 1] = r] /\ ref' \in [Id -> Ref \cup {NoRef}]
  BY <1>1 DEF XAdd
<1>4. entries' \subseteq 1 .. top' /\ entries' \subseteq Id
  BY <1>1 DEF XAdd
<1>5. pel' \subseteq 1 .. last' /\ pel' \subseteq Id /\ idle' \subseteq pel' /\ deliveries' \in [Id -> Nat]
  BY <1>1 DEF XAdd
<1>6. \A i \in 1 .. top : ref'[i] = ref[i]
  BY <1>1, <1>3
<1>7. top \in Nat /\ last \in Nat /\ last <= top'
  BY <1>1
<1>8. StreamInv'
  <2>1. top' \in Id0 /\ last' \in Id0 /\ last' <= top'
    BY <1>1, <1>7
  <2>2. QED
    BY <2>1, <1>2, <1>3, <1>4, <1>5
<1>9. last <= last' /\ top <= top'
  BY <1>1, <1>7
<1>10. QED
  BY <1>6, <1>8, <1>9 DEF StreamGrows

LEMMA XReadGroupGrows ==
  ASSUME StreamInv, NEW i \in Id, XReadGroup(i)
  PROVE  StreamGrows
  BY StreamAssumption DEF StreamInv, StreamTypeOK, StreamGrows, XReadGroup, Oldest, Unread, Id, Id0

LEMMA XAckGrows ==
  ASSUME StreamInv, NEW i \in Id, XAck(i)
  PROVE  StreamGrows
  BY StreamAssumption DEF StreamInv, StreamTypeOK, StreamGrows, XAck, Id, Id0

LEMMA XAutoClaimGrows ==
  ASSUME StreamInv, NEW claimed \in SUBSET Id, NEW scanned \in SUBSET Id, XAutoClaim(claimed, scanned)
  PROVE  StreamGrows
  BY StreamAssumption DEF StreamInv, StreamTypeOK, StreamGrows, XAutoClaim, Id, Id0

LEMMA XTrimGrows ==
  ASSUME StreamInv, NEW kept \in SUBSET Id, XTrim(kept)
  PROVE  StreamGrows
  BY StreamAssumption DEF StreamInv, StreamTypeOK, StreamGrows, XTrim, Id, Id0

LEMMA GrowsIdleGrows ==
  ASSUME StreamInv, NEW i \in Id, GrowsIdle(i)
  PROVE  StreamGrows
  BY StreamAssumption DEF StreamInv, StreamTypeOK, StreamGrows, GrowsIdle, Id, Id0

LEMMA UnchangedGrows ==
  ASSUME StreamInv, UNCHANGED streamVars
  PROVE  StreamGrows
  BY StreamAssumption DEF StreamInv, StreamTypeOK, StreamGrows, streamVars, Id, Id0

-----------------------------------------------------------------------------
\* The clients.  A client that holds an entry holds one that was delivered (an
\* enqueuer: one that was added), and the reaper's batch was delivered.
Holding == {"reserved", "referred", "confirm", "ack", "bury", "buryAck"}

HandsOK ==
    /\ \A c \in Client : batch[c] \subseteq 1 .. last
    /\ \A c \in Client : pc[c] = "sadd" => tok[c] \in 1 .. top
    /\ \A c \in Client : pc[c] \in Holding => tok[c] \in 1 .. last

ClientsOK == SetsTypeOK /\ ImagesTypeOK /\ LocalsTypeOK /\ AuxTypeOK /\ HandsOK

TypeInv == StreamInv /\ ClientsOK

LEMMA TypeInvInit == Init => TypeInv
<1> SUFFICES ASSUME Init PROVE TypeInv
  OBVIOUS
<1> USE StreamAssumption, QueueAssumption
<1>1. StreamInv
  BY DEF Init, StreamInit, StreamInv, StreamTypeOK, Id, Id0
<1>2. LocalsTypeOK
  BY DEF Init, LocalsTypeOK, Pc, WorkerPc, Id0
<1>3. SetsTypeOK /\ ImagesTypeOK /\ AuxTypeOK
  BY DEF Init, SetsTypeOK, ImagesTypeOK, AuxTypeOK
<1>4. HandsOK
  BY DEF Init, HandsOK, Holding
<1>5. QED
  BY <1>1, <1>2, <1>3, <1>4 DEF TypeInv, ClientsOK

\* A step of client c keeps HandsOK if what c then holds is right.
LEMMA HandsKept ==
  ASSUME TypeInv, StreamGrows, NEW c \in Client,
         \A d \in Client \ {c} : pc'[d] = pc[d] /\ tok'[d] = tok[d] /\ batch'[d] = batch[d],
         batch'[c] \subseteq 1 .. last,
         pc'[c] = "sadd" => tok'[c] \in 1 .. top',
         pc'[c] \in Holding => tok'[c] \in 1 .. last'
  PROVE  HandsOK'
<1>1. last \in Nat /\ last' \in Nat /\ top \in Nat /\ top' \in Nat /\ last <= last' /\ top <= top'
  BY StreamAssumption DEF TypeInv, StreamGrows, StreamInv, StreamTypeOK, Id0
<1>2. 1 .. last \subseteq 1 .. last' /\ 1 .. top \subseteq 1 .. top'
  BY <1>1
<1>3. QED
  BY <1>2 DEF TypeInv, ClientsOK, HandsOK

\* What client c holds before the step is still in range after it.
LEMMA HandsBefore ==
  ASSUME TypeInv, StreamGrows, NEW c \in Client
  PROVE  /\ batch[c] \subseteq 1 .. last
         /\ pc[c] = "sadd" => tok[c] \in 1 .. top'
         /\ pc[c] \in Holding => tok[c] \in 1 .. last'
<1>1. last \in Nat /\ last' \in Nat /\ top \in Nat /\ top' \in Nat /\ last <= last' /\ top <= top'
  BY StreamAssumption DEF TypeInv, StreamGrows, StreamInv, StreamTypeOK, Id0
<1>2. QED
  BY <1>1 DEF TypeInv, ClientsOK, HandsOK

LEMMA ReportTypes ==
  ASSUME TypeInv, StreamGrows, NEW q \in Enqueuers, Report(q)
  PROVE  ClientsOK'
<1> USE StreamAssumption DEF TypeInv, ClientsOK
<1>1. q \in Client
  BY DEF Client
<1>2. pc' \in [Client -> Pc]
  BY <1>1 DEF LocalsTypeOK, Goto, Pc, Report, EnqueuerPc
<1>3. LocalsTypeOK'
  <2>1. todo' \in [Client -> SUBSET Ref]
    BY <1>1 DEF LocalsTypeOK, Report
  <2>2. UNCHANGED <<tok, floor, seen, cursor, batch, picked>>
    BY DEF Report
  <2>3. QED
    BY <1>2, <2>1, <2>2 DEF LocalsTypeOK
<1>4. SetsTypeOK' /\ ImagesTypeOK'
  BY DEF SetsTypeOK, ImagesTypeOK, Report, setVars, imageVars
<1>5. AuxTypeOK'
  BY DEF AuxTypeOK, Report, auxVars
<1>6. HandsOK'
  <2>1. \A d \in Client \ {q} : pc'[d] = pc[d] /\ tok'[d] = tok[d] /\ batch'[d] = batch[d]
    BY <1>1 DEF LocalsTypeOK, Goto, Report
  <2>2. batch'[q] \subseteq 1 .. last
    BY <1>1, HandsBefore DEF LocalsTypeOK, Report
  <2>3. /\ pc'[q] = "sadd" => tok'[q] \in 1 .. top'
        /\ pc'[q] \in Holding => tok'[q] \in 1 .. last'
    BY <1>1, HandsBefore DEF LocalsTypeOK, Holding, Goto, Report
  <2>4. QED
    BY <1>1, <2>1, <2>2, <2>3, HandsKept DEF TypeInv, ClientsOK
<1>7. QED
  BY <1>3, <1>4, <1>5, <1>6

LEMMA EnqueueAddTypes ==
  ASSUME TypeInv, StreamGrows, NEW q \in Enqueuers, EnqueueAdd(q)
  PROVE  ClientsOK'
<1> USE StreamAssumption DEF TypeInv, ClientsOK
<1>1. q \in Client
  BY DEF Client
<1>2. pc' \in [Client -> Pc]
  BY <1>1 DEF LocalsTypeOK, Goto, Pc, EnqueueAdd, EnqueuerPc
<1>3. LocalsTypeOK'
  <2>1. tok' \in [Client -> Id0]
    BY <1>1 DEF LocalsTypeOK, EnqueueAdd, XAdd, StreamInv, StreamTypeOK, Id, Id0
  <2>2. UNCHANGED <<floor, seen, cursor, batch, todo, picked>>
    BY DEF EnqueueAdd
  <2>3. QED
    BY <1>2, <2>1, <2>2 DEF LocalsTypeOK
<1>4. SetsTypeOK' /\ ImagesTypeOK'
  BY DEF SetsTypeOK, ImagesTypeOK, EnqueueAdd, setVars, imageVars
<1>5. AuxTypeOK'
  BY DEF AuxTypeOK, EnqueueAdd, auxVars
<1>6. HandsOK'
  <2>1. \A d \in Client \ {q} : pc'[d] = pc[d] /\ tok'[d] = tok[d] /\ batch'[d] = batch[d]
    BY <1>1 DEF LocalsTypeOK, Goto, EnqueueAdd
  <2>2. batch'[q] \subseteq 1 .. last
    BY <1>1, HandsBefore DEF LocalsTypeOK, EnqueueAdd
  <2>3. /\ pc'[q] = "sadd" => tok'[q] \in 1 .. top'
        /\ pc'[q] \in Holding => tok'[q] \in 1 .. last'
    BY <1>1, HandsBefore DEF LocalsTypeOK, Goto, EnqueueAdd, XAdd, Holding, StreamInv, StreamTypeOK, Id, Id0
  <2>4. QED
    BY <1>1, <2>1, <2>2, <2>3, HandsKept DEF TypeInv, ClientsOK
<1>7. QED
  BY <1>3, <1>4, <1>5, <1>6

LEMMA EnqueuePlaceTypes ==
  ASSUME TypeInv, StreamGrows, NEW q \in Enqueuers, EnqueuePlace(q)
  PROVE  ClientsOK'
<1> USE StreamAssumption DEF TypeInv, ClientsOK
<1>1. q \in Client
  BY DEF Client
<1>2. pc' \in [Client -> Pc]
  BY <1>1 DEF LocalsTypeOK, Goto, Pc, EnqueuePlace, EnqueuerPc, WorkerPc
<1>3. LocalsTypeOK'
  <2>1. todo' \in [Client -> SUBSET Ref]
    BY <1>1 DEF LocalsTypeOK, EnqueuePlace
  <2>2. tok' \in [Client -> Id0]
    BY <1>1 DEF LocalsTypeOK, EnqueuePlace, Id0
  <2>3. UNCHANGED <<floor, seen, cursor, batch, picked>>
    BY DEF EnqueuePlace
  <2>4. QED
    BY <1>2, <2>1, <2>2, <2>3 DEF LocalsTypeOK
<1>4. SetsTypeOK' /\ ImagesTypeOK'
  <2>1. tok[q] \in Id
    BY <1>1 DEF HandsOK, EnqueuePlace, StreamInv, StreamTypeOK, Id, Id0
  <2>2. ref[tok[q]] \in Ref \cup {NoRef}
    BY <2>1 DEF StreamInv, StreamTypeOK
  <2>3. QED
    BY <2>2 DEF EnqueuePlace, WithPlaced, SetsTypeOK, ImagesTypeOK, imageVars
<1>5. AuxTypeOK'
  BY DEF AuxTypeOK, EnqueuePlace, auxVars
<1>6. HandsOK'
  <2>1. \A d \in Client \ {q} : pc'[d] = pc[d] /\ tok'[d] = tok[d] /\ batch'[d] = batch[d]
    BY <1>1 DEF LocalsTypeOK, Goto, EnqueuePlace
  <2>2. batch'[q] \subseteq 1 .. last
    BY <1>1, HandsBefore DEF LocalsTypeOK, EnqueuePlace
  <2>3. /\ pc'[q] = "sadd" => tok'[q] \in 1 .. top'
        /\ pc'[q] \in Holding => tok'[q] \in 1 .. last'
    BY <1>1, HandsBefore DEF LocalsTypeOK, Goto, EnqueuePlace, Holding
  <2>4. QED
    BY <1>1, <2>1, <2>2, <2>3, HandsKept DEF TypeInv, ClientsOK
<1>7. QED
  BY <1>3, <1>4, <1>5, <1>6

LEMMA ReserveTypes ==
  ASSUME TypeInv, StreamGrows, NEW w \in Workers, Reserve(w)
  PROVE  ClientsOK'
<1> USE StreamAssumption DEF TypeInv, ClientsOK
<1>1. w \in Client
  BY DEF Client
<1>2. pc' \in [Client -> Pc]
  BY <1>1 DEF LocalsTypeOK, Goto, Pc, Reserve, WorkerPc
<1>3. LocalsTypeOK'
  <2>1. tok' \in [Client -> Id0]
    BY <1>1 DEF LocalsTypeOK, Reserve, Unread, Oldest, StreamInv, StreamTypeOK, Id, Id0
  <2>2. UNCHANGED <<floor, seen, cursor, batch, todo, picked>>
    BY DEF Reserve
  <2>3. QED
    BY <1>2, <2>1, <2>2 DEF LocalsTypeOK
<1>4. SetsTypeOK' /\ ImagesTypeOK'
  BY DEF SetsTypeOK, ImagesTypeOK, Reserve, setVars, imageVars
<1>5. AuxTypeOK'
  BY DEF AuxTypeOK, Reserve, auxVars
<1>6. HandsOK'
  <2>1. \A d \in Client \ {w} : pc'[d] = pc[d] /\ tok'[d] = tok[d] /\ batch'[d] = batch[d]
    BY <1>1 DEF LocalsTypeOK, Goto, Reserve
  <2>2. batch'[w] \subseteq 1 .. last
    BY <1>1, HandsBefore DEF LocalsTypeOK, Reserve
  <2>3. /\ pc'[w] = "sadd" => tok'[w] \in 1 .. top'
        /\ pc'[w] \in Holding => tok'[w] \in 1 .. last'
    BY <1>1, HandsBefore DEF LocalsTypeOK, Goto, Reserve, Oldest, Unread, XReadGroup, Holding, StreamInv, StreamTypeOK, Id, Id0
  <2>4. QED
    BY <1>1, <2>1, <2>2, <2>3, HandsKept DEF TypeInv, ClientsOK
<1>7. QED
  BY <1>3, <1>4, <1>5, <1>6

LEMMA PutReferrerTypes ==
  ASSUME TypeInv, StreamGrows, NEW w \in Workers, PutReferrer(w)
  PROVE  ClientsOK'
<1> USE StreamAssumption DEF TypeInv, ClientsOK
<1>1. w \in Client
  BY DEF Client
<1>2. pc' \in [Client -> Pc]
  BY <1>1 DEF LocalsTypeOK, Goto, Pc, PutReferrer, WorkerPc
<1>3. LocalsTypeOK'
  BY <1>2 DEF LocalsTypeOK, PutReferrer
<1>4. SetsTypeOK' /\ ImagesTypeOK'
  <2>1. tok[w] \in Id
    BY <1>1 DEF HandsOK, Holding, PutReferrer, StreamInv, StreamTypeOK, Id, Id0
  <2>2. ref[tok[w]] \in Ref \cup {NoRef}
    BY <2>1 DEF StreamInv, StreamTypeOK
  <2>3. QED
    BY <2>2 DEF PutReferrer, SetsTypeOK, ImagesTypeOK, setVars
<1>5. AuxTypeOK'
  BY DEF AuxTypeOK, PutReferrer, auxVars
<1>6. HandsOK'
  <2>1. \A d \in Client \ {w} : pc'[d] = pc[d] /\ tok'[d] = tok[d] /\ batch'[d] = batch[d]
    BY <1>1 DEF LocalsTypeOK, Goto, PutReferrer
  <2>2. batch'[w] \subseteq 1 .. last
    BY <1>1, HandsBefore DEF LocalsTypeOK, PutReferrer
  <2>3. /\ pc'[w] = "sadd" => tok'[w] \in 1 .. top'
        /\ pc'[w] \in Holding => tok'[w] \in 1 .. last'
    BY <1>1, HandsBefore DEF LocalsTypeOK, Holding, Goto, PutReferrer
  <2>4. QED
    BY <1>1, <2>1, <2>2, <2>3, HandsKept DEF TypeInv, ClientsOK
<1>7. QED
  BY <1>3, <1>4, <1>5, <1>6

LEMMA AttestTypes ==
  ASSUME TypeInv, StreamGrows, NEW w \in Workers, Attest(w)
  PROVE  ClientsOK'
<1> USE StreamAssumption DEF TypeInv, ClientsOK
<1>1. w \in Client
  BY DEF Client
<1>2. pc' \in [Client -> Pc]
  BY <1>1 DEF LocalsTypeOK, Goto, Pc, Attest, WorkerPc
<1>3. LocalsTypeOK'
  BY <1>2 DEF LocalsTypeOK, Attest
<1>4. SetsTypeOK' /\ ImagesTypeOK'
  <2>1. tok[w] \in Id
    BY <1>1 DEF HandsOK, Holding, Attest, StreamInv, StreamTypeOK, Id, Id0
  <2>2. ref[tok[w]] \in Ref \cup {NoRef}
    BY <2>1 DEF StreamInv, StreamTypeOK
  <2>3. QED
    BY <2>2 DEF Attest, SetsTypeOK, ImagesTypeOK, setVars
<1>5. AuxTypeOK'
  BY DEF AuxTypeOK, Attest, auxVars
<1>6. HandsOK'
  <2>1. \A d \in Client \ {w} : pc'[d] = pc[d] /\ tok'[d] = tok[d] /\ batch'[d] = batch[d]
    BY <1>1 DEF LocalsTypeOK, Goto, Attest
  <2>2. batch'[w] \subseteq 1 .. last
    BY <1>1, HandsBefore DEF LocalsTypeOK, Attest
  <2>3. /\ pc'[w] = "sadd" => tok'[w] \in 1 .. top'
        /\ pc'[w] \in Holding => tok'[w] \in 1 .. last'
    BY <1>1, HandsBefore DEF LocalsTypeOK, Holding, Goto, Attest
  <2>4. QED
    BY <1>1, <2>1, <2>2, <2>3, HandsKept DEF TypeInv, ClientsOK
<1>7. QED
  BY <1>3, <1>4, <1>5, <1>6

LEMMA TransientFailureTypes ==
  ASSUME TypeInv, StreamGrows, NEW w \in Workers, TransientFailure(w)
  PROVE  ClientsOK'
<1> USE StreamAssumption DEF TypeInv, ClientsOK
<1>1. w \in Client
  BY DEF Client
<1>2. pc' \in [Client -> Pc]
  BY <1>1 DEF LocalsTypeOK, Goto, Pc, TransientFailure, WorkerPc, Exit
<1>3. LocalsTypeOK'
  <2>1. tok' \in [Client -> Id0]
    BY <1>1 DEF LocalsTypeOK, TransientFailure, Exit, Id0
  <2>2. floor' \in [Client -> Id0]
    BY <1>1 DEF LocalsTypeOK, TransientFailure, Exit, Id0
  <2>3. seen' \in [Client -> Id0]
    BY <1>1 DEF LocalsTypeOK, TransientFailure, Exit, Id0
  <2>4. UNCHANGED <<cursor, batch, todo, picked>>
    BY DEF TransientFailure, Exit
  <2>5. QED
    BY <1>2, <2>1, <2>2, <2>3, <2>4 DEF LocalsTypeOK
<1>4. SetsTypeOK' /\ ImagesTypeOK'
  BY DEF SetsTypeOK, ImagesTypeOK, TransientFailure, setVars, imageVars
<1>5. AuxTypeOK'
  BY DEF AuxTypeOK, TransientFailure, auxVars
<1>6. HandsOK'
  <2>1. \A d \in Client \ {w} : pc'[d] = pc[d] /\ tok'[d] = tok[d] /\ batch'[d] = batch[d]
    BY <1>1 DEF LocalsTypeOK, Goto, TransientFailure, Exit
  <2>2. batch'[w] \subseteq 1 .. last
    BY <1>1, HandsBefore DEF LocalsTypeOK, TransientFailure, Exit
  <2>3. /\ pc'[w] = "sadd" => tok'[w] \in 1 .. top'
        /\ pc'[w] \in Holding => tok'[w] \in 1 .. last'
    BY <1>1, HandsBefore DEF LocalsTypeOK, Holding, Goto, TransientFailure, Exit
  <2>4. QED
    BY <1>1, <2>1, <2>2, <2>3, HandsKept DEF TypeInv, ClientsOK
<1>7. QED
  BY <1>3, <1>4, <1>5, <1>6

LEMMA PermanentFailureTypes ==
  ASSUME TypeInv, StreamGrows, NEW w \in Workers, PermanentFailure(w)
  PROVE  ClientsOK'
<1> USE StreamAssumption DEF TypeInv, ClientsOK
<1>1. w \in Client
  BY DEF Client
<1>2. pc' \in [Client -> Pc]
  BY <1>1 DEF LocalsTypeOK, Goto, Pc, PermanentFailure, BuryPc
<1>3. LocalsTypeOK'
  BY <1>2 DEF LocalsTypeOK, PermanentFailure
<1>4. SetsTypeOK' /\ ImagesTypeOK'
  BY DEF SetsTypeOK, ImagesTypeOK, PermanentFailure, setVars, imageVars
<1>5. AuxTypeOK'
  BY DEF AuxTypeOK, PermanentFailure, auxVars
<1>6. HandsOK'
  <2>1. \A d \in Client \ {w} : pc'[d] = pc[d] /\ tok'[d] = tok[d] /\ batch'[d] = batch[d]
    BY <1>1 DEF LocalsTypeOK, Goto, PermanentFailure
  <2>2. batch'[w] \subseteq 1 .. last
    BY <1>1, HandsBefore DEF LocalsTypeOK, PermanentFailure
  <2>3. /\ pc'[w] = "sadd" => tok'[w] \in 1 .. top'
        /\ pc'[w] \in Holding => tok'[w] \in 1 .. last'
    BY <1>1, HandsBefore DEF LocalsTypeOK, Holding, Goto, PermanentFailure
  <2>4. QED
    BY <1>1, <2>1, <2>2, <2>3, HandsKept DEF TypeInv, ClientsOK
<1>7. QED
  BY <1>3, <1>4, <1>5, <1>6

LEMMA ConfirmTypes ==
  ASSUME TypeInv, StreamGrows, NEW w \in Workers, Confirm(w)
  PROVE  ClientsOK'
<1> USE StreamAssumption DEF TypeInv, ClientsOK
<1>1. w \in Client
  BY DEF Client
<1>2. pc' \in [Client -> Pc]
  BY <1>1 DEF LocalsTypeOK, Goto, Pc, Confirm, WorkerPc
<1>3. LocalsTypeOK'
  BY <1>2 DEF LocalsTypeOK, Confirm
<1>4. SetsTypeOK' /\ ImagesTypeOK'
  <2>1. tok[w] \in Id
    BY <1>1 DEF HandsOK, Holding, Confirm, StreamInv, StreamTypeOK, Id, Id0
  <2>2. ref[tok[w]] \in Ref \cup {NoRef}
    BY <2>1 DEF StreamInv, StreamTypeOK
  <2>3. QED
    BY <2>2 DEF Confirm, SetsTypeOK, ImagesTypeOK, imageVars
<1>5. AuxTypeOK'
  BY DEF AuxTypeOK, Confirm, auxVars
<1>6. HandsOK'
  <2>1. \A d \in Client \ {w} : pc'[d] = pc[d] /\ tok'[d] = tok[d] /\ batch'[d] = batch[d]
    BY <1>1 DEF LocalsTypeOK, Goto, Confirm
  <2>2. batch'[w] \subseteq 1 .. last
    BY <1>1, HandsBefore DEF LocalsTypeOK, Confirm
  <2>3. /\ pc'[w] = "sadd" => tok'[w] \in 1 .. top'
        /\ pc'[w] \in Holding => tok'[w] \in 1 .. last'
    BY <1>1, HandsBefore DEF LocalsTypeOK, Holding, Goto, Confirm
  <2>4. QED
    BY <1>1, <2>1, <2>2, <2>3, HandsKept DEF TypeInv, ClientsOK
<1>7. QED
  BY <1>3, <1>4, <1>5, <1>6

LEMMA AckTypes ==
  ASSUME TypeInv, StreamGrows, NEW w \in Workers, Ack(w)
  PROVE  ClientsOK'
<1> USE StreamAssumption DEF TypeInv, ClientsOK
<1>1. w \in Client
  BY DEF Client
<1>2. pc' \in [Client -> Pc]
  BY <1>1 DEF LocalsTypeOK, Goto, Pc, Ack, TrimPc
<1>3. LocalsTypeOK'
  <2>1. tok' \in [Client -> Id0]
    BY <1>1 DEF LocalsTypeOK, Ack, Id0
  <2>2. UNCHANGED <<floor, seen, cursor, batch, todo, picked>>
    BY DEF Ack
  <2>3. QED
    BY <1>2, <2>1, <2>2 DEF LocalsTypeOK
<1>4. SetsTypeOK' /\ ImagesTypeOK'
  BY DEF SetsTypeOK, ImagesTypeOK, Ack, setVars, imageVars
<1>5. AuxTypeOK'
  BY DEF AuxTypeOK, Ack, auxVars
<1>6. HandsOK'
  <2>1. \A d \in Client \ {w} : pc'[d] = pc[d] /\ tok'[d] = tok[d] /\ batch'[d] = batch[d]
    BY <1>1 DEF LocalsTypeOK, Goto, Ack
  <2>2. batch'[w] \subseteq 1 .. last
    BY <1>1, HandsBefore DEF LocalsTypeOK, Ack
  <2>3. /\ pc'[w] = "sadd" => tok'[w] \in 1 .. top'
        /\ pc'[w] \in Holding => tok'[w] \in 1 .. last'
    BY <1>1, HandsBefore DEF LocalsTypeOK, Holding, Goto, Ack
  <2>4. QED
    BY <1>1, <2>1, <2>2, <2>3, HandsKept DEF TypeInv, ClientsOK
<1>7. QED
  BY <1>3, <1>4, <1>5, <1>6

LEMMA ReaperStartTypes ==
  ASSUME TypeInv, StreamGrows, NEW p \in Reapers, ReaperStart(p)
  PROVE  ClientsOK'
<1> USE StreamAssumption DEF TypeInv, ClientsOK
<1>1. p \in Client
  BY DEF Client
<1>2. pc' \in [Client -> Pc]
  BY <1>1 DEF LocalsTypeOK, Goto, Pc, ReaperStart, ReaperPc
<1>3. LocalsTypeOK'
  <2>1. cursor' \in [Client -> Id0]
    BY <1>1 DEF LocalsTypeOK, ReaperStart, Id0
  <2>2. UNCHANGED <<tok, floor, seen, batch, todo, picked>>
    BY DEF ReaperStart
  <2>3. QED
    BY <1>2, <2>1, <2>2 DEF LocalsTypeOK
<1>4. SetsTypeOK' /\ ImagesTypeOK'
  BY DEF SetsTypeOK, ImagesTypeOK, ReaperStart, setVars, imageVars
<1>5. AuxTypeOK'
  BY DEF AuxTypeOK, ReaperStart, auxVars
<1>6. HandsOK'
  <2>1. \A d \in Client \ {p} : pc'[d] = pc[d] /\ tok'[d] = tok[d] /\ batch'[d] = batch[d]
    BY <1>1 DEF LocalsTypeOK, Goto, ReaperStart
  <2>2. batch'[p] \subseteq 1 .. last
    BY <1>1, HandsBefore DEF LocalsTypeOK, ReaperStart
  <2>3. /\ pc'[p] = "sadd" => tok'[p] \in 1 .. top'
        /\ pc'[p] \in Holding => tok'[p] \in 1 .. last'
    BY <1>1, HandsBefore DEF LocalsTypeOK, Holding, Goto, ReaperStart
  <2>4. QED
    BY <1>1, <2>1, <2>2, <2>3, HandsKept DEF TypeInv, ClientsOK
<1>7. QED
  BY <1>3, <1>4, <1>5, <1>6

LEMMA ClaimTypes ==
  ASSUME TypeInv, StreamGrows, NEW p \in Reapers, Claim(p)
  PROVE  ClientsOK'
<1> USE StreamAssumption DEF TypeInv, ClientsOK
<1>1. p \in Client
  BY DEF Client
<1>2. pc' \in [Client -> Pc]
  BY <1>1 DEF LocalsTypeOK, Goto, Pc, Claim, ReaperPc, TrimPc, ReaperNext
<1>3. LocalsTypeOK'
  <2>1. cursor' \in [Client -> Id0]
    BY <1>1 DEF LocalsTypeOK, Claim, Id0
  <2>2. batch' \in [Client -> SUBSET Id]
    BY <1>1 DEF LocalsTypeOK, Claim, Claimed, Claimable, InRange, StreamInv, StreamTypeOK, Id, Id0
  <2>3. UNCHANGED <<tok, floor, seen, todo, picked>>
    BY DEF Claim
  <2>4. QED
    BY <1>2, <2>1, <2>2, <2>3 DEF LocalsTypeOK
<1>4. SetsTypeOK' /\ ImagesTypeOK'
  BY DEF SetsTypeOK, ImagesTypeOK, Claim, setVars, imageVars
<1>5. AuxTypeOK'
  BY DEF AuxTypeOK, Claim, Scanned, InRange, StreamInv, StreamTypeOK, Id, Id0
<1>6. HandsOK'
  <2>1. \A d \in Client \ {p} : pc'[d] = pc[d] /\ tok'[d] = tok[d] /\ batch'[d] = batch[d]
    BY <1>1 DEF LocalsTypeOK, Goto, Claim
  <2>2. batch'[p] \subseteq 1 .. last
    <3>1. batch'[p] = Claimed(p)
      BY <1>1 DEF LocalsTypeOK, Claim
    <3>2. QED
      BY <3>1 DEF Claimed, Claimable, InRange, StreamInv
  <2>3. /\ pc'[p] = "sadd" => tok'[p] \in 1 .. top'
        /\ pc'[p] \in Holding => tok'[p] \in 1 .. last'
    BY <1>1, HandsBefore DEF LocalsTypeOK, Holding, Goto, Claim, ReaperNext
  <2>4. QED
    BY <1>1, <2>1, <2>2, <2>3, HandsKept DEF TypeInv, ClientsOK
<1>7. QED
  BY <1>3, <1>4, <1>5, <1>6

LEMMA CheckTypes ==
  ASSUME TypeInv, StreamGrows, NEW p \in Reapers, Check(p)
  PROVE  ClientsOK'
<1> USE StreamAssumption DEF TypeInv, ClientsOK
<1>1. p \in Client
  BY DEF Client
<1>2. pc' \in [Client -> Pc]
  BY <1>1 DEF LocalsTypeOK, Goto, Pc, Check, ReaperPc, TrimPc, BuryPc, ReaperNext
<1>3. LocalsTypeOK'
  <2>1. tok' \in [Client -> Id0]
    BY <1>1 DEF LocalsTypeOK, Check, Id, Id0
  <2>2. batch' \in [Client -> SUBSET Id]
    BY <1>1 DEF LocalsTypeOK, Check
  <2>3. UNCHANGED <<floor, seen, cursor, todo, picked>>
    BY DEF Check
  <2>4. QED
    BY <1>2, <2>1, <2>2, <2>3 DEF LocalsTypeOK
<1>4. SetsTypeOK' /\ ImagesTypeOK'
  BY DEF SetsTypeOK, ImagesTypeOK, Check, setVars, imageVars
<1>5. AuxTypeOK'
  BY DEF AuxTypeOK, Check, auxVars
<1>6. HandsOK'
  <2>1. \A d \in Client \ {p} : pc'[d] = pc[d] /\ tok'[d] = tok[d] /\ batch'[d] = batch[d]
    BY <1>1 DEF LocalsTypeOK, Goto, Check
  <2>2. batch'[p] \subseteq 1 .. last
    BY <1>1, HandsBefore DEF LocalsTypeOK, Check
  <2>3. /\ pc'[p] = "sadd" => tok'[p] \in 1 .. top'
        /\ pc'[p] \in Holding => tok'[p] \in 1 .. last'
    <3>1. pc'[p] \in {"bury", "check", "claim", "xpending"}
      BY <1>1 DEF LocalsTypeOK, Check, Goto, ReaperNext
    <3>2. CASE pc'[p] = "bury"
      <4>1. tok'[p] \in batch[p]
        BY <1>1, <3>2 DEF LocalsTypeOK, Check, Goto, ReaperNext
      <4>2. last \in Nat /\ last' \in Nat /\ last <= last'
        BY DEF StreamInv, StreamTypeOK, StreamGrows, Id0
      <4>3. batch[p] \subseteq 1 .. last
        BY <1>1 DEF HandsOK
      <4>4. QED
        BY <3>2, <4>1, <4>2, <4>3
    <3>3. QED
      BY <3>1, <3>2 DEF Holding
  <2>4. QED
    BY <1>1, <2>1, <2>2, <2>3, HandsKept DEF TypeInv, ClientsOK
<1>7. QED
  BY <1>3, <1>4, <1>5, <1>6

LEMMA BuryTypes ==
  ASSUME TypeInv, StreamGrows, NEW c \in Trimmer, Bury(c)
  PROVE  ClientsOK'
<1> USE StreamAssumption DEF TypeInv, ClientsOK
<1>1. c \in Client
  BY DEF Client, Trimmer
<1>2. pc' \in [Client -> Pc]
  BY <1>1 DEF LocalsTypeOK, Goto, Pc, Bury, BuryPc
<1>3. LocalsTypeOK'
  BY <1>2 DEF LocalsTypeOK, Bury
<1>4. tok[c] \in Id /\ ref[tok[c]] \in Ref \cup {NoRef}
  <2>1. pc[c] = "bury"
    BY DEF Bury
  <2>2. tok[c] \in 1 .. last
    BY <1>1, <2>1 DEF HandsOK, Holding
  <2>3. tok[c] \in Id
    BY <2>2 DEF StreamInv, StreamTypeOK, Id, Id0
  <2>4. QED
    BY <2>3 DEF StreamInv, StreamTypeOK
<1>5. SetsTypeOK' /\ ImagesTypeOK'
  <2> DEFINE reason == IF c \in Workers THEN "permanent" ELSE "max retries"
             e == [n |-> deadTop + 1, ref |-> ref[tok[c]], of |-> tok[c], why |-> reason]
  <2>1. dead' = dead \cup {e} /\ deadTop' = deadTop + 1
    BY DEF Bury
  <2>2. deadTop + 1 \in Nat /\ dead \subseteq DeadEntry /\ reason \in {"permanent", "max retries"}
    BY DEF SetsTypeOK
  <2> HIDE DEF reason
  <2>3. e \in DeadEntry
    BY <1>4, <2>2 DEF DeadEntry
  <2> HIDE DEF e
  <2>4. dead' \subseteq DeadEntry /\ deadTop' \in Nat
    BY <2>1, <2>2, <2>3
  <2>5. UNCHANGED <<confirmed, placed, referred, signed>>
    BY DEF Bury, imageVars
  <2>6. QED
    BY <2>4, <2>5 DEF SetsTypeOK, ImagesTypeOK
<1>6. AuxTypeOK'
  BY <1>4 DEF AuxTypeOK, Bury
<1>7. HandsOK'
  <2>1. \A d \in Client \ {c} : pc'[d] = pc[d] /\ tok'[d] = tok[d] /\ batch'[d] = batch[d]
    BY <1>1 DEF LocalsTypeOK, Goto, Bury
  <2>2. batch'[c] \subseteq 1 .. last
    BY <1>1, HandsBefore DEF LocalsTypeOK, Bury
  <2>3. /\ pc'[c] = "sadd" => tok'[c] \in 1 .. top'
        /\ pc'[c] \in Holding => tok'[c] \in 1 .. last'
    BY <1>1, HandsBefore DEF LocalsTypeOK, Holding, Goto, Bury
  <2>4. QED
    BY <1>1, <2>1, <2>2, <2>3, HandsKept DEF TypeInv, ClientsOK
<1>8. QED
  BY <1>3, <1>5, <1>6, <1>7

LEMMA BuryAckTypes ==
  ASSUME TypeInv, StreamGrows, NEW c \in Trimmer, BuryAck(c)
  PROVE  ClientsOK'
<1> USE StreamAssumption DEF TypeInv, ClientsOK
<1>1. c \in Client
  BY DEF Client, Trimmer
<1>2. pc' \in [Client -> Pc]
  BY <1>1 DEF LocalsTypeOK, Goto, Pc, BuryAck, ReaperPc, TrimPc, ReaperNext
<1>3. LocalsTypeOK'
  <2>1. tok' \in [Client -> Id0]
    BY <1>1 DEF LocalsTypeOK, BuryAck, Id0
  <2>2. batch' \in [Client -> SUBSET Id]
    BY <1>1 DEF LocalsTypeOK, BuryAck
  <2>3. UNCHANGED <<floor, seen, cursor, todo, picked>>
    BY DEF BuryAck
  <2>4. QED
    BY <1>2, <2>1, <2>2, <2>3 DEF LocalsTypeOK
<1>4. SetsTypeOK' /\ ImagesTypeOK'
  BY DEF SetsTypeOK, ImagesTypeOK, BuryAck, setVars, imageVars
<1>5. AuxTypeOK'
  BY DEF AuxTypeOK, BuryAck, auxVars
<1>6. HandsOK'
  <2>1. \A d \in Client \ {c} : pc'[d] = pc[d] /\ tok'[d] = tok[d] /\ batch'[d] = batch[d]
    BY <1>1 DEF LocalsTypeOK, Goto, BuryAck
  <2>2. batch'[c] \subseteq 1 .. last
    BY <1>1, HandsBefore DEF LocalsTypeOK, BuryAck
  <2>3. /\ pc'[c] = "sadd" => tok'[c] \in 1 .. top'
        /\ pc'[c] \in Holding => tok'[c] \in 1 .. last'
    BY <1>1, HandsBefore DEF LocalsTypeOK, Holding, Goto, BuryAck, ReaperNext
  <2>4. QED
    BY <1>1, <2>1, <2>2, <2>3, HandsKept DEF TypeInv, ClientsOK
<1>7. QED
  BY <1>3, <1>4, <1>5, <1>6

LEMMA TrimPendingTypes ==
  ASSUME TypeInv, StreamGrows, NEW c \in Trimmer, TrimPending(c)
  PROVE  ClientsOK'
<1> USE StreamAssumption DEF TypeInv, ClientsOK
<1>1. c \in Client
  BY DEF Client, Trimmer
<1>2. pc' \in [Client -> Pc]
  BY <1>1 DEF LocalsTypeOK, Goto, Pc, TrimPending, TrimPc
<1>3. LocalsTypeOK'
  <2>1. seen' \in [Client -> Id0]
    BY <1>1 DEF LocalsTypeOK, TrimPending, StreamInv, StreamTypeOK, Id, Id0
  <2>2. floor' \in [Client -> Id0]
    <3>1. CASE floor' = floor
      BY <3>1 DEF LocalsTypeOK
    <3>2. CASE \E i \in pel : floor' = [floor EXCEPT ![c] = i]
      <4>1. PICK i \in pel : floor' = [floor EXCEPT ![c] = i]
        BY <3>2
      <4>2. i \in Id0
        BY DEF StreamInv, StreamTypeOK, Id, Id0
      <4>3. QED
        BY <4>1, <4>2 DEF LocalsTypeOK
    <3>3. QED
      BY <3>1, <3>2 DEF TrimPending
  <2>3. UNCHANGED <<tok, cursor, batch, todo, picked>>
    BY DEF TrimPending
  <2>4. QED
    BY <1>2, <2>1, <2>2, <2>3 DEF LocalsTypeOK
<1>4. SetsTypeOK' /\ ImagesTypeOK'
  BY DEF SetsTypeOK, ImagesTypeOK, TrimPending, setVars, imageVars
<1>5. AuxTypeOK'
  BY DEF AuxTypeOK, TrimPending
<1>6. HandsOK'
  <2>1. \A d \in Client \ {c} : pc'[d] = pc[d] /\ tok'[d] = tok[d] /\ batch'[d] = batch[d]
    BY <1>1 DEF LocalsTypeOK, Goto, TrimPending
  <2>2. batch'[c] \subseteq 1 .. last
    BY <1>1, HandsBefore DEF LocalsTypeOK, TrimPending
  <2>3. /\ pc'[c] = "sadd" => tok'[c] \in 1 .. top'
        /\ pc'[c] \in Holding => tok'[c] \in 1 .. last'
    BY <1>1, HandsBefore DEF LocalsTypeOK, Holding, Goto, TrimPending
  <2>4. QED
    BY <1>1, <2>1, <2>2, <2>3, HandsKept DEF TypeInv, ClientsOK
<1>7. QED
  BY <1>3, <1>4, <1>5, <1>6

LEMMA TrimGroupsTypes ==
  ASSUME TypeInv, StreamGrows, NEW c \in Trimmer, TrimGroups(c)
  PROVE  ClientsOK'
<1> USE StreamAssumption DEF TypeInv, ClientsOK
<1>1. c \in Client
  BY DEF Client, Trimmer
<1>2. pc' \in [Client -> Pc]
  BY <1>1 DEF LocalsTypeOK, Goto, Pc, TrimGroups, TrimPc, WorkerPc
<1>3. LocalsTypeOK'
  <2>1. floor' \in [Client -> Id0]
    BY <1>1 DEF LocalsTypeOK, TrimGroups, StreamInv, StreamTypeOK, Id, Id0
  <2>2. UNCHANGED <<tok, seen, cursor, batch, todo, picked>>
    BY DEF TrimGroups
  <2>3. QED
    BY <1>2, <2>1, <2>2 DEF LocalsTypeOK
<1>4. SetsTypeOK' /\ ImagesTypeOK'
  BY DEF SetsTypeOK, ImagesTypeOK, TrimGroups, setVars, imageVars
<1>5. AuxTypeOK'
  BY DEF AuxTypeOK, TrimGroups, auxVars
<1>6. HandsOK'
  <2>1. \A d \in Client \ {c} : pc'[d] = pc[d] /\ tok'[d] = tok[d] /\ batch'[d] = batch[d]
    BY <1>1 DEF LocalsTypeOK, Goto, TrimGroups
  <2>2. batch'[c] \subseteq 1 .. last
    BY <1>1, HandsBefore DEF LocalsTypeOK, TrimGroups
  <2>3. /\ pc'[c] = "sadd" => tok'[c] \in 1 .. top'
        /\ pc'[c] \in Holding => tok'[c] \in 1 .. last'
    BY <1>1, HandsBefore DEF LocalsTypeOK, Holding, Goto, TrimGroups
  <2>4. QED
    BY <1>1, <2>1, <2>2, <2>3, HandsKept DEF TypeInv, ClientsOK
<1>7. QED
  BY <1>3, <1>4, <1>5, <1>6

LEMMA TrimStreamTypes ==
  ASSUME TypeInv, StreamGrows, NEW c \in Trimmer, TrimStream(c)
  PROVE  ClientsOK'
<1> USE StreamAssumption DEF TypeInv, ClientsOK
<1>1. c \in Client
  BY DEF Client, Trimmer
<1>2. pc' \in [Client -> Pc]
  BY <1>1 DEF LocalsTypeOK, Goto, Pc, TrimStream, TrimPc
<1>3. LocalsTypeOK'
  BY <1>2 DEF LocalsTypeOK, TrimStream
<1>4. SetsTypeOK' /\ ImagesTypeOK'
  BY DEF SetsTypeOK, ImagesTypeOK, TrimStream, setVars, imageVars
<1>5. AuxTypeOK'
  BY DEF AuxTypeOK, TrimStream, auxVars
<1>6. HandsOK'
  <2>1. \A d \in Client \ {c} : pc'[d] = pc[d] /\ tok'[d] = tok[d] /\ batch'[d] = batch[d]
    BY <1>1 DEF LocalsTypeOK, Goto, TrimStream
  <2>2. batch'[c] \subseteq 1 .. last
    BY <1>1, HandsBefore DEF LocalsTypeOK, TrimStream
  <2>3. /\ pc'[c] = "sadd" => tok'[c] \in 1 .. top'
        /\ pc'[c] \in Holding => tok'[c] \in 1 .. last'
    BY <1>1, HandsBefore DEF LocalsTypeOK, Holding, Goto, TrimStream
  <2>4. QED
    BY <1>1, <2>1, <2>2, <2>3, HandsKept DEF TypeInv, ClientsOK
<1>7. QED
  BY <1>3, <1>4, <1>5, <1>6

LEMMA TrimTypes ==
  ASSUME TypeInv, StreamGrows, NEW c \in Trimmer, Trim(c)
  PROVE  ClientsOK'
<1> USE StreamAssumption DEF TypeInv, ClientsOK
<1>1. c \in Client
  BY DEF Client, Trimmer
<1>2. pc' \in [Client -> Pc]
  BY <1>1 DEF LocalsTypeOK, Goto, Pc, Trim, WorkerPc, Exit
<1>3. LocalsTypeOK'
  <2>1. tok' \in [Client -> Id0]
    BY <1>1 DEF LocalsTypeOK, Trim, Exit, Id0
  <2>2. floor' \in [Client -> Id0]
    BY <1>1 DEF LocalsTypeOK, Trim, Exit, Id0
  <2>3. seen' \in [Client -> Id0]
    BY <1>1 DEF LocalsTypeOK, Trim, Exit, Id0
  <2>4. UNCHANGED <<cursor, batch, todo, picked>>
    BY DEF Trim, Exit
  <2>5. QED
    BY <1>2, <2>1, <2>2, <2>3, <2>4 DEF LocalsTypeOK
<1>4. SetsTypeOK' /\ ImagesTypeOK'
  BY DEF SetsTypeOK, ImagesTypeOK, Trim, setVars, imageVars
<1>5. AuxTypeOK'
  BY DEF AuxTypeOK, Trim, Unread, StreamInv, StreamTypeOK, Id, Id0
<1>6. HandsOK'
  <2>1. \A d \in Client \ {c} : pc'[d] = pc[d] /\ tok'[d] = tok[d] /\ batch'[d] = batch[d]
    BY <1>1 DEF LocalsTypeOK, Goto, Trim, Exit
  <2>2. batch'[c] \subseteq 1 .. last
    BY <1>1, HandsBefore DEF LocalsTypeOK, Trim, Exit
  <2>3. /\ pc'[c] = "sadd" => tok'[c] \in 1 .. top'
        /\ pc'[c] \in Holding => tok'[c] \in 1 .. last'
    BY <1>1, HandsBefore DEF LocalsTypeOK, Holding, Goto, Trim, Exit
  <2>4. QED
    BY <1>1, <2>1, <2>2, <2>3, HandsKept DEF TypeInv, ClientsOK
<1>7. QED
  BY <1>3, <1>4, <1>5, <1>6

LEMMA SelectDeadTypes ==
  ASSUME TypeInv, StreamGrows, NEW o \in Operators, SelectDead(o)
  PROVE  ClientsOK'
<1> USE StreamAssumption DEF TypeInv, ClientsOK
<1>1. o \in Client
  BY DEF Client
<1>2. pc' \in [Client -> Pc]
  BY <1>1 DEF LocalsTypeOK, Goto, Pc, SelectDead, OperatorPc
<1>3. LocalsTypeOK'
  <2>1. picked' \in [Client -> SUBSET DeadEntry]
    BY <1>1 DEF LocalsTypeOK, SelectDead, Selections, SetsTypeOK
  <2>2. UNCHANGED <<tok, floor, seen, cursor, batch, todo>>
    BY DEF SelectDead
  <2>3. QED
    BY <1>2, <2>1, <2>2 DEF LocalsTypeOK
<1>4. SetsTypeOK' /\ ImagesTypeOK'
  BY DEF SetsTypeOK, ImagesTypeOK, SelectDead, setVars, imageVars
<1>5. AuxTypeOK'
  BY DEF AuxTypeOK, SelectDead
<1>6. HandsOK'
  <2>1. \A d \in Client \ {o} : pc'[d] = pc[d] /\ tok'[d] = tok[d] /\ batch'[d] = batch[d]
    BY <1>1 DEF LocalsTypeOK, Goto, SelectDead
  <2>2. batch'[o] \subseteq 1 .. last
    BY <1>1, HandsBefore DEF LocalsTypeOK, SelectDead
  <2>3. /\ pc'[o] = "sadd" => tok'[o] \in 1 .. top'
        /\ pc'[o] \in Holding => tok'[o] \in 1 .. last'
    BY <1>1, HandsBefore DEF LocalsTypeOK, Holding, Goto, SelectDead
  <2>4. QED
    BY <1>1, <2>1, <2>2, <2>3, HandsKept DEF TypeInv, ClientsOK
<1>7. QED
  BY <1>3, <1>4, <1>5, <1>6

LEMMA ReplayAddTypes ==
  ASSUME TypeInv, StreamGrows, NEW o \in Operators, ReplayAdd(o)
  PROVE  ClientsOK'
<1> USE StreamAssumption DEF TypeInv, ClientsOK
<1>1. o \in Client
  BY DEF Client
<1>2. pc' \in [Client -> Pc]
  BY <1>1 DEF LocalsTypeOK, Goto, Pc, ReplayAdd, OperatorPc
<1>3. LocalsTypeOK'
  BY <1>2 DEF LocalsTypeOK, ReplayAdd
<1>4. SetsTypeOK' /\ ImagesTypeOK'
  BY DEF SetsTypeOK, ImagesTypeOK, ReplayAdd, setVars, imageVars
<1>5. AuxTypeOK'
  BY DEF AuxTypeOK, ReplayAdd, auxVars
<1>6. HandsOK'
  <2>1. \A d \in Client \ {o} : pc'[d] = pc[d] /\ tok'[d] = tok[d] /\ batch'[d] = batch[d]
    BY <1>1 DEF LocalsTypeOK, Goto, ReplayAdd
  <2>2. batch'[o] \subseteq 1 .. last
    BY <1>1, HandsBefore DEF LocalsTypeOK, ReplayAdd
  <2>3. /\ pc'[o] = "sadd" => tok'[o] \in 1 .. top'
        /\ pc'[o] \in Holding => tok'[o] \in 1 .. last'
    BY <1>1, HandsBefore DEF LocalsTypeOK, Holding, Goto, ReplayAdd
  <2>4. QED
    BY <1>1, <2>1, <2>2, <2>3, HandsKept DEF TypeInv, ClientsOK
<1>7. QED
  BY <1>3, <1>4, <1>5, <1>6

LEMMA DeleteDeadTypes ==
  ASSUME TypeInv, StreamGrows, NEW o \in Operators, DeleteDead(o)
  PROVE  ClientsOK'
<1> USE StreamAssumption DEF TypeInv, ClientsOK
<1>1. o \in Client
  BY DEF Client
<1>2. pc' \in [Client -> Pc]
  BY <1>1 DEF LocalsTypeOK, Goto, Pc, DeleteDead, OperatorPc, WorkerPc
<1>3. LocalsTypeOK'
  <2>1. picked' \in [Client -> SUBSET DeadEntry]
    BY <1>1 DEF LocalsTypeOK, DeleteDead
  <2>2. UNCHANGED <<tok, floor, seen, cursor, batch, todo>>
    BY DEF DeleteDead
  <2>3. QED
    BY <1>2, <2>1, <2>2 DEF LocalsTypeOK
<1>4. SetsTypeOK' /\ ImagesTypeOK'
  BY DEF DeleteDead, SetsTypeOK, ImagesTypeOK, imageVars
<1>5. AuxTypeOK'
  BY DEF AuxTypeOK, DeleteDead, auxVars
<1>6. HandsOK'
  <2>1. \A d \in Client \ {o} : pc'[d] = pc[d] /\ tok'[d] = tok[d] /\ batch'[d] = batch[d]
    BY <1>1 DEF LocalsTypeOK, Goto, DeleteDead
  <2>2. batch'[o] \subseteq 1 .. last
    BY <1>1, HandsBefore DEF LocalsTypeOK, DeleteDead
  <2>3. /\ pc'[o] = "sadd" => tok'[o] \in 1 .. top'
        /\ pc'[o] \in Holding => tok'[o] \in 1 .. last'
    BY <1>1, HandsBefore DEF LocalsTypeOK, Holding, Goto, DeleteDead
  <2>4. QED
    BY <1>1, <2>1, <2>2, <2>3, HandsKept DEF TypeInv, ClientsOK
<1>7. QED
  BY <1>3, <1>4, <1>5, <1>6

LEMMA CrashTypes ==
  ASSUME TypeInv, StreamGrows, NEW c \in Client, Crash(c)
  PROVE  ClientsOK'
<1> USE StreamAssumption DEF TypeInv, ClientsOK
<1>1. c \in Client
  OBVIOUS
<1>2. pc' \in [Client -> Pc]
  BY <1>1 DEF LocalsTypeOK, Goto, Pc, Crash, WorkerPc, Exit
<1>3. LocalsTypeOK'
  <2>1. tok' \in [Client -> Id0]
    BY <1>1 DEF LocalsTypeOK, Crash, Exit, Id0
  <2>2. floor' \in [Client -> Id0]
    BY <1>1 DEF LocalsTypeOK, Crash, Exit, Id0
  <2>3. seen' \in [Client -> Id0]
    BY <1>1 DEF LocalsTypeOK, Crash, Exit, Id0
  <2>4. cursor' \in [Client -> Id0]
    BY <1>1 DEF LocalsTypeOK, Crash, Exit, Id0
  <2>5. batch' \in [Client -> SUBSET Id]
    BY <1>1 DEF LocalsTypeOK, Crash, Exit
  <2>6. todo' \in [Client -> SUBSET Ref]
    BY <1>1 DEF LocalsTypeOK, Crash, Exit
  <2>7. picked' \in [Client -> SUBSET DeadEntry]
    BY <1>1 DEF LocalsTypeOK, Crash, Exit
  <2>8. QED
    BY <1>2, <2>1, <2>2, <2>3, <2>4, <2>5, <2>6, <2>7 DEF LocalsTypeOK
<1>4. SetsTypeOK' /\ ImagesTypeOK'
  BY DEF SetsTypeOK, ImagesTypeOK, Crash, setVars, imageVars
<1>5. AuxTypeOK'
  BY DEF AuxTypeOK, Crash
<1>6. HandsOK'
  <2>1. \A d \in Client \ {c} : pc'[d] = pc[d] /\ tok'[d] = tok[d] /\ batch'[d] = batch[d]
    BY <1>1 DEF LocalsTypeOK, Goto, Crash, Exit
  <2>2. batch'[c] \subseteq 1 .. last
    BY <1>1, HandsBefore DEF LocalsTypeOK, Crash, Exit
  <2>3. /\ pc'[c] = "sadd" => tok'[c] \in 1 .. top'
        /\ pc'[c] \in Holding => tok'[c] \in 1 .. last'
    BY <1>1, HandsBefore DEF LocalsTypeOK, Holding, Goto, Crash, Exit
  <2>4. QED
    BY <1>1, <2>1, <2>2, <2>3, HandsKept DEF TypeInv, ClientsOK
<1>7. QED
  BY <1>3, <1>4, <1>5, <1>6

-----------------------------------------------------------------------------
\* Every step runs at most one command of the broker, on arguments in range.
LEMMA StepGrows ==
  ASSUME TypeInv, [Next]_vars
  PROVE  StreamGrows
<1> USE DEF TypeInv, ClientsOK
<1>1. CASE UNCHANGED streamVars
  BY <1>1, UnchangedGrows
<1>2. ASSUME NEW q \in Enqueuers, EnqueueAdd(q)
      PROVE  StreamGrows
  <2>1. PICK r \in todo[q] : XAdd(r)
    BY <1>2 DEF EnqueueAdd
  <2>2. r \in Ref
    BY DEF LocalsTypeOK, Client
  <2>3. QED
    BY <2>1, <2>2, XAddGrows
<1>3. ASSUME NEW w \in Workers, Reserve(w)
      PROVE  StreamGrows
  <2>1. PICK i \in Unread : XReadGroup(i)
    BY <1>3 DEF Reserve
  <2>2. i \in Id
    BY DEF Unread, StreamInv, StreamTypeOK
  <2>3. QED
    BY <2>1, <2>2, XReadGroupGrows
<1>4. ASSUME NEW c \in Client, XAck(tok[c]), pc[c] \in Holding
      PROVE  StreamGrows
  <2>1. tok[c] \in 1 .. last
    BY <1>4 DEF HandsOK
  <2>2. tok[c] \in Id
    BY <2>1, StreamAssumption DEF StreamInv, StreamTypeOK, Id, Id0
  <2>3. QED
    BY <1>4, <2>2, XAckGrows
<1>5. ASSUME NEW p \in Reapers, Claim(p)
      PROVE  StreamGrows
  <2>1. Claimed(p) \in SUBSET Id /\ Scanned(p) \in SUBSET Id
    BY DEF Claimed, Scanned, Claimable, InRange, StreamInv, StreamTypeOK
  <2>2. XAutoClaim(Claimed(p), Scanned(p))
    BY <1>5 DEF Claim, ClaimPage
  <2>3. QED
    BY <2>1, <2>2, XAutoClaimGrows
<1>6. ASSUME NEW c \in Trimmer, Trim(c)
      PROVE  StreamGrows
  <2>1. XTrim(Kept(c)) /\ Kept(c) \in SUBSET Id
    BY <1>6 DEF Trim, Kept
  <2>2. QED
    BY <2>1, XTrimGrows
<1>7. ASSUME NEW o \in Operators, ReplayAdd(o)
      PROVE  StreamGrows
  <2>1. PICK e \in picked[o] : XAdd(e.ref)
    BY <1>7 DEF ReplayAdd
  <2>2. e \in DeadEntry
    BY DEF LocalsTypeOK, Client
  <2>3. e.ref \in Ref \cup {NoRef}
    BY <2>2 DEF DeadEntry
  <2>4. QED
    BY <2>1, <2>3, XAddGrows
<1>8. CASE TimePasses
  BY <1>8, GrowsIdleGrows DEF TimePasses
<1>9. CASE \E q \in Enqueuers : Report(q) \/ EnqueuerStep(q)
  BY <1>1, <1>2, <1>9 DEF EnqueuerStep, Report, EnqueuePlace
<1>10. CASE \E w \in Workers : Reserve(w) \/ ScanStep(w)
  <2>1. PICK w \in Workers : Reserve(w) \/ ScanStep(w)
    BY <1>10
  <2>2. CASE Ack(w)
    BY <1>4, <2>2 DEF Ack, Holding, Client
  <2>3. QED
    BY <1>1, <1>3, <2>1, <2>2
       DEF ScanStep, PutReferrer, Attest, TransientFailure, PermanentFailure, Confirm
<1>11. CASE \E p \in Reapers : ReaperStart(p) \/ ReapStep(p)
  BY <1>1, <1>5, <1>11 DEF ReapStep, ReaperStart, Check
<1>12. CASE \E c \in Trimmer : SettleStep(c)
  <2>1. PICK c \in Trimmer : SettleStep(c)
    BY <1>12
  <2>2. CASE BuryAck(c)
    BY <1>4, <2>2 DEF BuryAck, Holding, Client, Trimmer
  <2>3. QED
    BY <1>1, <1>6, <2>1, <2>2 DEF SettleStep, Bury, TrimPending, TrimGroups, TrimStream
<1>13. CASE \E o \in Operators : SelectDead(o) \/ OperatorStep(o)
  BY <1>1, <1>7, <1>13 DEF OperatorStep, SelectDead, DeleteDead
<1>14. CASE \E c \in Client : Crash(c)
  BY <1>1, <1>14 DEF Crash
<1>15. CASE UNCHANGED vars
  BY <1>1, <1>15 DEF vars
<1>16. QED
  BY <1>8, <1>9, <1>10, <1>11, <1>12, <1>13, <1>14, <1>15 DEF Next

\* A step that touches neither the sets nor the clients.
LEMMA UnchangedTypes ==
  ASSUME TypeInv, StreamGrows, UNCHANGED <<setVars, imageVars, localVars, auxVars>>
  PROVE  ClientsOK'
<1> USE DEF TypeInv, ClientsOK
<1>1. SetsTypeOK' /\ ImagesTypeOK' /\ LocalsTypeOK' /\ AuxTypeOK'
  BY DEF SetsTypeOK, ImagesTypeOK, LocalsTypeOK, AuxTypeOK, setVars, imageVars, localVars, auxVars
<1>2. last \in Nat /\ last' \in Nat /\ top \in Nat /\ top' \in Nat /\ last <= last' /\ top <= top'
  BY StreamAssumption DEF StreamGrows, StreamInv, StreamTypeOK, Id0
<1>3. 1 .. last \subseteq 1 .. last' /\ 1 .. top \subseteq 1 .. top'
  BY <1>2
<1>4. UNCHANGED <<pc, tok, batch>>
  BY DEF localVars
<1>5. HandsOK'
  BY <1>3, <1>4 DEF HandsOK
<1>6. QED
  BY <1>1, <1>5

LEMMA StepTypes ==
  ASSUME TypeInv, [Next]_vars
  PROVE  TypeInv'
<1>1. StreamGrows
  BY StepGrows
<1> SUFFICES ClientsOK'
  BY <1>1 DEF TypeInv, StreamGrows
<1>2. CASE \E q \in Enqueuers : Report(q) \/ EnqueuerStep(q)
  BY <1>1, <1>2, ReportTypes, EnqueueAddTypes, EnqueuePlaceTypes DEF EnqueuerStep
<1>3. CASE \E w \in Workers : Reserve(w) \/ ScanStep(w)
  BY <1>1, <1>3, ReserveTypes, PutReferrerTypes, AttestTypes, TransientFailureTypes,
     PermanentFailureTypes, ConfirmTypes, AckTypes DEF ScanStep
<1>4. CASE \E p \in Reapers : ReaperStart(p) \/ ReapStep(p)
  BY <1>1, <1>4, ReaperStartTypes, ClaimTypes, CheckTypes DEF ReapStep
<1>5. CASE \E c \in Trimmer : SettleStep(c)
  BY <1>1, <1>5, BuryTypes, BuryAckTypes, TrimPendingTypes, TrimGroupsTypes, TrimStreamTypes,
     TrimTypes DEF SettleStep
<1>6. CASE \E o \in Operators : SelectDead(o) \/ OperatorStep(o)
  BY <1>1, <1>6, SelectDeadTypes, ReplayAddTypes, DeleteDeadTypes DEF OperatorStep
<1>7. CASE \E c \in Client : Crash(c)
  BY <1>1, <1>7, CrashTypes
<1>8. CASE TimePasses \/ UNCHANGED vars
  BY <1>1, <1>8, UnchangedTypes DEF TimePasses, vars
<1>9. QED
  BY <1>2, <1>3, <1>4, <1>5, <1>6, <1>7, <1>8 DEF Next

LEMMA TypeInvAlways == Spec => []TypeInv
  BY TypeInvInit, StepTypes, PTL DEF Spec

(***************************************************************************)
(* For every set of clients and every bound, each variable of the broker,  *)
(* the registry and the clients stays in its range (TypeOK).  It needs     *)
(* TypeInv: the ids a client holds are ids the stream has delivered.       *)
(***************************************************************************)
THEOREM TypeCorrect == Spec => []TypeOK
<1>1. TypeInv => TypeOK
  BY DEF TypeInv, ClientsOK, TypeOK, StreamInv
<1>2. QED
  BY <1>1, TypeInvAlways, PTL

-----------------------------------------------------------------------------
\* Client c moves to one of the labels, and the others stay where they are.
Moves(c, labels) ==
    /\ c \in Client /\ pc'[c] \in labels
    /\ \A d \in Client \ {c} :
          /\ pc'[d] = pc[d] /\ tok'[d] = tok[d] /\ floor'[d] = floor[d] /\ seen'[d] = seen[d]
          /\ picked'[d] = picked[d]

LEMMA EnqueuerMoves ==
  ASSUME TypeInv, NEW q \in Enqueuers
  PROVE  /\ Report(q) => Moves(q, {"xadd"})
         /\ EnqueueAdd(q) => Moves(q, {"sadd"})
         /\ EnqueuePlace(q) => Moves(q, {"idle", "xadd"})
<1>1. q \in Client
  BY DEF Client, Trimmer
<1>2. /\ pc \in [Client -> Pc] /\ tok \in [Client -> Id0] /\ floor \in [Client -> Id0]
      /\ seen \in [Client -> Id0] /\ picked \in [Client -> SUBSET DeadEntry]
  BY DEF TypeInv, ClientsOK, LocalsTypeOK
<1>3. Report(q) => Moves(q, {"xadd"})
  BY <1>1, <1>2 DEF Report, Goto, Moves
<1>4. EnqueueAdd(q) => Moves(q, {"sadd"})
  BY <1>1, <1>2 DEF EnqueueAdd, Goto, Moves
<1>5. EnqueuePlace(q) => Moves(q, {"idle", "xadd"})
  BY <1>1, <1>2 DEF EnqueuePlace, Goto, Moves
<1>6. QED
  BY <1>3, <1>4, <1>5

LEMMA WorkerMoves ==
  ASSUME TypeInv, NEW w \in Workers
  PROVE  /\ Reserve(w) => Moves(w, {"reserved"})
         /\ PutReferrer(w) => Moves(w, {"referred"})
         /\ Attest(w) => Moves(w, {"confirm"})
         /\ TransientFailure(w) => Moves(w, {"idle"})
         /\ PermanentFailure(w) => Moves(w, {"bury"})
         /\ Confirm(w) => Moves(w, {"ack"})
         /\ Ack(w) => Moves(w, {"xpending"})
<1>1. w \in Client
  BY DEF Client, Trimmer
<1>2. /\ pc \in [Client -> Pc] /\ tok \in [Client -> Id0] /\ floor \in [Client -> Id0]
      /\ seen \in [Client -> Id0] /\ picked \in [Client -> SUBSET DeadEntry]
  BY DEF TypeInv, ClientsOK, LocalsTypeOK
<1>3. Reserve(w) => Moves(w, {"reserved"})
  BY <1>1, <1>2 DEF Reserve, Goto, Moves
<1>4. PutReferrer(w) => Moves(w, {"referred"})
  BY <1>1, <1>2 DEF PutReferrer, Goto, Moves
<1>5. Attest(w) => Moves(w, {"confirm"})
  BY <1>1, <1>2 DEF Attest, Goto, Moves
<1>6. TransientFailure(w) => Moves(w, {"idle"})
  BY <1>1, <1>2 DEF TransientFailure, Goto, Moves, Exit
<1>7. PermanentFailure(w) => Moves(w, {"bury"})
  BY <1>1, <1>2 DEF PermanentFailure, Goto, Moves
<1>8. Confirm(w) => Moves(w, {"ack"})
  BY <1>1, <1>2 DEF Confirm, Goto, Moves
<1>9. Ack(w) => Moves(w, {"xpending"})
  BY <1>1, <1>2 DEF Ack, Goto, Moves
<1>10. QED
  BY <1>3, <1>4, <1>5, <1>6, <1>7, <1>8, <1>9

LEMMA ReaperMoves ==
  ASSUME TypeInv, NEW p \in Reapers
  PROVE  /\ ReaperStart(p) => Moves(p, {"claim"})
         /\ Claim(p) => Moves(p, {"check", "claim", "xpending"})
         /\ Check(p) => Moves(p, {"bury", "check", "claim", "xpending"})
<1>1. p \in Client
  BY DEF Client, Trimmer
<1>2. /\ pc \in [Client -> Pc] /\ tok \in [Client -> Id0] /\ floor \in [Client -> Id0]
      /\ seen \in [Client -> Id0] /\ picked \in [Client -> SUBSET DeadEntry]
  BY DEF TypeInv, ClientsOK, LocalsTypeOK
<1>3. ReaperStart(p) => Moves(p, {"claim"})
  BY <1>1, <1>2 DEF ReaperStart, Goto, Moves
<1>4. Claim(p) => Moves(p, {"check", "claim", "xpending"})
  BY <1>1, <1>2 DEF Claim, Goto, Moves, ReaperNext
<1>5. Check(p) => Moves(p, {"bury", "check", "claim", "xpending"})
  BY <1>1, <1>2 DEF Check, Goto, Moves, ReaperNext
<1>6. QED
  BY <1>3, <1>4, <1>5

LEMMA TrimmerMoves ==
  ASSUME TypeInv, NEW c \in Trimmer
  PROVE  /\ Bury(c) => Moves(c, {"buryAck"})
         /\ BuryAck(c) => Moves(c, {"check", "claim", "xpending"})
         /\ TrimPending(c) => Moves(c, {"trimPending", "xgroups"})
         /\ TrimGroups(c) => Moves(c, {"idle", "xstream"})
         /\ TrimStream(c) => Moves(c, {"trimAll", "trimBelow"})
         /\ Trim(c) => Moves(c, {"idle"})
<1>1. c \in Client
  BY DEF Client, Trimmer
<1>2. /\ pc \in [Client -> Pc] /\ tok \in [Client -> Id0] /\ floor \in [Client -> Id0]
      /\ seen \in [Client -> Id0] /\ picked \in [Client -> SUBSET DeadEntry]
  BY DEF TypeInv, ClientsOK, LocalsTypeOK
<1>3. Bury(c) => Moves(c, {"buryAck"})
  BY <1>1, <1>2 DEF Bury, Goto, Moves
<1>4. BuryAck(c) => Moves(c, {"check", "claim", "xpending"})
  BY <1>1, <1>2 DEF BuryAck, Goto, Moves, ReaperNext
<1>5. TrimPending(c) => Moves(c, {"trimPending", "xgroups"})
  BY <1>1, <1>2 DEF TrimPending, Goto, Moves
<1>6. TrimGroups(c) => Moves(c, {"idle", "xstream"})
  BY <1>1, <1>2 DEF TrimGroups, Goto, Moves
<1>7. TrimStream(c) => Moves(c, {"trimAll", "trimBelow"})
  BY <1>1, <1>2 DEF TrimStream, Goto, Moves
<1>8. Trim(c) => Moves(c, {"idle"})
  BY <1>1, <1>2 DEF Trim, Goto, Moves, Exit
<1>9. QED
  BY <1>3, <1>4, <1>5, <1>6, <1>7, <1>8

LEMMA OperatorMoves ==
  ASSUME TypeInv, NEW o \in Operators
  PROVE  /\ SelectDead(o) => Moves(o, {"replayAdd", "dropDel"})
         /\ ReplayAdd(o) => Moves(o, {"replayDel"})
         /\ DeleteDead(o) => Moves(o, {"idle", "replayAdd", "dropDel"})
<1>1. o \in Client
  BY DEF Client, Trimmer
<1>2. /\ pc \in [Client -> Pc] /\ tok \in [Client -> Id0] /\ floor \in [Client -> Id0]
      /\ seen \in [Client -> Id0] /\ picked \in [Client -> SUBSET DeadEntry]
  BY DEF TypeInv, ClientsOK, LocalsTypeOK
<1>3. SelectDead(o) => Moves(o, {"replayAdd", "dropDel"})
  BY <1>1, <1>2 DEF SelectDead, Goto, Moves
<1>4. ReplayAdd(o) => Moves(o, {"replayDel"})
  BY <1>1, <1>2 DEF ReplayAdd, Goto, Moves
<1>5. DeleteDead(o) => Moves(o, {"idle", "replayAdd", "dropDel"})
  BY <1>1, <1>2 DEF DeleteDead, Goto, Moves
<1>6. QED
  BY <1>3, <1>4, <1>5

LEMMA CrashMoves ==
  ASSUME TypeInv, NEW c \in Client, Crash(c)
  PROVE  Moves(c, {"idle"})
<1>1. /\ pc \in [Client -> Pc] /\ tok \in [Client -> Id0] /\ floor \in [Client -> Id0]
      /\ seen \in [Client -> Id0] /\ picked \in [Client -> SUBSET DeadEntry]
  BY DEF TypeInv, ClientsOK, LocalsTypeOK
<1>2. QED
  BY <1>1 DEF Crash, Exit, Goto, Moves

\* The labels at which a client holds what another invariant is about.
Marked == {"ack", "buryAck", "referred", "confirm", "trimPending", "xgroups", "xstream", "trimAll", "trimBelow",
           "replayDel"}
Plain == Pc \ Marked

Stays == UNCHANGED <<pc, tok, floor, seen, picked>>

LEMMA MovesPlain ==
  ASSUME NEW c, NEW labels \in SUBSET Plain, Moves(c, labels)
  PROVE  Moves(c, Plain)
  BY DEF Moves

LEMMA PlainLabels ==
  /\ \A S \in SUBSET {"idle", "xadd", "sadd", "reserved", "bury", "claim", "check", "xpending", "replayAdd", "dropDel"} :
        S \in SUBSET Plain
  BY DEF Plain, Marked, Pc, WorkerPc, ReaperPc, BuryPc, TrimPc, EnqueuerPc, OperatorPc

\* A step that no client takes to a marked label, or one of those that do.
LEMMA StepMoves ==
  ASSUME TypeInv, [Next]_vars
  PROVE  \/ Stays
         \/ \E c \in Client : Moves(c, Plain)
         \/ \E w \in Workers : PutReferrer(w) \/ Attest(w) \/ Confirm(w)
         \/ \E c \in Trimmer : Bury(c) \/ TrimPending(c) \/ TrimGroups(c) \/ TrimStream(c)
         \/ \E o \in Operators : ReplayAdd(o) \/ DeleteDead(o) \/ SelectDead(o)
<1> DEFINE Goes == \E c \in Client : Moves(c, Plain)
<1>1. ASSUME NEW c, NEW labels \in SUBSET {"idle", "xadd", "sadd", "reserved", "bury", "claim", "check", "xpending", "replayAdd", "dropDel"},
             Moves(c, labels)
      PROVE  Goes
  <2>1. c \in Client
    BY <1>1 DEF Moves
  <2>2. QED
    BY <1>1, <2>1, MovesPlain, PlainLabels
<1> HIDE DEF Goes
<1>2. ASSUME NEW q \in Enqueuers, Report(q) \/ EnqueuerStep(q)
      PROVE  Goes
  BY <1>1, <1>2, EnqueuerMoves DEF EnqueuerStep
<1>3. ASSUME NEW w \in Workers, Reserve(w) \/ TransientFailure(w) \/ PermanentFailure(w) \/ Ack(w)
      PROVE  Goes
  BY <1>1, <1>3, WorkerMoves
<1>4. ASSUME NEW p \in Reapers, ReaperStart(p) \/ ReapStep(p)
      PROVE  Goes
  BY <1>1, <1>4, ReaperMoves DEF ReapStep
<1>5. ASSUME NEW c \in Trimmer, BuryAck(c) \/ Trim(c)
      PROVE  Goes
  BY <1>1, <1>5, TrimmerMoves
<1>6. ASSUME NEW c \in Client, Crash(c)
      PROVE  Goes
  BY <1>1, <1>6, CrashMoves
<1>7. CASE TimePasses \/ UNCHANGED vars
  BY <1>7 DEF TimePasses, vars, localVars, Stays
<1>8. QED
  BY <1>2, <1>3, <1>4, <1>5, <1>6, <1>7 DEF Next, ScanStep, SettleStep, OperatorStep, Goes

-----------------------------------------------------------------------------
\* XACK is last: who is about to acknowledge has put the outcome on record.
OutcomeFirst ==
    \A c \in Client :
        /\ pc[c] = "ack" => ref[tok[c]] \in confirmed
        /\ pc[c] = "buryAck" => tok[c] \in buried

\* Outcomes are only ever added.
OutcomesGrow == confirmed \subseteq confirmed' /\ buried \subseteq buried' /\ lost \subseteq lost'

LEMMA StepOutcomesGrow ==
  ASSUME [Next]_vars
  PROVE  OutcomesGrow
<1> USE DEF OutcomesGrow, setVars, auxVars
<1>1. ASSUME NEW q \in Enqueuers, Report(q) \/ EnqueuerStep(q)
      PROVE  OutcomesGrow
  BY <1>1 DEF EnqueuerStep, Report, EnqueueAdd, EnqueuePlace
<1>2. ASSUME NEW w \in Workers, Reserve(w) \/ ScanStep(w)
      PROVE  OutcomesGrow
  BY <1>2 DEF ScanStep, Reserve, PutReferrer, Attest, TransientFailure, PermanentFailure, Confirm, Ack
<1>3. ASSUME NEW p \in Reapers, ReaperStart(p) \/ ReapStep(p)
      PROVE  OutcomesGrow
  BY <1>3 DEF ReapStep, ReaperStart, Claim, Check
<1>4. ASSUME NEW c \in Trimmer, SettleStep(c)
      PROVE  OutcomesGrow
  BY <1>4 DEF SettleStep, Bury, BuryAck, TrimPending, TrimGroups, TrimStream, Trim
<1>5. ASSUME NEW o \in Operators, SelectDead(o) \/ OperatorStep(o)
      PROVE  OutcomesGrow
  BY <1>5 DEF OperatorStep, SelectDead, ReplayAdd, DeleteDead
<1>6. ASSUME NEW c \in Client, Crash(c)
      PROVE  OutcomesGrow
  BY <1>6 DEF Crash
<1>7. CASE TimePasses \/ UNCHANGED vars
  BY <1>7 DEF TimePasses, vars
<1>8. QED
  BY <1>1, <1>2, <1>3, <1>4, <1>5, <1>6, <1>7 DEF Next

\* A step of client c alone keeps OutcomeFirst if it is right for c.
LEMMA OutcomeFirstKept ==
  ASSUME TypeInv, StreamGrows, OutcomesGrow, OutcomeFirst, NEW c, NEW labels, Moves(c, labels),
         pc'[c] = "ack" => ref'[tok'[c]] \in confirmed',
         pc'[c] = "buryAck" => tok'[c] \in buried'
  PROVE  OutcomeFirst'
<1> SUFFICES ASSUME NEW d \in Client
             PROVE  /\ pc'[d] = "ack" => ref'[tok'[d]] \in confirmed'
                    /\ pc'[d] = "buryAck" => tok'[d] \in buried'
  BY DEF OutcomeFirst
<1>1. CASE d # c
  <2>1. pc'[d] = pc[d] /\ tok'[d] = tok[d]
    BY <1>1 DEF Moves
  <2>2. pc[d] = "ack" => tok[d] \in 1 .. top
    BY StreamAssumption DEF TypeInv, ClientsOK, HandsOK, Holding, StreamInv, StreamTypeOK, Id0
  <2>3. QED
    BY <2>1, <2>2 DEF OutcomeFirst, OutcomesGrow, StreamGrows
<1>2. QED
  BY <1>1

LEMMA StepOutcomeFirst ==
  ASSUME TypeInv, OutcomeFirst, [Next]_vars
  PROVE  OutcomeFirst'
<1>1. StreamGrows /\ OutcomesGrow
  BY StepGrows, StepOutcomesGrow
<1>2. CASE Stays
  BY <1>1, <1>2 DEF Stays, OutcomeFirst, OutcomesGrow, StreamGrows, TypeInv, ClientsOK, HandsOK, Holding, StreamInv, StreamTypeOK, Id0
<1>3. ASSUME NEW c, NEW labels, Moves(c, labels), labels \cap {"ack", "buryAck"} = {}
      PROVE  OutcomeFirst'
  <2>1. pc'[c] \notin {"ack", "buryAck"}
    BY <1>3 DEF Moves
  <2>2. QED
    BY <1>1, <1>3, <2>1, OutcomeFirstKept
<1>4. ASSUME NEW c \in Client, Moves(c, Plain)
      PROVE  OutcomeFirst'
  BY <1>3, <1>4 DEF Plain, Marked
<1>5. ASSUME NEW w \in Workers, PutReferrer(w) \/ Attest(w)
      PROVE  OutcomeFirst'
  BY <1>3, <1>5, WorkerMoves
<1>6. ASSUME NEW w \in Workers, Confirm(w)
      PROVE  OutcomeFirst'
  <2>1. Moves(w, {"ack"}) /\ pc'[w] = "ack"
    BY <1>6, WorkerMoves DEF Moves
  <2>2. ref'[tok'[w]] \in confirmed'
    BY <1>6 DEF Confirm, streamVars
  <2>3. QED
    BY <1>1, <2>1, <2>2, OutcomeFirstKept
<1>7. ASSUME NEW c \in Trimmer, Bury(c)
      PROVE  OutcomeFirst'
  <2>1. Moves(c, {"buryAck"}) /\ pc'[c] = "buryAck"
    BY <1>7, TrimmerMoves DEF Moves
  <2>2. tok'[c] \in buried'
    BY <1>7 DEF Bury
  <2>3. QED
    BY <1>1, <2>1, <2>2, OutcomeFirstKept
<1>8. ASSUME NEW c \in Trimmer, TrimPending(c) \/ TrimGroups(c) \/ TrimStream(c)
      PROVE  OutcomeFirst'
  BY <1>3, <1>8, TrimmerMoves
<1>9. ASSUME NEW o \in Operators, ReplayAdd(o) \/ DeleteDead(o) \/ SelectDead(o)
      PROVE  OutcomeFirst'
  BY <1>3, <1>9, OperatorMoves
<1>10. QED
  BY <1>2, <1>4, <1>5, <1>6, <1>7, <1>8, <1>9, StepMoves

\* What is on record of an issued entry stays on record.
LEMMA OutcomeStays ==
  ASSUME StreamGrows, OutcomesGrow, NEW i \in 1 .. top, HasOutcome(i) \/ i \in lost
  PROVE  HasOutcome(i)' \/ i \in lost'
  BY DEF StreamGrows, OutcomesGrow, HasOutcome

\* Accounted is kept if the entries that leave the unread and the pending ones are
\* on record, and if an entry issued now is unread.
LEMMA AccountedKept ==
  ASSUME TypeInv, StreamGrows, OutcomesGrow, Accounted,
         \A i \in 1 .. top : (i \in Unread \/ i \in pel) =>
             i \in Unread' \/ i \in pel' \/ HasOutcome(i) \/ i \in lost',
         \A i \in 1 .. top' : i \in 1 .. top \/ i \in Unread'
  PROVE  Accounted'
<1> SUFFICES ASSUME NEW i \in 1 .. top
             PROVE  i \in Unread' \/ i \in pel' \/ HasOutcome(i)' \/ i \in lost'
  BY DEF Accounted
<1>1. CASE HasOutcome(i) \/ i \in lost
  BY <1>1, OutcomeStays
<1>2. CASE ~HasOutcome(i) /\ i \notin lost
  BY <1>2, OutcomeStays DEF Accounted
<1>3. QED
  BY <1>1, <1>2

LEMMA StepAccounted ==
  ASSUME TypeInv, OutcomeFirst, Accounted, [Next]_vars
  PROVE  Accounted'
<1>1. StreamGrows /\ OutcomesGrow
  BY StepGrows, StepOutcomesGrow
<1>2. last \in Nat /\ top \in Nat /\ last <= top /\ entries \subseteq 1 .. top
  BY StreamAssumption DEF TypeInv, StreamInv, StreamTypeOK, Id0
<1>3. ASSUME UNCHANGED <<entries, top, last, pel>>
      PROVE  Accounted'
  <2>1. Unread' = Unread
    BY <1>3 DEF Unread
  <2>2. QED
    BY <1>1, <1>3, <2>1, AccountedKept
<1>4. ASSUME NEW r, XAdd(r)
      PROVE  Accounted'
  <2>1. /\ top' = top + 1 /\ entries' = entries \cup {top + 1}
        /\ UNCHANGED <<last, pel>>
    BY <1>4 DEF XAdd
  <2>2. Unread \subseteq Unread' /\ top + 1 \in Unread'
    BY <1>2, <2>1 DEF Unread
  <2>3. \A i \in 1 .. top' : i \in 1 .. top \/ i \in Unread'
    BY <1>2, <2>1, <2>2
  <2>4. QED
    BY <1>1, <2>1, <2>2, <2>3, AccountedKept
<1>5. ASSUME NEW w \in Workers, Reserve(w)
      PROVE  Accounted'
  <2>1. PICK i \in Unread : XReadGroup(i)
    BY <1>5 DEF Reserve
  <2>2. Oldest(i, Unread) /\ last' = i /\ pel' = pel \cup {i} /\ UNCHANGED <<entries, top>>
    BY <2>1 DEF XReadGroup
  <2>3. \A j \in Unread : j = i \/ j \in Unread'
    BY <1>2, <2>2 DEF Oldest, Unread
  <2>4. QED
    BY <1>1, <2>2, <2>3, AccountedKept
<1>6. ASSUME NEW i, XAck(i), HasOutcome(i)
      PROVE  Accounted'
  <2>1. pel' = pel \ {i} /\ Unread' = Unread /\ top' = top
    BY <1>6 DEF XAck, Unread
  <2>2. QED
    BY <1>1, <1>6, <2>1, AccountedKept
<1>7. ASSUME NEW p \in Reapers, Claim(p)
      PROVE  Accounted'
  <2>1. /\ pel' = pel \ (Scanned(p) \ entries)
        /\ Unread' = Unread /\ top' = top
        /\ lost' = lost \cup {i \in Scanned(p) \ entries : ~HasOutcome(i)}
    BY <1>7 DEF Claim, ClaimPage, XAutoClaim, Unread
  <2>2. QED
    BY <1>1, <2>1, AccountedKept
<1>8. ASSUME NEW c \in Trimmer, Trim(c)
      PROVE  Accounted'
  <2>1. /\ entries' = entries \cap Kept(c)
        /\ UNCHANGED <<top, last, pel>>
        /\ lost' = lost \cup {i \in Unread \ Kept(c) : ~HasOutcome(i)}
    BY <1>8 DEF Trim, XTrim
  <2>2. \A i \in Unread : i \in Unread' \/ i \notin Kept(c)
    BY <2>1 DEF Unread
  <2>3. QED
    BY <1>1, <2>1, <2>2, AccountedKept
<1>9. ASSUME NEW q \in Enqueuers, Report(q) \/ EnqueuerStep(q)
      PROVE  Accounted'
  BY <1>3, <1>4, <1>9 DEF EnqueuerStep, Report, EnqueueAdd, EnqueuePlace, streamVars
<1>10. ASSUME NEW w \in Workers, Reserve(w) \/ ScanStep(w)
       PROVE  Accounted'
  <2>1. CASE Ack(w)
    BY <1>6, <2>1 DEF Ack, OutcomeFirst, HasOutcome, Client
  <2>2. QED
    BY <1>3, <1>5, <1>10, <2>1
       DEF ScanStep, PutReferrer, Attest, TransientFailure, PermanentFailure, Confirm, streamVars
<1>11. ASSUME NEW p \in Reapers, ReaperStart(p) \/ ReapStep(p)
       PROVE  Accounted'
  BY <1>3, <1>7, <1>11 DEF ReapStep, ReaperStart, Check, streamVars
<1>12. ASSUME NEW c \in Trimmer, SettleStep(c)
       PROVE  Accounted'
  <2>1. CASE BuryAck(c)
    BY <1>6, <2>1 DEF BuryAck, OutcomeFirst, HasOutcome, Client, Trimmer
  <2>2. QED
    BY <1>3, <1>8, <1>12, <2>1 DEF SettleStep, Bury, TrimPending, TrimGroups, TrimStream, streamVars
<1>13. ASSUME NEW o \in Operators, SelectDead(o) \/ OperatorStep(o)
       PROVE  Accounted'
  BY <1>3, <1>4, <1>13 DEF OperatorStep, SelectDead, ReplayAdd, DeleteDead, streamVars
<1>14. ASSUME NEW c \in Client, Crash(c)
       PROVE  Accounted'
  BY <1>3, <1>14 DEF Crash, streamVars
<1>15. CASE TimePasses \/ UNCHANGED vars
  BY <1>3, <1>15 DEF TimePasses, GrowsIdle, vars, streamVars
<1>16. QED
  BY <1>9, <1>10, <1>11, <1>12, <1>13, <1>14, <1>15 DEF Next

(***************************************************************************)
(* The XACK-is-last rule holds for every number of workers, reapers,       *)
(* enqueuers and operators and with crashes anywhere: no issued entry is   *)
(* ever without an unread or pending state, an outcome on record, or an    *)
(* eviction by a trim (Accounted).  Inductive with OutcomeFirst: whoever   *)
(* is about to XACK has already recorded the outcome.                      *)
(***************************************************************************)
THEOREM AccountedAlways == Spec => []Accounted
<1> DEFINE IInv == TypeInv /\ OutcomeFirst /\ Accounted
<1>1. Init => IInv
  <2>1. Init => OutcomeFirst
    BY DEF Init, OutcomeFirst
  <2>2. Init => Accounted
    BY DEF Init, StreamInit, Accounted
  <2>3. QED
    BY <2>1, <2>2, TypeInvInit
<1>2. IInv /\ [Next]_vars => IInv'
  BY StepTypes, StepOutcomeFirst, StepAccounted
<1>3. IInv => Accounted
  OBVIOUS
<1>4. QED
  BY <1>1, <1>2, <1>3, PTL DEF Spec

-----------------------------------------------------------------------------
\* What a trim has read bounds what is pending: ids are delivered in increasing
\* order, so whatever becomes pending later is above all that was pending before.
AfterEmpty == {"xgroups", "xstream", "trimBelow", "trimAll"}

TrimReads ==
    \A c \in Client :
        /\ pc[c] = "trimPending" => floor[c] <= last /\ \A i \in pel : floor[c] <= i
        /\ pc[c] \in AfterEmpty => seen[c] <= last /\ \A i \in pel : seen[c] < i

\* What becomes pending was not delivered before, and a deliverer moves past the rest.
DeliversForward == last <= last' /\ \A i \in pel' : i \in pel \/ i > last

LEMMA StepDeliversForward ==
  ASSUME TypeInv, [Next]_vars
  PROVE  DeliversForward
<1>1. StreamGrows /\ last \in Nat /\ last' \in Nat
  BY StepGrows DEF TypeInv, StreamGrows, StreamInv, StreamTypeOK, Id0
<1>2. ASSUME pel' \subseteq pel
      PROVE  DeliversForward
  BY <1>1, <1>2 DEF DeliversForward, StreamGrows
<1>3. ASSUME NEW w \in Workers, Reserve(w)
      PROVE  DeliversForward
  <2>1. PICK i \in Unread : XReadGroup(i)
    BY <1>3 DEF Reserve
  <2>2. QED
    BY <1>1, <2>1 DEF DeliversForward, StreamGrows, XReadGroup, Unread
<1>4. ASSUME NEW q \in Enqueuers, Report(q) \/ EnqueuerStep(q)
      PROVE  DeliversForward
  BY <1>2, <1>4 DEF EnqueuerStep, Report, EnqueueAdd, EnqueuePlace, XAdd, streamVars
<1>5. ASSUME NEW w \in Workers, ScanStep(w)
      PROVE  DeliversForward
  BY <1>2, <1>5
     DEF ScanStep, PutReferrer, Attest, TransientFailure, PermanentFailure, Confirm, Ack, XAck, streamVars
<1>6. ASSUME NEW p \in Reapers, ReaperStart(p) \/ ReapStep(p)
      PROVE  DeliversForward
  BY <1>2, <1>6 DEF ReapStep, ReaperStart, Claim, ClaimPage, XAutoClaim, Check, streamVars
<1>7. ASSUME NEW c \in Trimmer, SettleStep(c)
      PROVE  DeliversForward
  BY <1>2, <1>7
     DEF SettleStep, Bury, BuryAck, XAck, TrimPending, TrimGroups, TrimStream, Trim, XTrim, streamVars
<1>8. ASSUME NEW o \in Operators, SelectDead(o) \/ OperatorStep(o)
      PROVE  DeliversForward
  BY <1>2, <1>8 DEF OperatorStep, SelectDead, ReplayAdd, XAdd, DeleteDead, streamVars
<1>9. ASSUME NEW c \in Client, Crash(c)
      PROVE  DeliversForward
  BY <1>2, <1>9 DEF Crash, streamVars
<1>10. CASE TimePasses \/ UNCHANGED vars
  BY <1>2, <1>10 DEF TimePasses, GrowsIdle, vars, streamVars
<1>11. QED
  BY <1>3, <1>4, <1>5, <1>6, <1>7, <1>8, <1>9, <1>10 DEF Next

\* The reads of client d stay bounds while d keeps them and others deliver.
LEMMA ReadsKept ==
  ASSUME TypeInv, StreamGrows, DeliversForward, TrimReads, NEW d \in Client,
         floor'[d] = floor[d], seen'[d] = seen[d],
         pc'[d] = "trimPending" => pc[d] = "trimPending",
         pc'[d] \in AfterEmpty => pc[d] \in AfterEmpty
  PROVE  /\ pc'[d] = "trimPending" => floor'[d] <= last' /\ \A i \in pel' : floor'[d] <= i
         /\ pc'[d] \in AfterEmpty => seen'[d] <= last' /\ \A i \in pel' : seen'[d] < i
<1>1. last \in Nat /\ last' \in Nat /\ floor[d] \in Nat /\ seen[d] \in Nat
  BY StreamAssumption DEF TypeInv, ClientsOK, LocalsTypeOK, StreamGrows, StreamInv, StreamTypeOK, Id0
<1>2. pel' \subseteq Nat
  BY DEF StreamGrows, StreamInv, StreamTypeOK, Id
<1>3. ASSUME pc'[d] = "trimPending"
      PROVE  floor'[d] <= last' /\ \A i \in pel' : floor'[d] <= i
  <2>1. floor[d] <= last /\ \A i \in pel : floor[d] <= i
    BY <1>3 DEF TrimReads
  <2>2. ASSUME NEW i \in pel' PROVE floor[d] <= i
    <3>1. i \in Nat /\ (i \in pel \/ i > last)
      BY <1>2 DEF DeliversForward
    <3>2. QED
      BY <1>1, <2>1, <3>1
  <2>3. QED
    BY <1>1, <2>1, <2>2 DEF DeliversForward
<1>4. ASSUME pc'[d] \in AfterEmpty
      PROVE  seen'[d] <= last' /\ \A i \in pel' : seen'[d] < i
  <2>1. seen[d] <= last /\ \A i \in pel : seen[d] < i
    BY <1>4 DEF TrimReads
  <2>2. ASSUME NEW i \in pel' PROVE seen[d] < i
    <3>1. i \in Nat /\ (i \in pel \/ i > last)
      BY <1>2 DEF DeliversForward
    <3>2. QED
      BY <1>1, <2>1, <3>1
  <2>3. QED
    BY <1>1, <2>1, <2>2 DEF DeliversForward
<1>5. QED
  BY <1>3, <1>4

LEMMA TrimReadsKept ==
  ASSUME TypeInv, StreamGrows, DeliversForward, TrimReads, NEW c, NEW labels, Moves(c, labels),
         pc'[c] = "trimPending" => floor'[c] <= last' /\ \A i \in pel' : floor'[c] <= i,
         pc'[c] \in AfterEmpty => seen'[c] <= last' /\ \A i \in pel' : seen'[c] < i
  PROVE  TrimReads'
<1>1. \A d \in Client \ {c} : pc'[d] = pc[d] /\ floor'[d] = floor[d] /\ seen'[d] = seen[d]
  BY DEF Moves
<1>2. QED
  BY <1>1, ReadsKept DEF TrimReads

LEMMA StepTrimReads ==
  ASSUME TypeInv, TrimReads, [Next]_vars
  PROVE  TrimReads'
<1>1. StreamGrows /\ DeliversForward
  BY StepGrows, StepDeliversForward
<1>2. /\ pc \in [Client -> Pc] /\ floor \in [Client -> Id0] /\ seen \in [Client -> Id0]
      /\ last \in Nat /\ pel \subseteq 1 .. last
  BY DEF TypeInv, ClientsOK, LocalsTypeOK, StreamInv, StreamTypeOK, Id0
<1>3. CASE Stays
  BY <1>1, <1>3, ReadsKept DEF Stays, TrimReads
<1>4. ASSUME NEW c, NEW labels, Moves(c, labels), labels \cap ({"trimPending"} \cup AfterEmpty) = {}
      PROVE  TrimReads'
  <2>1. pc'[c] # "trimPending" /\ pc'[c] \notin AfterEmpty
    BY <1>4 DEF Moves
  <2>2. QED
    BY <1>1, <1>4, <2>1, TrimReadsKept
<1>5. ASSUME NEW c \in Client, Moves(c, Plain)
      PROVE  TrimReads'
  BY <1>4, <1>5 DEF Plain, Marked, AfterEmpty
<1>6. ASSUME NEW w \in Workers, PutReferrer(w) \/ Attest(w) \/ Confirm(w)
      PROVE  TrimReads'
  BY <1>4, <1>6, WorkerMoves DEF AfterEmpty
<1>7. ASSUME NEW o \in Operators, ReplayAdd(o) \/ DeleteDead(o) \/ SelectDead(o)
      PROVE  TrimReads'
  BY <1>4, <1>7, OperatorMoves DEF AfterEmpty
<1>8. ASSUME NEW c \in Trimmer, Bury(c)
      PROVE  TrimReads'
  BY <1>4, <1>8, TrimmerMoves DEF AfterEmpty
<1>9. ASSUME NEW c \in Trimmer, TrimPending(c)
      PROVE  TrimReads'
  <2>1. Moves(c, {"trimPending", "xgroups"}) /\ c \in Client
    BY <1>9, TrimmerMoves DEF Moves
  <2>2. UNCHANGED <<last, pel>> /\ seen'[c] = last /\ pc'[c] \in {"trimPending", "xgroups"}
    BY <1>2, <1>9, <2>1 DEF TrimPending, Goto, streamVars
  <2>3. CASE pel = {}
    BY <1>1, <1>2, <1>9, <2>1, <2>2, <2>3, TrimReadsKept DEF TrimPending, Goto
  <2>4. CASE pel # {}
    <3>1. PICK i \in pel : Oldest(i, pel) /\ floor' = [floor EXCEPT ![c] = i] /\ Goto(c, "trimPending")
      BY <1>9, <2>4 DEF TrimPending
    <3>2. floor'[c] = i /\ pc'[c] = "trimPending"
      BY <1>2, <2>1, <3>1 DEF Goto
    <3>3. i <= last /\ \A j \in pel : i <= j
      BY <1>2, <3>1 DEF Oldest
    <3>4. QED
      BY <1>1, <2>1, <2>2, <3>2, <3>3, TrimReadsKept DEF AfterEmpty
  <2>5. QED
    BY <2>3, <2>4
<1>10. ASSUME NEW c \in Trimmer, TrimGroups(c) \/ TrimStream(c)
      PROVE  TrimReads'
  <2>1. PICK labels \in {{"idle", "xstream"}, {"trimAll", "trimBelow"}} : Moves(c, labels)
    BY <1>10, TrimmerMoves
  <2>2. pc[c] \in AfterEmpty /\ seen' = seen /\ UNCHANGED <<last, pel>> /\ c \in Client
    BY <1>10, <2>1 DEF TrimGroups, TrimStream, AfterEmpty, streamVars, Moves
  <2>3. pc'[c] # "trimPending"
    BY <2>1 DEF Moves
  <2>4. QED
    BY <1>1, <2>1, <2>2, <2>3, TrimReadsKept DEF TrimReads
<1>11. QED
  BY <1>3, <1>5, <1>6, <1>7, <1>8, <1>9, <1>10, StepMoves

LEMMA TrimReadsScope ==
  ASSUME TypeInv, TrimReads
  PROVE  StaleTrimScope
<1> SUFFICES ASSUME NEW c \in Trimmer, NEW i \in Needed \ Kept(c)
             PROVE  /\ pc[c] # "trimPending"
                    /\ pc[c] \in {"trimBelow", "trimAll"} => i > seen[c]
  BY DEF StaleTrimScope
<1>1. c \in Client /\ i \in Id /\ (i > last \/ i \in pel)
  BY DEF Client, Trimmer, Needed, TypeInv, StreamInv, StreamTypeOK
<1>2. last \in Nat /\ floor[c] \in Nat /\ seen[c] \in Nat /\ i \in Nat
  BY <1>1, StreamAssumption DEF TypeInv, ClientsOK, LocalsTypeOK, StreamInv, StreamTypeOK, Id, Id0
<1>3. pc[c] # "trimPending"
  <2> SUFFICES ASSUME pc[c] = "trimPending" PROVE FALSE
    OBVIOUS
  <2>1. floor[c] <= i
    BY <1>1, <1>2 DEF TrimReads
  <2>2. QED
    BY <1>1, <2>1 DEF Kept
<1>4. pc[c] \in AfterEmpty => i > seen[c]
  BY <1>1, <1>2 DEF TrimReads
<1>5. QED
  BY <1>3, <1>4 DEF AfterEmpty

(***************************************************************************)
(* However many trims, workers and reapers race, a trim whose XPENDING     *)
(* showed a pending entry never evicts an unread or pending one, and the   *)
(* others evict only what was not yet delivered when XPENDING was answered *)
(* (StaleTrimScope).  Inductive with TrimReads: the ids a trim has read    *)
(* bound from below everything that is, or becomes, pending.               *)
(***************************************************************************)
THEOREM StaleTrimScopeAlways == Spec => []StaleTrimScope
<1> DEFINE IInv == TypeInv /\ TrimReads
<1>1. Init => IInv
  <2>1. Init => TrimReads
    BY DEF Init, TrimReads, AfterEmpty
  <2>2. QED
    BY <2>1, TypeInvInit
<1>2. IInv /\ [Next]_vars => IInv'
  BY StepTypes, StepTrimReads
<1>3. IInv => StaleTrimScope
  BY TrimReadsScope
<1>4. QED
  BY <1>1, <1>2, <1>3, PTL DEF Spec

-----------------------------------------------------------------------------
\* Who is about to confirm an image has attached its report, and signed it.
AttachedFirst ==
    \A c \in Client :
        /\ pc[c] \in {"referred", "confirm"} => ref[tok[c]] \in referred
        /\ pc[c] = "confirm" /\ Signing => ref[tok[c]] \in signed

\* Reports are only ever attached, and images confirmed by the workers at that label.
LEMMA StepImages ==
  ASSUME [Next]_vars
  PROVE  /\ referred \subseteq referred' /\ signed \subseteq signed'
         /\ confirmed' = confirmed \/ \E w \in Workers : Confirm(w)
<1>1. ASSUME NEW q \in Enqueuers, Report(q) \/ EnqueuerStep(q)
      PROVE  UNCHANGED <<imageVars, confirmed>>
  BY <1>1 DEF EnqueuerStep, Report, EnqueueAdd, EnqueuePlace, setVars
<1>2. ASSUME NEW w \in Workers, Reserve(w) \/ TransientFailure(w) \/ PermanentFailure(w) \/ Ack(w)
      PROVE  UNCHANGED <<imageVars, confirmed>>
  BY <1>2 DEF Reserve, TransientFailure, PermanentFailure, Ack, setVars
<1>3. ASSUME NEW w \in Workers, PutReferrer(w) \/ Attest(w)
      PROVE  referred \subseteq referred' /\ signed \subseteq signed' /\ confirmed' = confirmed
  BY <1>3 DEF PutReferrer, Attest, setVars
<1>4. ASSUME NEW w \in Workers, Confirm(w)
      PROVE  UNCHANGED imageVars
  BY <1>4 DEF Confirm
<1>5. ASSUME NEW p \in Reapers, ReaperStart(p) \/ ReapStep(p)
      PROVE  UNCHANGED <<imageVars, confirmed>>
  BY <1>5 DEF ReapStep, ReaperStart, Claim, Check, setVars
<1>6. ASSUME NEW c \in Trimmer, SettleStep(c)
      PROVE  UNCHANGED <<imageVars, confirmed>>
  BY <1>6 DEF SettleStep, Bury, BuryAck, TrimPending, TrimGroups, TrimStream, Trim, setVars
<1>7. ASSUME NEW o \in Operators, SelectDead(o) \/ OperatorStep(o)
      PROVE  UNCHANGED <<imageVars, confirmed>>
  BY <1>7 DEF OperatorStep, SelectDead, ReplayAdd, DeleteDead, setVars
<1>8. ASSUME NEW c \in Client, Crash(c)
      PROVE  UNCHANGED <<imageVars, confirmed>>
  BY <1>8 DEF Crash, setVars
<1>9. TimePasses \/ UNCHANGED vars => UNCHANGED <<imageVars, confirmed>>
  BY DEF TimePasses, vars, setVars
<1>10. QED
  BY <1>1, <1>2, <1>3, <1>4, <1>5, <1>6, <1>7, <1>8, <1>9 DEF Next, ScanStep, imageVars

\* A step of client c keeps AttachedFirst if it is right for c.
LEMMA AttachedFirstKept ==
  ASSUME TypeInv, StreamGrows, AttachedFirst, referred \subseteq referred', signed \subseteq signed',
         NEW c, NEW labels, Moves(c, labels),
         pc'[c] \in {"referred", "confirm"} => ref'[tok'[c]] \in referred',
         pc'[c] = "confirm" /\ Signing => ref'[tok'[c]] \in signed'
  PROVE  AttachedFirst'
<1> SUFFICES ASSUME NEW d \in Client, d # c
             PROVE  /\ pc'[d] \in {"referred", "confirm"} => ref'[tok'[d]] \in referred'
                    /\ pc'[d] = "confirm" /\ Signing => ref'[tok'[d]] \in signed'
  BY DEF AttachedFirst
<1>1. pc'[d] = pc[d] /\ tok'[d] = tok[d]
  BY DEF Moves
<1>2. pc[d] \in {"referred", "confirm"} => tok[d] \in 1 .. top
  BY StreamAssumption DEF TypeInv, ClientsOK, HandsOK, Holding, StreamInv, StreamTypeOK, Id0
<1>3. QED
  BY <1>1, <1>2 DEF AttachedFirst, StreamGrows

LEMMA StepAttachedFirst ==
  ASSUME TypeInv, AttachedFirst, [Next]_vars
  PROVE  AttachedFirst'
<1>1. StreamGrows /\ referred \subseteq referred' /\ signed \subseteq signed'
  BY StepGrows, StepImages
<1>2. CASE Stays
  BY <1>1, <1>2
     DEF Stays, AttachedFirst, StreamGrows, TypeInv, ClientsOK, HandsOK, Holding, StreamInv, StreamTypeOK, Id0
<1>3. ASSUME NEW c, NEW labels, Moves(c, labels), labels \cap {"referred", "confirm"} = {}
      PROVE  AttachedFirst'
  <2>1. pc'[c] \notin {"referred", "confirm"}
    BY <1>3 DEF Moves
  <2>2. QED
    BY <1>1, <1>3, <2>1, AttachedFirstKept
<1>4. ASSUME NEW c \in Client, Moves(c, Plain)
      PROVE  AttachedFirst'
  BY <1>3, <1>4 DEF Plain, Marked
<1>5. ASSUME NEW w \in Workers, PutReferrer(w)
      PROVE  AttachedFirst'
  <2>1. Moves(w, {"referred"}) /\ pc'[w] = "referred"
    BY <1>5, WorkerMoves DEF Moves
  <2>2. ref'[tok'[w]] \in referred'
    BY <1>5 DEF PutReferrer, streamVars
  <2>3. QED
    BY <1>1, <2>1, <2>2, AttachedFirstKept
<1>6. ASSUME NEW w \in Workers, Attest(w)
      PROVE  AttachedFirst'
  <2>1. Moves(w, {"confirm"}) /\ pc'[w] = "confirm" /\ w \in Client
    BY <1>6, WorkerMoves DEF Moves
  <2>2. ref'[tok'[w]] \in referred' /\ (Signing => ref'[tok'[w]] \in signed')
    BY <1>6, <2>1 DEF Attest, streamVars, AttachedFirst
  <2>3. QED
    BY <1>1, <2>1, <2>2, AttachedFirstKept
<1>7. ASSUME NEW w \in Workers, Confirm(w)
      PROVE  AttachedFirst'
  BY <1>3, <1>7, WorkerMoves
<1>8. ASSUME NEW c \in Trimmer, Bury(c) \/ TrimPending(c) \/ TrimGroups(c) \/ TrimStream(c)
      PROVE  AttachedFirst'
  BY <1>3, <1>8, TrimmerMoves
<1>9. ASSUME NEW o \in Operators, ReplayAdd(o) \/ DeleteDead(o) \/ SelectDead(o)
      PROVE  AttachedFirst'
  BY <1>3, <1>9, OperatorMoves
<1>10. QED
  BY <1>2, <1>4, <1>5, <1>6, <1>7, <1>8, <1>9, StepMoves

(***************************************************************************)
(* A digest enters knock:scan:confirmed only after its report is attached  *)
(* and, when an attestor is configured, signed: for every number of        *)
(* workers, and with crashes anywhere (ConfirmedIsAttached).  Inductive    *)
(* with AttachedFirst, which says it of the workers on their way there.    *)
(***************************************************************************)
THEOREM ConfirmedIsAttachedAlways == Spec => []ConfirmedIsAttached
<1> DEFINE IInv == TypeInv /\ AttachedFirst /\ ConfirmedIsAttached
<1>1. Init => IInv
  <2>1. Init => AttachedFirst /\ ConfirmedIsAttached
    BY DEF Init, AttachedFirst, ConfirmedIsAttached
  <2>2. QED
    BY <2>1, TypeInvInit
<1>2. IInv /\ [Next]_vars => IInv'
  <2> SUFFICES ASSUME IInv, [Next]_vars PROVE ConfirmedIsAttached'
    BY StepTypes, StepAttachedFirst
  <2>1. CASE confirmed' = confirmed
    BY <2>1, StepImages DEF ConfirmedIsAttached
  <2>2. ASSUME NEW w \in Workers, Confirm(w) PROVE ConfirmedIsAttached'
    <3>1. w \in Client /\ pc[w] = "confirm" /\ confirmed' = confirmed \cup {ref[tok[w]]}
      BY <2>2 DEF Confirm, Client, Trimmer
    <3>2. QED
      BY <3>1, StepImages DEF ConfirmedIsAttached, AttachedFirst
  <2>3. QED
    BY <2>1, <2>2, StepImages
<1>3. IInv => ConfirmedIsAttached
  OBVIOUS
<1>4. QED
  BY <1>1, <1>2, <1>3, PTL DEF Spec

-----------------------------------------------------------------------------
\* A dead letter is of an entry that was added, and no two in one place have the same id.
Letters(S) ==
    /\ \A e \in S : e.n <= deadTop /\ e.of <= top
    /\ \A e, f \in S : e.n = f.n => e = f

LettersOK == Letters(dead) /\ \A o \in Client : Letters(picked[o])

\* A younger entry for the image of a dead letter is in the work stream.
Replayed(e) == \E i \in 1 .. top : i > e.of /\ ref[i] = e.ref

\* Who is about to delete after a replay has added the entry again.
ReplayFirst ==
    \A o \in Client : pc[o] = "replayDel" => \A e \in picked[o] : FirstPicked(o, e) => Replayed(e)

\* Where dead letters come from and go.
LEMMA StepDead ==
  ASSUME [Next]_vars
  PROVE  \/ UNCHANGED <<dead, deadTop, picked>>
         \/ \E c \in Trimmer : Bury(c)
         \/ \E o \in Operators : SelectDead(o) \/ DeleteDead(o)
         \/ \E c \in Client : Crash(c)
<1> DEFINE Same == UNCHANGED <<dead, deadTop, picked>>
<1>1. ASSUME NEW q \in Enqueuers, Report(q) \/ EnqueuerStep(q)
      PROVE  Same
  BY <1>1 DEF EnqueuerStep, Report, EnqueueAdd, EnqueuePlace, setVars
<1>2. ASSUME NEW w \in Workers, Reserve(w) \/ ScanStep(w)
      PROVE  Same
  BY <1>2 DEF ScanStep, Reserve, PutReferrer, Attest, TransientFailure, PermanentFailure, Confirm, Ack, setVars
<1>3. ASSUME NEW p \in Reapers, ReaperStart(p) \/ ReapStep(p)
      PROVE  Same
  BY <1>3 DEF ReapStep, ReaperStart, Claim, Check, setVars
<1>4. ASSUME NEW c \in Trimmer, BuryAck(c) \/ TrimPending(c) \/ TrimGroups(c) \/ TrimStream(c) \/ Trim(c)
      PROVE  Same
  BY <1>4 DEF BuryAck, TrimPending, TrimGroups, TrimStream, Trim, setVars
<1>5. ASSUME NEW o \in Operators, ReplayAdd(o)
      PROVE  Same
  BY <1>5 DEF ReplayAdd, setVars
<1>6. TimePasses \/ UNCHANGED vars => Same
  BY DEF TimePasses, vars, setVars, localVars
<1>7. QED
  BY <1>1, <1>2, <1>3, <1>4, <1>5, <1>6 DEF Next, SettleStep, OperatorStep

LEMMA LetterKeys ==
  ASSUME NEW e \in DeadEntry
  PROVE  e.n \in Nat /\ e.of \in Nat
<1>1. e.n \in Nat /\ e.of \in Id
  BY DEF DeadEntry
<1>2. \A i \in Id : i \in Nat
  BY StreamAssumption DEF Id
<1>3. QED
  BY <1>1, <1>2

LEMMA LettersKept ==
  ASSUME TypeInv, StreamGrows, deadTop <= deadTop', deadTop' \in Nat,
         NEW S \in SUBSET DeadEntry, Letters(S), NEW T \in SUBSET S
  PROVE  Letters(T)'
<1>1. top \in Nat /\ top' \in Nat /\ top <= top' /\ deadTop \in Nat
  BY StreamAssumption DEF TypeInv, ClientsOK, SetsTypeOK, StreamGrows, StreamInv, StreamTypeOK, Id0
<1>2. \A e \in T : e.n \in Nat /\ e.of \in Nat
  BY LetterKeys
<1>3. QED
  BY <1>1, <1>2 DEF Letters

LEMMA StepLetters ==
  ASSUME TypeInv, LettersOK, [Next]_vars
  PROVE  LettersOK'
<1>1. StreamGrows
  BY StepGrows
<1>2. /\ dead \in SUBSET DeadEntry /\ picked \in [Client -> SUBSET DeadEntry] /\ deadTop \in Nat
      /\ tok \in [Client -> Id0] /\ top \in Nat /\ last \in Nat
  BY StreamAssumption DEF TypeInv, ClientsOK, SetsTypeOK, LocalsTypeOK, StreamInv, StreamTypeOK, Id0
<1>3. CASE UNCHANGED <<dead, deadTop, picked>>
  BY <1>1, <1>2, <1>3, LettersKept DEF LettersOK
<1>4. ASSUME NEW c \in Trimmer, Bury(c)
      PROVE  LettersOK'
  <2>1. PICK e : dead' = dead \cup {e} /\ e.n = deadTop + 1 /\ e.of = tok[c]
    <3> DEFINE e == [n |-> deadTop + 1, ref |-> ref[tok[c]], of |-> tok[c],
                     why |-> IF c \in Workers THEN "permanent" ELSE "max retries"]
    <3>1. dead' = dead \cup {e}
      BY <1>4 DEF Bury
    <3>2. e.n = deadTop + 1 /\ e.of = tok[c]
      OBVIOUS
    <3> HIDE DEF e
    <3>3. QED
      BY <3>1, <3>2
  <2>2. deadTop' = deadTop + 1 /\ picked' = picked /\ top' = top
    BY <1>4 DEF Bury, streamVars
  <2>3. tok[c] \in 1 .. last /\ last <= top
    BY <1>4 DEF TypeInv, ClientsOK, HandsOK, Holding, Bury, StreamInv, Client, Trimmer
  <2>4. Letters(dead)' /\ \A o \in Client : Letters(picked[o])'
    <3>1. deadTop <= deadTop' /\ deadTop' \in Nat
      BY <1>2, <2>2
    <3>2. \A f \in dead' : f.n <= deadTop' /\ f.of <= top'
      <4>1. \A f \in dead : f.n \in Nat /\ f.n <= deadTop /\ f.of <= top
        BY <1>2, LetterKeys DEF LettersOK, Letters
      <4>2. e.n <= deadTop' /\ e.of <= top'
        BY <1>2, <2>1, <2>2, <2>3
      <4>3. QED
        BY <1>2, <2>1, <2>2, <4>1, <4>2
    <3>3. \A f, g \in dead' : f.n = g.n => f = g
      <4>1. \A f \in dead : f.n \in Nat /\ f.n <= deadTop
        BY <1>2, LetterKeys DEF LettersOK, Letters
      <4>2. \A f \in dead : f.n # e.n
        BY <1>2, <2>1, <4>1
      <4>3. \A f, g \in dead : f.n = g.n => f = g
        BY DEF LettersOK, Letters
      <4>4. QED
        BY <2>1, <4>2, <4>3
    <3>4. Letters(dead)'
      BY <3>2, <3>3 DEF Letters
    <3>5. QED
      BY <1>1, <1>2, <2>2, <3>1, <3>4, LettersKept DEF LettersOK
  <2>5. QED
    BY <2>4 DEF LettersOK
<1>5. ASSUME NEW o \in Operators, SelectDead(o)
      PROVE  LettersOK'
  <2>1. dead' = dead /\ deadTop' = deadTop
    BY <1>5 DEF SelectDead, setVars
  <2>2. PICK chosen \in Selections \ {{}} : picked' = [picked EXCEPT ![o] = chosen]
    BY <1>5 DEF SelectDead
  <2>3. chosen \in SUBSET dead
    BY DEF Selections
  <2>4. \A d \in Client : Letters(picked[d])'
    BY <1>1, <1>2, <2>1, <2>2, <2>3, LettersKept DEF LettersOK
  <2>5. QED
    BY <1>1, <1>2, <2>1, <2>4, LettersKept DEF LettersOK
<1>6. ASSUME NEW o \in Operators, DeleteDead(o)
      PROVE  LettersOK'
  <2>1. PICK e \in picked[o] : dead' = dead \ {e} /\ picked' = [picked EXCEPT ![o] = picked[o] \ {e}]
    BY <1>6 DEF DeleteDead
  <2>2. deadTop' = deadTop /\ dead' \in SUBSET dead
    BY <1>6, <2>1 DEF DeleteDead
  <2>3. \A d \in Client : picked'[d] \in SUBSET picked[d]
    BY <1>2, <2>1
  <2>4. QED
    BY <1>1, <1>2, <2>2, <2>3, LettersKept DEF LettersOK
<1>7. ASSUME NEW c \in Client, Crash(c)
      PROVE  LettersOK'
  <2>1. dead' = dead /\ deadTop' = deadTop /\ picked' = [picked EXCEPT ![c] = {}]
    BY <1>7 DEF Crash, setVars
  <2>2. \A d \in Client : picked'[d] \in SUBSET picked[d]
    BY <1>2, <2>1
  <2>3. QED
    BY <1>1, <1>2, <2>1, <2>2, LettersKept DEF LettersOK
<1>8. QED
  BY <1>3, <1>4, <1>5, <1>6, <1>7, StepDead

\* Who stands still keeps what it has added in the stream.
LEMMA ReplayStays ==
  ASSUME TypeInv, StreamGrows, ReplayFirst, NEW o \in Client, picked'[o] = picked[o], pc'[o] = pc[o]
  PROVE  pc'[o] = "replayDel" => \A e \in picked'[o] : FirstPicked(o, e)' => Replayed(e)'
<1> SUFFICES ASSUME pc[o] = "replayDel", NEW e \in picked[o], FirstPicked(o, e)'
             PROVE  Replayed(e)'
  OBVIOUS
<1>1. FirstPicked(o, e)
  BY DEF FirstPicked
<1>2. PICK i \in 1 .. top : i > e.of /\ ref[i] = e.ref
  BY <1>1 DEF ReplayFirst, Replayed
<1>3. i \in 1 .. top' /\ ref'[i] = e.ref
  BY <1>2, StreamAssumption DEF StreamGrows, StreamInv, StreamTypeOK, TypeInv, Id0
<1>4. QED
  BY <1>2, <1>3 DEF Replayed

LEMMA StepReplayFirst ==
  ASSUME TypeInv, LettersOK, ReplayFirst, [Next]_vars
  PROVE  ReplayFirst'
<1>1. StreamGrows
  BY StepGrows
<1>2. CASE Stays
  BY <1>1, <1>2, ReplayStays DEF Stays, ReplayFirst
<1>3. ASSUME NEW c, NEW labels, Moves(c, labels),
             pc'[c] = "replayDel" => \A e \in picked'[c] : FirstPicked(c, e)' => Replayed(e)'
      PROVE  ReplayFirst'
  <2>1. \A o \in Client \ {c} : picked'[o] = picked[o] /\ pc'[o] = pc[o]
    BY <1>3 DEF Moves
  <2>2. \A o \in Client \ {c} : pc'[o] = "replayDel" => \A e \in picked'[o] : FirstPicked(o, e)' => Replayed(e)'
    BY <1>1, <2>1, ReplayStays
  <2>3. QED
    BY <1>3, <2>2 DEF ReplayFirst
<1>4. ASSUME NEW c, NEW labels, Moves(c, labels), "replayDel" \notin labels
      PROVE  ReplayFirst'
  <2>1. pc'[c] # "replayDel"
    BY <1>4 DEF Moves
  <2>2. QED
    BY <1>3, <1>4, <2>1
<1>5. ASSUME NEW c \in Client, Moves(c, Plain)
      PROVE  ReplayFirst'
  BY <1>4, <1>5 DEF Plain, Marked
<1>6. ASSUME NEW w \in Workers, PutReferrer(w) \/ Attest(w) \/ Confirm(w)
      PROVE  ReplayFirst'
  BY <1>4, <1>6, WorkerMoves
<1>7. ASSUME NEW c \in Trimmer, Bury(c) \/ TrimPending(c) \/ TrimGroups(c) \/ TrimStream(c)
      PROVE  ReplayFirst'
  BY <1>4, <1>7, TrimmerMoves
<1>8. ASSUME NEW o \in Operators, DeleteDead(o) \/ SelectDead(o)
      PROVE  ReplayFirst'
  BY <1>4, <1>8, OperatorMoves
<1>9. ASSUME NEW o \in Operators, ReplayAdd(o)
      PROVE  ReplayFirst'
  <2>1. Moves(o, {"replayDel"}) /\ o \in Client
    BY <1>9, OperatorMoves DEF Moves
  <2>2. PICK e \in picked[o] : FirstPicked(o, e) /\ XAdd(e.ref)
    BY <1>9 DEF ReplayAdd
  <2>3. picked' = picked
    BY <1>9 DEF ReplayAdd
  <2>4. e \in DeadEntry /\ e.of <= top /\ e.of \in Nat /\ top \in Nat
    <3>1. e \in DeadEntry /\ e.of <= top
      BY <2>1 DEF LettersOK, Letters, TypeInv, ClientsOK, LocalsTypeOK
    <3>2. QED
      BY <3>1, LetterKeys, StreamAssumption DEF TypeInv, StreamInv, StreamTypeOK, Id0
  <2>5. Replayed(e)'
    <3>1. top' = top + 1 /\ ref' = [ref EXCEPT ![top + 1] = e.ref] /\ top + 1 \in Id /\ ref \in [Id -> Ref \cup {NoRef}]
      BY <2>2, <2>4, StreamAssumption DEF XAdd, TypeInv, StreamInv, StreamTypeOK, Id
    <3>2. top + 1 \in 1 .. top' /\ top + 1 > e.of /\ ref'[top + 1] = e.ref
      BY <2>4, <3>1
    <3>3. QED
      BY <3>2 DEF Replayed
  <2>6. \A f \in picked'[o] : FirstPicked(o, f)' => f = e
    <3>1. \A f \in picked[o] : f.n \in Nat
      BY <2>1, LetterKeys DEF TypeInv, ClientsOK, LocalsTypeOK
    <3>2. \A f \in picked[o] : FirstPicked(o, f) => f.n = e.n
      BY <2>2, <3>1 DEF FirstPicked
    <3>3. QED
      BY <2>1, <2>3, <3>2 DEF FirstPicked, LettersOK, Letters
  <2>7. QED
    BY <1>3, <2>1, <2>5, <2>6
<1>10. QED
  BY <1>2, <1>5, <1>6, <1>7, <1>8, <1>9, StepMoves

(***************************************************************************)
(* dlq_replay re-enqueues before it deletes, whatever other operators and  *)
(* clients do and wherever they die: a dead letter goes because it is      *)
(* dropped, or after a younger entry for its image was added               *)
(* (DeadLetterOutlivesReplay).  Inductive with ReplayFirst and LettersOK:  *)
(* the letter that is deleted is the one that was added again, because no  *)
(* two of one selection have the same id.                                  *)
(***************************************************************************)
THEOREM DeadLettersOutliveReplay == Spec => DeadLetterOutlivesReplay
<1> DEFINE IInv == TypeInv /\ LettersOK /\ ReplayFirst
<1>1. Init => IInv
  <2>1. Init => LettersOK /\ ReplayFirst
    BY DEF Init, LettersOK, Letters, ReplayFirst
  <2>2. QED
    BY <2>1, TypeInvInit
<1>2. IInv /\ [Next]_vars => IInv'
  BY StepTypes, StepLetters, StepReplayFirst
<1>3. IInv /\ [Next]_vars =>
        [\A e \in dead \ dead' :
            \/ \E o \in Operators : pc[o] = "dropDel" /\ FirstPicked(o, e)
            \/ \E i \in 1 .. top : i > e.of /\ ref[i] = e.ref]_vars
  <2> SUFFICES ASSUME IInv, [Next]_vars, NEW e \in dead \ dead'
               PROVE  \/ \E o \in Operators : pc[o] = "dropDel" /\ FirstPicked(o, e)
                      \/ Replayed(e)
    BY DEF Replayed
  <2>1. PICK o \in Operators : DeleteDead(o)
    BY StepDead DEF Bury, SelectDead, Crash, setVars
  <2>2. FirstPicked(o, e) /\ e \in picked[o]
    BY <2>1 DEF DeleteDead, FirstPicked
  <2>3. pc[o] = "dropDel" \/ pc[o] = "replayDel"
    BY <2>1 DEF DeleteDead
  <2>4. QED
    BY <2>2, <2>3 DEF ReplayFirst, Client
<1>4. QED
  BY <1>1, <1>2, <1>3, PTL DEF Spec, DeadLetterOutlivesReplay
=============================================================================
