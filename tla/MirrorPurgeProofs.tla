------------------------ MODULE MirrorPurgeProofs ------------------------
(***************************************************************************)
(* Theorems about purge over a repository that reconcile goes on           *)
(* maintaining, for any tags, policies, oracle answers, failing calls and  *)
(* interleavings of the two programs.                                      *)
(***************************************************************************)
EXTENDS MirrorPurge, MirrorReconcileProofs

\* Purge's clock is behind the day, and so is every sighting; and what the oracle cleared
\* for removal production did not run on any day of the window.
AskedOK ==
    /\ pnow \in Nat /\ pnow <= clock
    /\ uses \subseteq Manifest \X (0 .. clock)
    /\ pstage \in {"clear", "tag"} => ~WindowUse(judged)

\* Of the marks that purge has listed and not cleared there is at most one, and none left
\* once the tag is to be deleted.
HeldOK ==
    /\ \A m, n \in held : m = n
    /\ pstage = "tag" => held = {}

-----------------------------------------------------------------------------
(* The steps of the composition, as what they do to reconcile's state.     *)

\* What purge can do to the repository: remove a tag, or marks.
LEMMA PurgeShape ==
  ASSUME PurgeStep
  PROVE  /\ UNCHANGED <<worldVars, runVars, clean, steady, moves, edits, crashes, covers, uses, used>>
         /\ marks' \subseteq marks
         /\ failures' = failures \/ CallFails
         /\ tagged' = tagged \/ (pstage = "tag" /\ PurgeTag /\ tagged' = [tagged EXCEPT ![ptag] = Absent])
<1>1. UNCHANGED <<worldVars, runVars, clean, steady, moves, edits, crashes, uses, used>>
  BY DEF PurgeStep, Quiet
<1>2. CASE PurgeStart
  BY <1>1, <1>2 DEF PurgeStart, repoVars
<1>3. CASE PurgeList
  BY <1>1, <1>3 DEF PurgeList, repoVars
<1>4. CASE PurgeInspect
  BY <1>1, <1>4 DEF PurgeInspect, repoVars
<1>5. CASE PurgeAsk
  BY <1>1, <1>5 DEF PurgeAsk, repoVars
<1>6. CASE PurgeClear
  BY <1>1, <1>6 DEF PurgeClear
<1>7. CASE PurgeTag
  BY <1>1, <1>7 DEF PurgeTag
<1>8. CASE PurgeEnd
  BY <1>1, <1>8 DEF PurgeEnd, repoVars
<1>9. QED
  BY <1>2, <1>3, <1>4, <1>5, <1>6, <1>7, <1>8 DEF PurgeStep

\* Removing a tag or marks keeps what MirrorReconcileProofs shows of reconcile's state.
LEMMA InvPurge ==
  ASSUME Inv, PurgeStep \/ PurgeCrash
  PROVE  Inv'
<1>1. /\ UNCHANGED <<worldVars, runVars, clean, steady, moves, edits, covers>>
      /\ marks' \subseteq marks /\ failures' \in 0 .. MaxFailures /\ crashes' \in 0 .. MaxCrashes
      /\ \A t \in Tag : tagged'[t] \in {tagged[t], Absent}
      /\ tagged' \in [Tag -> Manifest \cup {Absent}]
  <2>1. CASE PurgeStep
    <3>1. failures' \in 0 .. MaxFailures /\ crashes' \in 0 .. MaxCrashes
      BY <2>1, PurgeShape, ReconcileAssumption DEF CallFails, Inv, TypeOK
    <3>2. CASE tagged' = tagged
      BY <2>1, <3>1, <3>2, PurgeShape DEF Inv, TypeOK
    <3>3. CASE tagged' = [tagged EXCEPT ![ptag] = Absent]
      <4>1. tagged \in [Tag -> Manifest \cup {Absent}]
        BY DEF Inv, TypeOK
      <4>2. (\A t \in Tag : tagged'[t] \in {tagged[t], Absent}) /\ tagged' \in [Tag -> Manifest \cup {Absent}]
        BY <3>3, <4>1
      <4>3. QED
        BY <2>1, <3>1, <4>2, PurgeShape
    <3>4. QED
      BY <2>1, <3>2, <3>3, PurgeShape
  <2>2. CASE PurgeCrash
    BY <2>2, ReconcileAssumption DEF PurgeCrash, repoVars, Inv, TypeOK
  <2>3. QED
    BY <2>1, <2>2
<1>2. TypeOK'
  BY <1>1 DEF Inv, TypeOK, worldVars, runVars, readVars
<1>3. UNCHANGED <<plan, plans, cur, stage, src, mir, now, work>>
  BY <1>1 DEF runVars, readVars, plan
<1>4. WorkOK'
  BY <1>3, StillFacts DEF Inv, WorkOK
<1>5. StampTruthful' /\ BaseOK'
  BY <1>1 DEF Inv, StampsOK, StampTruthful, Stamps, BaseOK
<1>6. \A i \in work' : i.step = "stamp" => tagged'[i.tag] \in {Placed(i.tag)', Absent}
  <2>1. \A i \in work : i.tag \in Tag
    BY DEF Inv, TypeOK, Items
  <2>2. \A t \in Tag : Placed(t)' = Placed(t)
    BY <1>3, StillFacts
  <2>3. QED
    BY <1>1, <1>3, <2>1, <2>2 DEF Inv, StampsOK
<1>7. QED
  BY <1>2, <1>4, <1>5, <1>6 DEF Inv, StampsOK

LEMMA PurgeInvStep ==
  ASSUME Inv, [PurgeNext]_purgeWorld
  PROVE  Inv'
<1>1. CASE ReconcileStep \/ Disturbance \/ Day \/ Deploy \/ UNCHANGED purgeWorld
  <2>1. [Next]_vars
    BY <1>1 DEF ReconcileStep, Disturbance, Day, Deploy, purgeWorld, Next
  <2>2. QED
    BY <2>1, InvStep
<1>2. CASE TagVanished
  <2>1. crashes' \in 0 .. MaxCrashes
    BY <1>2 DEF TagVanished, Inv, TypeOK
  <2>2. QED
    BY <1>2, <2>1, InvDies DEF TagVanished
<1>3. CASE PurgeStep \/ PurgeCrash
  BY <1>3, InvPurge
<1>4. QED
  BY <1>1, <1>2, <1>3 DEF PurgeNext

LEMMA PurgeInvAlways == PurgeSpec => []Inv
<1>1. PurgeInit => Inv
  BY InvInit DEF PurgeInit
<1>2. Inv /\ [PurgeNext]_purgeWorld => Inv'
  BY PurgeInvStep
<1>3. QED
  BY <1>1, <1>2, PTL DEF PurgeSpec

(***************************************************************************)
(* However purge takes tags away under a run of reconcile, between its     *)
(* placing one and its stamping it too, every stamp in the repository      *)
(* tells the truth about the bytes it is on (StampTruthful).               *)
(***************************************************************************)
THEOREM StampsTruthfulUnderPurge == PurgeSpec => []StampTruthful
<1>1. Inv => StampTruthful
  BY DEF Inv, StampsOK
<1>2. QED
  BY <1>1, PurgeInvAlways, PTL

-----------------------------------------------------------------------------
(* The idle window.                                                        *)

\* Every step but purge's own leaves where purge stands alone, and the day only advances.
LEMMA OtherSteps ==
  ASSUME Inv, [PurgeNext]_purgeWorld, ~PurgeStep, ~PurgeCrash
  PROVE  /\ UNCHANGED <<pstage, pnow, todo, ptag, listed, pmark, judged>>
         /\ held' \subseteq held
         /\ clock' = clock \/ clock' = clock + 1
         /\ uses' = uses \/ Deploy
<1>1. CASE ReconcileStep \/ TagVanished
  <2>1. clock' = clock /\ Elsewhere
    <3>1. CASE TagVanished
      BY <3>1 DEF TagVanished, RunDies, worldVars
    <3>2. CASE ReconcileStep
      BY <3>2 DEF ReconcileStep, RunStep, StartRun, ReadSource, ReadMirror, ReadMarks, ItemStep, Barrier, EndImport,
                  EndRun, worldVars
    <3>3. QED
      BY <1>1, <3>1, <3>2
  <2>2. QED
    BY <2>1 DEF Elsewhere
<1>2. CASE Disturbance \/ Day
  <2>1. clock' = clock \/ clock' = clock + 1
    BY <1>2 DEF Disturbance, Day, Tick, Abort, RunDies, UpstreamMoves, EditPolicy, worldVars
  <2>2. QED
    BY <1>2, <2>1 DEF Disturbance, Day, Elsewhere
<1>3. CASE Deploy
  BY <1>3 DEF Deploy, purgeVars, vars, worldVars
<1>4. CASE UNCHANGED purgeWorld
  BY <1>4 DEF purgeWorld, purgeVars, vars, worldVars
<1>5. QED
  BY <1>1, <1>2, <1>3, <1>4 DEF PurgeNext

\* What each step of purge does to its clock and to its verdict.
LEMMA PurgeOwn ==
  ASSUME PurgeStep \/ PurgeCrash
  PROVE  /\ UNCHANGED <<clock, uses>>
         /\ pnow' = pnow \/ pnow' = clock
         /\ pstage' \in {"clear", "tag"} =>
               /\ UNCHANGED <<pnow, judged>>
               /\ \/ pstage \in {"clear", "tag"}
                  \/ PurgeAsk /\ \E observed \in BOOLEAN : Decide(observed, Heard(observed)) = "purge"
<1>1. UNCHANGED <<clock, uses>>
  BY DEF PurgeStep, Quiet, PurgeCrash, worldVars
<1>2. CASE PurgeStart
  BY <1>1, <1>2 DEF PurgeStart
<1>3. CASE PurgeList
  BY <1>1, <1>3 DEF PurgeList, Off
<1>4. CASE PurgeInspect
  BY <1>1, <1>4 DEF PurgeInspect
<1>5. CASE PurgeAsk
  BY <1>1, <1>5 DEF PurgeAsk, NextMark
<1>6. CASE PurgeClear
  BY <1>1, <1>6 DEF PurgeClear, NextMark
<1>7. CASE PurgeTag
  BY <1>1, <1>7 DEF PurgeTag, NextMark
<1>8. CASE PurgeEnd \/ PurgeCrash
  BY <1>1, <1>8 DEF PurgeEnd, PurgeCrash, Off
<1>9. QED
  BY <1>2, <1>3, <1>4, <1>5, <1>6, <1>7, <1>8 DEF PurgeStep

\* An oracle that answered and saw nothing since the window began: no use in the window.
LEMMA NotSeen ==
  ASSUME Inv, AskedOK, NEW observed \in BOOLEAN, Decide(observed, Heard(observed)) = "purge"
  PROVE  ~WindowUse(judged)
<1>1. observed /\ LastSeen(judged, WindowStart(pnow)) = {}
  BY DEF Decide, Heard
<1>2. clock \in Nat /\ clock <= MaxClock /\ MaxClock \in Nat /\ pnow \in Nat /\ MinIdle \in Nat
  BY PurgeAssumption, ReconcileAssumption DEF Inv, TypeOK, AskedOK
<1>3. SUFFICES ASSUME NEW d \in WindowStart(pnow) .. pnow - 1, <<judged, d>> \in uses
               PROVE  FALSE
  BY DEF WindowUse
<1>4. d \in 0 .. clock
  BY <1>3 DEF AskedOK
<1>5. d \in 0 .. MaxClock
  BY <1>2, <1>4
<1>6. d >= WindowStart(pnow)
  BY <1>2, <1>3 DEF WindowStart
<1>7. QED
  BY <1>1, <1>3, <1>5, <1>6 DEF LastSeen

LEMMA AskedStep ==
  ASSUME Inv, AskedOK, [PurgeNext]_purgeWorld
  PROVE  AskedOK'
<1>1. /\ pnow \in Nat /\ pnow <= clock /\ clock \in Nat /\ MinIdle \in Nat
      /\ uses \subseteq Manifest \X (0 .. clock)
      /\ pstage \in {"clear", "tag"} => ~WindowUse(judged)
  BY PurgeAssumption, ReconcileAssumption DEF AskedOK, Inv, TypeOK
<1>2. CASE PurgeStep \/ PurgeCrash
  <2>1. /\ UNCHANGED <<clock, uses>>
        /\ pnow' \in Nat /\ pnow' <= clock
    BY <1>1, <1>2, PurgeOwn
  <2>2. ASSUME pstage' \in {"clear", "tag"}
        PROVE  ~WindowUse(judged)'
    <3>1. UNCHANGED <<pnow, judged>>
      BY <1>2, <2>2, PurgeOwn
    <3>2. ~WindowUse(judged)
      BY <1>1, <1>2, <2>2, PurgeOwn, NotSeen
    <3>3. QED
      BY <2>1, <3>1, <3>2 DEF WindowUse, WindowStart
  <2>3. QED
    BY <1>1, <2>1, <2>2 DEF AskedOK
<1>3. CASE ~PurgeStep /\ ~PurgeCrash
  <2>1. /\ UNCHANGED <<pstage, pnow, judged>>
        /\ clock' = clock \/ clock' = clock + 1
        /\ uses' = uses \/ Deploy
    BY <1>3, OtherSteps
  <2>2. uses' = uses \/ \E m \in Manifest : uses' = uses \cup {<<m, clock>>}
    <3>1. CASE Deploy
      <4>1. PICK t \in Tag : tagged[t] # Absent /\ uses' = uses \cup {<<tagged[t], clock>>}
        BY <3>1 DEF Deploy
      <4>2. tagged[t] \in Manifest
        BY <4>1 DEF Inv, TypeOK
      <4>3. QED
        BY <4>1, <4>2
    <3>2. QED
      BY <2>1, <3>1
  <2>3. uses' \subseteq Manifest \X (0 .. clock')
    BY <1>1, <2>1, <2>2
  <2>4. ASSUME pstage \in {"clear", "tag"}
        PROVE  ~WindowUse(judged)'
    <3>1. SUFFICES ASSUME NEW d \in WindowStart(pnow) .. pnow - 1, <<judged, d>> \in uses'
                   PROVE  FALSE
      BY <2>1 DEF WindowUse, WindowStart
    <3>2. <<judged, d>> \notin uses
      BY <1>1, <2>4, <3>1 DEF WindowUse
    <3>3. d = clock
      BY <2>2, <3>1, <3>2
    <3>4. QED
      BY <1>1, <3>1, <3>3 DEF WindowStart
  <2>5. QED
    BY <1>1, <2>1, <2>3, <2>4 DEF AskedOK
<1>4. QED
  BY <1>2, <1>3

(***************************************************************************)
(* However the oracle, purge and reconcile fail and interleave, a tag that *)
(* purge removes, if it still designates what purge inspected, designates  *)
(* an image that production ran on none of the idle days the purge asked   *)
(* for (UsageGated).                                                       *)
(***************************************************************************)
THEOREM RemovalsAreUsageGated == PurgeSpec => UsageGated
<1>1. PurgeInit => AskedOK
  <2> SUFFICES ASSUME PurgeInit PROVE AskedOK
    OBVIOUS
  <2>1. pnow = 0 /\ uses = {} /\ pstage = "off" /\ clock = Grace
    BY DEF PurgeInit, Init
  <2>2. QED
    BY <2>1, PlanAssumption DEF AskedOK
<1>2. Inv /\ AskedOK /\ [PurgeNext]_purgeWorld => AskedOK'
  BY AskedStep
<1>3. Inv /\ AskedOK /\ [PurgeNext]_purgeWorld =>
          [\A t \in Tag : PurgeStep /\ Gone(t) /\ tagged[t] = judged => ~WindowUse(tagged[t])]_purgeWorld
  <2> SUFFICES ASSUME Inv, AskedOK, NEW t \in Tag, PurgeStep, Gone(t), tagged[t] = judged
               PROVE  ~WindowUse(tagged[t])
    OBVIOUS
  <2>1. pstage = "tag"
    BY PurgeShape DEF Gone
  <2>2. QED
    BY <2>1 DEF AskedOK
<1>4. QED
  BY <1>1, <1>2, <1>3, PurgeInvAlways, PTL DEF PurgeSpec, UsageGated

-----------------------------------------------------------------------------
(* One reason for marks.                                                   *)

LEMMA ReasonStep ==
  ASSUME Inv, ReasonsOK, [PurgeNext]_purgeWorld
  PROVE  ReasonsOK'
<1>1. CASE ReconcileStep \/ Disturbance \/ Day \/ Deploy \/ UNCHANGED purgeWorld
  <2>1. [Next]_vars
    BY <1>1 DEF ReconcileStep, Disturbance, Day, Deploy, purgeWorld, Next
  <2>2. QED
    BY <2>1, ReasonsStep
<1>2. CASE TagVanished
  BY <1>2 DEF TagVanished, RunDies, repoVars, readVars, ReasonsOK
<1>3. CASE PurgeStep
  BY <1>3, PurgeShape DEF runVars, readVars, ReasonsOK
<1>4. CASE PurgeCrash
  BY <1>4 DEF PurgeCrash, repoVars, runVars, readVars, ReasonsOK
<1>5. QED
  BY <1>1, <1>2, <1>3, <1>4 DEF PurgeNext

\* Where one of the two reasons does not arise, a manifest carries one mark at most.
LEMMA OneMark ==
  ASSUME PurgeMode \/ KeepsAll, Inv, ReasonsOK, NEW m \in marks, NEW n \in marks, m.of = n.of
  PROVE  m = n
<1>1. m \in Mark /\ n \in Mark
  BY DEF Inv, TypeOK
<1>2. m.reason = n.reason
  BY <1>1 DEF Mark, ReasonsOK, OffReasons
<1>3. QED
  BY <1>1, <1>2 DEF Mark

LEMMA HeldStep ==
  ASSUME PurgeMode \/ KeepsAll, Inv, ReasonsOK, HeldOK, [PurgeNext]_purgeWorld
  PROVE  HeldOK'
<1>1. ASSUME held' \subseteq held, pstage' = "tag" => pstage = "tag" \/ held' = {}
      PROVE  HeldOK'
  BY <1>1 DEF HeldOK
<1>2. CASE PurgeStart
  BY <1>1, <1>2 DEF PurgeStart
<1>3. CASE PurgeList
  <2>1. CASE Off
    BY <1>1, <2>1 DEF Off
  <2>2. CASE ~Off
    <3>1. PICK t \in todo : held' = {m \in marks : m.of = tagged[t]} /\ pstage' = pstage /\ pstage = "walk"
      BY <1>3, <2>2 DEF PurgeList
    <3>2. \A m, n \in held' : m = n
      BY <3>1, OneMark
    <3>3. QED
      BY <3>1, <3>2 DEF HeldOK
  <2>3. QED
    BY <2>1, <2>2
<1>4. CASE PurgeInspect
  <2>1. held' \subseteq held /\ pstage' # "tag"
    BY <1>4 DEF PurgeInspect
  <2>2. QED
    BY <1>1, <2>1
<1>5. CASE PurgeAsk
  <2>1. held' \subseteq held /\ pstage' # "tag"
    BY <1>5 DEF PurgeAsk, NextMark
  <2>2. QED
    BY <1>1, <2>1
<1>6. CASE PurgeClear
  <2>1. CASE NextMark
    BY <1>1, <2>1 DEF NextMark
  <2>2. CASE ~NextMark
    <3>1. pmark \in held /\ held' = held \ {pmark}
      BY <1>6, <2>2 DEF PurgeClear
    <3>2. held' = {}
      BY <3>1 DEF HeldOK
    <3>3. QED
      BY <1>1, <3>2
  <2>3. QED
    BY <2>1, <2>2
<1>7. CASE PurgeTag
  BY <1>1, <1>7 DEF PurgeTag, NextMark
<1>8. CASE PurgeEnd \/ PurgeCrash
  BY <1>1, <1>8 DEF PurgeEnd, PurgeCrash, Off
<1>9. CASE ~PurgeStep /\ ~PurgeCrash
  <2>1. pstage' = pstage /\ held' \subseteq held
    BY <1>9, OtherSteps
  <2>2. QED
    BY <1>1, <2>1
<1>10. QED
  BY <1>2, <1>3, <1>4, <1>5, <1>6, <1>7, <1>8, <1>9 DEF PurgeStep

(***************************************************************************)
(* No step of purge takes away the last tag that leads to a mark it has    *)
(* listed and left in place (NoMarkStranded), where marks have one reason. *)
(* With both, a tag can carry two marks: purge clears the first one,       *)
(* deletes the tag, and leaves the second on a manifest that no tag names. *)
(***************************************************************************)
THEOREM NoMarkIsStranded ==
  ASSUME PurgeMode \/ KeepsAll
  PROVE  PurgeSpec => NoMarkStranded
<1>1. PurgeInit => ReasonsOK /\ HeldOK
  BY DEF PurgeInit, Init, ReasonsOK, HeldOK
<1>2. Inv /\ ReasonsOK /\ [PurgeNext]_purgeWorld => ReasonsOK'
  BY ReasonStep
<1>3. Inv /\ ReasonsOK /\ HeldOK /\ [PurgeNext]_purgeWorld => HeldOK'
  BY HeldStep
<1>4. HeldOK /\ [PurgeNext]_purgeWorld =>
          [PurgeStep => \A m \in held \cap marks' :
               Reachable(m) => \E t \in Tag : tagged'[t] = m.of]_purgeWorld
  <2> SUFFICES ASSUME HeldOK, PurgeStep, NEW m \in held, Reachable(m)
               PROVE  \E t \in Tag : tagged'[t] = m.of
    OBVIOUS
  <2>1. pstage # "tag"
    BY DEF HeldOK
  <2>2. tagged' = tagged
    BY <2>1, PurgeShape
  <2>3. QED
    BY <2>2 DEF Reachable
<1>5. QED
  BY <1>1, <1>2, <1>3, <1>4, PurgeInvAlways, PTL DEF PurgeSpec, NoMarkStranded
=============================================================================
