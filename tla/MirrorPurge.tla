---------------------------- MODULE MirrorPurge ----------------------------
(***************************************************************************)
(* `knock purge' over a repository that `knock reconcile' goes on          *)
(* maintaining: knock/use_cases/purge.py, domain/purge.py, domain/         *)
(* lifecycle.py and adapters/command_usage.py, composed with               *)
(* MirrorReconcile.  Purge walks the tags one after the other, reads the   *)
(* marks of each, asks the usage oracle about the digest the tag           *)
(* designates, and deletes the mark and then the tag.  Nothing keeps the   *)
(* two programs apart, so their registry calls interleave.  Dry runs,      *)
(* which make no deleting call, are left out.                              *)
(***************************************************************************)
EXTENDS MirrorReconcile

CONSTANTS MinIdle,    (* KNOCK_PURGE_MIN_IDLE_DAYS                           *)
          MaxUses     (* bound: times production pulls an image              *)

ASSUME PurgeAssumption == MinIdle \in Nat \ {0} /\ MaxUses \in Nat

VARIABLES pstage,    \* where purge is: "off", "walk", "ask", "clear", "tag"
          pnow,      \* the time of this purge
          todo,      \* the tags still to be walked
          ptag,      \* the tag being walked
          listed,    \* the marks listed for it that are still to be processed
          pmark,     \* the mark being processed
          held,      \* those of listed and pmark whose referrer still exists
          judged,    \* the digest that was inspected
          uses,      \* production: <<manifest, day>> of every sighting
          used       \* auxiliary: number of sightings

purgeVars == <<pstage, pnow, todo, ptag, listed, pmark, held, judged>>
purgeWorld == <<vars, purgeVars, uses, used>>

PurgeInit ==
    /\ Init
    /\ pstage = "off" /\ pnow = 0 /\ todo = {} /\ ptag = Absent
    /\ listed = {} /\ pmark = Absent /\ held = {} /\ judged = Absent
    /\ uses = {} /\ used = 0

-----------------------------------------------------------------------------
(* Decisions.                                                              *)

\* The look-back lower bound given to the oracle.
WindowStart(time) == time - MinIdle

\* What an oracle that keeps its contract answers: a sighting since then, or none.
LastSeen(m, since) == {d \in 0 .. MaxClock : <<m, d>> \in uses /\ d >= since}

\* What purge hears: nothing at all when the oracle times out, fails or answers garbage.
Heard(observed) == IF observed THEN LastSeen(judged, WindowStart(pnow)) ELSE {}

\* Faulty: an oracle that did not answer has seen nothing.
DecideFailOpen(observed, sightings) == IF sightings # {} THEN "protect" ELSE "purge"

Decide(observed, sightings) ==
    IF ~observed THEN "uncertain" ELSE IF sightings # {} THEN "protect" ELSE "purge"

-----------------------------------------------------------------------------
(* Purge.                                                                  *)

\* One failing call of either program.
CallFails == failures < MaxFailures /\ failures' = failures + 1

Quiet == UNCHANGED <<worldVars, runVars, clean, steady, moves, edits, crashes, uses, used>>

\* Purge ends, or is aborted.
Off ==
    /\ pstage' = "off" /\ todo' = {} /\ ptag' = Absent
    /\ listed' = {} /\ pmark' = Absent /\ held' = {} /\ judged' = Absent
    /\ UNCHANGED pnow

\* The mark is done with: the next one of the tag, or the next tag, follows.
NextMark ==
    /\ pstage' = "walk" /\ pmark' = Absent /\ judged' = Absent
    /\ held' = held \cap (listed \cap marks')
    /\ UNCHANGED <<pnow, todo, ptag, listed>>

\* purge_marks: the time is read, and the tags of the repository are listed.
PurgeStart ==
    /\ pstage = "off"
    /\ pstage' = "walk"
    /\ pnow' = clock
    /\ todo' = {t \in Tag : tagged[t] # Absent}
    /\ UNCHANGED <<repoVars, ptag, listed, pmark, held, judged, failures>>

\* list_referrers of the next tag.  It is outside the per-candidate error handling:
\* a tag that is gone meanwhile, or a failing call, ends the whole purge.
PurgeList ==
    /\ pstage = "walk" /\ listed = {}
    /\ \E t \in todo :
          \/ /\ tagged[t] # Absent
             /\ todo' = todo \ {t} /\ ptag' = t
             /\ listed' = {m \in marks : m.of = tagged[t]}
             /\ held' = listed'
             /\ UNCHANGED <<pstage, pnow, pmark, judged, failures>>
          \/ tagged[t] = Absent /\ Off /\ UNCHANGED failures
          \/ CallFails /\ Off
    /\ UNCHANGED repoVars

\* inspect: what does the tag designate now?  A failure is this candidate's error.
PurgeInspect ==
    /\ pstage = "walk"
    /\ \E m \in listed :
          /\ listed' = listed \ {m}
          /\ \/ /\ tagged[ptag] # Absent
                /\ pstage' = "ask" /\ pmark' = m /\ judged' = tagged[ptag]
                /\ UNCHANGED <<held, failures>>
             \/ /\ tagged[ptag] = Absent
                /\ held' = held \ {m} /\ UNCHANGED <<pstage, pmark, judged, failures>>
             \/ /\ CallFails
                /\ held' = held \ {m} /\ UNCHANGED <<pstage, pmark, judged>>
    /\ UNCHANGED <<repoVars, pnow, todo, ptag>>

\* The oracle is asked about the digest that was inspected.
PurgeAsk ==
    /\ pstage = "ask"
    /\ \E observed \in BOOLEAN :
          /\ IF observed THEN UNCHANGED failures ELSE CallFails
          /\ IF Decide(observed, Heard(observed)) = "purge"
             THEN pstage' = "clear" /\ UNCHANGED <<pnow, todo, ptag, listed, pmark, held, judged>>
             ELSE marks' = marks /\ NextMark
    /\ UNCHANGED repoVars

\* Faulty: the tag goes first.
ClearTagFirst ==
    /\ pstage = "clear"
    /\ tagged' = [tagged EXCEPT ![ptag] = Absent]
    /\ pstage' = "tag"
    /\ UNCHANGED <<covers, marks, pnow, todo, ptag, listed, pmark, held, judged, failures>>

\* delete_referrer, by the digest that was listed: a mark cleared meanwhile is an error.
PurgeClear ==
    /\ pstage = "clear"
    /\ \/ /\ pmark \in held
          /\ marks' = marks \ {pmark} /\ held' = held \ {pmark}
          /\ pstage' = "tag"
          /\ UNCHANGED <<pnow, todo, ptag, listed, pmark, judged, failures>>
       \/ pmark \notin held /\ UNCHANGED <<marks, failures>> /\ NextMark
       \/ CallFails /\ UNCHANGED marks /\ NextMark
    /\ UNCHANGED <<tagged, covers>>

\* Faulty: the mark is cleared and the tag is kept.
TagKept == pstage = "tag" /\ UNCHANGED <<repoVars, failures>> /\ NextMark

\* delete_tag, by name.
PurgeTag ==
    /\ pstage = "tag"
    /\ \/ tagged[ptag] # Absent /\ tagged' = [tagged EXCEPT ![ptag] = Absent] /\ UNCHANGED failures
       \/ tagged[ptag] = Absent /\ UNCHANGED <<tagged, failures>>
       \/ CallFails /\ UNCHANGED tagged
    /\ UNCHANGED <<covers, marks>>
    /\ NextMark

PurgeEnd ==
    /\ pstage = "walk" /\ listed = {} /\ todo = {}
    /\ Off
    /\ UNCHANGED <<repoVars, failures>>

PurgeStep ==
    /\ PurgeStart \/ PurgeList \/ PurgeInspect \/ PurgeAsk \/ PurgeClear \/ PurgeTag \/ PurgeEnd
    /\ Quiet

PurgeCrash ==
    /\ pstage # "off"
    /\ crashes < MaxCrashes /\ crashes' = crashes + 1
    /\ Off
    /\ UNCHANGED <<worldVars, repoVars, runVars, clean, steady, moves, edits, failures, uses, used>>

-----------------------------------------------------------------------------
(* The composition.                                                        *)

\* A referrer that a run clears is gone for purge, even if the tag is marked again.
Elsewhere ==
    /\ held' = held \cap marks'
    /\ UNCHANGED <<pstage, pnow, todo, ptag, listed, pmark, judged, uses, used>>

\* A run of reconcile goes on while the tags it has seen are still there ...
ReconcileStep ==
    /\ stage = "marks" => \A t \in Mirrored(mir) : tagged[t] # Absent
    /\ RunStep
    /\ Elsewhere

\* ... and reports the policy failed when it cannot read the marks of one.
TagVanished ==
    /\ stage = "marks" /\ \E t \in Mirrored(mir) : tagged[t] = Absent
    /\ RunDies
    /\ UNCHANGED crashes
    /\ Elsewhere

Disturbance ==
    /\ Abort \/ (\E s \in Source : UpstreamMoves(s)) \/ EditPolicy
    /\ Elsewhere

Day == Tick /\ Elsewhere

\* Production pulls an image, by tag.
Deploy ==
    /\ used < MaxUses
    /\ used' = used + 1
    /\ \E t \in Tag : tagged[t] # Absent /\ uses' = uses \cup {<<tagged[t], clock>>}
    /\ UNCHANGED <<vars, purgeVars>>

PurgeNext ==
    ReconcileStep \/ TagVanished \/ PurgeStep \/ PurgeCrash \/ Disturbance \/ Day \/ Deploy

PurgeSpec == PurgeInit /\ [][PurgeNext]_purgeWorld

\* Both programs are scheduled for ever, their calls return, and days pass.
FairPurgeSpec ==
    /\ PurgeSpec
    /\ WF_purgeWorld(ReconcileStep \/ TagVanished)
    /\ WF_purgeWorld(PurgeStep)
    /\ WF_purgeWorld(Day)

-----------------------------------------------------------------------------
(* Properties.                                                             *)

Reachable(m) == \E t \in Tag : tagged[t] = m.of

Gone(t) == tagged[t] # Absent /\ tagged'[t] = Absent

WindowUse(m) == \E d \in WindowStart(pnow) .. pnow - 1 : <<m, d>> \in uses

\* However calls and the oracle fail, a tag that purge removes and that no run of reconcile
\* has moved since purge inspected it designates an image that production did not run on
\* any of the idle days the purge asked for.
UsageGated ==
    [][\A t \in Tag : PurgeStep /\ Gone(t) /\ tagged[t] = judged => ~WindowUse(tagged[t])]_purgeWorld

\* "While the tag's digest is still seen in production [...] nothing is removed"
\* (docs/how-to/purge-unused-tags.md).  Refuted: tags are deleted by name (purge.py).
InUseKept == [][\A t \in Tag : PurgeStep /\ Gone(t) => ~WindowUse(tagged[t])]_purgeWorld

\* Purge strands no mark it has listed: no step of it leaves the mark in place and takes
\* away the last tag that leads to it, wherever purge is interrupted.
NoMarkStranded ==
    [][PurgeStep =>
          \A m \in held \cap marks' : Reachable(m) => \E t \in Tag : tagged'[t] = m.of]_purgeWorld

\* A tag that the policy in mark mode has dropped, and that production has stopped
\* pulling, is gone in the end, although purge and reconcile fail at first, race and undo
\* half of each other's work; and none comes back.
Reaps ==
    <>[](\A t \in Tag : MirrorOf(tagged[t]) # Absent =>
            \/ t \in UNION {Desired(policy[n]) : n \in 1 .. Imports}
            \/ LastSeen(tagged[t], WindowStart(clock)) # {})

=============================================================================
