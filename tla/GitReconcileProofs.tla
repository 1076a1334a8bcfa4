------------------------- MODULE GitReconcileProofs -------------------------
(***************************************************************************)
(* Proofs about GitReconcile for every batch of policies, every upstream   *)
(* and every bound.                                                        *)
(***************************************************************************)
EXTENDS GitReconcile, NaturalsInduction, WellFoundedInduction, SequenceTheorems, TLAPS

-----------------------------------------------------------------------------
(* The inductive invariant.                                                *)

PlanStages  == {"resolve", "list", "read"}
ApplyStages == {"apply", "push", "point"}

\* An artifact of a revision is the planned archive of files that were accepted.
Packed(p, v, files) ==
    /\ files = Planned(Walk(Files(p, v)))
    /\ Accepts(Walk(Files(p, v))) /\ Writable(Files(p, v), files)

\* What the destinations hold.
HeldOK ==
    /\ placed \in [Repo -> [Rev -> Manifest \cup {Absent}]]
    /\ alias \in [Repo -> Manifest \cup {Absent, ByHand}]
    /\ \A r \in Repo, v \in Rev : placed[r][v] # Absent =>
          placed[r][v].stamp = v /\ Packed(PolicyOf[r], v, placed[r][v].files)

\* Where the run is: plans exist as far as it has planned, and while it packages it holds
\* the commit that was planned and that is not there yet.
RunOK ==
    /\ stage \in {"idle", "end"} \cup PlanStages \cup ApplyStages /\ at \in DOMAIN Repos
    /\ resolved \in Rev \cup {TagObject, Absent} /\ fetched \in Rev \cup {Absent}
    /\ stage \in {"list", "read"} => resolved # Absent
    /\ plans \in [Repo -> PlanItem \cup {Absent}]
    /\ stage = "idle" => \A r \in Repo : plans[r] = Absent
    /\ \A i \in DOMAIN Repos : stage \in ApplyStages \/ (stage \in PlanStages /\ i < at) => plans[Repos[i]] # Absent
    /\ stage \notin {"push", "point"} => fetched = Absent
    /\ stage \in {"push", "point"} => /\ fetched = item.rev /\ fetched \in Rev /\ ~item.placed
                                      /\ Packed(pol, fetched, Planned(Walk(Files(pol, fetched))))

\* The plan of a destination is still right when its turn comes, although it was made
\* before any destination was touched.
PlanOK ==
    /\ stage = "read" => IsPlaced(repo, resolved)
    /\ \A r \in Repo : plans[r] # Absent /\ plans[r].placed =>
          plans[r].rev \in Rev /\ placed[r][plans[r].rev] # Absent
    /\ \A i \in DOMAIN Repos : LET plan == plans[Repos[i]] IN
          /\ plan # Absent /\ ~plan.placed /\ plan.rev \in Rev
          /\ stage \in PlanStages \/ at < i \/ (at = i /\ stage \in {"apply", "push"})
          => placed[Repos[i]][plan.rev] = Absent
    /\ stage = "point" => placed[repo][item.rev] # Absent

\* What the run has pushed is in the operations collected for the policy it is at, in the
\* report of a policy it is done with, or about to be pointed at.
Told(r, v, out, S) == \E o \in S : o.repo = r /\ o.kind = "imported" /\ o.rev = v /\ o.out = out

Recorded(i, v) ==
    LET r   == Repos[i]
        p   == PolicyOf[r]
        out == placed[r][v]
    IN  \/ stage = "point" /\ i = at /\ v = item.rev
        \/ stage \in ApplyStages /\ i < at /\ p = pol /\ Told(r, v, out, ops)
        \/ /\ stage = "end" \/ p # pol
           /\ report[p].status = "failed" \/ Told(r, v, out, report[p].ops)

Operation == [repo : Repo, kind : {"imported", "aliased", "skipped"}, rev : Rev \cup {TagObject},
              out : Manifest \cup {Absent}]
Outcome   == [status : {"ok", "failed"}, ops : SUBSET Operation]

PushedOK ==
    /\ pushed \subseteq Repo \X Rev
    /\ ops \subseteq Operation /\ report \in [Policy -> {Absent} \cup Outcome]
    /\ stage \notin ApplyStages \cup {"end"} => pushed = {}
    /\ \A i \in DOMAIN Repos : \A v \in Rev : <<Repos[i], v>> \in pushed =>
          /\ placed[Repos[i]][v] # Absent /\ i <= at
          /\ Recorded(i, v)

Inv == upstream \in Upstreams /\ HeldOK /\ RunOK /\ PlanOK /\ AliasNotAhead /\ PushedOK

-----------------------------------------------------------------------------
(* The batch: indices, policies and where an outcome leads.                *)

LEMMA Here ==
  ASSUME at \in DOMAIN Repos
  PROVE  /\ repo \in Repo /\ pol \in Policy /\ DOMAIN Repos = 1 .. Len(Repos) /\ Len(Repos) \in Nat
         /\ at \in Nat /\ at >= 1 /\ at <= Len(Repos)
         /\ \A i \in DOMAIN Repos : Repos[i] \in Repo /\ PolicyOf[Repos[i]] \in Policy
         /\ \A i, j \in DOMAIN Repos : Repos[i] = Repos[j] => i = j
         /\ \A r \in Repo : \E i \in DOMAIN Repos : r = Repos[i]
<1>1. Repos \in Seq(Repo) /\ IsInjective(Repos) /\ DOMAIN PolicyOf = Repo
  BY GitAssumption
<1>2. DOMAIN Repos = 1 .. Len(Repos) /\ Len(Repos) \in Nat
  BY <1>1
<1>3. at \in Nat /\ at >= 1 /\ at <= Len(Repos)
  BY <1>2
<1>4. /\ \A i \in DOMAIN Repos : Repos[i] \in Repo
      /\ \A r \in Repo : \E i \in DOMAIN Repos : r = Repos[i]
  BY DEF Repo, Range
<1>5. \A r \in Repo : PolicyOf[r] \in Policy
  BY <1>1 DEF Policy, Range
<1>6. \A i, j \in DOMAIN Repos : Repos[i] = Repos[j] => i = j
  BY <1>1 DEF IsInjective
<1>7. QED
  BY <1>2, <1>3, <1>4, <1>5, <1>6 DEF repo, pol

\* A set of numbers has a least element, and one with a bound has a greatest.
LEMMA Least ==
  ASSUME NEW S \in SUBSET Nat, S # {}
  PROVE  Min(S) \in S /\ \A y \in S : Min(S) <= y
<1>1. PICK x \in S : \A y \in S : ~ (<<y, x>> \in OpToRel(<, Nat))
  BY NatLessThanWellFounded, WFMin, Zenon
<1>2. \A y \in S : ~ (y < x)
  BY <1>1 DEF OpToRel
<1>3. \A y \in S : x <= y
  BY <1>2
<1>4. QED
  BY <1>3 DEF Min

LEMMA Greatest ==
  ASSUME NEW n \in Nat, NEW S \in SUBSET (1 .. n), S # {}
  PROVE  Max(S) \in S /\ \A y \in S : y <= Max(S)
<1> DEFINE T == {n - x : x \in S}
<1>1. T \in SUBSET Nat /\ T # {}
  <2>1. \A x \in S : x \in 1 .. n /\ n - x \in Nat
    OBVIOUS
  <2>2. QED
    BY <2>1
<1>2. PICK t \in T : \A u \in T : t <= u
  BY <1>1, Least
<1>3. PICK x \in S : t = n - x
  BY <1>2
<1>4. \A y \in S : x >= y
  <2> SUFFICES ASSUME NEW y \in S PROVE x >= y
    OBVIOUS
  <2>1. n - x <= n - y
    BY <1>2, <1>3
  <2>2. QED
    BY <2>1
<1>5. QED
  BY <1>4 DEF Max

\* Where the run goes after a destination or a policy: to a later destination, all of
\* those passed over being the policy's, or to its end.
MovesOn ==
    \/ /\ stage' = "end" /\ at' = at
       /\ \A j \in DOMAIN Repos : at < j => PolicyOf[Repos[j]] = pol
    \/ /\ stage' = "apply" /\ at' \in DOMAIN Repos /\ at < at'
       /\ \A j \in DOMAIN Repos : at < j /\ j < at' => PolicyOf[Repos[j]] = pol

LEMMA DoneMovesOn ==
  ASSUME at \in DOMAIN Repos, NEW S, TargetDone(S)
  PROVE  /\ MovesOn /\ fetched' = Absent
         /\ \/ stage' = "apply" /\ pol' = pol /\ ops' = ops \cup S /\ report' = report
            \/ /\ stage' = "end" \/ pol' # pol
               /\ ops' = {} /\ report' = [report EXCEPT ![pol] = [status |-> "ok", ops |-> ops \cup S]]
<1>1. /\ DOMAIN Repos = 1 .. Len(Repos) /\ Len(Repos) \in Nat
      /\ at \in Nat /\ at >= 1 /\ at <= Len(Repos)
  BY Here
<1>2. /\ Onto(at + 1) /\ fetched' = Absent
      /\ IF at < Len(Repos) /\ PolicyOf[Repos[at + 1]] = pol
         THEN ops' = ops \cup S /\ UNCHANGED report
         ELSE ops' = {} /\ report' = [report EXCEPT ![pol] = [status |-> "ok", ops |-> ops \cup S]]
  BY DEF TargetDone
<1>3. CASE at = Len(Repos)
  <2>1. stage' = "end" /\ at' = at /\ \A j \in DOMAIN Repos : ~ (at < j)
    BY <1>1, <1>2, <1>3 DEF Onto
  <2>2. ~ (at < Len(Repos))
    BY <1>1, <1>3
  <2>3. QED
    BY <1>2, <2>1, <2>2 DEF MovesOn
<1>4. CASE at < Len(Repos)
  <2>1. /\ stage' = "apply" /\ at' = at + 1 /\ at + 1 \in DOMAIN Repos /\ at < at + 1
        /\ \A j \in DOMAIN Repos : ~ (at < j /\ j < at + 1)
    BY <1>1, <1>2, <1>4 DEF Onto
  <2>2. pol' = PolicyOf[Repos[at + 1]]
    BY <2>1 DEF pol, repo
  <2>3. MovesOn
    BY <2>1 DEF MovesOn
  <2>4. QED
    BY <1>2, <1>4, <2>1, <2>2, <2>3
<1>5. QED
  BY <1>1, <1>3, <1>4

LEMMA FailsMovesOn ==
  ASSUME at \in DOMAIN Repos, PolicyFails
  PROVE  /\ MovesOn /\ (stage' = "end" \/ pol' # pol) /\ fetched' = Absent
         /\ ops' = {} /\ report' = [report EXCEPT ![pol] = [status |-> "failed", ops |-> {}]]
<1>1. /\ DOMAIN Repos = 1 .. Len(Repos) /\ Len(Repos) \in Nat
      /\ at \in Nat /\ at >= 1 /\ at <= Len(Repos)
  BY Here
<1> DEFINE S == {i \in DOMAIN Repos : PolicyOf[Repos[i]] = pol}
<1>2. PICK m \in DOMAIN Repos : m = Max(S)
  BY <1>1, Greatest DEF pol, repo
<1>3. PolicyOf[Repos[m]] = pol /\ at <= m /\ \A i \in DOMAIN Repos : PolicyOf[Repos[i]] = pol => i <= m
  <2>1. at \in S /\ S \in SUBSET (1 .. Len(Repos))
    BY <1>1 DEF pol, repo
  <2>2. m \in S /\ \A y \in S : y <= m
    BY <1>1, <1>2, <2>1, Greatest
  <2>3. QED
    BY <2>1, <2>2
<1>4. \A j \in DOMAIN Repos : at < j /\ j <= m => PolicyOf[Repos[j]] = pol
  <2> SUFFICES ASSUME NEW j \in DOMAIN Repos, at < j, j <= m
               PROVE  PolicyOf[Repos[j]] = pol
    OBVIOUS
  <2>1. CASE j = m
    BY <1>3, <2>1
  <2>2. CASE j < m
    BY <1>3, <2>2, GitAssumption DEF pol, repo
  <2>3. QED
    BY <1>1, <2>1, <2>2
<1>5. /\ fetched' = Absent /\ ops' = {} /\ report' = [report EXCEPT ![pol] = [status |-> "failed", ops |-> {}]]
      /\ IF m + 1 > Len(Repos) THEN stage' = "end" /\ at' = at ELSE stage' = "apply" /\ at' = m + 1
  BY <1>2 DEF PolicyFails, Onto
<1> HIDE DEF S
<1>6. CASE m = Len(Repos)
  <2>1. stage' = "end" /\ at' = at
    BY <1>1, <1>5, <1>6
  <2>2. \A j \in DOMAIN Repos : at < j => PolicyOf[Repos[j]] = pol
    BY <1>1, <1>4, <1>6
  <2>3. QED
    BY <1>5, <2>1, <2>2 DEF MovesOn
<1>7. CASE m < Len(Repos)
  <2>1. stage' = "apply" /\ at' = m + 1 /\ m + 1 \in DOMAIN Repos /\ at < m + 1
    BY <1>1, <1>3, <1>5, <1>7
  <2>2. \A j \in DOMAIN Repos : at < j /\ j < m + 1 => PolicyOf[Repos[j]] = pol
    BY <1>1, <1>4
  <2>3. PolicyOf[Repos[m + 1]] # pol
    BY <1>1, <1>3, <2>1
  <2>4. pol' # pol
    BY <2>1, <2>3 DEF pol, repo
  <2>5. QED
    BY <1>5, <2>1, <2>2, <2>4 DEF MovesOn
<1>8. QED
  BY <1>1, <1>6, <1>7

-----------------------------------------------------------------------------
(* Upstream and the files of a revision.                                   *)

\* What a fetch lands on, and what the ref is resolved to.
LEMMA TipIsRev ==
  ASSUME upstream \in Upstreams, NEW p \in Policy
  PROVE  FetchTip(p) \in Rev
  BY GitAssumption DEF Upstreams, Hosted, FetchTip

LEMMA ResolveIsRev ==
  ASSUME upstream \in Upstreams, NEW p \in Policy
  PROVE  Resolve(p) \in Rev \cup {TagObject}
<1> DEFINE c == Candidates(p)
           I == {i \in 1 .. Len(c) : c[i] # Absent}
<1>1. /\ upstream[p].tag \in Rev \cup {Absent} /\ upstream[p].branch \in Rev \cup {Absent}
      /\ upstream[p].annotated \in BOOLEAN
      /\ upstream[p].tag = Absent => upstream[p].branch # Absent /\ ~upstream[p].annotated /\ p \notin Qualified
  BY GitAssumption DEF Upstreams, Hosted
<1>2. Absent \notin Rev /\ TagObject # Absent
  BY GitAssumption
<1>3. TagId(upstream[p]) \in Rev \cup {TagObject, Absent} /\ (upstream[p].tag # Absent => TagId(upstream[p]) # Absent)
  BY <1>1, <1>2 DEF TagId
<1>4. /\ Len(c) = 4 /\ c[1] \in Rev \cup {TagObject, Absent} /\ c[2] \in Rev \cup {TagObject, Absent}
      /\ c[3] \in Rev \cup {TagObject, Absent} /\ c[4] \in Rev \cup {TagObject, Absent}
      /\ c[2] # Absent \/ c[3] # Absent \/ c[4] # Absent
  <2>1. CASE p \in Qualified
    <3>1. c = <<Absent, Absent, Absent, TagId(upstream[p])>>
      BY <2>1 DEF Candidates
    <3>2. QED
      BY <1>1, <1>3, <2>1, <3>1
  <2>2. CASE p \notin Qualified
    <3>1. PICK peeled \in Rev \cup {Absent} : c = <<peeled, TagId(upstream[p]), upstream[p].branch, Absent>>
      BY <1>1, <2>2 DEF Candidates
    <3>2. QED
      BY <1>1, <1>3, <2>2, <3>1
  <2>3. QED
    BY <2>1, <2>2
<1> HIDE DEF c
<1>5. I # {} /\ I \in SUBSET (1 .. 4) /\ I \in SUBSET Nat
  BY <1>4
<1>6. Min(I) \in I
  BY <1>5, Least
<1>7. Resolve(p) = c[Min(I)]
  BY <1>5 DEF Resolve, FirstOf, SelectInSeq, c
<1>8. \A i \in I : c[i] \in Rev \cup {TagObject}
  <2> SUFFICES ASSUME NEW i \in I PROVE c[i] \in Rev \cup {TagObject}
    OBVIOUS
  <2>1. i \in {1, 2, 3, 4} /\ c[i] # Absent
    BY <1>4
  <2>2. QED
    BY <1>4, <2>1
<1>9. QED
  BY <1>6, <1>7, <1>8

LEMMA FilesAreFiles ==
  ASSUME NEW p \in Policy, NEW v \in Rev
  PROVE  /\ Files(p, v) \subseteq [path : Seq(Name), size : Nat, link : BOOLEAN, exec : BOOLEAN]
         /\ Walk(Files(p, v)) \subseteq [path : Seq(Name), size : Nat, link : BOOLEAN, exec : BOOLEAN]
         /\ Planned(Walk(Files(p, v))) \subseteq [path : Seq(Name), mode : {"rwx", "rw"}, size : Nat]
<1> DEFINE File == [path : Seq(Name), size : Nat, link : BOOLEAN, exec : BOOLEAN]
<1>1. Metadata \in File
  BY ArchiveAssumption DEF Metadata
<1>2. TreeOf[v] \subseteq File
  BY GitAssumption DEF IsTree
<1>3. Checkout(TreeOf[v]) \subseteq File
  BY <1>1, <1>2 DEF Checkout
<1>4. Path[p] \in Seq(Name)
  BY GitAssumption
<1>5. Files(p, v) \subseteq File
  <2>1. CASE Path[p] = <<>>
    BY <1>3, <2>1 DEF Files
  <2>2. CASE Path[p] # <<>>
    <3> SUFFICES ASSUME NEW f \in File, IsStrictPrefix(Path[p], f.path)
                 PROVE  [f EXCEPT !.path = SubSeq(f.path, Len(Path[p]) + 1, Len(f.path))] \in File
      BY <1>3, <2>2 DEF Files, Subdir
    <3>1. SubSeq(f.path, Len(Path[p]) + 1, Len(f.path)) \in Seq(Name)
      BY <1>4, SubSeqProperties
    <3>2. QED
      BY <3>1
  <2>3. QED
    BY <2>1, <2>2
<1>6. Walk(Files(p, v)) \subseteq File
  <2>1. \A f \in File : Describe(f) \in File
    BY DEF Describe
  <2>2. QED
    BY <1>5, <2>1 DEF Walk
<1>7. Planned(Walk(Files(p, v))) \subseteq [path : Seq(Name), mode : {"rwx", "rw"}, size : Nat]
  BY <1>6 DEF Planned
<1>8. QED
  BY <1>5, <1>6, <1>7

-----------------------------------------------------------------------------
(* What a step of the apply phase does to a destination and to the run.    *)

Untouched == UNCHANGED <<placed, alias, pushed>>

Ships(m) ==
    /\ stage = "push" /\ item.rev \in Rev /\ placed[repo][item.rev] = Absent
    /\ m.stamp = item.rev /\ Packed(pol, item.rev, m.files)
    /\ placed' = [placed EXCEPT ![repo][item.rev] = m]
    /\ alias' = alias /\ pushed' = pushed \cup {<<repo, item.rev>>}

Points ==
    /\ stage \in {"apply", "point"} /\ item.rev \in Rev /\ placed[repo][item.rev] # Absent
    /\ alias' = [alias EXCEPT ![repo] = placed[repo][item.rev]]
    /\ UNCHANGED <<placed, pushed>>

Enters ==
    /\ stage = "apply" /\ Untouched /\ ~item.placed /\ item.rev \in Rev
    /\ Packed(pol, item.rev, Planned(Walk(Files(pol, item.rev))))
    /\ stage' = "push" /\ fetched' = item.rev /\ UNCHANGED <<at, ops, report>>

ApplyStep == Skip \/ Intake \/ Push \/ Point \/ ApplyCallFails

LEMMA PushShips ==
  ASSUME Inv, Push
  PROVE  \E m \in Manifest : Ships(m)
<1>1. at \in DOMAIN Repos /\ stage = "push"
  BY DEF Inv, RunOK, Push
<1>2. /\ repo \in Repo /\ pol \in Policy /\ fetched = item.rev /\ fetched \in Rev
      /\ Packed(pol, item.rev, Planned(Walk(Files(pol, item.rev))))
      /\ ~item.placed /\ item # Absent
  BY <1>1, Here DEF Inv, RunOK, ApplyStages, item, repo
<1>3. placed[repo][item.rev] = Absent
  BY <1>1, <1>2 DEF Inv, PlanOK, item, repo
<1> DEFINE m == [stamp |-> fetched, files |-> Planned(Walk(Files(pol, fetched))), created |-> 0]
<1>4. placed' = [placed EXCEPT ![repo][item.rev] = m] /\ pushed' = pushed \cup {<<repo, item.rev>>} /\ alias' = alias
  BY <1>3 DEF Push
<1>5. m \in Manifest
  BY <1>2, FilesAreFiles DEF Manifest
<1>6. m.stamp = item.rev /\ m.files = Planned(Walk(Files(pol, item.rev)))
  BY <1>2
<1> HIDE DEF m
<1>7. QED
  BY <1>1, <1>2, <1>3, <1>4, <1>5, <1>6 DEF Ships

LEMMA PointPoints ==
  ASSUME Inv, Point
  PROVE  Points
<1>1. at \in DOMAIN Repos
  BY DEF Inv, RunOK
<1>2. repo \in Repo
  BY <1>1, Here
<1>3. CASE stage = "point"
  BY <1>3 DEF Inv, RunOK, PlanOK, Point, Points
<1>4. CASE stage = "apply" /\ item.placed /\ ~item.current
  <2>1. item # Absent
    BY <1>1, <1>4 DEF Inv, RunOK, ApplyStages, item, repo
  <2>2. QED
    BY <1>2, <1>4, <2>1 DEF Inv, PlanOK, Point, Points, item
<1>5. QED
  BY <1>3, <1>4 DEF Point

LEMMA IntakeEnters ==
  ASSUME Inv, Intake
  PROVE  Untouched /\ (PolicyFails \/ Enters)
<1>1. at \in DOMAIN Repos
  BY DEF Inv, RunOK
<1>2. pol \in Policy /\ FetchTip(pol) \in Rev
  BY <1>1, Here, TipIsRev DEF Inv
<1>3. Untouched
  BY DEF Intake, destVars, Untouched
<1>4. CASE PolicyFails
  BY <1>3, <1>4
<1>5. CASE ~PolicyFails
  <2> DEFINE files == Walk(Files(pol, FetchTip(pol)))
  <2>1. /\ FetchTip(pol) = item.rev /\ Accepts(files) /\ Writable(Files(pol, FetchTip(pol)), Planned(files))
        /\ stage' = "push" /\ fetched' = FetchTip(pol) /\ UNCHANGED <<at, ops, report>>
    BY <1>5 DEF Intake
  <2>2. QED
    BY <1>2, <1>3, <2>1 DEF Intake, Enters, Packed
<1>6. QED
  BY <1>4, <1>5

LEMMA ApplyShape ==
  ASSUME Inv, ApplyStep
  PROVE  /\ stage \in ApplyStages /\ UNCHANGED <<upstream, resolved, plans>>
         /\ Untouched \/ Points \/ \E m \in Manifest : Ships(m)
         /\ \/ PolicyFails
            \/ stage = "apply" /\ Untouched /\ TargetDone({Op("skipped", Absent)})
            \/ Points /\ TargetDone(TargetOps)
            \/ Enters
            \/ stage' = "point" /\ UNCHANGED <<at, fetched, ops, report>> /\ \E m \in Manifest : Ships(m)
<1> DEFINE Shape ==
         /\ stage \in ApplyStages /\ UNCHANGED <<upstream, resolved, plans>>
         /\ Untouched \/ Points \/ \E m \in Manifest : Ships(m)
         /\ \/ PolicyFails
            \/ stage = "apply" /\ Untouched /\ TargetDone({Op("skipped", Absent)})
            \/ Points /\ TargetDone(TargetOps)
            \/ Enters
            \/ stage' = "point" /\ UNCHANGED <<at, fetched, ops, report>> /\ \E m \in Manifest : Ships(m)
<1>1. CASE Skip
  BY <1>1 DEF Skip, Applying, worldVars, destVars, Untouched, ApplyStages
<1>2. CASE Intake
  <2>1. stage = "apply" /\ UNCHANGED <<upstream, resolved, plans>>
    BY <1>2 DEF Intake, Applying, worldVars
  <2>2. QED
    BY <1>2, <2>1, IntakeEnters DEF ApplyStages
<1>3. CASE Push
  <2>1. /\ stage = "push" /\ UNCHANGED <<upstream, resolved, plans>>
        /\ PolicyFails \/ (stage' = "point" /\ UNCHANGED <<at, fetched, ops, report>>)
    BY <1>3 DEF Push, Applying, worldVars
  <2>2. QED
    BY <1>3, <2>1, PushShips DEF ApplyStages
<1>4. CASE Point
  <2>1. /\ UNCHANGED <<upstream, resolved, plans>>
        /\ PolicyFails \/ TargetDone(TargetOps)
    BY <1>4 DEF Point, Applying, worldVars
  <2>2. Points
    BY <1>4, PointPoints
  <2>3. QED
    BY <2>1, <2>2 DEF ApplyStages, Points
<1>5. CASE ApplyCallFails
  BY <1>5 DEF ApplyCallFails, Applying, worldVars, destVars, Untouched, ApplyStages
<1>6. QED
  BY <1>1, <1>2, <1>3, <1>4, <1>5 DEF ApplyStep

\* Every step.
LEMMA StepShape ==
  ASSUME [Next]_vars
  PROVE  \/ UNCHANGED <<destVars, runVars>> /\ (UpstreamMoves \/ UNCHANGED upstream)
         \/ RunDies
         \/ RunStarts \/ ResolveRef \/ List \/ ReadAlias
         \/ ApplyStep
<1>1. CASE UNCHANGED vars
  BY <1>1 DEF vars, worldVars
<1>2. CASE UpstreamMoves
  BY <1>2 DEF UpstreamMoves
<1>3. CASE PlanCallFails \/ PodLost \/ EndRun
  BY <1>3 DEF PlanCallFails, PodLost, EndRun
<1>4. QED
  BY <1>1, <1>2, <1>3 DEF Next, RunStep, ApplyStep

-----------------------------------------------------------------------------
(* The invariant is inductive.                                             *)

LEMMA InvInit == Init => Inv
<1> SUFFICES ASSUME Init PROVE Inv
  OBVIOUS
<1>1. upstream \in Upstreams
  BY DEF Init
<1>2. HeldOK
  BY DEF Init, HeldOK
<1>3. RunOK
  <2>1. 1 \in DOMAIN Repos
    <3>1. Repos \in Seq(Repo) /\ Repos # <<>>
      BY GitAssumption
    <3>2. QED
      BY <3>1
  <2>2. QED
    BY <2>1 DEF Init, RunOK, PlanStages, ApplyStages
<1>4. PlanOK
  BY Here, <1>3 DEF Init, PlanOK, PlanStages
<1>5. AliasNotAhead
  BY DEF Init, AliasNotAhead
<1>6. PushedOK
  BY DEF Init, PushedOK, ApplyStages
<1>7. QED
  BY <1>1, <1>2, <1>3, <1>4, <1>5, <1>6 DEF Inv

LEMMA StepUpstream ==
  ASSUME Inv, [Next]_vars
  PROVE  upstream' \in Upstreams
<1>1. CASE UpstreamMoves
  BY <1>1 DEF UpstreamMoves, Inv, Upstreams
<1>2. CASE ~UpstreamMoves
  <2>1. upstream' = upstream
    BY <1>2, StepShape, ApplyShape DEF RunDies, RunStarts, ResolveRef, List, ReadAlias, Reading, worldVars
  <2>2. QED
    BY <2>1 DEF Inv, Upstreams, Hosted
<1>3. QED
  BY <1>1, <1>2

\* Where no destination is touched.
LEMMA ReadsLeave ==
  ASSUME [Next]_vars, ~ApplyStep
  PROVE  UNCHANGED <<placed, alias>> /\ (pushed' = pushed \/ RunDies)
  BY StepShape DEF RunDies, RunStarts, ResolveRef, List, ReadAlias, Reading, destVars, runVars

LEMMA StepHeld ==
  ASSUME Inv, [Next]_vars
  PROVE  HeldOK' /\ AliasNotAhead'
<1>1. CASE UNCHANGED <<placed, alias>>
  BY <1>1 DEF Inv, HeldOK, AliasNotAhead, Packed, Files
<1>2. ASSUME NEW m \in Manifest, Ships(m)
      PROVE  HeldOK' /\ AliasNotAhead'
  <2>1. repo \in Repo /\ item.rev \in Rev /\ placed[repo][item.rev] = Absent /\ alias' = alias
    BY <1>2, Here DEF Inv, RunOK, Ships
  <2>2. \A r \in Repo, v \in Rev : placed'[r][v] = IF r = repo /\ v = item.rev THEN m ELSE placed[r][v]
    BY <1>2, <2>1 DEF Ships, Inv, HeldOK
  <2>3. placed' \in [Repo -> [Rev -> Manifest \cup {Absent}]]
    BY <1>2, <2>1 DEF Ships, Inv, HeldOK
  <2>4. ASSUME NEW r \in Repo, NEW v \in Rev, placed'[r][v] # Absent
        PROVE  placed'[r][v].stamp = v /\ Packed(PolicyOf[r], v, placed'[r][v].files)
    <3>1. CASE r = repo /\ v = item.rev
      BY <1>2, <2>2, <3>1 DEF Ships, pol
    <3>2. CASE ~ (r = repo /\ v = item.rev)
      BY <2>2, <2>4, <3>2 DEF Inv, HeldOK
    <3>3. QED
      BY <3>1, <3>2
  <2>5. HeldOK'
    BY <2>1, <2>3, <2>4 DEF Inv, HeldOK, Packed, Files
  <2>6. ASSUME NEW r \in Repo, alias'[r] \notin {Absent, ByHand}
        PROVE  placed'[r][alias'[r].stamp] = alias'[r]
    <3>1. alias[r] \in Manifest /\ alias[r].stamp \in Rev /\ placed[r][alias[r].stamp] = alias[r]
      BY <2>1, <2>6 DEF Inv, HeldOK, AliasNotAhead, Manifest
    <3>2. QED
      BY <2>1, <2>2, <2>6, <3>1
  <2>7. QED
    BY <2>5, <2>6 DEF AliasNotAhead
<1>3. CASE Points
  <2>1. repo \in Repo /\ item.rev \in Rev /\ placed[repo][item.rev] # Absent /\ placed' = placed
    BY <1>3, Here DEF Inv, RunOK, Points
  <2>2. placed[repo][item.rev] \in Manifest /\ placed[repo][item.rev].stamp = item.rev
    BY <2>1 DEF Inv, HeldOK
  <2>3. /\ alias' \in [Repo -> Manifest \cup {Absent, ByHand}]
        /\ \A r \in Repo : alias'[r] = IF r = repo THEN placed[repo][item.rev] ELSE alias[r]
    BY <1>3, <2>1, <2>2 DEF Points, Inv, HeldOK
  <2>4. QED
    BY <2>1, <2>2, <2>3 DEF Inv, HeldOK, AliasNotAhead, Packed, Files
<1>4. QED
  BY <1>1, <1>2, <1>3, ReadsLeave, ApplyShape DEF Untouched

\* A destination is planned, and the run goes on to the next one or to the apply phase.
LEMMA PlanMoves ==
  ASSUME Inv, stage \in {"list", "read"}, NEW b \in BOOLEAN, NEW c \in BOOLEAN, Plan(b, c), PlanNext
  PROVE  /\ plans' \in [Repo -> PlanItem \cup {Absent}]
         /\ plans'[repo] = [rev |-> resolved, placed |-> b, current |-> c]
         /\ \A r \in Repo : r # repo => plans'[r] = plans[r]
         /\ \A i \in DOMAIN Repos : i <= at => plans'[Repos[i]] # Absent
         /\ \/ stage' = "apply" /\ at' = 1 /\ at = Len(Repos) /\ 1 \in DOMAIN Repos
            \/ stage' \in {"list", "resolve"} /\ at' = at + 1 /\ at + 1 \in DOMAIN Repos
<1>1. /\ repo \in Repo /\ DOMAIN Repos = 1 .. Len(Repos) /\ Len(Repos) \in Nat
      /\ at \in Nat /\ at >= 1 /\ at <= Len(Repos)
      /\ \A i, j \in DOMAIN Repos : Repos[i] = Repos[j] => i = j
      /\ \A i \in DOMAIN Repos : Repos[i] \in Repo
  BY Here DEF Inv, RunOK
<1> DEFINE new == [rev |-> resolved, placed |-> b, current |-> c]
<1>2. new \in PlanItem /\ new # Absent
  BY GitAssumption DEF Inv, RunOK, PlanItem
<1>3. plans' = [plans EXCEPT ![repo] = new] /\ plans \in [Repo -> PlanItem \cup {Absent}]
  BY DEF Plan, Inv, RunOK
<1> HIDE DEF new
<1>4. \A i \in DOMAIN Repos : i <= at => plans'[Repos[i]] # Absent
  <2> SUFFICES ASSUME NEW i \in DOMAIN Repos, i <= at
               PROVE  plans'[Repos[i]] # Absent
    OBVIOUS
  <2>1. CASE i = at
    BY <1>1, <1>2, <1>3, <2>1 DEF repo
  <2>2. CASE i < at
    <3>1. plans[Repos[i]] # Absent /\ Repos[i] # repo /\ Repos[i] \in Repo
      BY <1>1, <2>2 DEF Inv, RunOK, PlanStages, repo
    <3>2. QED
      BY <1>3, <3>1
  <2>3. QED
    BY <1>1, <2>1, <2>2
<1>5. \/ stage' = "apply" /\ at' = 1 /\ at = Len(Repos) /\ 1 \in DOMAIN Repos
      \/ stage' \in {"list", "resolve"} /\ at' = at + 1 /\ at + 1 \in DOMAIN Repos
  <2>1. CASE at = Len(Repos)
    <3>1. 1 \in DOMAIN Repos
      BY <1>1
    <3>2. QED
      BY <2>1, <3>1 DEF PlanNext
  <2>2. CASE at # Len(Repos)
    <3>1. at \in Nat /\ Len(Repos) \in Nat /\ at <= Len(Repos)
      BY <1>1
    <3>2. at + 1 \in 1 .. Len(Repos)
      BY <2>2, <3>1
    <3>3. at + 1 \in DOMAIN Repos
      BY <1>1, <3>2
    <3>4. QED
      BY <2>2, <3>3 DEF PlanNext
  <2>3. QED
    BY <2>1, <2>2
<1>6. plans' \in [Repo -> PlanItem \cup {Absent}] /\ plans'[repo] = new /\ \A r \in Repo : r # repo => plans'[r] = plans[r]
  BY <1>1, <1>2, <1>3
<1>7. QED
  BY <1>4, <1>5, <1>6 DEF new

\* The steps that plan a destination, and what they plan for it.
LEMMA PlansTruly ==
  ASSUME Inv, List \/ ReadAlias
  PROVE  /\ Reading /\ resolved' = resolved /\ stage \in {"list", "read"}
         /\ \/ stage' = "read" /\ UNCHANGED <<at, plans>> /\ IsPlaced(repo, resolved)
            \/ \E b, c \in BOOLEAN : b = IsPlaced(repo, resolved) /\ Plan(b, c) /\ PlanNext
<1>1. IsPlaced(repo, resolved) \in BOOLEAN /\ Designates(alias[repo], resolved) \in BOOLEAN
  BY DEF IsPlaced, Designates
<1>2. CASE List
  <2>1. CASE IsPlaced(repo, resolved) /\ alias[repo] # Absent
    BY <1>2, <2>1 DEF List
  <2>2. CASE ~ (IsPlaced(repo, resolved) /\ alias[repo] # Absent)
    <3>1. Plan(IsPlaced(repo, resolved), FALSE) /\ PlanNext
      BY <1>2, <2>2 DEF List
    <3>2. FALSE \in BOOLEAN
      OBVIOUS
    <3>3. \E b, c \in BOOLEAN : b = IsPlaced(repo, resolved) /\ Plan(b, c) /\ PlanNext
      BY <1>1, <3>1, <3>2, Zenon
    <3>4. QED
      BY <1>2, <3>3 DEF List
  <2>3. QED
    BY <2>1, <2>2
<1>3. CASE ReadAlias
  <2>1. IsPlaced(repo, resolved) /\ TRUE \in BOOLEAN
    BY <1>3 DEF ReadAlias, Inv, PlanOK
  <2>2. TRUE = IsPlaced(repo, resolved)
    BY <1>1, <2>1
  <2>3. Plan(TRUE, Designates(alias[repo], resolved)) /\ PlanNext
    BY <1>3 DEF ReadAlias
  <2>4. \E b, c \in BOOLEAN : b = IsPlaced(repo, resolved) /\ Plan(b, c) /\ PlanNext
    BY <1>1, <2>1, <2>2, <2>3, Zenon
  <2>5. QED
    BY <1>3, <2>4 DEF ReadAlias
<1>4. QED
  BY <1>2, <1>3

LEMMA StepRun ==
  ASSUME Inv, [Next]_vars
  PROVE  RunOK'
<1>1. /\ repo \in Repo /\ pol \in Policy /\ DOMAIN Repos = 1 .. Len(Repos) /\ Len(Repos) \in Nat
      /\ at \in Nat /\ at >= 1 /\ at <= Len(Repos) /\ at \in DOMAIN Repos
      /\ \A i \in DOMAIN Repos : Repos[i] \in Repo
  BY Here DEF Inv, RunOK
<1>2. CASE UNCHANGED <<destVars, runVars>>
  BY <1>2 DEF Inv, RunOK, runVars, item, pol, repo, Packed, Files
<1>3. CASE RunDies
  BY <1>1, <1>3 DEF RunDies, Inv, RunOK, PlanStages, ApplyStages
<1>4. CASE RunStarts
  BY <1>1, <1>4 DEF RunStarts, Reading, Inv, RunOK, PlanStages, ApplyStages
<1>5. CASE ResolveRef
  <2>1. resolved' \in Rev \cup {TagObject} /\ resolved' # Absent
    BY <1>1, <1>5, ResolveIsRev, GitAssumption DEF ResolveRef, Inv
  <2>2. QED
    BY <1>1, <1>5, <2>1 DEF ResolveRef, Reading, Inv, RunOK, PlanStages, ApplyStages
<1>6. CASE List \/ ReadAlias
  <2>1. Reading /\ resolved' = resolved /\ stage \in {"list", "read"} /\ fetched' = fetched
    BY <1>6, PlansTruly DEF Reading
  <2>2. CASE stage' = "read" /\ UNCHANGED <<at, plans>>
    BY <1>1, <2>1, <2>2 DEF Inv, RunOK, PlanStages, ApplyStages
  <2>3. ASSUME NEW b \in BOOLEAN, NEW c \in BOOLEAN, Plan(b, c), PlanNext
        PROVE  RunOK'
    <3>1. /\ plans' \in [Repo -> PlanItem \cup {Absent}]
          /\ \A i \in DOMAIN Repos : i <= at => plans'[Repos[i]] # Absent
          /\ \/ stage' = "apply" /\ at' = 1 /\ at = Len(Repos) /\ 1 \in DOMAIN Repos
             \/ stage' \in {"list", "resolve"} /\ at' = at + 1 /\ at + 1 \in DOMAIN Repos
      BY <2>1, <2>3, PlanMoves
    <3>2. \A i \in DOMAIN Repos : stage' = "apply" \/ i < at' => plans'[Repos[i]] # Absent
      <4>1. \A i \in DOMAIN Repos : i \in Nat /\ i <= Len(Repos) /\ (i < at + 1 => i <= at)
        BY <1>1
      <4>2. QED
        BY <3>1, <4>1
    <3>3. resolved # Absent /\ resolved \in Rev \cup {TagObject, Absent} /\ fetched = Absent
      BY <2>1 DEF Inv, RunOK
    <3>4. QED
      BY <2>1, <3>1, <3>2, <3>3 DEF RunOK, PlanStages, ApplyStages
  <2>4. QED
    BY <1>6, <2>2, <2>3, PlansTruly
<1>7. CASE ApplyStep
  <2>1. /\ stage \in ApplyStages /\ UNCHANGED <<upstream, resolved, plans>>
        /\ \A i \in DOMAIN Repos : plans[Repos[i]] # Absent
    BY <1>7, ApplyShape DEF Inv, RunOK
  <2>2. ASSUME MovesOn, fetched' = Absent PROVE RunOK'
    BY <1>1, <2>1, <2>2 DEF MovesOn, Inv, RunOK, PlanStages, ApplyStages
  <2>3. CASE Enters
    BY <1>1, <2>1, <2>3 DEF Enters, Inv, RunOK, PlanStages, ApplyStages, item, pol, repo, Packed, Files
  <2>4. CASE stage' = "point" /\ UNCHANGED <<at, fetched, ops, report>> /\ stage = "push"
    BY <1>1, <2>1, <2>4 DEF Inv, RunOK, PlanStages, ApplyStages, item, pol, repo, Packed, Files
  <2>5. QED
    BY <1>1, <1>7, <2>2, <2>3, <2>4, ApplyShape, FailsMovesOn, DoneMovesOn DEF Ships
<1>8. QED
  BY <1>2, <1>3, <1>4, <1>5, <1>6, <1>7, StepShape

LEMMA StepPlan ==
  ASSUME Inv, [Next]_vars
  PROVE  PlanOK'
<1>1. /\ repo \in Repo /\ at \in DOMAIN Repos /\ at \in Nat
      /\ \A i \in DOMAIN Repos : Repos[i] \in Repo /\ i \in Nat
      /\ \A i, j \in DOMAIN Repos : Repos[i] = Repos[j] => i = j
      /\ \A r \in Repo : \E i \in DOMAIN Repos : r = Repos[i]
  BY Here DEF Inv, RunOK
<1>2. CASE UNCHANGED <<destVars, runVars>>
  BY <1>2 DEF Inv, PlanOK, runVars, destVars, item, repo, IsPlaced
<1>3. CASE RunDies
  BY <1>1, <1>3 DEF RunDies, PlanOK
<1>4. CASE RunStarts
  BY <1>1, <1>4 DEF RunStarts, Inv, RunOK, PlanOK
<1>5. CASE ResolveRef
  BY <1>1, <1>5 DEF ResolveRef, Reading, destVars, Inv, PlanOK, PlanStages
<1>6. CASE List \/ ReadAlias
  <2>1. /\ Reading /\ resolved' = resolved /\ stage \in {"list", "read"} /\ UNCHANGED <<placed, alias>>
    BY <1>6, PlansTruly DEF Reading, destVars
  <2>2. CASE stage' = "read" /\ UNCHANGED <<at, plans>> /\ IsPlaced(repo, resolved)
    BY <2>1, <2>2 DEF Inv, PlanOK, PlanStages, IsPlaced, repo
  <2>3. ASSUME NEW b \in BOOLEAN, NEW c \in BOOLEAN, b = IsPlaced(repo, resolved), Plan(b, c), PlanNext
        PROVE  PlanOK'
    <3>1. /\ plans'[repo] = [rev |-> resolved, placed |-> b, current |-> c]
          /\ \A r \in Repo : r # repo => plans'[r] = plans[r]
          /\ stage' \in {"apply", "list", "resolve"}
      BY <2>1, <2>3, PlanMoves
    <3>2. plans'[repo].placed = b /\ plans'[repo].rev = resolved
      BY <3>1
    <3>3. b <=> resolved \in Rev /\ placed[repo][resolved] # Absent
      BY <2>3 DEF IsPlaced
    <3>4. ASSUME NEW r \in Repo, plans'[r] # Absent
          PROVE  /\ plans'[r].placed => plans'[r].rev \in Rev /\ placed'[r][plans'[r].rev] # Absent
                 /\ ~plans'[r].placed /\ plans'[r].rev \in Rev => placed'[r][plans'[r].rev] = Absent
      <4>1. CASE r = repo
        BY <2>1, <3>2, <3>3, <4>1
      <4>2. CASE r # repo
        <5>1. plans'[r] = plans[r] /\ placed' = placed /\ plans[r] # Absent
          BY <2>1, <3>1, <3>4, <4>2
        <5>2. PICK i \in DOMAIN Repos : r = Repos[i]
          BY <1>1
        <5>3. QED
          BY <2>1, <5>1, <5>2 DEF Inv, PlanOK, PlanStages
      <4>3. QED
        BY <4>1, <4>2
    <3>5. QED
      BY <1>1, <3>1, <3>4 DEF PlanOK
  <2>4. QED
    BY <1>6, <2>2, <2>3, PlansTruly
<1>7. CASE ApplyStep
  <2>1. /\ stage \in ApplyStages /\ UNCHANGED <<resolved, plans>>
        /\ stage' \in {"apply", "push", "point", "end"}
    BY <1>1, <1>7, ApplyShape, FailsMovesOn, DoneMovesOn DEF MovesOn, Enters
  <2>2. \A r \in Repo, v \in Rev : placed[r][v] # Absent => placed'[r][v] # Absent
    <3>1. ASSUME NEW m \in Manifest, Ships(m)
          PROVE  \A r \in Repo, v \in Rev : placed[r][v] # Absent => placed'[r][v] # Absent
      <4>1. m # Absent
        BY GitAssumption
      <4>2. QED
        BY <1>1, <3>1, <4>1 DEF Ships, Inv, HeldOK
    <3>2. QED
      BY <1>7, <3>1, ApplyShape DEF Untouched, Points
  <2>3. \A r \in Repo, v \in Rev : r # repo => placed'[r][v] = placed[r][v]
    <3>1. ASSUME NEW m \in Manifest, Ships(m)
          PROVE  \A r \in Repo, v \in Rev : r # repo => placed'[r][v] = placed[r][v]
      BY <1>1, <3>1 DEF Ships, Inv, HeldOK
    <3>2. QED
      BY <1>7, <3>1, ApplyShape DEF Untouched, Points
  <2>4. \A r \in Repo : plans'[r] # Absent /\ plans'[r].placed =>
            plans'[r].rev \in Rev /\ placed'[r][plans'[r].rev] # Absent
    BY <2>1, <2>2 DEF Inv, PlanOK
  <2>5. ASSUME NEW i \in DOMAIN Repos, at' < i \/ (at' = i /\ stage' \in {"apply", "push"})
        PROVE  \/ at < i
               \/ at = i /\ stage \in {"apply", "push"} /\ placed' = placed
    <3>1. CASE MovesOn
      BY <1>1, <2>5, <3>1 DEF MovesOn
    <3>2. CASE Enters
      BY <1>1, <2>5, <3>2 DEF Enters, Untouched
    <3>3. CASE stage' = "point" /\ at' = at
      BY <2>5, <3>3
    <3>4. QED
      BY <1>1, <1>7, <3>1, <3>2, <3>3, ApplyShape, FailsMovesOn, DoneMovesOn
  <2>6. ASSUME NEW i \in DOMAIN Repos, at' < i \/ (at' = i /\ stage' \in {"apply", "push"}),
               plans'[Repos[i]] # Absent, ~plans'[Repos[i]].placed, plans'[Repos[i]].rev \in Rev
        PROVE  placed'[Repos[i]][plans'[Repos[i]].rev] = Absent
    <3>1. placed[Repos[i]][plans[Repos[i]].rev] = Absent
      BY <2>1, <2>5, <2>6 DEF Inv, PlanOK
    <3>2. CASE at < i
      <4>1. Repos[i] # repo
        BY <1>1, <3>2 DEF repo
      <4>2. QED
        BY <1>1, <2>1, <2>3, <2>6, <3>1, <4>1
    <3>3. CASE placed' = placed
      BY <2>1, <3>1, <3>3
    <3>4. QED
      BY <2>5, <2>6, <3>2, <3>3
  <2>7. ASSUME stage' = "point"
        PROVE  placed'[repo'][item'.rev] # Absent
    <3>1. PICK m \in Manifest : Ships(m) /\ at' = at
      BY <1>1, <1>7, <2>7, ApplyShape, FailsMovesOn, DoneMovesOn DEF MovesOn, Enters
    <3>2. m # Absent /\ repo' = repo /\ item' = item /\ item.rev \in Rev
      BY <2>1, <3>1, GitAssumption DEF repo, item, Ships
    <3>3. QED
      BY <1>1, <3>1, <3>2 DEF Ships, Inv, HeldOK
  <2>8. QED
    BY <2>1, <2>4, <2>6, <2>7 DEF PlanOK, PlanStages
<1>8. QED
  BY <1>2, <1>3, <1>4, <1>5, <1>6, <1>7, StepShape

\* What the run pushed for policies it is done with stays on record: destinations of one
\* policy are next to one another, so the run does not come back to it.
LEMMA OthersRecorded ==
  ASSUME Inv, stage \in ApplyStages, MovesOn, \A p \in Policy : p # pol => report'[p] = report[p],
         NEW i \in DOMAIN Repos, NEW v, PolicyOf[Repos[i]] # pol, i <= at, Recorded(i, v),
         placed'[Repos[i]][v] = placed[Repos[i]][v]
  PROVE  Recorded(i, v)'
<1> DEFINE p == PolicyOf[Repos[i]]
<1>1. /\ at \in DOMAIN Repos /\ at \in Nat /\ i \in Nat /\ p \in Policy /\ i # at
      /\ \A j \in DOMAIN Repos : j \in Nat
  BY Here DEF Inv, RunOK, pol, repo
<1>2. report[p].status = "failed" \/ Told(Repos[i], v, placed[Repos[i]][v], report[p].ops)
  BY <1>1 DEF Recorded, ApplyStages
<1>3. report'[p] = report[p]
  BY <1>1
<1>4. stage' = "end" \/ p # pol'
  <2>1. CASE stage' = "end"
    BY <2>1
  <2>2. CASE stage' # "end"
    <3>1. at' \in DOMAIN Repos /\ at < at' /\ i < at
      BY <1>1, <2>2 DEF MovesOn
    <3>2. p = PolicyOf[Repos[at']] => PolicyOf[Repos[at]] = p
      BY <1>1, <3>1, GitAssumption
    <3>3. QED
      BY <3>2 DEF pol, repo
  <2>3. QED
    BY <2>1, <2>2
<1>5. QED
  BY <1>2, <1>3, <1>4 DEF Recorded

\* And so does what it pushed for the policy it is at, in the operations or in the report.
LEMMA OwnRecorded ==
  ASSUME Inv, stage \in ApplyStages, MovesOn, NEW S,
         \/ stage' = "apply" /\ pol' = pol /\ ops' = S
         \/ (stage' = "end" \/ pol' # pol) /\ report' = [report EXCEPT ![pol] = [status |-> "ok", ops |-> S]],
         NEW i \in DOMAIN Repos, NEW v, PolicyOf[Repos[i]] = pol, i <= at,
         Told(Repos[i], v, placed[Repos[i]][v], S), placed'[Repos[i]][v] = placed[Repos[i]][v]
  PROVE  Recorded(i, v)'
<1>1. /\ at \in DOMAIN Repos /\ at \in Nat /\ i \in Nat /\ pol \in Policy
      /\ \A j \in DOMAIN Repos : j \in Nat
  BY Here DEF Inv, RunOK
<1>2. CASE stage' = "apply" /\ pol' = pol /\ ops' = S
  <2>1. i < at'
    BY <1>1, <1>2 DEF MovesOn
  <2>2. QED
    BY <1>2, <2>1 DEF Recorded, ApplyStages
<1>3. CASE (stage' = "end" \/ pol' # pol) /\ report' = [report EXCEPT ![pol] = [status |-> "ok", ops |-> S]]
  <2>1. report'[pol].ops = S
    BY <1>1, <1>3 DEF Inv, PushedOK
  <2>2. QED
    BY <1>3, <2>1 DEF Recorded
<1>4. QED
  BY <1>2, <1>3

\* What a step of the apply phase leaves on record of an earlier push.
LEMMA PushRecorded ==
  ASSUME Inv, ApplyStep, NEW i \in DOMAIN Repos, NEW v \in Rev, <<Repos[i], v>> \in pushed
  PROVE  Recorded(i, v)' /\ placed'[Repos[i]][v] = placed[Repos[i]][v] /\ i <= at'
<1>1. /\ at \in DOMAIN Repos /\ at \in Nat /\ i \in Nat /\ repo \in Repo /\ pol \in Policy
      /\ Repos[i] \in Repo /\ \A j \in DOMAIN Repos : j \in Nat
  BY Here DEF Inv, RunOK
<1>2. /\ stage \in ApplyStages /\ plans' = plans
      /\ placed[Repos[i]][v] # Absent /\ i <= at /\ Recorded(i, v)
  BY <1>1, ApplyShape DEF Inv, PushedOK
<1>3. placed'[Repos[i]][v] = placed[Repos[i]][v]
  <2>1. ASSUME NEW m \in Manifest, Ships(m)
        PROVE  placed'[Repos[i]][v] = placed[Repos[i]][v]
    <3>1. ~ (Repos[i] = repo /\ v = item.rev)
      BY <1>2, <2>1 DEF Ships
    <3>2. QED
      BY <1>1, <2>1, <3>1 DEF Ships, Inv, HeldOK
  <2>2. QED
    BY <2>1, ApplyShape DEF Untouched, Points
<1>4. ASSUME MovesOn PROVE i <= at'
  BY <1>1, <1>2, <1>4 DEF MovesOn
<1>5. CASE PolicyFails
  <2>1. /\ MovesOn /\ (stage' = "end" \/ pol' # pol)
        /\ report' = [report EXCEPT ![pol] = [status |-> "failed", ops |-> {}]]
    BY <1>1, <1>5, FailsMovesOn
  <2>2. report'[pol].status = "failed" /\ \A p \in Policy : p # pol => report'[p] = report[p]
    BY <1>1, <2>1 DEF Inv, PushedOK
  <2>3. CASE PolicyOf[Repos[i]] # pol
    BY <1>2, <1>3, <1>4, <2>1, <2>2, <2>3, OthersRecorded
  <2>4. CASE PolicyOf[Repos[i]] = pol
    BY <1>3, <1>4, <2>1, <2>2, <2>4 DEF Recorded
  <2>5. QED
    BY <2>3, <2>4
<1>6. ASSUME NEW S, TargetDone(S), stage = "point" => S = TargetOps
      PROVE  Recorded(i, v)' /\ i <= at'
  <2>1. /\ MovesOn
        /\ \/ stage' = "apply" /\ pol' = pol /\ ops' = ops \cup S /\ report' = report
           \/ /\ stage' = "end" \/ pol' # pol
              /\ report' = [report EXCEPT ![pol] = [status |-> "ok", ops |-> ops \cup S]]
    BY <1>1, <1>6, DoneMovesOn
  <2>2. \A p \in Policy : p # pol => report'[p] = report[p]
    BY <1>1, <2>1 DEF Inv, PushedOK
  <2>3. CASE PolicyOf[Repos[i]] # pol
    BY <1>2, <1>3, <1>4, <2>1, <2>2, <2>3, OthersRecorded
  <2>4. CASE PolicyOf[Repos[i]] = pol
    <3>1. Told(Repos[i], v, placed[Repos[i]][v], ops \cup S)
      <4>1. CASE stage = "point" /\ i = at /\ v = item.rev
        <5>1. fetched # Absent /\ Repos[i] = repo
          BY <4>1, GitAssumption DEF Inv, RunOK, repo
        <5>2. Op("imported", placed[repo][item.rev]) \in S
          BY <1>6, <4>1, <5>1 DEF TargetOps
        <5>3. QED
          BY <4>1, <5>1, <5>2 DEF Told, Op
      <4>2. CASE Told(Repos[i], v, placed[Repos[i]][v], ops)
        BY <4>2 DEF Told
      <4>3. QED
        BY <1>2, <2>4, <4>1, <4>2 DEF Recorded, ApplyStages
    <3>2. Recorded(i, v)'
      BY <1>2, <1>3, <2>1, <2>4, <3>1, OwnRecorded
    <3>3. QED
      BY <1>4, <2>1, <3>2
  <2>5. QED
    BY <2>3, <2>4
<1>7. CASE stage # "point" /\ stage' \in ApplyStages /\ UNCHANGED <<at, ops, report>>
  <2>1. pol' = pol
    BY <1>7 DEF pol, repo
  <2>2. Recorded(i, v)'
    BY <1>2, <1>3, <1>7, <2>1 DEF Recorded, ApplyStages
  <2>3. QED
    BY <1>2, <1>3, <1>7, <2>2
<1>8. QED
  BY <1>3, <1>5, <1>6, <1>7, ApplyShape DEF Enters, Ships, ApplyStages

\* The operations are well formed.
LEMMA StepOps ==
  ASSUME Inv, ApplyStep
  PROVE  ops' \subseteq Operation /\ report' \in [Policy -> {Absent} \cup Outcome]
<1>1. /\ at \in DOMAIN Repos /\ repo \in Repo /\ pol \in Policy /\ stage \in ApplyStages
      /\ ops \subseteq Operation /\ report \in [Policy -> {Absent} \cup Outcome]
  BY Here, ApplyShape DEF Inv, RunOK, PushedOK
<1>2. item \in PlanItem
  BY <1>1 DEF Inv, RunOK, item, repo
<1>3. item.rev \in Rev \cup {TagObject}
  BY <1>2 DEF PlanItem
<1>4. \A k \in {"imported", "aliased", "skipped"}, out \in Manifest \cup {Absent} : Op(k, out) \in Operation
  BY <1>1, <1>3 DEF Op, Operation
<1>5. ASSUME NEW S \in SUBSET Operation, TargetDone(S)
      PROVE  ops' \subseteq Operation /\ report' \in [Policy -> {Absent} \cup Outcome]
  <2>1. [status |-> "ok", ops |-> ops \cup S] \in Outcome
    BY <1>1 DEF Outcome
  <2>2. QED
    BY <1>1, <1>5, <2>1, DoneMovesOn
<1>6. CASE PolicyFails
  <2>1. [status |-> "failed", ops |-> {}] \in Outcome
    BY DEF Outcome
  <2>2. QED
    BY <1>1, <1>6, <2>1, FailsMovesOn
<1>7. CASE TargetDone({Op("skipped", Absent)})
  <2>1. {Op("skipped", Absent)} \in SUBSET Operation
    BY <1>4
  <2>2. QED
    BY <1>5, <1>7, <2>1
<1>8. CASE Points /\ TargetDone(TargetOps)
  <2>1. placed[repo][item.rev] \in Manifest
    BY <1>1, <1>8 DEF Points, Inv, HeldOK
  <2>2. TargetOps \in SUBSET Operation
    BY <1>4, <2>1 DEF TargetOps
  <2>3. QED
    BY <1>5, <1>8, <2>2
<1>9. CASE UNCHANGED <<ops, report>>
  BY <1>1, <1>9
<1>10. QED
  BY <1>6, <1>7, <1>8, <1>9, ApplyShape DEF Enters

LEMMA StepPushed ==
  ASSUME Inv, [Next]_vars
  PROVE  PushedOK'
<1>1. at \in DOMAIN Repos /\ repo \in Repo /\ at \in Nat
  BY Here DEF Inv, RunOK
<1>2. CASE UNCHANGED <<destVars, runVars>>
  BY <1>2 DEF Inv, PushedOK, Recorded, runVars, destVars, item, pol, repo
<1>3. CASE RunDies
  BY <1>3 DEF RunDies, PushedOK, ApplyStages
<1>4. CASE RunStarts \/ ResolveRef \/ List \/ ReadAlias
  <2>1. pushed = {} /\ UNCHANGED <<ops, report, pushed>>
    BY <1>4 DEF RunStarts, ResolveRef, List, ReadAlias, Reading, Inv, PushedOK, ApplyStages
  <2>2. QED
    BY <2>1 DEF Inv, PushedOK
<1>5. CASE ApplyStep
  <2>1. ops' \subseteq Operation /\ report' \in [Policy -> {Absent} \cup Outcome]
    BY <1>5, StepOps
  <2>2. stage' \in ApplyStages \cup {"end"}
    BY <1>1, <1>5, ApplyShape, FailsMovesOn, DoneMovesOn DEF MovesOn, Enters, ApplyStages
  <2>3. pushed' \subseteq Repo \X Rev
    BY <1>1, <1>5, ApplyShape DEF Untouched, Points, Ships, Inv, PushedOK
  <2>4. ASSUME NEW i \in DOMAIN Repos, NEW v \in Rev, <<Repos[i], v>> \in pushed'
        PROVE  placed'[Repos[i]][v] # Absent /\ i <= at' /\ Recorded(i, v)'
    <3>1. CASE <<Repos[i], v>> \in pushed
      BY <1>5, <3>1, PushRecorded DEF Inv, PushedOK
    <3>2. CASE <<Repos[i], v>> \notin pushed
      <4>1. PICK m \in Manifest : Ships(m)
        BY <1>5, <2>4, <3>2, ApplyShape DEF Untouched, Points
      <4>2. i = at /\ v = item.rev /\ m # Absent /\ Repos[i] = repo
        BY <1>1, <2>4, <3>2, <4>1, Here, GitAssumption DEF Ships, repo
      <4>3. placed'[Repos[i]][v] # Absent
        BY <1>1, <4>1, <4>2 DEF Ships, Inv, HeldOK
      <4>4. CASE stage' = "point" /\ at' = at
        <5>1. item' = item
          BY <1>5, <4>4, ApplyShape DEF item, repo
        <5>2. QED
          BY <1>1, <4>2, <4>3, <4>4, <5>1 DEF Recorded
      <4>5. CASE PolicyFails
        <5>1. MovesOn /\ (stage' = "end" \/ pol' # pol) /\ report'[pol].status = "failed" /\ at <= at'
          BY <1>1, <4>5, FailsMovesOn, Here DEF MovesOn, Inv, PushedOK
        <5>2. QED
          BY <4>2, <4>3, <5>1 DEF Recorded, pol
      <4>6. QED
        BY <1>5, <4>1, <4>4, <4>5, ApplyShape DEF Ships, Points, Enters
    <3>3. QED
      BY <3>1, <3>2
  <2>5. QED
    BY <2>1, <2>2, <2>3, <2>4 DEF PushedOK
<1>6. QED
  BY <1>2, <1>3, <1>4, <1>5, StepShape

LEMMA InvAlways == Spec => []Inv
<1>1. Inv /\ [Next]_vars => Inv'
  BY StepUpstream, StepHeld, StepRun, StepPlan, StepPushed DEF Inv
<1>2. QED
  BY <1>1, InvInit, PTL DEF Spec

-----------------------------------------------------------------------------
(***************************************************************************)
(* For every batch, every variable stays in its range (TypeOK).            *)
(***************************************************************************)
THEOREM GitTypeCorrect == Spec => []TypeOK
<1>1. Inv => TypeOK
  BY DEF Inv, HeldOK, RunOK, TypeOK, PlanStages, ApplyStages
<1>2. QED
  BY <1>1, InvAlways, PTL

(***************************************************************************)
(* For every batch, however upstream moves its refs while a run plans and  *)
(* packages, and wherever calls fail and pods are lost, the artifact under *)
(* a revision's tag is stamped with that revision (RevisionTagsTruthful).  *)
(***************************************************************************)
THEOREM TagsTruthful == Spec => []RevisionTagsTruthful
<1>1. Inv => RevisionTagsTruthful
  BY DEF Inv, HeldOK, RevisionTagsTruthful
<1>2. QED
  BY <1>1, InvAlways, PTL

(***************************************************************************)
(* No run, retry or repair pushes over a revision's tag that is there      *)
(* (RevisionTagImmutable), although each run decides what to push from a   *)
(* listing made before it pushed anything: a destination is in the batch   *)
(* once, so what a run places elsewhere never spoils its plan (PlanOK).    *)
(***************************************************************************)
THEOREM TagsImmutable == Spec => RevisionTagImmutable
<1>1. Inv /\ [Next]_vars => [\A r \in Repo, v \in Rev : placed[r][v] # Absent => placed'[r][v] = placed[r][v]]_vars
  <2> SUFFICES ASSUME Inv, [Next]_vars, NEW r \in Repo, NEW v \in Rev, placed[r][v] # Absent
               PROVE  placed'[r][v] = placed[r][v]
    OBVIOUS
  <2>1. ASSUME NEW m \in Manifest, Ships(m)
        PROVE  placed'[r][v] = placed[r][v]
    BY <2>1, Here DEF Ships, Inv, HeldOK, RunOK
  <2>2. QED
    BY <2>1, ReadsLeave, ApplyShape DEF Untouched, Points
<1>2. QED
  BY <1>1, InvAlways, PTL DEF Spec, RevisionTagImmutable

(***************************************************************************)
(* Whoever follows the ref's name lands on an artifact that its revision's *)
(* tag also names (AliasNotAhead).                                         *)
(***************************************************************************)
THEOREM AliasFollows == Spec => []AliasNotAhead
<1>1. Inv => AliasNotAhead
  BY DEF Inv
<1>2. QED
  BY <1>1, InvAlways, PTL

(***************************************************************************)
(* The report loses nothing (PlacedIsReported): wherever a policy fails,   *)
(* what the run pushed is an operation with its digest in the report, or   *)
(* its policy is reported as failed.                                       *)
(***************************************************************************)
THEOREM ReportsWhatItPlaced == Spec => []PlacedIsReported
<1>1. Inv => PlacedIsReported
  <2> SUFFICES ASSUME Inv, stage = "end", NEW r \in Repo, NEW v \in Rev, <<r, v>> \in pushed
               PROVE  \/ report[PolicyOf[r]].status = "failed"
                      \/ Told(r, v, placed[r][v], report[PolicyOf[r]].ops)
    BY DEF PlacedIsReported, Told
  <2>1. PICK i \in DOMAIN Repos : r = Repos[i]
    BY DEF Repo, Range
  <2>2. Recorded(i, v)
    BY <2>1 DEF Inv, PushedOK
  <2>3. QED
    BY <2>1, <2>2 DEF Recorded, ApplyStages
<1>2. QED
  BY <1>1, InvAlways, PTL

-----------------------------------------------------------------------------
(* What is placed is the whole of the revision.                            *)

\* Beyond a strict prefix: what is left of the path, and how it is put together again.
LEMMA Beyond ==
  ASSUME NEW dir \in Seq(Name), NEW path \in Seq(Name), IsStrictPrefix(dir, path),
         NEW rest, rest = SubSeq(path, Len(dir) + 1, Len(path))
  PROVE  /\ rest \in Seq(Name) /\ dir \o rest = path
         /\ Git \notin Range(rest) <=> \A i \in DOMAIN path : i > Len(dir) => path[i] # Git
<1>1. /\ Len(dir) \in Nat /\ Len(path) \in Nat /\ DOMAIN path = 1 .. Len(path)
      /\ \A i \in 1 .. Len(path) : path[i] \in Name
  BY LenProperties, ElementOfSeq
<1>2. Len(dir) <= Len(path) /\ SubSeq(dir, 1, Len(dir)) = SubSeq(path, 1, Len(dir))
  BY DEF IsStrictPrefix, IsPrefix
<1>3. /\ rest \in Seq(Name) /\ Len(rest) = Len(path) - Len(dir)
      /\ \A i \in 1 .. Len(path) - Len(dir) : rest[i] = path[Len(dir) + i]
  <2>1. \A i \in Len(dir) + 1 .. Len(path) : path[i] \in Name
    BY <1>1
  <2>2. /\ rest \in Seq(Name)
        /\ Len(rest) = IF Len(dir) + 1 <= Len(path) THEN Len(path) - (Len(dir) + 1) + 1 ELSE 0
        /\ \A i \in 1 .. Len(path) - (Len(dir) + 1) + 1 : rest[i] = path[Len(dir) + 1 + i - 1]
    BY <1>1, <2>1, SubSeqProperties
  <2>3. QED
    BY <1>1, <1>2, <2>2
<1>4. \A i \in 1 .. Len(dir) : dir[i] = path[i]
  <2>1. \A i \in 1 .. Len(dir) : SubSeq(dir, 1, Len(dir))[i] = dir[i]
    BY SubSeqFull
  <2>2. \A i \in 1 .. Len(dir) : SubSeq(path, 1, Len(dir))[i] = path[i]
    <3>1. \A i \in 1 .. Len(dir) : path[i] \in Name
      BY <1>1, <1>2
    <3>2. \A i \in 1 .. Len(dir) - 1 + 1 : SubSeq(path, 1, Len(dir))[i] = path[1 + i - 1]
      BY <1>1, <3>1, SubSeqProperties
    <3>3. QED
      BY <1>1, <3>2
  <2>3. QED
    BY <1>2, <2>1, <2>2
<1>5. dir \o rest = path
  <2>1. /\ dir \o rest \in Seq(Name) /\ Len(dir \o rest) = Len(dir) + Len(rest)
        /\ \A i \in 1 .. Len(dir) + Len(rest) : (dir \o rest)[i] = IF i <= Len(dir) THEN dir[i] ELSE rest[i - Len(dir)]
    BY <1>3, ConcatProperties
  <2>2. \A i \in 1 .. Len(path) : (dir \o rest)[i] = path[i]
    <3> SUFFICES ASSUME NEW i \in 1 .. Len(path) PROVE (dir \o rest)[i] = path[i]
      OBVIOUS
    <3>1. CASE i <= Len(dir)
      BY <1>1, <1>2, <1>3, <1>4, <2>1, <3>1
    <3>2. CASE i > Len(dir)
      <4>1. i - Len(dir) \in 1 .. Len(path) - Len(dir) /\ Len(dir) + (i - Len(dir)) = i
        BY <1>1, <1>2, <3>2
      <4>2. rest[i - Len(dir)] = path[i]
        BY <1>3, <4>1
      <4>3. QED
        BY <1>1, <1>3, <2>1, <3>2, <4>2
    <3>3. QED
      BY <1>1, <3>1, <3>2
  <2>3. QED
    BY <1>1, <1>3, <2>1, <2>2, SeqEqual
<1>6. Git \notin Range(rest) <=> \A i \in DOMAIN path : i > Len(dir) => path[i] # Git
  <2>1. DOMAIN rest = 1 .. Len(path) - Len(dir)
    BY <1>3, LenProperties
  <2>2. ASSUME NEW i \in DOMAIN path, i > Len(dir), path[i] = Git
        PROVE  Git \in Range(rest)
    <3>1. i - Len(dir) \in DOMAIN rest /\ rest[i - Len(dir)] = path[i]
      <4>1. i - Len(dir) \in 1 .. Len(path) - Len(dir) /\ Len(dir) + (i - Len(dir)) = i
        BY <1>1, <1>2, <2>2
      <4>2. QED
        BY <1>3, <2>1, <4>1
    <3>2. QED
      BY <2>2, <3>1 DEF Range
  <2>3. ASSUME Git \in Range(rest)
        PROVE  \E i \in DOMAIN path : i > Len(dir) /\ path[i] = Git
    <3>1. PICK j \in DOMAIN rest : rest[j] = Git
      BY <2>3 DEF Range
    <3>2. j \in 1 .. Len(path) - Len(dir)
      BY <2>1, <3>1
    <3>3. path[Len(dir) + j] = Git
      BY <1>3, <3>1, <3>2
    <3>4. Len(dir) + j \in DOMAIN path /\ Len(dir) + j > Len(dir)
      BY <1>1, <3>2
    <3>5. QED
      BY <3>3, <3>4
  <2>4. QED
    BY <2>2, <2>3
<1>7. QED
  BY <1>3, <1>5, <1>6

File == [path : Seq(Name), size : Nat, link : BOOLEAN, exec : BOOLEAN]

\* The packaged file of a file of the checkout, in the policy's part of it.
Stripped(p, f, g) ==
    /\ IsStrictPrefix(Path[p], f.path) /\ Path[p] \o g.path = f.path
    /\ g.size = f.size /\ g.link = f.link
    /\ Git \notin Range(g.path) <=> \A i \in DOMAIN f.path : i > Len(Path[p]) => f.path[i] # Git

LEMMA CheckoutFiles ==
  ASSUME NEW v \in Rev, NEW f \in Checkout(TreeOf[v])
  PROVE  f \in File /\ f.path # <<>>
<1>1. Metadata \in File /\ Metadata.path # <<>>
  <2>1. {Git, "config"} \subseteq Name
    BY ArchiveAssumption
  <2>2. <<Git, "config">> \in Seq(Name)
    BY <2>1
  <2>3. <<Git, "config">> # <<>>
    OBVIOUS
  <2>4. QED
    BY <2>2, <2>3 DEF Metadata, File
<1>2. IsTree(TreeOf[v])
  BY GitAssumption
<1>3. ASSUME f \in TreeOf[v]
      PROVE  f \in File /\ f.path # <<>>
  <2>1. f \in [path : Seq(Name) \ {<<>>}, size : Nat, link : BOOLEAN, exec : BOOLEAN]
    BY <1>2, <1>3 DEF IsTree
  <2>2. QED
    BY <2>1 DEF File
<1>4. QED
  BY <1>1, <1>3 DEF Checkout

\* fetch hands out each file of the policy's part of the checkout, and nothing else.
LEMMA FilesOfPart ==
  ASSUME NEW p \in Policy, NEW v \in Rev
  PROVE  /\ \A g \in Files(p, v) : \E f \in Checkout(TreeOf[v]) : Stripped(p, f, g)
         /\ \A f \in Checkout(TreeOf[v]) : IsStrictPrefix(Path[p], f.path) => \E g \in Files(p, v) : Stripped(p, f, g)
<1> DEFINE dir == Path[p]
<1>1. dir \in Seq(Name)
  BY GitAssumption
<1>2. ASSUME NEW f \in File, NEW g \in File, IsStrictPrefix(dir, f.path), g.size = f.size, g.link = f.link,
             g.path = SubSeq(f.path, Len(dir) + 1, Len(f.path))
      PROVE  Stripped(p, f, g)
  <2>1. f.path \in Seq(Name)
    BY DEF File
  <2> DEFINE path == f.path
             rest == g.path
  <2>2. path \in Seq(Name) /\ IsStrictPrefix(dir, path) /\ rest = SubSeq(path, Len(dir) + 1, Len(path))
    BY <1>2, <2>1
  <2> HIDE DEF dir, path, rest
  <2>3. /\ dir \o rest = path
        /\ Git \notin Range(rest) <=> \A i \in DOMAIN path : i > Len(dir) => path[i] # Git
    BY <1>1, <2>2, Beyond
  <2> USE DEF dir, path, rest
  <2>4. QED
    BY <1>2, <2>3 DEF Stripped
<1>3. CASE dir = <<>>
  <2>1. Files(p, v) = Checkout(TreeOf[v])
    BY <1>3 DEF Files
  <2>2. ASSUME NEW f \in Checkout(TreeOf[v])
        PROVE  Stripped(p, f, f)
    <3>1. f \in File /\ f.path # <<>> /\ f.path \in Seq(Name)
      BY CheckoutFiles DEF File
    <3>2. Len(dir) = 0 /\ Len(f.path) \in Nat
      BY <1>3, <3>1, LenProperties
    <3>3. SubSeq(dir, 1, 0) = <<>> /\ SubSeq(f.path, 1, 0) = <<>>
      BY SubSeqEmpty
    <3>4. IsStrictPrefix(dir, f.path)
      BY <1>3, <3>1, <3>2, <3>3 DEF IsStrictPrefix, IsPrefix
    <3>5. f.path = SubSeq(f.path, Len(dir) + 1, Len(f.path))
      BY <3>1, <3>2, SubSeqFull
    <3>6. QED
      BY <1>2, <3>1, <3>4, <3>5
  <2>3. QED
    BY <2>1, <2>2
<1>4. CASE dir # <<>>
  <2>1. Files(p, v) = {[f EXCEPT !.path = SubSeq(f.path, Len(dir) + 1, Len(f.path))] :
                          f \in {g \in Checkout(TreeOf[v]) : IsStrictPrefix(dir, g.path)}}
    BY <1>4 DEF Files, Subdir
  <2>2. ASSUME NEW f \in Checkout(TreeOf[v]), IsStrictPrefix(dir, f.path),
               NEW g, g = [f EXCEPT !.path = SubSeq(f.path, Len(dir) + 1, Len(f.path))]
        PROVE  Stripped(p, f, g)
    <3>1. f \in File /\ f.path \in Seq(Name)
      BY CheckoutFiles DEF File
    <3>2. SubSeq(f.path, Len(dir) + 1, Len(f.path)) \in Seq(Name)
      BY <1>1, <2>2, <3>1, Beyond
    <3>3. g \in File /\ g.size = f.size /\ g.link = f.link /\ g.path = SubSeq(f.path, Len(dir) + 1, Len(f.path))
      BY <2>2, <3>1, <3>2 DEF File
    <3>4. QED
      BY <1>2, <2>2, <3>1, <3>3
  <2>3. QED
    BY <2>1, <2>2
<1>5. QED
  BY <1>3, <1>4

\* Unless the policy's directory is of the metadata, no metadata is in its part.
LEMMA NoMetadata ==
  ASSUME NEW p \in Policy, Git \notin Range(Path[p]), NEW v \in Rev, NEW f \in Checkout(TreeOf[v]),
         NEW g \in File, Stripped(p, f, g), Git \notin Range(g.path)
  PROVE  f \in TreeOf[v] /\ \A i \in DOMAIN f.path : i > Len(Path[p]) => f.path[i] # Git
<1>1. \A i \in DOMAIN f.path : i > Len(Path[p]) => f.path[i] # Git
  BY DEF Stripped
<1>2. f.path # <<Git, "config">>
  <2> SUFFICES ASSUME f.path = <<Git, "config">> PROVE FALSE
    OBVIOUS
  <2>1. 1 \in DOMAIN f.path /\ f.path[1] = Git
    <3>1. 1 \in DOMAIN <<Git, "config">> /\ <<Git, "config">>[1] = Git
      OBVIOUS
    <3>2. QED
      BY <3>1
  <2>2. Path[p] \in Seq(Name) /\ g.path \in Seq(Name)
    BY GitAssumption DEF File
  <2>3. Len(Path[p]) \in Nat /\ DOMAIN Path[p] = 1 .. Len(Path[p])
    BY <2>2, LenProperties
  <2>4. Len(Path[p]) >= 1
    BY <1>1, <2>1, <2>3
  <2>5. (Path[p] \o g.path)[1] = Path[p][1]
    <3>1. Len(g.path) \in Nat
      BY <2>2, LenProperties
    <3>2. \A m, n \in Nat : m >= 1 => 1 \in 1 .. m + n
      OBVIOUS
    <3>3. 1 \in 1 .. Len(Path[p]) + Len(g.path)
      BY <2>3, <2>4, <3>1, <3>2
    <3>4. (Path[p] \o g.path)[1] = IF 1 <= Len(Path[p]) THEN Path[p][1] ELSE g.path[1 - Len(Path[p])]
      BY <2>2, <3>3, ConcatProperties
    <3>5. QED
      BY <2>3, <2>4, <3>4
  <2>6. Path[p][1] = Git /\ 1 \in DOMAIN Path[p]
    BY <2>1, <2>3, <2>4, <2>5 DEF Stripped
  <2>7. QED
    BY <2>6 DEF Range
<1>3. f # Metadata
  BY <1>2 DEF Metadata
<1>4. QED
  BY <1>1, <1>3 DEF Checkout

\* One regular member, of the same size, for each wanted file and for nothing else.
WholeOf(r, dir, v, files) ==
    /\ {dir \o e.path : e \in files} = {f.path : f \in Wanted(r, v)}
    /\ \A f \in Wanted(r, v) : ~f.link
    /\ \A e \in files : \E f \in Wanted(r, v) : f.path = dir \o e.path /\ f.size = e.size
    /\ \A d, e \in files : Member(d.path) = Member(e.path) => d = e

\* The archive of accepted files that were written is the whole of the policy's part.
LEMMA PackedIsWhole ==
  ASSUME NEW r \in Repo, NEW p \in Policy, p = PolicyOf[r], Git \notin Range(Path[p]), NEW v \in Rev,
         NEW files, Packed(p, v, files)
  PROVE  WholeOf(r, Path[p], v, files)
<1> DEFINE walked == Walk(Files(p, v))
<1>1. files = Planned(walked) /\ Accepts(walked) /\ Writable(Files(p, v), files) /\ Files(p, v) \subseteq File
  BY FilesAreFiles DEF Packed, File
<1>2. Wanted(r, v) = {f \in TreeOf[v] : /\ IsStrictPrefix(Path[p], f.path)
                                         /\ \A i \in DOMAIN f.path : i > Len(Path[p]) => f.path[i] # Git}
  BY DEF Wanted
<1>3. ASSUME NEW g \in Files(p, v)
      PROVE  Describe(g).path = g.path /\ Describe(g).link = g.link
  BY <1>1 DEF Describe, File
<1>4. \A h \in walked : \E g \in Files(p, v) : h = Describe(g) /\ Git \notin Range(g.path) /\ h.path = g.path
  BY <1>3 DEF Walk
<1>5. \A e \in files : \E h \in walked : e = [path |-> h.path, mode |-> IF h.exec THEN "rwx" ELSE "rw", size |-> h.size]
  BY <1>1 DEF Planned
<1>6. ASSUME NEW h \in walked
      PROVE  \E e \in files : e.path = h.path
  <2> DEFINE entry == [path |-> h.path, mode |-> IF h.exec THEN "rwx" ELSE "rw", size |-> h.size]
  <2>1. entry \in files
    BY <1>1 DEF Planned
  <2>2. entry.path = h.path
    OBVIOUS
  <2>3. QED
    BY <2>1, <2>2
<1>7. ASSUME NEW g \in Files(p, v), Git \notin Range(g.path)
      PROVE  \E f \in Wanted(r, v) : f.path = Path[p] \o g.path /\ f.size = g.size
  <2>1. PICK f \in Checkout(TreeOf[v]) : Stripped(p, f, g)
    BY FilesOfPart
  <2>2. f \in TreeOf[v] /\ \A i \in DOMAIN f.path : i > Len(Path[p]) => f.path[i] # Git
    BY <1>1, <1>7, <2>1, NoMetadata
  <2>3. f \in Wanted(r, v)
    BY <1>2, <2>1, <2>2 DEF Stripped
  <2>4. QED
    BY <2>1, <2>3 DEF Stripped
<1>8. ASSUME NEW f \in Wanted(r, v)
      PROVE  ~f.link /\ \E e \in files : f.path = Path[p] \o e.path
  <2>1. PICK g \in Files(p, v) : Stripped(p, f, g)
    BY <1>2, FilesOfPart DEF Checkout
  <2>2. Git \notin Range(g.path) /\ g.link = f.link /\ Path[p] \o g.path = f.path
    BY <1>2, <2>1 DEF Stripped
  <2>3. Describe(g) \in walked
    BY <2>2 DEF Walk
  <2>4. ~Describe(g).link
    BY <1>1, <2>3 DEF Accepts, HasLink
  <2>5. PICK e \in files : e.path = Describe(g).path
    BY <1>6, <2>3
  <2>6. Describe(g).path = g.path /\ Describe(g).link = g.link
    BY <1>3
  <2>7. QED
    BY <2>2, <2>4, <2>5, <2>6
<1> HIDE DEF walked
<1>9. ASSUME NEW e \in files
      PROVE  \E f \in Wanted(r, v) : f.path = Path[p] \o e.path /\ f.size = e.size
  <2>1. PICK g \in Files(p, v) : g.path = e.path /\ g.size = e.size
    BY <1>1 DEF Writable
  <2>2. Git \notin Range(g.path)
    BY <1>4, <1>5, <2>1
  <2>3. QED
    BY <1>7, <2>1, <2>2
<1>10. \A d, e \in files : Member(d.path) = Member(e.path) => d = e
  <2> SUFFICES ASSUME NEW d \in files, NEW e \in files, Member(d.path) = Member(e.path)
               PROVE  d = e
    OBVIOUS
  <2>1. PICK h \in walked : d = [path |-> h.path, mode |-> IF h.exec THEN "rwx" ELSE "rw", size |-> h.size]
    BY <1>5
  <2>2. PICK k \in walked : e = [path |-> k.path, mode |-> IF k.exec THEN "rwx" ELSE "rw", size |-> k.size]
    BY <1>5
  <2>3. h = k
    BY <1>1, <2>1, <2>2 DEF Accepts, Collides
  <2>4. QED
    BY <2>1, <2>2, <2>3
<1>11. {Path[p] \o e.path : e \in files} = {f.path : f \in Wanted(r, v)}
  <2>1. \A e \in files : \E f \in Wanted(r, v) : Path[p] \o e.path = f.path
    BY <1>9
  <2>2. \A f \in Wanted(r, v) : \E e \in files : f.path = Path[p] \o e.path
    BY <1>8
  <2>3. QED
    BY <2>1, <2>2
<1>12. QED
  BY <1>8, <1>9, <1>10, <1>11 DEF WholeOf

(***************************************************************************)
(* What is placed under a revision's tag is the whole of that revision and *)
(* nothing else (PlacedWhole): for every tree and every sub-directory that *)
(* is not within .git, packaging drops, adds and renames nothing, and what *)
(* it cannot carry (a link, two names that fold to one) it refuses.        *)
(***************************************************************************)
THEOREM PlacesTheWhole ==
  ASSUME \A p \in Policy : Git \notin Range(Path[p])
  PROVE  Spec => []PlacedWhole
<1>1. Inv => PlacedWhole
  <2> SUFFICES ASSUME Inv, NEW r \in Repo, NEW v \in Rev, placed[r][v] # Absent
               PROVE  WholeOf(r, Path[PolicyOf[r]], v, placed[r][v].files)
    BY DEF PlacedWhole, WholeOf
  <2>1. PolicyOf[r] \in Policy /\ Packed(PolicyOf[r], v, placed[r][v].files)
    BY GitAssumption DEF Inv, HeldOK, Policy, Range
  <2>2. QED
    BY <2>1, PackedIsWhole
<1>2. QED
  BY <1>1, InvAlways, PTL
=============================================================================
