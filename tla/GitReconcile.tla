---------------------------- MODULE GitReconcile ----------------------------
(***************************************************************************)
(* The git side of `knock reconcile': GitPlanner.plan and apply            *)
(* (use_cases/reconcile_git.py), intake_skill (use_cases/intake.py) and    *)
(* the git adapter, over the repositories of all the policies of a batch.  *)
(* A run resolves each policy's ref, reads what its destinations hold and  *)
(* then packages and pushes what is missing; one call is one step.  Any    *)
(* call can fail, a push or a copy also after it took effect; the pod can  *)
(* be lost; upstream moves its refs meanwhile.  KNOCK_LABEL_PREFIX is set, *)
(* and dry runs, which only read, are left out.                            *)
(***************************************************************************)
EXTENDS SkillArchive

CONSTANTS Repos,        (* destination repositories, in plan order                    *)
          PolicyOf,     (* the policy each belongs to                                 *)
          Path,         (* each policy's sub-directory; <<>> for the root             *)
          Qualified,    (* policies that spell their ref refs/tags/...                *)
          Rev,          (* commits                                                    *)
          TreeOf,       (* the tree of each commit                                    *)
          RevsOf,       (* the commits of each policy's upstream                      *)
          TagObject,    (* the id of an annotated tag: not a commit's                 *)
          Absent, ByHand,  (* no manifest; a manifest that carries no stamp           *)
          Taken,        (* repositories where the ref's name was given by hand        *)
          MaxMoves, MaxFaults  (* bounds: ref moves; failed calls and lost pods              *)

Repo   == Range(Repos)
Policy == Range(PolicyOf)

\* What is pushed for a revision: its stamp, its files, and a creation time of which only
\* this is kept: two pushes in a row differ in it.
Manifest == [stamp : Rev, created : 0 .. 1,
             files : SUBSET [path : Seq(Name), mode : {"rwx", "rw"}, size : Nat]]

\* What a destination is planned to need.
PlanItem == [rev : Rev \cup {TagObject}, placed : BOOLEAN, current : BOOLEAN]

ASSUME GitAssumption ==
    /\ Repos \in Seq(Repo) \ {<<>>} /\ IsInjective(Repos) /\ DOMAIN PolicyOf = Repo
    \* Destinations of one policy are planned one after the other.
    /\ \A i, j, k \in DOMAIN Repos :
          i < j /\ j < k /\ PolicyOf[Repos[i]] = PolicyOf[Repos[k]] => PolicyOf[Repos[j]] = PolicyOf[Repos[i]]
    /\ Path \in [Policy -> Seq(Name)] /\ Qualified \subseteq Policy
    /\ DOMAIN TreeOf = Rev /\ \A r \in Rev : IsTree(TreeOf[r])
    /\ Taken \subseteq Repo
    /\ RevsOf \in [Policy -> SUBSET Rev]
    /\ TagObject \notin Rev /\ \A x \in {Absent, ByHand} : x \notin Rev \cup {TagObject} \cup Manifest \cup PlanItem
    /\ {MaxMoves, MaxFaults} \subseteq Nat

VARIABLES upstream,   \* per policy: what its ref's name is a branch and a tag of
          placed,     \* destination: the manifest under sha-<rev>, or Absent
          alias       \* destination: the manifest under the ref's name

VARIABLES stage,      \* "idle", "resolve", "list", "read", "apply", "push", "point", "end"
          at,         \* index into Repos
          resolved,   \* the revision the current policy's ref was resolved to
          plans,      \* per repository: [rev, placed, current], or Absent
          fetched,    \* the commit the last fetch landed on
          ops,        \* operations of the policy being applied
          report      \* per policy: [status, ops]

VARIABLES pushed,     \* auxiliary: <<repository, revision>> this run has pushed
          moves, faults

worldVars == <<upstream, moves>>
destVars  == <<placed, alias>>
runVars   == <<stage, at, resolved, plans, fetched, ops, report, pushed>>
vars      == <<worldVars, destVars, runVars, faults>>

Fault == faults < MaxFaults /\ faults' = faults + 1

repo == Repos[at]
pol  == PolicyOf[repo]

\* What a name can be upstream: a branch, a tag, or both.
Hosted(p) == {u \in [branch : RevsOf[p] \cup {Absent}, tag : RevsOf[p] \cup {Absent},
                     annotated : BOOLEAN] :
                 /\ u.tag = Absent => u.branch # Absent /\ ~u.annotated /\ p \notin Qualified}

\* The commit a fetch of the ref lands on: git prefers the tag, and peels it.
FetchTip(p) == IF upstream[p].tag # Absent THEN upstream[p].tag ELSE upstream[p].branch

\* What ls-remote lists, in resolve's order of precedence: the peeled tag, the tag, the
\* branch, and the name as it is spelled.
TagId(u) == IF u.annotated THEN TagObject ELSE u.tag

Candidates(p) ==
    LET u == upstream[p]
    IN  IF p \in Qualified THEN <<Absent, Absent, Absent, TagId(u)>>
        ELSE <<IF u.annotated THEN u.tag ELSE Absent, TagId(u), u.branch, Absent>>

FirstOf(candidates) == candidates[SelectInSeq(candidates, LAMBDA c : c # Absent)]

Resolve(p) == FirstOf(Candidates(p))

-----------------------------------------------------------------------------
Upstreams == {u \in [Policy -> UNION {Hosted(p) : p \in Policy}] : \A p \in Policy : u[p] \in Hosted(p)}

\* The first run finds a branch upstream, and repositories knock has not written to.
Init ==
    /\ upstream \in {u \in Upstreams : \A p \in Policy \ Qualified : u[p].tag = Absent}
    /\ placed = [r \in Repo |-> [v \in Rev |-> Absent]]
    /\ alias = [r \in Repo |-> IF r \in Taken THEN ByHand ELSE Absent]
    /\ stage = "idle" /\ at = 1 /\ resolved = Absent /\ fetched = Absent
    /\ plans = [r \in Repo |-> Absent]
    /\ ops = {} /\ report = [p \in Policy |-> Absent] /\ pushed = {}
    /\ moves = 0 /\ faults = 0

-----------------------------------------------------------------------------
(* The plan phase.                                                         *)

Reading == UNCHANGED <<worldVars, destVars, fetched, ops, report, pushed>>

RunStarts ==
    /\ stage = "idle" /\ stage' = "resolve" /\ at' = 1
    /\ UNCHANGED <<resolved, plans, faults>> /\ Reading

\* Once per policy, and no fetch.
ResolveRef ==
    /\ stage = "resolve"
    /\ resolved' = Resolve(pol) /\ stage' = "list"
    /\ UNCHANGED <<at, plans, faults>> /\ Reading

\* The next destination is planned, or the batch is complete.
PlanNext ==
    IF at = Len(Repos) THEN stage' = "apply" /\ at' = 1
    ELSE /\ at' = at + 1
         /\ stage' = IF PolicyOf[Repos[at + 1]] = pol THEN "list" ELSE "resolve"

Plan(isPlaced, current) ==
    plans' = [plans EXCEPT ![repo] = [rev |-> resolved, placed |-> isPlaced, current |-> current]]

\* Faulty: what is placed is not looked at.
ListNothing ==
    /\ stage = "list" /\ Plan(FALSE, FALSE) /\ PlanNext
    /\ UNCHANGED <<resolved, faults>> /\ Reading

IsPlaced(r, v) == v \in Rev /\ placed[r][v] # Absent

\* Faulty: the revision being there is enough.
ListOnly ==
    /\ stage = "list" /\ Plan(IsPlaced(repo, resolved), IsPlaced(repo, resolved)) /\ PlanNext
    /\ UNCHANGED <<resolved, faults>> /\ Reading

\* list_tags.  The alias is read only where its stamp decides.
List ==
    /\ stage = "list"
    /\ IF IsPlaced(repo, resolved) /\ alias[repo] # Absent
       THEN stage' = "read" /\ UNCHANGED <<at, plans>>
       ELSE Plan(IsPlaced(repo, resolved), FALSE) /\ PlanNext
    /\ UNCHANGED <<resolved, faults>> /\ Reading

Designates(m, v) == m \notin {Absent, ByHand} /\ m.stamp = v

\* _alias_designates
ReadAlias ==
    /\ stage = "read"
    /\ Plan(TRUE, Designates(alias[repo], resolved)) /\ PlanNext
    /\ UNCHANGED <<resolved, faults>> /\ Reading

-----------------------------------------------------------------------------
(* The apply phase.                                                        *)

item == plans[repo]

\* Faulty: the index runs past the last destination.
OntoPast(i) == at' = i /\ stage' = IF i > Len(Repos) THEN "end" ELSE "apply"

\* The next destination with that index, or the end of the run.
Onto(i) == IF i > Len(Repos) THEN stage' = "end" /\ at' = at ELSE stage' = "apply" /\ at' = i

\* The destination is done; after its last one the policy is reported.
TargetDone(newOps) ==
    /\ Onto(at + 1)
    /\ fetched' = Absent
    /\ IF at < Len(Repos) /\ PolicyOf[Repos[at + 1]] = pol
       THEN ops' = ops \cup newOps /\ UNCHANGED report
       ELSE ops' = {} /\ report' = [report EXCEPT ![pol] = [status |-> "ok", ops |-> ops \cup newOps]]

\* Faulty: the failure is logged, and what was collected so far is the report.
PolicyGoesOn ==
    /\ Onto(Max({i \in DOMAIN Repos : PolicyOf[Repos[i]] = pol}) + 1)
    /\ fetched' = Absent /\ ops' = {}
    /\ report' = [report EXCEPT ![pol] = [status |-> "ok", ops |-> ops]]

\* The policy is reported failed with no operation at all, and the next one follows.
PolicyFails ==
    /\ Onto(Max({i \in DOMAIN Repos : PolicyOf[Repos[i]] = pol}) + 1)
    /\ fetched' = Absent /\ ops' = {}
    /\ report' = [report EXCEPT ![pol] = [status |-> "failed", ops |-> {}]]

\* _operation
Op(kind, out) == [repo |-> repo, kind |-> kind, rev |-> item.rev, out |-> out]

Applying == UNCHANGED <<worldVars, resolved, plans>>

\* Placed, and the alias designates it: neither fetch nor push nor copy.
Skip ==
    /\ stage = "apply" /\ item.placed /\ item.current
    /\ TargetDone({Op("skipped", Absent)})
    /\ UNCHANGED <<destVars, pushed, faults>> /\ Applying

Files(p, v) ==
    LET files == Checkout(TreeOf[v]) IN IF Path[p] = <<>> THEN files ELSE Subdir(files, Path[p])

\* Faulty: the fetched commit is not compared with the planned one.
IntakeAnyRevision ==
    /\ stage = "apply" /\ ~item.placed
    /\ LET tip == FetchTip(pol)
           files == Walk(Files(pol, tip))
       IN  IF Accepts(files) /\ Writable(Files(pol, tip), Planned(files))
           THEN stage' = "push" /\ fetched' = tip /\ UNCHANGED <<at, ops, report>>
           ELSE PolicyFails
    /\ UNCHANGED <<destVars, pushed, faults>> /\ Applying

\* intake_skill, up to the push: the ref is fetched by its name, a commit that is not the
\* planned one is refused, and the tree is packaged or refused.
Intake ==
    /\ stage = "apply" /\ ~item.placed
    /\ LET tip == FetchTip(pol)
           files == Walk(Files(pol, tip))
       IN  IF tip = item.rev /\ Accepts(files) /\ Writable(Files(pol, tip), Planned(files))
           THEN stage' = "push" /\ fetched' = tip /\ UNCHANGED <<at, ops, report>>
           ELSE PolicyFails
    /\ UNCHANGED <<destVars, pushed, faults>> /\ Applying

\* put_artifact.
Push ==
    /\ stage = "push"
    /\ LET before == placed[repo][item.rev]
           created == IF before = Absent THEN 0 ELSE 1 - before.created
       IN  placed' = [placed EXCEPT ![repo][item.rev] =
                         [stamp |-> fetched, files |-> Planned(Walk(Files(pol, fetched))), created |-> created]]
    /\ pushed' = pushed \cup {<<repo, item.rev>>}
    /\ UNCHANGED alias
    /\ \/ stage' = "point" /\ UNCHANGED <<at, fetched, ops, report, faults>>
       \* The registry has it, but the answer is lost.
       \/ Fault /\ PolicyFails
    /\ Applying

\* The imported operation carries the digest that was pushed, and so does the alias's; a
\* repair of the alias alone has none to carry.
TargetOps ==
    IF fetched = Absent THEN {Op("aliased", Absent)}
    ELSE {Op(k, placed[repo][item.rev]) : k \in {"imported", "aliased"}}

\* Faulty: the alias is pushed first, and the revision's tag after it.
PointEarly ==
    /\ \/ stage = "push" /\ alias' = [alias EXCEPT ![repo] =
                [stamp |-> fetched, files |-> Planned(Walk(Files(pol, fetched))), created |-> 0]]
       \/ stage = "point" /\ alias' = [alias EXCEPT ![repo] = placed[repo][item.rev]]
       \/ stage = "apply" /\ item.placed /\ ~item.current /\ alias' = [alias EXCEPT ![repo] = placed[repo][item.rev]]
    /\ IF stage = "push" THEN UNCHANGED <<stage, at, fetched, ops, report>> ELSE TargetDone(TargetOps)
    /\ UNCHANGED <<placed, pushed, faults>> /\ Applying

\* The copy of the revision's tag onto the ref's name.
Point ==
    /\ \/ stage = "point"
       \/ stage = "apply" /\ item.placed /\ ~item.current
    /\ alias' = [alias EXCEPT ![repo] = placed[repo][item.rev]]
    /\ UNCHANGED <<placed, pushed>>
    /\ \/ TargetDone(TargetOps) /\ UNCHANGED faults
       \/ Fault /\ PolicyFails
    /\ Applying

\* The process ends, and what it held is gone.
RunDies ==
    /\ stage' = "idle" /\ at' = 1 /\ resolved' = Absent /\ fetched' = Absent
    /\ plans' = [r \in Repo |-> Absent] /\ ops' = {}
    /\ report' = [p \in Policy |-> Absent] /\ pushed' = {}
    /\ UNCHANGED <<worldVars, destVars>>

\* The report is complete.
EndRun == stage = "end" /\ RunDies /\ UNCHANGED faults

-----------------------------------------------------------------------------
(* Failures.                                                               *)

\* A call that had no effect: the login, the fetch, the archive's write, the push or the copy.
ApplyCallFails ==
    /\ \/ stage \in {"push", "point"}
       \/ stage = "apply" /\ ~(item.placed /\ item.current)
    /\ Fault
    /\ PolicyFails
    /\ UNCHANGED <<destVars, pushed>> /\ Applying

\* The plan phase is not isolated: a read that fails ends the run of all policies.
PlanCallFails ==
    /\ stage \in {"resolve", "list", "read"}
    /\ Fault
    /\ RunDies

PodLost ==
    /\ stage # "idle"
    /\ Fault
    /\ RunDies

\* Upstream pushes to the branch, or makes, moves or deletes the tag.
UpstreamMoves ==
    /\ moves < MaxMoves /\ moves' = moves + 1
    /\ \E p \in Policy : \E u \in Hosted(p) \ {upstream[p]} :
          /\ \/ u.branch = upstream[p].branch
             \/ u.tag = upstream[p].tag /\ u.annotated = upstream[p].annotated
          /\ upstream' = [upstream EXCEPT ![p] = u]
    /\ UNCHANGED <<destVars, runVars, faults>>

RunStep == RunStarts \/ ResolveRef \/ List \/ ReadAlias \/ Skip \/ Intake \/ Push \/ Point \/ EndRun

Next == RunStep \/ ApplyCallFails \/ PlanCallFails \/ PodLost \/ UpstreamMoves

Spec == Init /\ [][Next]_vars

\* The CronJob starts runs for ever, and a run that is not lost goes on to its end.
FairSpec == Spec /\ WF_vars(RunStep)

-----------------------------------------------------------------------------
(* Properties.                                                             *)

TypeOK ==
    /\ upstream \in Upstreams
    /\ \A r \in Repo : /\ \A v \in Rev : placed[r][v] \in Manifest \cup {Absent}
                       /\ alias[r] \in Manifest \cup {Absent, ByHand}
    /\ stage \in {"idle", "resolve", "list", "read", "apply", "push", "point", "end"}
    /\ at \in DOMAIN Repos
    /\ resolved \in Rev \cup {TagObject, Absent} /\ fetched \in Rev \cup {Absent}
    /\ \A r \in Repo : plans[r] \in {Absent} \cup PlanItem

\* A revision's tag never lies: the artifact under sha-<rev> is stamped with that revision,
\* although upstream may move the ref between the plan and the fetch.
RevisionTagsTruthful ==
    \A r \in Repo, v \in Rev : placed[r][v] # Absent => placed[r][v].stamp = v

\* The files of the policy's part of a revision, said without the packaging code.
Wanted(r, v) ==
    LET dir == Path[PolicyOf[r]]
    IN  {f \in TreeOf[v] : IsStrictPrefix(dir, f.path) /\ \A i \in DOMAIN f.path : i > Len(dir) => f.path[i] # Git}

\* What is placed is the whole of the revision and nothing else: one regular member, of
\* the same size, for each file, no two of which an extraction could confuse, and nothing
\* of the working copy's metadata.
PlacedWhole ==
    \A r \in Repo, v \in Rev :
        LET m == placed[r][v]
            dir == Path[PolicyOf[r]]
        IN  m # Absent /\ m.stamp = v =>
              /\ {dir \o e.path : e \in m.files} = {f.path : f \in Wanted(r, v)}
              /\ \A f \in Wanted(r, v) : ~f.link
              /\ \A e \in m.files : \E f \in Wanted(r, v) : f.path = dir \o e.path /\ f.size = e.size
              /\ \A d, e \in m.files : Member(d.path) = Member(e.path) => d = e

\* A revision's tag is immutable: once it is there, no run, retry or repair pushes another
\* artifact over it.
RevisionTagImmutable ==
    [][\A r \in Repo, v \in Rev : placed[r][v] # Absent => placed'[r][v] = placed[r][v]]_vars

\* Whoever follows the ref's name lands on an artifact its revision's tag also names.
AliasNotAhead ==
    \A r \in Repo : alias[r] \notin {Absent, ByHand} => placed[r][alias[r].stamp] = alias[r]

\* The report a run ends with loses nothing: what the run placed is an operation carrying
\* its digest (the scan queue is fed from these), or its policy is reported as failed.
PlacedIsReported ==
    stage = "end" => \A r \in Repo, v \in Rev : <<r, v>> \in pushed =>
        LET outcome == report[PolicyOf[r]]
        IN  outcome.status = "failed" \/ \E o \in outcome.ops :
                  o.repo = r /\ o.kind = "imported" /\ o.rev = v /\ o.out = placed[r][v]

\* Every destination comes to follow its upstream, forwards and backwards, as soon as the
\* ref rests on a revision that can be packaged, whatever becomes of the other policies,
\* and whoever moved the alias before.
FollowsUpstream ==
    \A r \in Repo :
        LET p == PolicyOf[r]
            Rests == Accepts(Walk(Files(p, FetchTip(p))))
        IN  <>[]Rests => <>[](alias[r] \notin {Absent, ByHand} /\ alias[r].stamp = FetchTip(p))
=============================================================================
