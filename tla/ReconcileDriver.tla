--------------------------- MODULE ReconcileDriver ---------------------------
(***************************************************************************)
(* The whole of `knock reconcile' as it is deployed: an Indexed Job whose  *)
(* pods each load every policy, check who owns which repository, keep the  *)
(* policies of their shard, plan them all and then apply them one by one   *)
(* (cli/reconcile.py, use_cases/reconcile.py, domain/collision.py,         *)
(* domain/sharding.py, use_cases/report.py).                               *)
(*                                                                         *)
(* Here a destination is read in one step and written in another; the      *)
(* calls inside these are the steps of MirrorReconcile and GitReconcile.   *)
(* Upstream tags come and go, but the content of a tag never changes.      *)
(***************************************************************************)
EXTENDS TagPlanning, FiniteSets, FiniteSetsExt

CONSTANTS Names,        (* policy names                                            *)
          PolicySets,   (* what the policy repository can hold: sequences of policies, in file order *)
          FirstSet,     (* what it holds at first                                  *)
          Sound,        (* the policy sets with nothing wrong: see SoundAssumption *)
          SourceTags,   (* source repository -> the tags it can have               *)
          FirstTags,    (* source repository -> the tags it has at first           *)
          ShardCount,   (* SHARD_COUNT = completions                               *)
          ShardOf,      (* the shard of each policy name                           *)
          Parallelism,  (* pods that run at once                                   *)
          EditsMidJob,  (* may the pods of one job see different policies?         *)
          MaxEdits,     (* bound: commits to the policy repository                 *)
          MaxMoves,     (* bound: upstream changes                                 *)
          MaxFaults     (* bound: outages and lost pods                            *)

Shards == 0 .. ShardCount - 1

ASSUME DriverAssumption ==
    /\ FirstSet \in DOMAIN PolicySets
    /\ \A f \in DOMAIN PolicySets : PolicySets[f] \in Seq(ToSet(PolicySets[f]))
    /\ \A f \in DOMAIN PolicySets : \A p \in ToSet(PolicySets[f]) : IsPolicy(p)
    /\ \A f \in DOMAIN PolicySets : \A p, q \in ToSet(PolicySets[f]) : p.name = q.name => p = q
    /\ DOMAIN FirstTags = DOMAIN SourceTags /\ \A r \in DOMAIN SourceTags : FirstTags[r] \in SourceTags[r]
    /\ \A f \in DOMAIN PolicySets : \A p \in ToSet(PolicySets[f]) : p.source.repo \in DOMAIN SourceTags
    /\ ShardCount \in Nat \ {0} /\ Parallelism \in Nat \ {0}
    /\ ShardOf \in [Names -> Shards]
    /\ EditsMidJob \in BOOLEAN
    /\ {MaxEdits, MaxMoves, MaxFaults} \subseteq Nat

VARIABLES files,   \* the policy set in git
          source,  \* the tags of each source repository
          dest,    \* destination repository -> tag -> what it holds

          job,     \* is a Job active?
          stage,   \* where the pod of each shard is
          seen,    \* the policy set it cloned
          plans,   \* the policies it has planned: sequences of [name, targets]
          at,      \* the policy and the target it applies
          mirror,  \* the destination as read, or Unset
          ops,     \* the operations of the policy so far
          report,  \* the policy reports; none, if the run stopped without a report
          exit,    \* the exit code

          \* Auxiliary: what the run placed; has nothing changed since the job began; the
          \* policies that ran cleanly in a job since whose beginning nothing changed.
          wrote, steady, settled, edits, moves, faults

worldVars == <<files, source, dest>>
podVars   == <<stage, seen, plans, at, mirror, ops, report, exit>>
boundVars == <<edits, moves, faults>>
vars      == <<worldVars, job, podVars, wrote, steady, settled, boundVars>>

Running == {s \in Shards : stage[s] \in {"plan", "read", "write"}}

Empty == [t \in {} |-> Unset]
Repos == UNION {UNION {DestRepos(p) : p \in {q \in ToSet(PolicySets[f]) :
                    \A d \in ToSet(Destinations(q)) : ResolveRegistry(d.registry) # Unset}} : f \in DOMAIN PolicySets}

Init ==
    /\ files = FirstSet /\ source = FirstTags /\ dest = [r \in Repos |-> Empty]
    /\ job = FALSE
    /\ stage = [s \in Shards |-> "gone"] /\ seen = [s \in Shards |-> FirstSet]
    /\ plans = [s \in Shards |-> <<>>] /\ at = [s \in Shards |-> <<1, 1>>]
    /\ mirror = [s \in Shards |-> Unset] /\ ops = [s \in Shards |-> {}]
    /\ report = [s \in Shards |-> <<>>] /\ exit = [s \in Shards |-> 0]
    /\ wrote = [s \in Shards |-> {}] /\ steady = TRUE /\ settled = {}
    /\ edits = 0 /\ moves = 0 /\ faults = 0

Fault == faults < MaxFaults /\ faults' = faults + 1

-----------------------------------------------------------------------------
(* Before the plan phase: no I/O but the files.                            *)

Policies(f) == PolicySets[f]

\* What stops the resolution of a policy's imports and destinations, as an exit code.
Unresolved(p) ==
    IF \E imp \in ToSet(ResolveImports(p)) : MultiPlatformRebuild(imp) THEN 1
    ELSE IF \E d \in ToSet(Destinations(p)) : ResolveRegistry(d.registry) = Unset THEN 3 ELSE 0

\* detect_dest_repo_collisions
Collide(ps) == \E p, q \in ps : p.name # q.name /\ DestRepos(p) \cap DestRepos(q) # {}

\* Faulty: the shards are counted from one.
OwnsShifted(s, p) == ShardOf[p.name] = s + 1

\* owns
Owns(s, p) == ShardOf[p.name] = s

\* The exit code of the first policy, in file order, that has one.
FirstError(ps) ==
    LET bad == {i \in DOMAIN ps : Unresolved(ps[i]) # 0}
    IN  IF bad = {} THEN 0 ELSE Unresolved(ps[Min(bad)])

\* Faulty: a pod checks the repositories of its own policies only.
RefusedOwned(s, f) ==
    IF \E p \in ToSet(Policies(f)) : ~Valid(p) THEN 1
    ELSE IF FirstError(Policies(f)) # 0 THEN FirstError(Policies(f))
    ELSE IF Collide({p \in ToSet(Policies(f)) : Owns(s, p)}) THEN 1 ELSE 0

\* The exit code that refuses the policy set; 0: it is accepted.  A pod checks all of it,
\* not only what it owns.
Refused(s, f) ==
    IF \E p \in ToSet(Policies(f)) : ~Valid(p) THEN 1
    ELSE IF FirstError(Policies(f)) # 0 THEN FirstError(Policies(f))
    ELSE IF Collide(ToSet(Policies(f))) THEN 1 ELSE 0

\* What a planner handles of what the pod owns, in file order.
Handled(s, f, kind) ==
    FlattenSeq([i \in DOMAIN Policies(f) |->
        LET p == Policies(f)[i] IN IF Owns(s, p) /\ p.source.kind = kind THEN <<p>> ELSE <<>>])

\* The registry planner's batch, then the git planner's.
Batches(s, f) == Handled(s, f, "registry") \o Handled(s, f, "git")

-----------------------------------------------------------------------------
(* The Job.                                                                *)

\* The CronJob starts a job when none is active (concurrencyPolicy: Forbid).
StartJob ==
    /\ ~job /\ job' = TRUE
    /\ stage' = [s \in Shards |-> "waiting"]
    /\ UNCHANGED <<worldVars, seen, plans, at, mirror, ops, report, exit, wrote, steady, settled, boundVars>>

Ends(s, how, code, outcome) ==
    /\ stage' = [stage EXCEPT ![s] = how]
    /\ exit' = [exit EXCEPT ![s] = code]
    /\ report' = [report EXCEPT ![s] = outcome]
    /\ mirror' = [mirror EXCEPT ![s] = Unset] /\ ops' = [ops EXCEPT ![s] = {}]

\* Without a report.
Stops(s, code) == Ends(s, "stopped", code, <<>>)

\* A pod clones the policies, checks them and keeps its own.
StartPod(s) ==
    /\ job /\ stage[s] = "waiting"
    /\ Cardinality(Running) < Parallelism
    /\ \A t \in Shards : exit[t] = 0
    /\ seen' = [seen EXCEPT ![s] = files]
    /\ IF Refused(s, files) = 0
       THEN stage' = [stage EXCEPT ![s] = "plan"] /\ UNCHANGED <<exit, report, mirror, ops>>
       ELSE Stops(s, Refused(s, files))
    /\ UNCHANGED <<worldVars, job, plans, at, wrote, steady, settled, boundVars>>

\* A pod that exits with an error fails the job (backoffLimit: 0): what still runs is killed.
JobEnds ==
    /\ job
    /\ \/ \A s \in Shards : stage[s] = "done"
       \/ \E s \in Shards : exit[s] # 0
    /\ job' = FALSE /\ steady' = TRUE
    /\ stage' = [s \in Shards |-> "gone"] /\ seen' = [s \in Shards |-> FirstSet]
    /\ plans' = [s \in Shards |-> <<>>] /\ at' = [s \in Shards |-> <<1, 1>>]
    /\ mirror' = [s \in Shards |-> Unset] /\ ops' = [s \in Shards |-> {}]
    /\ report' = [s \in Shards |-> <<>>] /\ exit' = [s \in Shards |-> 0]
    /\ wrote' = [s \in Shards |-> {}]
    /\ UNCHANGED <<worldVars, settled, boundVars>>

-----------------------------------------------------------------------------
(* The plan phase.                                                         *)

Batch(s) == Batches(s, seen[s])

\* A git policy wants its revision and the ref's alias, and reads the destination now.
GitPlans(p, tags) ==
    {[j \in DOMAIN Destinations(p) |->
        LET repo == DestRepo(Destinations(p)[j])
        IN  [repo |-> repo, mode |-> "none",
             images |-> {[out |-> rev, src |-> rev, transform |-> <<>>]},
             aliases |-> {[alias |-> p.source.ref, target |-> rev, variant |-> 1]}, mirror |-> dest[repo]]] : rev \in tags}

\* The plans that a read of the source can lead to.
Plannings(p) ==
    LET tags == source[p.source.repo]
    IN  IF p.source.kind = "git" THEN GitPlans(p, tags) ELSE PlansOf(p, tags)

\* Every alias that would be pushed, with the target and the variant it is for.
AliasEntries(done) ==
    UNION {UNION {{[repo |-> done[k].targets[j].repo, alias |-> x.alias, for |-> <<k, j, x.variant>>] :
                       x \in done[k].targets[j].aliases} : j \in DOMAIN done[k].targets} : k \in DOMAIN done}

\* detect_alias_collisions
AliasesCollide(done) ==
    \E d, e \in AliasEntries(done) : d # e /\ d.repo = e.repo /\ d.alias = e.alias

\* The first target of policy k, or the end.
Onto(s, k, j) ==
    /\ at' = [at EXCEPT ![s] = <<k, j>>]
    /\ stage' = [stage EXCEPT ![s] = "read"]

AfterPlan(s, done) ==
    IF Len(done) < Len(Batch(s)) THEN UNCHANGED <<stage, exit, report, mirror, ops, at>>
    ELSE IF AliasesCollide(done) THEN Stops(s, 1) /\ UNCHANGED at
    ELSE Onto(s, 1, 1) /\ UNCHANGED <<exit, report, mirror, ops>>

\* The registry planner compiles the transforms; the git planner has no use for one, and looks
\* at none (a variant's gets past NoTransform).
NotCompiled(p) == p.source.kind = "registry" /\ \E imp \in ToSet(ResolveImports(p)) : ~Compiles(imp)

\* Faulty: a policy is applied as soon as it is planned.
PlanPolicyEager(s) ==
    /\ \/ stage[s] = "plan"
       \/ stage[s] = "read" /\ at[s][1] > Len(plans[s]) /\ Len(plans[s]) < Len(Batch(s))
    /\ Batch(s) # <<>>
    /\ LET p == Batch(s)[Len(plans[s]) + 1]
       IN  IF NotCompiled(p)
           THEN Stops(s, 3) /\ UNCHANGED <<plans, at>>
           ELSE \E ts \in Plannings(p) :
                   /\ plans' = [plans EXCEPT ![s] = Append(@, [name |-> p.name, kind |-> p.source.kind, targets |-> ts])]
                   /\ Onto(s, Len(plans[s]) + 1, 1) /\ UNCHANGED <<exit, report, mirror, ops>>
    /\ UNCHANGED <<worldVars, job, seen, wrote, steady, settled, boundVars>>

\* One policy is planned; after the last one, the aliases are checked and nothing else can
\* stop the run.
PlanPolicy(s) ==
    /\ stage[s] = "plan"
    /\ LET next == Len(plans[s]) + 1
       IN  IF next > Len(Batch(s)) THEN AfterPlan(s, plans[s]) /\ UNCHANGED plans
           ELSE LET p == Batch(s)[next]
                IN  IF NotCompiled(p)
                    THEN Stops(s, 3) /\ UNCHANGED <<plans, at>>
                    ELSE \E ts \in Plannings(p) :
                            LET done == Append(plans[s], [name |-> p.name, kind |-> p.source.kind, targets |-> ts])
                            IN  plans' = [plans EXCEPT ![s] = done] /\ AfterPlan(s, done)
    /\ UNCHANGED <<worldVars, job, seen, wrote, steady, settled, boundVars>>

\* A read of a source fails: so does the run of all the pod's policies.
PlanFails(s) ==
    /\ stage[s] = "plan" /\ Fault
    /\ Stops(s, 2)
    /\ UNCHANGED <<worldVars, job, seen, plans, at, wrote, steady, settled, edits, moves>>

ASSUME SoundAssumption ==
    Sound \subseteq {f \in DOMAIN PolicySets :
        /\ \A s \in Shards : Refused(s, f) = 0
        /\ \A p \in ToSet(Policies(f)) :
              /\ ~NotCompiled(p)
              /\ p.source.kind = "registry" => \A tags \in SourceTags[p.source.repo] :
                    \A ts \in PlansOf(p, tags) : ~AliasesCollide(<<[targets |-> ts]>>)}

-----------------------------------------------------------------------------
(* The apply phase.                                                        *)

policy(s) == plans[s][at[s][1]]
target(s) == policy(s).targets[at[s][2]]

\* node_status
NodeStatus(os) ==
    IF \A o \in os : o.code = 0 THEN "ok" ELSE IF \E o \in os : o.code = 0 THEN "partial" ELSE "failed"

\* Faulty: only a policy that failed as a whole counts.
ExitOfPolicies(rs) == Max({0} \cup {rs[i].code : i \in DOMAIN rs})

\* report_exit_code
ExitOf(rs) == Max({0} \cup {rs[i].code : i \in DOMAIN rs} \cup {o.code : o \in UNION {rs[i].ops : i \in DOMAIN rs}})

\* The status of the run, as it is written in the report.
RunStatus(rs) ==
    IF \A i \in DOMAIN rs : rs[i].status = "ok" THEN "ok"
    ELSE IF \A i \in DOMAIN rs : rs[i].status = "failed" THEN "failed" ELSE "partial"

\* A policy is reported and the next one is begun.
PolicyDone(s, status, code, os) ==
    LET r == Append(report[s], [name |-> policy(s).name, status |-> status, code |-> code, ops |-> os])
    IN  /\ report' = [report EXCEPT ![s] = r]
        /\ ops' = [ops EXCEPT ![s] = {}] /\ mirror' = [mirror EXCEPT ![s] = Unset]
        /\ Onto(s, at[s][1] + 1, 1) /\ UNCHANGED exit

\* Faulty: the operations of the destinations before it are reported as a success.
PolicyFailsQuietly(s) == PolicyDone(s, "ok", 0, ops[s])

\* An exception: the policy is reported as failed, without any operation.
PolicyFails(s) == PolicyDone(s, "failed", 2, {})

TargetDone(s, os) ==
    IF at[s][2] = Len(policy(s).targets) THEN PolicyDone(s, NodeStatus(ops[s] \cup os), 0, ops[s] \cup os)
    ELSE /\ ops' = [ops EXCEPT ![s] = @ \cup os] /\ mirror' = [mirror EXCEPT ![s] = Unset]
         /\ Onto(s, at[s][1], at[s][2] + 1) /\ UNCHANGED <<report, exit>>

Applying(s) == stage[s] = "read" /\ at[s][1] <= Len(plans[s])

\* The mirror walk, or what the git planner read when it planned.
ReadDest(s) ==
    /\ Applying(s)
    /\ policy(s).targets # <<>>
    /\ mirror' = [mirror EXCEPT ![s] = IF policy(s).kind = "git" THEN target(s).mirror ELSE dest[target(s).repo]]
    /\ stage' = [stage EXCEPT ![s] = "write"]
    /\ UNCHANGED <<worldVars, job, seen, plans, at, ops, report, exit, wrote, steady, settled, boundVars>>

\* A policy without destinations: nothing to do, and a git policy is not even reported.
NoTarget(s) ==
    /\ Applying(s)
    /\ policy(s).targets = <<>>
    /\ IF policy(s).kind = "git" THEN Onto(s, at[s][1] + 1, 1) /\ UNCHANGED <<mirror, ops, report, exit>>
       ELSE PolicyDone(s, "ok", 0, {})
    /\ UNCHANGED <<worldVars, job, seen, plans, wrote, steady, settled, boundVars>>

\* A login or the walk fails.
ReadFails(s) ==
    /\ Applying(s) /\ Fault
    /\ PolicyFails(s)
    /\ UNCHANGED <<worldVars, job, seen, plans, wrote, steady, settled, edits, moves>>

Content(i) == [src |-> i.src, transform |-> i.transform]

ToPlace(t, m) == {i \in t.images : i.out \notin DOMAIN m \/ m[i.out] # Content(i)}

Wanted(t) == {i.out : i \in t.images} \cup {x.alias : x \in t.aliases}

\* Faulty: aliases are not wanted.
ToDeleteAliases(t, m) == IF t.mode = "purge" THEN DOMAIN m \ {i.out : i \in t.images} ELSE {}

ToDelete(t, m) == IF t.mode = "purge" THEN DOMAIN m \ Wanted(t) ELSE {}

\* A git destination that has both is skipped.
ToPoint(t, m) ==
    {x \in t.aliases :
        t.mode = "none" => ~(/\ ToPlace(t, m) = {}
                             /\ x.alias \in DOMAIN m
                             /\ m[x.alias].src = x.target)}

\* The repository after the operations, those in failing left out.  Images come first, then
\* aliases are copied inside the repository, then what is not wanted is deleted.
Placed(held, t, m, failing) ==
    LET placed == {i \in ToPlace(t, m) : i.out \notin failing}
        outs   == {i.out : i \in placed}
    IN  [o \in outs \cup DOMAIN held |->
            IF o \in outs THEN Content(CHOOSE i \in placed : i.out = o) ELSE held[o]]

Pointed(images, t, m, failing) ==
    {x \in ToPoint(t, m) : x.alias \notin failing /\ x.target \in DOMAIN images}

After(held, t, m, failing) ==
    LET images  == Placed(held, t, m, failing)
        pointed == Pointed(images, t, m, failing)
        names   == {x.alias : x \in pointed}
    IN  [o \in (names \cup DOMAIN images) \ (ToDelete(t, m) \ failing) |->
            IF o \in names THEN images[(CHOOSE x \in pointed : x.alias = o).target] ELSE images[o]]

\* One operation for each item.
OpsOf(s, t, m, failing) ==
    LET images == Placed(dest[t.repo], t, m, failing)
        Code(ok) == IF ok THEN 0 ELSE 2
    IN  {[repo |-> t.repo, kind |-> "imported", out |-> i.out, code |-> Code(i.out \notin failing)] : i \in ToPlace(t, m)}
        \cup {[repo |-> t.repo, kind |-> "aliased", out |-> x.alias, code |-> Code(x \in Pointed(images, t, m, failing))] :
                  x \in ToPoint(t, m)}
        \cup {[repo |-> t.repo, kind |-> "deleted", out |-> o, code |-> Code(o \notin failing)] : o \in ToDelete(t, m)}

Items(t, m) == {i.out : i \in ToPlace(t, m)} \cup {x.alias : x \in ToPoint(t, m)} \cup ToDelete(t, m)

\* The destination is brought to what is planned.  Failures of a registry policy's
\* operations are isolated, one of a git policy's fails the policy.
WriteDest(s) ==
    /\ stage[s] = "write"
    /\ LET t == target(s)
           m == mirror[s]
       IN  \E failing \in SUBSET Items(t, m) :
             /\ faults + Cardinality(failing) <= MaxFaults
             /\ faults' = faults + Cardinality(failing)
             /\ dest' = [dest EXCEPT ![t.repo] = After(@, t, m, failing)]
             /\ wrote' = [wrote EXCEPT ![s] = @ \cup
                    {<<t.repo, i.out, policy(s).name>> : i \in {x \in ToPlace(t, m) : x.out \notin failing}}]
             /\ IF failing # {} /\ policy(s).kind = "git" THEN PolicyFails(s)
                ELSE TargetDone(s, OpsOf(s, t, m, failing))
    /\ UNCHANGED <<files, source, job, seen, plans, steady, settled, edits, moves>>

\* render_report, and the exit code.
EndRun(s) ==
    /\ stage[s] = "read" /\ at[s][1] > Len(plans[s])
    /\ Ends(s, "done", ExitOf(report[s]), report[s])
    /\ settled' = IF steady THEN settled \cup {r.name : r \in {x \in ToSet(report[s]) : x.status = "ok"}} ELSE settled
    /\ UNCHANGED <<worldVars, job, seen, plans, at, wrote, steady, boundVars>>

-----------------------------------------------------------------------------
(* Around the pods.                                                        *)

PodLost(s) ==
    /\ s \in Running /\ Fault
    /\ Stops(s, 137)
    /\ UNCHANGED <<worldVars, job, seen, plans, at, wrote, steady, settled, edits, moves>>

\* A commit to the policy repository.
EditFiles ==
    /\ edits < MaxEdits /\ edits' = edits + 1
    /\ EditsMidJob \/ ~job
    /\ \E f \in DOMAIN PolicySets \ {files} : files' = f
    /\ settled' = {} /\ steady' = ~job
    /\ UNCHANGED <<source, dest, job, podVars, wrote, moves, faults>>

\* A tag appears upstream or is gone; the branch of a git source moves.
UpstreamMoves ==
    /\ moves < MaxMoves /\ moves' = moves + 1
    /\ \E r \in DOMAIN source : \E tags \in SourceTags[r] \ {source[r]} : source' = [source EXCEPT ![r] = tags]
    /\ settled' = {} /\ steady' = ~job
    /\ UNCHANGED <<files, dest, job, podVars, wrote, edits, faults>>

PodStep(s) ==
    StartPod(s) \/ PlanPolicy(s) \/ ReadDest(s) \/ NoTarget(s) \/ WriteDest(s) \/ EndRun(s)

Failure(s) == PlanFails(s) \/ ReadFails(s) \/ PodLost(s)

Next == StartJob \/ JobEnds \/ EditFiles \/ UpstreamMoves \/ \E s \in Shards : PodStep(s) \/ Failure(s)

Spec == Init /\ [][Next]_vars

\* Where PodStep(s) is enabled.
Ready(s) ==
    IF stage[s] = "waiting" THEN Cardinality(Running) < Parallelism /\ \A t \in Shards : exit[t] = 0
    ELSE s \in Running

\* A pod goes on until it ends: weak fairness of PodStep(s), with Ready(s) for its ENABLED.
\* What else moves a pod makes it stop, or is bounded.
Goes(s) == []<>~Ready(s) \/ []<><<TRUE>>_<<stage[s], at[s], plans[s]>>

\* Jobs follow one another for ever.
FairSpec == Spec /\ WF_vars(StartJob) /\ WF_vars(JobEnds) /\ \A s \in Shards : Goes(s)

-----------------------------------------------------------------------------
(* Properties.                                                             *)

Mine(s) == UNION {{t.repo : t \in ToSet(plans[s][k].targets)} : k \in DOMAIN plans[s]}

\* No two pods that cloned the same commit ever apply to the same destination repository,
\* whatever the roster names the policies reach it by.
OneWriter ==
    \A s, t \in Shards :
        s # t /\ {stage[s], stage[t]} \subseteq {"read", "write"} /\ seen[s] = seen[t] => Mine(s) \cap Mine(t) = {}

\* What stops a whole run (a policy that does not validate or compile, a source that cannot
\* be read, a collision) stops it before anything is written.
FailFast == \A s \in Shards : stage[s] = "stopped" /\ exit[s] \in {1, 2, 3} => wrote[s] = {}

Targets(s) == UNION {ToSet(plans[s][k].targets) : k \in DOMAIN plans[s]}

\* A repository is exactly as planned: the images, the aliases on their targets, and nothing
\* left that should be gone.
Fits(t, held) ==
    /\ \A i \in t.images : i.out \in DOMAIN held /\ held[i.out] = Content(i)
    /\ \A x \in t.aliases : {x.alias, x.target} \subseteq DOMAIN held /\ held[x.alias] = held[x.target]
    /\ ToDelete(t, held) = {}

\* Exit code 0 means the report says so and every destination of the shard is as planned.
ExitTruthful ==
    \A s \in Shards : stage[s] = "done" =>
        /\ exit[s] = 0 <=> RunStatus(report[s]) = "ok"
        /\ exit[s] = 0 => \A t \in Targets(s) : Fits(t, dest[t.repo])

\* The report loses nothing: what a run placed is one of its operations (the scan queue is
\* fed from these), or its policy is reported as failed; and every policy of the shard that
\* has a destination is in it.
ReportComplete ==
    \A s \in Shards : stage[s] = "done" =>
        /\ \A p \in ToSet(Batch(s)) : Destinations(p) # <<>> => \E r \in ToSet(report[s]) : r.name = p.name
        /\ \A w \in wrote[s] : \E r \in ToSet(report[s]) :
              /\ r.name = w[3]
              /\ r.status = "failed" \/ \E o \in r.ops : o.repo = w[1] /\ o.out = w[2] /\ o.kind = "imported" /\ o.code = 0

\* Re-running is a no-op: once a policy ran cleanly, no later run changes its destinations
\* until a source or the policies change.
NoOp ==
    [][\A s \in Shards : stage[s] = "write" /\ policy(s).name \in settled =>
          dest'[target(s).repo] = dest[target(s).repo]]_vars

\* Every policy of every shard runs cleanly in the end, through outages, lost pods and the
\* failures of the other shards, which fail the job, once nothing is wrong with the policies.
Reconciles ==
    <>[](files \in Sound) => \A n \in Names : <>[](\E p \in ToSet(Policies(files)) : p.name = n /\ Destinations(p) # <<>>)
                                                 => <>[](n \in settled)

-----------------------------------------------------------------------------
(* What the theorems about exit codes and re-runs ask of the policies.     *)

Policy == UNION {ToSet(Policies(f)) : f \in DOMAIN PolicySets}

\* What a git source can hand out: its tags are revisions.
Revisions == UNION {UNION SourceTags[p.source.repo] : p \in {q \in Policy : q.source.kind = "git"}}

\* Under one name a target has one image, or the alias of one variant, or aliases of several.
NamesApart(t) ==
    /\ \A i, j \in t.images : i.out = j.out => i = j
    /\ \A x, y \in t.aliases : x.alias = y.alias /\ x.variant = y.variant => x = y
    /\ \A x \in t.aliases : \A i \in t.images : x.alias # i.out

\* What no check of the driver refuses, and must not be, for a run to leave what it planned: a
\* policy name twice, one repository twice in a policy, two images or an image and an alias
\* under one name, a git revision that is a ref's name or a registry's tag.
TidyPolicy(p) ==
    IF p.source.kind = "git"
    THEN /\ p.source.ref \notin Revisions
         /\ \A i, j \in DOMAIN Destinations(p) : DestRepo(Destinations(p)[i]) = DestRepo(Destinations(p)[j]) => i = j
    ELSE \A tags \in SourceTags[p.source.repo] :
            /\ tags \cap Revisions = {}
            /\ \A ts \in PlansOf(p, tags) :
                  /\ \A i, j \in DOMAIN ts : ts[i].repo = ts[j].repo => i = j
                  /\ AliasesCollide(<<[targets |-> ts]>>) \/ \A t \in ToSet(ts) : NamesApart(t)

Tidy ==
    \A f \in DOMAIN PolicySets : \A s \in Shards : Refused(s, f) = 0 =>
        /\ \A i, j \in DOMAIN Batches(s, f) : Batches(s, f)[i].name = Batches(s, f)[j].name => i = j
        /\ \A p \in ToSet(Batches(s, f)) : TidyPolicy(p)

\* A git ref is one revision, and no two spellings of a version tie: the order of a set in the
\* planning process decides nothing.
Decided ==
    \A f \in DOMAIN PolicySets : \A s \in Shards : Refused(s, f) = 0 =>
        \A p \in ToSet(Batches(s, f)) : \A tags \in SourceTags[p.source.repo] :
            IF p.source.kind = "git" THEN \A x, y \in tags : x = y
            ELSE \A ts, us \in PlansOf(p, tags) : ts = us
=============================================================================
