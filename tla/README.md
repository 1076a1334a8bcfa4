# knock, specified

TLA+ models of [knock](../src/README.md), the front door for container images: it mirrors or
rebuilds upstream images into an own registry, stamps them with their provenance, attaches SBOMs
and signatures, moves alias tags, retires what the policy no longer wants, and has every placed
image scanned; it also packages skills from git. The models are about what is hard to test in it:
crashes between two calls, stale reads, racing programs, and long sequences of legal runs and
policy edits.

Modules are checked with TLC on small instances; the theorems of the `*Proofs` modules are proved with
TLAPS for every value of the constants. `PROJECT.json` maps every definition to the lines it models.

## 1. The system

| component | state it keeps | operations | what is hard | what makes it correct |
|---|---|---|---|---|
| **scan queue** `adapters/redis_streams.py`, `use_cases/scan_worker.py`, `domain/scan_queue.py`, `cli/scan.py`, `scripts/scan-dlq.py` | Redis: work stream + consumer group, dead stream, `confirmed` and `placed` sets | enqueue, reserve, attach/ack, dead-letter, trim, reap, replay, drop, coverage check | up to eight workers, a reaper, an enqueuer per shard, operators; pods die between any two commands; trim decides from three separate reads | no entry is lost or stuck; only attached and signed images are confirmed; the stream drains |
| **registry reconcile** `use_cases/reconcile_registry.py`, `domain/reconcile.py`, `retention.py`, `lifecycle.py`, `stamp.py` | the destination repository: tags, manifests (with stamps), referrers (SBOM, signature, pending-deletion mark) | read source, mirror and marks; import/update; sign and SBOM backfill; alias; delete or mark; retention marks; unmark | failing calls and lost pods between copy, stamp, SBOM and signature; upstream retags; policy edits between and during runs; several tags on one manifest | a clean run leaves exactly what the policy wants, stamped and covered; the next run is a no-op; failures heal |
| **reconcile driver** `use_cases/reconcile.py`, `policy_planner.py`, `collision.py`, `sharding.py`, `report.py` | none (a report) | plan all, check collisions, apply policy by policy | sharded pods agree without talking; one policy's failure is isolated | one writer per repository; nothing mutated before every plan is valid; the exit code is the worst outcome |
| **git reconcile, intake** `use_cases/reconcile_git.py`, `intake.py` | destination tags of skills | resolve, fetch, refuse a moved revision, push, move the alias | ref moves between resolve and fetch; push done, alias not | a revision tag names its bytes; the alias converges |
| **purge** `use_cases/purge.py`, `domain/purge.py`, `adapters/command_usage.py` | none (marks in the registry) | walk marks, ask the usage oracle, delete referrer then tag | races reconcile; acts by tag name | no tag in use or wanted is removed |
| **gc** `use_cases/gc.py`, `domain/scan/gc.py` | none (scan referrers) | collect superseded scan referrers | keep/age boundaries, concurrent attach | the newest result of each tool stays |
| **attach** `use_cases/attach.py`, `domain/scan/*` | scan referrers, attestations | summarise SARIF, put referrer, attest, gate | failure between the two writes | what is confirmed was attached |
| **audit, verify** `use_cases/audit.py`, `verify.py`, `domain/coverage.py`, `verify.py` | none | classify images; check requirements over signed predicates | freshness and severity boundaries | fail closed |
| **tag planning** `domain/selection.py`, `aliases.py`, `semver.py`, `expand.py`, `variants.py`, `policy_merge.py` | none (pure) | filter tags, elect alias targets, expand variants, merge defaults | version order, name clashes of suffixes | every alias target is selected |
| transforms, policy schema, settings, payload builders, skill packaging, CLI adapters, rendering, deployment, scripts, site | | | | |

Interactions. The CronJob runs `reconcile` hourly, one pod per shard; its report goes to an
enqueuer sidecar, which fills the work stream and the placed set. KEDA starts a worker Job while the
stream is not empty: an init container reserves, scanners run, `scan attach` writes the referrer and
the attestation and acks. The reaper CronJob claims idle entries and gives them up after too many
deliveries. Operators replay or drop dead letters. `purge` deletes tags from the marks that
reconcile leaves; `gc` deletes superseded scan referrers. Everything else (the policy in git, the
upstream registry) is read only.

## 2. Modules

| module | what it is |
|---|---|
| `RedisStream` | the broker: one stream and one consumer group; each operator is one Redis command. External code, modelled from how the adapter uses it. |
| `ScanQueue` | the clients of the scan queue, at the grain of one Redis command or one registry call. |
| `AbstractQueue`, `QueueRefinement` | what the queue promises, and the mapping under which `ScanQueue` implements it. |
| `ScanQueueProofs`, `QueueRefinementProofs` | theorems about `ScanQueue`; that it implements the abstract queue. |
| `MirrorPlan` | what a reconcile run decides, as pure operators over a plan, the state read and the time. |
| `MirrorReconcile` | one destination repository and the runs that reconcile it, at the grain of one registry call. |
| `MirrorPurge` | `knock purge`, composed with `MirrorReconcile`: their calls interleave. |
| `MirrorReconcileProofs`, `MirrorPurgeProofs` | theorems about these two. |
| `SkillArchive` | walking, refusing and packaging a fetched tree, as operators. |
| `GitReconcile` | the runs of the git planner over all its policies, call by call, `SkillArchive` inside. |
| `GitReconcileProofs` | theorems about the planner and about the archive. |
| `PolicySchema` | a policy as written: its cross-field rules, inheritance, roster look-ups, modes. |
| `TagPlanning` | from an import and the source's tags to the wanted images and aliases, as operators. |
| `ReconcileDriver` | the Indexed Job: pods that load, check, plan and apply policies of both kinds; plans come from `TagPlanning`. |
| `ReconcileDriverProofs` | theorems about the driver. |
| `ScanReferrers` | attach and gc over the reports of a repository, call by call. |
| `ImageGate` | verify and audit, reading what `ScanReferrers` writes. |
| `ScanReferrersProofs`, `ImageGateProofs` | theorems about these two. |
| `MC*` | the instances; `MC<module>_<run>.cfg` gives the constants. |

Definitions marked "Faulty" are plausible bugs. They are never used by the specifications; putting
one in place of the definition it imitates must break the property it is paired with (`mutants`).

### 2.1 The scan queue

State. `entries`, `last`, `pel`, `deliveries`, `idle` are the stream, the group's last-delivered id,
its pending list, the delivery counts, and the pending ids past min-idle-time. An entry is named by
its position in the order of XADDs; `stamp` is its millisecond, because `_trim_minid` does arithmetic on
it. `dead`, `confirmed`, `placed` are the other keys; `referred` and `signed` are the registry's side.
Each client has a `pc` and the local variables of its function (`tok`, `floor`, `cursor`, `batch`, ...).

Actions. `Report, EnqueueAdd, EnqueuePlace` are `enqueue`; `Reserve` is `reserve`; `PutReferrer,
Attest` are `attach_scan`; `TransientFailure, PermanentFailure` are `_route`; `Confirm, Ack` are
`ack`; `Bury, BuryAck` are `_dead_letter_no_trim`; `ReaperStart, Claim, Check` are `reaper`;
`TrimPending, TrimGroups, TrimStream, Trim` are the three reads and the trim of `_trim_minid`;
`SelectDead, ReplayAdd, DeleteDead` are `dlq_replay` and `dlq_drop`. `Crash` ends any client between
two commands (the adapter does not retry, so a Redis error does the same). `TimePasses` makes a pending
entry idle, at any moment, so a slow living worker can be overtaken by the reaper.

The abstract queue knows entries that are offered and taken in order and leave only when the outcome
of their image is on record. It is `Lossy` exactly when more than one client trims, which is the
race of `trimrace`, or entries can share a millisecond; otherwise the queue loses nothing.

Abstractions. Every confirmation is fresh (the score is not kept); the age of the placed set is not
modelled; error texts are two classes, permanent and transient; a scan report is one report.

### 2.2 The mirrored repository, and purge

A manifest is named by all that its digest depends on: the content, the transform version it was built
with, and its stamp. So an update, a rebuild and a new stamp time are new manifests, and two tags
designate the same manifest exactly when the code would see the same digest. `covers` holds SBOM and
signature referrers, `marks` the pending-deletion referrers, both by manifest, so that what is attached
through one tag shows through the others, and what was attached to a manifest is out of sight when its
tag moves on. With `ForeignStamp`, upstream images carry a base digest and a creation time of their own,
which an unstamped copy shows as if they were knock's.

A run goes through the stages of `_apply_plan`: `source, mirror, marks` are the reads, then
`import, sign, sbom, alias, delete, retain` are stages of items, each ended by a barrier, then
`unmark`, the report, and the next import of the policy. Items of a stage interleave freely (the thread
pool); the steps of one item (place, stamp, SBOM, its signature, the transform signature) can each
fail, and the run can be lost between any two. `UpstreamMoves`, `EditPolicy` and `Tick` happen at any
time, also in the middle of a run. Runs do not overlap: `concurrencyPolicy: Forbid`, one shard per
policy, one policy per repository (that this is so is `OneWriter` of the driver).

`MirrorPurge` adds the other writer: `PurgeStart` and `PurgeList` walk the tags and their marks,
`PurgeInspect` reads the digest, `PurgeAsk` asks the oracle (which may fail: `Decide` says
"uncertain"), `PurgeClear` deletes the mark and `PurgeTag` the tag, by name. `Deploy` is production
pulling an image. Nothing in the deployment keeps purge and reconcile apart, so neither does the model.
`held` tells a mark that was cleared and put again (a new referrer) from the one purge has listed.

Abstractions. A plan (selected tags, alias targets, transform version per variant, archive rule,
deletion mode) is an input; how it comes out of a policy is `TagPlanning`. Reads of one stage are one
step, except in purge. The two commands of `annotate`, the change and the read of its digest, are one
step: a tag moved between them is reported, and covered, by another digest than the stamped one. A copy is
stamped by its digest, so that stamping puts the tag back if purge has taken it; a build by its tag, and fails then.
What upstream says of an image is its digest and when it was made (`Upstream`); a run makes an `Artifact`
of it, which for an undated image says "now" (`to_source_artifact`). Registry garbage collection of untagged manifests is left out, and so are dry runs.

### 2.3 Skills from git

`upstream` is, per policy, what its ref's name designates: a branch, a tag (annotated or not) or both,
so that `Resolve` (the precedence of `ls-remote` lines) and `FetchTip` (what git itself prefers) can
differ. `placed` and `alias` are the destination's `sha-<rev>` and ref-name tags. One call is one
step: `ResolveRef, List, ReadAlias` plan every policy before `Skip, Intake, Push, Point` apply them; a
call can fail without effect or, for push and copy, after it took effect. `SkillArchive` is evaluated
on trees with links, nested `.git` directories, names that differ in case, executables and a size bound.

### 2.4 The driver

Host, project and repository are the segments of the strings that the code joins with `/`: two ways to
cut one path are one repository, and an empty project, which nothing refuses, is a segment too
(`reg/acme//app` is not `reg/acme/app`, neither here nor in `collision.py`).
`files` is the policy repository, of which `PolicySets` are the possible contents: valid ones, and ones
that collide, do not validate, do not compile or name an unknown registry. A pod goes from `waiting` through
`plan` to `read`/`write` of one target after the other and to `done`, or to `stopped` when it is refused,
fails in the plan phase or is lost; `exit` and `report` are what it leaves. A failing pod kills the others (`backoffLimit: 0`). Here the content of an upstream tag
never changes and a destination is read in one step and written in another; the calls
inside are the business of `MirrorReconcile` and `GitReconcile`.

### 2.5 Scan results, gates

`reports` are the scan referrers, `predicates` the signed summaries; `ScanReferrers` has
`Handed, Inspect, PutReferrer, Attest` for attach (the reference may be a tag that moves) and
`GcStart, GcList, GcDelete` for gc, whose list and deletions are separate calls, so that two
collectors overlap: the CronJob forbids overlap with itself, and a second collector is a `knock gc` run by hand.
`ImageGate` adds verify (digest, annotations, predicates: three calls) and audit (per tag: annotations,
signature). Vulnerability counts are kept as the set of severities found, by the buckets of `sarif.py`.

## 3. Runs

With two workers the longest runs (`mirror`, `referrers`, `clients`, `gate`) take about two minutes and the
others a minute or less.

| run | shows | instance |
|---|---|---|
| `clients` | `TypeOK`, `Accounted`, `ConfirmedIsAttached`, `StaleTrimScope`; the stream drains (`WorkDrains`); it is the abstract queue (`ImplementsQueue`, lossy) | a worker, a reaper that claims one entry at a time (so its cursor moves), an enqueuer; signing on; one crash; two entries that may share a millisecond |
| `orderly` | `TrimKeepsNeeded`, `DeadLetterOutlivesReplay`, `ImplementsQueue` (nothing is lost) | one worker, an enqueuer, an operator with two commands; one crash; three entries |
| `trimrace` (violated) | the trim evicts the entry another worker has just been handed | two workers |
| `mirror` | `TypeOK`, `StampTruthful`, `CleanRunPlaces`, `CleanRunStamps`, `CleanRunCovers`, `CleanRunRetires`, `Idempotent`, `Converges` | two sources, two variants, SBOMs, upstream images with a base digest of their own; edits that drop a tag in mark mode, add an alias and bump the hardening, or take all that back and drop the alias in purge mode; one retag, to an image made at any time or undated; two edits, one failure, one crash |
| `retention` | `RetentionSpares`, `RetentionMarksJudged` | keep one per variant, an alias target to protect; one retag, two edits, four days, one failure, one crash |
| `siblings` (violated) | two imports into one repository delete each other's tags | no disturbance at all |
| `purge` | `UsageGated`, `NoMarkStranded`, `Reaps` | two tags, one of which is dropped; one sighting, one failing call of either program or of the oracle, one lost pod |
| `purgerace` (violated) | purge deletes by name a tag that reconcile has moved to an image in use | one retag, two edits, three days, no failure |
| `git` | `TypeOK`, `RevisionTagsTruthful`, `PlacedWhole`, `AliasNotAhead`, `PlacedIsReported`, `RevisionTagImmutable`, `FollowsUpstream` | two policies, three repositories, four trees, a ref name taken by hand; two ref moves, one failure or lost pod |
| `driver` | `OneWriter`, `FailFast`, `ExitTruthful`, `ReportComplete`, `NoOp`, `Reconciles` | two shards, an image with two variants, a chart, a skill, nine policy sets, among them one that spells one repository in two ways and one with a skill whose variant names an unknown transform; one edit, one upstream change, one failure or lost pod |
| `referrers` | `TypeOK`, `NewestKept`, `Collects` | two collectors, an attacher, two tags on two images, two tools, three reports, keep one; one moved tag, one failing call |
| `gate` | `VerifyHonest`, `AuditClean` | an attacher, a verifier by tag or digest, an auditor, a clean, a breaching and an unreadable report; one moved tag, one failing call |

Every run but `siblings`, `trimrace` and `purgerace` has failing calls or lost pods. The three violated
runs are disagreements between the code and a docstring, comment or page; `findings` quotes both sides.

Bounds. Two of a kind is what each hazard needs: two clients and two entries for every race of the
queue (a third entry lets a dead letter be replayed among others); two tags of which one is dropped, plus an
alias name, so that two tags share a manifest and a third does not; two shards; two collectors; two
reports of one tool beside one of another. `MaxDeliveries` of one makes the dead-letter threshold
reachable. `Grace`, `OlderThan`, `MinIdle` and `MaxAge` are a day, so that a clock of two to four days has
both sides of each boundary. `MaxAdds, MaxMoves, MaxEdits, MaxFailures, MaxFaults, MaxCrashes, MaxUses,
MaxOperations, MaxClock, MaxTime` bound entries, upstream moves, policy edits, failing calls, lost
pods, sightings, operator commands and days. `UsageGated` and `NoMarkStranded` were also checked once at
the bounds of `purgerace` (3.9 million states): they hold, while `InUseKept` does not.

Fairness. A running pod goes on or dies; KEDA starts workers while the stream is not empty; reaper,
reconcile, purge and gc are started again and again; time passes: weak fairness of each. The driver's
`Goes` spells out weak fairness of a pod's steps with its enabling condition. For purge and gc this is an
assumption about the installation: no purge CronJob is shipped (`Reaps` is for those who schedule one), and the second
collector is run by hand. Nothing forces a
report, an operator, a crash, a retag or an edit. Failures and crashes are bounded, as any claim that
something is finally done needs.

Deadlock checking is off only where the system may stop (`orderly`, `trimrace`, `referrers`, `gate`: all
clients idle, bounds used up); the runs of the others start for ever.

### 3.1 Where the passing runs stop

These were met while modelling. They are what the code does, outside the instances above.

Scan queue.
- `TrimKeepsNeeded` fails with a second client that trims or reserves, and with one worker when two
  entries share a millisecond (`orderly` has `SameMs` off; `clients` has it on).
- `domain/scan_queue.py:30` speaks of attempts; what is counted are deliveries, and each claim by the reaper is
  one. A worker that dies can get its entry dead-lettered although nobody tried again.
- `docs/how-to/operate-scan-pipeline.md:255-259` counts a placed image as a gap until it is confirmed; an
  enqueuer that is lost before its ZADD leaves images of its report that are in neither set.

Mirrored repository.
- `CleanRunCovers` asks for the SBOM and for the signed transform attestation. The code's probe sees one
  referrer type for both signatures (`reconcile_registry.py:322`), so a signed SBOM hides a missing transform
  attestation (`:515-517` expects the next run to supply it). `mirror` therefore has SBOMs without signing. What
  holds with both is weaker, an SBOM and some signature, and is the theorem `CleanRunsAttest`.
- An image whose config has no creation time, or one that cannot be parsed, is taken for one pushed at this
  moment, at every run (`reconcile_registry.py:84-87`). So the stability window never passes: when the
  upstream moves a tag to such an image, the update is never taken, unless the hardening changes. The comment
  says that the window "skips an update"; it skips all of them. `Converges` exempts undated images, and `mirror` has them.
- The window is about the time an image was made, not pushed: an old image that is pushed under a tag is taken
  at once, where `docs/architecture/design.md` speaks of the push time.
- `Idempotent` fails with an edit that drops an alias in mark mode (`mirror` drops one in purge mode): the alias's mark is put on the manifest it shares
  with a selected tag, cleared as stale by the next run, put again by the one after.
- A retention mark can land on a young image: the age is judged on what the mirror walk read, before the
  import stage, and the mark is put through the tag (`reconcile_registry.py:778`), so on the manifest that the same run
  has just imported when the upstream moved or the hardening was bumped. `docs/explanation/deletion-and-retention.md:36-37`
  says "mark only those older than 30 days". `RetentionMarksJudged` is what holds: the mark lands on what was
  judged, or on what this run put over it; `SettledRetention` proves the page's sentence for an upstream that
  rests. With an upstream that carries stamp keys of its own, an unstamped copy is ranked by the
  upstream's creation time and not by its import.
- `CleanRunRetires` fails in mark mode, in two ways. Under an archive rule, when a tag with a retention
  mark leaves the selection: its selection mark is skipped and the retention mark cleared
  (`reconcile_registry.py:771`). And when an alias operation fails while its old target is dropped: the
  next, clean run finds the target's mark through the alias, takes it for stale and clears it. The run
  after that marks the tag. Where policies agree on their aliases the second cannot happen
  (`FixedAliasesGiveNotice`).
- `NoMarkStranded` fails when one manifest carries a mark for each reason (a tag marked as dropped is
  selected again and at once in excess: the new mark is put before the old one is cleared). Purge
  clears one, deletes the tag, and leaves the other on a manifest that no tag designates.
- An alias named like a tag that is selected is not refused: the alias then takes the tag's place, and
  is taken for the mirrored tag from then on. The theorems about clean runs suppose that it is not so.
- A copy that was never stamped, of an upstream image with a base digest of its own, passes for mirrored
  until its stability window is over (`reconcile_registry.py:97`). It converges all the same, if it is dated.
- A run that moves a tag leaves a mark on its old manifest, out of sight of every later run.
- A tag purged for retention is still selected, comes back as the newest, and pushes out another.

Git.
- `sha-<rev>` does not encode the policy's path: an edit of the path is not packaged until the ref moves.
- `refs/tags/v1` of an annotated tag resolves to the tag object and is refused for ever as moved
  (`ports/source.py:31-32`); `tags/v1` is not found; a ref with a `/` is valid in a policy and not as a tag.
- A failure between push and alias fails the policy; the repair run's alias operation carries no digest
  (`reconcile_git.py:312`), so that artifact is never enqueued for scanning.
- A ref that cannot be resolved stops every policy of the shard. A file `a` beside a directory `A/` is
  not seen as a collision. A git policy without destinations is in no report.

Driver and planning.
- With `backoffLimit: 0` a shard that always fails can starve the others of a job; `Reconciles` needs
  bounded failures and sound policies.
- `OneWriter` is per commit: each pod clones the policies itself, and two pods that cloned different commits in
  one job can see different owners of one repository. In the run no commit falls into a job (`EditsMidJob` is
  off; it passes with it on, but takes more than four minutes).
- A variant's transform gets past `NoTransform`, and the git planner compiles none: an unknown name in the
  variant of a skill is not refused (`NotCompiled`).
- Not refused: two variants with the same suffix and no alias, an alias named like a selected tag, two
  policies of the same name. Two spellings of one version (`1.0`, `1.0.0`) have the same key and come
  from a set, so an alias may point at either, run by run (`NoOp` is checked without such a tie). The
  registry session is keyed by host alone, so two entries of one host share a login.

Gates and collection.
- By tag, verify's digest and annotations are two reads (`regctl_cli.py:93`) and can be of two images
  (`VerifyHonest` is about the scan requirement, bound to the digest). Audit reads by tag as well,
  which is why `AuditClean` exempts tags pushed meanwhile.
- The freshest summary decides whatever tool made it: a fresh clean one of one tool hides an older breach
  of another. A summary dated in the future passes; a timestamp without zone aborts gc; a
  count that is no number ends verify with exit code 4. Audit calls an image signed by any attestation.
- With keep 1, gc collects the report a signed summary vouches for when a later attach put its report
  and failed to sign. Referrers of untagged manifests are never collected. A roster entry of a bare host
  walks the repositories of a prefixed entry of the same host again.

## 4. Proofs

Each theorem holds for every value of the constants that satisfies the modules' named assumptions (kinds
of clients are disjoint, thresholds positive, plans, policies and trees well-formed, alias targets selected
and of the alias's variant, sources with tags they can have); a
theorem that needs more says so as its hypothesis. The argument is always the same: an inductive
invariant, stated at the head of the proof module in named parts, checked with TLC on the instances
before it was proved, then one step per action.

### 4.1 The scan queue (`ScanQueueProofs`, `QueueRefinementProofs`)

- `TypeCorrect`: inductive once the program counters are tied to the kind of client; it carries
  `idle \subseteq pel`, which is why XACK and XAUTOCLAIM must clear idleness.
- `AccountedAlways`: `Ack` removes a pending entry, and nothing in `Accounted` says that its outcome is on
  record. The strengthening `OutcomeFirst` does: a client that stands before an XACK has recorded
  the confirmation or the dead letter of the entry it holds. That is the rule "XACK is always the last
  operation" of `redis_streams.py:1-5`, and it is the whole argument.
- `StaleTrimScopeAlways`: the strengthening `TrimReads` relates what a trimming client has read to
  the present: `seen` never exceeds `last`; after an XPENDING that showed an entry, the floor was the oldest
  pending one, everything pending now is at or above it, and entries delivered since are younger.
- `ConfirmedIsAttachedAlways`, from `AttachedFirst`: it holds of the workers on their way to the confirmation.
- `DeadLettersOutliveReplay`, from `ReplayFirst` and `LettersOK`: the letter an operator deletes is the
  one that was added again, because ids in one selection differ.
- `TrimLossesExplained`: what a trim evicts although it is needed, with any number of workers, reapers and
  crashes and with shared milliseconds. Either the entry was handed to another worker after this trim's XPENDING
  had shown nothing (`HandedOutSince`: the race of `trimrace`), or it is unread and of the very millisecond of the
  last-delivered id that XINFO GROUPS gave (`InFloorMs`). There is no third way: a trim whose XPENDING showed an
  entry, or that no reservation overlapped and whose millisecond is its own, keeps the promise of
  the docstring. The invariant `ReadsInv` adds to `TrimReads` that ids are issued in the order of their
  milliseconds (`StampsInOrder`), and what can have changed between the second and the third read (`GroupReads`).
- `QueueImplemented`: `Spec => ImplementsQueue`, every step of the queue is one of the abstract queue
  or a stutter. It needs `OutcomeFirst` for `Leave`, and that what was lost stays lost.

### 4.2 The mirrored repository (`MirrorReconcileProofs`, `MirrorPurgeProofs`)

The invariant `Inv` says that a stage has one item for each tag, that an item which attaches something
knows the manifest, and that what was placed and not stamped yet is still what was placed. On it rest
`MirrorTypeCorrect` and `StampsTruthful`, and, with `PurgeStep` as one more kind of step,
`StampsTruthfulUnderPurge`. What a clean run leaves is proved along its stages:

- `CleanRunsStamp` (`RunOK`): kept tags stay as they were read, and a tag to place has an item or is
  done. Hypothesis `Apart`: an import's alias is not named like a tag it selects.
- `CleanRunsAttest` (`CoverOK`): whatever is configured, a selected tag has its SBOM and some signature, or an
  item that knows the manifest still owes it. `CleanRunsCover` says the same per referrer type, where not
  both SBOMs and signatures are asked for (`SbomsUnsigned`): with both, the type hides one of them (3.1).
- `CleanRunsPlace` (`OriginOK`, `AliasOK`): what is under a tag comes from its source, and an alias is
  on its target once its item is gone. Hypotheses `Imports = 1` (sibling imports delete each other's
  tags: `siblings`) and `NamesApart` (what an alias once left under a tag is taken for the mirrored tag).
- `CleanRunsRetire` (`RetireOK`): when the plan purges, no unwanted mirrored tag is left. No hypothesis.
- `CleanRunsGiveNotice` (`NoticeOK`): in mark mode it carries its mark. Along the stages: its item is due, or
  its mark is put and no item that clears marks has read that manifest. Hypotheses `KeepsAll` (no archive
  rule that bites) and `Unshared` (no run reads a wanted tag and an unwanted one on one manifest): each
  excludes ways of failing of 3.1. TLC finds the property violated without `Unshared`. Where the policies
  agree on their aliases, `Unshared` is not an assumption but `FixedAliasesUnshared` (`NamedOK`: what is read
  under a tag was stamped for it, or for its alias target), and `FixedAliasesGiveNotice` follows.
- `RunsAreIdempotent` (`TidyOK`, `SteadyOK`): `Idempotent` speaks of the next run, so the proof carries over what a
  clean run leaves. `TidyOK`: a kept tag's marks are read, then cleared. `Done` says that nothing is left to do;
  `SteadyOK` that, while nothing has changed, `Done` holds between runs, and that the next run reads what
  is there and draws no work from it. Hypotheses: one import, `Apart`, `KeepsAll`, `Unshared`, and
  `FreshUnmarked`: what a run places carries no mark yet. In the code a stamp has a time of its own, so
  that a placed manifest is new; the model counts in days, and needs the hypothesis.
  `PurgingRunsAreIdempotent`: in purge mode there are no marks, and the last two are not needed.
- The archive rule. `ExcessLeavesKeep`: what is in excess leaves at least `keep` candidates, since those newer
  than the newest in excess are left, and there are `keep` of them; it is proved for any tags and times.
  `MarksAreJudged` (`RetainOK`, `UpdateOK`): an item that marks stands for a tag whose age was judged on what the walk
  read, and while it waits the tag designates that, or what this run placed over it. Hypothesis `Apart`: an alias
  named like a selected tag takes its place in between.
  `CleanRunsSpare` (`SpareOK`, `ThisRunOK`, `TimesOK`): a spared tag carries no retention mark when a clean run reports,
  whatever upstream does; one the run updates shows a manifest of this run, whose stamp has the run's time, so it
  carries no mark of an earlier run. Hypotheses: `Imports = 1` and `NamesApart` as above; `~ForeignStamp`, since two tags can share an
  unstamped copy that passes for mirrored; and that no two runs start at one time, since the model counts in
  days what the code stamps in microseconds.
  `SettledRetention` (`SettledOK`): with a source that is never pushed to again, one hardening and no stamps from
  upstream, a mark lands on an image that is itself old. Edits, failures and lost pods stay allowed.
- `RemovalsAreUsageGated` (`AskedOK`): purge's clock is behind the day and so is every sighting, hence
  "not seen in the window" is stable. It covers failing oracles: only a "purge" verdict reaches a deletion.
- `NoMarkIsStranded` (`ReasonsOK`, `HeldOK`): at most one mark is held at a time, so none is left when
  the tag goes. Hypothesis: marks have one reason (`PurgeMode`, or `KeepsAll`: no archive rule that
  bites); with both it is false (3.1). `KeepsAll` needs that a set of at most `keep` tags is never in excess.

### 4.3 Skills from git (`GitReconcileProofs`)

`HeldOK`: what a destination holds under a revision is that revision's accepted archive. `RunOK`: between
fetch and push the fetched commit is the planned one. `PlanOK`: a plan made before anything was applied
is still right at its turn, since a destination is in the batch once. `PushedOK`: what was pushed is in the
operations, in a report, or about to be pointed at. On these rest `GitTypeCorrect`, `TagsTruthful`, `TagsImmutable`
(an action property), `AliasFollows` and `ReportsWhatItPlaced`. `PlacesTheWhole` adds that walking and
planning drop, add and rename nothing; its hypothesis, no policy path goes through `.git`, is what
`_validate_git_path` (`mirror_policy.py:97`) does not ask: such a path packages metadata.

### 4.4 Scan results and gates (`ScanReferrersProofs`, `ImageGateProofs`)

- `TypeCorrect`, `CollectsOnlySuperseded` (`VictimsSpent`): what a collector still has to delete is old and has
  `Keep` newer reports of its tool. The second collector does not undo that: the newest of what
  is there is nobody's victim, by the order of reports (time, then digest).
- `AuditExitTold` (`AuditInv`): while an audit runs, each tag it is done with is covered, or it has
  noted a gap or an error, or the tag was pushed again.
- `VerifyPassesHonestly` (`VerifyInv`, `AboutInv`): what verify knew when it began is among the summaries of the
  image it resolved. Hypothesis `ByDigest`: attach is given digests, as the queue gives them; given a tag
  it pins whatever the tag then designates.

### 4.5 The driver (`ReconcileDriverProofs`)

`Inv` has one part for each thing a pod relies on. `PlansOK`: it has planned its batch as far as it has come,
and a plan names only its policy's destinations. `SeenOK`: who plans or applies has accepted the policies
it cloned. `WroteOK`: nothing is written before the apply phase. `ReportOK` and `OpsOK`: policies behind
`at` are told, and what was placed is in a report or in the operations of the policy at hand. A few facts on
sequences come first, since what a pod owns is flattened from the files (`FlattenFacts`, by a least
counterexample: the library's induction rule cannot be used here).

- `FailFastAlways`: `WroteOK`; no hypothesis.
- `OneWriterAlways`: two pods that apply have accepted one policy set, so its policies do not collide; each
  writes what its own policies name; and a name has one shard. No hypothesis: commits in the middle of a job
  are allowed, and pods that cloned different ones are not compared (3.1).
- `ReportCompleteAlways`: whatever fails, a policy that is left is reported first. No hypothesis; a policy
  without destinations may be missing, and a git one is.
- `ExitTruthfulAlways`: exit code 0 means that every destination of the shard is exactly as planned. It
  needs a second invariant, `RunInv`, on top of `Inv`. `ToldOK`: a policy report is ok exactly if all its
  codes are 0. `MadeOK`: the plans at hand are of an accepted set, made of what a source can have, and
  without alias collisions. `KeptOK`: a git destination ahead of `at` is still as the planner read it, a
  mirror that is read is still what the repository holds when it is written, and, while nothing of its policy
  has failed (`Well`), a destination behind `at` is as planned (`Fits`). The step that could break the last two is
  `WriteDest`, of any pod: `RepoOnce` shows that no other target of any pod has the repository it writes, and
  `WriteFacts` (by `Untroubled`, `AfterFits`, `AfterHeld`) that a write whose operations all succeed leaves
  the repository as planned. Hypotheses: `~EditsMidJob`, and `Tidy`, which is what the driver assumes of an
  accepted set without refusing the contrary (3.1): each policy name once, each repository once in a policy,
  no two images, nor an image and an alias, of a target under one name, and no git revision that is also a
  ref's name or a registry's tag.
- `NoOpAlways`: a pod that writes for a policy that ran cleanly changes nothing. A third invariant carries
  `ExitTruthful` from one job to the next. `SettledOK`: whatever a read of the source can lead to now is
  what the destinations of a settled policy hold (`Satisfied`). `SteadyOK`: while nothing has changed since
  the job began, what a pod planned is what it would plan now. `NamedOK`: a report is of one policy that is
  behind, so "ok" says it of all its destinations (`EndedWell`). A write for another policy is elsewhere, as
  accepted sets do not collide; one for the same policy finds its plan carried out and leaves the
  repository as it is, even if operations fail (`NothingToDo`). Hypotheses: those of `ExitTruthfulAlways`,
  and `Decided`: no two spellings of a version tie, or the planner's choice could differ run by run (3.1).

`Tidy` and `Decided` are assumptions of `MCReconcileDriver`, which TLC evaluates; `RunInv` and `SettleInv` were
checked as invariants of that instance before they were proved.

### 4.6 What is only model-checked, and why

Liveness (`WorkDrains`, `Converges`, `Reaps`, `FollowsUpstream`, `Reconciles`, `Collects`): the prover
does not do fairness and ENABLED. Every other property that a passing run checks is stated by a theorem, save
`TrimKeepsNeeded`, of which `TrimLossesExplained` says how far it holds of any clients. Those
with hypotheses beyond the named assumptions are false without them, or were not proved without them;
3.1 has the cases met. The hypotheses of 4.2 that are written as `[]P` (`Unshared`, `FreshUnmarked`; and
that no two runs start at one time) are about behaviours, not constants: TLC finds the first two true
throughout, as invariants, of `mirror`.

## 5. Plan

Modelled in this order: queue, mirrored repository, purge, git, driver with policies and planning, scan
results, gates, abstract queue. Proved in this order: queue, scan results, gates, refinement, git,
mirrored repository, purge, driver. What is left:
the reads of a run in `ReconcileDriver` and its writes, one destination at a time, as steps that
`MirrorReconcile` refines.

## 6. Not modelled

- Transforms: a Dockerfile rendered from a list of steps, and its hash. Pure text without state; the
  models have its version as a number and the names its steps refer to.
- Payload builders of attestations and SBOMs, rendering and the command line, settings, logging, wiring:
  pure construction of text or objects; only presence, facts and time matter to the models.
- `marketplace_json.py`: called by no use case. `gen_reference.py`, the site, demos, and the build.
- Process handling and output parsing of the `regctl`, `cosign`, `buildkit` and `git` adapters: what
  their calls do to the registry is in the actions.
- `resolve_archive`, the cascade of retention thresholds; field formats of policies; dry runs, which read only;
  refs that are a full commit id; links within a policy's path, and the refusal to run without a label prefix.
- `--check-sbom` and `--limit` of audit; the rulesets of scan reports.
