# A TLA+ model of fortsa

fortsa is a Kubernetes controller that keeps the sidecars of an Istio mesh up to
date: when the injector configuration changes it finds the workloads whose pods
carry another `istio-proxy` image than the injection webhook would give them now,
and restarts them by annotating their pod template. It persists nothing. Whether
a change reaches a pod is decided by the interplay of watches, lagging caches, a
deduplicating queue, a wait for istiod, a shortcut by creation time, a cooldown
and error paths that only log; that interplay is what these modules model.

Paths below are relative to `src/`; `internal/` is left out where the file name
is clear.

## 1. The system

| Component | State | Operations | Correct when |
|---|---|---|---|
| `controller/istio_change_reconciler.go` | none of its own; one reconcile's locals | `Reconcile`, `reconcileAll`, `scanAndAnnotate`, `annotateWorkloadsWithDelay` | every event leads to a scan that reads it; restarts are in scope and spaced |
| `podscanner/pod_scanner.go` | the list of a scan, `seen`, the result | `ScanOutdatedPods`, `processPodForOutdatedSidecar`, `shouldSkipPodForLastModified` | no outdated pod is passed over; every outdated workload is reported |
| image comparison (same file) | none | `ParseImage`, `imagesMatch` | equality of name and tag (of everything with `--compare-hub`) |
| `annotator/workload_annotator.go` | none; reads and writes `restartedAt` | `Annotate`, `getRestartedAt`, `patchWithRetry` | no restart within the cooldown; retries are bounded |
| `webhook/webhook_client.go` | none | `CallWebhook`, `getWebhookURLAndCABundle` | asks the istiod behind the pod's label |
| `configmap/*` | none | filter and request, `BuildLastModifiedByRevision` | reports the time of the version it read |
| `mwc/trigger.go` | none | filter and request, `FetchTagToRevisionAndLastModified` | revision and time of one version of the MWC |
| `namespace/trigger.go` | none | update filter and request | label changes are not missed |
| `periodic/trigger.go` | a ticker | request per tick | full scans, deduplicated |
| `cmd/main.go` | flags | manager setup, `parseSkipNamespaces` | |
| informers, work queue (controller-runtime) | caches, queue, backoff | deliver, dedupe, retry | external |
| Kubernetes, istiod | objects, loaded configuration | injection, rollouts | external |

How they interact: ConfigMap, MWC and namespace events pass a filter and become
requests, where all ConfigMap and MWC events share one name, a namespace has its
own and the ticker has another. The queue holds a request once; one worker takes
it, waits `--istiod-config-read-delay`, lists ConfigMaps, then MWCs, then pods
(three reads of caches that move on in between), and looks at one pod after the
other: the labels of workload and namespace, the skip by creation time, the
webhook call. Then it annotates what it found, one workload after the other with
`--restart-delay` in between. An error of one of the three lists goes back to the
queue with a backoff. Every other error is logged and the object is dropped.

What is hard to test here: time (istiod loads a ConfigMap later than it changes,
caches follow later still, timestamps have whole seconds), the order of reads
against the order of events, events during the reconcile they belong to, crashes
that lose the queue, the cooldown checked against a cache, dropped errors, and
whether all of this converges. `PROJECT.json` lists each hazard at its line.

## 2. Modules

| Module | Models |
|---|---|
| `ImageRef` | `ParseImage`, `imagesMatch` on token sequences |
| `IstioCluster` | external: ConfigMaps, tag MWCs, namespaces, istiod, workloads, pods, the clock, the informer caches |
| `PodScanner` | what a reconcile reads, the decisions about a pod, the scan |
| `WorkloadAnnotator` | cooldown, value, patch, retries |
| `IstioChangeReconciler` | filters, queue, `Reconcile`, faults, crash and restart; composes the above into `Spec` and `FairSpec` |
| `IstioChangeProperties` | types, invariants, action and liveness properties, the refinement mapping |
| `RestartRounds` | the abstract specification: what fortsa promises about restarts |
| `VerdictHistory` | the controller with a memory of when the pods of a reconcile were listed and what the webhook answered; `RestartsAreNeeded` |
| `MCIstioChange`, `MCVerdicts` | values for the constants |
| `IstioChangeProofs` | proofs: types, the skip by creation time |
| `QueueProofs` | proofs: no event is lost |
| `RestartProofs` | proofs: scope, spacing, cooldown, effect of a restart, what a scan reports |
| `RoundsProofs` | proofs: the refinement of `RestartRounds` |
| `RestProofs` | proofs: fortsa does not come to rest with a sidecar left behind |
| `NeededProofs` | proofs: nothing is restarted for nothing |
| `OwnerChain`, `MCOwnerChain` | `findWorkloadOwner`: the walk along owner references, through caches that change meanwhile |
| `ConfigParsing` | what is made of lists of ConfigMaps and MWCs and of `--skip-namespaces`, as functions |
| `MCParsing` | `ImageRef` and `ConfigParsing` against references |
| `OwnerChainProofs`, `ParsingProofs` | proofs about the owner walk, and about `ImageRef` and `ConfigParsing` |

From `ImageRef` to `IstioChangeProofs` each module EXTENDS the one before it
(`RestartRounds` and the MC modules aside); `QueueProofs` and `RestartProofs` extend
`IstioChangeProofs`, `RoundsProofs` extends `RestartProofs`, `RestProofs` extends
`QueueProofs` and `RestartProofs`, and `NeededProofs` extends `RestProofs` and
`VerdictHistory` (which extends `IstioChangeProperties`, as `MCIstioChange` does;
`MCVerdicts` extends both). The components' modules state what an operation does to their own variables; an action
of `IstioChangeReconciler` combines them and says where the worker (`pc`) goes.

`OwnerChain` and `ConfigParsing` look closely at what the composed model takes for
granted. There `OwnerOf` is a constant: what the walk of `OwnerChain` finds, and
`LookupFails` where it finds nothing or an error although there is an owner. A
revision has one ConfigMap and a tag one MWC there, whose times are what
`ConfigParsing` computes from a list of one. Several ConfigMaps of a revision, or
MWCs of a tag, exist in `ConfigParsing` only.

State and code:

* **Objects as histories.** `configMaps[r]`, `tagMWCs[t]`, `namespaces[n]` are the
  sequences of versions the object went through, each with the instant `at` of the
  change. A cache (`cmSeen`, `tagSeen`, `nsSeen`) is a cursor, and a pod remembers
  in `ver` and `tagVer` what it was injected from. Workloads are a `restartedAt`;
  the three kinds behave alike and are one set.
* **Time.** `now` counts ticks, `Second` of them to a second. `Trunc` is what
  `metav1.Time` and RFC 3339 do to a timestamp. The clock waits for istiod and the
  caches when they are about to exceed `IstiodLag` and `InformerLag`: these are
  assumptions on the environment, in the role the code gives
  `--istiod-config-read-delay`. The clock stays at `MaxTime`, which stands for all
  later instants. `RolloutLag` bounds a rollout in the same way; where it is
  larger than `MaxTime` it bounds nothing. Nothing
  bounds the worker's own steps: a call takes any time.
* **Tags** move, are removed (`rev = None`; a version of its own, as the watch
  reports it) and come back. A tag without an MWC is in neither map of the
  reconcile, and its name is then taken for a revision, as in the code.
* **The worker.** `pc` is `idle`, `await` (`awaitIstiodConfigReadDelay`),
  `configmaps`, `tags`, `list`, `scan`, `check` (the webhook call of `candidate`
  is under way), `annotate`, `patch` (between the cooldown check and the patch),
  `pause` (the restart delay), or `down`. The cluster and the caches take steps
  between any two of them. `timer` is what is left of a wait.
* **The scan.** `listed` is the copy of the pods that `listPods` returned, `todo`
  the ones not looked at. Labels and the MWC of the tag `default` are read when
  the code reads them, during the scan.
* **Injection** (`SelectedLabel`, `FreshPod`) is external: which injector takes a
  pod is modelled with the precedence that the scanner assumes. The webhook call
  returns the image of the version istiod has loaded at that moment.
* **Crash.** The process is gone at any step (also the end of the context after
  SIGTERM): the queue and all locals are lost. `Start` lists everything, which
  enqueues the ConfigMap and MWC events; `Create` events of namespaces are
  filtered out, as in `namespace.Filter`.
* **Faults** are bounded by `MaxReadFaults` (a List fails, or the webhook's denial
  without a status panics: controller-runtime recovers the panic as the error of
  the reconcile, and in both cases the request goes to `backoff`), `MaxDropFaults` (a lookup, webhook call or patch fails and is
  logged), `MaxConflicts`, `MaxCrashes`.
* `cmBase`, `tagBase`, `nsBase` (versions the reconcile has read) and `cmScanned`,
  `tagScanned`, `nsScanned` (versions of the last scan that ended) are history
  variables, and so are `listedAt` and `expected` of `VerdictHistory`; no action
  depends on them.

Definitions preceded by the comment "A slip" are wrong variants of the definition
below them, used to see that a property notices the mistake.

## 3. Properties

* `TypeOK`: types, bounds and at most `patchConflictMaxRetries` patches.
* `SkipIsSafe`: a pod passed over for its creation time, and injected under the
  label the scan reads for it, has the configuration the reconcile has read or a
  later one. `SkipInvariant` is the inductive invariant behind it.
* `NoEventLost`: what the caches show was read by a scan that ended, or will be by
  the reconcile under way or a queued one.
* `CooldownRespected`, `RestartsSpaced`, `RestartsInScope`, `OutdatedIsFound`: what
  is restarted, and when.
* `PatchTakesEffect`: no patch writes the value that is there already (two restarts
  within a second), which would restart nothing and be logged as a restart.
* `RestartsAreNeeded`: when a workload is restarted, one of its pods that no rollout is
  about to replace carries another image than the one the webhook answered with in this
  reconcile. It compares images, as the code does, and not versions of the
  configuration. It is about the verdicts that the cooldown covers
  (`CooldownCovers`): what the last patch took, a rollout, the lag of the cache and the
  age of the list must fit into `--annotation-cooldown`, or pods of the last rollout are
  still seen and restarted once more. The answer of the webhook is not asked for again
  at the restart: a configuration that goes back in the meantime is restarted for
  all the same.
* `ImplementsRounds`: the controller implements `RestartRounds`. A reconcile is a
  round: `phase` comes from `pc`, `scope` from the request, `verdicts` are the
  workloads of `found` from `index` on. A step of the controller is a step of the
  round or leaves it alone. The abstract specification has no caches, no queue, no
  pods and no time: a round judges workloads of its scope, then restarts each
  verdict at most once, moving `restartedAt` forward, and may be cut short.
* `FoundIsOwner`, `MissedOnlyIfGone`, `WalkEnds`: the walk from a pod to its
  workload finds only what the controller references lead to, finds it unless an
  object on the way was missing from a cache at some time of the walk, and ends.
* `RestIsUpToDate`: fortsa is not at rest (queue empty, worker idle, caches and
  istiod current, rollouts done) with an outdated sidecar.
* `Converges`, `ScansGoQuiet`: eventually all sidecars are and stay up to date, and
  no scan finds anything any more.
* `ParseFindsNameAndTag`, `MatchIsNameAndTag`: the image parser against a
  reference. What a digest does to the tag, and so to a match, is left out: the comment
  at `pod_scanner.go:55` ("tag is the digest part for comparison") and the test at
  `pod_scanner_test.go:68` (`latest`) disagree about it, and the code does what the
  test says. `RegistryIsIgnored` is what the comment of `imagesMatch` says, and fails
  (run `Port`). `LatestOfEachRevision`, `RevisionAndTimeOfOneMWC`, `SkipListIsRead`:
  the same for lists of ConfigMaps and MWCs in any order, and for the flag.

## 4. Runs

`tlc -config <run>.cfg MCIstioChange` (`MCVerdicts` for `Cooldown`, `MCOwnerChain` for
`Owners`, `MCParsing` for `Parsing` and `Port`).

| Run | Checks | Shows |
|---|---|---|
| `Skip` | `SkipIsSafe`, `SkipInvariant` | with the smallest sufficient delay (`IstiodLag + Second - 1`) the skip is safe behind a tag and behind a revision, while ConfigMaps and the tag change |
| `Queue` | `NoEventLost` | no event is lost among a ConfigMap change, a tag that is removed, two updates of a namespace, the ticker, a failing list or a panic in the scan of a pod, and a crash |
| `Cooldown` | `CooldownRespected`, `PatchTakesEffect`, `RestartsAreNeeded` | caches that lag at most the delay cannot break the cooldown, no patch repeats the value of the same second, and no pod that a rollout replaces or has replaced is the reason of a restart that the cooldown covers, across a conflict and a crash; with one more tick allowed in `CooldownCovers`, TLC finds a restart for nothing |
| `Restarts` | `TypeOK`, `RestartsSpaced`, `OutdatedIsFound` | two workloads outdated together are both found and restarted apart, whatever conflicts or fails |
| `Scope` | `RestartsInScope`, `ImplementsRounds` | a namespace request stays in its namespace, skipped namespaces are left alone; the refinement, with a workload of two pods and a crash |
| `Converge` | `RestIsUpToDate`, `Converges` | events alone suffice, across a failing list and a crash, if the delay covers istiod and the caches together |
| `Periodic` | `Converges`, `ScansGoQuiet` | the ticker makes up for the cooldown and for dropped calls, and the restarts stop |
| `Owners` | `FoundIsOwner`, `MissedOnlyIfGone`, `WalkEnds` | every chain of a pod, two ReplicaSets, a Deployment, a StatefulSet and a Job, with two changes of the caches during the walk |
| `Parsing` | the properties of `MCParsing` | all pairs of images with and without host, port, repository, tag and digest; all lists of up to three ConfigMaps, MWCs or flag entries |

The remaining runs each exhibit a disagreement between the code and a document,
comment or test; TLC reports the property as violated.

| Run | Property | What happens |
|---|---|---|
| `Relabel` | `Converges` | a namespace moves to a revision whose ConfigMap is older than the pod: every scan passes over the pod, which keeps the old revision's sidecar, also with the ticker |
| `SameName` | `OutdatedIsFound` | a Deployment and a StatefulSet of one name count as one workload |
| `Port` | `RegistryIsIgnored` | of two images without a tag that differ in the registry only, one has a port, which `ParseImage` takes for the tag (`pod_scanner.go:61`); they do not match |

More observations, which come from reading the code with the model at hand and
have no run of their own:

* a change during the cooldown of an earlier restart is skipped
  (`workload_annotator.go:67`) and not requeued: with `--reconcile-period 0`, the
  default, fortsa comes to rest with an outdated sidecar until some other event
  (`ARCHITECTURE.md:7` promises an up-to-date data plane). `Converge` has no
  cooldown for this reason, and `Periodic` has the ticker. Checking
  `RestIsUpToDate` under `Cooldown.cfg` shows it;
* a denial of the webhook without a status panics (`webhook_client.go:239`); as the
  panic is recovered, one such pod makes the whole reconcile fail and be retried,
  and none of the other workloads is restarted as long as it lasts;
* when the MWC of a tag is removed and the tag's name is also a revision's, no
  timestamp tells of the removal, and pods newer than that revision's ConfigMap
  are passed over. `SkipIsSafe` leaves this case out, and the tags of the runs are
  not revisions;
* when two MWCs carry one tag, the last one of the list decides. Revision and time
  stay together (`RevisionAndTimeOfOneMWC`), but another scan may read the other;
* a pod whose owner lookup, label lookup or webhook call failed is dropped and the
  reconcile succeeds (`pod_scanner.go:458`), so that fortsa comes to rest with an
  outdated sidecar the same way;
* `CooldownRespected` needs caches that lag no longer than the delay: with
  `--istiod-config-read-delay=0` two reconciles in a row can read the same cached
  `restartedAt`;
* `--restart-delay` is kept inside a reconcile, not between the last workload of
  one and the first of the next;
* `ParseImage` cuts a digest off where its comment says that it is the tag that is
  compared (`pod_scanner.go:55`); `pod_scanner_test.go:68` expects what the code does.
  The properties take no side.

**Bounds.** Every kind of change happens at least once in some run, and twice where
the second one matters: two ConfigMap changes, to a new image each, for the cooldown, two updates of a
namespace for the filter, two revisions and a tag for the skip, two workloads for
spacing and deduplication, two pods of one workload and three namespaces for the
scope. Configuration changes happen up to `Horizon`. In the liveness runs `MaxTime` lies beyond
`Horizon + IstiodLag + AnnotationCooldown`, so that every delay can expire before
the clock stops (at the last instant waits still count down, and a cooldown that
began earlier is over). Spacing is not measured at the last instant, which is many
instants at once. In `Skip` and `Cooldown` a second has two ticks, so that
truncation loses something; elsewhere it has one where truncation plays no part.
In the passing runs with the cooldown the delay is at least a second, as with the defaults.
`DryRun` is off in the runs; `WorksInRounds` and the theorems about restarts hold
for both. In `Owners` an object has at most one controller reference,
which is what the API server accepts, and the references have no cycle, as
Kubernetes controllers set them; `findWorkloadOwner` would not end on one. The
theorems about the walk assume neither.

**Deadlock.** The runs of the controller do not check for deadlock: a controller
with nothing to do and a clock at its end is a state where it may stay. What could
go wrong there is `RestIsUpToDate`, `NoEventLost` and `Converges`.

**Fairness** (`FairSpec`). The worker's steps and the restart of a dead process
(kubelet), deliveries of watches and of expired backoffs, the ticker, the clock,
istiod's reload and rollouts are weakly fair. Each request is served with strong
fairness: the queue hands out requests in turn, while `Dequeue(q)` is disabled
whenever the worker is busy. Nothing obliges anyone to change the configuration,
to evict a pod or to let a call fail.

**The periodic scan and the resync.** controller-runtime re-delivers all cached
objects after its sync period (ten hours by default), which enqueues a full scan
like a ticker with a very long period. Runs with `PeriodicOn = FALSE` are about
the time between two resyncs. `Relabel` has the ticker on, and is violated nevertheless.

## 5. Proofs

`tlapm <module>.tla` for the eight modules whose names end in `Proofs`. The theorems
hold for any sets of revisions, tags, namespaces, workloads, pods, owner
references and names, all bounds, lags and delays, under the named assumptions of
the modules (constants have their types, `Default` is a label, lags and `Second`
are positive, a second fits into the bound on the clock, request names and `None`
are distinct, objects of different kinds differ, an image is not empty, tokens of
an image hold no separator, creation times and times of managedFields are natural
numbers, an entry of `--skip-namespaces` is at most one name with blanks around it
and holds no comma). What a theorem assumes beyond these is in its statement.

| Theorem | States | If |
|---|---|---|
| `TypeCorrect` | `Spec => []TypeOK` | |
| `SkipInvariantHolds` | `Spec => []SkipInvariant` | |
| `SkipSafe` | `Spec => []SkipIsSafe` | `IstiodConfigReadDelay >= IstiodLag + Second - 1` |
| `NothingLost` | `Spec => []NoEventLost` | |
| `ScopeRespected` | `Spec => []RestartsInScope` | |
| `DelayKept` | `Spec => []RestartsSpaced` | |
| `CooldownKept` | `Spec => CooldownRespected` | `InformerLag <= IstiodConfigReadDelay` |
| `RestartsTakeEffect` | `Spec => PatchTakesEffect` | `Second <= IstiodConfigReadDelay` |
| `OutdatedFound` | `Spec => OutdatedIsFound` | no two workloads have the same `Key` (see the run `SameName`) |
| `RestsUpToDate` | `Spec => []RestIsUpToDate` | `Undisturbed`, see below |
| `NoneForNothing` | `VerdictSpec => RestartsAreNeeded` | `MaxEvictions = 0`, `InformerLag <= IstiodConfigReadDelay` |
| `WorksInRounds` | `Spec => ImplementsRounds` | |
| `AnswerOwnsPod`, `NilMeansGone` | `Spec => []FoundIsOwner`, `Spec => []MissedOnlyIfGone` | |
| `NameAndTagFound`, `MatchComparesNameAndTag` | `Spec => []ParseFindsNameAndTag`, `Spec => []MatchIsNameAndTag` | |
| `LatestTimesFound` | `Spec => []LatestOfEachRevision` | |
| `TagsOfOneMWC` | `Spec => []RevisionAndTimeOfOneMWC` | |
| `SkipListParsed` | `Spec => []SkipListIsRead` | |

The hypotheses on delays are the ones an operator can satisfy with a flag; the
default of `--istiod-config-read-delay` (ten seconds) satisfies those of `CooldownKept` and `RestartsTakeEffect` with
caches that lag less than that.

**Types.** `TypeOK` alone is not inductive: cursors must
stay inside the histories and the worker must carry a request and a candidate
where it uses them (`CursorsInRange`, `WorkerOK`). The proof uses three frame
lemmas (cluster, caches, worker) and one lemma per group of actions.

**The skip.** The fact that matters, a pod's sidecar is not older
than its creation time accounts for, is about three copies of the pod (cluster,
cache, list of the scan) and about histories that grow. `SkipInvariant` says that
every copy is *sound* for the current histories: every ConfigMap version that was
`IstiodLag` old when the pod was created is in it, and every earlier tag version
too. `Moves` captures what any step does to this: histories only gain versions
dated now (`Continues`), so no sound pod becomes unsound (`SoundKept`); new pods
are injected from what istiod serves, which is on time (`FreshPodSound`); copies
travel from cluster to cache to list. `SnapshotOK` ties the timestamps a reconcile
uses to one version of each object. Then `DelayCovers` is arithmetic: two
truncated timestamps that differ by the delay are at least `IstiodLag` apart and
in order. The run `Skip` checks `SkipInvariant` on the smallest delay; with one
tick less, TLC finds a pod that is passed over wrongly.

**The queue.** `NoEventLost` says that what the caches show was scanned, or is or
will be read. It is not inductive: when a scan ends, what *it* has read replaces
what an earlier one had covered, and the reconcile may have read an older version
than the cache shows now. `QueueOK` adds that whatever a full reconcile has read
is what the cache shows or another full scan is queued (`ConfigMapRead`, `TagRead`),
and the same for a namespace up to updates without Istio labels, which the filter
drops (`NamespaceRead`). `QueueStep` sorts the steps by what they do to queue,
cursors and worker; there is one case for each kind.

**Restarts.** `RoundSteps` shows once that every step of `Next` is of one of a few
kinds (the environment moves, a reconcile begins, reads, lists, looks at a pod,
judges it, turns to annotating, decides on a workload, patches it, goes on, ends,
the process starts). Everything after it is by these kinds.
`RoundOK` says that `found` belongs to the round under way, holds nothing twice and
is empty before the scan, `ScopeOK` carries the scope from the listed pods over the
candidate to `found`. For the delay, `SpacingOK` says that what is left on `timer`
makes up for what is missing since every earlier restart of the round. For the
cooldown two facts about time meet: the wait at the start of a reconcile separates
it from all earlier restarts (`SettledOK`: true for the workloads the round has not
dealt with, which is why `found` must hold nothing twice), and a restart older than
`InformerLag` is in the cache (`ShownOK`). So the decision of `Annotate` was made on
the current value, and `ChosenOK` carries it through the retries to the patch;
`TimesOK` bounds the times that take part.

**Rest.** `RestsUpToDate` does not rely on the ticker. Its hypothesis `Undisturbed`
lists what would make a reconcile drop a workload and nothing bring it back: a
cooldown, a dry run, a failing lookup, webhook call or patch, three conflicts, two
workloads with one key, a namespace whose labels change (the run `Relabel`), a tag
named like a revision. It asks for a delay that covers istiod's lag
together with the lag of a cache, and with the second that timestamps are cut to.
What remains are failing List calls, panics, up to two conflicts, crashes, pods
created at any time, and any number of changes before `Horizon`, where the clock goes
on for one more delay. The run `Converge` is an instance.

At rest every pod must be right, so the invariant says what becomes of each pod. It
does so only while the controller is `Calm`: the caches are current and no full scan
is queued. It becomes calm only when the worker takes the last full request
(`CalmBefore`); by then every change has happened, so the delay that starts now makes all
of them a whole delay old (`Aged`), also at the end of the model's time, by
`HorizonOK`. From there on every pod is `Cared` for: it is `Fine`, or of an older pod
template than its workload (`Rolling`), or the full scan under way is still going to
deal with it (`Handled`): it has not listed the pods, has the pod on its list, is
asking about it, has found its workload, or has not got to it. A pod leaves
`Handled` by one of four arguments. The list misses it: then it is younger than the
cache's lag and istiod had everything when it was created (`ListCalm`, from `PodsShown`
and `LateIsFine`). The scan passes over it: `SkipSafe` applies, and what
the reconcile has read is current by `QueueOK` (`PassedIsFine`). The webhook has
nothing against it: istiod is current, so the verdict is right (`JudgedIsFine`). Its
workload is patched: it rolls, unless it carries the value being written, and then it
was created after the decision's second began, which is late enough (`PatchCalm`,
from `StampOK`). New pods are fine because istiod is current once the delay is over.

**Nothing for nothing.** `NoneForNothing` excludes evictions, which take a pod away
behind the back of a verdict, and asks for `InformerLag <= IstiodConfigReadDelay`, as
`CooldownKept` does. Everything else is allowed: changes of the configuration, of tags
and labels, calls of any length that fail, panics, conflicts, crashes. What the
cooldown has to cover is part of the property.

A verdict is about the pods as they were listed. `JudgedOK` keeps what was true when
the webhook answered: what was found has a `Reason`, a listed pod with another image
than `expected`; list, answer and image do not change until the round is over. `ListedOK`
says what has become of a listed pod: it is still in its place and no rollout is going
to replace it (`Stays`), or its workload is `Recent`: it was restarted so shortly before
the list was made, or after, that the rollout was under way or not shown by the cache.
When the list is made, `RollsOK` and `BornOK` give the one or the other (`ListedNow`);
later only a rollout takes a pod away (`PodChanges`), and there is one only after a patch
(`PatchRecorded`). When the patch is sent, `Recent` contradicts the cooldown
(`NotRecent`): the decision was made on the current `restartedAt`, as in
`CooldownKept`, and the cooldown covers what came after it. So the pod of the
verdict is there, and stays.

**The refinement.** `StepOfRound` maps every kind of step to a step of
`RestartRounds` or to a stutter. Looking at a pod judges it; a patch restarts the
head of the verdicts, which is not among the rest (`RoundOK`), is in scope (`ScopeOK`),
and does not move `restartedAt` back (`TimesOK`); skipping, failing and giving up
drop a verdict; errors, panics and crashes end the round.

**The owner walk.** The trail is a stack of lists of references; four lemmas say
which references wait in it after one is consumed, a call is made or returns.
`OnTheWay`: every set that holds the pod and is closed under controller references
holds whatever the trail leads to, so also the answer. `NothingMissed`: there is a
set of objects the walk has got to, such that everything they lead to and that was
cached all along is in it or still waits on the trail. When the trail is empty,
that set is closed under references to steady objects and holds no workload.

**The image parser.** The theorems hold for all hosts, ports, repositories, names, tags
and digests; the digest counts for the name only (section 3). `LastAt`, `FirstAt` and `Nowhere` say where a separator is
found, `CutAt` and `LastToken` what the slices are. A rendered image is its path, the
tag behind it and the digest behind that: the first `@` is the digest's
(`DigestBehindAt`), the last colon before it the tag's, or there is none without
port and tag (`TagBehindColon`), the last slash before that the name's
(`NameBehindSlash`).

**Lists.** The library's induction theorems are out of the provers' reach, but the
well-foundedness of `<` on the naturals (`WellFoundedInduction`) is a plain fact: a set
of naturals that is not empty has a least element. `Climb` uses it: a set that holds 0
and with every number below `n` the next one holds `n`. The library defines a fold by
a recursive function on sets of indices; `FoldExists` shows by `Climb` that there is
such a function, and `TimesRun`, `RevisionsRun`, `TagsRun` and `SplitRuns` that the
result is the last of a run of intermediate results, each from the one before and the
next element of the list. Then an invariant of the loop body is one of the loop.
The rest is one loop invariant for each loop: after `n` ConfigMaps, `HasLatest` of the
first `n` (`RevisionsFound`); after `n` MWCs, `HasTag` (`TagsFound`); and
for `--skip-namespaces`, splitting what `Joined` wrote gives the entries back
(`SplitJoined`), because a run over an entry only extends the last part and a comma
begins a new one (`RunsEntry`, `RunsComma`); `Trimmed` says what `TrimSpace` leaves of an
entry. The `MaxList` of the run is a bound of the model only; the theorems hold for
every `MaxList`.

Only model-checked:

* liveness and fairness (`Converges`, `ScansGoQuiet`, `WalkEnds`), which the prover
  does not handle.

The violations `Relabel`, `SameName` and `Port` are facts about instances, and TLC's
counterexamples are what shows them.

## 6. Not modelled

* URL, TLS, CA bundle, admission review and JSON patch of the webhook client: I/O
  and encoding. Its errors are one, `WebhookFails`; its panic is `WebhookPanics`.
* A patch that the server applies and whose answer is lost: it differs from
  `PatchWorkload` in what is logged only, and is that action.
* An owner that is deleted and created again under its name with other owners. The
  code looks owners up by namespace and name and not by UID
  (`pod_scanner.go:252`), and would take the new one for the pod's.
* An `istio.io/rev` label that is there and empty, which passes the filter of
  namespaces (`namespace/trigger.go:32`) and selects nothing: it adds a scan.
* In the composed model: ConfigMaps that appear or disappear with their revision,
  several ConfigMaps of a revision or MWCs of a tag (`ConfigParsing` has them), and
  workloads that are created or deleted. Pods are replaced, not added.
* Hub, tag and image of the ConfigMap's values, which are parsed and not used.
* Flags other than those that are CONSTANTS, manager, metrics, leader election: one
  process at a time is assumed.
* Helm chart, manifests and test drivers.

## 7. Status

Done: the composed model with tags that move and vanish, rollouts that take time
and workloads of several pods; the owner chain; the parsers; the abstract
specification and its refinement. Every safety property that a passing run checks
is a theorem of section 5. What could be added: several ConfigMaps of a
revision in the composed model, and workloads that come and go.
