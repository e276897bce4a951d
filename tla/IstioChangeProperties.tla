----------------------- MODULE IstioChangeProperties -----------------------
(***************************************************************************)
(* What makes the controller correct.                                      *)
(***************************************************************************)
EXTENDS IstioChangeReconciler

-----------------------------------------------------------------------------
(* Types.                                                                  *)

ConfigMapVersions == [image : Images, at : Nat]
TagVersions       == [rev : Revisions \cup {None}, at : Nat]
NamespaceVersions == [rev : Labels \cup {None}, injection : Injections, at : Nat]

PodRecords ==
    [born : Nat, label : Labels \cup {None}, tagVer : Nat,
     rev : Revisions \cup {None}, ver : Nat, stamp : Nat]

Locations == {"down", "idle", "await", "configmaps", "tags", "list", "scan",
              "check", "annotate", "patch", "pause"}

ConfigTypeOK ==
    /\ now \in Nat
    /\ configMaps \in [Revisions -> Seq(ConfigMapVersions)]
    /\ tagMWCs \in [Tags -> Seq(TagVersions)]
    /\ namespaces \in [Namespaces -> Seq(NamespaceVersions)]
    /\ istiod \in [Revisions -> Nat]
    /\ restartedAt \in [Workloads -> Nat]

ClusterTypeOK ==
    /\ ConfigTypeOK
    /\ patchedAt \in [Workloads -> Nat]
    /\ pods \in [Pods -> PodRecords]
    /\ evictions \in 0 .. MaxEvictions

CacheTypeOK ==
    /\ cmSeen \in [Revisions -> Nat] /\ tagSeen \in [Tags -> Nat]
    /\ nsSeen \in [Namespaces -> Nat] /\ wlSeen \in [Workloads -> Nat]
    /\ podSeen \in [Pods -> PodRecords]

ScanTypeOK ==
    /\ lastModifiedByRevision \in [Revisions -> Nat]
    /\ tagToRevision \in [Tags -> Revisions \cup {None}]
    /\ lastModifiedByTag \in [Tags -> Nat]
    /\ todo \subseteq Pods /\ listed \in [Pods -> PodRecords]
    /\ candidate \in Pods \cup {None} /\ revOrTag \in Labels \cup {None}
    /\ found \in Seq(Workloads)
    /\ value \in Nat /\ attempt \in 0 .. (patchConflictMaxRetries - 1)

ControllerTypeOK ==
    /\ pc \in Locations
    /\ pending \subseteq Requests /\ backoff \subseteq Requests
    /\ request \in Requests \cup {None}
    /\ timer \in Nat /\ index \in Nat
    /\ readFaults \in 0 .. MaxReadFaults /\ dropFaults \in 0 .. MaxDropFaults
    /\ conflicts \in 0 .. MaxConflicts /\ crashes \in 0 .. MaxCrashes
    /\ cmBase \in [Revisions -> Nat] /\ tagBase \in [Tags -> Nat]
    /\ cmScanned \in [Revisions -> Nat] /\ tagScanned \in [Tags -> Nat]
    /\ nsBase \in [Namespaces -> Nat] /\ nsScanned \in [Namespaces -> Nat]

\* Every variable keeps its type: in particular no step of the worker sends
\* more than patchConflictMaxRetries patches for one workload
\* (patchWithRetry) and no fault happens more often than its bound.
TypeOK == ClusterTypeOK /\ CacheTypeOK /\ ScanTypeOK /\ ControllerTypeOK

-----------------------------------------------------------------------------
(* The skip by creation time (shouldSkipPodForLastModified).               *)

\* pod was injected from the Istio configuration the reconcile read for
\* label, or from a later one.
InjectedSince(pod, label) ==
    /\ label \in Tags => pod.tagVer >= tagBase[label]
    /\ \/ label \in Tags /\ pod.tagVer > tagBase[label]
       \/ pod.rev = RevisionFor(label) /\ pod.ver >= cmBase[pod.rev]

\* A pod that the scan passes over because of its creation time, and that
\* was injected under the label the scan reads for it, is up to date with
\* the configuration the reconcile has read: the ConfigMap, its cached
\* copy, istiod's reload, timestamps in whole seconds and the order of the
\* reads never add up to passing over a pod with an older sidecar.  (A tag
\* that was removed and shares its name with a revision is left out: the
\* removal leaves no timestamp behind.)
SkipIsSafe ==
    pc = "scan" =>
        \A p \in todo :
            LET label == getIstioRevFromWorkloadOrNamespace(OwnerOf[p])
            IN  (/\ label # None
                 /\ label \in Tags => tagToRevision[label] # None
                 /\ OwnerOf[p] \notin OptOut
                 /\ listed[p].label = label
                 /\ shouldSkipPodForLastModified(listed[p], label))
                => InjectedSince(listed[p], label)

-----------------------------------------------------------------------------
(* Why the skip is safe: the inductive invariant behind SkipIsSafe.        *)

\* Every cursor points to a version that exists.
CursorsInRange ==
    /\ \A r \in Revisions : /\ istiod[r] \in 1 .. Len(configMaps[r])
                            /\ cmSeen[r] \in 1 .. Len(configMaps[r])
    /\ \A t \in Tags : tagSeen[t] \in 1 .. Len(tagMWCs[t])
    /\ \A n \in Namespaces : nsSeen[n] \in 1 .. Len(namespaces[n])

\* What the worker carries at each place of Reconcile.
WorkerOK ==
    /\ pc \notin {"idle", "down"} => request \in Requests
    /\ pc = "check" => candidate \in Pods /\ revOrTag \in Labels

\* No version is from the future, and istiod is not behind its lag.
HistoryOK ==
    /\ \A r \in Revisions : \A v \in 1 .. Len(configMaps[r]) : configMaps[r][v].at <= now
    /\ \A t \in Tags : \A v \in 1 .. Len(tagMWCs[t]) : tagMWCs[t][v].at <= now
    /\ IstiodOnTime(now)

\* What a pod tells about the histories cms and tags of the ConfigMaps and
\* tag MWCs it was injected from: every ConfigMap version that was IstiodLag
\* old by then is in it, and so is every earlier version of its tag's MWC.
SidecarSound(pod, cms) ==
    pod.rev # None =>
        /\ pod.ver \in 1 .. Len(cms[pod.rev])
        /\ \A v \in 1 .. Len(cms[pod.rev]) :
              cms[pod.rev][v].at + IstiodLag <= pod.born => pod.ver >= v

TagSound(pod, tags) ==
    pod.label \in Tags =>
        /\ pod.tagVer \in 1 .. Len(tags[pod.label])
        /\ \A v \in 1 .. Len(tags[pod.label]) :
              tags[pod.label][v].at < pod.born => pod.tagVer >= v

PodSound(p, pod, cms, tags, time) ==
    /\ pod.born <= time
    /\ SidecarSound(pod, cms) /\ TagSound(pod, tags)
    /\ OwnerOf[p] \notin OptOut =>
          pod.rev = RevisionBehind(pod.label,
                       IF pod.label \in Tags THEN tags[pod.label][pod.tagVer].rev ELSE None)

PodsSound ==
    \A p \in Pods : /\ PodSound(p, pods[p], configMaps, tagMWCs, now)
                    /\ PodSound(p, podSeen[p], configMaps, tagMWCs, now)
                    /\ PodSound(p, listed[p], configMaps, tagMWCs, now)

\* The timestamps in use are those of the versions in cmBase and tagBase.
SnapshotOK ==
    /\ pc \notin {"idle", "down", "await", "configmaps"} =>
          \A r \in Revisions :
             /\ cmBase[r] \in 1 .. Len(configMaps[r])
             /\ lastModifiedByRevision[r] = Trunc(configMaps[r][cmBase[r]].at)
    /\ pc \notin {"idle", "down", "await", "configmaps", "tags"} =>
          \A t \in Tags :
             /\ tagBase[t] \in 1 .. Len(tagMWCs[t])
             /\ tagToRevision[t] = tagMWCs[t][tagBase[t]].rev
             /\ tagToRevision[t] # None =>
                   lastModifiedByTag[t] = Trunc(tagMWCs[t][tagBase[t]].at)

\* Every pod, also a stale copy of it in the cache or in the list of a scan,
\* was injected from versions its creation time accounts for, and the scan
\* works with the timestamps of one version of every object: together with
\* TypeOK this is inductive and implies SkipIsSafe.
SkipInvariant == CursorsInRange /\ WorkerOK /\ HistoryOK /\ PodsSound /\ SnapshotOK

-----------------------------------------------------------------------------
(* The queue.                                                              *)

FullScanQueued == (pending \cup backoff) \cap FullRequests # {}

ConfigMapCovered(r) ==
    \/ cmScanned[r] = cmSeen[r]
    \/ FullScanQueued
    \/ /\ request \in FullRequests
       /\ (pc \in {"await", "configmaps"} \/ cmBase[r] = cmSeen[r])

TagCovered(t) ==
    \/ tagScanned[t] = tagSeen[t]
    \/ FullScanQueued
    \/ /\ request \in FullRequests
       /\ (pc \in {"await", "configmaps", "tags"} \/ tagBase[t] = tagSeen[t])

\* No update after version v of namespace n adds, changes or removes labels.
NoNewsSince(n, v) ==
    \A u \in (v + 1) .. nsSeen[n] :
        /\ u > 1
        /\ ~hasIstioLabels(namespaces[n][u])
        /\ ~hasIstioLabels(namespaces[n][u - 1])

NamespaceCovered(n) ==
    \/ NoNewsSince(n, nsScanned[n])
    \/ FullScanQueued
    \/ n \in pending \cup backoff
    \/ /\ request # None
       /\ n \in LimitToNamespaces
       /\ (pc \in {"await", "configmaps", "tags", "list"} \/ NoNewsSince(n, nsBase[n]))

\* No event is lost: while the process runs, every version of a ConfigMap
\* or tag MWC that the cache shows, and every update of a namespace with
\* Istio labels, was read by a scan that ended or is going to be: by the
\* reconcile under way, which has not read it yet or has read exactly it, or
\* by one that is queued or backing off.  This covers error returns, events
\* that arrive while their own request is being reconciled, namespaces that
\* change while the process is down (their Create events are filtered out)
\* and requests for one namespace, which must not stand in for a full scan.
NoEventLost ==
    pc # "down" => /\ \A r \in Revisions : ConfigMapCovered(r)
                   /\ \A t \in Tags : TagCovered(t)
                   /\ \A n \in Namespaces : NamespaceCovered(n)

-----------------------------------------------------------------------------
(* The annotation.                                                         *)

\* Annotate: a workload that carries a restartedAt is not restarted again
\* before the cooldown has passed since then, although the cooldown is
\* checked against a cache, the patch may be retried later than the check,
\* and the process may crash in between.  (The clock's last instant stands
\* for all later ones, so spacing is not measured there.)
CooldownRespected ==
    [][\A w \in Workloads :
          (now < MaxTime /\ restartedAt[w] # 0 /\ restartedAt'[w] # restartedAt[w])
          => now - restartedAt[w] >= AnnotationCooldown]_vars

\* Annotate: no restart is written over one of the same second.  The value
\* has whole seconds, so the second patch would change nothing, replace no
\* pod and still be logged as a restart; what keeps two patches of a workload
\* apart is the wait at the start of every reconcile, also of the one after a
\* crash, and that a scan reports a workload once.
PatchTakesEffect ==
    [][(now < MaxTime /\ PatchWorkload)
       => restartedAt'[found[index]] # restartedAt[found[index]]]_vars

\* annotateWorkloadsWithDelay: when a workload is about to be patched, every
\* earlier one of the same reconcile was patched at least RestartDelay ago,
\* whatever was skipped, retried or failed in between.
RestartsSpaced ==
    pc = "patch" /\ now < MaxTime =>
        \A i \in 1 .. (index - 1) : now - patchedAt[found[i]] >= RestartDelay

\* A reconcile restarts only workloads it was asked to look at: those of the
\* namespace whose labels changed, or of all namespaces, and in no case one
\* of the skipped namespaces (LimitToNamespaces, SkipNamespaces).
RestartsInScope ==
    \A i \in DOMAIN found :
        NamespaceOf[found[i]] \in LimitToNamespaces \ SkipNamespaces

\* How a reconcile is a round of RestartRounds.
RoundPhase ==
    CASE pc \in {"idle", "down"} -> "rest"
      [] pc \in {"annotate", "patch", "pause"} -> "restarting"
      [] OTHER -> "judging"

RoundScope    == IF request = None THEN {} ELSE LimitToNamespaces
RoundVerdicts == {found[i] : i \in {j \in DOMAIN found : j >= index}}

Rounds == INSTANCE RestartRounds WITH
    Times <- 0 .. MaxTime,
    phase <- RoundPhase, scope <- RoundScope, verdicts <- RoundVerdicts

\* The reconciler works in rounds: it restarts workloads of the round's scope
\* only, outside skipped namespaces, each at most once per round, one by one,
\* never in a dry run and never from a list of an earlier round, whatever
\* fails, and after a crash starts over (Reconcile, ScanOutdatedPods,
\* annotateWorkloadsWithDelay).
ImplementsRounds == Rounds!Spec

\* ScanOutdatedPods: the workload of a pod that was found outdated is among
\* the workloads to restart.
OutdatedIsFound ==
    [][(/\ pc = "check" /\ pc' = "scan" /\ UNCHANGED dropFaults
        /\ Outdated(candidate, revOrTag))
       => \E i \in DOMAIN found' : found'[i] = OwnerOf[candidate]]_vars

-----------------------------------------------------------------------------
(* The promise: the data plane follows the configuration.                  *)

\* The sidecar of pod p is the one Istio would give it now.
UpToDate(p) ==
    LET w     == OwnerOf[p]
        want  == FreshPod(w)
    IN  \/ pods[p] = NoPod
        \/ NamespaceOf[w] \in SkipNamespaces
        \/ want.rev = None
        \/ << getIstioProxyImage(pods[p]), getIstioProxyImage(want) >> \in MatchingImages

\* Nothing is under way: the queue is empty, the worker idle, the caches and
\* istiod are current and no rollout is left to do.
AtRest ==
    /\ pc = "idle" /\ pending = {} /\ backoff = {}
    /\ \A r \in Revisions : cmSeen[r] = Len(configMaps[r]) /\ istiod[r] = cmSeen[r]
    /\ \A t \in Tags : tagSeen[t] = Len(tagMWCs[t])
    /\ \A n \in Namespaces : nsSeen[n] = Len(namespaces[n])
    /\ wlSeen = restartedAt /\ podSeen = pods
    /\ \A p \in Pods : pods[p] # NoPod => pods[p].stamp = restartedAt[OwnerOf[p]]

\* "keeps Istio's data-plane up-to-date by automatically restarting workloads
\* with outdated sidecar proxies when Istio configuration changes": fortsa
\* does not come to rest with a sidecar left behind.
RestIsUpToDate == AtRest => \A p \in Pods : UpToDate(p)

\* Once nobody changes the configuration any more, every sidecar is brought
\* up to date and stays so: no change is forgotten by a cache, the queue,
\* the skip, the cooldown, an error path or a crash (the whole controller).
Converges == <>[](\A p \in Pods : UpToDate(p))

\* ... and fortsa comes to rest: after some time no scan finds anything, so
\* nothing is restarted over and over (ScanOutdatedPods, Annotate).
ScansGoQuiet == <>[](found = << >>)
=============================================================================
