----------------------- MODULE IstioChangeReconciler -----------------------
(***************************************************************************)
(* The whole controller: watches and their filters feed a deduplicating    *)
(* queue, one worker reconciles one request at a time (internal/controller *)
(* on controller-runtime), and every reconcile waits for istiod, reads the *)
(* Istio configuration, scans the pods and annotates what it found.        *)
(*                                                                         *)
(* pc follows the worker through Reconcile:                                *)
(*   idle -> await -> configmaps -> tags -> list -> scan <-> check         *)
(*        -> annotate -> patch -> pause -> annotate ... -> idle            *)
(* and is "down" while no fortsa process runs.                             *)
(***************************************************************************)
EXTENDS WorkloadAnnotator

CONSTANTS
    IstioChange,        \* request name of ConfigMap and MWC events
    PeriodicReconcile,  \* request name of the ticker
    PeriodicOn,         \* --reconcile-period > 0
    RestartDelay,       \* --restart-delay, in ticks
    DryRun,             \* --dry-run
    MaxReadFaults,      \* bound: failing List calls, panics
    MaxDropFaults,      \* bound: failing lookups, webhook calls and patches
    MaxConflicts,       \* bound: Conflict answers
    MaxCrashes          \* bound: process crashes

ASSUME ReconcilerAssumption ==
    /\ PeriodicOn \in BOOLEAN /\ DryRun \in BOOLEAN
    /\ RestartDelay \in Nat
    /\ IstioChange # PeriodicReconcile
    /\ IstioChange \notin Namespaces /\ PeriodicReconcile \notin Namespaces
    /\ None \notin Namespaces \cup Pods \cup {IstioChange, PeriodicReconcile}
    /\ MaxReadFaults \in Nat /\ MaxDropFaults \in Nat
    /\ MaxConflicts \in Nat /\ MaxCrashes \in Nat

Requests     == {IstioChange, PeriodicReconcile} \cup Namespaces
FullRequests == {IstioChange, PeriodicReconcile}

VARIABLES
    pc,             \* where the worker is
    pending,        \* requests in the queue
    backoff,        \* requests waiting for their rate-limited retry
    request,        \* the request being reconciled, None when idle
    timer,          \* ticks left of the current wait
    index,          \* position in found of the workload being annotated
    readFaults, dropFaults, conflicts, crashes  \* used up from the bounds

VARIABLES           \* history, read by properties only
    cmBase,         \* ConfigMap versions behind lastModifiedByRevision
    tagBase,        \* tag MWC versions behind tagToRevision
    nsBase,         \* namespace versions when the pods were listed
    cmScanned,      \* the same versions of the last scan that ended: a full
    tagScanned,     \* one, or for a namespace one that included it
    nsScanned

queueVars   == << pending, backoff, request >>
faultVars   == << readFaults, dropFaults, conflicts, crashes >>
baseVars    == << cmBase, tagBase, nsBase >>
scannedVars == << cmScanned, tagScanned, nsScanned >>
historyVars == << baseVars, scannedVars >>
workVars    == << configVars, scanVars, annotatorVars >>

vars == << clusterVars, cacheVars, workVars, pc, queueVars, timer, index,
           faultVars, historyVars >>

Init ==
    /\ ClusterInit /\ CacheInit /\ ScanInit /\ AnnotatorInit
    /\ pc = "idle"
    /\ pending = {IstioChange}      \* the Create events of the first list
    /\ backoff = {} /\ request = None
    /\ timer = 0 /\ index = 0
    /\ readFaults = 0 /\ dropFaults = 0 /\ conflicts = 0 /\ crashes = 0
    /\ cmBase = [r \in Revisions |-> 0] /\ cmScanned = [r \in Revisions |-> 0]
    /\ tagBase = [t \in Tags |-> 0] /\ tagScanned = [t \in Tags |-> 0]
    /\ nsBase = [n \in Namespaces |-> 0] /\ nsScanned = [n \in Namespaces |-> 0]

-----------------------------------------------------------------------------
(* The cluster moves on its own.                                           *)

controllerVars == << workVars, pc, queueVars, timer, index, faultVars, historyVars >>

ClusterStep ==
    /\ \/ \E r \in Revisions : UpdateConfigMap(r) \/ IstiodReload(r)
       \/ \E t \in Tags, r \in Revisions \cup {None} : RetagMWC(t, r)
       \/ \E n \in Namespaces : RelabelNamespace(n)
       \/ \E p \in Pods : EvictPod(p) \/ RollPod(p)
    /\ UNCHANGED << cacheVars, controllerVars >>

\* One tick; a wait of the worker gets shorter by one.
Tick ==
    /\ now' = NextInstant
    /\ IstiodOnTime(now')
    /\ RolloutsOnTime(now')
    /\ pc # "down" => CachesOnTime(now')
    /\ timer' = IF timer > 0 THEN timer - 1 ELSE 0
    /\ UNCHANGED << configMaps, tagMWCs, namespaces, istiod, restartedAt,
                    patchedAt, pods, evictions, cacheVars, workVars, pc,
                    queueVars, index, faultVars, historyVars >>

-----------------------------------------------------------------------------
(* Watches: a cache shows an event, its filter decides, the queue takes    *)
(* the request once.                                                       *)

unwatched == << clusterVars, workVars, pc, backoff, request, timer, index,
                faultVars, historyVars >>

SyncConfigMap(r) ==
    /\ pc # "down"
    /\ ShowConfigMap(r)
    /\ pending' = pending \cup {IstioChange}
    /\ UNCHANGED unwatched

SyncTag(t) ==
    /\ pc # "down"
    /\ ShowTag(t)
    /\ pending' = pending \cup {IstioChange}
    /\ UNCHANGED unwatched

\* (An istio.io/rev that is there and empty counts as a label in the code.  It
\* selects nothing, and would only add requests for namespaces.)
hasIstioLabels(labels) == labels.rev # None \/ labels.injection # "unset"

\* Update events pass when the old or the new labels are Istio's.
SyncNamespace(n) ==
    /\ pc # "down"
    /\ ShowNamespace(n)
    /\ pending' = IF \/ hasIstioLabels(namespaces[n][nsSeen[n]])
                     \/ hasIstioLabels(namespaces[n][nsSeen[n] + 1])
                  THEN pending \cup {n} ELSE pending
    /\ UNCHANGED unwatched

\* Workloads and pods are cached because they are read; nothing is enqueued.
SyncWorkload(w) ==
    /\ pc # "down"
    /\ ShowWorkload(w)
    /\ UNCHANGED << unwatched, pending >>

SyncPod(p) ==
    /\ pc # "down"
    /\ ShowPod(p)
    /\ UNCHANGED << unwatched, pending >>

\* The ticker of the periodic source.
PeriodicTick ==
    /\ pc # "down"
    /\ PeriodicOn
    /\ PeriodicReconcile \notin pending
    /\ pending' = pending \cup {PeriodicReconcile}
    /\ UNCHANGED << unwatched, cacheVars >>

-----------------------------------------------------------------------------
(* Reconcile.                                                              *)

\* The worker takes a request and starts to wait for istiod.
Dequeue(q) ==
    /\ pc = "idle"
    /\ q \in pending
    /\ pending' = pending \ {q}
    /\ request' = q
    /\ pc' = "await"
    /\ timer' = IstiodConfigReadDelay
    /\ UNCHANGED << clusterVars, cacheVars, workVars, backoff, index, faultVars,
                    historyVars >>

\* A slip: starting at once.
AwaitNothing ==
    /\ pc = "await"
    /\ pc' = "configmaps"
    /\ timer' = 0
    /\ UNCHANGED << clusterVars, cacheVars, workVars, queueVars, index, faultVars,
                    historyVars >>

AwaitIstiodConfigReadDelay ==
    /\ pc = "await"
    /\ timer = 0
    /\ pc' = "configmaps"
    /\ UNCHANGED << clusterVars, cacheVars, workVars, queueVars, timer, index,
                    faultVars, historyVars >>

ReadConfigMaps ==
    /\ pc = "configmaps"
    /\ lastModifiedByRevision' = BuildLastModifiedByRevision
    /\ cmBase' = cmSeen
    /\ pc' = "tags"
    /\ UNCHANGED << clusterVars, cacheVars, tagToRevision, lastModifiedByTag,
                    scanVars, annotatorVars, queueVars, timer, index, faultVars,
                    tagBase, nsBase, scannedVars >>

ReadTags ==
    /\ pc = "tags"
    /\ tagToRevision' = FetchTagToRevision
    /\ lastModifiedByTag' = FetchLastModifiedByTag
    /\ tagBase' = tagSeen
    /\ pc' = "list"
    /\ UNCHANGED << clusterVars, cacheVars, lastModifiedByRevision, scanVars,
                    annotatorVars, queueVars, timer, index, faultVars, cmBase,
                    nsBase, scannedVars >>

LimitToNamespaces == IF request \in FullRequests THEN Namespaces ELSE {request}

ListPods ==
    /\ pc = "list"
    /\ listPods(LimitToNamespaces)
    /\ nsBase' = nsSeen
    /\ pc' = "scan"
    /\ UNCHANGED << clusterVars, cacheVars, annotatorVars, queueVars, timer,
                    index, faultVars, cmBase, tagBase, scannedVars >>

BaseReset ==
    /\ cmBase' = [r \in Revisions |-> 0]
    /\ tagBase' = [t \in Tags |-> 0]
    /\ nsBase' = [n \in Namespaces |-> 0]

\* A reconcile ends: its locals are gone and the worker is idle again.
EndReconcile ==
    /\ ScanReset /\ AnnotatorReset
    /\ pc' = "idle"
    /\ request' = None
    /\ timer' = 0
    /\ index' = 0
    /\ BaseReset

\* A slip: logging the error and returning success.
ReadFailsSilently ==
    /\ pc \in {"configmaps", "tags", "list"}
    /\ readFaults < MaxReadFaults
    /\ readFaults' = readFaults + 1
    /\ EndReconcile
    /\ UNCHANGED << clusterVars, cacheVars, pending, backoff, dropFaults,
                    conflicts, crashes, scannedVars >>

\* Reconcile returns an error: the request goes back to the queue.
ReturnError ==
    /\ readFaults < MaxReadFaults
    /\ readFaults' = readFaults + 1
    /\ EndReconcile
    /\ backoff' = backoff \cup {request}
    /\ UNCHANGED << clusterVars, cacheVars, pending, dropFaults, conflicts,
                    crashes, scannedVars >>

\* One of the three List calls fails.
ReadFails == pc \in {"configmaps", "tags", "list"} /\ ReturnError

\* The webhook denies the pod without a status: the nil pointer panics, and
\* controller-runtime, which recovers, makes it the error of this reconcile.
WebhookPanics == pc = "check" /\ ReturnError

BackoffExpires(q) ==
    /\ q \in backoff
    /\ backoff' = backoff \ {q}
    /\ pending' = pending \cup {q}
    /\ UNCHANGED << clusterVars, cacheVars, workVars, pc, request, timer, index,
                    faultVars, historyVars >>

scanUnchanged == << clusterVars, cacheVars, annotatorVars, queueVars, timer,
                    historyVars, readFaults, conflicts, crashes >>

ScanPod(p) ==
    /\ pc = "scan"
    /\ \/ PassOverPod(p) /\ pc' = "scan"
       \/ SelectPod(p) /\ pc' = "check"
    /\ UNCHANGED << scanUnchanged, index, dropFaults >>

CheckCandidate ==
    /\ pc = "check"
    /\ CheckPod
    /\ pc' = "scan"
    /\ UNCHANGED << scanUnchanged, index, dropFaults >>

ScanFails ==
    /\ dropFaults < MaxDropFaults
    /\ dropFaults' = dropFaults + 1
    /\ \/ pc = "scan" /\ \E p \in Pods : LookupFails(p)
       \/ pc = "check" /\ WebhookFails
    /\ pc' = "scan"
    /\ UNCHANGED << scanUnchanged, index >>

ScanEnds ==
    /\ pc = "scan"
    /\ todo = {}
    /\ pc' = "annotate"
    /\ index' = 1
    /\ UNCHANGED << scanUnchanged, configVars, scanVars, dropFaults >>

-----------------------------------------------------------------------------
(* annotateWorkloadsWithDelay.                                             *)

annotateUnchanged == << cacheVars, configVars, scanVars, queueVars, historyVars,
                        readFaults, crashes >>

\* A slip: the delay is off by one workload.
NextWorkloadLate ==
    LET wait == index > 1 /\ index < Len(found) /\ RestartDelay > 0
    IN  /\ index' = index + 1
        /\ timer' = IF wait THEN RestartDelay ELSE 0
        /\ pc' = IF wait THEN "pause" ELSE "annotate"

\* On to the next workload, after the restart delay.
NextWorkload ==
    LET wait == index < Len(found) /\ RestartDelay > 0
    IN  /\ index' = index + 1
        /\ timer' = IF wait THEN RestartDelay ELSE 0
        /\ pc' = IF wait THEN "pause" ELSE "annotate"

Pause ==
    /\ pc = "pause"
    /\ timer = 0
    /\ pc' = "annotate"
    /\ UNCHANGED << annotateUnchanged, clusterVars, annotatorVars, timer, index,
                    dropFaults, conflicts >>

\* Dry run, or annotated recently: the workload is passed over.
SkipWorkload ==
    /\ pc = "annotate"
    /\ index <= Len(found)
    /\ DryRun \/ CoolingDown(found[index])
    /\ NextWorkload
    /\ UNCHANGED << annotateUnchanged, clusterVars, annotatorVars, dropFaults,
                    conflicts >>

StartPatch ==
    /\ pc = "annotate"
    /\ index <= Len(found)
    /\ ~DryRun
    /\ ChooseValue(found[index])
    /\ pc' = "patch"
    /\ UNCHANGED << annotateUnchanged, clusterVars, timer, index, dropFaults,
                    conflicts >>

\* The server applies the patch.  If its answer is then lost, Annotate returns
\* an error for it, which is logged in the place of the success; the loop goes
\* on all the same, so that this is the same step.
PatchWorkload ==
    /\ pc = "patch"
    /\ Patch(found[index])
    /\ AnnotatorReset
    /\ NextWorkload
    /\ UNCHANGED << annotateUnchanged, dropFaults, conflicts >>

\* The server answers Conflict: try again, or give up after the third time.
PatchConflicts ==
    /\ pc = "patch"
    /\ conflicts < MaxConflicts
    /\ conflicts' = conflicts + 1
    /\ \/ PatchConflict /\ UNCHANGED << pc, timer, index >>
       \/ PatchGivesUp(TRUE) /\ NextWorkload
    /\ UNCHANGED << annotateUnchanged, clusterVars, dropFaults >>

\* Any other error, of a patch that was not applied or of the read before it:
\* logged, next.
AnnotateFails ==
    /\ dropFaults < MaxDropFaults
    /\ dropFaults' = dropFaults + 1
    /\ \/ pc = "patch" /\ PatchGivesUp(FALSE)
       \/ /\ pc = "annotate" /\ index <= Len(found)
          /\ ~DryRun /\ AnnotationCooldown > 0
          /\ UNCHANGED annotatorVars
    /\ NextWorkload
    /\ UNCHANGED << annotateUnchanged, clusterVars, conflicts >>

\* All workloads done: Reconcile returns success, the request is forgotten.
Finish ==
    /\ pc = "annotate"
    /\ index > Len(found)
    /\ EndReconcile
    /\ IF request \in FullRequests
       THEN cmScanned' = cmBase /\ tagScanned' = tagBase
       ELSE UNCHANGED << cmScanned, tagScanned >>
    /\ nsScanned' = [n \in Namespaces |->
                       IF n \in LimitToNamespaces THEN nsBase[n] ELSE nsScanned[n]]
    /\ UNCHANGED << clusterVars, cacheVars, pending, backoff, faultVars >>

-----------------------------------------------------------------------------
(* Crash and restart: nothing is persisted, the queue is lost, the first   *)
(* list of a new process creates ConfigMap and MWC events; Create events   *)
(* of namespaces are filtered out.                                         *)

Crash ==
    /\ pc # "down"
    /\ crashes < MaxCrashes
    /\ crashes' = crashes + 1
    /\ ScanReset /\ AnnotatorReset
    /\ pc' = "down"
    /\ pending' = {} /\ backoff' = {} /\ request' = None
    /\ timer' = 0 /\ index' = 0
    /\ BaseReset
    /\ UNCHANGED << clusterVars, cacheVars, readFaults, dropFaults, conflicts,
                    scannedVars >>

Start ==
    /\ pc = "down"
    /\ ShowAll
    /\ pc' = "idle"
    /\ pending' = {IstioChange}
    /\ UNCHANGED << clusterVars, workVars, backoff, request, timer, index,
                    faultVars, historyVars >>

-----------------------------------------------------------------------------
Deliveries ==
    \/ \E r \in Revisions : SyncConfigMap(r)
    \/ \E t \in Tags : SyncTag(t)
    \/ \E n \in Namespaces : SyncNamespace(n)
    \/ \E w \in Workloads : SyncWorkload(w)
    \/ \E p \in Pods : SyncPod(p)
    \/ \E q \in Requests : BackoffExpires(q)

Worker ==
    \/ AwaitIstiodConfigReadDelay \/ ReadConfigMaps \/ ReadTags \/ ListPods
    \/ (\E p \in Pods : ScanPod(p)) \/ CheckCandidate \/ ScanEnds
    \/ Pause \/ SkipWorkload \/ StartPatch \/ PatchWorkload \/ Finish

Faults ==
    \/ ReadFails \/ WebhookPanics \/ ScanFails \/ PatchConflicts \/ AnnotateFails \/ Crash

Next ==
    \/ ClusterStep \/ Tick \/ Deliveries \/ PeriodicTick
    \/ \E q \in Requests : Dequeue(q)
    \/ Worker \/ Faults \/ Start

Spec == Init /\ [][Next]_vars

\* The cluster's own obligations: istiod reloads, rollouts make progress.
Settle ==
    /\ \/ \E r \in Revisions : IstiodReload(r)
       \/ \E p \in Pods : RollPod(p)
    /\ UNCHANGED << cacheVars, controllerVars >>

\* The worker never stops, the queue serves every request in turn, watches
\* and retries deliver, the ticker ticks, a dead process is restarted, the
\* cluster settles and time passes.  Nothing obliges anyone to change the
\* configuration, to evict a pod or to make a call fail.
Fairness ==
    /\ WF_vars(Tick) /\ WF_vars(Settle)
    /\ WF_vars(Deliveries) /\ WF_vars(PeriodicTick)
    /\ WF_vars(Worker) /\ WF_vars(Start)
    /\ \A q \in Requests : SF_vars(Dequeue(q))

FairSpec == Spec /\ Fairness
=============================================================================
