---------------------------- MODULE QueueProofs ----------------------------
(***************************************************************************)
(* Proof, for all values of the constants, that no event is lost: what the *)
(* caches show has been read by a scan that ended or is going to be read.  *)
(***************************************************************************)
EXTENDS IstioChangeProofs

-----------------------------------------------------------------------------
(* The steps of the queue.  What happens to requests, to the cached        *)
(* versions and to the versions a reconcile has read; nothing else matters *)
(* here.                                                                   *)

\* Where the reconcile has read everything.
Working == {"scan", "check", "annotate", "patch", "pause"}

\* The cluster, the clock, a delivery that nothing watches, the worker
\* between its reads.
Quiet ==
    /\ \/ pc' = pc
       \/ pc = "await" /\ pc' = "configmaps"
       \/ pc \in Working /\ pc' \in Working
    /\ UNCHANGED << pending, backoff, request, cmSeen, tagSeen, nsSeen, cmBase, tagBase, nsBase,
                    cmScanned, tagScanned, nsScanned >>

\* A request is added, for a ConfigMap or MWC event or for the ticker, or
\* comes back from its backoff.
Enqueues ==
    /\ pending \cup backoff \subseteq pending' \cup backoff'
    /\ UNCHANGED << cmSeen, tagSeen >> \/ IstioChange \in pending'
    /\ UNCHANGED << pc, request, nsSeen, cmBase, tagBase, nsBase, cmScanned, tagScanned,
                    nsScanned >>

ShowsNamespace(n) ==
    /\ nsSeen' = [nsSeen EXCEPT ![n] = @ + 1]
    /\ nsSeen[n] < Len(namespaces[n])
    /\ \/ n \in pending'
       \/ /\ ~hasIstioLabels(namespaces[n][nsSeen[n]])
          /\ ~hasIstioLabels(namespaces[n][nsSeen[n] + 1])
    /\ pending \subseteq pending'
    /\ UNCHANGED << namespaces, pc, backoff, request, cmSeen, tagSeen, cmBase, tagBase, nsBase, cmScanned,
                    tagScanned, nsScanned >>

Dequeues(q) ==
    /\ pc = "idle" /\ pc' = "await"
    /\ pending' = pending \ {q} /\ request' = q
    /\ UNCHANGED << backoff, cmSeen, tagSeen, nsSeen, cmBase, tagBase, nsBase, cmScanned,
                    tagScanned, nsScanned >>

\* One of the three reads, each of what the cache shows now.
ReadsOne ==
    /\ \/ pc = "configmaps" /\ pc' = "tags" /\ cmBase' = cmSeen /\ UNCHANGED << tagBase, nsBase >>
       \/ pc = "tags" /\ pc' = "list" /\ tagBase' = tagSeen /\ UNCHANGED << cmBase, nsBase >>
       \/ pc = "list" /\ pc' = "scan" /\ nsBase' = nsSeen /\ UNCHANGED << cmBase, tagBase >>
    /\ UNCHANGED << pending, backoff, request, cmSeen, tagSeen, nsSeen, cmScanned, tagScanned,
                    nsScanned >>

\* The request of a reconcile that failed waits for its retry.
Fails ==
    /\ pc \notin {"idle", "down"} /\ pc' = "idle" /\ request' = None
    /\ backoff' = backoff \cup {request}
    /\ UNCHANGED << pending, cmSeen, tagSeen, nsSeen, cmScanned, tagScanned, nsScanned >>

\* The request of a reconcile that succeeded is forgotten.
Finishes ==
    /\ pc = "annotate" /\ pc' = "idle" /\ request' = None
    /\ cmScanned' = (IF request \in FullRequests THEN cmBase ELSE cmScanned)
    /\ tagScanned' = (IF request \in FullRequests THEN tagBase ELSE tagScanned)
    /\ nsScanned' = [n \in Namespaces |->
                       IF n \in LimitToNamespaces THEN nsBase[n] ELSE nsScanned[n]]
    /\ UNCHANGED << pending, backoff, cmSeen, tagSeen, nsSeen >>

Crashes == pc' = "down" /\ request' = None

StartsOver ==
    /\ pc = "down" /\ pc' = "idle"
    /\ pending' = {IstioChange} /\ UNCHANGED request

\* The versions of a namespace that a cache has seen stay what they are.
VersionsKept ==
    \A n \in Namespaces : \A u \in 1 .. nsSeen[n] : namespaces'[n][u] = namespaces[n][u]

QueueStep ==
    /\ VersionsKept
    /\ \/ Quiet \/ Enqueues \/ ReadsOne \/ Fails \/ Finishes \/ Crashes \/ StartsOver
       \/ \E n \in Namespaces : ShowsNamespace(n)
       \/ \E q \in Requests : Dequeues(q)

\* RelabelNamespace adds a version; nothing else touches namespaces.
LEMMA VersionsAreKept ==
    ASSUME TypeInvariant, [Next]_vars
    PROVE  VersionsKept
<1>t. /\ namespaces \in [Namespaces -> Seq(NamespaceVersions)] /\ now \in Nat
      /\ \A n \in Namespaces : nsSeen[n] \in 1 .. Len(namespaces[n])
  BY DEF TypeInvariant, TypeOK, ClusterTypeOK, ConfigTypeOK, CursorsInRange
<1>1. ASSUME NEW m \in Namespaces, RelabelNamespace(m)
      PROVE  VersionsKept
  <2>1. PICK l \in NamespaceLabels :
           namespaces' = [namespaces EXCEPT
              ![m] = Append(@, [rev |-> l.rev, injection |-> l.injection, at |-> now])]
    BY <1>1 DEF RelabelNamespace
  <2>2. [rev |-> l.rev, injection |-> l.injection, at |-> now] \in NamespaceVersions
    BY <1>t, InitialAssumption DEF NamespaceVersions
  <2>3. \A n \in Namespaces : \A u \in 1 .. Len(namespaces[n]) :
            namespaces'[n][u] = namespaces[n][u]
    BY <1>t, <2>1, <2>2, AppendVersion
  <2>4. \A n \in Namespaces : Len(namespaces[n]) \in Nat
    BY <1>t, LenType
  <2> QED BY <1>t, <2>3, <2>4 DEF VersionsKept
<1>2. CASE UNCHANGED namespaces
  BY <1>2 DEF VersionsKept
<1>3. CASE ClusterStep
  BY <1>1, <1>2, <1>3 DEF ClusterStep, UpdateConfigMap, IstiodReload, RetagMWC, EvictPod, RollPod
<1>4. CASE Tick \/ PeriodicTick \/ Start \/ UNCHANGED vars \/ \E q \in Requests : Dequeue(q)
  BY <1>2, <1>4 DEF Tick, PeriodicTick, Start, Dequeue, vars, clusterVars, unwatched
<1>5. CASE Deliveries
  BY <1>2, <1>5 DEF Deliveries, SyncConfigMap, SyncTag, SyncNamespace, SyncWorkload, SyncPod,
                    BackoffExpires, clusterVars, unwatched
<1>6. CASE Worker
  BY <1>2, <1>6 DEF Worker, AwaitIstiodConfigReadDelay, ReadConfigMaps, ReadTags, ListPods,
                    ScanPod, CheckCandidate, ScanEnds, Pause, SkipWorkload, StartPatch,
                    PatchWorkload, Patch, Finish, clusterVars, scanUnchanged
<1>7. CASE Faults
  BY <1>2, <1>7 DEF Faults, ReadFails, WebhookPanics, ReturnError, ScanFails, PatchConflicts,
                    AnnotateFails, Crash, clusterVars, scanUnchanged
<1> QED
  BY <1>3, <1>4, <1>5, <1>6, <1>7 DEF Next

\* Every step of the system is a step of the queue.
LEMMA QueueSteps ==
    ASSUME TypeInvariant, [Next]_vars
    PROVE  QueueStep
<1> USE DEF cacheVars, controllerVars, queueVars, historyVars, baseVars, scannedVars, unwatched,
            scanUnchanged, annotateUnchanged
<1>0. VersionsKept
  BY VersionsAreKept
<1>1. CASE ClusterStep \/ Tick \/ UNCHANGED vars
  BY <1>0, <1>1 DEF ClusterStep, Tick, vars, QueueStep, Quiet
<1>2. CASE \E w \in Workloads : SyncWorkload(w)
  BY <1>0, <1>2 DEF SyncWorkload, ShowWorkload, QueueStep, Quiet
<1>3. CASE \E p \in Pods : SyncPod(p)
  BY <1>0, <1>3 DEF SyncPod, ShowPod, QueueStep, Quiet
<1>4. CASE \E r \in Revisions : SyncConfigMap(r)
  BY <1>0, <1>4 DEF SyncConfigMap, ShowConfigMap, QueueStep, Enqueues
<1>5. CASE \E t \in Tags : SyncTag(t)
  BY <1>0, <1>5 DEF SyncTag, ShowTag, QueueStep, Enqueues
<1>6. CASE PeriodicTick \/ \E q \in Requests : BackoffExpires(q)
  BY <1>0, <1>6 DEF PeriodicTick, BackoffExpires, QueueStep, Enqueues
<1>7. ASSUME NEW n \in Namespaces, SyncNamespace(n)
      PROVE  QueueStep
  BY <1>0, <1>7 DEF SyncNamespace, ShowNamespace, clusterVars, QueueStep, ShowsNamespace
<1>8. CASE \E q \in Requests : Dequeue(q)
  BY <1>0, <1>8 DEF Dequeue, QueueStep, Dequeues
<1>9. CASE AwaitIstiodConfigReadDelay
  BY <1>0, <1>9 DEF AwaitIstiodConfigReadDelay, QueueStep, Quiet
<1>10. CASE ReadConfigMaps \/ ReadTags \/ ListPods
  BY <1>0, <1>10 DEF ReadConfigMaps, ReadTags, ListPods, QueueStep, ReadsOne
<1>11. CASE (\E p \in Pods : ScanPod(p)) \/ CheckCandidate \/ ScanEnds \/ ScanFails
  BY <1>0, <1>11 DEF ScanPod, CheckCandidate, ScanEnds, ScanFails, QueueStep, Quiet, Working
<1>12. CASE Pause \/ SkipWorkload \/ StartPatch \/ PatchWorkload \/ PatchConflicts \/ AnnotateFails
  BY <1>0, <1>12 DEF Pause, SkipWorkload, StartPatch, PatchWorkload, PatchConflicts,
                     AnnotateFails, NextWorkload, QueueStep, Quiet, Working
<1>13. CASE ReadFails \/ WebhookPanics
  BY <1>0, <1>13 DEF ReadFails, WebhookPanics, ReturnError, EndReconcile, QueueStep, Fails
<1>14. CASE Finish
  BY <1>0, <1>14 DEF Finish, EndReconcile, QueueStep, Finishes
<1>15. CASE Crash \/ Start
  BY <1>0, <1>15 DEF Crash, Start, QueueStep, Crashes, StartsOver
<1> QED
  BY <1>1, <1>2, <1>3, <1>4, <1>5, <1>6, <1>7, <1>8, <1>9, <1>10, <1>11, <1>12, <1>13, <1>14,
     <1>15 DEF Next, Deliveries, Worker, Faults

-----------------------------------------------------------------------------
(* Why nothing is lost.  NoEventLost alone is not inductive: a full scan    *)
(* that ends replaces what an earlier one had covered, so what the          *)
(* reconcile under way has read must be current too, or queued again.       *)

ConfigMapRead(r) ==
    (request \in FullRequests /\ pc \notin {"await", "configmaps"})
    => FullScanQueued \/ cmBase[r] = cmSeen[r]

TagRead(t) ==
    (request \in FullRequests /\ pc \notin {"await", "configmaps", "tags"})
    => FullScanQueued \/ tagBase[t] = tagSeen[t]

NamespaceQueued(n) == FullScanQueued \/ n \in pending \cup backoff

NamespaceRead(n) ==
    (/\ request # None /\ n \in LimitToNamespaces
     /\ pc \notin {"await", "configmaps", "tags", "list"})
    => NamespaceQueued(n) \/ NoNewsSince(n, nsBase[n])

RequestOK == request = None <=> pc \in {"idle", "down"}

QueueOK ==
    /\ RequestOK
    /\ \A r \in Revisions : ConfigMapRead(r) /\ (pc # "down" => ConfigMapCovered(r))
    /\ \A t \in Tags : TagRead(t) /\ (pc # "down" => TagCovered(t))
    /\ \A n \in Namespaces : NamespaceRead(n) /\ (pc # "down" => NamespaceCovered(n))

\* The types the steps of the queue rely on.
LEMMA QueueTypes ==
    ASSUME TypeInvariant
    PROVE  /\ request \in Requests \cup {None} /\ None \notin Requests /\ pc \in Locations
           /\ nsSeen \in [Namespaces -> Nat]
           /\ nsBase \in [Namespaces -> Nat] /\ nsScanned \in [Namespaces -> Nat]
           /\ \A n \in Namespaces : nsSeen[n] >= 1
BY ReconcilerAssumption
DEF TypeInvariant, TypeOK, CacheTypeOK, ControllerTypeOK, CursorsInRange, Requests

\* A request is at hand from Dequeue to the end of the reconcile.
LEMMA RequestOKStep ==
    ASSUME TypeInvariant, RequestOK, QueueStep
    PROVE  RequestOK'
<1>1. CASE Quiet \/ Enqueues \/ ReadsOne \/ Fails \/ Finishes \/ Crashes \/ StartsOver
  BY <1>1 DEF Quiet, Enqueues, ReadsOne, Fails, Finishes, Crashes, StartsOver, Working, RequestOK
<1>2. CASE \E n \in Namespaces : ShowsNamespace(n)
  BY <1>2 DEF ShowsNamespace, RequestOK
<1>3. CASE \E q \in Requests : Dequeues(q)
  BY <1>3, QueueTypes DEF Dequeues, RequestOK
<1> QED
  BY <1>1, <1>2, <1>3 DEF QueueStep

\* A ConfigMap event makes a full scan pending; a full scan that fails is
\* queued again; one that ends has read what the cache shows.
LEMMA ConfigMapStep ==
    ASSUME TypeInvariant, QueueOK, QueueStep, NEW r \in Revisions
    PROVE  ConfigMapRead(r)' /\ (pc' # "down" => ConfigMapCovered(r)')
<1> USE DEF ConfigMapRead, ConfigMapCovered, FullScanQueued
<1>i. /\ RequestOK /\ ConfigMapRead(r) /\ (pc # "down" => ConfigMapCovered(r))
  BY DEF QueueOK
<1>r. IstioChange \in FullRequests /\ None \notin FullRequests
  BY ReconcilerAssumption DEF FullRequests
<1>1. CASE Quiet
  BY <1>1, <1>i DEF Quiet, Working, RequestOK
<1>2. CASE Enqueues
  BY <1>2, <1>i, <1>r DEF Enqueues
<1>3. CASE ReadsOne
  BY <1>3, <1>i DEF ReadsOne
<1>4. CASE Fails
  BY <1>4, <1>i, <1>r DEF Fails
<1>5. CASE Finishes
  BY <1>5, <1>i, <1>r DEF Finishes
<1>6. CASE Crashes
  BY <1>6, <1>r DEF Crashes
<1>7. CASE StartsOver
  BY <1>7, <1>i, <1>r DEF StartsOver, RequestOK
<1>8. CASE \E n \in Namespaces : ShowsNamespace(n)
  BY <1>8, <1>i DEF ShowsNamespace
<1>9. CASE \E q \in Requests : Dequeues(q)
  BY <1>9, <1>i, <1>r DEF Dequeues, RequestOK
<1> QED
  BY <1>1, <1>2, <1>3, <1>4, <1>5, <1>6, <1>7, <1>8, <1>9 DEF QueueStep

\* The same for the MWC of a tag.
LEMMA TagStep ==
    ASSUME TypeInvariant, QueueOK, QueueStep, NEW t \in Tags
    PROVE  TagRead(t)' /\ (pc' # "down" => TagCovered(t)')
<1> USE DEF TagRead, TagCovered, FullScanQueued
<1>i. /\ RequestOK /\ TagRead(t) /\ (pc # "down" => TagCovered(t))
  BY DEF QueueOK
<1>r. IstioChange \in FullRequests /\ None \notin FullRequests
  BY ReconcilerAssumption DEF FullRequests
<1>1. CASE Quiet
  BY <1>1, <1>i DEF Quiet, Working, RequestOK
<1>2. CASE Enqueues
  BY <1>2, <1>i, <1>r DEF Enqueues
<1>3. CASE ReadsOne
  BY <1>3, <1>i DEF ReadsOne
<1>4. CASE Fails
  BY <1>4, <1>i, <1>r DEF Fails
<1>5. CASE Finishes
  BY <1>5, <1>i, <1>r DEF Finishes
<1>6. CASE Crashes
  BY <1>6, <1>r DEF Crashes
<1>7. CASE StartsOver
  BY <1>7, <1>i, <1>r DEF StartsOver, RequestOK
<1>8. CASE \E n \in Namespaces : ShowsNamespace(n)
  BY <1>8, <1>i DEF ShowsNamespace
<1>9. CASE \E q \in Requests : Dequeues(q)
  BY <1>9, <1>i, <1>r DEF Dequeues, RequestOK
<1> QED
  BY <1>1, <1>2, <1>3, <1>4, <1>5, <1>6, <1>7, <1>8, <1>9 DEF QueueStep

-----------------------------------------------------------------------------
(* Namespaces.  Only updates with Istio labels count, and a scan of one     *)
(* namespace covers only that one.                                          *)

\* NoNewsSince of a history of which the first seen versions are in the cache.
NoNewsIn(versions, seen, v) ==
    \A u \in (v + 1) .. seen :
        /\ u > 1
        /\ ~hasIstioLabels(versions[u])
        /\ ~hasIstioLabels(versions[u - 1])

\* News does not come from versions the cache has not seen.
LEMMA NewsKept ==
    ASSUME NEW h, NEW g, NEW s \in Nat, NEW v \in Nat,
           \A u \in 1 .. s : g[u] = h[u], NoNewsIn(h, s, v)
    PROVE  NoNewsIn(g, s, v)
<1> SUFFICES ASSUME NEW u \in (v + 1) .. s
             PROVE  u > 1 /\ ~hasIstioLabels(g[u]) /\ ~hasIstioLabels(g[u - 1])
  BY DEF NoNewsIn
<1>1. u > 1 /\ ~hasIstioLabels(h[u]) /\ ~hasIstioLabels(h[u - 1])
  BY DEF NoNewsIn
<1>2. u \in 1 .. s /\ u - 1 \in 1 .. s
  BY <1>1
<1>3. g[u] = h[u] /\ g[u - 1] = h[u - 1]
  BY <1>2
<1> QED
  BY <1>1, <1>3

\* An update without Istio labels before and after it is no news.
LEMMA NoNewsAdded ==
    ASSUME NEW h, NEW s \in Nat \ {0}, NEW v \in Nat, NoNewsIn(h, s, v),
           ~hasIstioLabels(h[s]), ~hasIstioLabels(h[s + 1])
    PROVE  NoNewsIn(h, s + 1, v)
<1> SUFFICES ASSUME NEW u \in (v + 1) .. (s + 1)
             PROVE  u > 1 /\ ~hasIstioLabels(h[u]) /\ ~hasIstioLabels(h[u - 1])
  BY DEF NoNewsIn
<1>1. CASE u \in (v + 1) .. s
  BY <1>1 DEF NoNewsIn
<1>2. CASE u = s + 1
  <2>1. u - 1 = s /\ u > 1
    BY <1>2
  <2> QED BY <1>2, <2>1
<1> QED
  BY <1>1, <1>2

\* An update of a namespace that passes the filter makes it pending; a scan
\* of it that fails is queued again; one that ends has read its labels.
LEMMA NamespaceStep ==
    ASSUME TypeInvariant, QueueOK, QueueStep, NEW n \in Namespaces
    PROVE  NamespaceRead(n)' /\ (pc' # "down" => NamespaceCovered(n)')
<1> DEFINE Base     == NoNewsIn(namespaces[n], nsSeen[n], nsBase[n])
           Scanned  == NoNewsIn(namespaces[n], nsSeen[n], nsScanned[n])
           Early    == pc \in {"await", "configmaps", "tags", "list"}
           Its      == request # None /\ n \in LimitToNamespaces
           Queued   == NamespaceQueued(n)
<1>t. /\ nsSeen[n] \in Nat \ {0} /\ nsBase[n] \in Nat /\ nsScanned[n] \in Nat
      /\ nsSeen \in [Namespaces -> Nat]
  BY QueueTypes
<1>i. /\ RequestOK
      /\ Its /\ ~Early => Queued \/ Base
      /\ pc # "down" => Scanned \/ Queued \/ (Its /\ (Early \/ Base))
  BY DEF QueueOK, NamespaceRead, NamespaceCovered, NamespaceQueued, NoNewsSince, NoNewsIn
<1>q. /\ FullScanQueued <=> (pending \cup backoff) \cap FullRequests # {}
      /\ FullScanQueued' <=> (pending' \cup backoff') \cap FullRequests # {}
      /\ Queued <=> FullScanQueued \/ n \in pending \cup backoff
      /\ Queued' <=> FullScanQueued' \/ n \in pending' \cup backoff'
      /\ Its <=> request # None /\ (request \in FullRequests \/ n = request)
      /\ Its' <=> request' # None /\ (request' \in FullRequests \/ n = request')
      /\ IstioChange \in FullRequests /\ None \notin FullRequests
  BY ReconcilerAssumption
  DEF FullScanQueued, NamespaceQueued, LimitToNamespaces, FullRequests
<1>g. SUFFICES /\ Its' /\ ~Early' => Queued' \/ Base'
               /\ pc' # "down" => Scanned' \/ Queued' \/ (Its' /\ (Early' \/ Base'))
  BY <1>g DEF NamespaceRead, NamespaceCovered, NamespaceQueued, NoNewsSince, NoNewsIn
<1>k. ASSUME nsSeen'[n] = nsSeen[n]
      PROVE  /\ Base /\ nsBase'[n] = nsBase[n] => Base'
             /\ Scanned /\ nsScanned'[n] = nsScanned[n] => Scanned'
             /\ Base /\ nsScanned'[n] = nsBase[n] => Scanned'
             /\ nsBase'[n] = nsSeen[n] => Base'
  <2>1. \A u \in 1 .. nsSeen[n] : namespaces'[n][u] = namespaces[n][u]
    BY DEF QueueStep, VersionsKept
  <2>2. Base => NoNewsIn(namespaces'[n], nsSeen[n], nsBase[n])
    BY <1>t, <2>1, NewsKept
  <2>3. Scanned => NoNewsIn(namespaces'[n], nsSeen[n], nsScanned[n])
    BY <1>t, <2>1, NewsKept
  <2>4. NoNewsIn(namespaces'[n], nsSeen[n], nsSeen[n])
    BY <1>t DEF NoNewsIn
  <2>5. /\ Base' <=> NoNewsIn(namespaces'[n], nsSeen[n], nsBase'[n])
        /\ Scanned' <=> NoNewsIn(namespaces'[n], nsSeen[n], nsScanned'[n])
    BY <1>k DEF NoNewsIn
  <2> HIDE DEF Base, Scanned
  <2> QED BY <2>2, <2>3, <2>4, <2>5
<1> HIDE DEF Base, Scanned, Queued, Its
<1>1. CASE Quiet
  BY <1>1, <1>i, <1>q, <1>k DEF Quiet, Working, RequestOK
<1>2. CASE Enqueues
  BY <1>2, <1>i, <1>q, <1>k DEF Enqueues
<1>3. CASE ReadsOne
  BY <1>3, <1>i, <1>q, <1>k DEF ReadsOne
<1>4. CASE Fails
  BY <1>4, <1>i, <1>q, <1>k DEF Fails
<1>5. CASE Finishes
  <2>1. nsScanned'[n] = IF n \in LimitToNamespaces THEN nsBase[n] ELSE nsScanned[n]
    BY <1>5 DEF Finishes
  <2>2. request # None
    BY <1>5, <1>i DEF Finishes, RequestOK
  <2>3. nsScanned'[n] = IF Its THEN nsBase[n] ELSE nsScanned[n]
    BY <2>1, <2>2 DEF Its
  <2> QED BY <1>5, <1>i, <1>q, <1>k, <2>3 DEF Finishes
<1>6. CASE Crashes
  BY <1>6, <1>q DEF Crashes
<1>7. CASE StartsOver
  BY <1>7, <1>i, <1>q DEF StartsOver, RequestOK
<1>8. ASSUME NEW m \in Namespaces, ShowsNamespace(m)
      PROVE  /\ Its' /\ ~Early' => Queued' \/ Base'
             /\ pc' # "down" => Scanned' \/ Queued' \/ (Its' /\ (Early' \/ Base'))
  <2>1. CASE m # n
    <3>1. nsSeen'[n] = nsSeen[n]
      BY <1>8, <1>t, <2>1 DEF ShowsNamespace
    <3> QED BY <1>8, <1>i, <1>q, <1>k, <3>1 DEF ShowsNamespace
  <2>2. CASE m = n /\ n \in pending'
    BY <1>8, <1>q, <2>2
  <2>3. CASE m = n /\ n \notin pending'
    <3>1. /\ ~hasIstioLabels(namespaces[n][nsSeen[n]])
          /\ ~hasIstioLabels(namespaces[n][nsSeen[n] + 1])
          /\ nsSeen'[n] = nsSeen[n] + 1
          /\ nsBase' = nsBase /\ nsScanned' = nsScanned
      BY <1>8, <1>t, <2>3 DEF ShowsNamespace
    <3>2. namespaces' = namespaces
      BY <1>8 DEF ShowsNamespace
    <3>3. Base => Base'
      BY <1>t, <3>1, <3>2, NoNewsAdded DEF Base
    <3>4. Scanned => Scanned'
      BY <1>t, <3>1, <3>2, NoNewsAdded DEF Scanned
    <3> QED BY <1>8, <1>i, <1>q, <3>3, <3>4 DEF ShowsNamespace
  <2> QED BY <2>1, <2>2, <2>3
<1>9. ASSUME NEW q \in Requests, Dequeues(q)
      PROVE  /\ Its' /\ ~Early' => Queued' \/ Base'
             /\ pc' # "down" => Scanned' \/ Queued' \/ (Its' /\ (Early' \/ Base'))
  <2>1. /\ q # None /\ ~Its /\ request' = q /\ pc' = "await" /\ pc = "idle"
        /\ pending' = pending \ {q} /\ backoff' = backoff
        /\ nsSeen'[n] = nsSeen[n] /\ nsScanned'[n] = nsScanned[n]
    BY <1>9, <1>i, <1>q, QueueTypes DEF Dequeues, RequestOK
  <2>2. Scanned => Scanned'
    BY <1>k, <2>1
  <2>3. Its' \/ (Queued => Queued')
    BY <1>q, <2>1
  <2> QED BY <1>i, <2>1, <2>2, <2>3
<1> QED
  BY <1>1, <1>2, <1>3, <1>4, <1>5, <1>6, <1>7, <1>8, <1>9 DEF QueueStep

\* No event is lost (watches and their filters, the queue, error returns and
\* the retry, crashes): every ConfigMap or tag version the caches show, and
\* every namespace update with Istio labels, was read by a scan that ended,
\* has been read by the reconcile under way, or has a scan coming.
THEOREM NothingLost == Spec => []NoEventLost
<1> DEFINE I == TypeInvariant /\ QueueOK
<1>1. Init => I
  <2> SUFFICES ASSUME Init PROVE QueueOK
    BY InitTypes
  <2>1. FullScanQueued /\ request = None /\ pc = "idle"
    BY DEF Init, FullScanQueued, FullRequests
  <2>2. None \notin FullRequests
    BY ReconcilerAssumption DEF FullRequests
  <2> QED BY <2>1, <2>2 DEF QueueOK, RequestOK, ConfigMapRead, TagRead, NamespaceRead,
                            ConfigMapCovered, TagCovered, NamespaceCovered
<1>2. I /\ [Next]_vars => I'
  <2> SUFFICES ASSUME I, [Next]_vars PROVE QueueOK'
    BY StepTypes
  <2>1. QueueStep /\ RequestOK
    BY QueueSteps DEF QueueOK
  <2>2. RequestOK'
    BY <2>1, RequestOKStep
  <2>3. \A r \in Revisions : ConfigMapRead(r)' /\ (pc' # "down" => ConfigMapCovered(r)')
    BY <2>1, ConfigMapStep
  <2>4. \A t \in Tags : TagRead(t)' /\ (pc' # "down" => TagCovered(t)')
    BY <2>1, TagStep
  <2>5. \A n \in Namespaces : NamespaceRead(n)' /\ (pc' # "down" => NamespaceCovered(n)')
    BY <2>1, NamespaceStep
  <2> QED BY <2>2, <2>3, <2>4, <2>5 DEF QueueOK
<1>3. I => NoEventLost
  BY DEF QueueOK, NoEventLost
<1> QED
  BY <1>1, <1>2, <1>3, PTL DEF Spec
=============================================================================
