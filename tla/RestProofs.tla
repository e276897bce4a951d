----------------------------- MODULE RestProofs -----------------------------
(***************************************************************************)
(* Proof, for all values of the constants, that fortsa does not come to    *)
(* rest with a sidecar left behind.  The ticker is not needed for that, if *)
(* there is no cooldown and no failing lookup or patch, which drop a       *)
(* workload until something else happens.  List calls may fail, patches    *)
(* may meet conflicts, the process may crash, pods may be created by       *)
(* anybody at any time.                                                    *)
(*                                                                         *)
(* The argument: from the moment the last full scan request leaves the     *)
(* queue while the caches are current, every pod either has the sidecar it *)
(* should have, or is about to be replaced by a rollout, or the reconcile  *)
(* under way is still going to deal with it.                               *)
(***************************************************************************)
EXTENDS QueueProofs, RestartProofs

\* Nothing makes a reconcile drop a workload, no label changes its meaning,
\* and the delay at the start of a reconcile covers istiod's lag together
\* with a cache's lag, and with the second a timestamp may be off by.
Undisturbed ==
    /\ AnnotationCooldown = 0 /\ ~DryRun
    /\ MaxDropFaults = 0 /\ MaxConflicts < patchConflictMaxRetries
    /\ MaxRelabels = 0 /\ Tags \cap Revisions = {}
    /\ \A v, w \in Workloads : Key(v) = Key(w) => v = w
    /\ IstiodLag + InformerLag <= IstiodConfigReadDelay + 1
    /\ IstiodLag + Second <= IstiodConfigReadDelay + 1
    /\ Horizon + IstiodConfigReadDelay <= MaxTime

-----------------------------------------------------------------------------
(* The sidecar a pod should have.                                          *)

LabelOf(w) == SelectedLabel(w, Current(namespaces[NamespaceOf[w]]))
TagRev(l)  == IF l \in Tags THEN Current(tagMWCs[l]).rev ELSE None
Want(w)    == RevisionBehind(LabelOf(w), TagRev(LabelOf(w)))
Wanted(w)  == w \notin OptOut /\ NamespaceOf[w] \notin SkipNamespaces /\ Want(w) # None

FinePod(w, pod) ==
    (pod # NoPod /\ Wanted(w)) =>
        << getIstioProxyImage(pod), Current(configMaps[Want(w)]).image >> \in MatchingImages

Fine(p)    == FinePod(OwnerOf[p], pods[p])
Rolling(p) == pods[p].stamp # restartedAt[OwnerOf[p]]

\* The full scan under way is still going to deal with pod p.
Handled(p) ==
    /\ request \in FullRequests
    /\ \/ pc \in {"await", "configmaps", "tags", "list"}
       \/ /\ pc \in Scanning /\ listed[p] = pods[p]
          /\ \/ p \in todo
             \/ pc = "check" /\ candidate = p /\ revOrTag = LabelOf(OwnerOf[p])
             \/ \E i \in DOMAIN found : found[i] = OwnerOf[p]
       \/ pc \in Restarting /\ \E i \in DOMAIN found : i >= index /\ found[i] = OwnerOf[p]

Cared(p) == Fine(p) \/ Rolling(p) \/ Handled(p)

-----------------------------------------------------------------------------
(* The invariant.                                                          *)

\* No change is left to be noticed, by the caches or by a queued scan.
Calm ==
    /\ pc # "down" /\ ~FullScanQueued
    /\ \A r \in Revisions : cmSeen[r] = Len(configMaps[r])
    /\ \A t \in Tags : tagSeen[t] = Len(tagMWCs[t])

\* Every change of the histories is a whole delay old at time.  (The first
\* versions are not changes: there is no older sidecar.)
Aged(cms, tags, time) ==
    /\ \A r \in Revisions : \A v \in 2 .. Len(cms[r]) :
          cms[r][v].at + IstiodConfigReadDelay <= time
    /\ \A t \in Tags : \A v \in 2 .. Len(tags[t]) :
          tags[t][v].at + IstiodConfigReadDelay <= time

IstiodCurrent == \A r \in Revisions : istiod[r] = Len(configMaps[r])

\* When nothing is left to be noticed: the delay of the full scan under way
\* covers every change, istiod has them once it is over, and every pod is
\* cared for.
CalmFacts ==
    /\ request \in FullRequests =>
          Aged(configMaps, tagMWCs, now + (IF pc = "await" THEN timer ELSE 0))
    /\ (request \in FullRequests /\ pc = "patch") =>
          Aged(configMaps, tagMWCs, value + Second - 1)
    /\ IstiodCurrent \/ (request \in FullRequests /\ pc = "await")
    /\ \A p \in Pods : Cared(p)

CalmOK == Calm => CalmFacts

\* Labels stay what they are.
LabelsOK ==
    /\ \A n \in Namespaces : Len(namespaces[n]) = 1
    /\ \A p \in Pods : pods[p] # NoPod => pods[p].label = LabelOf(OwnerOf[p])

\* A pod carries no restartedAt its workload has not had before it was created.
StampOK ==
    \A p \in Pods : /\ pods[p].stamp <= restartedAt[OwnerOf[p]]
                    /\ pods[p].stamp <= pods[p].born

\* The cache shows every pod that is InformerLag old.
PodsShown ==
    pc # "down" => \A p \in Pods : pods[p].born + InformerLag <= now => podSeen[p] = pods[p]

\* Changes happen up to the horizon.
HorizonOK ==
    /\ \A r \in Revisions : \A v \in 2 .. Len(configMaps[r]) : configMaps[r][v].at <= Horizon
    /\ \A t \in Tags : \A v \in 2 .. Len(tagMWCs[t]) : tagMWCs[t][v].at <= Horizon

\* A patch is retried only after a conflict.
RetriesOK == attempt <= conflicts

\* What the steps of a calm controller rely on.
Backdrop ==
    /\ Inv /\ QueueOK /\ RoundOK /\ TimesOK
    /\ LabelsOK /\ StampOK /\ PodsShown /\ HorizonOK /\ RetriesOK

RestInvariant == Backdrop /\ CalmOK

-----------------------------------------------------------------------------
(* Types and operators.                                                    *)

\* The types of what the invariant reads.
LEMMA RestTypes ==
    ASSUME TypeInvariant
    PROVE  /\ configMaps \in [Revisions -> Seq(ConfigMapVersions)]
           /\ tagMWCs \in [Tags -> Seq(TagVersions)]
           /\ namespaces \in [Namespaces -> Seq(NamespaceVersions)]
           /\ pods \in [Pods -> PodRecords] /\ podSeen \in [Pods -> PodRecords]
           /\ listed \in [Pods -> PodRecords]
           /\ istiod \in [Revisions -> Nat] /\ cmSeen \in [Revisions -> Nat]
           /\ tagSeen \in [Tags -> Nat]
           /\ attempt \in Nat /\ conflicts \in Nat
           /\ \A r \in Revisions : Len(configMaps[r]) \in Nat \ {0}
           /\ \A t \in Tags : Len(tagMWCs[t]) \in Nat \ {0}
           /\ \A r \in Revisions : \A v \in 1 .. Len(configMaps[r]) :
                 configMaps[r][v] \in ConfigMapVersions
           /\ \A t \in Tags : \A v \in 1 .. Len(tagMWCs[t]) : tagMWCs[t][v] \in TagVersions
<1>1. /\ configMaps \in [Revisions -> Seq(ConfigMapVersions)]
      /\ tagMWCs \in [Tags -> Seq(TagVersions)]
      /\ namespaces \in [Namespaces -> Seq(NamespaceVersions)]
      /\ pods \in [Pods -> PodRecords] /\ podSeen \in [Pods -> PodRecords]
      /\ listed \in [Pods -> PodRecords]
      /\ istiod \in [Revisions -> Nat] /\ cmSeen \in [Revisions -> Nat]
      /\ tagSeen \in [Tags -> Nat]
      /\ attempt \in Nat /\ conflicts \in Nat
  BY DEF TypeInvariant, TypeOK, ClusterTypeOK, ConfigTypeOK, CacheTypeOK, ScanTypeOK,
         ControllerTypeOK, patchConflictMaxRetries
<1>2. /\ \A r \in Revisions : Len(configMaps[r]) \in Nat
      /\ \A t \in Tags : Len(tagMWCs[t]) \in Nat
  BY <1>1, LenType
<1>3. /\ \A r \in Revisions : Len(configMaps[r]) # 0
      /\ \A t \in Tags : Len(tagMWCs[t]) # 0
  BY <1>2 DEF TypeInvariant, CursorsInRange
<1>4. /\ \A r \in Revisions : \A v \in 1 .. Len(configMaps[r]) :
            configMaps[r][v] \in ConfigMapVersions
      /\ \A t \in Tags : \A v \in 1 .. Len(tagMWCs[t]) : tagMWCs[t][v] \in TagVersions
  BY <1>1, VersionType
<1> QED
  BY <1>1, <1>2, <1>3, <1>4

\* The skip invariant includes the types.
LEMMA BackdropTypes ==
    ASSUME Backdrop
    PROVE  TypeInvariant /\ HistoryOK /\ PodsSound /\ SnapshotOK
BY DEF Backdrop, Inv, SkipInvariant, TypeInvariant

\* imagesMatch accepts an image for itself.
LEMMA ImageMatchesItself ==
    ASSUME NEW i \in Images
    PROVE  << i, i >> \in MatchingImages
<1>1. imagesMatch(i, i, CompareHub)
  BY DEF imagesMatch
<1> QED
  BY <1>1 DEF MatchingImages

\* The revision wanted for a workload is known.
LEMMA WantType ==
    ASSUME TypeInvariant, NEW w \in Workloads, Want(w) # None
    PROVE  /\ Want(w) \in Revisions
           /\ Current(configMaps[Want(w)]).image \in Images
           /\ LabelOf(w) \in Labels
<1>1. \A t \in Tags : Current(tagMWCs[t]) \in TagVersions
  BY RestTypes DEF Current
<1>2. Want(w) \in Revisions
  BY <1>1 DEF Want, RevisionBehind, TagRev, TagVersions
<1>3. Current(configMaps[Want(w)]) \in ConfigMapVersions
  BY <1>2, RestTypes DEF Current
<1>4. LabelOf(w) \in Labels
  BY DEF Want, RevisionBehind, TagRev, Labels
<1> QED
  BY <1>2, <1>3, <1>4 DEF ConfigMapVersions

\* A pod injected from the current versions is fine.
LEMMA CurrentIsFine ==
    ASSUME TypeInvariant, NEW w \in Workloads, NEW pod,
           (pod # NoPod /\ Wanted(w)) =>
               pod.rev = Want(w) /\ pod.ver = Len(configMaps[Want(w)])
    PROVE  FinePod(w, pod)
<1> SUFFICES ASSUME pod # NoPod, Wanted(w)
             PROVE  << getIstioProxyImage(pod), Current(configMaps[Want(w)]).image >>
                       \in MatchingImages
  BY DEF FinePod
<1>1. Want(w) # None /\ Current(configMaps[Want(w)]).image \in Images
  BY WantType DEF Wanted
<1>2. getIstioProxyImage(pod) = Current(configMaps[Want(w)]).image
  BY <1>1 DEF getIstioProxyImage, Current
<1> QED
  BY <1>1, <1>2, ImageMatchesItself

\* A pod created while istiod is current is fine.
LEMMA FreshIsFine ==
    ASSUME TypeInvariant, IstiodCurrent, NEW w \in Workloads
    PROVE  FinePod(w, FreshPod(w))
<1>1. Wanted(w) => FreshPod(w).rev = Want(w) /\ FreshPod(w).ver = istiod[Want(w)]
  BY DEF Wanted, Want, FreshPod, LabelOf, TagRev
<1>2. Wanted(w) => Want(w) \in Revisions
  BY WantType DEF Wanted
<1> QED
  BY <1>1, <1>2, CurrentIsFine DEF IstiodCurrent

\* A pod is fine if istiod had every change when it was created.
LEMMA LateIsFine ==
    ASSUME TypeInvariant, PodsSound, LabelsOK, NEW p \in Pods,
           \A r \in Revisions : \A v \in 2 .. Len(configMaps[r]) :
               configMaps[r][v].at + IstiodLag <= pods[p].born,
           \A t \in Tags : \A v \in 2 .. Len(tagMWCs[t]) :
               tagMWCs[t][v].at < pods[p].born
    PROVE  Fine(p)
<1> DEFINE w   == OwnerOf[p]
           pod == pods[p]
<1>w. w \in Workloads
  BY TopologyAssumption
<1> SUFFICES ASSUME pod # NoPod, Wanted(w)
             PROVE  pod.rev = Want(w) /\ pod.ver = Len(configMaps[Want(w)])
  BY <1>w, CurrentIsFine DEF Fine
<1>1. /\ pod.label = LabelOf(w) /\ w \notin OptOut /\ Want(w) \in Revisions /\ Want(w) # None
  BY <1>w, WantType DEF LabelsOK, Wanted
<1>2. SidecarSound(pod, configMaps) /\ TagSound(pod, tagMWCs)
  BY DEF PodsSound, PodSound
<1>3. pod.label \in Tags => pod.tagVer = Len(tagMWCs[pod.label])
  <2> SUFFICES ASSUME pod.label \in Tags PROVE pod.tagVer = Len(tagMWCs[pod.label])
    OBVIOUS
  <2>1. /\ pod.tagVer \in 1 .. Len(tagMWCs[pod.label]) /\ Len(tagMWCs[pod.label]) \in Nat \ {0}
        /\ \A v \in 1 .. Len(tagMWCs[pod.label]) :
              tagMWCs[pod.label][v].at < pod.born => pod.tagVer >= v
    BY <1>2, RestTypes DEF TagSound
  <2>2. Len(tagMWCs[pod.label]) >= 2 => pod.tagVer >= Len(tagMWCs[pod.label])
    BY <2>1
  <2> QED BY <2>1, <2>2
<1>4. pod.rev = RevisionBehind(pod.label,
                   IF pod.label \in Tags THEN tagMWCs[pod.label][pod.tagVer].rev ELSE None)
  BY <1>1 DEF PodsSound, PodSound
<1>5. pod.rev = Want(w)
  BY <1>1, <1>3, <1>4 DEF Want, TagRev, Current
<1>6. /\ pod.ver \in 1 .. Len(configMaps[pod.rev]) /\ Len(configMaps[pod.rev]) \in Nat \ {0}
      /\ \A v \in 1 .. Len(configMaps[pod.rev]) :
            configMaps[pod.rev][v].at + IstiodLag <= pod.born => pod.ver >= v
  BY <1>1, <1>2, <1>5, RestTypes DEF SidecarSound
<1>7. Len(configMaps[pod.rev]) >= 2 => pod.ver >= Len(configMaps[pod.rev])
  BY <1>1, <1>5, <1>6
<1> QED
  BY <1>5, <1>6, <1>7
-----------------------------------------------------------------------------
(* The backdrop is kept.                                                   *)

\* Nobody relabels a namespace.
LEMMA NamespacesKept ==
    ASSUME MaxRelabels = 0, TypeInvariant, LabelsOK, [Next]_vars
    PROVE  UNCHANGED namespaces
<1> USE DEF clusterVars, cacheVars, controllerVars, workVars, configVars, scanVars,
            annotatorVars, queueVars, unwatched, scanUnchanged, annotateUnchanged
<1>1. CASE ClusterStep
  <2>1. ~ \E n \in Namespaces : RelabelNamespace(n)
    <3>1. \A n \in Namespaces : Len(namespaces[n]) = 1
      BY DEF LabelsOK
    <3>2. \A n \in Namespaces : RelabelNamespace(n) => Len(namespaces[n]) <= MaxRelabels
      BY DEF RelabelNamespace
    <3>3. ~(1 <= MaxRelabels)
      OBVIOUS
    <3> QED BY <3>1, <3>2, <3>3
  <2> QED BY <1>1, <2>1 DEF ClusterStep, UpdateConfigMap, IstiodReload, RetagMWC, EvictPod, RollPod
<1>2. CASE Tick \/ PeriodicTick \/ Deliveries \/ UNCHANGED vars
  BY <1>2 DEF Tick, PeriodicTick, Deliveries, SyncConfigMap, SyncTag, SyncNamespace,
              SyncWorkload, SyncPod, BackoffExpires, vars
<1>3. CASE (\E q \in Requests : Dequeue(q)) \/ Worker
  BY <1>3 DEF Dequeue, Worker, AwaitIstiodConfigReadDelay, ReadConfigMaps, ReadTags, ListPods,
              ScanPod, CheckCandidate, ScanEnds, Pause, SkipWorkload, StartPatch, PatchWorkload,
              Patch, Finish
<1>4. CASE Faults \/ Start
  BY <1>4 DEF Faults, ReadFails, WebhookPanics, ReturnError, ScanFails, PatchConflicts,
              AnnotateFails, Crash, Start
<1> QED
  BY <1>1, <1>2, <1>3, <1>4 DEF Next

\* A pod created under labels that stay is labelled as it should be.
LEMMA LabelsOKStep ==
    ASSUME MaxRelabels = 0, TypeInvariant, LabelsOK, Moves, [Next]_vars
    PROVE  LabelsOK'
<1>1. UNCHANGED namespaces
  BY NamespacesKept
<1>2. \A w \in Workloads : LabelOf(w)' = LabelOf(w)
  BY <1>1 DEF LabelOf, SelectedLabel, Current
<1>3. \A w \in Workloads : FreshPod(w).label = LabelOf(w)
  BY DEF FreshPod, LabelOf
<1>4. \A p \in Pods : OwnerOf[p] \in Workloads /\ pods'[p] \in {pods[p], FreshPod(OwnerOf[p])}
  BY TopologyAssumption DEF Moves
<1> QED
  BY <1>1, <1>2, <1>3, <1>4 DEF LabelsOK

\* restartedAt only grows.
LEMMA RestartedAtGrows ==
    ASSUME TypeInvariant, RoundOK, TimesOK, RoundStep, NEW w \in Workloads
    PROVE  /\ restartedAt[w] \in Nat /\ restartedAt'[w] \in Nat
           /\ restartedAt[w] <= restartedAt'[w]
<1>1. restartedAt \in [Workloads -> Nat] /\ value \in Nat
  BY RoundTypes
<1>2. CASE restartedAt'[w] = restartedAt[w]
  BY <1>1, <1>2
<1>3. CASE restartedAt'[w] # restartedAt[w]
  <2>1. Patches /\ found[index] = w
    BY <1>3, OnlyPatches
  <2>2. restartedAt'[w] = value /\ restartedAt[w] <= value
    BY <1>1, <2>1 DEF Patches, TimesOK
  <2> QED BY <1>1, <2>2
<1> QED
  BY <1>2, <1>3

\* A pod is created with the restartedAt its workload has.
LEMMA StampOKStep ==
    ASSUME TypeInvariant, RoundOK, TimesOK, StampOK, Moves, RoundStep
    PROVE  StampOK'
<1> SUFFICES ASSUME NEW p \in Pods
             PROVE  /\ pods'[p].stamp <= restartedAt'[OwnerOf[p]]
                    /\ pods'[p].stamp <= pods'[p].born
  BY DEF StampOK
<1> DEFINE w == OwnerOf[p]
<1>1. w \in Workloads /\ pods[p] \in PodRecords /\ now \in Nat
  BY TopologyAssumption, RestTypes, RoundTypes
<1>2. restartedAt[w] \in Nat /\ restartedAt'[w] \in Nat /\ restartedAt[w] <= restartedAt'[w]
  BY <1>1, RestartedAtGrows
<1>3. FreshPod(w).stamp = restartedAt[w] /\ FreshPod(w).born = now
  BY DEF FreshPod
<1>4. restartedAt[w] <= now
  BY <1>1, <1>2, TruncFacts DEF TimesOK
<1>5. CASE pods'[p] = FreshPod(w)
  BY <1>2, <1>3, <1>4, <1>5
<1>6. CASE pods'[p] = pods[p]
  BY <1>1, <1>2, <1>6 DEF StampOK, PodRecords
<1> QED
  BY <1>5, <1>6 DEF Moves

\* What a step does to the pods, the clock and the cache of pods.
PodStep ==
    \/ Tick
    \/ pc' = "down"
    \/ UNCHANGED pods /\ podSeen' = pods
    \/ /\ pc # "down" /\ UNCHANGED now
       /\ \A p \in Pods : \/ UNCHANGED << pods, podSeen >>
                          \/ UNCHANGED podSeen /\ pods'[p] \in {pods[p], FreshPod(OwnerOf[p])}
                          \/ UNCHANGED pods /\ podSeen'[p] \in {podSeen[p], pods[p]}

\* Every step is of this kind.
LEMMA PodSteps ==
    ASSUME TypeInvariant, [Next]_vars
    PROVE  PodStep
<1> USE DEF clusterVars, cacheVars, controllerVars, workVars, configVars, scanVars,
            annotatorVars, queueVars, unwatched, scanUnchanged, annotateUnchanged
<1>t. /\ pods \in [Pods -> PodRecords] /\ podSeen \in [Pods -> PodRecords]
  BY RestTypes
<1>1. CASE ClusterStep
  <2>1. UNCHANGED << now, pc, podSeen >>
    BY <1>1 DEF ClusterStep, UpdateConfigMap, IstiodReload, RetagMWC, RelabelNamespace,
                EvictPod, RollPod
  <2>2. \A p \in Pods : pods'[p] \in {pods[p], FreshPod(OwnerOf[p])}
    BY <1>1, <1>t DEF ClusterStep, UpdateConfigMap, IstiodReload, RetagMWC, RelabelNamespace,
                      EvictPod, RollPod
  <2> QED BY <2>1, <2>2 DEF PodStep
<1>2. CASE Tick
  BY <1>2 DEF PodStep
<1>3. CASE Deliveries
  <2>1. CASE \E p \in Pods : SyncPod(p)
    BY <2>1, <1>t DEF SyncPod, ShowPod, PodStep
  <2>2. CASE \E q \in Requests : BackoffExpires(q)
    BY <2>2 DEF BackoffExpires, PodStep
  <2>3. CASE \/ \E r \in Revisions : SyncConfigMap(r)
             \/ \E t \in Tags : SyncTag(t)
             \/ \E n \in Namespaces : SyncNamespace(n)
             \/ \E w \in Workloads : SyncWorkload(w)
    BY <2>3 DEF SyncConfigMap, SyncTag, SyncNamespace, SyncWorkload, ShowConfigMap, ShowTag,
                ShowNamespace, ShowWorkload, PodStep
  <2> QED BY <1>3, <2>1, <2>2, <2>3 DEF Deliveries
<1>4. CASE PeriodicTick \/ UNCHANGED vars
  BY <1>4 DEF PeriodicTick, vars, PodStep
<1>5. CASE (\E q \in Requests : Dequeue(q)) \/ Worker
  <2>1. UNCHANGED << now, pods, podSeen >> /\ pc # "down"
    BY <1>5 DEF Dequeue, Worker, AwaitIstiodConfigReadDelay, ReadConfigMaps, ReadTags, ListPods,
                ScanPod, CheckCandidate, ScanEnds, Pause, SkipWorkload, StartPatch,
                PatchWorkload, Patch, Finish
  <2> QED BY <2>1 DEF PodStep
<1>6. CASE Faults
  <2>1. CASE Crash
    BY <2>1 DEF Crash, PodStep
  <2>2. CASE ~Crash
    <3>1. UNCHANGED << now, pods, podSeen >> /\ pc # "down"
      BY <1>6, <2>2 DEF Faults, ReadFails, WebhookPanics, ReturnError, ScanFails,
                        PatchConflicts, AnnotateFails
    <3> QED BY <3>1 DEF PodStep
  <2> QED BY <2>1, <2>2
<1>7. CASE Start
  BY <1>7 DEF Start, ShowAll, PodStep
<1> QED
  BY <1>1, <1>2, <1>3, <1>4, <1>5, <1>6, <1>7 DEF Next

\* The cache is never behind its lag.
LEMMA PodsShownStep ==
    ASSUME TypeInvariant, PodsShown, PodStep
    PROVE  PodsShown'
<1> SUFFICES ASSUME pc' # "down", NEW p \in Pods, pods'[p].born + InformerLag <= now'
             PROVE  podSeen'[p] = pods'[p]
  BY DEF PodsShown
<1>t. now \in Nat /\ InformerLag \in Nat \ {0}
  BY RoundTypes, LagAssumption
<1>1. CASE Tick
  BY <1>1 DEF Tick, CachesOnTime, cacheVars
<1>2. CASE UNCHANGED pods /\ podSeen' = pods
  BY <1>2
<1>3. CASE pc # "down" /\ UNCHANGED << now, pods, podSeen >>
  BY <1>3 DEF PodsShown
<1>4. CASE /\ pc # "down" /\ UNCHANGED << now, podSeen >>
           /\ pods'[p] \in {pods[p], FreshPod(OwnerOf[p])}
  <2>1. FreshPod(OwnerOf[p]).born = now
    BY DEF FreshPod
  <2> QED BY <1>4, <1>t, <2>1 DEF PodsShown
<1>5. CASE pc # "down" /\ UNCHANGED << now, pods >> /\ podSeen'[p] \in {podSeen[p], pods[p]}
  BY <1>5 DEF PodsShown
<1> QED
  BY <1>1, <1>2, <1>3, <1>4, <1>5 DEF PodStep
\* A change of the configuration happens up to the horizon and leaves the
\* caches behind; nothing else touches the histories.
LEMMA HistorySteps ==
    ASSUME TypeInvariant, [Next]_vars
    PROVE  \/ UNCHANGED << configMaps, tagMWCs >>
           \/ now <= Horizon /\ UNCHANGED now /\ ~Calm'
<1> USE DEF clusterVars, cacheVars, controllerVars, workVars, configVars, scanVars,
            annotatorVars, queueVars, unwatched, scanUnchanged, annotateUnchanged
<1>1. CASE ClusterStep
  <2>1. ASSUME NEW r \in Revisions, UpdateConfigMap(r)
        PROVE  ~Calm'
    <3>1. PICK i \in Images : configMaps' = [configMaps EXCEPT
                                 ![r] = Append(@, [image |-> i, at |-> now])]
      BY <2>1 DEF UpdateConfigMap
    <3>2. [image |-> i, at |-> now] \in ConfigMapVersions
      BY RoundTypes DEF ConfigMapVersions
    <3>3. Len(configMaps'[r]) = Len(configMaps[r]) + 1
      BY <3>1, <3>2, RestTypes, AppendVersion
    <3>4. cmSeen'[r] = cmSeen[r] /\ cmSeen[r] <= Len(configMaps[r]) /\ cmSeen[r] \in Nat
      BY <1>1, RestTypes DEF ClusterStep, TypeInvariant, CursorsInRange
    <3> QED BY <3>3, <3>4, RestTypes DEF Calm
  <2>2. ASSUME NEW t \in Tags, NEW r \in Revisions \cup {None}, RetagMWC(t, r)
        PROVE  ~Calm'
    <3>1. tagMWCs' = [tagMWCs EXCEPT ![t] = Append(@, [rev |-> r, at |-> now])]
      BY <2>2 DEF RetagMWC
    <3>2. [rev |-> r, at |-> now] \in TagVersions
      BY RoundTypes DEF TagVersions
    <3>3. Len(tagMWCs'[t]) = Len(tagMWCs[t]) + 1
      BY <3>1, <3>2, RestTypes, AppendVersion
    <3>4. tagSeen'[t] = tagSeen[t] /\ tagSeen[t] <= Len(tagMWCs[t]) /\ tagSeen[t] \in Nat
      BY <1>1, RestTypes DEF ClusterStep, TypeInvariant, CursorsInRange
    <3> QED BY <3>3, <3>4, RestTypes DEF Calm
  <2>3. CASE \/ \E r \in Revisions : UpdateConfigMap(r)
             \/ \E t \in Tags, r \in Revisions \cup {None} : RetagMWC(t, r)
    <3>1. now <= Horizon /\ UNCHANGED now
      BY <2>3 DEF UpdateConfigMap, RetagMWC
    <3> QED BY <2>1, <2>2, <2>3, <3>1
  <2>4. CASE \/ \E r \in Revisions : IstiodReload(r)
             \/ \E n \in Namespaces : RelabelNamespace(n)
             \/ \E p \in Pods : EvictPod(p) \/ RollPod(p)
    BY <2>4 DEF IstiodReload, RelabelNamespace, EvictPod, RollPod
  <2> QED BY <1>1, <2>3, <2>4 DEF ClusterStep
<1>2. CASE Tick \/ PeriodicTick \/ Deliveries \/ UNCHANGED vars
  BY <1>2 DEF Tick, PeriodicTick, Deliveries, SyncConfigMap, SyncTag, SyncNamespace,
              SyncWorkload, SyncPod, BackoffExpires, vars
<1>3. CASE (\E q \in Requests : Dequeue(q)) \/ Worker
  BY <1>3 DEF Dequeue, Worker, AwaitIstiodConfigReadDelay, ReadConfigMaps, ReadTags, ListPods,
              ScanPod, CheckCandidate, ScanEnds, Pause, SkipWorkload, StartPatch, PatchWorkload,
              Patch, Finish
<1>4. CASE Faults \/ Start
  BY <1>4 DEF Faults, ReadFails, WebhookPanics, ReturnError, ScanFails, PatchConflicts,
              AnnotateFails, Crash, Start
<1> QED
  BY <1>1, <1>2, <1>3, <1>4 DEF Next

\* New versions are not from after the horizon.
LEMMA HorizonOKStep ==
    ASSUME TypeInvariant, TypeInvariant', HorizonOK, Moves, [Next]_vars
    PROVE  HorizonOK'
<1>1. CASE UNCHANGED << configMaps, tagMWCs >>
  BY <1>1 DEF HorizonOK
<1>2. CASE now <= Horizon
  <2>1. ASSUME NEW r \in Revisions, NEW v \in 2 .. Len(configMaps'[r])
        PROVE  configMaps'[r][v].at <= Horizon
    <3>1. Len(configMaps[r]) \in Nat /\ Len(configMaps'[r]) \in Nat
      BY RestTypes, TypeInvariant', LenType
         DEF TypeInvariant, TypeOK, ClusterTypeOK, ConfigTypeOK
    <3>2. CASE v <= Len(configMaps[r])
      BY <3>1, <3>2, <2>1 DEF Moves, Continues, HorizonOK
    <3>3. CASE v > Len(configMaps[r])
      BY <1>2, <3>1, <3>3, <2>1 DEF Moves, Continues
    <3> QED BY <3>1, <3>2, <3>3
  <2>2. ASSUME NEW t \in Tags, NEW v \in 2 .. Len(tagMWCs'[t])
        PROVE  tagMWCs'[t][v].at <= Horizon
    <3>1. Len(tagMWCs[t]) \in Nat /\ Len(tagMWCs'[t]) \in Nat
      BY RestTypes, TypeInvariant', LenType
         DEF TypeInvariant, TypeOK, ClusterTypeOK, ConfigTypeOK
    <3>2. CASE v <= Len(tagMWCs[t])
      BY <3>1, <3>2, <2>2 DEF Moves, Continues, HorizonOK
    <3>3. CASE v > Len(tagMWCs[t])
      BY <1>2, <3>1, <3>3, <2>2 DEF Moves, Continues
    <3> QED BY <3>1, <3>2, <3>3
  <2> QED BY <2>1, <2>2 DEF HorizonOK
<1> QED
  BY <1>1, <1>2, HistorySteps

\* Every retry uses up a conflict.
LEMMA RetriesOKStep ==
    ASSUME TypeInvariant, RetriesOK, [Next]_vars
    PROVE  RetriesOK'
<1> USE DEF clusterVars, cacheVars, controllerVars, workVars, configVars, scanVars,
            annotatorVars, queueVars, faultVars, unwatched, scanUnchanged, annotateUnchanged
<1>t. attempt \in Nat /\ conflicts \in Nat /\ attempt <= conflicts
  BY RestTypes DEF RetriesOK
<1>g. SUFFICES \/ UNCHANGED << attempt, conflicts >>
               \/ attempt' = 0 /\ conflicts' \in Nat
               \/ attempt' = attempt + 1 /\ conflicts' = conflicts + 1
  BY <1>t, <1>g DEF RetriesOK
<1>1. CASE ClusterStep \/ Tick \/ PeriodicTick \/ Deliveries \/ UNCHANGED vars
  BY <1>1 DEF ClusterStep, Tick, PeriodicTick, Deliveries, SyncConfigMap, SyncTag,
              SyncNamespace, SyncWorkload, SyncPod, BackoffExpires, vars
<1>2. CASE (\E q \in Requests : Dequeue(q)) \/ Worker
  BY <1>2, <1>t DEF Dequeue, Worker, AwaitIstiodConfigReadDelay, ReadConfigMaps, ReadTags,
                    ListPods, ScanPod, CheckCandidate, ScanEnds, Pause, SkipWorkload,
                    StartPatch, ChooseValue, PatchWorkload, Finish, EndReconcile, AnnotatorReset
<1>3. CASE Faults \/ Start
  BY <1>3, <1>t DEF Faults, ReadFails, WebhookPanics, ReturnError, EndReconcile, ScanFails,
                    PatchConflicts, PatchConflict, PatchGivesUp, AnnotateFails, Crash, Start,
                    AnnotatorReset
<1> QED
  BY <1>1, <1>2, <1>3 DEF Next

\* All of the backdrop is kept.
LEMMA BackdropStep ==
    ASSUME Undisturbed, Backdrop, [Next]_vars
    PROVE  Backdrop'
<1>1. TypeInvariant /\ HistoryOK
  BY BackdropTypes
<1>2. TypeInvariant' /\ Inv'
  BY <1>1, StepTypes, StepSkip DEF Backdrop
<1>3. Moves /\ QueueStep /\ RoundStep /\ PodStep
  BY <1>1, StepMoves, QueueSteps, RoundSteps, PodSteps
<1>4. QueueOK'
  <2>1. RequestOK'
    BY <1>1, <1>3, RequestOKStep DEF Backdrop, QueueOK
  <2>2. \A r \in Revisions : ConfigMapRead(r)' /\ (pc' # "down" => ConfigMapCovered(r)')
    BY <1>1, <1>3, ConfigMapStep DEF Backdrop
  <2>3. \A t \in Tags : TagRead(t)' /\ (pc' # "down" => TagCovered(t)')
    BY <1>1, <1>3, TagStep DEF Backdrop
  <2>4. \A n \in Namespaces : NamespaceRead(n)' /\ (pc' # "down" => NamespaceCovered(n)')
    BY <1>1, <1>3, NamespaceStep DEF Backdrop
  <2> QED BY <2>1, <2>2, <2>3, <2>4 DEF QueueOK
<1>5. RoundOK' /\ TimesOK'
  BY <1>1, <1>3, RoundOKStep, TimesOKStep DEF Backdrop
<1>6. LabelsOK' /\ StampOK' /\ PodsShown'
  BY <1>1, <1>3, LabelsOKStep, StampOKStep, PodsShownStep DEF Backdrop, Undisturbed
<1>7. HorizonOK' /\ RetriesOK'
  BY <1>1, <1>2, <1>3, HorizonOKStep, RetriesOKStep DEF Backdrop
<1> QED
  BY <1>2, <1>4, <1>5, <1>6, <1>7 DEF Backdrop
-----------------------------------------------------------------------------
(* What a full scan concludes about a pod while nothing changes.           *)

\* A pod is fine if it was created no earlier than the delay allows.
LEMMA AgedCovers ==
    ASSUME TypeInvariant, PodsSound, LabelsOK, NEW p \in Pods, NEW time \in Int,
           Aged(configMaps, tagMWCs, time),
           time + IstiodLag <= pods[p].born + IstiodConfigReadDelay
    PROVE  Fine(p)
<1>t. /\ IstiodLag \in Nat \ {0} /\ IstiodConfigReadDelay \in Nat /\ pods[p].born \in Nat
  BY RestTypes, LagAssumption, ScannerAssumption DEF PodRecords
<1>1. ASSUME NEW r \in Revisions, NEW v \in 2 .. Len(configMaps[r])
      PROVE  configMaps[r][v].at + IstiodLag <= pods[p].born
  <2>1. configMaps[r][v] \in ConfigMapVersions
    BY RestTypes
  <2>2. configMaps[r][v].at \in Nat
    BY <2>1 DEF ConfigMapVersions
  <2>3. configMaps[r][v].at + IstiodConfigReadDelay <= time
    BY DEF Aged
  <2> QED BY <1>t, <2>2, <2>3
<1>2. ASSUME NEW t \in Tags, NEW v \in 2 .. Len(tagMWCs[t])
      PROVE  tagMWCs[t][v].at < pods[p].born
  <2>1. tagMWCs[t][v] \in TagVersions
    BY RestTypes
  <2>2. tagMWCs[t][v].at \in Nat
    BY <2>1 DEF TagVersions
  <2>3. tagMWCs[t][v].at + IstiodConfigReadDelay <= time
    BY DEF Aged
  <2> QED BY <1>t, <2>2, <2>3
<1> QED
  BY <1>1, <1>2, LateIsFine

\* The scan reads the label a new pod would be injected under.
LEMMA LabelRead ==
    ASSUME TypeInvariant, LabelsOK, NEW w \in Workloads
    PROVE  getIstioRevFromWorkloadOrNamespace(w) = LabelOf(w)
<1> DEFINE n == NamespaceOf[w]
<1>1. n \in Namespaces
  BY TopologyAssumption
<1>2. nsSeen[n] \in 1 .. Len(namespaces[n]) /\ Len(namespaces[n]) = 1
  BY <1>1 DEF TypeInvariant, CursorsInRange, LabelsOK
<1>3. nsSeen[n] = Len(namespaces[n])
  BY <1>2
<1> QED
  BY <1>3 DEF getIstioRevFromWorkloadOrNamespace, LabelOf, SelectedLabel, Current

\* A full scan works with the current versions.
LEMMA CalmReads ==
    ASSUME Undisturbed, Backdrop, Calm, request \in FullRequests, pc \in Scanning,
           NEW w \in Workloads, Want(w) # None
    PROVE  /\ Want(w) \in Revisions /\ Want(w) # None
           /\ RevisionFor(LabelOf(w)) = Want(w)
           /\ cmBase[Want(w)] = Len(configMaps[Want(w)])
           /\ LabelOf(w) \in Tags => /\ tagToRevision[LabelOf(w)] # None
                                     /\ tagBase[LabelOf(w)] = Len(tagMWCs[LabelOf(w)])
<1> DEFINE l == LabelOf(w)
<1>1. Want(w) \in Revisions /\ l \in Labels
  BY BackdropTypes, WantType
<1>2. cmBase[Want(w)] = Len(configMaps[Want(w)])
  BY <1>1 DEF Backdrop, QueueOK, ConfigMapRead, Calm, Scanning
<1>3. l \in Tags => tagBase[l] = Len(tagMWCs[l])
  BY DEF Backdrop, QueueOK, TagRead, Calm, Scanning
<1>4. l \in Tags => tagToRevision[l] = TagRev(l)
  BY <1>3, BackdropTypes DEF SnapshotOK, Scanning, TagRev, Current
<1>5. l \in Tags => TagRev(l) # None /\ Want(w) = TagRev(l)
  BY DEF Want, RevisionBehind, Undisturbed
<1>6. l \notin Tags => Want(w) = l
  BY DEF Want, RevisionBehind, TagRev
<1>7. RevisionFor(l) = Want(w)
  BY <1>4, <1>5, <1>6 DEF RevisionFor
<1> QED
  BY <1>1, <1>2, <1>3, <1>4, <1>5, <1>7

\* A pod that the full scan passes over is fine (shouldSkipPodForLastModified).
LEMMA PassedIsFine ==
    ASSUME Undisturbed, Backdrop, Calm, request \in FullRequests, pc = "scan",
           NEW p \in todo, listed[p] = pods[p], PassedOver(p)
    PROVE  Fine(p)
<1> DEFINE w   == OwnerOf[p]
           pod == pods[p]
           l   == LabelOf(w)
<1>t. TypeInvariant /\ LabelsOK /\ PodsSound
  BY BackdropTypes DEF Backdrop
<1>p. p \in Pods /\ w \in Workloads /\ getIstioRevFromWorkloadOrNamespace(w) = l
  BY <1>t, RoundTypes, LabelRead, TopologyAssumption
<1> SUFFICES ASSUME pod # NoPod, Wanted(w)
             PROVE  pod.rev = Want(w) /\ pod.ver = Len(configMaps[Want(w)])
  BY <1>t, <1>p, CurrentIsFine DEF Fine
<1>1. Want(w) # None /\ w \notin OptOut /\ NamespaceOf[w] \notin SkipNamespaces
  BY DEF Wanted
<1>2. /\ Want(w) \in Revisions /\ RevisionFor(l) = Want(w)
      /\ cmBase[Want(w)] = Len(configMaps[Want(w)])
      /\ l \in Tags => tagToRevision[l] # None /\ tagBase[l] = Len(tagMWCs[l])
  BY <1>1, <1>p, CalmReads DEF Scanning
<1>3. l \in Labels /\ l # None /\ pod.label = l
  BY <1>t, <1>p, <1>1, WantType, LabelAssumption DEF LabelsOK
<1>4. shouldSkipPodForLastModified(pod, l)
  BY <1>p, <1>1, <1>3 DEF PassedOver
<1>5. InjectedSince(pod, l)
  <2>1. SkipIsSafe
    <3>1. IstiodConfigReadDelay >= IstiodLag + Second - 1
      BY LagAssumption, ScannerAssumption, SecondAssumption DEF Undisturbed
    <3> QED BY <3>1, InvSkip DEF Backdrop
  <2> QED BY <1>p, <1>1, <1>2, <1>3, <1>4, <2>1 DEF SkipIsSafe
<1>6. SidecarSound(pod, configMaps) /\ TagSound(pod, tagMWCs)
  BY <1>t, <1>p DEF PodsSound, PodSound
<1>7. /\ l \in Tags => pod.tagVer \in 1 .. Len(tagMWCs[l]) /\ Len(tagMWCs[l]) \in Nat
      /\ Len(configMaps[Want(w)]) \in Nat
  BY <1>t, <1>2, <1>3, <1>6, RestTypes DEF TagSound
<1>8. pod.rev = Want(w) /\ pod.ver >= Len(configMaps[Want(w)])
  BY <1>2, <1>5, <1>7 DEF InjectedSince
<1>9. pod.ver \in 1 .. Len(configMaps[Want(w)])
  BY <1>1, <1>6, <1>8 DEF SidecarSound
<1> QED
  BY <1>7, <1>8, <1>9

\* A pod the webhook has nothing against is fine (CallWebhook, imagesMatch).
LEMMA JudgedIsFine ==
    ASSUME Undisturbed, Backdrop, Calm, IstiodCurrent, request \in FullRequests, pc = "check",
           listed[candidate] = pods[candidate], revOrTag = LabelOf(OwnerOf[candidate]),
           ~Outdated(candidate, revOrTag)
    PROVE  Fine(candidate)
<1> DEFINE w        == OwnerOf[candidate]
           l        == LabelOf(w)
           expected == CallWebhook(buildPodFromWorkload(w), RevisionFor(l), l = Default)
<1>t. TypeInvariant
  BY BackdropTypes
<1>p. candidate \in Pods /\ w \in Workloads
  BY <1>t, RoundTypes
<1> SUFFICES ASSUME Wanted(w)
             PROVE  << getIstioProxyImage(pods[candidate]), Current(configMaps[Want(w)]).image >>
                       \in MatchingImages
  BY DEF Fine, FinePod
<1>1. Want(w) # None /\ w \notin OptOut
  BY DEF Wanted
<1>2. Want(w) \in Revisions /\ RevisionFor(l) = Want(w)
  BY <1>1, <1>p, CalmReads DEF Scanning
<1>3. Current(configMaps[Want(w)]).image \in Images
  BY <1>t, <1>p, <1>1, WantType
<1>4. WebhookRevision(RevisionFor(l), l = Default) = Want(w)
  <2>1. CASE l = Default /\ Default \in Tags /\ tagMWCs[Default][tagSeen[Default]].rev # None
    <3>1. tagMWCs[Default][tagSeen[Default]].rev = TagRev(l)
      BY <2>1 DEF Calm, TagRev, Current
    <3>2. Want(w) = TagRev(l)
      BY <2>1, <3>1 DEF Want, RevisionBehind
    <3> QED BY <2>1, <3>1, <3>2 DEF WebhookRevision
  <2>2. CASE ~(l = Default /\ Default \in Tags /\ tagMWCs[Default][tagSeen[Default]].rev # None)
    BY <1>2, <2>2 DEF WebhookRevision
  <2> QED BY <2>1, <2>2
<1>5. expected = Current(configMaps[Want(w)]).image
  BY <1>1, <1>2, <1>4 DEF CallWebhook, buildPodFromWorkload, IstiodCurrent, Current
<1>6. expected # NoImage
  BY <1>3, <1>5, ImageAssumption
<1> HIDE DEF expected
<1>7. ~(/\ expected # NoImage
        /\ << getIstioProxyImage(listed[candidate]), expected >> \notin MatchingImages)
  BY DEF Outdated, expected
<1> QED
  BY <1>5, <1>6, <1>7
-----------------------------------------------------------------------------
(* Steps of a calm controller.                                             *)

\* The state before a step that leaves the configuration alone.
Settled ==
    /\ Backdrop /\ Calm /\ CalmFacts
    /\ UNCHANGED << configMaps, tagMWCs, namespaces >>

\* It becomes calm only by taking the last full scan request.
LEMMA CalmBefore ==
    ASSUME TypeInvariant, QueueOK, QueueStep, Calm', UNCHANGED << configMaps, tagMWCs >>,
           request' \notin FullRequests \/ pc # "idle" \/ pc' # "await"
    PROVE  Calm
<1>1. pc' # "down" /\ ~FullScanQueued'
  BY DEF Calm
<1>2. IstioChange \in FullRequests
  BY DEF FullRequests
<1>3. /\ pc # "down" /\ UNCHANGED << cmSeen, tagSeen >>
      /\ (pending \cup backoff) \cap FullRequests \subseteq pending' \cup backoff'
  <2>1. CASE Quiet
    BY <1>1, <2>1 DEF Quiet, Working
  <2>2. CASE Enqueues
    BY <1>1, <1>2, <2>2 DEF Enqueues, FullScanQueued
  <2>3. CASE ReadsOne
    BY <2>3 DEF ReadsOne
  <2>4. CASE Fails
    BY <2>4 DEF Fails
  <2>5. CASE Finishes
    BY <2>5 DEF Finishes
  <2>6. CASE Crashes \/ StartsOver
    BY <1>1, <1>2, <2>6 DEF Crashes, StartsOver, FullScanQueued
  <2>7. CASE \E n \in Namespaces : ShowsNamespace(n)
    BY <1>1, <2>7 DEF ShowsNamespace
  <2>8. CASE \E q \in Requests : Dequeues(q)
    BY <2>8 DEF Dequeues
  <2> QED BY <2>1, <2>2, <2>3, <2>4, <2>5, <2>6, <2>7, <2>8 DEF QueueStep
<1>4. ~FullScanQueued
  BY <1>1, <1>3 DEF FullScanQueued
<1> QED
  BY <1>3, <1>4 DEF Calm

\* Whether a pod is fine depends on the pod and the configuration.
LEMMA FineKept ==
    ASSUME UNCHANGED << configMaps, tagMWCs, namespaces >>, NEW p \in Pods,
           pods'[p] = pods[p], Fine(p)
    PROVE  Fine(p)'
BY DEF Fine, FinePod, Wanted, Want, LabelOf, TagRev, RevisionBehind, SelectedLabel, Current,
       getIstioProxyImage

\* ... and so does the label it should have.
LEMMA LabelKept ==
    ASSUME UNCHANGED namespaces, NEW w
    PROVE  LabelOf(w)' = LabelOf(w)
BY DEF LabelOf, SelectedLabel, Current

\* Only the pods the reconcile is going to deal with need an argument.
LEMMA CaredFrame ==
    ASSUME UNCHANGED << configMaps, tagMWCs, namespaces, pods, restartedAt >>,
           NEW p \in Pods, Cared(p), Handled(p) => Cared(p)'
    PROVE  Cared(p)'
<1>1. CASE Fine(p)
  BY <1>1, FineKept DEF Cared
<1>2. CASE Rolling(p)
  BY <1>2 DEF Cared, Rolling
<1> QED
  BY <1>1, <1>2 DEF Cared

\* ... if neither time nor istiod moves and no wait or patch begins.
LEMMA FactsFrame ==
    ASSUME CalmFacts, UNCHANGED << configMaps, tagMWCs, now, istiod >>,
           request' \in FullRequests => request' = request,
           (pc' = "await" /\ request' \in FullRequests) =>
               pc = "await" /\ UNCHANGED << timer, request >>,
           (pc = "await" /\ request \in FullRequests) => pc' = "await" /\ UNCHANGED request,
           pc' = "patch" => pc = "patch" /\ UNCHANGED value,
           \A p \in Pods : Cared(p)'
    PROVE  CalmFacts'
<1>1. request' \in FullRequests =>
          Aged(configMaps', tagMWCs', now' + (IF pc' = "await" THEN timer' ELSE 0))
  BY DEF CalmFacts
<1>2. (request' \in FullRequests /\ pc' = "patch") =>
          Aged(configMaps', tagMWCs', value' + Second - 1)
  BY DEF CalmFacts
<1>3. IstiodCurrent' \/ (request' \in FullRequests /\ pc' = "await")
  BY DEF CalmFacts, IstiodCurrent
<1> QED
  BY <1>1, <1>2, <1>3 DEF CalmFacts, Aged

\* A later time is no younger.
LEMMA AgedLater ==
    ASSUME TypeInvariant, NEW s \in Int, NEW t \in Int, s <= t, Aged(configMaps, tagMWCs, s)
    PROVE  Aged(configMaps, tagMWCs, t)
<1>d. IstiodConfigReadDelay \in Nat
  BY ScannerAssumption
<1>1. ASSUME NEW r \in Revisions, NEW v \in 2 .. Len(configMaps[r])
      PROVE  configMaps[r][v].at + IstiodConfigReadDelay <= t
  <2>1. configMaps[r][v] \in ConfigMapVersions
    BY RestTypes
  <2>2. configMaps[r][v].at \in Nat
    BY <2>1 DEF ConfigMapVersions
  <2>3. configMaps[r][v].at + IstiodConfigReadDelay <= s
    BY DEF Aged
  <2> QED BY <1>d, <2>2, <2>3
<1>2. ASSUME NEW g \in Tags, NEW v \in 2 .. Len(tagMWCs[g])
      PROVE  tagMWCs[g][v].at + IstiodConfigReadDelay <= t
  <2>1. tagMWCs[g][v] \in TagVersions
    BY RestTypes
  <2>2. tagMWCs[g][v].at \in Nat
    BY <2>1 DEF TagVersions
  <2>3. tagMWCs[g][v].at + IstiodConfigReadDelay <= s
    BY DEF Aged
  <2> QED BY <1>d, <2>2, <2>3
<1> QED
  BY <1>1, <1>2 DEF Aged

\* At the end of time every change is a delay old.
LEMMA AgedAtEnd ==
    ASSUME Undisturbed, TypeInvariant, HorizonOK
    PROVE  Aged(configMaps, tagMWCs, MaxTime)
<1>d. IstiodConfigReadDelay \in Nat /\ Horizon \in Nat /\ MaxTime \in Nat
  BY ScannerAssumption, BoundAssumption
<1>1. ASSUME NEW r \in Revisions, NEW v \in 2 .. Len(configMaps[r])
      PROVE  configMaps[r][v].at + IstiodConfigReadDelay <= MaxTime
  <2>1. configMaps[r][v] \in ConfigMapVersions
    BY RestTypes
  <2>2. configMaps[r][v].at \in Nat /\ configMaps[r][v].at <= Horizon
    BY <2>1 DEF ConfigMapVersions, HorizonOK
  <2> QED BY <1>d, <2>2 DEF Undisturbed
<1>2. ASSUME NEW g \in Tags, NEW v \in 2 .. Len(tagMWCs[g])
      PROVE  tagMWCs[g][v].at + IstiodConfigReadDelay <= MaxTime
  <2>1. tagMWCs[g][v] \in TagVersions
    BY RestTypes
  <2>2. tagMWCs[g][v].at \in Nat /\ tagMWCs[g][v].at <= Horizon
    BY <2>1 DEF TagVersions, HorizonOK
  <2> QED BY <1>d, <2>2 DEF Undisturbed
<1> QED
  BY <1>1, <1>2 DEF Aged

\* A tick takes from the wait what it adds to the clock; at the end of time
\* everything has aged.
LEMMA TickCalm ==
    ASSUME Undisturbed, Settled, Tick
    PROVE  CalmFacts'
<1> DEFINE wait == IF pc = "await" THEN timer ELSE 0
<1>t. /\ TypeInvariant /\ TimesOK /\ HorizonOK /\ CalmFacts
      /\ UNCHANGED << configMaps, tagMWCs, namespaces, pc, request, value, istiod, pods,
                      restartedAt, listed, todo, candidate, revOrTag, found, index >>
  BY BackdropTypes DEF Settled, Backdrop, Tick, workVars, scanVars, annotatorVars, queueVars
<1>n. now \in Nat /\ timer \in Nat /\ MaxTime \in Nat /\ now <= MaxTime
  BY <1>t, RoundTypes, BoundAssumption DEF TimesOK
<1>1. \A p \in Pods : Cared(p)'
  <2> SUFFICES ASSUME NEW p \in Pods PROVE Cared(p)'
    OBVIOUS
  <2>1. Handled(p) => Handled(p)'
    BY <1>t, LabelKept DEF Handled
  <2> QED BY <1>t, <2>1, CaredFrame DEF CalmFacts, Cared
<1>2. request \in FullRequests => Aged(configMaps, tagMWCs, now' + wait')
  <2> SUFFICES ASSUME request \in FullRequests PROVE Aged(configMaps, tagMWCs, now' + wait')
    OBVIOUS
  <2>1. Aged(configMaps, tagMWCs, now + wait)
    BY <1>t DEF CalmFacts
  <2>2. now' \in Nat /\ timer' \in Nat /\ wait \in Nat /\ wait' \in Nat
    BY <1>n DEF Tick, NextInstant
  <2>3. CASE now < MaxTime
    <3>1. now + wait <= now' + wait'
      BY <1>n, <1>t, <2>2, <2>3 DEF Tick, NextInstant
    <3>2. now + wait \in Int /\ now' + wait' \in Int
      BY <1>n, <2>2
    <3> HIDE DEF wait
    <3> QED BY <1>t, <2>1, <3>1, <3>2, AgedLater
  <2>4. CASE now = MaxTime
    <3>1. MaxTime <= now' + wait'
      BY <1>n, <1>t, <2>2, <2>4 DEF Tick, NextInstant
    <3>2. MaxTime \in Int /\ now' + wait' \in Int
      BY <1>n, <2>2
    <3> HIDE DEF wait
    <3> QED BY <1>t, <3>1, <3>2, AgedAtEnd, AgedLater
  <2> QED BY <1>n, <2>3, <2>4
<1>3. IstiodCurrent \/ (request \in FullRequests /\ pc = "await")
  BY <1>t DEF CalmFacts
<1>4. (request \in FullRequests /\ pc = "patch") => Aged(configMaps, tagMWCs, value + Second - 1)
  BY <1>t DEF CalmFacts
<1> QED
  BY <1>t, <1>1, <1>2, <1>3, <1>4 DEF CalmFacts, Aged, IstiodCurrent
\* A pod created now is fine, and a reconcile that has not read anything yet
\* is going to see it.
LEMMA ClusterCalm ==
    ASSUME Undisturbed, Settled, ClusterStep
    PROVE  CalmFacts'
<1>t. /\ TypeInvariant /\ CalmFacts
      /\ UNCHANGED << configMaps, tagMWCs, namespaces, pc, request, value, timer,
                      listed, todo, candidate, revOrTag, found, index >>
  BY BackdropTypes DEF Settled, ClusterStep, controllerVars, workVars, scanVars, annotatorVars,
                       queueVars
<1>s. UNCHANGED << now, restartedAt >>
  BY DEF ClusterStep, UpdateConfigMap, IstiodReload, RetagMWC, RelabelNamespace, EvictPod, RollPod
<1>1. CASE \E r \in Revisions : IstiodReload(r)
  <2>1. UNCHANGED pods
    BY <1>1 DEF IstiodReload
  <2>2. request \in FullRequests /\ pc = "await"
    <3>1. ~IstiodCurrent
      BY <1>1, <1>t, RestTypes DEF IstiodReload, IstiodCurrent
    <3> QED BY <1>t, <3>1 DEF CalmFacts
  <2>3. \A p \in Pods : Cared(p)'
    BY <1>t, <2>2 DEF Cared, Handled
  <2> QED BY <1>t, <1>s, <2>2, <2>3 DEF CalmFacts, Aged
<1>2. CASE ~ \E r \in Revisions : IstiodReload(r)
  <2>1. UNCHANGED istiod
    BY <1>2 DEF ClusterStep, UpdateConfigMap, RetagMWC, RelabelNamespace, EvictPod, RollPod
  <2>2. ASSUME NEW p \in Pods PROVE Cared(p)'
    <3> DEFINE w == OwnerOf[p]
    <3>w. w \in Workloads
      BY TopologyAssumption
    <3>1. CASE request \in FullRequests /\ pc = "await"
      BY <1>t, <3>1 DEF Cared, Handled
    <3>2. CASE IstiodCurrent /\ pods'[p] = FreshPod(w)
      <4>1. FinePod(w, FreshPod(w))
        BY <1>t, <3>w, <3>2, FreshIsFine
      <4>2. Fine(p)'
        BY <1>t, <3>2, <4>1
        DEF Fine, FinePod, Wanted, Want, LabelOf, TagRev, RevisionBehind, SelectedLabel, Current,
            getIstioProxyImage
      <4> QED BY <4>2 DEF Cared
    <3>3. CASE pods'[p] = pods[p]
      <4>1. Fine(p) => Fine(p)'
        BY <1>t, <3>3, FineKept
      <4>2. Rolling(p) => Rolling(p)'
        BY <1>s, <3>3 DEF Rolling
      <4>3. Handled(p) => Handled(p)'
        BY <1>t, <3>3, LabelKept DEF Handled
      <4> QED BY <1>t, <4>1, <4>2, <4>3 DEF CalmFacts, Cared
    <3>4. pods'[p] \in {pods[p], FreshPod(w)}
      BY <1>t, RestTypes DEF ClusterStep, UpdateConfigMap, IstiodReload, RetagMWC,
                             RelabelNamespace, EvictPod, RollPod
    <3> QED BY <1>t, <3>1, <3>2, <3>3, <3>4 DEF CalmFacts
  <2> QED BY <1>t, <1>s, <2>1, <2>2, FactsFrame
<1> QED
  BY <1>1, <1>2

\* A step that does not concern the worker, the pods or istiod.
LEMMA AsideCalm ==
    ASSUME Settled,
           UNCHANGED << pc, request, value, timer, now, istiod, pods, restartedAt,
                        listed, todo, candidate, revOrTag, found, index >>
    PROVE  CalmFacts'
<1>1. CalmFacts /\ UNCHANGED << configMaps, tagMWCs, namespaces >>
  BY DEF Settled
<1>2. ASSUME NEW p \in Pods PROVE Cared(p)'
  <2>1. Handled(p) => Handled(p)'
    BY <1>1, LabelKept DEF Handled
  <2> QED BY <1>1, <2>1, CaredFrame DEF CalmFacts, Cared
<1> QED
  BY <1>1, <1>2, FactsFrame

\* A scan of one namespace leaves everything to the full scans before it.
LEMMA DequeueCalm ==
    ASSUME Settled, NEW q \in Requests, Dequeue(q), q \notin FullRequests
    PROVE  CalmFacts'
<1>1. /\ CalmFacts /\ QueueOK
      /\ UNCHANGED << configMaps, tagMWCs, namespaces, now, istiod, pods, restartedAt >>
      /\ request' = q /\ pc = "idle" /\ pc' = "await"
  BY DEF Settled, Backdrop, Dequeue, clusterVars
<1>2. request \notin FullRequests
  BY <1>1, ReconcilerAssumption DEF QueueOK, RequestOK, FullRequests
<1>3. \A p \in Pods : Cared(p)'
  BY <1>1, <1>2, CaredFrame DEF CalmFacts, Handled
<1> QED
  BY <1>1, <1>2, <1>3, FactsFrame

\* The last full scan request leaves the queue: its delay covers every change
\* there is, and it is going to deal with every pod.
LEMMA DequeueFull ==
    ASSUME Backdrop, NEW q \in FullRequests, Dequeue(q)
    PROVE  CalmFacts'
<1>1. /\ request' = q /\ pc' = "await" /\ timer' = IstiodConfigReadDelay
      /\ UNCHANGED << configMaps, tagMWCs, now >>
  BY DEF Dequeue, clusterVars
<1>t. /\ TypeInvariant /\ HistoryOK /\ now \in Nat /\ IstiodConfigReadDelay \in Nat
  BY BackdropTypes, RoundTypes, ScannerAssumption
<1>2. \A p \in Pods : Handled(p)'
  BY <1>1 DEF Handled
<1>3. ASSUME NEW r \in Revisions, NEW v \in 2 .. Len(configMaps[r])
      PROVE  configMaps[r][v].at + IstiodConfigReadDelay <= now + IstiodConfigReadDelay
  <2>1. configMaps[r][v] \in ConfigMapVersions
    BY <1>t, RestTypes
  <2>2. configMaps[r][v].at \in Nat /\ configMaps[r][v].at <= now
    BY <1>t, <2>1 DEF ConfigMapVersions, HistoryOK
  <2> QED BY <1>t, <2>2
<1>4. ASSUME NEW g \in Tags, NEW v \in 2 .. Len(tagMWCs[g])
      PROVE  tagMWCs[g][v].at + IstiodConfigReadDelay <= now + IstiodConfigReadDelay
  <2>1. tagMWCs[g][v] \in TagVersions
    BY <1>t, RestTypes
  <2>2. tagMWCs[g][v].at \in Nat /\ tagMWCs[g][v].at <= now
    BY <1>t, <2>1 DEF TagVersions, HistoryOK
  <2> QED BY <1>t, <2>2
<1>5. Aged(configMaps, tagMWCs, now + IstiodConfigReadDelay)
  BY <1>3, <1>4 DEF Aged
<1> QED
  BY <1>1, <1>2, <1>5 DEF CalmFacts, Cared, Aged

\* When the delay is over istiod serves every change.
LEMMA AwaitCalm ==
    ASSUME Undisturbed, Settled, AwaitIstiodConfigReadDelay
    PROVE  CalmFacts'
<1>1. /\ CalmFacts
      /\ pc = "await" /\ timer = 0 /\ pc' = "configmaps"
      /\ UNCHANGED << configMaps, tagMWCs, namespaces, now, istiod, pods, restartedAt, request >>
  BY DEF Settled, AwaitIstiodConfigReadDelay, clusterVars, queueVars
<1>t. /\ TypeInvariant /\ HistoryOK /\ now \in Nat /\ IstiodConfigReadDelay \in Nat
      /\ IstiodLag \in Nat /\ IstiodLag <= IstiodConfigReadDelay
  BY BackdropTypes, RoundTypes, ScannerAssumption, LagAssumption, SecondAssumption
  DEF Settled, Undisturbed
<1>2. \A p \in Pods : Cared(p)'
  <2> SUFFICES ASSUME NEW p \in Pods PROVE Cared(p)'
    OBVIOUS
  <2>1. Handled(p) => Handled(p)'
    BY <1>1 DEF Handled
  <2> QED BY <1>1, <2>1, CaredFrame DEF CalmFacts, Cared
<1>3. request \in FullRequests => Aged(configMaps, tagMWCs, now)
  BY <1>1, <1>t DEF CalmFacts
<1>4. ASSUME request \in FullRequests, NEW r \in Revisions PROVE istiod[r] = Len(configMaps[r])
  <2> DEFINE n == Len(configMaps[r])
  <2>1. istiod[r] \in 1 .. n /\ n \in Nat \ {0}
    BY <1>t, RestTypes DEF TypeInvariant, CursorsInRange
  <2>2. n >= 2 => istiod[r] >= n
    <3> SUFFICES ASSUME n >= 2 PROVE istiod[r] >= n
      OBVIOUS
    <3>1. n \in 1 .. n /\ n \in 2 .. n
      BY <2>1
    <3>2. configMaps[r][n] \in ConfigMapVersions
      BY <1>t, <3>1, RestTypes
    <3>3. configMaps[r][n].at \in Nat
      BY <3>2 DEF ConfigMapVersions
    <3>4. configMaps[r][n].at + IstiodConfigReadDelay <= now
      BY <1>3, <1>4, <3>1 DEF Aged
    <3>5. configMaps[r][n].at + IstiodLag <= now
      BY <1>t, <3>3, <3>4
    <3> QED BY <1>t, <3>1, <3>5 DEF HistoryOK, IstiodOnTime
  <2> QED BY <2>1, <2>2
<1>5. IstiodCurrent
  BY <1>1, <1>4 DEF IstiodCurrent, CalmFacts
<1>6. request' \in FullRequests =>
          Aged(configMaps', tagMWCs', now' + (IF pc' = "await" THEN timer' ELSE 0))
  BY <1>1, <1>3, <1>t
<1> QED
  BY <1>1, <1>2, <1>5, <1>6 DEF CalmFacts, Aged, IstiodCurrent

\* Reading the configuration concerns no pod.
LEMMA ReadCalm ==
    ASSUME Settled, ReadConfigMaps \/ ReadTags
    PROVE  CalmFacts'
<1>1. /\ CalmFacts
      /\ pc \in {"configmaps", "tags"} /\ pc' \in {"tags", "list"}
      /\ UNCHANGED << configMaps, tagMWCs, namespaces, now, istiod, pods, restartedAt, request >>
  BY DEF Settled, ReadConfigMaps, ReadTags, clusterVars, queueVars
<1>2. ASSUME NEW p \in Pods PROVE Cared(p)'
  <2>1. Handled(p) => Handled(p)'
    BY <1>1 DEF Handled
  <2> QED BY <1>1, <2>1, CaredFrame DEF CalmFacts, Cared
<1> QED
  BY <1>1, <1>2, FactsFrame

\* A pod that the list misses is too young to be wrong.
LEMMA ListCalm ==
    ASSUME Undisturbed, Settled, ListPods
    PROVE  CalmFacts'
<1>1. /\ CalmFacts /\ PodsShown /\ LabelsOK
      /\ pc = "list" /\ pc' = "scan"
      /\ UNCHANGED << configMaps, tagMWCs, namespaces, now, istiod, pods, restartedAt, request >>
      /\ listed' = podSeen
      /\ todo' = {p \in Pods : podSeen[p] # NoPod /\ NamespaceOf[OwnerOf[p]] \in LimitToNamespaces}
  BY DEF Settled, Backdrop, ListPods, listPods, clusterVars, queueVars
<1>t. /\ TypeInvariant /\ PodsSound /\ now \in Nat /\ IstiodConfigReadDelay \in Nat
      /\ IstiodLag \in Nat /\ InformerLag \in Nat
  BY BackdropTypes, RoundTypes, ScannerAssumption, LagAssumption DEF Settled
<1>2. ASSUME NEW p \in Pods PROVE Cared(p)'
  <2> SUFFICES ASSUME Handled(p) PROVE Cared(p)'
    BY <1>1, CaredFrame DEF CalmFacts
  <2>1. CASE pods[p] = NoPod
    <3>1. Fine(p)
      BY <2>1 DEF Fine, FinePod
    <3> QED BY <1>1, <3>1, FineKept DEF Cared
  <2>2. CASE pods[p] # NoPod /\ podSeen[p] = pods[p]
    <3>1. NamespaceOf[OwnerOf[p]] \in LimitToNamespaces
      BY TopologyAssumption DEF Handled, LimitToNamespaces
    <3>2. p \in todo' /\ listed'[p] = pods'[p] /\ pc' \in Scanning /\ request' \in FullRequests
      BY <1>1, <2>2, <3>1 DEF Scanning, Handled
    <3> QED BY <3>2 DEF Cared, Handled
  <2>3. CASE podSeen[p] # pods[p]
    <3>1. pods[p].born \in Nat /\ ~(pods[p].born + InformerLag <= now)
      BY <1>1, <1>t, <2>3, RestTypes DEF PodsShown, PodRecords
    <3>2. Aged(configMaps, tagMWCs, now)
      <4>1. request \in FullRequests
        BY DEF Handled
      <4>2. now + (IF pc = "await" THEN timer ELSE 0) = now
        BY <1>1, <1>t
      <4> QED BY <1>1, <4>1, <4>2 DEF CalmFacts
    <3>3. now + IstiodLag <= pods[p].born + IstiodConfigReadDelay
      BY <1>t, <3>1 DEF Undisturbed
    <3>4. Fine(p)
      BY <1>1, <1>t, <3>2, <3>3, AgedCovers
    <3> QED BY <1>1, <3>4, FineKept DEF Cared
  <2> QED BY <2>1, <2>2, <2>3
<1> QED
  BY <1>1, <1>2, FactsFrame
\* A pod is passed over if it is fine; another one becomes the candidate.
LEMMA ScanCalm ==
    ASSUME Undisturbed, Settled, NEW q \in Pods, ScanPod(q)
    PROVE  CalmFacts'
<1>1. /\ CalmFacts /\ Backdrop /\ Calm
      /\ pc = "scan" /\ pc' \in Scanning /\ q \in todo /\ todo' = todo \ {q}
      /\ UNCHANGED << configMaps, tagMWCs, namespaces, now, istiod, pods, restartedAt, request,
                      listed, found >>
  BY DEF Settled, ScanPod, PassOverPod, SelectPod, scanUnchanged, clusterVars, queueVars, Scanning
<1>2. ASSUME NEW p \in Pods PROVE Cared(p)'
  <2> SUFFICES ASSUME Handled(p) PROVE Cared(p)'
    BY <1>1, CaredFrame DEF CalmFacts
  <2>0. /\ request \in FullRequests /\ listed[p] = pods[p]
        /\ p \in todo \/ \E i \in DOMAIN found : found[i] = OwnerOf[p]
    BY <1>1 DEF Handled, Scanning, Restarting
  <2>1. CASE p # q \/ \E i \in DOMAIN found : found[i] = OwnerOf[p]
    BY <1>1, <2>0, <2>1 DEF Cared, Handled
  <2>2. CASE p = q /\ PassOverPod(q)
    <3>1. Fine(p)
      BY <1>1, <2>0, <2>2, PassedIsFine DEF PassOverPod
    <3> QED BY <1>1, <3>1, FineKept DEF Cared
  <2>3. CASE p = q /\ SelectPod(q) /\ pc' = "check"
    <3>1. OwnerOf[p] \in Workloads /\ TypeInvariant /\ LabelsOK
      BY <1>1, BackdropTypes, TopologyAssumption DEF Backdrop
    <3>2. candidate' = p /\ revOrTag' = LabelOf(OwnerOf[p])
      BY <2>3, <3>1, LabelRead DEF SelectPod
    <3>3. LabelOf(OwnerOf[p])' = LabelOf(OwnerOf[p])
      BY <1>1, LabelKept
    <3> QED BY <1>1, <2>0, <2>3, <3>2, <3>3 DEF Cared, Handled
  <2> QED BY <2>1, <2>2, <2>3 DEF ScanPod
<1> QED
  BY <1>1, <1>2, FactsFrame DEF Scanning

\* The candidate is fine or its workload is found.
LEMMA CheckCalm ==
    ASSUME Undisturbed, Settled, CheckCandidate
    PROVE  CalmFacts'
<1> DEFINE w == OwnerOf[candidate]
<1>1. /\ CalmFacts /\ Backdrop /\ Calm
      /\ pc = "check" /\ pc' = "scan"
      /\ UNCHANGED << configMaps, tagMWCs, namespaces, now, istiod, pods, restartedAt, request,
                      listed, todo >>
      /\ found' = IF Outdated(candidate, revOrTag) /\ ~Seen(w) THEN Append(found, w) ELSE found
  BY DEF Settled, CheckCandidate, CheckPod, scanUnchanged, clusterVars, queueVars
<1>t. TypeInvariant /\ found \in Seq(Workloads) /\ w \in Workloads /\ candidate \in Pods
  BY <1>1, BackdropTypes, RoundTypes
<1>l. Len(found) \in Nat /\ DOMAIN found = 1 .. Len(found)
  BY <1>t, RoundTypes
<1>a. found' = Append(found, w) =>
          /\ DOMAIN found' = 1 .. (Len(found) + 1)
          /\ found'[Len(found) + 1] = w
          /\ \A i \in 1 .. Len(found) : found'[i] = found[i]
  BY <1>t, AppendItem
<1>2. ASSUME NEW v \in Workloads, \E i \in DOMAIN found : found[i] = v
      PROVE  \E i \in DOMAIN found' : found'[i] = v
  <2>1. PICK i \in DOMAIN found : found[i] = v
    BY <1>2
  <2>2. i \in DOMAIN found' /\ found'[i] = v
    BY <1>1, <1>l, <1>a, <2>1
  <2> QED BY <2>2
<1>3. Outdated(candidate, revOrTag) => \E i \in DOMAIN found' : found'[i] = w
  <2>1. CASE Seen(w)
    <3>1. PICK i \in DOMAIN found : Key(found[i]) = Key(w)
      BY <2>1 DEF Seen
    <3>2. found[i] \in Workloads
      BY <1>t, <1>l, <3>1
    <3>3. found[i] = w
      BY <1>t, <3>1, <3>2 DEF Undisturbed
    <3> QED BY <1>1, <2>1, <3>3
  <2>2. CASE Outdated(candidate, revOrTag) /\ ~Seen(w)
    <3>1. found' = Append(found, w)
      BY <1>1, <2>2
    <3>2. Len(found) + 1 \in DOMAIN found' /\ found'[Len(found) + 1] = w
      BY <1>l, <1>a, <3>1
    <3> QED BY <3>2
  <2> QED BY <2>1, <2>2
<1>4. ASSUME NEW p \in Pods PROVE Cared(p)'
  <2> SUFFICES ASSUME Handled(p) PROVE Cared(p)'
    BY <1>1, CaredFrame DEF CalmFacts
  <2>w. OwnerOf[p] \in Workloads
    BY TopologyAssumption
  <2>0. /\ request \in FullRequests /\ listed[p] = pods[p]
        /\ \/ p \in todo
           \/ candidate = p /\ revOrTag = LabelOf(OwnerOf[p])
           \/ \E i \in DOMAIN found : found[i] = OwnerOf[p]
    BY <1>1 DEF Handled, Scanning, Restarting
  <2>1. CASE p \in todo \/ \E i \in DOMAIN found' : found'[i] = OwnerOf[p]
    BY <1>1, <2>0, <2>1 DEF Cared, Handled, Scanning
  <2>2. CASE candidate = p /\ revOrTag = LabelOf(OwnerOf[p]) /\ ~Outdated(candidate, revOrTag)
    <3>1. IstiodCurrent
      BY <1>1 DEF CalmFacts
    <3>2. Fine(p)
      BY <1>1, <2>0, <2>2, <3>1, JudgedIsFine
    <3> QED BY <1>1, <3>2, FineKept DEF Cared
  <2> QED BY <1>2, <1>3, <2>w, <2>0, <2>1, <2>2
<1> QED
  BY <1>1, <1>4, FactsFrame

\* The scan is over: what it found is all that is left.
LEMMA ScanEndsCalm ==
    ASSUME Settled, ScanEnds
    PROVE  CalmFacts'
<1>1. /\ CalmFacts /\ Backdrop
      /\ pc = "scan" /\ pc' = "annotate" /\ todo = {} /\ index' = 1
      /\ UNCHANGED << configMaps, tagMWCs, namespaces, now, istiod, pods, restartedAt, request,
                      found >>
  BY DEF Settled, ScanEnds, scanUnchanged, scanVars, clusterVars, queueVars
<1>l. Len(found) \in Nat /\ DOMAIN found = 1 .. Len(found)
  BY <1>1, BackdropTypes, RoundTypes
<1>2. ASSUME NEW p \in Pods PROVE Cared(p)'
  <2> SUFFICES ASSUME Handled(p) PROVE Cared(p)'
    BY <1>1, CaredFrame DEF CalmFacts
  <2>0. request \in FullRequests /\ \E i \in DOMAIN found : found[i] = OwnerOf[p]
    BY <1>1 DEF Handled, Scanning, Restarting
  <2>1. \E i \in DOMAIN found' : i >= index' /\ found'[i] = OwnerOf[p]
    BY <1>1, <1>l, <2>0
  <2> QED BY <1>1, <2>0, <2>1 DEF Cared, Handled, Restarting
<1> QED
  BY <1>1, <1>2, FactsFrame

\* A restart is written with the time of its decision, which the delay covers.
LEMMA StartPatchCalm ==
    ASSUME Settled, Pause \/ StartPatch
    PROVE  CalmFacts'
<1>1. /\ CalmFacts /\ Backdrop
      /\ pc \in {"annotate", "pause"} /\ pc' \in {"annotate", "patch"}
      /\ pc' = "patch" => value' = Trunc(now)
      /\ UNCHANGED << configMaps, tagMWCs, namespaces, now, istiod, pods, restartedAt, request,
                      found, index >>
  BY DEF Settled, Pause, StartPatch, ChooseValue, annotateUnchanged, scanVars, clusterVars,
         queueVars
<1>t. /\ TypeInvariant /\ now \in Nat /\ Second \in Nat
      /\ Trunc(now) \in Nat /\ now < Trunc(now) + Second
  BY <1>1, BackdropTypes, RoundTypes, TruncFacts, SecondAssumption
<1>2. ASSUME NEW p \in Pods PROVE Cared(p)'
  <2>1. Handled(p) => Handled(p)'
    BY <1>1 DEF Handled, Scanning, Restarting
  <2> QED BY <1>1, <2>1, CaredFrame DEF CalmFacts, Cared
<1>3. request \in FullRequests =>
          /\ Aged(configMaps, tagMWCs, now)
          /\ Aged(configMaps, tagMWCs, Trunc(now) + Second - 1)
  <2> SUFFICES ASSUME request \in FullRequests
               PROVE  /\ Aged(configMaps, tagMWCs, now)
                      /\ Aged(configMaps, tagMWCs, Trunc(now) + Second - 1)
    OBVIOUS
  <2>1. now + (IF pc = "await" THEN timer ELSE 0) = now
    BY <1>1, <1>t
  <2>2. Aged(configMaps, tagMWCs, now)
    BY <1>1, <2>1 DEF CalmFacts
  <2>3. /\ now \in Int /\ Trunc(now) + Second - 1 \in Int /\ now <= Trunc(now) + Second - 1
    BY <1>t
  <2> QED BY <1>t, <2>2, <2>3, AgedLater
<1>4. now' + (IF pc' = "await" THEN timer' ELSE 0) = now
  BY <1>1, <1>t
<1>5. IstiodCurrent
  BY <1>1 DEF CalmFacts
<1> QED
  BY <1>1, <1>2, <1>3, <1>4, <1>5 DEF CalmFacts, Aged, IstiodCurrent

\* A patch makes the workload's pods roll; one that has the restartedAt being
\* written already was created after the delay.
LEMMA PatchCalm ==
    ASSUME Undisturbed, Settled, PatchWorkload
    PROVE  CalmFacts'
<1> DEFINE w == found[index]
<1>1. /\ CalmFacts /\ Backdrop
      /\ pc = "patch" /\ NextWorkload
      /\ restartedAt' = [restartedAt EXCEPT ![w] = value]
      /\ UNCHANGED << configMaps, tagMWCs, namespaces, now, istiod, pods, request, found >>
  BY DEF Settled, PatchWorkload, Patch, annotateUnchanged, scanVars, queueVars
<1>t. /\ TypeInvariant /\ RoundOK /\ TimesOK /\ StampOK /\ LabelsOK /\ PodsSound
  BY <1>1, BackdropTypes DEF Backdrop
<1>n. /\ index \in Nat /\ value \in Nat /\ restartedAt \in [Workloads -> Nat]
      /\ IstiodLag \in Nat /\ IstiodConfigReadDelay \in Nat /\ Second \in Nat \ {0}
      /\ Len(found) \in Nat /\ DOMAIN found = 1 .. Len(found)
  BY <1>t, RoundTypes, LagAssumption, ScannerAssumption, SecondAssumption
<1>w. w \in Workloads /\ restartedAt[w] <= value
  BY <1>1, <1>t, FoundAtIndex DEF Restarting, RoundOK, TimesOK
<1>i. index' = index + 1 /\ pc' \in {"pause", "annotate"}
  BY <1>1, <1>t, MovesOn
<1>2. ASSUME NEW p \in Pods PROVE Cared(p)'
  <2>0. /\ OwnerOf[p] \in Workloads /\ pods[p].stamp \in Nat /\ pods[p].born \in Nat
    BY <1>t, RestTypes, TopologyAssumption DEF PodRecords
  <2>f. Fine(p) => Cared(p)'
    BY <1>1, FineKept DEF Cared
  <2>1. CASE OwnerOf[p] # w
    <3>1. restartedAt'[OwnerOf[p]] = restartedAt[OwnerOf[p]]
      BY <1>1, <1>n, <2>0, <2>1
    <3>2. Rolling(p) => Rolling(p)'
      BY <1>1, <3>1 DEF Rolling
    <3>3. Handled(p) => Handled(p)'
      <4> SUFFICES ASSUME Handled(p) PROVE Handled(p)'
        OBVIOUS
      <4>1. PICK i \in DOMAIN found : i >= index /\ found[i] = OwnerOf[p]
        BY <1>1 DEF Handled, Scanning
      <4>2. i >= index'
        BY <1>n, <1>i, <2>1, <4>1
      <4>3. request' \in FullRequests /\ pc' \in Restarting
        BY <1>1, <1>i DEF Handled, Restarting
      <4> QED BY <1>1, <4>1, <4>2, <4>3 DEF Handled
    <3> QED BY <1>1, <2>f, <3>2, <3>3 DEF CalmFacts, Cared
  <2>2. CASE OwnerOf[p] = w /\ pods[p].stamp # value
    BY <1>1, <1>n, <1>w, <2>2 DEF Cared, Rolling
  <2>3. CASE OwnerOf[p] = w /\ pods[p].stamp = value
    <3>1. value <= pods[p].born /\ restartedAt[w] = value
      BY <1>t, <1>n, <1>w, <2>3 DEF StampOK
    <3>2. CASE request \notin FullRequests
      BY <1>1, <2>f, <2>3, <3>1, <3>2 DEF CalmFacts, Cared, Rolling, Handled
    <3>3. CASE request \in FullRequests
      <4>1. Aged(configMaps, tagMWCs, value + Second - 1)
        BY <1>1, <3>3 DEF CalmFacts
      <4>2. /\ value + Second - 1 \in Int
            /\ (value + Second - 1) + IstiodLag <= pods[p].born + IstiodConfigReadDelay
        BY <1>n, <2>0, <3>1 DEF Undisturbed
      <4>3. Fine(p)
        BY <1>t, <4>1, <4>2, AgedCovers
      <4> QED BY <2>f, <4>3
    <3> QED BY <3>2, <3>3
  <2> QED BY <2>1, <2>2, <2>3
<1> QED
  BY <1>1, <1>i, <1>2, FactsFrame

\* A reconcile that ends has dealt with every workload it found; a full one
\* that fails is queued again.
LEMMA EndCalm ==
    ASSUME Settled, Calm', Finish \/ ReadFails \/ WebhookPanics
    PROVE  CalmFacts'
<1>1. /\ CalmFacts /\ Backdrop
      /\ pc' = "idle" /\ request' = None /\ pc # "await"
      /\ UNCHANGED << configMaps, tagMWCs, namespaces, now, istiod, pods, restartedAt >>
  BY DEF Settled, Finish, ReadFails, WebhookPanics, ReturnError, EndReconcile, clusterVars
<1>l. Len(found) \in Nat /\ DOMAIN found = 1 .. Len(found) /\ index \in Nat
  BY <1>1, BackdropTypes, RoundTypes
<1>n. None \notin FullRequests
  BY ReconcilerAssumption DEF FullRequests
<1>2. \A p \in Pods : ~Handled(p)
  <2>1. CASE Finish
    BY <1>l, <2>1 DEF Finish, Handled, Scanning
  <2>2. CASE ReadFails \/ WebhookPanics
    BY <2>2 DEF ReadFails, WebhookPanics, ReturnError, Calm, FullScanQueued, Handled
  <2> QED BY <2>1, <2>2
<1>3. \A p \in Pods : Cared(p)'
  BY <1>1, <1>2, CaredFrame DEF CalmFacts
<1> QED
  BY <1>1, <1>n, <1>3, FactsFrame
\* The steps that drop a workload do not happen: no call fails but List and
\* a webhook's answer, nothing cools down, and three patches meet no three
\* conflicts.
LEMMA NothingDropped ==
    ASSUME Undisturbed, TypeInvariant, RetriesOK
    PROVE  /\ ~ScanFails /\ ~AnnotateFails /\ ~SkipWorkload
           /\ PatchConflicts => PatchConflict /\ UNCHANGED << pc, timer, index >>
<1>1. ~(dropFaults < MaxDropFaults)
  BY DEF TypeInvariant, TypeOK, ControllerTypeOK, Undisturbed
<1>2. ~ScanFails /\ ~AnnotateFails
  BY <1>1, Zenon DEF ScanFails, AnnotateFails
<1>3. ~SkipWorkload
  BY DEF SkipWorkload, CoolingDown, Undisturbed
<1>4. /\ attempt \in Nat /\ conflicts \in Nat /\ attempt <= conflicts
      /\ MaxConflicts \in Nat /\ MaxConflicts < 3
  BY RestTypes, ReconcilerAssumption DEF RetriesOK, Undisturbed, patchConflictMaxRetries
<1>5. PatchConflicts => ~PatchGivesUp(TRUE)
  BY <1>4 DEF PatchConflicts, PatchGivesUp, patchConflictMaxRetries
<1> QED
  BY <1>2, <1>3, <1>5 DEF PatchConflicts

\* From the last full scan on, every pod stays cared for.
LEMMA CalmOKStep ==
    ASSUME Undisturbed, RestInvariant, [Next]_vars
    PROVE  CalmOK'
<1> SUFFICES ASSUME Calm' PROVE CalmFacts'
  BY DEF CalmOK
<1>t. /\ Backdrop /\ TypeInvariant /\ QueueOK /\ LabelsOK /\ RetriesOK
  BY BackdropTypes DEF RestInvariant, Backdrop
<1>s. UNCHANGED << configMaps, tagMWCs, namespaces >>
  BY <1>t, HistorySteps, NamespacesKept DEF Undisturbed
<1>b. ASSUME request' \notin FullRequests \/ pc # "idle" \/ pc' # "await"
      PROVE  Settled
  <2>1. QueueStep
    BY <1>t, QueueSteps
  <2>2. Calm
    BY <1>b, <1>t, <1>s, <2>1, CalmBefore
  <2> QED BY <1>t, <1>s, <2>2 DEF Settled, RestInvariant, CalmOK
<1> USE DEF clusterVars, cacheVars, controllerVars, workVars, configVars, scanVars,
            annotatorVars, queueVars, unwatched, scanUnchanged, annotateUnchanged
<1>1. CASE ClusterStep
  <2>1. pc' = pc
    BY <1>1 DEF ClusterStep
  <2> QED BY <1>1, <1>b, <2>1, ClusterCalm
<1>2. CASE Tick
  <2>1. pc' = pc
    BY <1>2 DEF Tick
  <2> QED BY <1>2, <1>b, <2>1, TickCalm
<1>3. CASE Deliveries \/ PeriodicTick \/ UNCHANGED vars
  <2>1. UNCHANGED << pc, request, value, timer, now, istiod, pods, restartedAt,
                     listed, todo, candidate, revOrTag, found, index >>
    BY <1>3 DEF Deliveries, SyncConfigMap, SyncTag, SyncNamespace, SyncWorkload, SyncPod,
                BackoffExpires, PeriodicTick, vars
  <2> QED BY <1>b, <2>1, AsideCalm
<1>4. ASSUME NEW q \in Requests, Dequeue(q) PROVE CalmFacts'
  <2>1. CASE q \in FullRequests
    BY <1>4, <1>t, <2>1, DequeueFull
  <2>2. CASE q \notin FullRequests
    <3>1. request' = q
      BY <1>4 DEF Dequeue
    <3> QED BY <1>4, <1>b, <2>2, <3>1, DequeueCalm
  <2> QED BY <2>1, <2>2
<1>5. CASE AwaitIstiodConfigReadDelay \/ ReadConfigMaps \/ ReadTags \/ ListPods
  <2>1. pc # "idle"
    BY <1>5 DEF AwaitIstiodConfigReadDelay, ReadConfigMaps, ReadTags, ListPods
  <2> QED BY <1>5, <1>b, <2>1, AwaitCalm, ReadCalm, ListCalm
<1>6. CASE (\E p \in Pods : ScanPod(p)) \/ CheckCandidate \/ ScanEnds
  <2>1. pc # "idle"
    BY <1>6 DEF ScanPod, CheckCandidate, ScanEnds
  <2> QED BY <1>6, <1>b, <2>1, ScanCalm, CheckCalm, ScanEndsCalm
<1>7. CASE Pause \/ StartPatch \/ PatchWorkload
  <2>1. pc # "idle"
    BY <1>7 DEF Pause, StartPatch, PatchWorkload
  <2> QED BY <1>7, <1>b, <2>1, StartPatchCalm, PatchCalm
<1>8. CASE Finish \/ ReadFails \/ WebhookPanics
  <2>1. pc # "idle"
    BY <1>8 DEF Finish, ReadFails, WebhookPanics
  <2> QED BY <1>8, <1>b, <2>1, EndCalm
<1>9. CASE PatchConflicts
  <2>1. PatchConflict /\ UNCHANGED << pc, timer, index >>
    BY <1>9, <1>t, NothingDropped
  <2>2. UNCHANGED << request, value, now, istiod, pods, restartedAt, listed, todo, candidate,
                     revOrTag, found >>
    BY <1>9, <2>1 DEF PatchConflicts, PatchConflict
  <2> QED BY <1>b, <2>1, <2>2, AsideCalm
<1>10. CASE Crash \/ Start
  BY <1>10 DEF Crash, Start, Calm, FullScanQueued, FullRequests
<1> QED
  BY <1>1, <1>2, <1>3, <1>4, <1>5, <1>6, <1>7, <1>8, <1>9, <1>10, <1>t, NothingDropped
  DEF Next, Worker, Faults

\* The first scan is queued when the process starts.
LEMMA InitRest == Init => RestInvariant
<1> SUFFICES ASSUME Init PROVE RestInvariant
  OBVIOUS
<1>1. TypeInvariant /\ Inv /\ RoundOK /\ TimesOK
  BY InitTypes, InitSkip, InitRound, InitTimes
<1>2. FullScanQueued /\ request = None /\ pc = "idle" /\ None \notin FullRequests
  BY ReconcilerAssumption DEF Init, FullScanQueued, FullRequests
<1>3. QueueOK
  BY <1>2 DEF QueueOK, RequestOK, ConfigMapRead, TagRead, NamespaceRead, ConfigMapCovered,
              TagCovered, NamespaceCovered
<1>4. CalmOK
  BY <1>2 DEF CalmOK, Calm
<1>5. \A p \in Pods : OwnerOf[p] \in Workloads /\ pods[p] \in {FreshPod(OwnerOf[p]), NoPod}
  BY TopologyAssumption DEF Init, ClusterInit
<1>6. LabelsOK
  <2>1. \A n \in Namespaces : Len(namespaces[n]) = 1
    BY DEF Init, ClusterInit
  <2>2. \A w \in Workloads : FreshPod(w).label = LabelOf(w)
    BY DEF FreshPod, LabelOf
  <2> QED BY <1>5, <2>1, <2>2 DEF LabelsOK
<1>7. StampOK
  <2>1. \A w \in Workloads : restartedAt[w] = 0
    BY DEF Init, ClusterInit
  <2>2. now \in Nat
    BY <1>1, RoundTypes
  <2>3. \A w \in Workloads : FreshPod(w).stamp = 0 /\ FreshPod(w).born = now
    BY <2>1 DEF FreshPod
  <2>4. NoPod.stamp = 0 /\ NoPod.born = 0
    BY DEF NoPod
  <2> QED BY <1>5, <2>1, <2>2, <2>3, <2>4 DEF StampOK
<1>8. PodsShown
  BY DEF PodsShown, Init, CacheInit
<1>9. HorizonOK
  <2>1. /\ \A r \in Revisions : Len(configMaps[r]) = 1
        /\ \A t \in Tags : Len(tagMWCs[t]) = 1
    BY DEF Init, ClusterInit
  <2> QED BY <2>1 DEF HorizonOK
<1>10. RetriesOK
  BY DEF RetriesOK, Init, AnnotatorInit
<1> QED
  BY <1>1, <1>3, <1>4, <1>6, <1>7, <1>8, <1>9, <1>10 DEF RestInvariant, Backdrop

\* At rest nothing is rolling and no scan is under way, so every pod is fine.
LEMMA RestImplies ==
    ASSUME RestInvariant
    PROVE  RestIsUpToDate
<1> SUFFICES ASSUME AtRest, NEW p \in Pods PROVE UpToDate(p)
  BY DEF RestIsUpToDate
<1> DEFINE w == OwnerOf[p]
<1>t. TypeInvariant /\ QueueOK /\ w \in Workloads
  BY BackdropTypes, TopologyAssumption DEF RestInvariant, Backdrop
<1>1. Calm
  BY DEF AtRest, Calm, FullScanQueued
<1>2. Cared(p)
  BY <1>1 DEF RestInvariant, CalmOK, CalmFacts
<1>3. ~Handled(p)
  BY <1>t, ReconcilerAssumption DEF Handled, AtRest, QueueOK, RequestOK, FullRequests
<1>4. pods[p] # NoPod => Fine(p)
  BY <1>2, <1>3 DEF Cared, Rolling, AtRest
<1> SUFFICES ASSUME pods[p] # NoPod, NamespaceOf[w] \notin SkipNamespaces, FreshPod(w).rev # None
             PROVE  << getIstioProxyImage(pods[p]), getIstioProxyImage(FreshPod(w)) >>
                       \in MatchingImages
  BY DEF UpToDate
<1>5. w \notin OptOut /\ Want(w) # None /\ FreshPod(w).rev = Want(w)
      /\ FreshPod(w).ver = istiod[Want(w)]
  BY DEF FreshPod, Want, LabelOf, TagRev
<1>6. Want(w) \in Revisions
  BY <1>t, <1>5, WantType
<1>7. getIstioProxyImage(FreshPod(w)) = Current(configMaps[Want(w)]).image
  BY <1>5, <1>6 DEF getIstioProxyImage, AtRest, Current
<1> QED
  BY <1>4, <1>5, <1>7 DEF Fine, FinePod, Wanted

\* On events alone, across failing List calls, conflicts and crashes, fortsa
\* does not come to rest while a pod has another sidecar than the one Istio
\* would give it now, provided nothing makes a reconcile drop a workload and
\* --istiod-config-read-delay covers istiod's lag together with a cache's
\* (Reconcile, ScanOutdatedPods, annotateWorkloadsWithDelay).
THEOREM RestsUpToDate ==
    ASSUME Undisturbed
    PROVE  Spec => []RestIsUpToDate
<1>1. RestInvariant /\ [Next]_vars => RestInvariant'
  BY BackdropStep, CalmOKStep DEF RestInvariant
<1> QED
  BY <1>1, InitRest, RestImplies, PTL DEF Spec
=============================================================================
