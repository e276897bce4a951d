---------------------------- MODULE IstioCluster ----------------------------
(***************************************************************************)
(* What fortsa watches and acts on, modelled from how fortsa uses it: the  *)
(* istio-sidecar-injector ConfigMap of every revision, the                 *)
(* istio-revision-tag-* MutatingWebhookConfigurations, the namespaces and  *)
(* their labels, istiod (which serves a ConfigMap some time after it       *)
(* changed), the workloads with their restartedAt annotation and the pods. *)
(*                                                                         *)
(* Second half: the informer caches the controller-runtime client reads    *)
(* from.  Every Get and List of fortsa is a read of such a cache, which    *)
(* follows the API server with a delay; only Patch goes to the server.     *)
(*                                                                         *)
(* ConfigMaps, tag MWCs and namespaces are kept as the sequence of the     *)
(* versions they went through, so that a cache is a cursor into it and a   *)
(* pod can remember which version it was injected from.                    *)
(***************************************************************************)
EXTENDS Integers, Sequences, ImageRef

CONSTANTS
    Revisions,      \* Istio revisions, one sidecar-injector ConfigMap each
    Tags,           \* revision tags, one MutatingWebhookConfiguration each
    Default,        \* the label "default"
    Namespaces,
    Workloads,      \* Deployments, StatefulSets and DaemonSets
    Pods,           \* pod slots; a slot is refilled by a new pod
    NamespaceOf,    \* [Workloads -> Namespaces]
    NameOf,         \* the name of a workload inside its namespace
    OwnerOf,        \* [Pods -> Workloads], what the owner references resolve to
    TemplateRev,    \* istio.io/rev of the workload's pod template, or None
    OptOut,         \* workloads with sidecar.istio.io/inject=false
    Images,         \* image references, see ImageRef
    NamespaceLabels,\* label settings a namespace may be given
    InitialImage,   \* [Revisions -> Images]
    InitialTag,     \* [Tags -> Revisions]
    InitialLabels,  \* [Namespaces -> NamespaceLabels]
    InitialPods,    \* the slots that hold a pod at first
    None,           \* no label, no revision
    Second,         \* clock ticks per second
    IstiodLag,      \* istiod serves a changed ConfigMap after less than this
    InformerLag,    \* a cache shows a change after less than this
    RolloutLag,     \* a rollout has replaced every pod after less than this
    MaxTime,        \* the clock stops here; stands for every later instant
    Horizon,        \* configuration changes happen up to here
    MaxConfigs,     \* bound: ConfigMap updates
    MaxRetags,      \* bound: tag moves and removals
    MaxRelabels,    \* bound: namespace updates
    MaxEvictions    \* bound: pods created by something other than fortsa

Labels     == Revisions \cup Tags
Injections == {"unset", "enabled", "disabled"}

ASSUME LabelAssumption == Default \in Labels /\ None \notin Labels

ASSUME TopologyAssumption ==
    /\ NamespaceOf \in [Workloads -> Namespaces]
    /\ OwnerOf \in [Pods -> Workloads]
    /\ TemplateRev \in [Workloads -> Labels \cup {None}]
    /\ OptOut \subseteq Workloads

ASSUME InitialAssumption ==
    /\ NamespaceLabels \subseteq [rev : Labels \cup {None}, injection : Injections]
    /\ InitialImage \in [Revisions -> Images]
    /\ InitialTag \in [Tags -> Revisions]
    /\ InitialLabels \in [Namespaces -> NamespaceLabels]
    /\ InitialPods \subseteq Pods

\* A container always has an image.
ASSUME ImageAssumption == NoImage \notin Images

ASSUME SecondAssumption == Second \in Nat \ {0}

ASSUME LagAssumption ==
    IstiodLag \in Nat \ {0} /\ InformerLag \in Nat \ {0} /\ RolloutLag \in Nat \ {0}

ASSUME BoundAssumption ==
    /\ MaxTime \in Nat /\ Second <= MaxTime /\ Horizon \in Nat
    /\ MaxConfigs \in Nat /\ MaxRetags \in Nat
    /\ MaxRelabels \in Nat /\ MaxEvictions \in Nat

VARIABLES
    now,            \* real time, in ticks
    configMaps,     \* revision -> versions [image, at]
    tagMWCs,        \* tag -> versions [rev, at], rev None while it has no MWC
    namespaces,     \* namespace -> versions [rev, injection, at]
    istiod,         \* revision -> ConfigMap version istiod injects from
    restartedAt,    \* workload -> restartedAt of the pod template, 0 if absent
    patchedAt,      \* workload -> when restartedAt last changed
    pods,           \* slot -> pod, NoPod when the slot is empty
    evictions       \* pods created so far by something other than a rollout

clusterVars == << now, configMaps, tagMWCs, namespaces, istiod, restartedAt,
                  patchedAt, pods, evictions >>

VARIABLES
    cmSeen,         \* revision -> ConfigMap version in the cache
    tagSeen,        \* tag -> MWC version in the cache
    nsSeen,         \* namespace -> version in the cache
    wlSeen,         \* workload -> restartedAt in the cache
    podSeen         \* slot -> pod in the cache

cacheVars == << cmSeen, tagSeen, nsSeen, wlSeen, podSeen >>

Current(versions) == versions[Len(versions)]

\* Kubernetes timestamps (creationTimestamp, managedFields, RFC 3339) have
\* whole seconds.  Clock values start at Second, so that 0 is Go's zero time.
Trunc(t) == t - (t % Second)

-----------------------------------------------------------------------------
(* Injection, as Istio does it when a pod is created.                      *)

\* The revision or tag that selects the injector of a workload's pods.
SelectedLabel(w, labels) ==
    IF TemplateRev[w] # None THEN TemplateRev[w]
    ELSE IF labels.rev # None THEN labels.rev
    ELSE IF labels.injection = "enabled" THEN Default
    ELSE None

\* The revision that injects under a label: the one of the tag's MWC, tagRev,
\* or, where no MWC of that tag exists, the revision of that name.
RevisionBehind(label, tagRev) ==
    IF tagRev # None THEN tagRev
    ELSE IF label \in Revisions THEN label
    ELSE None

NoPod == [born |-> 0, label |-> None, tagVer |-> 0, rev |-> None, ver |-> 0,
          stamp |-> 0]

\* A pod of workload w created now.  ver and tagVer say which ConfigMap and
\* which tag MWC it was injected from; rev = None means no sidecar.
FreshPod(w) ==
    LET label    == SelectedLabel(w, Current(namespaces[NamespaceOf[w]]))
        tagVer   == IF label \in Tags THEN Len(tagMWCs[label]) ELSE 0
        tagRev   == IF label \in Tags THEN Current(tagMWCs[label]).rev ELSE None
        rev      == RevisionBehind(label, tagRev)
        injected == rev # None /\ w \notin OptOut
    IN  [born   |-> now,
         label  |-> label,
         tagVer |-> tagVer,
         rev    |-> IF injected THEN rev ELSE None,
         ver    |-> IF injected THEN istiod[rev] ELSE 0,
         stamp  |-> restartedAt[w]]

\* The istio-proxy image of a pod, NoImage when it has no sidecar.
getIstioProxyImage(pod) ==
    IF pod.rev = None THEN NoImage ELSE configMaps[pod.rev][pod.ver].image

-----------------------------------------------------------------------------
ClusterInit ==
    /\ now = Second
    /\ configMaps = [r \in Revisions |-> << [image |-> InitialImage[r], at |-> Second] >>]
    /\ tagMWCs = [t \in Tags |-> << [rev |-> InitialTag[t], at |-> Second] >>]
    /\ namespaces = [n \in Namespaces |->
          << [rev |-> InitialLabels[n].rev,
              injection |-> InitialLabels[n].injection, at |-> Second] >>]
    /\ istiod = [r \in Revisions |-> 1]
    /\ restartedAt = [w \in Workloads |-> 0]
    /\ patchedAt = [w \in Workloads |-> 0]
    /\ evictions = 0
    /\ pods = [p \in Pods |-> IF p \in InitialPods THEN FreshPod(OwnerOf[p]) ELSE NoPod]

CacheInit ==
    /\ cmSeen = [r \in Revisions |-> Len(configMaps[r])]
    /\ tagSeen = [t \in Tags |-> Len(tagMWCs[t])]
    /\ nsSeen = [n \in Namespaces |-> Len(namespaces[n])]
    /\ wlSeen = restartedAt
    /\ podSeen = pods

\* istioctl upgrade, helm upgrade: a new injector ConfigMap for revision r.
UpdateConfigMap(r) ==
    /\ now <= Horizon
    /\ Len(configMaps[r]) <= MaxConfigs
    /\ \E i \in Images :
          /\ i # Current(configMaps[r]).image
          /\ configMaps' = [configMaps EXCEPT
                ![r] = Append(@, [image |-> i, at |-> now])]
    /\ UNCHANGED << now, tagMWCs, namespaces, istiod, restartedAt, patchedAt,
                    pods, evictions >>

\* istiod loads the next version of its ConfigMap.
IstiodReload(r) ==
    /\ istiod[r] < Len(configMaps[r])
    /\ istiod' = [istiod EXCEPT ![r] = @ + 1]
    /\ UNCHANGED << now, configMaps, tagMWCs, namespaces, restartedAt,
                    patchedAt, pods, evictions >>

\* istioctl tag set t --revision r, or istioctl tag remove t for None.
RetagMWC(t, r) ==
    /\ now <= Horizon
    /\ Len(tagMWCs[t]) <= MaxRetags
    /\ r # Current(tagMWCs[t]).rev
    /\ tagMWCs' = [tagMWCs EXCEPT ![t] = Append(@, [rev |-> r, at |-> now])]
    /\ UNCHANGED << now, configMaps, namespaces, istiod, restartedAt,
                    patchedAt, pods, evictions >>

\* kubectl label namespace n; giving the labels it has is any other update.
RelabelNamespace(n) ==
    /\ now <= Horizon
    /\ Len(namespaces[n]) <= MaxRelabels
    /\ \E l \in NamespaceLabels :
          namespaces' = [namespaces EXCEPT
             ![n] = Append(@, [rev |-> l.rev, injection |-> l.injection,
                               at |-> now])]
    /\ UNCHANGED << now, configMaps, tagMWCs, istiod, restartedAt, patchedAt,
                    pods, evictions >>

\* A pod is created for a reason of its own: evicted, rescheduled, scaled up.
EvictPod(p) ==
    /\ evictions < MaxEvictions
    /\ pods' = [pods EXCEPT ![p] = FreshPod(OwnerOf[p])]
    /\ evictions' = evictions + 1
    /\ UNCHANGED << now, configMaps, tagMWCs, namespaces, istiod, restartedAt,
                    patchedAt >>

\* The workload's controller replaces a pod of an older pod template.
RollPod(p) ==
    /\ pods[p] # NoPod
    /\ pods[p].stamp # restartedAt[OwnerOf[p]]
    /\ pods' = [pods EXCEPT ![p] = FreshPod(OwnerOf[p])]
    /\ UNCHANGED << now, configMaps, tagMWCs, namespaces, istiod, restartedAt,
                    patchedAt, evictions >>

-----------------------------------------------------------------------------
(* Deliveries to the caches.                                               *)

ShowConfigMap(r) ==
    /\ cmSeen[r] < Len(configMaps[r])
    /\ cmSeen' = [cmSeen EXCEPT ![r] = @ + 1]
    /\ UNCHANGED << tagSeen, nsSeen, wlSeen, podSeen >>

ShowTag(t) ==
    /\ tagSeen[t] < Len(tagMWCs[t])
    /\ tagSeen' = [tagSeen EXCEPT ![t] = @ + 1]
    /\ UNCHANGED << cmSeen, nsSeen, wlSeen, podSeen >>

ShowNamespace(n) ==
    /\ nsSeen[n] < Len(namespaces[n])
    /\ nsSeen' = [nsSeen EXCEPT ![n] = @ + 1]
    /\ UNCHANGED << cmSeen, tagSeen, wlSeen, podSeen >>

ShowWorkload(w) ==
    /\ wlSeen[w] # restartedAt[w]
    /\ wlSeen' = [wlSeen EXCEPT ![w] = restartedAt[w]]
    /\ UNCHANGED << cmSeen, tagSeen, nsSeen, podSeen >>

ShowPod(p) ==
    /\ podSeen[p] # pods[p]
    /\ podSeen' = [podSeen EXCEPT ![p] = pods[p]]
    /\ UNCHANGED << cmSeen, tagSeen, nsSeen, wlSeen >>

\* A starting controller lists everything (WaitForCacheSync).
ShowAll ==
    /\ cmSeen' = [r \in Revisions |-> Len(configMaps[r])]
    /\ tagSeen' = [t \in Tags |-> Len(tagMWCs[t])]
    /\ nsSeen' = [n \in Namespaces |-> Len(namespaces[n])]
    /\ wlSeen' = restartedAt
    /\ podSeen' = pods

-----------------------------------------------------------------------------
(* Time.                                                                   *)

NextInstant == IF now < MaxTime THEN now + 1 ELSE now

\* At instant t istiod serves every ConfigMap version older than IstiodLag ...
IstiodOnTime(t) ==
    \A r \in Revisions : \A v \in 1 .. Len(configMaps[r]) :
        configMaps[r][v].at + IstiodLag <= t => istiod[r] >= v

\* ... every rollout older than RolloutLag is done ...
RolloutsOnTime(t) ==
    \A p \in Pods :
        (pods[p] # NoPod /\ patchedAt[OwnerOf[p]] + RolloutLag <= t)
        => pods[p].stamp = restartedAt[OwnerOf[p]]

\* ... and the caches show every change older than InformerLag.
CachesOnTime(t) ==
    /\ \A r \in Revisions : \A v \in 1 .. Len(configMaps[r]) :
          configMaps[r][v].at + InformerLag <= t => cmSeen[r] >= v
    /\ \A g \in Tags : \A v \in 1 .. Len(tagMWCs[g]) :
          tagMWCs[g][v].at + InformerLag <= t => tagSeen[g] >= v
    /\ \A n \in Namespaces : \A v \in 1 .. Len(namespaces[n]) :
          namespaces[n][v].at + InformerLag <= t => nsSeen[n] >= v
    /\ \A w \in Workloads :
          patchedAt[w] + InformerLag <= t => wlSeen[w] = restartedAt[w]
    /\ \A p \in Pods : pods[p].born + InformerLag <= t => podSeen[p] = pods[p]
=============================================================================
