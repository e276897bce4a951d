------------------------- MODULE IstioChangeProofs -------------------------
(***************************************************************************)
(* Proofs, for all values of the constants, that the controller keeps its  *)
(* types and that the skip by creation time is safe.                       *)
(***************************************************************************)
EXTENDS IstioChangeProperties, TLAPS

\* The part of the invariant that types alone depend on.
TypeInvariant == TypeOK /\ CursorsInRange /\ WorkerOK

-----------------------------------------------------------------------------
(* Helpers of the model.                                                   *)

\* Trunc drops less than a second (RFC 3339 and metav1.Time).
LEMMA TruncFacts ==
    ASSUME NEW t \in Nat
    PROVE  Trunc(t) \in Nat /\ Trunc(t) <= t /\ t < Trunc(t) + Second
BY SecondAssumption DEF Trunc

\* Reading a version of a history, and adding one.
LEMMA VersionType ==
    ASSUME NEW D, NEW S, NEW h \in [D -> Seq(S)], NEW d \in D, NEW i \in 1 .. Len(h[d])
    PROVE  h[d][i] \in S
<1>1. h[d] \in Seq(S)
  OBVIOUS
<1> QED
  BY <1>1

\* The number of versions of an object is a natural number.
LEMMA LenType ==
    ASSUME NEW D, NEW S, NEW h \in [D -> Seq(S)], NEW d \in D
    PROVE  Len(h[d]) \in Nat
<1>1. h[d] \in Seq(S)
  OBVIOUS
<1> QED
  BY <1>1

\* Appending a version keeps the others and makes it the last one.
LEMMA AppendVersion ==
    ASSUME NEW D, NEW S, NEW h \in [D -> Seq(S)], NEW d \in D, NEW e \in S,
           NEW g, g = [h EXCEPT ![d] = Append(@, e)]
    PROVE  /\ g \in [D -> Seq(S)]
           /\ Len(g[d]) = Len(h[d]) + 1
           /\ g[d][Len(h[d]) + 1] = e
           /\ \A x \in D : x # d => g[x] = h[x]
           /\ \A x \in D : /\ Len(g[x]) >= Len(h[x])
                           /\ \A v \in 1 .. Len(h[x]) : g[x][v] = h[x][v]
<1>1. h[d] \in Seq(S)
  OBVIOUS
<1>2. Append(h[d], e) \in Seq(S)
  BY <1>1
<1>3. g[d] = Append(h[d], e)
  OBVIOUS
<1>4. Len(g[d]) = Len(h[d]) + 1
  BY <1>1, <1>3
<1>5. g[d][Len(h[d]) + 1] = e
  BY <1>1, <1>3
<1>6. \A v \in 1 .. Len(h[d]) : g[d][v] = h[d][v]
  BY <1>1, <1>3
<1>7. \A x \in D : x # d => g[x] = h[x]
  OBVIOUS
<1>8. g \in [D -> Seq(S)]
  BY <1>2
<1>9. ASSUME NEW x \in D
      PROVE  /\ Len(g[x]) >= Len(h[x])
             /\ \A v \in 1 .. Len(h[x]) : g[x][v] = h[x][v]
  <2>1. Len(h[x]) \in Nat
    BY LenType
  <2> QED BY <1>4, <1>6, <1>7, <2>1
<1> QED
  BY <1>4, <1>5, <1>7, <1>8, <1>9

\* The current version is a version.
LEMMA CurrentType ==
    ASSUME NEW D, NEW S, NEW h \in [D -> Seq(S)], NEW d \in D, NEW i \in 1 .. Len(h[d])
    PROVE  Current(h[d]) \in S
<1>1. h[d] \in Seq(S) /\ Len(h[d]) \in 1 .. Len(h[d])
  OBVIOUS
<1> QED
  BY <1>1, VersionType DEF Current

\* The label that selects an injector is a label or None.
LEMMA SelectedLabelType ==
    ASSUME NEW w \in Workloads,
           NEW l \in NamespaceVersions
    PROVE  SelectedLabel(w, l) \in Labels \cup {None}
BY LabelAssumption, TopologyAssumption DEF SelectedLabel, NamespaceVersions

\* The label read by the scanner is a label or None.
LEMMA LabelReadType ==
    ASSUME ConfigTypeOK, CursorsInRange, NEW w \in Workloads
    PROVE  getIstioRevFromWorkloadOrNamespace(w) \in Labels \cup {None}
<1> DEFINE n == NamespaceOf[w]
<1>1. n \in Namespaces
  BY TopologyAssumption
<1>2. nsSeen[n] \in 1 .. Len(namespaces[n])
  BY <1>1 DEF CursorsInRange
<1>3. namespaces \in [Namespaces -> Seq(NamespaceVersions)]
  BY DEF ConfigTypeOK
<1>4. namespaces[n][nsSeen[n]] \in NamespaceVersions
  BY <1>1, <1>2, <1>3, VersionType
<1> QED
  BY <1>4, LabelAssumption, TopologyAssumption
  DEF getIstioRevFromWorkloadOrNamespace, NamespaceVersions

\* What FreshPod makes of the current configuration.
LEMMA FreshPodFields ==
    ASSUME ConfigTypeOK, CursorsInRange, NEW w \in Workloads
    PROVE  LET pod == FreshPod(w)
           IN  /\ pod \in PodRecords
               /\ pod.born = now
               /\ pod.label \in Tags => pod.tagVer = Len(tagMWCs[pod.label])
               /\ pod.rev # None => pod.rev \in Revisions /\ pod.ver = istiod[pod.rev]
               /\ w \notin OptOut =>
                     pod.rev = RevisionBehind(pod.label,
                                  IF pod.label \in Tags
                                  THEN tagMWCs[pod.label][Len(tagMWCs[pod.label])].rev
                                  ELSE None)
<1> DEFINE n        == NamespaceOf[w]
           label    == SelectedLabel(w, Current(namespaces[n]))
           tagVer   == IF label \in Tags THEN Len(tagMWCs[label]) ELSE 0
           tagRev   == IF label \in Tags THEN Current(tagMWCs[label]).rev ELSE None
           rev      == RevisionBehind(label, tagRev)
           injected == rev # None /\ w \notin OptOut
           pod      == [born |-> now, label |-> label, tagVer |-> tagVer,
                        rev |-> IF injected THEN rev ELSE None,
                        ver |-> IF injected THEN istiod[rev] ELSE 0,
                        stamp |-> restartedAt[w]]
<1>1. FreshPod(w) = pod
  BY DEF FreshPod
<1>2. n \in Namespaces
  BY TopologyAssumption
<1>3. Current(namespaces[n]) \in NamespaceVersions
  <2>1. nsSeen[n] \in 1 .. Len(namespaces[n])
    BY <1>2 DEF CursorsInRange
  <2>2. namespaces \in [Namespaces -> Seq(NamespaceVersions)]
    BY DEF ConfigTypeOK
  <2> QED BY <1>2, <2>1, <2>2, CurrentType
<1>4. label \in Labels \cup {None}
  BY <1>3, SelectedLabelType
<1>5. tagVer \in Nat
  <2>1. tagMWCs \in [Tags -> Seq(TagVersions)]
    BY DEF ConfigTypeOK
  <2>2. \A t \in Tags : Len(tagMWCs[t]) \in Nat
    BY <2>1
  <2> QED BY <2>2
<1>6. rev # None => rev \in Revisions
  <2>1. CASE label \in Tags
    <3>1. tagSeen[label] \in 1 .. Len(tagMWCs[label])
      BY <2>1 DEF CursorsInRange
    <3>2. tagMWCs \in [Tags -> Seq(TagVersions)]
      BY DEF ConfigTypeOK
    <3>3. Current(tagMWCs[label]) \in TagVersions
      BY <2>1, <3>1, <3>2, CurrentType
    <3> QED BY <2>1, <3>3 DEF TagVersions, RevisionBehind
  <2>2. CASE label \notin Tags
    BY <2>2 DEF RevisionBehind
  <2> QED BY <2>1, <2>2
<1>7. rev # None => istiod[rev] \in Nat
  BY <1>6 DEF ConfigTypeOK
<1>8. None \notin Revisions
  BY LabelAssumption DEF Labels
<1>9. pod \in PodRecords
  <2>1. now \in Nat /\ restartedAt[w] \in Nat
    BY DEF ConfigTypeOK
  <2> HIDE DEF label, tagVer, tagRev, rev
  <2> QED BY <1>4, <1>5, <1>6, <1>7, <2>1 DEF PodRecords
<1>10. rev = RevisionBehind(label, IF label \in Tags
                                   THEN tagMWCs[label][Len(tagMWCs[label])].rev ELSE None)
  BY DEF Current
<1> HIDE DEF label, rev
<1>12. /\ pod.born = now /\ pod.label = label
       /\ pod.label \in Tags => pod.tagVer = Len(tagMWCs[pod.label])
  OBVIOUS
<1>13. pod.rev # None =>
          /\ pod.rev = rev /\ pod.rev \in Revisions
          /\ pod.ver = istiod[pod.rev]
  BY <1>6
<1>14. w \notin OptOut => pod.rev = rev
  OBVIOUS
<1> HIDE DEF pod
<1> QED
  BY <1>1, <1>9, <1>10, <1>12, <1>13, <1>14

-----------------------------------------------------------------------------
(* Type correctness.  Three frames: a step of the cluster leaves caches and *)
(* controller alone, a delivery leaves cluster and worker alone, a step of  *)
(* the worker leaves cluster and caches alone.                             *)

\* A step of the cluster keeps the types of caches, scan and controller.
LEMMA ClusterFrame ==
    ASSUME TypeInvariant, UNCHANGED << cacheVars, controllerVars >>,
           ClusterTypeOK', CursorsInRange'
    PROVE  TypeInvariant'
<1> USE DEF TypeInvariant, TypeOK, cacheVars, controllerVars, workVars, configVars,
            scanVars, annotatorVars, queueVars, faultVars, historyVars, baseVars,
            scannedVars
<1>1. CacheTypeOK'
  BY DEF CacheTypeOK
<1>2. ScanTypeOK'
  BY DEF ScanTypeOK
<1>3. ControllerTypeOK'
  BY DEF ControllerTypeOK
<1>4. WorkerOK'
  BY DEF WorkerOK
<1> QED
  BY <1>1, <1>2, <1>3, <1>4

\* A delivery to a cache keeps the types of cluster, scan and controller.
LEMMA CacheFrame ==
    ASSUME TypeInvariant, UNCHANGED unwatched, CacheTypeOK', CursorsInRange',
           pending' \subseteq Requests
    PROVE  TypeInvariant'
<1> USE DEF TypeInvariant, TypeOK, clusterVars, unwatched, workVars, configVars,
            scanVars, annotatorVars, faultVars, historyVars, baseVars, scannedVars
<1>1. ClusterTypeOK'
  BY DEF ClusterTypeOK, ConfigTypeOK
<1>2. ScanTypeOK'
  BY DEF ScanTypeOK
<1>3. ControllerTypeOK'
  BY DEF ControllerTypeOK
<1>4. WorkerOK'
  BY DEF WorkerOK
<1> QED
  BY <1>1, <1>2, <1>3, <1>4

\* A step of the worker keeps the types of cluster and caches.
LEMMA WorkerFrame ==
    ASSUME TypeInvariant, UNCHANGED << clusterVars, cacheVars >>,
           ScanTypeOK', ControllerTypeOK', WorkerOK'
    PROVE  TypeInvariant'
<1> USE DEF TypeInvariant, TypeOK, clusterVars, cacheVars
<1>1. ClusterTypeOK'
  BY DEF ClusterTypeOK, ConfigTypeOK
<1>2. CacheTypeOK'
  BY DEF CacheTypeOK
<1>3. CursorsInRange'
  BY DEF CursorsInRange
<1> QED
  BY <1>1, <1>2, <1>3

\* The state main starts from is well typed.
LEMMA InitTypes == Init => TypeInvariant
<1> SUFFICES ASSUME Init PROVE TypeInvariant
  OBVIOUS
<1> USE DEF Init, ClusterInit, CacheInit, ScanInit, AnnotatorInit
<1>1. \A r \in Revisions : configMaps[r] \in Seq(ConfigMapVersions) /\ Len(configMaps[r]) = 1
  BY InitialAssumption, SecondAssumption DEF ConfigMapVersions
<1>2. \A t \in Tags : tagMWCs[t] \in Seq(TagVersions) /\ Len(tagMWCs[t]) = 1
  BY InitialAssumption, SecondAssumption DEF TagVersions
<1>3. \A n \in Namespaces : namespaces[n] \in Seq(NamespaceVersions) /\ Len(namespaces[n]) = 1
  BY InitialAssumption, SecondAssumption DEF NamespaceVersions
<1>4. CursorsInRange
  BY <1>1, <1>2, <1>3 DEF CursorsInRange
<1>5. ConfigTypeOK
  BY <1>1, <1>2, <1>3, SecondAssumption DEF ConfigTypeOK
<1>6. \A w \in Workloads : FreshPod(w) \in PodRecords
  BY <1>4, <1>5, FreshPodFields
<1>7. NoPod \in PodRecords
  BY DEF NoPod, PodRecords
<1>8. pods \in [Pods -> PodRecords]
  BY <1>6, <1>7, TopologyAssumption
<1>9. ClusterTypeOK
  BY <1>5, <1>8, BoundAssumption DEF ClusterTypeOK
<1>10. CacheTypeOK
  <2>1. \A r \in Revisions : Len(configMaps[r]) \in Nat
    BY <1>1
  <2>2. \A t \in Tags : Len(tagMWCs[t]) \in Nat
    BY <1>2
  <2>3. \A n \in Namespaces : Len(namespaces[n]) \in Nat
    BY <1>3
  <2> QED BY <1>8, <2>1, <2>2, <2>3 DEF CacheTypeOK
<1>11. ScanTypeOK
  BY <1>7 DEF ScanTypeOK, patchConflictMaxRetries
<1>12. ControllerTypeOK
  BY ReconcilerAssumption DEF ControllerTypeOK, Locations, Requests
<1>13. WorkerOK
  BY DEF WorkerOK
<1> QED
  BY <1>4, <1>9, <1>10, <1>11, <1>12, <1>13 DEF TypeInvariant, TypeOK

\* Changes of ConfigMaps, tags, namespaces and pods keep the types.
LEMMA ClusterStepTypes == TypeInvariant /\ ClusterStep => TypeInvariant'
<1> SUFFICES ASSUME TypeInvariant, ClusterStep PROVE TypeInvariant'
  OBVIOUS
<1> USE DEF TypeInvariant, TypeOK
<1>0. UNCHANGED << cacheVars, controllerVars >>
  BY DEF ClusterStep
<1>c. UNCHANGED << cmSeen, tagSeen, nsSeen, wlSeen, podSeen >>
  BY <1>0 DEF cacheVars
<1>t. /\ ConfigTypeOK /\ ClusterTypeOK /\ now \in Nat
      /\ configMaps \in [Revisions -> Seq(ConfigMapVersions)]
      /\ tagMWCs \in [Tags -> Seq(TagVersions)]
      /\ namespaces \in [Namespaces -> Seq(NamespaceVersions)]
  BY DEF ClusterTypeOK, ConfigTypeOK
<1>1. ASSUME NEW r \in Revisions, UpdateConfigMap(r) PROVE TypeInvariant'
  <2>1. PICK i \in Images : configMaps' = [configMaps EXCEPT
                               ![r] = Append(@, [image |-> i, at |-> now])]
    BY <1>1 DEF UpdateConfigMap
  <2>2. [image |-> i, at |-> now] \in ConfigMapVersions
    BY <1>t DEF ConfigMapVersions
  <2>3. /\ configMaps' \in [Revisions -> Seq(ConfigMapVersions)]
        /\ \A q \in Revisions : Len(configMaps'[q]) >= Len(configMaps[q])
    BY <1>t, <2>1, <2>2, AppendVersion
  <2>4. ClusterTypeOK'
    BY <1>1, <2>3 DEF UpdateConfigMap, ClusterTypeOK, ConfigTypeOK
  <2>5. CursorsInRange'
    <3>1. \A q \in Revisions : Len(configMaps[q]) \in Nat /\ Len(configMaps'[q]) \in Nat
      BY <1>t, <2>3, LenType
    <3>2. UNCHANGED << istiod, tagMWCs, namespaces >>
      BY <1>1 DEF UpdateConfigMap
    <3> QED BY <1>c, <2>3, <3>1, <3>2 DEF CursorsInRange
  <2> QED BY <1>0, <2>4, <2>5, ClusterFrame
<1>2. ASSUME NEW r \in Revisions, IstiodReload(r) PROVE TypeInvariant'
  <2>1. ClusterTypeOK'
    BY <1>2 DEF IstiodReload, ClusterTypeOK, ConfigTypeOK
  <2>2. CursorsInRange'
    <3>1. Len(configMaps[r]) \in Nat
      BY <1>t
    <3> QED BY <1>2, <1>c, <1>t, <3>1 DEF IstiodReload, CursorsInRange, ConfigTypeOK
  <2> QED BY <1>0, <2>1, <2>2, ClusterFrame
<1>3. ASSUME NEW t \in Tags, NEW r \in Revisions \cup {None}, RetagMWC(t, r) PROVE TypeInvariant'
  <2>1. tagMWCs' = [tagMWCs EXCEPT ![t] = Append(@, [rev |-> r, at |-> now])]
    BY <1>3 DEF RetagMWC
  <2>2. [rev |-> r, at |-> now] \in TagVersions
    BY <1>t DEF TagVersions
  <2>3. /\ tagMWCs' \in [Tags -> Seq(TagVersions)]
        /\ \A q \in Tags : Len(tagMWCs'[q]) >= Len(tagMWCs[q])
    BY <1>t, <2>1, <2>2, AppendVersion
  <2>4. ClusterTypeOK'
    BY <1>3, <2>3 DEF RetagMWC, ClusterTypeOK, ConfigTypeOK
  <2>5. CursorsInRange'
    <3>1. \A q \in Tags : Len(tagMWCs[q]) \in Nat /\ Len(tagMWCs'[q]) \in Nat
      BY <1>t, <2>3, LenType
    <3>2. UNCHANGED << istiod, configMaps, namespaces >>
      BY <1>3 DEF RetagMWC
    <3> QED BY <1>c, <2>3, <3>1, <3>2 DEF CursorsInRange
  <2> QED BY <1>0, <2>4, <2>5, ClusterFrame
<1>4. ASSUME NEW n \in Namespaces, RelabelNamespace(n) PROVE TypeInvariant'
  <2>1. PICK l \in NamespaceLabels : namespaces' = [namespaces EXCEPT
           ![n] = Append(@, [rev |-> l.rev, injection |-> l.injection, at |-> now])]
    BY <1>4 DEF RelabelNamespace
  <2>2. [rev |-> l.rev, injection |-> l.injection, at |-> now] \in NamespaceVersions
    BY <1>t, InitialAssumption DEF NamespaceVersions
  <2>3. /\ namespaces' \in [Namespaces -> Seq(NamespaceVersions)]
        /\ \A q \in Namespaces : Len(namespaces'[q]) >= Len(namespaces[q])
    BY <1>t, <2>1, <2>2, AppendVersion
  <2>4. ClusterTypeOK'
    BY <1>4, <2>3 DEF RelabelNamespace, ClusterTypeOK, ConfigTypeOK
  <2>5. CursorsInRange'
    <3>1. \A q \in Namespaces : Len(namespaces[q]) \in Nat /\ Len(namespaces'[q]) \in Nat
      BY <1>t, <2>3, LenType
    <3>2. UNCHANGED << istiod, configMaps, tagMWCs >>
      BY <1>4 DEF RelabelNamespace
    <3> QED BY <1>c, <2>3, <3>1, <3>2 DEF CursorsInRange
  <2> QED BY <1>0, <2>4, <2>5, ClusterFrame
<1>5. ASSUME NEW p \in Pods, EvictPod(p) \/ RollPod(p) PROVE TypeInvariant'
  <2>1. OwnerOf[p] \in Workloads
    BY TopologyAssumption
  <2>2. FreshPod(OwnerOf[p]) \in PodRecords
    BY <1>t, <2>1, FreshPodFields
  <2>3. /\ pods' = [pods EXCEPT ![p] = FreshPod(OwnerOf[p])]
        /\ evictions' \in 0 .. MaxEvictions
        /\ UNCHANGED << now, configMaps, tagMWCs, namespaces, istiod, restartedAt, patchedAt >>
    BY <1>5, BoundAssumption DEF EvictPod, RollPod, ClusterTypeOK
  <2>4. ClusterTypeOK'
    BY <2>2, <2>3 DEF ClusterTypeOK, ConfigTypeOK
  <2>5. CursorsInRange'
    BY <1>c, <2>3 DEF CursorsInRange
  <2> QED BY <1>0, <2>4, <2>5, ClusterFrame
<1> QED
  BY <1>1, <1>2, <1>3, <1>4, <1>5 DEF ClusterStep

\* Watch events, expired backoffs and the ticker keep the types.
LEMMA DeliveryTypes == TypeInvariant /\ (Deliveries \/ PeriodicTick) => TypeInvariant'
<1> SUFFICES ASSUME TypeInvariant, Deliveries \/ PeriodicTick PROVE TypeInvariant'
  OBVIOUS
<1> USE DEF TypeInvariant, TypeOK
<1>t. /\ CacheTypeOK /\ CursorsInRange
      /\ configMaps \in [Revisions -> Seq(ConfigMapVersions)]
      /\ tagMWCs \in [Tags -> Seq(TagVersions)]
      /\ namespaces \in [Namespaces -> Seq(NamespaceVersions)]
      /\ restartedAt \in [Workloads -> Nat] /\ pods \in [Pods -> PodRecords]
      /\ pending \subseteq Requests /\ backoff \subseteq Requests
  BY DEF ClusterTypeOK, ConfigTypeOK, ControllerTypeOK
<1>l. /\ \A r \in Revisions : Len(configMaps[r]) \in Nat
      /\ \A t \in Tags : Len(tagMWCs[t]) \in Nat
      /\ \A n \in Namespaces : Len(namespaces[n]) \in Nat
  BY <1>t, LenType
<1>1. ASSUME NEW r \in Revisions, SyncConfigMap(r) PROVE TypeInvariant'
  <2>1. CacheTypeOK'
    BY <1>1, <1>t DEF SyncConfigMap, ShowConfigMap, CacheTypeOK
  <2>2. CursorsInRange'
    BY <1>1, <1>t, <1>l DEF SyncConfigMap, ShowConfigMap, CacheTypeOK, CursorsInRange,
       unwatched, clusterVars
  <2>3. pending' \subseteq Requests /\ UNCHANGED unwatched
    BY <1>1, <1>t DEF SyncConfigMap, Requests
  <2> QED BY <2>1, <2>2, <2>3, CacheFrame
<1>2. ASSUME NEW t \in Tags, SyncTag(t) PROVE TypeInvariant'
  <2>1. CacheTypeOK'
    BY <1>2, <1>t DEF SyncTag, ShowTag, CacheTypeOK
  <2>2. CursorsInRange'
    BY <1>2, <1>t, <1>l DEF SyncTag, ShowTag, CacheTypeOK, CursorsInRange,
       unwatched, clusterVars
  <2>3. pending' \subseteq Requests /\ UNCHANGED unwatched
    BY <1>2, <1>t DEF SyncTag, Requests
  <2> QED BY <2>1, <2>2, <2>3, CacheFrame
<1>3. ASSUME NEW n \in Namespaces, SyncNamespace(n) PROVE TypeInvariant'
  <2>1. CacheTypeOK'
    BY <1>3, <1>t DEF SyncNamespace, ShowNamespace, CacheTypeOK
  <2>2. CursorsInRange'
    BY <1>3, <1>t, <1>l DEF SyncNamespace, ShowNamespace, CacheTypeOK, CursorsInRange,
       unwatched, clusterVars
  <2>3. pending' \subseteq Requests /\ UNCHANGED unwatched
    BY <1>3, <1>t DEF SyncNamespace, Requests
  <2> QED BY <2>1, <2>2, <2>3, CacheFrame
<1>4. ASSUME NEW w \in Workloads, SyncWorkload(w) PROVE TypeInvariant'
  <2>1. CacheTypeOK'
    BY <1>4, <1>t DEF SyncWorkload, ShowWorkload, CacheTypeOK
  <2>2. CursorsInRange'
    BY <1>4, <1>t DEF SyncWorkload, ShowWorkload, CursorsInRange, unwatched, clusterVars
  <2>3. pending' \subseteq Requests /\ UNCHANGED unwatched
    BY <1>4, <1>t DEF SyncWorkload
  <2> QED BY <2>1, <2>2, <2>3, CacheFrame
<1>5. ASSUME NEW p \in Pods, SyncPod(p) PROVE TypeInvariant'
  <2>1. CacheTypeOK'
    BY <1>5, <1>t DEF SyncPod, ShowPod, CacheTypeOK
  <2>2. CursorsInRange'
    BY <1>5, <1>t DEF SyncPod, ShowPod, CursorsInRange, unwatched, clusterVars
  <2>3. pending' \subseteq Requests /\ UNCHANGED unwatched
    BY <1>5, <1>t DEF SyncPod
  <2> QED BY <2>1, <2>2, <2>3, CacheFrame
<1>6. ASSUME NEW q \in Requests, BackoffExpires(q) PROVE TypeInvariant'
  <2>1. UNCHANGED << clusterVars, cacheVars >>
    BY <1>6 DEF BackoffExpires
  <2>2. ScanTypeOK'
    BY <1>6 DEF BackoffExpires, workVars, configVars, scanVars, annotatorVars, ScanTypeOK
  <2>3. ControllerTypeOK'
    BY <1>6 DEF BackoffExpires, faultVars, historyVars, baseVars, scannedVars, ControllerTypeOK
  <2>4. WorkerOK'
    BY <1>6 DEF BackoffExpires, workVars, scanVars, WorkerOK
  <2> QED BY <2>1, <2>2, <2>3, <2>4, WorkerFrame
<1>7. ASSUME PeriodicTick PROVE TypeInvariant'
  <2>1. UNCHANGED << cmSeen, tagSeen, nsSeen, wlSeen, podSeen >> /\ UNCHANGED unwatched
    BY <1>7 DEF PeriodicTick, cacheVars
  <2>2. CacheTypeOK' /\ CursorsInRange'
    BY <2>1 DEF CacheTypeOK, CursorsInRange, unwatched, clusterVars
  <2>3. pending' \subseteq Requests
    BY <1>7, <1>t DEF PeriodicTick, Requests
  <2> QED BY <2>1, <2>2, <2>3, CacheFrame
<1> QED
  BY <1>1, <1>2, <1>3, <1>4, <1>5, <1>6, <1>7 DEF Deliveries

\* The clock keeps the types.
LEMMA TickTypes == TypeInvariant /\ Tick => TypeInvariant'
<1> SUFFICES ASSUME TypeInvariant, Tick PROVE TypeInvariant'
  OBVIOUS
<1> USE DEF TypeInvariant, TypeOK, Tick, cacheVars
<1>1. ClusterTypeOK'
  BY BoundAssumption DEF NextInstant, ClusterTypeOK, ConfigTypeOK
<1>2. CacheTypeOK' /\ CursorsInRange'
  BY DEF CacheTypeOK, CursorsInRange
<1>3. ScanTypeOK'
  BY DEF ScanTypeOK, workVars, configVars, scanVars, annotatorVars
<1>4. ControllerTypeOK'
  BY DEF ControllerTypeOK, queueVars, faultVars, historyVars, baseVars, scannedVars
<1>5. WorkerOK'
  BY DEF WorkerOK, workVars, scanVars, queueVars
<1> QED
  BY <1>1, <1>2, <1>3, <1>4, <1>5

\* The locals of a reconcile that ended are well typed.
LEMMA ResetTypes == ScanReset /\ AnnotatorReset => ScanTypeOK'
<1>1. NoPod \in PodRecords
  BY DEF NoPod, PodRecords
<1> QED
  BY <1>1 DEF ScanReset, AnnotatorReset, ScanTypeOK, patchConflictMaxRetries

\* Dequeue to ListPods, and the ends of a reconcile.
LEMMA ReconcileTypes ==
    TypeInvariant /\ (\/ \E q \in Requests : Dequeue(q)
                      \/ AwaitIstiodConfigReadDelay \/ ReadConfigMaps \/ ReadTags
                      \/ ListPods \/ ReadFails \/ WebhookPanics \/ Finish \/ Crash \/ Start)
    => TypeInvariant'
<1> SUFFICES ASSUME TypeInvariant,
                    \/ \E q \in Requests : Dequeue(q)
                    \/ AwaitIstiodConfigReadDelay \/ ReadConfigMaps \/ ReadTags
                    \/ ListPods \/ ReadFails \/ WebhookPanics \/ Finish \/ Crash \/ Start
             PROVE  TypeInvariant'
  OBVIOUS
<1> USE DEF TypeInvariant, TypeOK
<1>1. ASSUME NEW q \in Requests, Dequeue(q) PROVE TypeInvariant'
  <2> USE <1>1 DEF Dequeue
  <2>1. UNCHANGED << clusterVars, cacheVars >>
    OBVIOUS
  <2>2. ScanTypeOK'
    BY DEF ScanTypeOK, workVars, configVars, scanVars, annotatorVars
  <2>3. ControllerTypeOK'
    BY ScannerAssumption
    DEF ControllerTypeOK, Locations, faultVars, historyVars, baseVars, scannedVars
  <2>4. WorkerOK'
    BY DEF WorkerOK
  <2> QED BY <2>1, <2>2, <2>3, <2>4, WorkerFrame
<1>2. ASSUME AwaitIstiodConfigReadDelay PROVE TypeInvariant'
  <2> USE <1>2 DEF AwaitIstiodConfigReadDelay
  <2>1. UNCHANGED << clusterVars, cacheVars >>
    OBVIOUS
  <2>2. ScanTypeOK'
    BY DEF ScanTypeOK, workVars, configVars, scanVars, annotatorVars
  <2>3. ControllerTypeOK'
    BY DEF ControllerTypeOK, Locations, queueVars, faultVars, historyVars, baseVars, scannedVars
  <2>4. WorkerOK'
    BY DEF WorkerOK, queueVars
  <2> QED BY <2>1, <2>2, <2>3, <2>4, WorkerFrame
<1>3. ASSUME ReadConfigMaps PROVE TypeInvariant'
  <2> USE <1>3 DEF ReadConfigMaps
  <2>1. UNCHANGED << clusterVars, cacheVars >>
    OBVIOUS
  <2>2. \A r \in Revisions : Trunc(configMaps[r][cmSeen[r]].at) \in Nat
    <3> SUFFICES ASSUME NEW r \in Revisions
                 PROVE  Trunc(configMaps[r][cmSeen[r]].at) \in Nat
      OBVIOUS
    <3>1. configMaps \in [Revisions -> Seq(ConfigMapVersions)]
          /\ cmSeen[r] \in 1 .. Len(configMaps[r])
      BY DEF ClusterTypeOK, ConfigTypeOK, CursorsInRange
    <3>2. configMaps[r][cmSeen[r]] \in ConfigMapVersions
      BY <3>1, VersionType
    <3> QED BY <3>2, TruncFacts DEF ConfigMapVersions
  <2>3. ScanTypeOK'
    BY <2>2 DEF BuildLastModifiedByRevision, GetConfigMapLastModified, ScanTypeOK, scanVars, annotatorVars
  <2>4. ControllerTypeOK'
    BY DEF ControllerTypeOK, CacheTypeOK, Locations, queueVars, faultVars, scannedVars
  <2>5. WorkerOK'
    BY DEF WorkerOK, queueVars
  <2> QED BY <2>1, <2>3, <2>4, <2>5, WorkerFrame
<1>4. ASSUME ReadTags PROVE TypeInvariant'
  <2> USE <1>4 DEF ReadTags
  <2>1. UNCHANGED << clusterVars, cacheVars >>
    OBVIOUS
  <2>2. \A t \in Tags : /\ tagMWCs[t][tagSeen[t]].rev \in Revisions \cup {None}
                        /\ Trunc(tagMWCs[t][tagSeen[t]].at) \in Nat
    <3> SUFFICES ASSUME NEW t \in Tags
                 PROVE  /\ tagMWCs[t][tagSeen[t]].rev \in Revisions \cup {None}
                        /\ Trunc(tagMWCs[t][tagSeen[t]].at) \in Nat
      OBVIOUS
    <3>1. tagMWCs \in [Tags -> Seq(TagVersions)] /\ tagSeen[t] \in 1 .. Len(tagMWCs[t])
      BY DEF ClusterTypeOK, ConfigTypeOK, CursorsInRange
    <3>2. tagMWCs[t][tagSeen[t]] \in TagVersions
      BY <3>1, VersionType
    <3> QED BY <3>2, TruncFacts DEF TagVersions
  <2>3. ScanTypeOK'
    BY <2>2 DEF FetchTagToRevision, FetchLastModifiedByTag, getLastModified, ScanTypeOK, scanVars, annotatorVars
  <2>4. ControllerTypeOK'
    BY DEF ControllerTypeOK, CacheTypeOK, Locations, queueVars, faultVars, scannedVars
  <2>5. WorkerOK'
    BY DEF WorkerOK, queueVars
  <2> QED BY <2>1, <2>3, <2>4, <2>5, WorkerFrame
<1>5. ASSUME ListPods PROVE TypeInvariant'
  <2> USE <1>5 DEF ListPods
  <2>1. UNCHANGED << clusterVars, cacheVars >>
    OBVIOUS
  <2>2. ScanTypeOK'
    BY DEF listPods, ScanTypeOK, CacheTypeOK, configVars, annotatorVars
  <2>3. ControllerTypeOK'
    BY DEF ControllerTypeOK, CacheTypeOK, Locations, queueVars, faultVars, scannedVars
  <2>4. WorkerOK'
    BY DEF WorkerOK, queueVars
  <2> QED BY <2>1, <2>2, <2>3, <2>4, WorkerFrame
<1>6. ASSUME ReadFails \/ WebhookPanics PROVE TypeInvariant'
  <2> USE <1>6 DEF ReadFails, WebhookPanics, ReturnError, EndReconcile
  <2>1. UNCHANGED << clusterVars, cacheVars >>
    OBVIOUS
  <2>2. ScanTypeOK'
    BY ResetTypes
  <2>3. request \in Requests
    BY DEF WorkerOK
  <2>4. ControllerTypeOK'
    BY <2>3, ReconcilerAssumption DEF ControllerTypeOK, BaseReset, Locations, scannedVars
  <2>5. WorkerOK'
    BY DEF WorkerOK
  <2> QED BY <2>1, <2>2, <2>4, <2>5, WorkerFrame
<1>7. ASSUME Finish PROVE TypeInvariant'
  <2> USE <1>7 DEF Finish, EndReconcile
  <2>1. UNCHANGED << clusterVars, cacheVars >>
    OBVIOUS
  <2>2. ScanTypeOK'
    BY ResetTypes
  <2>3. /\ cmScanned' \in [Revisions -> Nat] /\ tagScanned' \in [Tags -> Nat]
        /\ nsScanned' \in [Namespaces -> Nat]
    BY DEF ControllerTypeOK
  <2>4. ControllerTypeOK'
    BY <2>3 DEF ControllerTypeOK, BaseReset, Locations, faultVars
  <2>5. WorkerOK'
    BY DEF WorkerOK
  <2> QED BY <2>1, <2>2, <2>4, <2>5, WorkerFrame
<1>8. ASSUME Crash PROVE TypeInvariant'
  <2> USE <1>8 DEF Crash
  <2>1. UNCHANGED << clusterVars, cacheVars >>
    OBVIOUS
  <2>2. ScanTypeOK'
    BY ResetTypes
  <2>3. ControllerTypeOK'
    BY ReconcilerAssumption DEF ControllerTypeOK, BaseReset, Locations, scannedVars
  <2>4. WorkerOK'
    BY DEF WorkerOK
  <2> QED BY <2>1, <2>2, <2>3, <2>4, WorkerFrame
<1>9. ASSUME Start PROVE TypeInvariant'
  <2> USE <1>9 DEF Start
  <2>t. /\ configMaps \in [Revisions -> Seq(ConfigMapVersions)]
        /\ tagMWCs \in [Tags -> Seq(TagVersions)]
        /\ namespaces \in [Namespaces -> Seq(NamespaceVersions)]
    BY DEF ClusterTypeOK, ConfigTypeOK
  <2>l. /\ \A r \in Revisions : Len(configMaps[r]) \in Nat
        /\ \A t \in Tags : Len(tagMWCs[t]) \in Nat
        /\ \A n \in Namespaces : Len(namespaces[n]) \in Nat
    BY <2>t, LenType
  <2>1. ClusterTypeOK'
    BY DEF ClusterTypeOK, ConfigTypeOK, clusterVars
  <2>2. CacheTypeOK'
    BY <2>l DEF ShowAll, CacheTypeOK, ClusterTypeOK, ConfigTypeOK
  <2>3. CursorsInRange'
    BY <2>l DEF ShowAll, CursorsInRange, clusterVars
  <2>4. ScanTypeOK'
    BY DEF ScanTypeOK, workVars, configVars, scanVars, annotatorVars
  <2>5. ControllerTypeOK'
    BY DEF ControllerTypeOK, Locations, Requests, faultVars, historyVars, baseVars, scannedVars
  <2>6. WorkerOK'
    BY DEF WorkerOK
  <2> QED BY <2>1, <2>2, <2>3, <2>4, <2>5, <2>6
<1> QED
  BY <1>1, <1>2, <1>3, <1>4, <1>5, <1>6, <1>7, <1>8, <1>9

\* Looking at the listed pods (ScanOutdatedPods).
LEMMA ScanTypes ==
    TypeInvariant /\ (\/ \E p \in Pods : ScanPod(p)
                      \/ CheckCandidate \/ ScanFails \/ ScanEnds)
    => TypeInvariant'
<1> SUFFICES ASSUME TypeInvariant,
                    \/ \E p \in Pods : ScanPod(p)
                    \/ CheckCandidate \/ ScanFails \/ ScanEnds
             PROVE  TypeInvariant'
  OBVIOUS
<1> USE DEF TypeInvariant, TypeOK
<1>0. /\ UNCHANGED << clusterVars, cacheVars, annotatorVars, queueVars, timer,
                      historyVars, readFaults, conflicts, crashes >>
  BY DEF ScanPod, CheckCandidate, ScanFails, ScanEnds, scanUnchanged
<1>c. pc' \in Locations /\ index' \in Nat /\ dropFaults' \in 0 .. MaxDropFaults
      => ControllerTypeOK'
  BY <1>0 DEF ControllerTypeOK, queueVars, historyVars, baseVars, scannedVars
<1>1. ASSUME NEW p \in Pods, ScanPod(p) PROVE TypeInvariant'
  <2>1. getIstioRevFromWorkloadOrNamespace(OwnerOf[p]) \in Labels \cup {None}
    BY TopologyAssumption, LabelReadType DEF ClusterTypeOK
  <2>2. ScanTypeOK'
    BY <1>0, <1>1, <2>1
    DEF ScanPod, PassOverPod, SelectPod, ScanTypeOK, configVars, annotatorVars
  <2>3. ControllerTypeOK'
    BY <1>1, <1>c DEF ScanPod, ControllerTypeOK, Locations
  <2>4. WorkerOK'
    <3>1. pc' = "check" => candidate' \in Pods /\ revOrTag' \in Labels
      BY <1>1, <2>1 DEF ScanPod, PassOverPod, SelectPod, PassedOver
    <3>2. request' \in Requests
      BY <1>0, <1>1 DEF ScanPod, WorkerOK, queueVars
    <3> QED BY <3>1, <3>2 DEF WorkerOK
  <2> QED BY <1>0, <2>2, <2>3, <2>4, WorkerFrame
<1>2. ASSUME CheckCandidate PROVE TypeInvariant'
  <2>1. candidate \in Pods
    BY <1>2 DEF CheckCandidate, WorkerOK
  <2>2. found' \in Seq(Workloads)
    <3>1. OwnerOf[candidate] \in Workloads /\ found \in Seq(Workloads)
      BY <2>1, TopologyAssumption DEF ScanTypeOK
    <3>2. Append(found, OwnerOf[candidate]) \in Seq(Workloads)
      BY <3>1
    <3> QED BY <1>2, <3>1, <3>2 DEF CheckCandidate, CheckPod
  <2>3. ScanTypeOK'
    BY <1>0, <1>2, <2>2 DEF CheckCandidate, CheckPod, ScanTypeOK, configVars, annotatorVars
  <2>4. ControllerTypeOK'
    BY <1>2, <1>c DEF CheckCandidate, ControllerTypeOK, Locations
  <2>5. WorkerOK'
    BY <1>0, <1>2 DEF CheckCandidate, WorkerOK, queueVars
  <2> QED BY <1>0, <2>3, <2>4, <2>5, WorkerFrame
<1>3. ASSUME ScanFails PROVE TypeInvariant'
  <2>1. ScanTypeOK'
    BY <1>0, <1>3
    DEF ScanFails, LookupFails, WebhookFails, ScanTypeOK, configVars, annotatorVars
  <2>2. ControllerTypeOK'
    BY <1>3, <1>c, ReconcilerAssumption DEF ScanFails, ControllerTypeOK, Locations
  <2>3. WorkerOK'
    BY <1>0, <1>3 DEF ScanFails, WorkerOK, queueVars
  <2> QED BY <1>0, <2>1, <2>2, <2>3, WorkerFrame
<1>4. ASSUME ScanEnds PROVE TypeInvariant'
  <2>1. ScanTypeOK'
    BY <1>0, <1>4 DEF ScanEnds, ScanTypeOK, configVars, scanVars, annotatorVars
  <2>2. ControllerTypeOK'
    BY <1>4, <1>c DEF ScanEnds, ControllerTypeOK, Locations
  <2>3. WorkerOK'
    BY <1>0, <1>4 DEF ScanEnds, WorkerOK, queueVars
  <2> QED BY <1>0, <2>1, <2>2, <2>3, WorkerFrame
<1> QED
  BY <1>1, <1>2, <1>3, <1>4

\* annotateWorkloadsWithDelay moves on within its types.
LEMMA NextWorkloadTypes ==
    ASSUME TypeInvariant, NextWorkload
    PROVE  index' \in Nat /\ timer' \in Nat /\ pc' \in {"pause", "annotate"}
<1>1. index \in Nat /\ RestartDelay \in Nat
  BY ReconcilerAssumption DEF TypeInvariant, TypeOK, ControllerTypeOK
<1> QED
  BY <1>1 DEF NextWorkload

\* Annotating the workloads that were found.
LEMMA AnnotateTypes ==
    TypeInvariant /\ (\/ Pause \/ SkipWorkload \/ StartPatch \/ PatchWorkload
                      \/ PatchConflicts \/ AnnotateFails)
    => TypeInvariant'
<1> SUFFICES ASSUME TypeInvariant,
                    \/ Pause \/ SkipWorkload \/ StartPatch \/ PatchWorkload
                    \/ PatchConflicts \/ AnnotateFails
             PROVE  TypeInvariant'
  OBVIOUS
<1> USE DEF TypeInvariant, TypeOK
<1>0. UNCHANGED << cacheVars, configVars, scanVars, queueVars, historyVars,
                   readFaults, crashes >>
  BY DEF Pause, SkipWorkload, StartPatch, PatchWorkload, PatchConflicts, AnnotateFails,
         annotateUnchanged
<1>1. /\ value' \in Nat /\ attempt' \in 0 .. (patchConflictMaxRetries - 1)
      /\ index' \in Nat /\ timer' \in Nat
      /\ pc \in {"annotate", "patch", "pause"} /\ pc' \in {"annotate", "patch", "pause"}
      /\ dropFaults' \in 0 .. MaxDropFaults /\ conflicts' \in 0 .. MaxConflicts
  <2>t. /\ now \in Nat /\ value \in Nat /\ attempt \in 0 .. (patchConflictMaxRetries - 1)
        /\ index \in Nat /\ timer \in Nat
        /\ dropFaults \in 0 .. MaxDropFaults /\ conflicts \in 0 .. MaxConflicts
        /\ MaxDropFaults \in Nat /\ MaxConflicts \in Nat
    BY ReconcilerAssumption DEF ClusterTypeOK, ConfigTypeOK, ScanTypeOK, ControllerTypeOK
  <2>1. CASE Pause
    BY <2>1, <2>t DEF Pause, annotatorVars
  <2>2. CASE SkipWorkload
    BY <2>2, <2>t, NextWorkloadTypes DEF SkipWorkload, annotatorVars
  <2>3. CASE StartPatch
    BY <2>3, <2>t, TruncFacts DEF StartPatch, ChooseValue, patchConflictMaxRetries
  <2>4. CASE PatchWorkload
    BY <2>4, <2>t, NextWorkloadTypes DEF PatchWorkload, AnnotatorReset, patchConflictMaxRetries
  <2>5. CASE PatchConflicts
    <3>1. CASE PatchConflict /\ UNCHANGED << pc, timer, index >>
      BY <2>5, <2>t, <3>1 DEF PatchConflicts, PatchConflict, patchConflictMaxRetries
    <3>2. CASE PatchGivesUp(TRUE) /\ NextWorkload
      BY <2>5, <2>t, <3>2, NextWorkloadTypes
      DEF PatchConflicts, PatchGivesUp, AnnotatorReset, patchConflictMaxRetries
    <3> QED BY <2>5, <3>1, <3>2 DEF PatchConflicts
  <2>6. CASE AnnotateFails
    BY <2>6, <2>t, NextWorkloadTypes
    DEF AnnotateFails, PatchGivesUp, AnnotatorReset, annotatorVars, patchConflictMaxRetries
  <2> QED BY <2>1, <2>2, <2>3, <2>4, <2>5, <2>6
<1>2. ScanTypeOK'
  BY <1>0, <1>1 DEF ScanTypeOK, configVars, scanVars
<1>3. ControllerTypeOK'
  BY <1>0, <1>1 DEF ControllerTypeOK, Locations, queueVars, historyVars, baseVars, scannedVars
<1>4. WorkerOK'
  BY <1>0, <1>1 DEF WorkerOK, queueVars
<1>5. CASE UNCHANGED clusterVars
  BY <1>0, <1>2, <1>3, <1>4, <1>5, WorkerFrame
<1>6. CASE PatchWorkload
  <2>1. UNCHANGED << now, configMaps, tagMWCs, namespaces, istiod, pods, evictions >>
    BY <1>6 DEF PatchWorkload, Patch
  <2>2. ClusterTypeOK'
    BY <1>6, <2>1 DEF PatchWorkload, Patch, ClusterTypeOK, ConfigTypeOK, ScanTypeOK
  <2>3. CacheTypeOK' /\ CursorsInRange'
    BY <1>0, <2>1 DEF CacheTypeOK, CursorsInRange, cacheVars
  <2> QED BY <1>2, <1>3, <1>4, <2>2, <2>3
<1> QED
  BY <1>5, <1>6 DEF Pause, SkipWorkload, StartPatch, PatchConflicts, AnnotateFails

\* One step, and stuttering.
LEMMA StepTypes == TypeInvariant /\ [Next]_vars => TypeInvariant'
<1> SUFFICES ASSUME TypeInvariant, [Next]_vars PROVE TypeInvariant'
  OBVIOUS
<1>1. CASE UNCHANGED vars
  <2> USE <1>1 DEF vars, TypeInvariant, TypeOK
  <2>1. ClusterTypeOK' /\ CacheTypeOK' /\ CursorsInRange'
    BY DEF ClusterTypeOK, ConfigTypeOK, CacheTypeOK, CursorsInRange, clusterVars, cacheVars
  <2>2. ScanTypeOK'
    BY DEF ScanTypeOK, workVars, configVars, scanVars, annotatorVars
  <2>3. ControllerTypeOK'
    BY DEF ControllerTypeOK, queueVars, faultVars, historyVars, baseVars, scannedVars
  <2>4. WorkerOK'
    BY DEF WorkerOK, queueVars, workVars, scanVars
  <2> QED BY <2>1, <2>2, <2>3, <2>4
<1>2. CASE Next
  BY <1>2, ClusterStepTypes, TickTypes, DeliveryTypes, ReconcileTypes, ScanTypes, AnnotateTypes
  DEF Next, Worker, Faults
<1> QED
  BY <1>1, <1>2

\* Every reachable state of the controller and the cluster is well typed; in
\* particular patchWithRetry sends at most patchConflictMaxRetries patches.
THEOREM TypeCorrect == Spec => []TypeOK
<1>1. Init => TypeInvariant
  BY InitTypes
<1>2. TypeInvariant /\ [Next]_vars => TypeInvariant'
  BY StepTypes
<1>3. TypeInvariant => TypeOK
  BY DEF TypeInvariant
<1> QED
  BY <1>1, <1>2, <1>3, PTL DEF Spec

-----------------------------------------------------------------------------
(* The skip by creation time.  SkipInvariant is preserved because every     *)
(* step only adds versions that are not older than any pod, and moves pods  *)
(* from the cluster to the cache and from there to the list of a scan.      *)

Inv == TypeOK /\ SkipInvariant

\* g continues the histories h with versions from instant t on.
Continues(D, h, g, t) ==
    \A d \in D :
        /\ Len(g[d]) >= Len(h[d])
        /\ \A v \in 1 .. Len(h[d]) : g[d][v] = h[d][v]
        /\ \A v \in 1 .. Len(g[d]) : v > Len(h[d]) => g[d][v].at = t

\* UpdateConfigMap and RetagMWC append to one history.
LEMMA AppendContinues ==
    ASSUME NEW D, NEW S, NEW h \in [D -> Seq(S)], NEW d \in D, NEW e \in S,
           NEW g, g = [h EXCEPT ![d] = Append(@, e)]
    PROVE  Continues(D, h, g, e.at)
<1>1. /\ Len(g[d]) = Len(h[d]) + 1
      /\ g[d][Len(h[d]) + 1] = e
      /\ \A x \in D : x # d => g[x] = h[x]
      /\ \A x \in D : /\ Len(g[x]) >= Len(h[x])
                      /\ \A v \in 1 .. Len(h[x]) : g[x][v] = h[x][v]
  BY AppendVersion
<1>2. ASSUME NEW x \in D, NEW v \in 1 .. Len(g[x]), v > Len(h[x])
      PROVE  g[x][v].at = e.at
  <2>1. Len(h[x]) \in Nat
    BY LenType
  <2>2. x = d /\ v = Len(h[d]) + 1
    BY <1>1, <1>2, <2>1
  <2> QED BY <1>1, <2>2
<1> QED
  BY <1>1, <1>2 DEF Continues

\* A history that does not change continues itself.
LEMMA SameContinues ==
    ASSUME NEW D, NEW S, NEW h \in [D -> Seq(S)], NEW t
    PROVE  Continues(D, h, h, t)
<1>1. \A d \in D : Len(h[d]) \in Nat
  BY LenType
<1> QED
  BY <1>1 DEF Continues

\* New versions are not older than a pod, so they do not concern it.
LEMMA SoundKept ==
    ASSUME NEW cms \in [Revisions -> Seq(ConfigMapVersions)],
           NEW tags \in [Tags -> Seq(TagVersions)],
           NEW cms2, NEW tags2, NEW t \in Nat, NEW t2 \in Nat, t <= t2,
           Continues(Revisions, cms, cms2, t), Continues(Tags, tags, tags2, t),
           NEW p \in Pods, NEW pod \in PodRecords, PodSound(p, pod, cms, tags, t)
    PROVE  PodSound(p, pod, cms2, tags2, t2)
<1>t. pod.born \in Nat /\ pod.born <= t /\ pod.ver \in Nat /\ pod.tagVer \in Nat
  BY DEF PodRecords, PodSound
<1>1. TagSound(pod, tags2)
  <2> SUFFICES ASSUME pod.label \in Tags
               PROVE  /\ pod.tagVer \in 1 .. Len(tags2[pod.label])
                      /\ \A v \in 1 .. Len(tags2[pod.label]) :
                            tags2[pod.label][v].at < pod.born => pod.tagVer >= v
    BY DEF TagSound
  <2> DEFINE l == pod.label
  <2>1. /\ Len(tags[l]) \in Nat /\ Len(tags2[l]) >= Len(tags[l])
        /\ \A v \in 1 .. Len(tags[l]) : tags2[l][v] = tags[l][v]
        /\ \A v \in 1 .. Len(tags2[l]) : v > Len(tags[l]) => tags2[l][v].at = t
    BY LenType DEF Continues
  <2>2. /\ pod.tagVer \in 1 .. Len(tags[l])
        /\ \A v \in 1 .. Len(tags[l]) : tags[l][v].at < pod.born => pod.tagVer >= v
    BY DEF PodSound, TagSound
  <2>3. pod.tagVer \in 1 .. Len(tags2[l])
    BY <2>1, <2>2
  <2>4. ASSUME NEW v \in 1 .. Len(tags2[l]), tags2[l][v].at < pod.born
        PROVE  pod.tagVer >= v
    <3>1. v \in 1 .. Len(tags[l])
      <4>1. v > Len(tags[l]) => tags2[l][v].at = t
        BY <2>1
      <4>2. ~(t < pod.born)
        BY <1>t
      <4>3. v \in Int /\ v >= 1 /\ ~(v > Len(tags[l]))
        BY <2>4, <4>1, <4>2
      <4> QED BY <2>1, <4>3
    <3> QED BY <2>1, <2>2, <2>4, <3>1
  <2> QED BY <2>3, <2>4
<1>2. SidecarSound(pod, cms2)
  <2> SUFFICES ASSUME pod.rev # None
               PROVE  /\ pod.ver \in 1 .. Len(cms2[pod.rev])
                      /\ \A v \in 1 .. Len(cms2[pod.rev]) :
                            cms2[pod.rev][v].at + IstiodLag <= pod.born => pod.ver >= v
    BY DEF SidecarSound
  <2> DEFINE r == pod.rev
  <2>0. r \in Revisions
    BY DEF PodRecords
  <2>1. /\ Len(cms[r]) \in Nat /\ Len(cms2[r]) >= Len(cms[r])
        /\ \A v \in 1 .. Len(cms[r]) : cms2[r][v] = cms[r][v]
        /\ \A v \in 1 .. Len(cms2[r]) : v > Len(cms[r]) => cms2[r][v].at = t
    BY <2>0, LenType DEF Continues
  <2>2. /\ pod.ver \in 1 .. Len(cms[r])
        /\ \A v \in 1 .. Len(cms[r]) :
              cms[r][v].at + IstiodLag <= pod.born => pod.ver >= v
    BY DEF PodSound, SidecarSound
  <2>3. pod.ver \in 1 .. Len(cms2[r])
    BY <2>1, <2>2
  <2>4. ASSUME NEW v \in 1 .. Len(cms2[r]), cms2[r][v].at + IstiodLag <= pod.born
        PROVE  pod.ver >= v
    <3>1. v \in 1 .. Len(cms[r])
      BY <1>t, <2>1, <2>4, LagAssumption
    <3> QED BY <2>1, <2>2, <2>4, <3>1
  <2> QED BY <2>3, <2>4
<1>3. pod.born <= t2
  BY <1>t
<1>4. OwnerOf[p] \notin OptOut =>
         pod.rev = RevisionBehind(pod.label,
                      IF pod.label \in Tags THEN tags2[pod.label][pod.tagVer].rev ELSE None)
  <2>1. pod.label \in Tags => tags2[pod.label][pod.tagVer] = tags[pod.label][pod.tagVer]
    BY DEF Continues, PodSound, TagSound
  <2> QED BY <2>1 DEF PodSound
<1> QED
  BY <1>1, <1>2, <1>3, <1>4 DEF PodSound

\* A pod created now is injected from what istiod serves now.
LEMMA FreshPodSound ==
    ASSUME TypeInvariant, HistoryOK, NEW p \in Pods
    PROVE  PodSound(p, FreshPod(OwnerOf[p]), configMaps, tagMWCs, now)
<1> DEFINE w == OwnerOf[p]
           pod == FreshPod(w)
<1>0. w \in Workloads
  BY TopologyAssumption
<1>t. ConfigTypeOK /\ CursorsInRange /\ now \in Nat
      /\ tagMWCs \in [Tags -> Seq(TagVersions)]
      /\ configMaps \in [Revisions -> Seq(ConfigMapVersions)]
      /\ istiod \in [Revisions -> Nat]
  BY DEF TypeInvariant, TypeOK, ClusterTypeOK, ConfigTypeOK
<1>f. /\ pod.born = now
      /\ pod.label \in Tags => pod.tagVer = Len(tagMWCs[pod.label])
      /\ pod.rev # None => pod.rev \in Revisions /\ pod.ver = istiod[pod.rev]
      /\ w \notin OptOut =>
            pod.rev = RevisionBehind(pod.label,
                         IF pod.label \in Tags
                         THEN tagMWCs[pod.label][Len(tagMWCs[pod.label])].rev
                         ELSE None)
  BY <1>0, <1>t, FreshPodFields
<1> HIDE DEF pod
<1>1. TagSound(pod, tagMWCs)
  <2> SUFFICES ASSUME pod.label \in Tags PROVE TagSound(pod, tagMWCs)
    BY DEF TagSound
  <2>1. tagSeen[pod.label] \in 1 .. Len(tagMWCs[pod.label])
    BY <1>t DEF CursorsInRange
  <2>2. Len(tagMWCs[pod.label]) \in Nat
    BY <1>t, LenType
  <2> QED BY <1>f, <2>1, <2>2 DEF TagSound
<1>2. SidecarSound(pod, configMaps)
  <2> SUFFICES ASSUME pod.rev # None PROVE SidecarSound(pod, configMaps)
    BY DEF SidecarSound
  <2>1. istiod[pod.rev] \in 1 .. Len(configMaps[pod.rev])
    BY <1>f, <1>t DEF CursorsInRange
  <2>2. \A v \in 1 .. Len(configMaps[pod.rev]) :
           configMaps[pod.rev][v].at + IstiodLag <= now => istiod[pod.rev] >= v
    BY <1>f DEF HistoryOK, IstiodOnTime
  <2> QED BY <1>f, <2>1, <2>2 DEF SidecarSound
<1>3. pod.born <= now
  BY <1>f, <1>t
<1> QED
  BY <1>1, <1>2, <1>3, <1>f DEF PodSound, pod

\* An empty slot says nothing.
LEMMA NoPodSound ==
    ASSUME TypeInvariant, NEW p \in Pods
    PROVE  PodSound(p, NoPod, configMaps, tagMWCs, now)
<1>1. now \in Nat
  BY DEF TypeInvariant, TypeOK, ClusterTypeOK, ConfigTypeOK
<1>2. None \notin Tags /\ None \notin Revisions
  BY LabelAssumption DEF Labels
<1> QED
  BY <1>1, <1>2 DEF PodSound, SidecarSound, TagSound, NoPod, RevisionBehind

\* What a step does to the histories, and where it takes pods from.
Moves ==
    /\ now' \in Nat /\ now <= now'
    /\ Continues(Revisions, configMaps, configMaps', now)
    /\ Continues(Tags, tagMWCs, tagMWCs', now)
    /\ IstiodOnTime(now)'
    /\ \A p \in Pods : /\ pods'[p] \in {pods[p], FreshPod(OwnerOf[p])}
                       /\ podSeen'[p] \in {podSeen[p], pods[p]}
                       /\ listed'[p] \in {listed[p], podSeen[p], NoPod}

\* The cluster's own steps (UpdateConfigMap to RollPod).
LEMMA ClusterStepMoves ==
    ASSUME TypeInvariant, HistoryOK, ClusterStep
    PROVE  Moves
<1>0. UNCHANGED << podSeen, listed >>
  BY DEF ClusterStep, cacheVars, controllerVars, workVars, scanVars
<1>t. /\ now \in Nat /\ IstiodLag \in Nat \ {0}
      /\ configMaps \in [Revisions -> Seq(ConfigMapVersions)]
      /\ tagMWCs \in [Tags -> Seq(TagVersions)]
      /\ istiod \in [Revisions -> Nat]
      /\ pods \in [Pods -> PodRecords]
  BY LagAssumption DEF TypeInvariant, TypeOK, ClusterTypeOK, ConfigTypeOK
<1>s. /\ Continues(Revisions, configMaps, configMaps, now)
      /\ Continues(Tags, tagMWCs, tagMWCs, now)
  BY <1>t, SameContinues
<1>o. IstiodOnTime(now)
  BY DEF HistoryOK
<1>1. ASSUME NEW r \in Revisions, UpdateConfigMap(r) PROVE Moves
  <2>1. PICK i \in Images : configMaps' = [configMaps EXCEPT
                               ![r] = Append(@, [image |-> i, at |-> now])]
    BY <1>1 DEF UpdateConfigMap
  <2>2. [image |-> i, at |-> now] \in ConfigMapVersions
    BY <1>t DEF ConfigMapVersions
  <2>3. Continues(Revisions, configMaps, configMaps', now)
    <3>1. Continues(Revisions, configMaps, configMaps', [image |-> i, at |-> now].at)
      BY <1>t, <2>1, <2>2, AppendContinues
    <3> QED BY <3>1
  <2>4. UNCHANGED << now, tagMWCs, istiod, pods >>
    BY <1>1 DEF UpdateConfigMap
  <2>5. IstiodOnTime(now)'
    <3> SUFFICES ASSUME NEW q \in Revisions, NEW v \in 1 .. Len(configMaps'[q]),
                        configMaps'[q][v].at + IstiodLag <= now
                 PROVE  istiod[q] >= v
      BY <2>4 DEF IstiodOnTime
    <3>1. Len(configMaps[q]) \in Nat
      BY <1>t, LenType
    <3>2. v > Len(configMaps[q]) => configMaps'[q][v].at = now
      BY <2>3 DEF Continues
    <3>3. v \in 1 .. Len(configMaps[q])
      BY <1>t, <3>1, <3>2
    <3>4. configMaps'[q][v] = configMaps[q][v]
      BY <2>3, <3>3 DEF Continues
    <3> QED BY <1>o, <3>3, <3>4 DEF IstiodOnTime
  <2> QED BY <1>0, <1>s, <1>t, <2>3, <2>4, <2>5 DEF Moves
<1>2. ASSUME NEW r \in Revisions, IstiodReload(r) PROVE Moves
  <2>1. UNCHANGED << now, configMaps, tagMWCs, pods >>
    BY <1>2 DEF IstiodReload
  <2>2. \A q \in Revisions : istiod'[q] \in Nat /\ istiod'[q] >= istiod[q]
    BY <1>2, <1>t DEF IstiodReload
  <2>3. IstiodOnTime(now)'
    <3> SUFFICES ASSUME NEW q \in Revisions, NEW v \in 1 .. Len(configMaps[q]),
                        configMaps[q][v].at + IstiodLag <= now
                 PROVE  istiod'[q] >= v
      BY <2>1 DEF IstiodOnTime
    <3>1. istiod[q] >= v
      BY <1>o DEF IstiodOnTime
    <3> QED BY <1>t, <2>2, <3>1
  <2> QED BY <1>0, <1>s, <1>t, <2>1, <2>3 DEF Moves
<1>3. ASSUME NEW t \in Tags, NEW r \in Revisions \cup {None}, RetagMWC(t, r) PROVE Moves
  <2>1. tagMWCs' = [tagMWCs EXCEPT ![t] = Append(@, [rev |-> r, at |-> now])]
    BY <1>3 DEF RetagMWC
  <2>2. [rev |-> r, at |-> now] \in TagVersions
    BY <1>t DEF TagVersions
  <2>3. Continues(Tags, tagMWCs, tagMWCs', now)
    <3>1. Continues(Tags, tagMWCs, tagMWCs', [rev |-> r, at |-> now].at)
      BY <1>t, <2>1, <2>2, AppendContinues
    <3> QED BY <3>1
  <2>4. UNCHANGED << now, configMaps, istiod, pods >>
    BY <1>3 DEF RetagMWC
  <2>5. IstiodOnTime(now)'
    BY <1>o, <2>4 DEF IstiodOnTime
  <2> QED BY <1>0, <1>s, <1>t, <2>3, <2>4, <2>5 DEF Moves
<1>4. ASSUME NEW n \in Namespaces, RelabelNamespace(n) PROVE Moves
  <2>1. UNCHANGED << now, configMaps, tagMWCs, istiod, pods >>
    BY <1>4 DEF RelabelNamespace
  <2>2. IstiodOnTime(now)'
    BY <1>o, <2>1 DEF IstiodOnTime
  <2> QED BY <1>0, <1>s, <1>t, <2>1, <2>2 DEF Moves
<1>5. ASSUME NEW p \in Pods, EvictPod(p) \/ RollPod(p) PROVE Moves
  <2>1. /\ UNCHANGED << now, configMaps, tagMWCs, istiod >>
        /\ pods' = [pods EXCEPT ![p] = FreshPod(OwnerOf[p])]
    BY <1>5 DEF EvictPod, RollPod
  <2>2. IstiodOnTime(now)'
    BY <1>o, <2>1 DEF IstiodOnTime
  <2>3. \A q \in Pods : pods'[q] \in {pods[q], FreshPod(OwnerOf[q])}
    BY <1>t, <2>1
  <2> QED BY <1>0, <1>s, <1>t, <2>1, <2>2, <2>3 DEF Moves
<1> QED
  BY <1>1, <1>2, <1>3, <1>4, <1>5 DEF ClusterStep

\* The clock: Tick waits for an istiod that is about to be late.
LEMMA TickMoves ==
    ASSUME TypeInvariant, Tick
    PROVE  Moves
<1>0. UNCHANGED << configMaps, tagMWCs, istiod, pods, podSeen, listed >>
  BY DEF Tick, cacheVars, workVars, scanVars
<1>1. now \in Nat /\ now' \in Nat /\ now <= now'
  BY BoundAssumption
  DEF Tick, NextInstant, TypeInvariant, TypeOK, ClusterTypeOK, ConfigTypeOK
<1>2. /\ configMaps \in [Revisions -> Seq(ConfigMapVersions)]
      /\ tagMWCs \in [Tags -> Seq(TagVersions)]
  BY DEF TypeInvariant, TypeOK, ClusterTypeOK, ConfigTypeOK
<1>3. /\ Continues(Revisions, configMaps, configMaps, now)
      /\ Continues(Tags, tagMWCs, tagMWCs, now)
  BY <1>2, SameContinues
<1>4. IstiodOnTime(now)'
  BY <1>0 DEF Tick, IstiodOnTime
<1> QED
  BY <1>0, <1>1, <1>3, <1>4 DEF Moves

\* Everything else leaves the cluster's configuration alone; pods travel
\* from the cluster to the cache (SyncPod, Start) and from there to the list
\* of a scan (ListPods), which the end of a reconcile clears.
LEMMA ControllerMoves ==
    ASSUME TypeInvariant, HistoryOK,
           \/ Deliveries \/ PeriodicTick \/ (\E q \in Requests : Dequeue(q))
           \/ Worker \/ Faults \/ Start \/ UNCHANGED vars
    PROVE  Moves
<1> DEFINE Kept  == UNCHANGED << now, configMaps, tagMWCs, istiod, pods >>
           Taken == \A p \in Pods : /\ podSeen'[p] \in {podSeen[p], pods[p]}
                                    /\ listed'[p] \in {listed[p], podSeen[p], NoPod}
<1> USE DEF clusterVars, cacheVars, workVars, scanVars, unwatched
<1>t. /\ now \in Nat
      /\ configMaps \in [Revisions -> Seq(ConfigMapVersions)]
      /\ tagMWCs \in [Tags -> Seq(TagVersions)]
      /\ podSeen \in [Pods -> PodRecords]
  BY DEF TypeInvariant, TypeOK, ClusterTypeOK, ConfigTypeOK, CacheTypeOK
<1>1. ASSUME Deliveries \/ PeriodicTick \/ Start \/ UNCHANGED vars
      PROVE  Kept /\ Taken
  <2>1. Kept /\ UNCHANGED listed
    BY <1>1 DEF Deliveries, SyncConfigMap, SyncTag, SyncNamespace, SyncWorkload, SyncPod,
                BackoffExpires, PeriodicTick, Start, vars
  <2>2. ASSUME NEW p \in Pods PROVE podSeen'[p] \in {podSeen[p], pods[p]}
    <3>1. CASE \E q \in Pods : SyncPod(q)
      BY <1>t, <3>1 DEF SyncPod, ShowPod
    <3>2. CASE Start
      BY <3>2 DEF Start, ShowAll
    <3>3. CASE UNCHANGED podSeen
      BY <3>3
    <3> QED
      BY <1>1, <3>1, <3>2, <3>3
      DEF Deliveries, SyncConfigMap, SyncTag, SyncNamespace, SyncWorkload, BackoffExpires,
          PeriodicTick, vars, ShowConfigMap, ShowTag, ShowNamespace, ShowWorkload
  <2> QED BY <2>1, <2>2
<1>2. ASSUME \/ \E q \in Requests : Dequeue(q)
             \/ AwaitIstiodConfigReadDelay \/ ReadConfigMaps \/ ReadTags \/ ListPods
             \/ ReadFails \/ WebhookPanics \/ Finish \/ Crash
      PROVE  Kept /\ Taken
  <2>1. Kept /\ UNCHANGED podSeen
    BY <1>2 DEF Dequeue, AwaitIstiodConfigReadDelay, ReadConfigMaps, ReadTags, ListPods,
                ReadFails, WebhookPanics, ReturnError, Finish, Crash
  <2>2. \/ UNCHANGED listed
        \/ listed' = podSeen
        \/ listed' = [p \in Pods |-> NoPod]
    BY <1>2 DEF Dequeue, AwaitIstiodConfigReadDelay, ReadConfigMaps, ReadTags, ListPods,
                ReadFails, WebhookPanics, ReturnError, Finish, Crash, EndReconcile,
                ScanReset, listPods
  <2> QED BY <2>1, <2>2
<1>3. ASSUME (\E p \in Pods : ScanPod(p)) \/ CheckCandidate \/ ScanFails \/ ScanEnds
      PROVE  Kept /\ Taken
  BY <1>3 DEF ScanPod, CheckCandidate, ScanFails, ScanEnds, scanUnchanged, PassOverPod,
              SelectPod, CheckPod, LookupFails, WebhookFails
<1>4. ASSUME \/ Pause \/ SkipWorkload \/ StartPatch \/ PatchWorkload \/ PatchConflicts
             \/ AnnotateFails
      PROVE  Kept /\ Taken
  BY <1>4 DEF Pause, SkipWorkload, StartPatch, PatchWorkload, Patch, PatchConflicts,
              AnnotateFails, annotateUnchanged
<1>5. Kept /\ Taken
  BY <1>1, <1>2, <1>3, <1>4 DEF Worker, Faults
<1>6. /\ Continues(Revisions, configMaps, configMaps, now)
      /\ Continues(Tags, tagMWCs, tagMWCs, now)
  BY <1>t, SameContinues
<1>7. IstiodOnTime(now)'
  BY <1>5 DEF HistoryOK, IstiodOnTime
<1> QED
  BY <1>t, <1>5, <1>6, <1>7 DEF Moves

\* Every step of the system moves in this way.
LEMMA StepMoves ==
    ASSUME TypeInvariant, HistoryOK, [Next]_vars
    PROVE  Moves
BY ClusterStepMoves, TickMoves, ControllerMoves DEF Next

\* No version is from the future after the step either.
LEMMA HistoryKept ==
    ASSUME TypeInvariant, TypeInvariant', HistoryOK, Moves
    PROVE  HistoryOK'
<1>t. /\ now \in Nat /\ now' \in Nat /\ now <= now'
      /\ configMaps \in [Revisions -> Seq(ConfigMapVersions)]
      /\ tagMWCs \in [Tags -> Seq(TagVersions)]
  BY DEF Moves, TypeInvariant, TypeOK, ClusterTypeOK, ConfigTypeOK
<1>1. ASSUME NEW r \in Revisions, NEW v \in 1 .. Len(configMaps'[r])
      PROVE  configMaps'[r][v].at <= now'
  <2>1. Len(configMaps[r]) \in Nat
    BY <1>t, LenType
  <2>2. CASE v > Len(configMaps[r])
    BY <1>t, <2>2 DEF Moves, Continues
  <2>3. CASE v \in 1 .. Len(configMaps[r])
    <3>1. configMaps'[r][v] = configMaps[r][v] /\ configMaps[r][v].at <= now
      BY <2>3 DEF Moves, Continues, HistoryOK
    <3>2. configMaps[r][v] \in ConfigMapVersions
      BY <1>t, <2>3, VersionType
    <3> QED BY <1>t, <3>1, <3>2 DEF ConfigMapVersions
  <2> QED BY <2>1, <2>2, <2>3
<1>2. ASSUME NEW r \in Tags, NEW v \in 1 .. Len(tagMWCs'[r])
      PROVE  tagMWCs'[r][v].at <= now'
  <2>1. Len(tagMWCs[r]) \in Nat
    BY <1>t, LenType
  <2>2. CASE v > Len(tagMWCs[r])
    BY <1>t, <2>2 DEF Moves, Continues
  <2>3. CASE v \in 1 .. Len(tagMWCs[r])
    <3>1. tagMWCs'[r][v] = tagMWCs[r][v] /\ tagMWCs[r][v].at <= now
      BY <2>3 DEF Moves, Continues, HistoryOK
    <3>2. tagMWCs[r][v] \in TagVersions
      BY <1>t, <2>3, VersionType
    <3> QED BY <1>t, <3>1, <3>2 DEF TagVersions
  <2> QED BY <2>1, <2>2, <2>3
<1>3. IstiodOnTime(now)'
  BY DEF Moves
<1> QED
  BY <1>1, <1>2, <1>3 DEF HistoryOK

\* Pods, cached pods and listed pods stay sound.
LEMMA PodsKept ==
    ASSUME TypeInvariant, TypeInvariant', HistoryOK, PodsSound, Moves
    PROVE  PodsSound'
<1>t. /\ now \in Nat /\ now' \in Nat /\ now <= now'
      /\ configMaps \in [Revisions -> Seq(ConfigMapVersions)]
      /\ tagMWCs \in [Tags -> Seq(TagVersions)]
      /\ Continues(Revisions, configMaps, configMaps', now)
      /\ Continues(Tags, tagMWCs, tagMWCs', now)
  BY DEF Moves, TypeInvariant, TypeOK, ClusterTypeOK, ConfigTypeOK
<1> SUFFICES ASSUME NEW p \in Pods
             PROVE  /\ PodSound(p, pods'[p], configMaps', tagMWCs', now')
                    /\ PodSound(p, podSeen'[p], configMaps', tagMWCs', now')
                    /\ PodSound(p, listed'[p], configMaps', tagMWCs', now')
  BY DEF PodsSound
<1>1. /\ PodSound(p, pods[p], configMaps, tagMWCs, now)
      /\ PodSound(p, podSeen[p], configMaps, tagMWCs, now)
      /\ PodSound(p, listed[p], configMaps, tagMWCs, now)
  BY DEF PodsSound
<1>2. /\ PodSound(p, FreshPod(OwnerOf[p]), configMaps, tagMWCs, now)
      /\ PodSound(p, NoPod, configMaps, tagMWCs, now)
  BY FreshPodSound, NoPodSound
<1>3. /\ pods'[p] \in {pods[p], FreshPod(OwnerOf[p])}
      /\ podSeen'[p] \in {podSeen[p], pods[p]}
      /\ listed'[p] \in {listed[p], podSeen[p], NoPod}
  BY DEF Moves
<1>4. /\ PodSound(p, pods'[p], configMaps, tagMWCs, now)
      /\ PodSound(p, podSeen'[p], configMaps, tagMWCs, now)
      /\ PodSound(p, listed'[p], configMaps, tagMWCs, now)
  BY <1>1, <1>2, <1>3
<1>5. pods'[p] \in PodRecords /\ podSeen'[p] \in PodRecords /\ listed'[p] \in PodRecords
  BY DEF TypeInvariant, TypeOK, ClusterTypeOK, CacheTypeOK, ScanTypeOK
<1> QED
  BY <1>t, <1>4, <1>5, SoundKept

\* The snapshot of a reconcile: ReadConfigMaps and ReadTags take it, the
\* worker's later steps leave it alone.
SnapshotStep ==
    /\ pc' \notin {"idle", "down", "await", "configmaps"} =>
          \/ ReadConfigMaps
          \/ /\ pc \notin {"idle", "down", "await", "configmaps"}
             /\ UNCHANGED << cmBase, lastModifiedByRevision >>
    /\ pc' \notin {"idle", "down", "await", "configmaps", "tags"} =>
          \/ ReadTags
          \/ /\ pc \notin {"idle", "down", "await", "configmaps", "tags"}
             /\ UNCHANGED << tagBase, tagToRevision, lastModifiedByTag >>

\* Only Reconcile's own reads change the snapshot.
LEMMA SnapshotSteps ==
    ASSUME TypeInvariant, [Next]_vars
    PROVE  SnapshotStep
<1> USE DEF workVars, configVars, historyVars, baseVars, SnapshotStep
<1>1. CASE ClusterStep \/ Tick \/ UNCHANGED vars
  BY <1>1 DEF ClusterStep, Tick, vars, controllerVars
<1>2. CASE Deliveries \/ PeriodicTick
  BY <1>2 DEF Deliveries, SyncConfigMap, SyncTag, SyncNamespace, SyncWorkload, SyncPod,
              BackoffExpires, PeriodicTick, unwatched
<1>3. CASE \/ \E q \in Requests : Dequeue(q)
           \/ AwaitIstiodConfigReadDelay \/ ReadConfigMaps \/ ReadTags \/ ListPods
  BY <1>3 DEF Dequeue, AwaitIstiodConfigReadDelay, ReadConfigMaps, ReadTags, ListPods, listPods
<1>4. CASE ReadFails \/ WebhookPanics \/ Finish \/ Crash \/ Start
  BY <1>4 DEF ReadFails, WebhookPanics, ReturnError, Finish, Crash, Start, EndReconcile
<1>5. CASE (\E p \in Pods : ScanPod(p)) \/ CheckCandidate \/ ScanFails \/ ScanEnds
  BY <1>5 DEF ScanPod, CheckCandidate, ScanFails, ScanEnds, scanUnchanged, PassOverPod,
              SelectPod, CheckPod, LookupFails, WebhookFails
<1>6. CASE \/ Pause \/ SkipWorkload \/ StartPatch \/ PatchWorkload \/ PatchConflicts
           \/ AnnotateFails
  BY <1>6 DEF Pause, SkipWorkload, StartPatch, PatchWorkload, PatchConflicts, AnnotateFails,
              annotateUnchanged
<1> QED
  BY <1>1, <1>2, <1>3, <1>4, <1>5, <1>6 DEF Next, Worker, Faults

\* The timestamps in use remain those of the versions in cmBase and tagBase.
LEMMA SnapshotKept ==
    ASSUME TypeInvariant, SnapshotOK, Moves, SnapshotStep
    PROVE  SnapshotOK'
<1>t. /\ configMaps \in [Revisions -> Seq(ConfigMapVersions)]
      /\ tagMWCs \in [Tags -> Seq(TagVersions)]
      /\ CursorsInRange
  BY DEF TypeInvariant, TypeOK, ClusterTypeOK, ConfigTypeOK
<1>1. ASSUME pc' \notin {"idle", "down", "await", "configmaps"}, NEW r \in Revisions
      PROVE  /\ cmBase'[r] \in 1 .. Len(configMaps'[r])
             /\ lastModifiedByRevision'[r] = Trunc(configMaps'[r][cmBase'[r]].at)
  <2>1. /\ cmBase'[r] \in 1 .. Len(configMaps[r])
        /\ lastModifiedByRevision'[r] = Trunc(configMaps[r][cmBase'[r]].at)
    <3>1. CASE ReadConfigMaps
      BY <1>t, <3>1 DEF ReadConfigMaps, BuildLastModifiedByRevision, GetConfigMapLastModified, CursorsInRange
    <3>2. CASE /\ pc \notin {"idle", "down", "await", "configmaps"}
               /\ UNCHANGED << cmBase, lastModifiedByRevision >>
      BY <3>2 DEF SnapshotOK
    <3> QED BY <1>1, <3>1, <3>2 DEF SnapshotStep
  <2>2. /\ Len(configMaps[r]) \in Nat /\ Len(configMaps'[r]) >= Len(configMaps[r])
        /\ configMaps'[r][cmBase'[r]] = configMaps[r][cmBase'[r]]
    BY <1>t, <2>1, LenType DEF Moves, Continues
  <2> QED BY <2>1, <2>2
<1>2. ASSUME pc' \notin {"idle", "down", "await", "configmaps", "tags"}, NEW t \in Tags
      PROVE  /\ tagBase'[t] \in 1 .. Len(tagMWCs'[t])
             /\ tagToRevision'[t] = tagMWCs'[t][tagBase'[t]].rev
             /\ tagToRevision'[t] # None =>
                   lastModifiedByTag'[t] = Trunc(tagMWCs'[t][tagBase'[t]].at)
  <2>1. /\ tagBase'[t] \in 1 .. Len(tagMWCs[t])
        /\ tagToRevision'[t] = tagMWCs[t][tagBase'[t]].rev
        /\ tagToRevision'[t] # None =>
              lastModifiedByTag'[t] = Trunc(tagMWCs[t][tagBase'[t]].at)
    <3>1. CASE ReadTags
      BY <1>t, <3>1 DEF ReadTags, FetchTagToRevision, FetchLastModifiedByTag, getLastModified, CursorsInRange
    <3>2. CASE /\ pc \notin {"idle", "down", "await", "configmaps", "tags"}
               /\ UNCHANGED << tagBase, tagToRevision, lastModifiedByTag >>
      BY <3>2 DEF SnapshotOK
    <3> QED BY <1>2, <3>1, <3>2 DEF SnapshotStep
  <2>2. /\ Len(tagMWCs[t]) \in Nat /\ Len(tagMWCs'[t]) >= Len(tagMWCs[t])
        /\ tagMWCs'[t][tagBase'[t]] = tagMWCs[t][tagBase'[t]]
    BY <1>t, <2>1, LenType DEF Moves, Continues
  <2> QED BY <2>1, <2>2
<1> QED
  BY <1>1, <1>2 DEF SnapshotOK

\* A cluster and a controller that start fresh.
LEMMA InitSkip == Init => Inv
<1> SUFFICES ASSUME Init PROVE Inv
  OBVIOUS
<1>1. TypeInvariant
  BY InitTypes
<1>t. Second \in Nat \ {0} /\ IstiodLag \in Nat \ {0}
  BY SecondAssumption, LagAssumption
<1>2. HistoryOK
  <2>1. /\ now = Second
        /\ configMaps = [r \in Revisions |-> << [image |-> InitialImage[r], at |-> Second] >>]
        /\ tagMWCs = [t \in Tags |-> << [rev |-> InitialTag[t], at |-> Second] >>]
    BY DEF Init, ClusterInit
  <2>2. \A r \in Revisions : \A v \in 1 .. Len(configMaps[r]) : configMaps[r][v].at = Second
    BY <2>1
  <2>3. \A t \in Tags : \A v \in 1 .. Len(tagMWCs[t]) : tagMWCs[t][v].at = Second
    BY <2>1
  <2> QED BY <1>t, <2>1, <2>2, <2>3 DEF HistoryOK, IstiodOnTime
<1>3. PodsSound
  <2>1. \A p \in Pods : /\ PodSound(p, FreshPod(OwnerOf[p]), configMaps, tagMWCs, now)
                        /\ PodSound(p, NoPod, configMaps, tagMWCs, now)
    BY <1>1, <1>2, FreshPodSound, NoPodSound
  <2>2. \A p \in Pods : /\ pods[p] \in {FreshPod(OwnerOf[p]), NoPod}
                        /\ podSeen[p] = pods[p] /\ listed[p] = NoPod
    BY DEF Init, ClusterInit, CacheInit, ScanInit
  <2> QED BY <2>1, <2>2 DEF PodsSound
<1>4. SnapshotOK
  BY DEF Init, SnapshotOK
<1> QED
  BY <1>1, <1>2, <1>3, <1>4 DEF Inv, SkipInvariant, TypeInvariant

\* SkipInvariant and TypeOK are inductive.
LEMMA StepSkip == Inv /\ [Next]_vars => Inv'
<1> SUFFICES ASSUME Inv, [Next]_vars PROVE Inv'
  OBVIOUS
<1>1. TypeInvariant /\ HistoryOK /\ PodsSound /\ SnapshotOK
  BY DEF Inv, SkipInvariant, TypeInvariant
<1>2. TypeInvariant'
  BY <1>1, StepTypes
<1>3. Moves /\ SnapshotStep
  BY <1>1, StepMoves, SnapshotSteps
<1>4. HistoryOK'
  BY <1>1, <1>2, <1>3, HistoryKept
<1>5. PodsSound'
  BY <1>1, <1>2, <1>3, PodsKept
<1>6. SnapshotOK'
  BY <1>1, <1>3, SnapshotKept
<1> QED
  BY <1>2, <1>4, <1>5, <1>6 DEF Inv, SkipInvariant, TypeInvariant

\* The pods of every reachable state, also stale copies of them in the cache
\* and in the list of a scan, were injected from versions their creation time
\* accounts for, and the scan uses the timestamps of one version of every
\* object (ReadConfigMaps, ReadTags).
THEOREM SkipInvariantHolds == Spec => []SkipInvariant
<1>1. Inv => SkipInvariant
  BY DEF Inv
<1> QED
  BY <1>1, InitSkip, StepSkip, PTL DEF Spec

\* A timestamp in whole seconds plus a delay that covers istiod's lag and the
\* second lost to the truncation is not before the instant istiod had loaded
\* the version.
LEMMA DelayCovers ==
    ASSUME IstiodConfigReadDelay >= IstiodLag + Second - 1,
           NEW at \in Nat, NEW born \in Nat,
           Trunc(born) >= Trunc(at) + IstiodConfigReadDelay
    PROVE  at + IstiodLag <= born /\ at < born
<1>1. Trunc(born) \in Nat /\ Trunc(born) <= born
  BY TruncFacts
<1>2. Trunc(at) \in Nat /\ at < Trunc(at) + Second
  BY TruncFacts
<1> QED
  BY <1>1, <1>2, ScannerAssumption, SecondAssumption, LagAssumption

\* The invariant implies the property.
LEMMA InvSkip ==
    ASSUME IstiodConfigReadDelay >= IstiodLag + Second - 1, Inv
    PROVE  SkipIsSafe
<1> SUFFICES ASSUME pc = "scan", NEW p \in todo,
                    getIstioRevFromWorkloadOrNamespace(OwnerOf[p]) # None,
                    getIstioRevFromWorkloadOrNamespace(OwnerOf[p]) \in Tags =>
                        tagToRevision[getIstioRevFromWorkloadOrNamespace(OwnerOf[p])] # None,
                    OwnerOf[p] \notin OptOut,
                    listed[p].label = getIstioRevFromWorkloadOrNamespace(OwnerOf[p]),
                    shouldSkipPodForLastModified(listed[p],
                        getIstioRevFromWorkloadOrNamespace(OwnerOf[p]))
             PROVE  InjectedSince(listed[p],
                        getIstioRevFromWorkloadOrNamespace(OwnerOf[p]))
  BY DEF SkipIsSafe
<1> DEFINE l   == getIstioRevFromWorkloadOrNamespace(OwnerOf[p])
           pod == listed[p]
           rev == RevisionFor(l)
<1>t. /\ p \in Pods /\ pod \in PodRecords
      /\ lastModifiedByRevision \in [Revisions -> Nat]
      /\ lastModifiedByTag \in [Tags -> Nat]
      /\ configMaps \in [Revisions -> Seq(ConfigMapVersions)]
      /\ tagMWCs \in [Tags -> Seq(TagVersions)]
      /\ IstiodConfigReadDelay \in Nat
  BY ScannerAssumption DEF Inv, TypeOK, ScanTypeOK, ClusterTypeOK, ConfigTypeOK
<1>l. l \in Labels
  <2>1. OwnerOf[p] \in Workloads /\ ConfigTypeOK /\ CursorsInRange
    BY <1>t, TopologyAssumption DEF Inv, TypeOK, ClusterTypeOK, SkipInvariant
  <2> QED BY <2>1, LabelReadType
<1>s. PodSound(p, pod, configMaps, tagMWCs, now)
  BY <1>t DEF Inv, SkipInvariant, PodsSound
<1>c. \A r \in Revisions : /\ cmBase[r] \in 1 .. Len(configMaps[r])
                           /\ lastModifiedByRevision[r] = Trunc(configMaps[r][cmBase[r]].at)
  BY DEF Inv, SkipInvariant, SnapshotOK
<1>g. \A t \in Tags : /\ tagBase[t] \in 1 .. Len(tagMWCs[t])
                      /\ tagToRevision[t] = tagMWCs[t][tagBase[t]].rev
                      /\ tagToRevision[t] # None =>
                            lastModifiedByTag[t] = Trunc(tagMWCs[t][tagBase[t]].at)
  BY DEF Inv, SkipInvariant, SnapshotOK
<1>n. l \in Tags => tagToRevision[l] # None
  OBVIOUS
<1>b. pod.rev = RevisionBehind(pod.label,
                   IF pod.label \in Tags THEN tagMWCs[pod.label][pod.tagVer].rev ELSE None)
  BY <1>s DEF PodSound
<1> HIDE DEF l, pod
<1>p. pod.label = l /\ pod.born \in Nat /\ pod.ver \in Nat /\ pod.tagVer \in Nat
  <2>1. pod.label = l
    BY DEF l, pod
  <2> QED BY <1>t, <2>1 DEF PodRecords
<1>1. rev \in Revisions
  <2>1. CASE l \in Tags
    <3>1. tagMWCs[l][tagBase[l]] \in TagVersions
      BY <1>g, <1>t, <2>1, VersionType
    <3> QED BY <1>g, <1>n, <2>1, <3>1 DEF RevisionFor, TagVersions
  <2>2. CASE l \notin Tags
    BY <1>l, <2>2 DEF RevisionFor, Labels
  <2> QED BY <2>1, <2>2
<1>2. /\ EffectiveLastModified(l) \in Nat
      /\ EffectiveLastModified(l) >= lastModifiedByRevision[rev]
      /\ l \in Tags => EffectiveLastModified(l) >= lastModifiedByTag[l]
  BY <1>1, <1>t DEF EffectiveLastModified
<1>3. Trunc(pod.born) \in Nat /\ Trunc(pod.born) >= EffectiveLastModified(l) + IstiodConfigReadDelay
  <2>1. shouldSkipPodForLastModified(pod, l)
    BY DEF pod, l
  <2> QED BY <1>p, <2>1, TruncFacts DEF shouldSkipPodForLastModified
<1>4. configMaps[rev][cmBase[rev]].at + IstiodLag <= pod.born
  <2>1. configMaps[rev][cmBase[rev]] \in ConfigMapVersions
    BY <1>1, <1>c, <1>t, VersionType
  <2>2. configMaps[rev][cmBase[rev]].at \in Nat
    BY <2>1 DEF ConfigMapVersions
  <2>3. lastModifiedByRevision[rev] \in Nat
        /\ lastModifiedByRevision[rev] = Trunc(configMaps[rev][cmBase[rev]].at)
    BY <1>1, <1>c, <1>t
  <2>4. Trunc(pod.born) >= Trunc(configMaps[rev][cmBase[rev]].at) + IstiodConfigReadDelay
    BY <1>2, <1>3, <1>t, <2>3
  <2> QED BY <1>p, <2>2, <2>4, DelayCovers
<1>5. ASSUME l \in Tags PROVE pod.tagVer >= tagBase[l]
  <2>1. tagMWCs[l][tagBase[l]] \in TagVersions
    BY <1>5, <1>g, <1>t, VersionType
  <2>2. tagMWCs[l][tagBase[l]].at \in Nat
    BY <2>1 DEF TagVersions
  <2>3. lastModifiedByTag[l] \in Nat /\ lastModifiedByTag[l] = Trunc(tagMWCs[l][tagBase[l]].at)
    BY <1>5, <1>g, <1>n, <1>t
  <2>4. Trunc(pod.born) >= Trunc(tagMWCs[l][tagBase[l]].at) + IstiodConfigReadDelay
    BY <1>2, <1>3, <1>5, <1>t, <2>3
  <2>5. tagMWCs[l][tagBase[l]].at < pod.born
    BY <1>p, <2>2, <2>4, DelayCovers
  <2> QED BY <1>5, <1>g, <1>p, <1>s, <2>5 DEF PodSound, TagSound
<1>r. None \notin Revisions
  BY LabelAssumption DEF Labels
<1>6. pod.rev = rev => pod.ver >= cmBase[rev]
  BY <1>1, <1>4, <1>c, <1>p, <1>r, <1>s DEF PodSound, SidecarSound
<1>7. l \notin Tags => pod.rev = rev
  BY <1>b, <1>l, <1>p DEF RevisionFor, RevisionBehind, Labels
<1>8. l \in Tags /\ pod.tagVer = tagBase[l] => pod.rev = rev
  BY <1>b, <1>g, <1>n, <1>p DEF RevisionFor, RevisionBehind
<1>9. l \in Tags => tagBase[l] \in Nat
  <2>1. l \in Tags => Len(tagMWCs[l]) \in Nat
    BY <1>t, LenType
  <2> QED BY <1>g, <2>1
<1>10. InjectedSince(pod, l)
  BY <1>5, <1>6, <1>7, <1>8, <1>9, <1>p DEF InjectedSince
<1> QED
  BY <1>10 DEF l, pod

\* For every cluster, every history of changes, crashes and failures, and
\* every delay that covers istiod's lag and one second: the skip by creation
\* time (shouldSkipPodForLastModified) never passes over a pod of the label
\* that was injected before the configuration the reconcile has read.
THEOREM SkipSafe ==
    ASSUME IstiodConfigReadDelay >= IstiodLag + Second - 1
    PROVE  Spec => []SkipIsSafe
<1>1. Inv => SkipIsSafe
  BY InvSkip
<1> QED
  BY <1>1, InitSkip, StepSkip, PTL DEF Spec

=============================================================================
