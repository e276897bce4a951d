----------------------------- MODULE PodScanner -----------------------------
(***************************************************************************)
(* internal/podscanner: which workloads have a pod whose istio-proxy image *)
(* is not the one the injection webhook would give it now.                 *)
(*                                                                         *)
(* ScanOutdatedPods lists the pods once and then looks at them one after   *)
(* the other; between two pods, and between the steps for one pod, the     *)
(* cluster and the caches move on.  todo is what is left of that list.     *)
(***************************************************************************)
EXTENDS IstioCluster

CONSTANTS
    CompareHub,             \* --compare-hub
    IstiodConfigReadDelay,  \* --istiod-config-read-delay, in ticks
    SkipNamespaces          \* --skip-namespaces

ASSUME ScannerAssumption ==
    /\ CompareHub \in BOOLEAN
    /\ IstiodConfigReadDelay \in Nat
    /\ SkipNamespaces \subseteq Namespaces

VARIABLES
    lastModifiedByRevision, \* IstioConfig, as the reconcile read it
    tagToRevision,
    lastModifiedByTag,
    todo,                   \* slots of the listed pods not looked at yet
    listed,                 \* slot -> pod, as listed
    candidate,              \* the slot whose webhook call is under way
    revOrTag,               \* ... and the label that was read for it
    found                   \* workloads with an outdated pod, in scan order

configVars == << lastModifiedByRevision, tagToRevision, lastModifiedByTag >>
scanVars   == << todo, listed, candidate, revOrTag, found >>

-----------------------------------------------------------------------------
(* What the reconcile reads before the scan.                               *)

\* A slip: the creation time alone, without managedFields.
GetConfigMapCreated(r)      == Trunc(configMaps[r][1].at)
GetConfigMapLastModified(r) == Trunc(configMaps[r][cmSeen[r]].at)
getLastModified(t)          == Trunc(tagMWCs[t][tagSeen[t]].at)

BuildLastModifiedByRevision == [r \in Revisions |-> GetConfigMapLastModified(r)]

\* A tag without an MWC is in neither map: None, and 0 for Go's zero time.
FetchTagToRevision     == [t \in Tags |-> tagMWCs[t][tagSeen[t]].rev]
FetchLastModifiedByTag ==
    [t \in Tags |-> IF tagMWCs[t][tagSeen[t]].rev = None THEN 0 ELSE getLastModified(t)]

-----------------------------------------------------------------------------
(* Decisions about one pod.                                                *)

getIstioRevFromWorkloadOrNamespace(w) ==
    LET ns == namespaces[NamespaceOf[w]][nsSeen[NamespaceOf[w]]]
    IN  IF TemplateRev[w] # None THEN TemplateRev[w]
        ELSE IF ns.rev # None THEN ns.rev
        ELSE IF ns.injection = "enabled" THEN Default
        ELSE None

\* A tag stands for the revision of its MWC; any other label is taken for a
\* revision, also one that no ConfigMap belongs to.
RevisionFor(label) ==
    IF label \in Tags /\ tagToRevision[label] # None THEN tagToRevision[label] ELSE label

\* The later of the ConfigMap's and, behind a tag, the MWC's modification; 0
\* when neither is known.
EffectiveLastModified(label) ==
    LET rev      == RevisionFor(label)
        modified == IF rev \in Revisions THEN lastModifiedByRevision[rev] ELSE 0
    IN  IF label \in Tags /\ lastModifiedByTag[label] > modified
        THEN lastModifiedByTag[label]
        ELSE modified

\* Slips: forgetting the delay, and swapping the comparison.
SkipWithoutDelay(pod, label) == Trunc(pod.born) >= EffectiveLastModified(label)
SkipOlder(pod, label) ==
    Trunc(pod.born) < EffectiveLastModified(label) + IstiodConfigReadDelay

shouldSkipPodForLastModified(pod, label) ==
    /\ EffectiveLastModified(label) # 0
    /\ Trunc(pod.born) >= EffectiveLastModified(label) + IstiodConfigReadDelay

\* The revision whose istiod CallWebhook asks.  Label "default" prefers the
\* webhook of istio-revision-tag-default, if there is one at the time of the
\* call.
WebhookRevision(revision, preferDefaultTagWebhook) ==
    IF /\ preferDefaultTagWebhook /\ Default \in Tags
       /\ tagMWCs[Default][tagSeen[Default]].rev # None
    THEN tagMWCs[Default][tagSeen[Default]].rev
    ELSE revision

\* The pod the webhook is asked about: that of the workload's template, not the
\* listed one.  Of its labels and annotations the injector looks at
\* sidecar.istio.io/inject.
buildPodFromWorkload(w) == [inject |-> w \notin OptOut]

\* The istio-proxy image of the mutated pod: none without a patch, and none
\* when nothing serves the revision (an error, which is treated alike).
CallWebhook(pod, revision, preferDefaultTagWebhook) ==
    LET r == WebhookRevision(revision, preferDefaultTagWebhook)
    IN  IF r \in Revisions /\ pod.inject THEN configMaps[r][istiod[r]].image
        ELSE NoImage

\* imagesMatch as a relation over the images that occur.
MatchingImages ==
    {m \in (Images \cup {NoImage}) \X Images : imagesMatch(m[1], m[2], CompareHub)}

\* The verdict on the listed pod p whose label was read as label.
Outdated(p, label) ==
    LET expected == CallWebhook(buildPodFromWorkload(OwnerOf[p]),
                                RevisionFor(label), label = Default)
    IN  /\ expected # NoImage
        /\ << getIstioProxyImage(listed[p]), expected >> \notin MatchingImages

\* seen is keyed by namespace and name; the kind is not part of the key.
Key(w)  == << NamespaceOf[w], NameOf[w] >>
\* Slips: never recording what was found, and deduplicating by namespace alone.
NeverSeen(w) == FALSE
SeenNamespace(w) == \E i \in DOMAIN found : NamespaceOf[found[i]] = NamespaceOf[w]
Seen(w) == \E i \in DOMAIN found : Key(found[i]) = Key(w)

-----------------------------------------------------------------------------
(* The scan.                                                               *)

ScanInit ==
    /\ lastModifiedByRevision = [r \in Revisions |-> 0]
    /\ tagToRevision = [t \in Tags |-> None]
    /\ lastModifiedByTag = [t \in Tags |-> 0]
    /\ todo = {}
    /\ listed = [p \in Pods |-> NoPod]
    /\ candidate = None
    /\ revOrTag = None
    /\ found = << >>

\* What a scan leaves behind when its reconcile ends: nothing.
ScanReset ==
    /\ lastModifiedByRevision' = [r \in Revisions |-> 0]
    /\ tagToRevision' = [t \in Tags |-> None]
    /\ lastModifiedByTag' = [t \in Tags |-> 0]
    /\ todo' = {}
    /\ listed' = [p \in Pods |-> NoPod]
    /\ candidate' = None
    /\ revOrTag' = None
    /\ found' = << >>

\* A slip: the limit is not passed on to the List call.
listPodsEverywhere(limit) ==
    /\ todo' = {p \in Pods : podSeen[p] # NoPod}
    /\ listed' = podSeen
    /\ UNCHANGED << candidate, revOrTag, found, configVars >>

\* The pods the cache holds, of every namespace or of the given ones.
listPods(limit) ==
    /\ todo' = {p \in Pods : /\ podSeen[p] # NoPod
                             /\ NamespaceOf[OwnerOf[p]] \in limit}
    /\ listed' = podSeen
    /\ UNCHANGED << candidate, revOrTag, found, configVars >>

\* Reasons to pass over a listed pod without asking the webhook.
PassedOver(p) ==
    LET w     == OwnerOf[p]
        label == getIstioRevFromWorkloadOrNamespace(w)
    IN  \/ NamespaceOf[w] \in SkipNamespaces
        \/ label = None
        \/ shouldSkipPodForLastModified(listed[p], label)

PassOverPod(p) ==
    /\ p \in todo
    /\ PassedOver(p)
    /\ todo' = todo \ {p}
    /\ UNCHANGED << listed, candidate, revOrTag, found, configVars >>

SelectPod(p) ==
    /\ p \in todo
    /\ ~PassedOver(p)
    /\ todo' = todo \ {p}
    /\ candidate' = p
    /\ revOrTag' = getIstioRevFromWorkloadOrNamespace(OwnerOf[p])
    /\ UNCHANGED << listed, found, configVars >>

\* The webhook answers and the images are compared.
CheckPod ==
    /\ found' = IF Outdated(candidate, revOrTag) /\ ~Seen(OwnerOf[candidate])
                THEN Append(found, OwnerOf[candidate])
                ELSE found
    /\ candidate' = None
    /\ revOrTag' = None
    /\ UNCHANGED << todo, listed, configVars >>

\* Looking up the owner or the labels failed: logged, the pod is dropped.
LookupFails(p) ==
    /\ p \in todo
    /\ NamespaceOf[OwnerOf[p]] \notin SkipNamespaces
    /\ todo' = todo \ {p}
    /\ UNCHANGED << listed, candidate, revOrTag, found, configVars >>

\* The template is gone, or the webhook fails or refuses: logged, dropped.
WebhookFails ==
    /\ candidate' = None
    /\ revOrTag' = None
    /\ UNCHANGED << todo, listed, found, configVars >>
=============================================================================
