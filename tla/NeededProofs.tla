---------------------------- MODULE NeededProofs ----------------------------
(***************************************************************************)
(* Proof, for all values of the constants, that fortsa restarts nothing    *)
(* for nothing where the cooldown covers the verdict.  Configuration, tags *)
(* and labels may change, calls may take any time and fail, patches may    *)
(* meet conflicts and the process may crash; only pods that something else *)
(* than a rollout replaces are left out.                                   *)
(*                                                                         *)
(* A verdict is about the pods as they were listed.  The argument: a       *)
(* listed pod either is still there and not to be replaced, or its         *)
(* workload was restarted so short a time before the list was made that    *)
(* the cooldown does not cover what came after it.                         *)
(***************************************************************************)
EXTENDS RestProofs, VerdictHistory

\* Only rollouts replace pods, and the wait at the start of a reconcile
\* covers the lag of the cache the cooldown is read from.
Attended ==
    /\ MaxEvictions = 0
    /\ InformerLag <= IstiodConfigReadDelay

VerdictStep == [Next /\ Remember]_verdictVars

-----------------------------------------------------------------------------
(* The invariant.                                                          *)

\* A rollout takes no longer than RolloutLag ...
RollsOK ==
    \A p \in Pods :
        (pods[p] # NoPod /\ Rolling(p)) => now < patchedAt[OwnerOf[p]] + RolloutLag

\* ... and a pod the cache does not show yet was created by one.
BornOK ==
    \A p \in Pods :
        podSeen[p] # pods[p] => /\ restartedAt[OwnerOf[p]] # 0
                                /\ pods[p].born < patchedAt[OwnerOf[p]] + RolloutLag

ListTimeOK == listedAt \in Nat /\ listedAt <= now

\* The pod in slot p is the listed one, and no rollout is going to replace it.
Stays(p) == listed[p] = pods[p] /\ ~Rolling(p)

\* When the pods were listed, a rollout of w could be unseen or under way, or
\* w was restarted since.
Recent(w) ==
    /\ restartedAt[w] # 0
    /\ listedAt + 1 < patchedAt[w] + RolloutLag + InformerLag

ListedOK ==
    pc \in Scanning \cup Restarting =>
        \A p \in Pods : listed[p] # NoPod => Stays(p) \/ Recent(OwnerOf[p])

\* The scan looks at listed pods.
CandidateOK ==
    /\ pc \in Scanning => \A p \in todo : listed[p] # NoPod
    /\ pc = "check" => listed[candidate] # NoPod

\* Pod p is a reason to restart w: it was listed with another image than the
\* one the webhook answered with.
Reason(w, p) ==
    /\ OwnerOf[p] = w /\ listed[p] # NoPod
    /\ expected[w] \in Images
    /\ << getIstioProxyImage(listed[p]), expected[w] >> \notin MatchingImages

\* What was found has a reason.
JudgedOK == \A i \in DOMAIN found : \E p \in Pods : Reason(found[i], p)

\* What the restarts rely on that other proofs have established.
Foundation == Inv /\ DueInvariant /\ StampOK /\ PodsShown

NeededInvariant ==
    /\ Foundation
    /\ RollsOK /\ BornOK /\ ListTimeOK /\ ListedOK /\ JudgedOK /\ CandidateOK

-----------------------------------------------------------------------------
(* The ground under it.                                                    *)

\* The history is added to what the controller does, and changes nothing.
LEMMA StepIsNext ==
    ASSUME VerdictStep
    PROVE  [Next]_vars
BY DEF VerdictStep, verdictVars

\* The time of the list is that of the step that makes it, or forgotten, and
\* what the webhook answered for a workload is kept while it is found.
LEMMA Remembers ==
    ASSUME VerdictStep
    PROVE  /\ \/ pc = "list" /\ pc' = "scan" /\ listedAt' = now
              \/ ~(pc = "list" /\ pc' = "scan") /\ listedAt' = listedAt
              \/ pc' \in Resting /\ listedAt' = 0
           /\ \A w \in Workloads \cap Found(found') :
                 expected'[w] = IF w \in Found(found) THEN expected[w]
                                ELSE CallWebhook(buildPodFromWorkload(w),
                                                 RevisionFor(revOrTag), revOrTag = Default)
<1>1. CASE Next /\ Remember
  BY <1>1 DEF Remember, Resting
<1>2. CASE UNCHANGED verdictVars
  <2>1. UNCHANGED << pc, found, listedAt, expected >>
    BY <1>2 DEF verdictVars, vars, workVars, scanVars
  <2> QED BY <2>1 DEF Found
<1> QED
  BY <1>1, <1>2 DEF VerdictStep

\* The earlier invariants are kept.
LEMMA FoundationStep ==
    ASSUME Foundation, [Next]_vars
    PROVE  Foundation' /\ Moves /\ RoundStep /\ PodStep /\ TypeInvariant /\ TypeInvariant'
<1>1. TypeInvariant /\ HistoryOK /\ RoundOK /\ TimesOK
  BY DEF Foundation, DueInvariant, Inv, SkipInvariant
<1>2. TypeInvariant' /\ Inv'
  BY <1>1, StepTypes, StepSkip DEF Foundation
<1>3. Moves /\ RoundStep /\ PodStep
  BY <1>1, StepMoves, RoundSteps, PodSteps
<1>4. DueInvariant'
  BY <1>2, <1>3, RoundOKStep, TimesOKStep, SettledOKStep, ShownOKStep, ChosenOKStep
  DEF DueInvariant, Foundation
<1>5. StampOK' /\ PodsShown'
  BY <1>1, <1>3, StampOKStep, PodsShownStep DEF Foundation
<1> QED
  BY <1>1, <1>2, <1>3, <1>4, <1>5 DEF Foundation

\* Apart from the clock: a rollout replaces a pod, something next to the
\* worker happens, or the worker does something or starts, at an instant.
Aside ==
    /\ UNCHANGED << now, pods, restartedAt, patchedAt >>
    /\ \A p \in Pods : podSeen'[p] \in {podSeen[p], pods[p]}

Rolls ==
    /\ \E p \in Pods : RollPod(p)
    /\ UNCHANGED podSeen

Works == UNCHANGED << now, pods, podSeen >>

\* Every step is one of these.
LEMMA GroundSteps ==
    ASSUME Attended, TypeInvariant, [Next]_vars
    PROVE  Tick \/ Aside \/ Rolls \/ Works
<1> USE DEF clusterVars, cacheVars, controllerVars, workVars, configVars, scanVars,
            annotatorVars, queueVars, unwatched, scanUnchanged, annotateUnchanged
<1>t. /\ pods \in [Pods -> PodRecords] /\ podSeen \in [Pods -> PodRecords]
      /\ evictions \in 0 .. MaxEvictions
  BY RestTypes DEF TypeInvariant, TypeOK, ClusterTypeOK
<1>1. CASE ClusterStep
  <2>1. ~ \E p \in Pods : EvictPod(p)
    BY <1>t DEF EvictPod, Attended
  <2>2. CASE \E r \in Revisions : UpdateConfigMap(r) \/ IstiodReload(r)
    BY <1>1, <2>2 DEF ClusterStep, UpdateConfigMap, IstiodReload, Aside
  <2>3. CASE \E t \in Tags, r \in Revisions \cup {None} : RetagMWC(t, r)
    BY <1>1, <2>3 DEF ClusterStep, RetagMWC, Aside
  <2>4. CASE \E n \in Namespaces : RelabelNamespace(n)
    BY <1>1, <2>4 DEF ClusterStep, RelabelNamespace, Aside
  <2>5. CASE \E p \in Pods : RollPod(p)
    BY <1>1, <2>5 DEF ClusterStep, Rolls
  <2> QED BY <1>1, <2>1, <2>2, <2>3, <2>4, <2>5 DEF ClusterStep
<1>2. CASE Deliveries
  <2>1. CASE \E p \in Pods : SyncPod(p)
    BY <2>1, <1>t DEF SyncPod, ShowPod, Aside
  <2>2. CASE \E q \in Requests : BackoffExpires(q)
    BY <2>2 DEF BackoffExpires, Aside
  <2>3. CASE \/ \E r \in Revisions : SyncConfigMap(r)
             \/ \E t \in Tags : SyncTag(t)
             \/ \E n \in Namespaces : SyncNamespace(n)
             \/ \E w \in Workloads : SyncWorkload(w)
    BY <2>3 DEF SyncConfigMap, SyncTag, SyncNamespace, SyncWorkload, ShowConfigMap,
                ShowTag, ShowNamespace, ShowWorkload, Aside
  <2> QED BY <1>2, <2>1, <2>2, <2>3 DEF Deliveries
<1>3. CASE PeriodicTick \/ UNCHANGED vars
  BY <1>3 DEF PeriodicTick, vars, Aside
<1>4. CASE (\E q \in Requests : Dequeue(q)) \/ Worker
  BY <1>4 DEF Dequeue, Worker, AwaitIstiodConfigReadDelay, ReadConfigMaps, ReadTags, ListPods,
              ScanPod, CheckCandidate, ScanEnds, Pause, SkipWorkload, StartPatch,
              PatchWorkload, Patch, Finish, Works
<1>5. CASE Faults
  BY <1>5 DEF Faults, ReadFails, WebhookPanics, ReturnError, ScanFails,
              PatchConflicts, AnnotateFails, Crash, Works
<1>6. CASE Start
  BY <1>6 DEF Start, ShowAll, Aside
<1> QED
  BY <1>1, <1>2, <1>3, <1>4, <1>5, <1>6 DEF Next

\* Time passes, and nothing else.
LEMMA TickKeeps ==
    ASSUME Tick
    PROVE  /\ now' = NextInstant
           /\ UNCHANGED << pods, podSeen, restartedAt, patchedAt, pc, listed >>
BY DEF Tick, cacheVars, workVars, scanVars

\* A restart is recorded with its time.
LEMMA PatchRecorded ==
    ASSUME TypeInvariant, RoundOK, TimesOK, RoundStep, NEW w \in Workloads
    PROVE  \/ restartedAt'[w] = restartedAt[w] /\ patchedAt'[w] = patchedAt[w]
           \/ restartedAt'[w] # 0 /\ patchedAt'[w] = now /\ now' = now
<1>t. restartedAt \in [Workloads -> Nat] /\ patchedAt \in [Workloads -> Nat] /\ value \in Nat
  BY RoundTypes
<1>1. CASE Patches
  <2>1. found[index] \in Workloads
    BY <1>1, FoundAtIndex DEF Patches, Restarting, RoundOK
  <2>2. CASE w = found[index] /\ restartedAt[w] # value
    <3>1. restartedAt[w] <= value
      BY <1>1, <2>2 DEF Patches, TimesOK
    <3>2. value # 0
      BY <1>t, <2>2, <3>1
    <3> QED BY <1>1, <1>t, <2>1, <2>2, <3>2 DEF Patches
  <2>3. CASE ~(w = found[index] /\ restartedAt[w] # value)
    BY <1>1, <1>t, <2>1, <2>3 DEF Patches
  <2> QED BY <2>2, <2>3
<1>2. CASE ~Patches
  BY <1>2 DEF RoundStep, Elsewhere, Ticks, Begins, Reads, Lists, Looks, Judges, Turns, Resumes,
              Passes, Chooses, Ends, Starts
<1> QED
  BY <1>1, <1>2

-----------------------------------------------------------------------------
(* Rollouts and pods.                                                      *)

\* What a step does to one pod.
LEMMA PodChanges ==
    ASSUME TypeInvariant, Aside \/ Rolls \/ Works, NEW p \in Pods
    PROVE  /\ now' = now
           /\ \/ /\ pods'[p] = pods[p]
                 /\ podSeen'[p] \in {podSeen[p], pods[p]}
              \/ /\ pods[p] # NoPod /\ Rolling(p) /\ UNCHANGED << podSeen, restartedAt, patchedAt >>
                 /\ pods'[p] = FreshPod(OwnerOf[p])
<1>t. pods \in [Pods -> PodRecords]
  BY RestTypes
<1>1. CASE Rolls
  BY <1>1, <1>t DEF Rolls, RollPod, Rolling
<1>2. CASE Aside \/ Works
  BY <1>2 DEF Aside, Works
<1> QED
  BY <1>1, <1>2

\* The clock waits for rollouts, and a new pod is one of its workload's
\* current template.
LEMMA RollsOKStep ==
    ASSUME Attended, Foundation, RollsOK, [Next]_vars
    PROVE  RollsOK'
<1> SUFFICES ASSUME NEW p \in Pods, pods'[p] # NoPod, Rolling(p)'
             PROVE  now' < patchedAt'[OwnerOf[p]] + RolloutLag
  BY DEF RollsOK
<1> DEFINE w == OwnerOf[p]
<1>t. /\ TypeInvariant /\ RoundOK /\ TimesOK /\ RoundStep
      /\ now \in Nat /\ RolloutLag \in Nat \ {0} /\ w \in Workloads
      /\ patchedAt \in [Workloads -> Nat]
  BY FoundationStep, RoundTypes, LagAssumption, TopologyAssumption DEF Foundation, DueInvariant
<1>1. CASE Tick
  <2>1. RolloutsOnTime(now') /\ UNCHANGED << pods, patchedAt, restartedAt >> /\ now' \in Nat
    BY <1>1, <1>t, BoundAssumption DEF Tick, NextInstant
  <2>2. ~(patchedAt[w] + RolloutLag <= now')
    BY <2>1 DEF RolloutsOnTime, Rolling
  <2>3. patchedAt[w] \in Nat
    BY <1>t
  <2> QED BY <1>t, <2>1, <2>2, <2>3
<1>2. CASE ~Tick
  <2>1. /\ now' = now
        /\ \/ pods'[p] = pods[p]
           \/ pods'[p] = FreshPod(w) /\ UNCHANGED restartedAt
    BY <1>2, <1>t, GroundSteps, PodChanges
  <2>2. FreshPod(w).stamp = restartedAt[w]
    BY DEF FreshPod
  <2>3. pods'[p] = pods[p]
    BY <2>1, <2>2 DEF Rolling
  <2>4. CASE restartedAt'[w] = restartedAt[w] /\ patchedAt'[w] = patchedAt[w]
    BY <2>1, <2>3, <2>4 DEF RollsOK, Rolling
  <2>5. CASE patchedAt'[w] = now
    BY <1>t, <2>1, <2>5
  <2> QED BY <1>t, <2>4, <2>5, PatchRecorded
<1> QED
  BY <1>1, <1>2

\* Pods are created by rollouts only, and while these are under way.
LEMMA BornOKStep ==
    ASSUME Attended, Foundation, RollsOK, BornOK, [Next]_vars
    PROVE  BornOK'
<1> SUFFICES ASSUME NEW p \in Pods, podSeen'[p] # pods'[p]
             PROVE  /\ restartedAt'[OwnerOf[p]] # 0
                    /\ pods'[p].born < patchedAt'[OwnerOf[p]] + RolloutLag
  BY DEF BornOK
<1> DEFINE w == OwnerOf[p]
<1>t. /\ TypeInvariant /\ RoundOK /\ TimesOK /\ RoundStep
      /\ now \in Nat /\ RolloutLag \in Nat \ {0} /\ w \in Workloads
      /\ patchedAt \in [Workloads -> Nat] /\ restartedAt \in [Workloads -> Nat]
      /\ pods[p] \in PodRecords /\ pods[p].born <= now
  BY FoundationStep, RoundTypes, RestTypes, LagAssumption, TopologyAssumption
  DEF Foundation, DueInvariant, Inv, SkipInvariant, PodsSound, PodSound
<1>1. CASE Tick
  BY <1>1, TickKeeps DEF BornOK
<1>2. CASE pods'[p] = pods[p] /\ podSeen'[p] \in {podSeen[p], pods[p]}
  <2>1. podSeen[p] # pods[p]
    BY <1>2
  <2>2. restartedAt[w] # 0 /\ pods[p].born < patchedAt[w] + RolloutLag
    BY <2>1 DEF BornOK
  <2>3. pods[p].born \in Nat
    BY <1>t DEF PodRecords
  <2> QED BY <1>2, <1>t, <2>2, <2>3, PatchRecorded
<1>3. CASE /\ pods[p] # NoPod /\ Rolling(p) /\ UNCHANGED << restartedAt, patchedAt >>
           /\ pods'[p] = FreshPod(w)
  <2>1. now < patchedAt[w] + RolloutLag
    BY <1>3 DEF RollsOK
  <2>2. FreshPod(w).born = now
    BY DEF FreshPod
  <2>3. pods[p].stamp \in Nat /\ pods[p].stamp <= restartedAt[w]
    BY <1>t DEF Foundation, StampOK, PodRecords
  <2>4. restartedAt[w] # 0
    BY <1>3, <1>t, <2>3 DEF Rolling
  <2> QED BY <1>3, <2>1, <2>2, <2>4
<1> QED
  BY <1>1, <1>2, <1>3, <1>t, GroundSteps, PodChanges
-----------------------------------------------------------------------------
(* The scan.                                                               *)

Busy == Scanning \cup Restarting

\* What a step does to the lists of a scan: it makes them, takes a pod from
\* them, judges it, or leaves them alone but for pods that are passed over.
ListsAnew ==
    /\ pc = "list" /\ pc' = "scan" /\ listed' = podSeen
    /\ \A p \in todo' : podSeen[p] # NoPod
    /\ UNCHANGED << found, pods, now, restartedAt, patchedAt >>

Selects ==
    /\ pc = "scan" /\ pc' = "check"
    /\ candidate' \in todo /\ todo' \subseteq todo
    /\ UNCHANGED << listed, found >>

Verdict ==
    /\ pc = "check" /\ pc' = "scan"
    /\ \/ UNCHANGED found
       \/ Outdated(candidate, revOrTag) /\ found' = Append(found, OwnerOf[candidate])
    /\ UNCHANGED << listed, todo >>

GoesOn ==
    /\ pc \in Busy
    /\ pc' \in Scanning => pc \in Scanning /\ todo' \subseteq todo
    /\ pc' = "check" => pc = "check" /\ UNCHANGED candidate
    /\ UNCHANGED << listed, found >>

\* What a step that leaves the worker busy does to the list of the scan.
LEMMA ScanSteps ==
    ASSUME TypeInvariant, [Next]_vars, pc' \in Busy
    PROVE  ListsAnew \/ Selects \/ Verdict \/ GoesOn
<1> USE DEF clusterVars, cacheVars, controllerVars, workVars, configVars, scanVars,
            annotatorVars, queueVars, unwatched, scanUnchanged, annotateUnchanged,
            Busy, Scanning, Restarting
<1>1. CASE ClusterStep \/ Tick \/ PeriodicTick \/ Deliveries \/ UNCHANGED vars
  BY <1>1 DEF ClusterStep, Tick, PeriodicTick, Deliveries, SyncConfigMap, SyncTag,
              SyncNamespace, SyncWorkload, SyncPod, BackoffExpires, vars, GoesOn
<1>2. CASE ListPods
  BY <1>2 DEF ListPods, listPods, ListsAnew
<1>3. CASE \E p \in Pods : ScanPod(p)
  BY <1>3 DEF ScanPod, PassOverPod, SelectPod, Selects, GoesOn
<1>4. CASE CheckCandidate
  BY <1>4 DEF CheckCandidate, CheckPod, Verdict
<1>5. CASE ScanFails
  BY <1>5 DEF ScanFails, LookupFails, WebhookFails, GoesOn
<1>6. CASE ScanEnds \/ Pause \/ SkipWorkload \/ StartPatch \/ PatchWorkload \/ PatchConflicts
           \/ AnnotateFails
  BY <1>6 DEF ScanEnds, Pause, SkipWorkload, StartPatch, PatchWorkload, PatchConflicts,
              AnnotateFails, NextWorkload, GoesOn
<1>7. CASE (\E q \in Requests : Dequeue(q)) \/ AwaitIstiodConfigReadDelay \/ ReadConfigMaps
           \/ ReadTags \/ Finish \/ ReadFails \/ WebhookPanics \/ Crash \/ Start
  BY <1>7 DEF Dequeue, AwaitIstiodConfigReadDelay, ReadConfigMaps, ReadTags, Finish, ReadFails,
              WebhookPanics, ReturnError, EndReconcile, Crash, Start
<1> QED
  BY <1>1, <1>2, <1>3, <1>4, <1>5, <1>6, <1>7 DEF Next, Worker, Faults


\* The scan looks at what it listed.
LEMMA CandidateOKStep ==
    ASSUME Foundation, CandidateOK, [Next]_vars
    PROVE  CandidateOK'
<1>t. TypeInvariant /\ todo \subseteq Pods
  BY FoundationStep, RoundTypes DEF Foundation
<1>0. CASE pc' \notin Busy
  BY <1>0 DEF Busy, CandidateOK, Scanning
<1>s. ASSUME pc' \in Busy PROVE ListsAnew \/ Selects \/ Verdict \/ GoesOn
  BY <1>s, <1>t, ScanSteps
<1>1. CASE ListsAnew
  BY <1>1 DEF ListsAnew, CandidateOK
<1>2. CASE Selects
  BY <1>2 DEF Selects, CandidateOK, Scanning
<1>3. CASE Verdict
  BY <1>3 DEF Verdict, CandidateOK, Scanning
<1>4. CASE GoesOn
  BY <1>4 DEF GoesOn, CandidateOK
<1> QED
  BY <1>0, <1>s, <1>1, <1>2, <1>3, <1>4

\* A pod's image is that of a version, and versions do not change.
LEMMA ImageKept ==
    ASSUME Foundation, Moves, NEW p \in Pods, listed'[p] = listed[p]
    PROVE  getIstioProxyImage(listed[p])' = getIstioProxyImage(listed[p])
<1> DEFINE pod == listed[p]
<1>1. TypeInvariant /\ SidecarSound(pod, configMaps)
  BY DEF Foundation, DueInvariant, Inv, SkipInvariant, PodsSound, PodSound
<1>2. pod.rev = None \/ pod.rev \in Revisions
  BY <1>1, RestTypes DEF PodRecords
<1>3. pod.rev # None => configMaps'[pod.rev][pod.ver] = configMaps[pod.rev][pod.ver]
  BY <1>1, <1>2 DEF SidecarSound, Moves, Continues
<1> QED
  BY <1>3 DEF getIstioProxyImage

\* A pod that is found outdated has another image than the webhook's answer.
LEMMA OutdatedHasReason ==
    ASSUME TypeInvariant, CandidateOK, pc = "check", Outdated(candidate, revOrTag),
           NEW answer,
           answer = CallWebhook(buildPodFromWorkload(OwnerOf[candidate]),
                                RevisionFor(revOrTag), revOrTag = Default)
    PROVE  /\ candidate \in Pods /\ listed[candidate] # NoPod
           /\ answer \in Images
           /\ << getIstioProxyImage(listed[candidate]), answer >> \notin MatchingImages
<1> DEFINE r == WebhookRevision(RevisionFor(revOrTag), revOrTag = Default)
<1>1. candidate \in Pods /\ listed[candidate] # NoPod
  BY RoundTypes DEF CandidateOK
<1>2. answer # NoImage /\ << getIstioProxyImage(listed[candidate]), answer >> \notin MatchingImages
  BY DEF Outdated
<1>3. r \in Revisions /\ answer = configMaps[r][istiod[r]].image
  BY <1>2 DEF CallWebhook
<1> HIDE DEF r
<1>4. istiod[r] \in 1 .. Len(configMaps[r])
  BY <1>3 DEF TypeInvariant, CursorsInRange
<1>5. configMaps[r][istiod[r]] \in ConfigMapVersions
  BY <1>3, <1>4, RestTypes
<1> QED
  BY <1>1, <1>2, <1>3, <1>5 DEF ConfigMapVersions

\* What was found keeps its reason, and nothing is found without one.
LEMMA JudgedOKStep ==
    ASSUME Foundation, CandidateOK, JudgedOK, VerdictStep
    PROVE  JudgedOK'
<1> DEFINE Because(w, p) ==
              /\ OwnerOf[p] = w /\ listed'[p] # NoPod
              /\ expected'[w] \in Images
              /\ << getIstioProxyImage(listed[p])', expected'[w] >> \notin MatchingImages
<1>t. /\ TypeInvariant /\ RoundOK /\ RoundOK' /\ Moves /\ [Next]_vars
      /\ found \in Seq(Workloads) /\ Len(found) \in Nat /\ DOMAIN found = 1 .. Len(found)
  BY StepIsNext, FoundationStep, RoundTypes DEF Foundation, DueInvariant
<1>k. ASSUME listed' = listed, NEW i \in DOMAIN found, found[i] \in Found(found')
      PROVE  \E p \in Pods : Because(found[i], p)
  <2>1. PICK p \in Pods : Reason(found[i], p)
    BY DEF JudgedOK
  <2>2. found[i] \in Workloads \cap Found(found') /\ found[i] \in Found(found)
    BY <1>t, <1>k DEF Found
  <2>3. expected'[found[i]] = expected[found[i]]
    BY <2>2, Remembers
  <2>4. getIstioProxyImage(listed[p])' = getIstioProxyImage(listed[p])
    BY <1>t, <1>k, ImageKept
  <2> QED BY <1>k, <2>1, <2>3, <2>4 DEF Reason
<1>0. CASE pc' \notin Busy
  BY <1>0, <1>t DEF Busy, RoundOK, JudgedOK
<1>s. ASSUME pc' \in Busy PROVE ListsAnew \/ Selects \/ Verdict \/ GoesOn
  BY <1>s, <1>t, ScanSteps
<1>1. CASE ListsAnew
  BY <1>1, <1>t DEF ListsAnew, RoundOK, JudgedOK, Scanning, Restarting
<1>2. CASE UNCHANGED << listed, found >>
  BY <1>2, <1>k DEF JudgedOK, Reason, Found
<1>3. CASE Verdict /\ Outdated(candidate, revOrTag) /\ found' = Append(found, OwnerOf[candidate])
  <2> DEFINE w == OwnerOf[candidate]
             answer == CallWebhook(buildPodFromWorkload(w), RevisionFor(revOrTag),
                                   revOrTag = Default)
  <2>1. /\ candidate \in Pods /\ w \in Workloads /\ listed[candidate] # NoPod
        /\ listed' = listed /\ answer \in Images
        /\ << getIstioProxyImage(listed[candidate]), answer >> \notin MatchingImages
    BY <1>3, <1>t, OutdatedHasReason, TopologyAssumption DEF Verdict
  <2>2. /\ DOMAIN found' = 1 .. (Len(found) + 1)
        /\ found'[Len(found) + 1] = w
        /\ \A i \in 1 .. Len(found) : found'[i] = found[i]
    BY <1>3, <1>t, <2>1, AppendItem
  <2> SUFFICES ASSUME NEW i \in DOMAIN found'
               PROVE  \E p \in Pods : Because(found'[i], p)
    BY DEF JudgedOK, Reason
  <2>3. ASSUME NEW j \in DOMAIN found, found'[i] = found[j]
        PROVE  \E p \in Pods : Because(found'[i], p)
    <3>1. found[j] \in Found(found')
      BY <2>3 DEF Found
    <3> HIDE DEF Because
    <3> QED BY <1>k, <2>1, <2>3, <3>1
  <2>4. CASE i = Len(found) + 1 /\ w \notin Found(found)
    <3>1. w \in Workloads \cap Found(found') /\ found'[i] = w
      BY <2>1, <2>2, <2>4 DEF Found
    <3>2. expected'[w] = answer
      BY <2>4, <3>1, Remembers
    <3>3. PICK p \in Pods : p = candidate
      BY <2>1
    <3>4. getIstioProxyImage(listed[p])' = getIstioProxyImage(listed[p])
      BY <1>t, <2>1, ImageKept
    <3> HIDE DEF answer
    <3> QED BY <2>1, <3>1, <3>2, <3>3, <3>4
  <2>5. CASE i = Len(found) + 1 /\ w \in Found(found)
    <3>1. PICK j \in DOMAIN found : found[j] = w
      BY <2>5 DEF Found
    <3> QED BY <2>2, <2>3, <2>5, <3>1
  <2>6. CASE i \in DOMAIN found
    BY <1>t, <2>2, <2>3, <2>6
  <2> QED BY <1>t, <2>2, <2>4, <2>5, <2>6
<1> QED
  BY <1>0, <1>s, <1>1, <1>2, <1>3 DEF Selects, Verdict, GoesOn

-----------------------------------------------------------------------------
(* The age of a verdict.                                                   *)

\* The list is not from the future.
LEMMA ListTimeStep ==
    ASSUME Foundation, ListTimeOK, VerdictStep
    PROVE  ListTimeOK'
<1>1. now \in Nat /\ now' \in Nat /\ now <= now'
  BY StepIsNext, FoundationStep, RoundTypes DEF Moves
<1>2. listedAt' \in {now, listedAt, 0}
  BY Remembers
<1> QED
  BY <1>1, <1>2 DEF ListTimeOK

\* When pods are listed, a pod that is not there any more, or is not going to
\* stay, belongs to a rollout the cache need not have seen the end of.
LEMMA ListedNow ==
    ASSUME Foundation, RollsOK, BornOK, pc # "down", NEW p \in Pods, podSeen[p] # NoPod
    PROVE  \/ podSeen[p] = pods[p] /\ ~Rolling(p)
           \/ /\ restartedAt[OwnerOf[p]] # 0
              /\ now + 1 < patchedAt[OwnerOf[p]] + RolloutLag + InformerLag
<1> DEFINE w == OwnerOf[p]
<1>t. /\ TypeInvariant /\ now \in Nat /\ w \in Workloads
      /\ RolloutLag \in Nat \ {0} /\ InformerLag \in Nat \ {0}
      /\ patchedAt[w] \in Nat /\ restartedAt[w] \in Nat
      /\ pods[p].born \in Nat /\ pods[p].stamp \in Nat
  <2>1. TypeInvariant /\ w \in Workloads
    BY TopologyAssumption DEF Foundation, DueInvariant
  <2>2. pods[p] \in PodRecords
    BY <2>1, RestTypes
  <2> QED BY <2>1, <2>2, RoundTypes, LagAssumption DEF PodRecords
<1>1. CASE podSeen[p] # pods[p]
  <2>1. restartedAt[w] # 0 /\ pods[p].born < patchedAt[w] + RolloutLag
    BY <1>1 DEF BornOK
  <2>2. ~(pods[p].born + InformerLag <= now)
    BY <1>1 DEF Foundation, PodsShown
  <2> QED BY <1>t, <2>1, <2>2
<1>2. CASE podSeen[p] = pods[p] /\ Rolling(p)
  <2>1. now < patchedAt[w] + RolloutLag
    BY <1>2 DEF RollsOK
  <2>2. pods[p].stamp <= restartedAt[w] /\ pods[p].stamp # restartedAt[w]
    BY <1>2 DEF Foundation, StampOK, Rolling
  <2>3. restartedAt[w] # 0
    BY <1>t, <2>2
  <2> QED BY <1>t, <2>1, <2>3
<1> QED
  BY <1>1, <1>2

\* A listed pod stays, or its workload is recent from then on.
LEMMA ListedOKStep ==
    ASSUME Attended, Foundation, RollsOK, BornOK, ListTimeOK, ListedOK, VerdictStep
    PROVE  ListedOK'
<1> SUFFICES ASSUME pc' \in Busy, NEW p \in Pods, listed'[p] # NoPod
             PROVE  Stays(p)' \/ Recent(OwnerOf[p])'
  BY DEF ListedOK, Busy
<1> DEFINE w == OwnerOf[p]
<1>t. /\ TypeInvariant /\ RoundOK /\ TimesOK /\ RoundStep /\ [Next]_vars
      /\ now \in Nat /\ w \in Workloads
      /\ listedAt \in Nat /\ listedAt <= now
      /\ patchedAt[w] \in Nat /\ restartedAt[w] \in Nat
      /\ RolloutLag \in Nat \ {0} /\ InformerLag \in Nat \ {0}
  BY StepIsNext, FoundationStep, RoundTypes, LagAssumption, TopologyAssumption
  DEF Foundation, DueInvariant, ListTimeOK
<1>1. CASE ListsAnew
  <2>1. \/ podSeen[p] = pods[p] /\ ~Rolling(p)
        \/ /\ restartedAt[w] # 0
           /\ now + 1 < patchedAt[w] + RolloutLag + InformerLag
    BY <1>1, ListedNow DEF ListsAnew
  <2>2. listedAt' = now
    BY <1>1, Remembers DEF ListsAnew, Resting
  <2> QED BY <1>1, <2>1, <2>2 DEF ListsAnew, Stays, Rolling, Recent
<1>2. CASE pc \in Busy /\ UNCHANGED listed
  <2>1. Stays(p) \/ Recent(w)
    BY <1>2 DEF ListedOK, Busy
  <2>2. listedAt' = listedAt
    BY <1>2, Remembers DEF Busy, Scanning, Restarting, Resting
  <2>3. CASE Tick
    BY <1>2, <2>1, <2>2, <2>3, TickKeeps DEF Stays, Rolling, Recent
  <2>4. CASE ~Tick
    <3>1. Aside \/ Rolls \/ Works
      BY <1>t, <2>4, GroundSteps
    <3>2. Stays(p) => pods'[p] = pods[p]
      BY <1>t, <3>1, PodChanges DEF Stays
    <3>3. CASE restartedAt'[w] = restartedAt[w] /\ patchedAt'[w] = patchedAt[w]
      BY <1>2, <2>1, <2>2, <3>2, <3>3 DEF Stays, Rolling, Recent
    <3>4. CASE restartedAt'[w] # 0 /\ patchedAt'[w] = now
      BY <1>t, <2>2, <3>4 DEF Recent
    <3> QED BY <1>t, <3>3, <3>4, PatchRecorded
  <2> QED BY <2>3, <2>4
<1> QED
  BY <1>t, <1>1, <1>2, ScanSteps DEF Selects, Verdict, GoesOn, Busy, Scanning, Restarting

-----------------------------------------------------------------------------
(* The theorem.                                                            *)

\* Everything is settled and shown when the process starts.
LEMMA InitNeeded == VerdictInit => NeededInvariant
<1> SUFFICES ASSUME VerdictInit PROVE NeededInvariant
  OBVIOUS
<1>1. Init /\ listedAt = 0
  BY DEF VerdictInit
<1>2. Backdrop /\ TypeInvariant /\ now \in Nat
  BY <1>1, InitRest, BackdropTypes, RoundTypes DEF RestInvariant
<1>3. Foundation
  <2>1. SettledOK /\ ShownOK /\ ChosenOK
    BY <1>1 DEF Init, CacheInit, SettledOK, ShownOK, ChosenOK, Resting
  <2> QED BY <1>2, <2>1 DEF Foundation, DueInvariant, Backdrop
<1>4. pc = "idle" /\ found = << >> /\ podSeen = pods
  BY <1>1 DEF Init, CacheInit, ScanInit
<1>5. BornOK /\ ListTimeOK /\ ListedOK /\ JudgedOK /\ CandidateOK
  BY <1>1, <1>2, <1>4
  DEF BornOK, ListTimeOK, ListedOK, JudgedOK, CandidateOK, Scanning, Restarting
<1>6. RollsOK
  <2>1. \A p \in Pods : OwnerOf[p] \in Workloads /\ pods[p] \in {FreshPod(OwnerOf[p]), NoPod}
    BY <1>1, TopologyAssumption DEF Init, ClusterInit
  <2>2. \A w \in Workloads : FreshPod(w).stamp = restartedAt[w]
    BY DEF FreshPod
  <2> QED BY <2>1, <2>2 DEF RollsOK, Rolling
<1> QED
  BY <1>3, <1>5, <1>6 DEF NeededInvariant

\* A workload that is patched after the cooldown is not recent, if that covers
\* the verdict: the list was made after its last rollout had ended and was
\* shown.
LEMMA NotRecent ==
    ASSUME Attended, NeededInvariant, pc = "patch", now < MaxTime,
           CooldownCovers(found[index])
    PROVE  ~Recent(found[index])
<1> DEFINE w == found[index]
<1>1. TypeInvariant /\ RoundOK /\ ChosenOK /\ ListTimeOK
  BY DEF NeededInvariant, Foundation, DueInvariant
<1>2. w \in Workloads
  BY <1>1, FoundAtIndex DEF RoundOK, Restarting
<1> SUFFICES ASSUME restartedAt[w] # 0,
                    listedAt + 1 < patchedAt[w] + RolloutLag + InformerLag
             PROVE  FALSE
  BY DEF Recent
<1>3. restartedAt[w] + AnnotationCooldown <= now
  BY <1>1 DEF ChosenOK, Attended
<1>4. (patchedAt[w] - restartedAt[w]) + RolloutLag + InformerLag + (now - listedAt)
         <= AnnotationCooldown + 1
  BY DEF CooldownCovers
<1>5. /\ now \in Nat /\ patchedAt[w] \in Nat /\ restartedAt[w] \in Nat /\ listedAt \in Nat
      /\ RolloutLag \in Nat /\ InformerLag \in Nat /\ AnnotationCooldown \in Nat
  BY <1>1, <1>2, RoundTypes, LagAssumption, AnnotatorAssumption DEF ListTimeOK
<1> HIDE DEF w
<1> QED
  BY <1>3, <1>4, <1>5

\* No workload is restarted for nothing: when restartedAt changes, one of the
\* pods that no rollout is going to replace carries another image than the
\* webhook answered with in this reconcile, if the cooldown covers the
\* verdict; whatever changes, fails, conflicts, crashes or takes its time
\* meanwhile (ScanOutdatedPods, annotateWorkloadsWithDelay, Annotate).
THEOREM NoneForNothing ==
    ASSUME MaxEvictions = 0, InformerLag <= IstiodConfigReadDelay
    PROVE  VerdictSpec => RestartsAreNeeded
<1>a. Attended
  BY DEF Attended
<1>1. NeededInvariant /\ VerdictStep => NeededInvariant'
  BY <1>a, StepIsNext, FoundationStep, RollsOKStep, BornOKStep, ListTimeStep, ListedOKStep,
     JudgedOKStep, CandidateOKStep
  DEF NeededInvariant
<1>2. ASSUME NeededInvariant, VerdictStep, NEW w \in Workloads,
             now < MaxTime, restartedAt'[w] # restartedAt[w], CooldownCovers(w)
      PROVE  \E p \in Pods :
                /\ OwnerOf[p] = w /\ pods[p] # NoPod
                /\ pods[p].stamp = restartedAt[w]
                /\ expected[w] \in Images
                /\ << getIstioProxyImage(pods[p]), expected[w] >> \notin MatchingImages
  <2>1. TypeInvariant /\ RoundOK /\ RoundStep
    BY <1>2, StepIsNext, RoundSteps DEF NeededInvariant, Foundation, DueInvariant
  <2>2. pc = "patch" /\ found[index] = w /\ index \in DOMAIN found
    BY <1>2, <2>1, OnlyPatches, FoundAtIndex DEF Patches, RoundOK, Restarting
  <2>3. PICK p \in Pods : Reason(w, p)
    BY <1>2, <2>2 DEF NeededInvariant, JudgedOK
  <2>4. Stays(p)
    BY <1>a, <1>2, <2>2, <2>3, NotRecent DEF NeededInvariant, ListedOK, Restarting, Reason
  <2> QED BY <2>3, <2>4 DEF Stays, Rolling, Reason
<1>3. NeededInvariant /\ VerdictStep =>
         [\A w \in Workloads :
             (now < MaxTime /\ restartedAt'[w] # restartedAt[w] /\ CooldownCovers(w))
             => \E p \in Pods :
                   /\ OwnerOf[p] = w /\ pods[p] # NoPod
                   /\ pods[p].stamp = restartedAt[w]
                   /\ expected[w] \in Images
                   /\ << getIstioProxyImage(pods[p]), expected[w] >> \notin MatchingImages]_vars
  BY <1>2
<1> QED
  BY <1>1, <1>3, InitNeeded, PTL DEF VerdictSpec, VerdictStep, RestartsAreNeeded
=============================================================================
