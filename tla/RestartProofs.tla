--------------------------- MODULE RestartProofs ---------------------------
(***************************************************************************)
(* Proofs, for all values of the constants, about what fortsa restarts and *)
(* when: only workloads of the request's scope, spaced by --restart-delay, *)
(* not within the cooldown, never with the value that is there already.    *)
(*                                                                         *)
(* All of these depend on a handful of variables.  RoundStep says what the *)
(* steps of the controller do to them; the invariants follow from it.      *)
(***************************************************************************)
EXTENDS IstioChangeProofs

Resting    == {"idle", "down"}
Scanning   == {"scan", "check"}
Restarting == {"annotate", "patch", "pause"}

-----------------------------------------------------------------------------
(* The steps of a round.                                                   *)

\* The cluster, a cache, the queue, a Conflict.
Elsewhere ==
    UNCHANGED << pc, request, index, found, todo, candidate, value, timer,
                 restartedAt, patchedAt, now >>

Ticks ==
    /\ now' = NextInstant
    /\ timer' = IF timer > 0 THEN timer - 1 ELSE 0
    /\ pc # "down" => CachesOnTime(now')
    /\ UNCHANGED << pc, request, index, found, todo, candidate, value,
                    restartedAt, patchedAt >>

Begins ==
    /\ pc = "idle" /\ pc' = "await"
    /\ request' \in Requests
    /\ timer' = IstiodConfigReadDelay
    /\ UNCHANGED << index, found, todo, candidate, value, restartedAt,
                    patchedAt, now >>

Reads ==
    /\ pc \in {"await", "configmaps", "tags"} /\ pc' \in {"configmaps", "tags", "list"}
    /\ pc = "await" => timer = 0
    /\ UNCHANGED << request, index, found, todo, candidate, value, timer,
                    restartedAt, patchedAt, now >>

Lists ==
    /\ pc = "list" /\ pc' = "scan"
    /\ todo' \subseteq Pods
    /\ \A p \in todo' : NamespaceOf[OwnerOf[p]] \in LimitToNamespaces
    /\ UNCHANGED << request, index, found, candidate, value, timer,
                    restartedAt, patchedAt, now >>

\* A pod is passed over, dropped or selected for the webhook.
Looks ==
    /\ pc \in Scanning /\ pc' \in Scanning
    /\ todo' \subseteq todo
    /\ pc' = "check" => /\ pc = "scan" /\ candidate' \in todo
                        /\ NamespaceOf[OwnerOf[candidate']] \notin SkipNamespaces
    /\ UNCHANGED << request, index, found, value, timer, restartedAt,
                    patchedAt, now >>

Judges ==
    /\ pc = "check" /\ pc' = "scan"
    /\ \/ UNCHANGED found
       \/ ~Seen(OwnerOf[candidate]) /\ found' = Append(found, OwnerOf[candidate])
    /\ UNCHANGED << request, index, todo, value, timer, restartedAt,
                    patchedAt, now >>

Turns ==
    /\ pc = "scan" /\ pc' = "annotate"
    /\ index' = 1
    /\ UNCHANGED << request, found, value, timer, restartedAt, patchedAt, now >>

Resumes ==
    /\ pc = "pause" /\ pc' = "annotate"
    /\ timer = 0
    /\ UNCHANGED << request, index, found, timer, restartedAt, patchedAt, now >>

\* Skipped or failed: on to the next workload.
Passes ==
    /\ pc \in {"annotate", "patch"}
    /\ pc = "annotate" => index <= Len(found)
    /\ NextWorkload
    /\ UNCHANGED << request, found, restartedAt, patchedAt, now >>

Chooses ==
    /\ pc = "annotate" /\ pc' = "patch"
    /\ index <= Len(found)
    /\ ~DryRun
    /\ ~CoolingDown(found[index])
    /\ value' = Trunc(now)
    /\ UNCHANGED << request, index, found, timer, restartedAt, patchedAt, now >>

Patches ==
    /\ pc = "patch"
    /\ restartedAt' = [restartedAt EXCEPT ![found[index]] = value]
    /\ patchedAt' = IF restartedAt[found[index]] = value THEN patchedAt
                    ELSE [patchedAt EXCEPT ![found[index]] = now]
    /\ NextWorkload
    /\ UNCHANGED << request, found, now >>

\* Success, error, panic or crash.
Ends ==
    /\ pc # "down" /\ pc' \in Resting
    /\ request' = None /\ index' = 0 /\ found' = << >> /\ timer' = 0
    /\ UNCHANGED << restartedAt, patchedAt, now >>

Starts ==
    /\ pc = "down" /\ pc' = "idle"
    /\ wlSeen' = restartedAt
    /\ UNCHANGED << request, index, found, timer, restartedAt, patchedAt, now >>

\* What the cache shows of a workload is what it showed or what is there.
WorkloadsShown == \A w \in Workloads : wlSeen'[w] \in {wlSeen[w], restartedAt[w]}

RoundStep ==
    /\ WorkloadsShown
    /\ \/ Elsewhere \/ Ticks \/ Begins \/ Reads \/ Lists \/ Looks \/ Judges \/ Turns
       \/ Resumes \/ Passes \/ Chooses \/ Patches \/ Ends \/ Starts

\* Every step of the system is a step of the round.
LEMMA RoundSteps ==
    ASSUME TypeInvariant, [Next]_vars
    PROVE  RoundStep
<1> USE DEF clusterVars, cacheVars, controllerVars, workVars, configVars, scanVars,
            annotatorVars, queueVars, unwatched, scanUnchanged, annotateUnchanged
<1>t. wlSeen \in [Workloads -> Nat] /\ todo \subseteq Pods
  BY DEF TypeInvariant, TypeOK, CacheTypeOK, ScanTypeOK
<1>1. CASE ClusterStep
  BY <1>1 DEF ClusterStep, UpdateConfigMap, IstiodReload, RetagMWC, RelabelNamespace,
              EvictPod, RollPod, RoundStep, WorkloadsShown, Elsewhere
<1>2. CASE Tick
  BY <1>2 DEF Tick, RoundStep, WorkloadsShown, Ticks
<1>3. CASE Deliveries
  <2>1. Elsewhere
    BY <1>3 DEF Deliveries, SyncConfigMap, SyncTag, SyncNamespace, SyncWorkload, SyncPod,
                BackoffExpires, Elsewhere
  <2>2. WorkloadsShown
    BY <1>3, <1>t
    DEF Deliveries, SyncConfigMap, SyncTag, SyncNamespace, SyncWorkload, SyncPod, WorkloadsShown,
        BackoffExpires, ShowConfigMap, ShowTag, ShowNamespace, ShowWorkload, ShowPod
  <2> QED BY <2>1, <2>2 DEF RoundStep
<1>4. CASE PeriodicTick \/ UNCHANGED vars
  BY <1>4 DEF PeriodicTick, vars, RoundStep, WorkloadsShown, Elsewhere
<1>5. CASE \E q \in Requests : Dequeue(q)
  BY <1>5 DEF Dequeue, RoundStep, WorkloadsShown, Begins
<1>6. CASE AwaitIstiodConfigReadDelay \/ ReadConfigMaps \/ ReadTags
  BY <1>6 DEF AwaitIstiodConfigReadDelay, ReadConfigMaps, ReadTags, RoundStep, WorkloadsShown,
              Reads
<1>7. CASE ListPods
  BY <1>7 DEF ListPods, listPods, RoundStep, WorkloadsShown, Lists
<1>8. CASE (\E p \in Pods : ScanPod(p)) \/ ScanFails
  <2>1. UNCHANGED << request, index, found, value, timer, restartedAt, patchedAt, now, wlSeen >>
    BY <1>8 DEF ScanPod, ScanFails, PassOverPod, SelectPod, LookupFails, WebhookFails
  <2>2. CASE pc' = "check"
    BY <1>8, <2>1, <2>2 DEF ScanPod, ScanFails, PassOverPod, SelectPod, PassedOver, RoundStep,
                            WorkloadsShown, Looks, Scanning
  <2>3. CASE pc' # "check"
    BY <1>8, <2>1, <2>3 DEF ScanPod, ScanFails, PassOverPod, SelectPod, LookupFails, WebhookFails,
                            RoundStep, WorkloadsShown, Looks, Scanning
  <2> QED BY <2>2, <2>3
<1>9. CASE CheckCandidate
  BY <1>9 DEF CheckCandidate, CheckPod, RoundStep, WorkloadsShown, Judges
<1>10. CASE ScanEnds
  BY <1>10 DEF ScanEnds, RoundStep, WorkloadsShown, Turns
<1>11. CASE Pause
  BY <1>11 DEF Pause, RoundStep, WorkloadsShown, Resumes
<1>12. CASE SkipWorkload \/ AnnotateFails
  BY <1>12 DEF SkipWorkload, AnnotateFails, RoundStep, WorkloadsShown, Passes
<1>13. CASE StartPatch
  BY <1>13 DEF StartPatch, ChooseValue, RoundStep, WorkloadsShown, Chooses
<1>14. CASE PatchWorkload
  BY <1>14 DEF PatchWorkload, Patch, RoundStep, WorkloadsShown, Patches
<1>15. CASE PatchConflicts
  <2>1. CASE PatchConflict /\ UNCHANGED << pc, timer, index >>
    BY <1>15, <2>1 DEF PatchConflicts, PatchConflict, RoundStep, WorkloadsShown, Elsewhere
  <2>2. CASE PatchGivesUp(TRUE) /\ NextWorkload
    BY <1>15, <2>2 DEF PatchConflicts, RoundStep, WorkloadsShown, Passes
  <2> QED BY <1>15, <2>1, <2>2 DEF PatchConflicts
<1>16. CASE ReadFails \/ WebhookPanics \/ Finish \/ Crash
  BY <1>16 DEF ReadFails, WebhookPanics, ReturnError, Finish, Crash, EndReconcile, ScanReset,
               RoundStep, WorkloadsShown, Ends, Resting
<1>17. CASE Start
  BY <1>17 DEF Start, ShowAll, RoundStep, WorkloadsShown, Starts
<1> QED
  BY <1>1, <1>2, <1>3, <1>4, <1>5, <1>6, <1>7, <1>8, <1>9, <1>10, <1>11, <1>12, <1>13, <1>14,
     <1>15, <1>16, <1>17 DEF Next, Worker, Faults

-----------------------------------------------------------------------------
(* What a reconcile restarts.                                              *)

\* The workloads to restart are those of one round: none before its scan, in
\* scope, each once, and index is the position in their list.
RoundOK ==
    /\ request = None <=> pc \in Resting
    /\ pc \notin Scanning \cup Restarting => found = << >>
    /\ IF pc \in Restarting THEN index >= 1 ELSE index = 0
    /\ pc \in {"patch", "pause"} => index <= Len(found)
    /\ pc = "patch" => ~DryRun
    /\ \A i, j \in DOMAIN found : found[i] = found[j] => i = j

\* The pods being looked at are in scope, and so is what was found.
ScopeOK ==
    /\ pc \in Scanning => \A p \in todo : NamespaceOf[OwnerOf[p]] \in LimitToNamespaces
    /\ pc = "check" => NamespaceOf[OwnerOf[candidate]] \in LimitToNamespaces \ SkipNamespaces
    /\ RestartsInScope

\* The types the steps of a round rely on.
LEMMA RoundTypes ==
    ASSUME TypeInvariant
    PROVE  /\ now \in Nat /\ timer \in Nat /\ index \in Nat /\ value \in Nat
           /\ restartedAt \in [Workloads -> Nat] /\ patchedAt \in [Workloads -> Nat]
           /\ wlSeen \in [Workloads -> Nat]
           /\ found \in Seq(Workloads) /\ todo \subseteq Pods
           /\ Len(found) \in Nat /\ DOMAIN found = 1 .. Len(found)
           /\ pc = "check" => candidate \in Pods /\ OwnerOf[candidate] \in Workloads
           /\ pc \in Locations
<1>1. found \in Seq(Workloads)
  BY DEF TypeInvariant, TypeOK, ScanTypeOK
<1> QED
  BY <1>1, TopologyAssumption
  DEF TypeInvariant, TypeOK, ClusterTypeOK, ConfigTypeOK, CacheTypeOK, ScanTypeOK,
      ControllerTypeOK, WorkerOK

\* annotateWorkloadsWithDelay waits only if another workload follows.
LEMMA MovesOn ==
    ASSUME TypeInvariant, NextWorkload, UNCHANGED found
    PROVE  /\ index' = index + 1 /\ pc' \in {"pause", "annotate"}
           /\ pc' = "pause" => index' <= Len(found) /\ timer' = RestartDelay
           /\ pc' = "annotate" => timer' = 0
           /\ pc' = "annotate" => index' > Len(found) \/ RestartDelay = 0
BY RoundTypes, ReconcilerAssumption DEF NextWorkload

\* Append adds an element at the end.
LEMMA AppendItem ==
    ASSUME NEW S, NEW s \in Seq(S), NEW e \in S, NEW g, g = Append(s, e)
    PROVE  /\ DOMAIN g = 1 .. (Len(s) + 1) /\ Len(g) = Len(s) + 1
           /\ g[Len(s) + 1] = e
           /\ \A i \in 1 .. Len(s) : g[i] = s[i]
OBVIOUS

\* The list grows only by a workload that is not in it.
LEMMA JudgesOnce ==
    ASSUME TypeInvariant, RoundOK, Judges
    PROVE  \A i, j \in DOMAIN found' : found'[i] = found'[j] => i = j
<1> DEFINE w == OwnerOf[candidate]
<1>t. /\ found \in Seq(Workloads) /\ Len(found) \in Nat /\ DOMAIN found = 1 .. Len(found)
      /\ w \in Workloads
  BY RoundTypes DEF Judges
<1>1. CASE UNCHANGED found
  BY <1>1 DEF RoundOK
<1>2. CASE ~Seen(w) /\ found' = Append(found, w)
  <2>1. \A i \in DOMAIN found : found[i] # w
    BY <1>2 DEF Seen
  <2>2. /\ DOMAIN found' = 1 .. (Len(found) + 1)
        /\ found'[Len(found) + 1] = w
        /\ \A i \in 1 .. Len(found) : found'[i] = found[i]
    BY <1>2, <1>t, AppendItem
  <2> QED BY <1>t, <2>1, <2>2 DEF RoundOK
<1> QED
  BY <1>1, <1>2 DEF Judges

\* A round starts with an empty list, fills it in the scan and empties it at
\* its end, whatever ends it.
LEMMA RoundOKStep ==
    ASSUME TypeInvariant, RoundOK, RoundStep
    PROVE  RoundOK'
<1> USE RoundTypes DEF RoundOK, Resting, Scanning, Restarting
<1>1. CASE Elsewhere
  BY <1>1 DEF Elsewhere
<1>2. CASE Ticks
  BY <1>2 DEF Ticks
<1>3. CASE Begins
  BY <1>3, ReconcilerAssumption DEF Begins, Requests
<1>4. CASE Reads
  BY <1>4 DEF Reads
<1>5. CASE Lists
  BY <1>5 DEF Lists
<1>6. CASE Looks
  BY <1>6 DEF Looks
<1>7. CASE Judges
  <2>1. \A i, j \in DOMAIN found' : found'[i] = found'[j] => i = j
    BY <1>7, JudgesOnce
  <2> QED BY <1>7, <2>1 DEF Judges
<1>8. CASE Turns
  BY <1>8 DEF Turns
<1>9. CASE Resumes
  BY <1>9 DEF Resumes
<1>10. CASE Passes \/ Patches
  <2>1. UNCHANGED << found, request >> /\ NextWorkload /\ pc \in {"annotate", "patch"}
    BY <1>10 DEF Passes, Patches
  <2>2. /\ index' = index + 1 /\ pc' \in {"pause", "annotate"}
        /\ pc' = "pause" => index' <= Len(found)
    BY <2>1, MovesOn
  <2> QED BY <2>1, <2>2
<1>11. CASE Chooses
  BY <1>11 DEF Chooses
<1>12. CASE Ends
  BY <1>12 DEF Ends
<1>13. CASE Starts
  BY <1>13 DEF Starts
<1> QED
  BY <1>1, <1>2, <1>3, <1>4, <1>5, <1>6, <1>7, <1>8, <1>9, <1>10, <1>11, <1>12, <1>13
  DEF RoundStep

\* The scope is that of the request from the list of pods to the last restart.
LEMMA ScopeOKStep ==
    ASSUME TypeInvariant, RoundOK, ScopeOK, RoundStep
    PROVE  ScopeOK'
<1> USE DEF ScopeOK, RestartsInScope, LimitToNamespaces
<1>t. /\ found \in Seq(Workloads) /\ Len(found) \in Nat /\ DOMAIN found = 1 .. Len(found)
      /\ pc = "check" => OwnerOf[candidate] \in Workloads
  BY RoundTypes
<1>1. CASE Elsewhere
  BY <1>1 DEF Elsewhere
<1>2. CASE Ticks
  BY <1>2 DEF Ticks
<1>3. CASE Begins
  BY <1>3 DEF Begins, RoundOK, Scanning, Restarting
<1>4. CASE Reads
  BY <1>4 DEF Reads, Scanning
<1>5. CASE Lists
  BY <1>5 DEF Lists
<1>6. CASE Looks
  BY <1>6 DEF Looks, Scanning
<1>7. CASE Judges
  <2>1. /\ request' = request /\ todo' = todo /\ pc' = "scan"
        /\ NamespaceOf[OwnerOf[candidate]] \in LimitToNamespaces \ SkipNamespaces
    BY <1>7 DEF Judges
  <2>2. CASE UNCHANGED found
    BY <1>7, <2>1, <2>2 DEF Judges, Scanning
  <2>3. CASE found' = Append(found, OwnerOf[candidate])
    <3>0. OwnerOf[candidate] \in Workloads
      BY <1>7, <1>t DEF Judges
    <3>1. /\ DOMAIN found' = 1 .. (Len(found) + 1)
          /\ found'[Len(found) + 1] = OwnerOf[candidate]
          /\ \A i \in 1 .. Len(found) : found'[i] = found[i]
      BY ONLY <1>t, <2>3, <3>0, AppendItem
    <3>2. RestartsInScope'
      BY <1>t, <2>1, <3>1
    <3> QED BY <1>7, <2>1, <3>2 DEF Judges, Scanning
  <2> QED BY <1>7, <2>2, <2>3 DEF Judges
<1>8. CASE Turns \/ Resumes \/ Passes \/ Chooses \/ Patches
  BY <1>8 DEF Turns, Resumes, Passes, Chooses, Patches, NextWorkload, Scanning
<1>9. CASE Ends
  BY <1>9 DEF Ends, Resting, Scanning
<1>10. CASE Starts
  BY <1>10 DEF Starts, Scanning
<1> QED
  BY <1>1, <1>2, <1>3, <1>4, <1>5, <1>6, <1>7, <1>8, <1>9, <1>10 DEF RoundStep

\* Nothing is found before the first scan.
LEMMA InitRound == Init => RoundOK /\ ScopeOK
BY DEF Init, ScanInit, RoundOK, ScopeOK, RestartsInScope, Resting, Scanning, Restarting

RoundInvariant == TypeInvariant /\ RoundOK /\ ScopeOK

\* The part of the invariant that all the theorems below share.
LEMMA RoundInvariantHolds == Spec => []RoundInvariant
<1>1. Init => RoundInvariant
  BY InitTypes, InitRound DEF RoundInvariant
<1>2. RoundInvariant /\ [Next]_vars => RoundInvariant'
  BY StepTypes, RoundSteps, RoundOKStep, ScopeOKStep DEF RoundInvariant
<1> QED
  BY <1>1, <1>2, PTL DEF Spec

\* A reconcile restarts workloads of its request's namespaces only, and none
\* of a skipped namespace (LimitToNamespaces, SkipNamespaces).
THEOREM ScopeRespected == Spec => []RestartsInScope
<1>1. RoundInvariant => RestartsInScope
  BY DEF RoundInvariant, ScopeOK
<1> QED
  BY <1>1, RoundInvariantHolds, PTL

-----------------------------------------------------------------------------
(* When it restarts.  Whole seconds first: Trunc is monotone.              *)

\* Division with remainder.
LEMMA DivFacts ==
    ASSUME NEW t \in Nat
    PROVE  /\ t \div Second \in Nat
           /\ t = Second * (t \div Second) + (t % Second)
           /\ t % Second \in 0 .. (Second - 1)
BY SecondAssumption

\* Multiples of a second are a second apart.
LEMMA MultiplesApart ==
    ASSUME NEW a \in Nat, NEW b \in Nat, b + 1 <= a
    PROVE  Second * b + Second <= Second * a
<1>1. PICK d \in Nat : a = b + 1 + d
  <2>1. a - b - 1 \in Nat
    OBVIOUS
  <2> WITNESS a - b - 1 \in Nat
  <2> QED OBVIOUS
<1>2. Second * a = Second * b + Second + Second * d
  BY <1>1, SecondAssumption
<1>3. Second * d \in Nat /\ Second * b \in Nat /\ Second * a \in Nat
  BY SecondAssumption
<1> QED
  BY <1>2, <1>3, SecondAssumption

\* A later instant has no earlier timestamp.
LEMMA TruncMonotone ==
    ASSUME NEW t \in Nat, NEW u \in Nat, t <= u
    PROVE  Trunc(t) <= Trunc(u)
<1> DEFINE a == t \div Second
           b == u \div Second
<1>1. a \in Nat /\ b \in Nat /\ Second * a \in Nat /\ Second * b \in Nat
  BY SecondAssumption, DivFacts
<1>2. Trunc(t) = Second * a /\ Trunc(u) = Second * b
  BY <1>1, SecondAssumption, DivFacts DEF Trunc
<1>3. Second * a <= t /\ u < Second * b + Second
  BY SecondAssumption, DivFacts
<1>4. a <= b
  <2> SUFFICES ASSUME b + 1 <= a PROVE FALSE
    BY <1>1
  <2>1. Second * b + Second <= Second * a
    BY <1>1, MultiplesApart
  <2> HIDE DEF a, b
  <2> QED BY <1>1, <1>3, <2>1, SecondAssumption
<1>5. CASE a + 1 <= b
  <2>1. Second * a + Second <= Second * b
    BY <1>1, <1>5, MultiplesApart
  <2> HIDE DEF a, b
  <2> QED BY <1>1, <1>2, <2>1, SecondAssumption
<1> QED
  BY <1>1, <1>2, <1>4, <1>5

\* No restart is from the future, the value being written is not older than
\* the one it replaces, and a wait is over where the worker does not wait.
TimesOK ==
    /\ now <= MaxTime
    /\ \A w \in Workloads : /\ restartedAt[w] <= Trunc(now)
                            /\ restartedAt[w] <= patchedAt[w]
                            /\ patchedAt[w] <= now
    /\ pc = "patch" => restartedAt[found[index]] <= value /\ value <= Trunc(now)
    /\ pc \notin {"await", "pause"} => timer = 0

\* The workload at hand is one of the list.
LEMMA FoundAtIndex ==
    ASSUME TypeInvariant, RoundOK, pc \in Restarting, index <= Len(found)
    PROVE  index \in DOMAIN found /\ found[index] \in Workloads
<1>1. found \in Seq(Workloads) /\ index \in 1 .. Len(found)
  BY RoundTypes DEF RoundOK
<1> QED
  BY <1>1

\* The clock only moves forward.
LEMMA LaterInstant ==
    ASSUME TypeInvariant, TimesOK, now' = NextInstant
    PROVE  /\ now' \in Nat /\ now <= now' /\ now' <= MaxTime
           /\ Trunc(now) <= Trunc(now)'
           /\ now' < MaxTime => now < MaxTime /\ now' = now + 1
<1>1. now \in Nat /\ MaxTime \in Nat
  BY RoundTypes, BoundAssumption
<1>2. now' \in Nat /\ now <= now' /\ now' <= MaxTime
  BY <1>1 DEF NextInstant, TimesOK
<1>3. Trunc(now) <= Trunc(now')
  BY <1>1, <1>2, TruncMonotone
<1>4. Trunc(now)' = Trunc(now')
  BY DEF Trunc
<1>5. now' < MaxTime => now < MaxTime /\ now' = now + 1
  BY <1>1 DEF NextInstant
<1> QED
  BY <1>2, <1>3, <1>4, <1>5

\* Only Annotate writes restartedAt, and it writes the time of its decision.
LEMMA TimesOKStep ==
    ASSUME TypeInvariant, RoundOK, TimesOK, RoundStep
    PROVE  TimesOK'
<1>t. /\ now \in Nat /\ timer \in Nat /\ index \in Nat /\ value \in Nat
      /\ restartedAt \in [Workloads -> Nat] /\ patchedAt \in [Workloads -> Nat]
      /\ Trunc(now) \in Nat /\ Trunc(now) <= now
  BY RoundTypes, TruncFacts
<1>1. CASE Ticks
  <2>1. UNCHANGED << pc, index, found, value, restartedAt, patchedAt >>
    BY <1>1 DEF Ticks
  <2>2. /\ now' \in Nat /\ now <= now' /\ now' <= MaxTime /\ Trunc(now) <= Trunc(now)'
    BY <1>1, LaterInstant DEF Ticks
  <2>3. Trunc(now)' \in Nat
    BY <2>2, TruncFacts DEF Trunc
  <2>4. pc \notin {"await", "pause"} => timer' = 0
    BY <1>1, <1>t DEF Ticks, TimesOK
  <2>5. \A w \in Workloads : /\ restartedAt[w] \in Nat /\ patchedAt[w] \in Nat
                             /\ restartedAt[w] <= Trunc(now) /\ patchedAt[w] <= now
                             /\ restartedAt[w] <= patchedAt[w]
    BY <1>t DEF TimesOK
  <2>6. \A w \in Workloads : /\ restartedAt[w] <= Trunc(now)' /\ patchedAt[w] <= now'
                             /\ restartedAt[w] <= patchedAt[w]
    BY <1>t, <2>2, <2>3, <2>5
  <2>7. pc = "patch" => restartedAt[found[index]] <= value /\ value <= Trunc(now)'
    BY <1>t, <2>2, <2>3 DEF TimesOK
  <2> QED BY <2>1, <2>2, <2>4, <2>6, <2>7 DEF TimesOK
<1>2. ASSUME UNCHANGED << now, restartedAt, patchedAt >>,
             pc' = "patch" => /\ restartedAt[found[index]]' <= value'
                              /\ value' <= Trunc(now),
             pc' \notin {"await", "pause"} => timer' = 0
      PROVE  TimesOK'
  BY <1>2 DEF TimesOK, Trunc
<1>3. CASE Elsewhere
  BY <1>3, <1>2 DEF Elsewhere, TimesOK
<1>4. CASE Begins \/ Reads \/ Lists \/ Looks \/ Judges \/ Turns \/ Resumes \/ Ends \/ Starts
  BY <1>2, <1>4 DEF Begins, Reads, Lists, Looks, Judges, Turns, Resumes, Ends, Starts, TimesOK,
                    Resting, Scanning
<1>5. CASE Passes
  <2>1. pc' \in {"pause", "annotate"} /\ (pc' = "annotate" => timer' = 0)
    BY <1>5, MovesOn DEF Passes
  <2> QED BY <1>2, <1>5, <2>1 DEF Passes
<1>6. CASE Chooses
  <2>1. found[index] \in Workloads
    BY <1>6, FoundAtIndex DEF Chooses, Restarting
  <2> QED BY <1>2, <1>6, <1>t, <2>1 DEF Chooses, TimesOK
<1>7. CASE Patches
  <2>0. found[index] \in Workloads
    BY <1>7, FoundAtIndex DEF Patches, Restarting, RoundOK
  <2>1. pc' \in {"pause", "annotate"} /\ (pc' = "annotate" => timer' = 0)
    BY <1>7, MovesOn DEF Patches
  <2>2. value <= Trunc(now) /\ value <= now
    BY <1>7, <1>t DEF Patches, TimesOK
  <2>3. \A w \in Workloads : /\ restartedAt'[w] <= Trunc(now)
                             /\ restartedAt'[w] <= patchedAt'[w]
                             /\ patchedAt'[w] <= now
    BY <1>7, <1>t, <2>0, <2>2 DEF Patches, TimesOK
  <2>4. now' = now /\ Trunc(now)' = Trunc(now)
    BY <1>7 DEF Patches, Trunc
  <2> QED BY <2>1, <2>3, <2>4 DEF TimesOK
<1> QED
  BY <1>1, <1>3, <1>4, <1>5, <1>6, <1>7 DEF RoundStep

\* Nothing was restarted and nobody waits when the process starts.
LEMMA InitTimes == Init => TimesOK
<1> SUFFICES ASSUME Init PROVE TimesOK
  OBVIOUS
<1>1. now = Second /\ timer = 0 /\ pc = "idle"
      /\ \A w \in Workloads : restartedAt[w] = 0 /\ patchedAt[w] = 0
  BY DEF Init, ClusterInit
<1>2. Second \in Nat /\ Trunc(Second) \in Nat
  BY SecondAssumption, TruncFacts
<1> QED
  BY <1>1, <1>2, BoundAssumption DEF TimesOK

-----------------------------------------------------------------------------
(* The restart delay.                                                      *)

\* What is left of the wait makes up for what is missing since the restarts
\* of this round.
SpacingOK ==
    (pc \in Restarting /\ now < MaxTime /\ index <= Len(found)) =>
        \A i \in 1 .. (index - 1) : patchedAt[found[i]] + RestartDelay <= now + timer

\* Every workload but the last is followed by the whole delay.
LEMMA SpacingOKStep ==
    ASSUME TypeInvariant, RoundOK, TimesOK, SpacingOK, RoundStep
    PROVE  SpacingOK'
<1>t. /\ now \in Nat /\ timer \in Nat /\ index \in Nat
      /\ restartedAt \in [Workloads -> Nat] /\ patchedAt \in [Workloads -> Nat]
      /\ found \in Seq(Workloads) /\ Len(found) \in Nat
      /\ RestartDelay \in Nat /\ MaxTime \in Nat
      /\ pc \in Restarting => index >= 1
  BY RoundTypes, ReconcilerAssumption, BoundAssumption DEF RoundOK
<1>1. CASE Elsewhere
  BY <1>1 DEF Elsewhere, SpacingOK
<1>2. CASE Ticks
  <2> SUFFICES ASSUME pc \in Restarting, now' < MaxTime, index <= Len(found),
                      NEW i \in 1 .. (index - 1)
               PROVE  patchedAt[found[i]] + RestartDelay <= now' + timer'
    BY <1>2 DEF Ticks, SpacingOK
  <2>1. now < MaxTime /\ now' = now + 1
    BY <1>2, LaterInstant DEF Ticks
  <2>2. patchedAt[found[i]] + RestartDelay <= now + timer
    BY <2>1 DEF SpacingOK
  <2>3. patchedAt[found[i]] \in Nat
    BY <1>t
  <2> QED BY <1>2, <1>t, <2>1, <2>2, <2>3 DEF Ticks
<1>3. CASE Begins \/ Reads \/ Lists \/ Looks \/ Judges \/ Ends \/ Starts
  BY <1>3 DEF Begins, Reads, Lists, Looks, Judges, Ends, Starts, SpacingOK, Resting, Scanning,
              Restarting
<1>4. CASE Turns
  BY <1>4 DEF Turns, SpacingOK
<1>5. CASE Resumes \/ Chooses
  BY <1>5 DEF Resumes, Chooses, SpacingOK, Restarting
<1>6. CASE Passes \/ Patches
  <2> SUFFICES ASSUME index' <= Len(found), NEW i \in 1 .. (index' - 1)
               PROVE  patchedAt'[found[i]] + RestartDelay <= now + timer'
    BY <1>6 DEF Passes, Patches, SpacingOK
  <2>1. /\ index' = index + 1
        /\ pc' = "pause" => timer' = RestartDelay
        /\ pc' = "annotate" => timer' = 0 /\ (index' > Len(found) \/ RestartDelay = 0)
        /\ pc' \in {"pause", "annotate"}
    BY <1>6, MovesOn DEF Passes, Patches
  <2>2. timer' = RestartDelay
    BY <1>t, <2>1
  <2>3. found[i] \in Workloads
    BY <1>t, <2>1
  <2>4. patchedAt'[found[i]] \in Nat /\ patchedAt'[found[i]] <= now
    <3>1. patchedAt[found[i]] \in Nat /\ patchedAt[found[i]] <= now
      BY <1>t, <2>3 DEF TimesOK
    <3>2. patchedAt'[found[i]] \in {patchedAt[found[i]], now}
      BY <1>6, <1>t, <2>3 DEF Passes, Patches
    <3> QED BY <1>t, <3>1, <3>2
  <2> QED BY <1>t, <2>2, <2>4
<1> QED
  BY <1>1, <1>2, <1>3, <1>4, <1>5, <1>6 DEF RoundStep

\* Where a patch is about to be sent, nothing of the wait is left.
LEMMA SpacingImplies ==
    ASSUME TypeInvariant, RoundOK, TimesOK, SpacingOK
    PROVE  RestartsSpaced
<1> SUFFICES ASSUME pc = "patch", now < MaxTime, NEW i \in 1 .. (index - 1)
             PROVE  now - patchedAt[found[i]] >= RestartDelay
  BY DEF RestartsSpaced
<1>1. /\ now \in Nat /\ index \in Nat /\ Len(found) \in Nat /\ RestartDelay \in Nat
      /\ patchedAt \in [Workloads -> Nat] /\ found \in Seq(Workloads)
      /\ index <= Len(found) /\ timer = 0
  BY RoundTypes, ReconcilerAssumption DEF RoundOK, TimesOK
<1>2. patchedAt[found[i]] + RestartDelay <= now + timer
  BY <1>1 DEF SpacingOK, Restarting
<1>3. patchedAt[found[i]] \in Nat
  BY <1>1
<1> QED
  BY <1>1, <1>2, <1>3

\* Two restarts of one reconcile are --restart-delay apart, whatever was
\* skipped, retried or failed in between (annotateWorkloadsWithDelay).
THEOREM DelayKept == Spec => []RestartsSpaced
<1> DEFINE I == TypeInvariant /\ RoundOK /\ ScopeOK /\ TimesOK /\ SpacingOK
<1>1. Init => I
  <2>1. Init => SpacingOK
    BY DEF Init, SpacingOK, Restarting
  <2> QED BY <2>1, InitTypes, InitRound, InitTimes
<1>2. I /\ [Next]_vars => I'
  BY StepTypes, RoundSteps, RoundOKStep, ScopeOKStep, TimesOKStep, SpacingOKStep
<1>3. I => RestartsSpaced
  BY SpacingImplies
<1> QED
  BY <1>1, <1>2, <1>3, PTL DEF Spec

-----------------------------------------------------------------------------
(* The cooldown and the value.  Two facts about time: a reconcile starts    *)
(* with a wait, so a workload that it has not dealt with was restarted at   *)
(* least that long ago; and the cache has shown a restart that old.         *)

\* Since the last restart of every workload that this round has not dealt
\* with, the wait has passed or is about to.
SettledOK ==
    (pc \notin Resting /\ now < MaxTime) =>
        \A w \in Workloads :
            (\A i \in 1 .. (index - 1) : found[i] # w) =>
                patchedAt[w] + IstiodConfigReadDelay <= now + (IF pc = "await" THEN timer ELSE 0)

\* The cache shows every restart older than InformerLag.
ShownOK ==
    pc # "down" => \A w \in Workloads :
        patchedAt[w] + InformerLag <= now => wlSeen[w] = restartedAt[w]

\* The wait at the start of a reconcile covers all restarts before it.
LEMMA SettledOKStep ==
    ASSUME TypeInvariant, RoundOK, TimesOK, SettledOK, RoundStep
    PROVE  SettledOK'
<1>t. /\ now \in Nat /\ timer \in Nat /\ index \in Nat
      /\ patchedAt \in [Workloads -> Nat]
      /\ found \in Seq(Workloads) /\ Len(found) \in Nat
      /\ IstiodConfigReadDelay \in Nat /\ MaxTime \in Nat
      /\ pc \notin Restarting => index = 0
  BY RoundTypes, ScannerAssumption, BoundAssumption DEF RoundOK
<1>1. CASE Elsewhere
  BY <1>1 DEF Elsewhere, SettledOK
<1>2. CASE Ticks
  <2> SUFFICES ASSUME pc \notin Resting, now' < MaxTime, NEW w \in Workloads,
                      \A i \in 1 .. (index - 1) : found[i] # w
               PROVE  patchedAt[w] + IstiodConfigReadDelay
                         <= now' + (IF pc = "await" THEN timer' ELSE 0)
    BY <1>2 DEF Ticks, SettledOK
  <2>1. now < MaxTime /\ now' = now + 1
    BY <1>2, LaterInstant DEF Ticks
  <2>2. patchedAt[w] + IstiodConfigReadDelay <= now + (IF pc = "await" THEN timer ELSE 0)
    BY <2>1 DEF SettledOK
  <2>3. patchedAt[w] \in Nat
    BY <1>t
  <2> QED BY <1>2, <1>t, <2>1, <2>2, <2>3 DEF Ticks
<1>3. CASE Begins
  <2>1. /\ pc' = "await" /\ timer' = IstiodConfigReadDelay
        /\ UNCHANGED << now, patchedAt, found, index >>
    BY <1>3 DEF Begins
  <2>2. \A w \in Workloads : patchedAt[w] \in Nat /\ patchedAt[w] <= now
    BY <1>t DEF TimesOK
  <2> QED BY <1>t, <2>1, <2>2 DEF SettledOK
<1>4. CASE Reads
  BY <1>4, <1>t DEF Reads, SettledOK, Resting
<1>5. CASE Lists \/ Looks
  BY <1>5 DEF Lists, Looks, SettledOK, Resting, Scanning
<1>6. CASE Judges
  <2>1. index = 0 /\ index' = 0 /\ pc = "check" /\ pc' = "scan"
    BY <1>6, <1>t DEF Judges, Restarting
  <2> QED BY <1>6, <2>1 DEF Judges, SettledOK, Resting
<1>7. CASE Turns
  <2>1. index = 0 /\ index' = 1 /\ pc = "scan" /\ pc' = "annotate"
    BY <1>7, <1>t DEF Turns, Restarting
  <2> QED BY <1>7, <2>1 DEF Turns, SettledOK, Resting
<1>8. CASE Resumes \/ Chooses
  BY <1>8 DEF Resumes, Chooses, SettledOK, Resting
<1>9. CASE Passes \/ Patches
  <2>1. /\ index' = index + 1 /\ pc' \in {"pause", "annotate"} /\ pc \in {"annotate", "patch"}
        /\ UNCHANGED << now, found >>
    BY <1>9, MovesOn DEF Passes, Patches
  <2>2. index >= 1
    BY <2>1 DEF RoundOK, Restarting
  <2> SUFFICES ASSUME now < MaxTime, NEW w \in Workloads,
                      \A i \in 1 .. index : found[i] # w
               PROVE  patchedAt'[w] + IstiodConfigReadDelay <= now
    BY <1>t, <2>1 DEF SettledOK
  <2>3. /\ found[index] # w
        /\ \A i \in 1 .. (index - 1) : found[i] # w
    BY <1>t, <2>2
  <2>4. patchedAt[w] + IstiodConfigReadDelay <= now
    BY <1>t, <2>1, <2>3 DEF SettledOK, Resting
  <2>5. patchedAt'[w] = patchedAt[w]
    BY <1>9, <1>t, <2>3 DEF Passes, Patches
  <2> QED BY <2>4, <2>5
<1>10. CASE Ends \/ Starts
  BY <1>10 DEF Ends, Starts, SettledOK, Resting
<1> QED
  BY <1>1, <1>2, <1>3, <1>4, <1>5, <1>6, <1>7, <1>8, <1>9, <1>10 DEF RoundStep

\* The clock waits for the cache, and a new process lists everything.
LEMMA ShownOKStep ==
    ASSUME TypeInvariant, RoundOK, TimesOK, ShownOK, RoundStep
    PROVE  ShownOK'
<1>t. /\ now \in Nat /\ index \in Nat
      /\ restartedAt \in [Workloads -> Nat] /\ patchedAt \in [Workloads -> Nat]
      /\ wlSeen \in [Workloads -> Nat] /\ InformerLag \in Nat \ {0}
      /\ WorkloadsShown
  BY RoundTypes, LagAssumption DEF RoundStep
<1>1. CASE Ticks
  BY <1>1, <1>t DEF Ticks, CachesOnTime, ShownOK, WorkloadsShown
<1>2. CASE Patches
  <2> SUFFICES ASSUME NEW w \in Workloads, patchedAt'[w] + InformerLag <= now
               PROVE  wlSeen'[w] = restartedAt'[w]
    BY <1>2 DEF Patches, ShownOK
  <2>0. found[index] \in Workloads
    BY <1>2, FoundAtIndex DEF Patches, Restarting, RoundOK
  <2>1. patchedAt'[w] # now
    BY <1>t
  <2>2. restartedAt'[w] = restartedAt[w] /\ patchedAt'[w] = patchedAt[w]
    BY <1>2, <1>t, <2>0, <2>1 DEF Patches
  <2>3. wlSeen[w] = restartedAt[w]
    BY <1>2, <2>2 DEF Patches, ShownOK
  <2> QED BY <1>t, <2>2, <2>3 DEF WorkloadsShown
<1>3. CASE Starts
  BY <1>3 DEF Starts, ShownOK
<1>4. ASSUME UNCHANGED << now, restartedAt, patchedAt >>, pc # "down" \/ pc' = "down"
      PROVE  ShownOK'
  BY <1>4, <1>t DEF ShownOK, WorkloadsShown
<1>5. CASE Elsewhere
  BY <1>4, <1>5 DEF Elsewhere, ShownOK
<1>6. CASE Begins \/ Reads \/ Lists \/ Looks \/ Judges \/ Turns \/ Resumes \/ Passes \/ Chooses
  BY <1>4, <1>6 DEF Begins, Reads, Lists, Looks, Judges, Turns, Resumes, Passes, Chooses,
                    Scanning
<1>7. CASE Ends
  BY <1>4, <1>7 DEF Ends, Resting
<1> QED
  BY <1>1, <1>2, <1>3, <1>5, <1>6, <1>7 DEF RoundStep

\* Once Annotate has decided, the restart is due: the cooldown has passed,
\* if the wait of a reconcile covers the cache's lag, and the value is a new
\* one, if the wait covers a second.
ChosenOK ==
    (pc = "patch" /\ now < MaxTime) =>
        /\ (InformerLag <= IstiodConfigReadDelay /\ restartedAt[found[index]] # 0)
           => restartedAt[found[index]] + AnnotationCooldown <= now
        /\ Second <= IstiodConfigReadDelay => restartedAt[found[index]] < value

\* Annotate decides on a workload that this reconcile has not restarted, after
\* the wait: the cache shows its last restart, and the second has changed.
LEMMA ChoosesDue ==
    ASSUME TypeInvariant, RoundOK, TimesOK, SettledOK, ShownOK, Chooses, now < MaxTime
    PROVE  /\ (InformerLag <= IstiodConfigReadDelay /\ restartedAt[found[index]] # 0)
              => restartedAt[found[index]] + AnnotationCooldown <= now
           /\ Second <= IstiodConfigReadDelay => restartedAt[found[index]] < Trunc(now)
<1> DEFINE w == found[index]
<1>t. /\ now \in Nat /\ IstiodConfigReadDelay \in Nat /\ InformerLag \in Nat
      /\ AnnotationCooldown \in Nat /\ Second \in Nat
      /\ Trunc(now) \in Nat /\ Trunc(now) <= now /\ now < Trunc(now) + Second
  BY RoundTypes, TruncFacts, ScannerAssumption, LagAssumption, AnnotatorAssumption,
     SecondAssumption
<1>1. index \in DOMAIN found /\ w \in Workloads
  BY FoundAtIndex DEF Chooses, Restarting
<1>2. /\ restartedAt[w] \in Nat /\ patchedAt[w] \in Nat
      /\ restartedAt[w] <= patchedAt[w] /\ restartedAt[w] <= Trunc(now)
  BY <1>1, RoundTypes DEF TimesOK
<1>3. \A i \in 1 .. (index - 1) : found[i] # w
  <2> SUFFICES ASSUME NEW i \in 1 .. (index - 1), found[i] = w PROVE FALSE
    OBVIOUS
  <2>1. DOMAIN found = 1 .. Len(found) /\ Len(found) \in Nat /\ index \in Nat
    BY RoundTypes
  <2>2. i \in DOMAIN found /\ i # index
    BY <1>1, <2>1
  <2> QED BY <1>1, <2>2 DEF RoundOK
<1>4. patchedAt[w] + IstiodConfigReadDelay <= now
  <2>1. patchedAt[w] + IstiodConfigReadDelay <= now + 0
    BY <1>1, <1>3 DEF Chooses, SettledOK, Resting
  <2> QED BY <2>1, <1>t
<1>5. ASSUME InformerLag <= IstiodConfigReadDelay, restartedAt[w] # 0
      PROVE  restartedAt[w] + AnnotationCooldown <= now
  <2>1. wlSeen[w] = restartedAt[w]
    BY <1>1, <1>2, <1>4, <1>5, <1>t DEF ShownOK, Chooses
  <2>2. CASE AnnotationCooldown = 0
    BY <1>2, <1>t, <2>2
  <2>3. CASE AnnotationCooldown > 0
    BY <1>2, <1>5, <1>t, <2>1, <2>3 DEF Chooses, CoolingDown, getRestartedAt
  <2> QED BY <1>t, <2>2, <2>3
<1>6. ASSUME Second <= IstiodConfigReadDelay
      PROVE  restartedAt[w] < Trunc(now)
  BY <1>2, <1>4, <1>6, <1>t
<1> QED
  BY <1>5, <1>6

\* Conflicts and the time they take leave a restart due.
LEMMA ChosenOKStep ==
    ASSUME TypeInvariant, RoundOK, TimesOK, SettledOK, ShownOK, ChosenOK, RoundStep
    PROVE  ChosenOK'
<1>1. CASE Elsewhere
  BY <1>1 DEF Elsewhere, ChosenOK
<1>2. CASE Ticks
  <2>1. UNCHANGED << pc, index, found, value, restartedAt >>
    BY <1>2 DEF Ticks
  <2> SUFFICES ASSUME pc = "patch", now' < MaxTime
               PROVE  /\ (InformerLag <= IstiodConfigReadDelay /\ restartedAt[found[index]] # 0)
                         => restartedAt[found[index]] + AnnotationCooldown <= now'
                      /\ Second <= IstiodConfigReadDelay => restartedAt[found[index]] < value
    BY <2>1 DEF ChosenOK
  <2>2. now < MaxTime /\ now' = now + 1
    BY <1>2, LaterInstant DEF Ticks
  <2>3. found[index] \in Workloads
    BY FoundAtIndex DEF Restarting, RoundOK
  <2>4. restartedAt[found[index]] \in Nat /\ now \in Nat /\ AnnotationCooldown \in Nat
    BY <2>3, RoundTypes, AnnotatorAssumption
  <2> QED BY <2>2, <2>4 DEF ChosenOK
<1>3. CASE Chooses
  BY <1>3, ChoosesDue DEF Chooses, ChosenOK
<1>4. CASE Passes \/ Patches
  <2>1. pc' \in {"pause", "annotate"}
    BY <1>4, MovesOn DEF Passes, Patches
  <2> QED BY <2>1 DEF ChosenOK
<1>5. CASE Begins \/ Reads \/ Lists \/ Looks \/ Judges \/ Turns \/ Resumes \/ Ends \/ Starts
  BY <1>5 DEF Begins, Reads, Lists, Looks, Judges, Turns, Resumes, Ends, Starts, ChosenOK,
              Resting, Scanning
<1> QED
  BY <1>1, <1>2, <1>3, <1>4, <1>5 DEF RoundStep

DueInvariant == TypeInvariant /\ RoundOK /\ TimesOK /\ SettledOK /\ ShownOK /\ ChosenOK

\* Restarts are decided on the state after the wait of the reconcile.
LEMMA DueInvariantHolds == Spec => []DueInvariant
<1>1. Init => DueInvariant
  <2>1. Init => SettledOK /\ ShownOK /\ ChosenOK
    BY DEF Init, CacheInit, SettledOK, ShownOK, ChosenOK, Resting
  <2> QED BY <2>1, InitTypes, InitRound, InitTimes DEF DueInvariant
<1>2. DueInvariant /\ [Next]_vars => DueInvariant'
  BY StepTypes, RoundSteps, RoundOKStep, TimesOKStep, SettledOKStep, ShownOKStep, ChosenOKStep
  DEF DueInvariant
<1> QED
  BY <1>1, <1>2, PTL DEF Spec

\* Only a patch changes restartedAt, that of the workload at hand.
LEMMA OnlyPatches ==
    ASSUME TypeInvariant, RoundOK, RoundStep,
           NEW w \in Workloads, restartedAt'[w] # restartedAt[w]
    PROVE  Patches /\ found[index] = w
<1>1. Patches
  BY DEF RoundStep, Elsewhere, Ticks, Begins, Reads, Lists, Looks, Judges, Turns, Resumes,
         Passes, Chooses, Ends, Starts
<1>2. found[index] = w
  BY <1>1, RoundTypes DEF Patches
<1> QED
  BY <1>1, <1>2

\* No workload is restarted before the cooldown has passed since its last
\* restart, although Annotate checks a cached copy: whenever the wait at the
\* start of a reconcile is at least the lag of the cache.
THEOREM CooldownKept ==
    ASSUME InformerLag <= IstiodConfigReadDelay
    PROVE  Spec => CooldownRespected
<1>1. ASSUME DueInvariant, [Next]_vars, NEW w \in Workloads,
             now < MaxTime, restartedAt[w] # 0, restartedAt'[w] # restartedAt[w]
      PROVE  now - restartedAt[w] >= AnnotationCooldown
  <2>1. Patches /\ found[index] = w
    BY <1>1, RoundSteps, OnlyPatches DEF DueInvariant
  <2>2. restartedAt[w] + AnnotationCooldown <= now
    BY <1>1, <2>1 DEF DueInvariant, ChosenOK, Patches
  <2>3. restartedAt[w] \in Nat /\ now \in Nat /\ AnnotationCooldown \in Nat
    BY <1>1, RoundTypes, AnnotatorAssumption DEF DueInvariant
  <2> QED BY <2>2, <2>3
<1>2. DueInvariant /\ [Next]_vars =>
         [\A w \in Workloads :
             (now < MaxTime /\ restartedAt[w] # 0 /\ restartedAt'[w] # restartedAt[w])
             => now - restartedAt[w] >= AnnotationCooldown]_vars
  BY <1>1
<1> QED
  BY <1>2, DueInvariantHolds, PTL DEF Spec, CooldownRespected

\* No patch writes the restartedAt that is there already, which would
\* restart nothing: whenever the wait at the start of a reconcile is at least
\* a second, the resolution of the value (Annotate).
THEOREM RestartsTakeEffect ==
    ASSUME Second <= IstiodConfigReadDelay
    PROVE  Spec => PatchTakesEffect
<1>1. ASSUME DueInvariant, now < MaxTime, PatchWorkload
      PROVE  restartedAt'[found[index]] # restartedAt[found[index]]
  <2>1. pc = "patch" /\ restartedAt' = [restartedAt EXCEPT ![found[index]] = value]
    BY <1>1 DEF PatchWorkload, Patch
  <2>2. restartedAt[found[index]] < value
    BY <1>1, <2>1 DEF DueInvariant, ChosenOK
  <2>3. found[index] \in Workloads
    BY <1>1, <2>1, FoundAtIndex DEF DueInvariant, Restarting, RoundOK
  <2>4. restartedAt \in [Workloads -> Nat] /\ value \in Nat
    BY <1>1, RoundTypes DEF DueInvariant
  <2>5. restartedAt'[found[index]] = value
    BY <2>1, <2>3, <2>4
  <2> QED BY <2>2, <2>3, <2>4, <2>5
<1>2. DueInvariant /\ [Next]_vars =>
         [(now < MaxTime /\ PatchWorkload)
          => restartedAt'[found[index]] # restartedAt[found[index]]]_vars
  BY <1>1
<1> QED
  BY <1>2, DueInvariantHolds, PTL DEF Spec, PatchTakesEffect

-----------------------------------------------------------------------------
(* What the scan reports.                                                  *)

\* A pod that was found outdated gets its workload restarted, if workloads
\* of one namespace that differ in kind have different names: ScanOutdatedPods
\* keys what it has seen by namespace and name.
THEOREM OutdatedFound ==
    ASSUME \A v, w \in Workloads : Key(v) = Key(w) => v = w
    PROVE  Spec => OutdatedIsFound
<1>1. ASSUME TypeInvariant, [Next]_vars, pc = "check", pc' = "scan", UNCHANGED dropFaults,
             Outdated(candidate, revOrTag)
      PROVE  \E i \in DOMAIN found' : found'[i] = OwnerOf[candidate]
  <2>t. /\ found \in Seq(Workloads) /\ Len(found) \in Nat /\ DOMAIN found = 1 .. Len(found)
        /\ OwnerOf[candidate] \in Workloads
    BY <1>1, RoundTypes
  <2>1. CheckCandidate
    <3>1. dropFaults \in Nat
      BY <1>1 DEF TypeInvariant, TypeOK, ControllerTypeOK
    <3>2. ~ScanFails /\ ~AnnotateFails
      BY <1>1, <3>1 DEF ScanFails, AnnotateFails
    <3>3. ~ClusterStep /\ ~Tick /\ ~Deliveries /\ ~PeriodicTick /\ ~UNCHANGED vars
      BY <1>1 DEF ClusterStep, Tick, Deliveries, SyncConfigMap, SyncTag, SyncNamespace,
                  SyncWorkload, SyncPod, BackoffExpires, PeriodicTick, controllerVars, unwatched,
                  vars
    <3>4. ~ReadFails /\ ~WebhookPanics /\ ~Crash /\ ~Start /\ ~PatchConflicts
      BY <1>1 DEF ReadFails, WebhookPanics, ReturnError, EndReconcile, Crash, Start,
                  PatchConflicts
    <3>5. \A q \in Requests : ~Dequeue(q)
      BY <1>1 DEF Dequeue
    <3>6. Worker
      BY <1>1, <3>2, <3>3, <3>4, <3>5 DEF Next, Faults
    <3> QED BY <1>1, <3>6 DEF Worker, AwaitIstiodConfigReadDelay, ReadConfigMaps, ReadTags,
                 ListPods, ScanPod, ScanEnds, Pause, SkipWorkload, StartPatch, PatchWorkload,
                 Finish
  <2>2. CASE Seen(OwnerOf[candidate])
    <3>1. found' = found
      BY <2>1, <2>2 DEF CheckCandidate, CheckPod
    <3>2. PICK i \in DOMAIN found : Key(found[i]) = Key(OwnerOf[candidate])
      BY <2>2 DEF Seen
    <3>3. found[i] \in Workloads
      BY <2>t
    <3> QED BY <2>t, <3>1, <3>2, <3>3
  <2>3. CASE ~Seen(OwnerOf[candidate])
    <3>1. found' = Append(found, OwnerOf[candidate])
      BY <1>1, <2>1, <2>3 DEF CheckCandidate, CheckPod
    <3>2. /\ DOMAIN found' = 1 .. (Len(found) + 1)
          /\ found'[Len(found) + 1] = OwnerOf[candidate]
      BY <2>t, <3>1, AppendItem
    <3> QED BY <2>t, <3>2
  <2> QED BY <2>2, <2>3
<1>2. TypeInvariant /\ [Next]_vars =>
         [(/\ pc = "check" /\ pc' = "scan" /\ UNCHANGED dropFaults
           /\ Outdated(candidate, revOrTag))
          => \E i \in DOMAIN found' : found'[i] = OwnerOf[candidate]]_vars
  BY <1>1
<1>3. RoundInvariant => TypeInvariant
  BY DEF RoundInvariant
<1> QED
  BY <1>2, <1>3, RoundInvariantHolds, PTL DEF Spec, OutdatedIsFound
=============================================================================
