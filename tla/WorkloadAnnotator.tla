------------------------- MODULE WorkloadAnnotator -------------------------
(***************************************************************************)
(* internal/annotator: setting fortsa.scaffidi.net/restartedAt on the pod  *)
(* template of a workload, which makes its controller roll the pods.  The  *)
(* cooldown is checked against the cached workload; the patch goes to the  *)
(* API server and is retried when it answers Conflict.                     *)
(***************************************************************************)
EXTENDS PodScanner

CONSTANT AnnotationCooldown     \* --annotation-cooldown, in ticks

ASSUME AnnotatorAssumption == AnnotationCooldown \in Nat

VARIABLES
    value,          \* the restartedAt being written, 0 when none is
    attempt         \* patches sent for it that ended in Conflict

annotatorVars == << value, attempt >>

patchConflictMaxRetries == 3

AnnotatorInit  == value = 0 /\ attempt = 0
AnnotatorReset == value' = 0 /\ attempt' = 0

\* A slip: reading the workload's own annotations, where it never is.
getRestartedAtOfWorkload(w) == 0

\* The annotation of the cached workload's pod template; absent or unparseable is 0.
getRestartedAt(w) == wlSeen[w]

\* A slip: comparing ticks with seconds.
CoolingDownInSeconds(w) ==
    /\ AnnotationCooldown > 0
    /\ getRestartedAt(w) # 0
    /\ now - getRestartedAt(w) < AnnotationCooldown \div Second

\* The workload was annotated less than the cooldown ago.
CoolingDown(w) ==
    /\ AnnotationCooldown > 0
    /\ getRestartedAt(w) # 0
    /\ now - getRestartedAt(w) < AnnotationCooldown

\* The annotation value is the current time in whole seconds.
ChooseValue(w) ==
    /\ ~CoolingDown(w)
    /\ value' = Trunc(now)
    /\ attempt' = 0

\* A slip: annotating the workload instead of its pod template.
PatchWorkloadOnly(w) == UNCHANGED clusterVars

\* The merge patch is applied.  Writing the value that is there already
\* changes nothing, and no pod is replaced.
Patch(w) ==
    /\ restartedAt' = [restartedAt EXCEPT ![w] = value]
    /\ patchedAt' = IF restartedAt[w] = value THEN patchedAt
                    ELSE [patchedAt EXCEPT ![w] = now]
    /\ UNCHANGED << now, configMaps, tagMWCs, namespaces, istiod, pods, evictions >>

\* A slip: retrying for as long as the server answers Conflict.
PatchConflictForever ==
    /\ attempt' = attempt + 1
    /\ UNCHANGED value

\* Conflict, and patches are left.
PatchConflict ==
    /\ attempt < patchConflictMaxRetries - 1
    /\ attempt' = attempt + 1
    /\ UNCHANGED value

\* Conflict on the last patch, or any other error: Annotate returns it.
PatchGivesUp(conflict) ==
    /\ conflict => attempt = patchConflictMaxRetries - 1
    /\ AnnotatorReset
=============================================================================
