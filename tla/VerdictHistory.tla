--------------------------- MODULE VerdictHistory ---------------------------
(***************************************************************************)
(* The controller with a memory of its verdicts.  A workload is restarted  *)
(* for a verdict that is older than the restart: the pods were listed, the *)
(* webhook was asked, and then other pods were scanned, other workloads    *)
(* were patched, delays and retries passed.  listedAt and expected say     *)
(* when the pods of the reconcile were listed and what the webhook         *)
(* answered; they change nothing in what the controller does.              *)
(***************************************************************************)
EXTENDS IstioChangeProperties

VARIABLES
    listedAt,       \* when the pods of this reconcile were listed, 0 before
    expected        \* workload found -> the image the webhook answered with

verdictVars == << vars, listedAt, expected >>

Found(list) == {list[i] : i \in DOMAIN list}

VerdictInit ==
    /\ Init
    /\ listedAt = 0
    /\ expected = [w \in Workloads |-> NoImage]

\* listPods, and a call of CallWebhook whose answer makes a workload found.
Remember ==
    /\ listedAt' = IF pc' \in {"idle", "down"} THEN 0
                   ELSE IF pc = "list" /\ pc' = "scan" THEN now
                   ELSE listedAt
    /\ expected' = [w \in Workloads |->
          IF w \notin Found(found') THEN NoImage
          ELSE IF w \in Found(found) THEN expected[w]
          ELSE CallWebhook(buildPodFromWorkload(w), RevisionFor(revOrTag),
                           revOrTag = Default)]

VerdictSpec == VerdictInit /\ [][Next /\ Remember]_verdictVars

-----------------------------------------------------------------------------
\* The cooldown reaches from the last restart of w over the time its patch
\* took, the rollout, the lag of the cache and the age of the list.  (A lag
\* ends before its bound, hence the tick.)
CooldownCovers(w) ==
    restartedAt[w] # 0 =>
        (patchedAt[w] - restartedAt[w]) + RolloutLag + InformerLag + (now - listedAt)
            <= AnnotationCooldown + 1

\* No restart for nothing: when a workload is restarted, one of its pods that
\* no rollout is about to replace carries another image than the one the
\* webhook answered with in this reconcile.  ScanOutdatedPods works on cached
\* pods and annotateWorkloadsWithDelay on a list made before the delays; the
\* cooldown alone keeps a verdict from being about pods of a rollout that was
\* under way when they were listed, so the claim is about the verdicts that
\* it covers.
RestartsAreNeeded ==
    [][\A w \in Workloads :
          (now < MaxTime /\ restartedAt'[w] # restartedAt[w] /\ CooldownCovers(w))
          => \E p \in Pods :
                /\ OwnerOf[p] = w /\ pods[p] # NoPod
                /\ pods[p].stamp = restartedAt[w]
                /\ expected[w] \in Images
                /\ << getIstioProxyImage(pods[p]), expected[w] >> \notin MatchingImages]_vars
=============================================================================
