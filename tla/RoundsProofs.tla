---------------------------- MODULE RoundsProofs ----------------------------
(***************************************************************************)
(* Proof, for all values of the constants, that the controller implements  *)
(* RestartRounds: every reconcile is a round, whatever happens in it.      *)
(***************************************************************************)
EXTENDS RestartProofs

\* The invariant the step simulation needs: the list of a round has no
\* duplicates and is in scope, and what is written is not older than what is
\* there.
MapInvariant == TypeInvariant /\ RoundOK /\ ScopeOK /\ TimesOK

\* It holds in every state.
LEMMA MapInvariantHolds == Spec => []MapInvariant
<1>1. Init => MapInvariant
  BY InitTypes, InitRound, InitTimes DEF MapInvariant
<1>2. MapInvariant /\ [Next]_vars => MapInvariant'
  BY StepTypes, RoundSteps, RoundOKStep, ScopeOKStep, TimesOKStep DEF MapInvariant
<1> QED
  BY <1>1, <1>2, PTL DEF Spec

\* Where index stands still and no verdict is added, nothing is dealt with.
LEMMA SameRound ==
    ASSUME UNCHANGED << request, found, index >>
    PROVE  UNCHANGED << RoundScope, RoundVerdicts >>
BY DEF RoundScope, RoundVerdicts, LimitToNamespaces

\* Moving on takes the workload at hand out of the verdicts: it is not in the
\* list a second time.
LEMMA MovingOnDeals ==
    ASSUME MapInvariant, pc \in Restarting, index <= Len(found),
           UNCHANGED << found, request >>, index' = index + 1
    PROVE  /\ found[index] \in RoundVerdicts /\ found[index] \in Workloads
           /\ RoundVerdicts' = RoundVerdicts \ {found[index]}
           /\ RoundScope' = RoundScope
<1>t. /\ DOMAIN found = 1 .. Len(found) /\ Len(found) \in Nat /\ index \in Nat
      /\ index \in DOMAIN found /\ found[index] \in Workloads
  BY RoundTypes, FoundAtIndex DEF MapInvariant
<1>1. found[index] \in RoundVerdicts
  BY <1>t DEF RoundVerdicts
<1>2. RoundVerdicts' = {found[i] : i \in {j \in DOMAIN found : j >= index + 1}}
  BY DEF RoundVerdicts
<1>3. ASSUME NEW i \in DOMAIN found, i >= index + 1
      PROVE  i >= index /\ found[i] # found[index]
  BY <1>t, <1>3 DEF MapInvariant, RoundOK
<1>4. ASSUME NEW i \in DOMAIN found, i >= index, found[i] # found[index]
      PROVE  i >= index + 1
  BY <1>t, <1>4
<1>5. RoundVerdicts' = RoundVerdicts \ {found[index]}
  BY <1>2, <1>3, <1>4 DEF RoundVerdicts
<1>6. RoundScope' = RoundScope
  BY DEF RoundScope, LimitToNamespaces
<1> QED
  BY <1>t, <1>1, <1>5, <1>6

\* Every step of the controller is a step of a round, or none.
LEMMA StepOfRound ==
    ASSUME MapInvariant, RoundStep
    PROVE  [Rounds!Next]_(Rounds!rounds)
<1> USE DEF Rounds!rounds
<1>t. /\ found \in Seq(Workloads) /\ Len(found) \in Nat /\ DOMAIN found = 1 .. Len(found)
      /\ index \in Nat /\ value \in Nat /\ now \in Nat /\ MaxTime \in Nat
      /\ restartedAt \in [Workloads -> Nat] /\ pc \in Locations
  BY RoundTypes, BoundAssumption DEF MapInvariant
<1>1. CASE Elsewhere \/ Ticks
  BY <1>1, SameRound DEF Elsewhere, Ticks, RoundPhase
<1>2. CASE Reads \/ Lists \/ Looks \/ Resumes \/ Chooses
  <2>1. UNCHANGED << request, found, index, restartedAt >>
    BY <1>2 DEF Reads, Lists, Looks, Resumes, Chooses
  <2>2. RoundPhase' = RoundPhase
    BY <1>2 DEF Reads, Lists, Looks, Resumes, Chooses, RoundPhase, Scanning
  <2> QED BY <2>1, <2>2, SameRound
<1>3. CASE Starts
  <2>1. UNCHANGED << request, found, index, restartedAt >>
    BY <1>3 DEF Starts
  <2>2. RoundPhase' = RoundPhase
    BY <1>3 DEF Starts, RoundPhase
  <2> QED BY <2>1, <2>2, SameRound
<1>4. CASE Begins
  <2>1. RoundPhase = "rest" /\ RoundPhase' = "judging"
    BY <1>4 DEF Begins, RoundPhase
  <2>2. RoundScope' \in {Namespaces} \cup {{n} : n \in Namespaces}
    BY <1>4, ReconcilerAssumption
    DEF Begins, RoundScope, LimitToNamespaces, Requests, FullRequests
  <2>3. UNCHANGED << restartedAt, RoundVerdicts >>
    BY <1>4 DEF Begins, RoundVerdicts
  <2> QED BY <2>1, <2>2, <2>3 DEF Rounds!Next, Rounds!Begin
<1>5. CASE Judges
  <2> DEFINE w == OwnerOf[candidate]
  <2>1. /\ RoundPhase = "judging" /\ RoundPhase' = RoundPhase
        /\ UNCHANGED << request, index, restartedAt >>
        /\ RoundScope' = RoundScope /\ w \in Workloads /\ index = 0
    BY <1>5, RoundTypes
    DEF Judges, RoundPhase, RoundScope, LimitToNamespaces, MapInvariant, RoundOK, Restarting
  <2>2. CASE UNCHANGED found
    BY <2>1, <2>2, SameRound
  <2>3. CASE ~Seen(w) /\ found' = Append(found, w)
    <3>1. /\ DOMAIN found' = 1 .. (Len(found) + 1)
          /\ found'[Len(found) + 1] = w
          /\ \A i \in 1 .. Len(found) : found'[i] = found[i]
      BY <1>t, <2>1, <2>3, AppendItem
    <3>2. RoundVerdicts = {found[i] : i \in 1 .. Len(found)}
      BY <1>t, <2>1 DEF RoundVerdicts
    <3>3. RoundVerdicts' = {found'[i] : i \in 1 .. (Len(found) + 1)}
      <4>1. index' = 0 /\ \A i \in 1 .. (Len(found) + 1) : i >= 0
        BY <1>t, <2>1
      <4>2. {j \in DOMAIN found' : j >= index'} = 1 .. (Len(found) + 1)
        BY <3>1, <4>1
      <4> QED BY <4>2 DEF RoundVerdicts
    <3>4. RoundVerdicts' = RoundVerdicts \cup {w}
      BY <1>t, <3>1, <3>2, <3>3
    <3>5. w \notin RoundVerdicts
      BY <1>t, <2>3, <3>2 DEF Seen
    <3>6. NamespaceOf[w] \in RoundScope \ SkipNamespaces
      BY <1>5 DEF Judges, MapInvariant, ScopeOK, RoundOK, RoundScope, Resting
    <3> QED BY <2>1, <3>4, <3>5, <3>6 DEF Rounds!Next, Rounds!Judge
  <2> QED BY <1>5, <2>2, <2>3 DEF Judges
<1>6. CASE Turns
  <2>1. RoundPhase = "judging" /\ RoundPhase' = "restarting"
    BY <1>6 DEF Turns, RoundPhase
  <2>2. index = 0
    BY <1>6 DEF Turns, MapInvariant, RoundOK, Restarting
  <2>3. RoundVerdicts' = RoundVerdicts
    BY <1>6, <1>t, <2>2 DEF Turns, RoundVerdicts
  <2>4. UNCHANGED << restartedAt, RoundScope >>
    BY <1>6 DEF Turns, RoundScope, LimitToNamespaces
  <2> QED BY <2>1, <2>3, <2>4 DEF Rounds!Next, Rounds!Turn
<1>7. CASE Passes \/ Patches
  <2> DEFINE w == found[index]
  <2>1. /\ index' = index + 1 /\ UNCHANGED << found, request >>
        /\ pc \in Restarting /\ index <= Len(found) /\ pc' \in Restarting
    BY <1>7, MovesOn DEF Passes, Patches, Restarting, MapInvariant, RoundOK
  <2>2. RoundPhase = "restarting" /\ RoundPhase' = "restarting"
    BY <2>1 DEF RoundPhase, Restarting
  <2>3. /\ w \in RoundVerdicts /\ w \in Workloads
        /\ RoundVerdicts' = RoundVerdicts \ {w}
        /\ RoundScope' = RoundScope
    BY <2>1, MovingOnDeals
  <2>4. CASE restartedAt' = restartedAt
    BY <2>2, <2>3, <2>4 DEF Rounds!Next, Rounds!Pass
  <2>5. CASE restartedAt' # restartedAt
    <3>1. Patches
      BY <1>7, <2>5 DEF Passes
    <3>2. restartedAt' = [restartedAt EXCEPT ![w] = value] /\ ~DryRun /\ restartedAt[w] <= value
      BY <3>1 DEF Patches, MapInvariant, RoundOK, TimesOK
    <3>3. value > restartedAt[w]
      BY <1>t, <2>3, <2>5, <3>2
    <3>4. value \in 0 .. MaxTime
      <4>1. value <= Trunc(now) /\ now <= MaxTime
        BY <3>1 DEF Patches, MapInvariant, TimesOK
      <4>2. Trunc(now) \in Nat /\ Trunc(now) <= now
        BY <1>t, TruncFacts
      <4> QED BY <1>t, <4>1, <4>2
    <3> QED BY <2>2, <2>3, <3>2, <3>3, <3>4 DEF Rounds!Next, Rounds!Restart
  <2> QED BY <2>4, <2>5
<1>8. CASE Ends
  <2>1. /\ RoundPhase' = "rest" /\ RoundScope' = {} /\ RoundVerdicts' = {}
        /\ restartedAt' = restartedAt
    BY <1>8 DEF Ends, RoundPhase, Resting, RoundScope, RoundVerdicts
  <2>2. CASE pc \in Resting
    <3>1. RoundPhase = "rest" /\ RoundScope = {} /\ RoundVerdicts = {}
      BY <2>2 DEF RoundPhase, Resting, RoundScope, RoundVerdicts, MapInvariant, RoundOK, Scanning,
                  Restarting
    <3> QED BY <2>1, <3>1
  <2>3. CASE pc \notin Resting
    <3>1. RoundPhase # "rest"
      BY <1>t, <2>3 DEF RoundPhase, Resting, Locations
    <3> QED BY <2>1, <3>1 DEF Rounds!Next, Rounds!End
  <2> QED BY <2>2, <2>3
<1> QED
  BY <1>1, <1>2, <1>3, <1>4, <1>5, <1>6, <1>7, <1>8 DEF RoundStep

\* The controller works in rounds: Reconcile, ScanOutdatedPods and
\* annotateWorkloadsWithDelay restart workloads of the round's scope only,
\* outside skipped namespaces, each at most once per round, never in a dry
\* run and never from the list of an earlier round, whatever fails or crashes.
THEOREM WorksInRounds == Spec => ImplementsRounds
<1>1. Init => Rounds!Init
  BY DEF Init, ClusterInit, ScanInit, Rounds!Init, RoundPhase, RoundScope, RoundVerdicts
<1>2. MapInvariant /\ [Next]_vars => [Rounds!Next]_(Rounds!rounds)
  BY RoundSteps, StepOfRound DEF MapInvariant
<1> QED
  BY <1>1, <1>2, MapInvariantHolds, PTL DEF Spec, ImplementsRounds, Rounds!Spec
=============================================================================
