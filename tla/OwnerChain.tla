----------------------------- MODULE OwnerChain -----------------------------
(***************************************************************************)
(* internal/podscanner, findWorkloadOwner: from a pod along the controller *)
(* owner references, through ReplicaSets and ControllerRevisions, to the   *)
(* Deployment, StatefulSet or DaemonSet that fortsa can restart.           *)
(*                                                                         *)
(* Every object on the way is read from a cache of its own kind, so pods,  *)
(* ReplicaSets and workloads are not seen at one moment: while the walk is *)
(* under way objects appear in the caches and disappear from them.         *)
(* The recursion is a stack: trail holds, innermost first, the references  *)
(* that every call under way has not looked at yet.                        *)
(***************************************************************************)
EXTENDS Naturals, Sequences

CONSTANTS
    Pod,            \* where the walk starts
    Intermediates,  \* ReplicaSets and ControllerRevisions
    Workloads,      \* Deployments, StatefulSets and DaemonSets
    Others,         \* objects of any other kind: Job, Node, Rollout ...
    OwnerGraphs,    \* what the owner references may look like
    MaxMoves,       \* bound: changes of the caches during the walk
    None,           \* no owner found
    Error           \* a Get failed

Readable == Intermediates \cup Workloads
Objects  == {Pod} \cup Readable \cup Others

References == [to : Objects \ {Pod}, controller : BOOLEAN]

ASSUME GraphAssumption == \A g \in OwnerGraphs : g \in [{Pod} \cup Intermediates -> Seq(References)]

ASSUME KindAssumption ==
    /\ Pod \notin Readable \cup Others
    /\ Intermediates \cap Workloads = {} /\ Readable \cap Others = {}
    /\ {"walking", None, Error} \cap Objects = {}
    /\ None # Error /\ "walking" \notin {None, Error}

VARIABLES
    refs,           \* object -> its owner references, fixed when it is created;
                    \* owners are looked up by name, and one that is created
                    \* again under its name has the same references
    cached,         \* the objects the caches hold
    trail,          \* references left, innermost call first
    outcome,        \* "walking", a workload, None or Error
    moves,          \* changes of the caches so far
    steady          \* history: objects that were cached all the time

walk == << refs, cached, trail, outcome, moves, steady >>

\* A slip: looking at the first owner reference only.
FirstOwnerReference(o) == IF refs[o] = << >> THEN << >> ELSE << Head(refs[o]) >>
GetOwnerReferences(o)  == refs[o]

Init ==
    /\ refs \in OwnerGraphs
    /\ cached \in SUBSET Readable
    /\ trail = << GetOwnerReferences(Pod) >>
    /\ outcome = "walking"
    /\ moves = 0
    /\ steady = cached

-----------------------------------------------------------------------------
\* The reference the innermost call looks at.
Looking == trail # << >> /\ Head(trail) # << >>
owner   == Head(Head(trail))

\* A slip: any owner counts.
AnyOwner(r) == TRUE
Controls(r) == r.controller

\* The call goes on with its next reference.
Continue ==
    /\ trail' = << Tail(Head(trail)) >> \o Tail(trail)
    /\ UNCHANGED outcome

Return(result) == trail' = << >> /\ outcome' = result

\* Not a controller, or of a kind that resolveOwner does not know.
PassOver ==
    /\ Looking
    /\ ~Controls(owner) \/ owner.to \in Others
    /\ Continue
    /\ UNCHANGED << refs, cached, moves, steady >>

\* A slip: asking again for as long as the object is not there.
AskAgain == UNCHANGED << trail, outcome >>
NotFound == Continue

getWorkloadRef ==
    /\ Looking
    /\ Controls(owner) /\ owner.to \in Workloads
    /\ IF owner.to \in cached THEN Return(owner.to) ELSE NotFound
    /\ UNCHANGED << refs, cached, moves, steady >>

\* The recursive call takes over; when it ends the caller continues.
fetchIntermediateOwner ==
    /\ Looking
    /\ Controls(owner) /\ owner.to \in Intermediates
    /\ IF owner.to \in cached
       THEN /\ trail' = << GetOwnerReferences(owner.to), Tail(Head(trail)) >> \o Tail(trail)
            /\ UNCHANGED outcome
       ELSE NotFound
    /\ UNCHANGED << refs, cached, moves, steady >>

\* No reference left: nil, for the caller or as the answer.
ReturnNil ==
    /\ trail # << >> /\ Head(trail) = << >>
    /\ IF Len(trail) = 1 THEN Return(None)
       ELSE trail' = Tail(trail) /\ UNCHANGED outcome
    /\ UNCHANGED << refs, cached, moves, steady >>

\* An error other than NotFound ends all the calls.
GetFails ==
    /\ Looking
    /\ Controls(owner) /\ owner.to \in Readable
    /\ Return(Error)
    /\ UNCHANGED << refs, cached, moves, steady >>

\* A watch event: an object is created, deleted, or its event was late.
CacheMoves(o) ==
    /\ outcome = "walking" /\ moves < MaxMoves
    /\ cached' = IF o \in cached THEN cached \ {o} ELSE cached \cup {o}
    /\ steady' = steady \ {o}
    /\ moves' = moves + 1
    /\ UNCHANGED << refs, trail, outcome >>

findWorkloadOwner == PassOver \/ getWorkloadRef \/ fetchIntermediateOwner \/ ReturnNil

Next == findWorkloadOwner \/ GetFails \/ \E o \in Readable : CacheMoves(o)

\* The walk is a plain call: it goes on as long as it has a step to take.
Spec == Init /\ [][Next]_walk /\ WF_walk(findWorkloadOwner)

-----------------------------------------------------------------------------
\* C holds the pod and, with an object, its controllers among S.
ClosedThrough(S, C) ==
    /\ Pod \in C
    /\ \A x \in C \cap DOMAIN refs : \A i \in DOMAIN refs[x] :
          (refs[x][i].controller /\ refs[x][i].to \in S) => refs[x][i].to \in C

\* What the controller references lead to from the pod, through objects of S:
\* the smallest such set.
OwnersThrough(S) ==
    {o \in {Pod} \cup S : \A C \in SUBSET ({Pod} \cup S) : ClosedThrough(S, C) => o \in C}

\* findWorkloadOwner: a workload is answered for a pod only if the chain of
\* controller references leads to it, never one that merely owns an object on
\* the way, whatever the caches show meanwhile: restarting the answer rolls
\* the pod.
FoundIsOwner == outcome \in Workloads => outcome \in OwnersThrough(Objects)

\* ... and nil is answered for a pod that has such a workload only if an
\* object between them was missing from its cache at some time of the walk.
\* ScanOutdatedPods drops the pod then, without an error and without a retry.
MissedOnlyIfGone == outcome = None => OwnersThrough(steady) \cap Workloads = {}

\* The recursion ends, also when the objects it asks for come and go.
WalkEnds == <>(outcome # "walking")
=============================================================================
