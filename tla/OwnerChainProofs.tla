-------------------------- MODULE OwnerChainProofs --------------------------
(***************************************************************************)
(* Proofs, for every owner graph and every change of the caches, about     *)
(* findWorkloadOwner: what it answers owns the pod, and it misses an owner *)
(* only if something on the way was not in its cache.                      *)
(***************************************************************************)
EXTENDS OwnerChain, SequenceTheorems, TLAPS

-----------------------------------------------------------------------------
(* The trail.                                                              *)

\* Reference r waits in call c, in one of the calls of trail t.
InCall(c, r)  == \E j \in DOMAIN c : c[j] = r
WaitsIn(t, r) == \E i \in DOMAIN t : \E j \in DOMAIN t[i] : t[i][j] = r

\* The trail as a stack: the reference at hand, what is left after it, and a
\* call on top.
Trails(R)         == Seq(Seq(R))
Ready(t)          == t # << >> /\ Head(t) # << >>
First(t)          == Head(Head(t))
Rest(t)           == << Tail(Head(t)) >> \o Tail(t)
Push(c, t)        == << c >> \o t
PushBoth(c, d, t) == << c, d >> \o t

\* Looking at a reference of the innermost call: it is the first, and the
\* others stay in their calls.
LEMMA ConsumeOne ==
    ASSUME NEW R, NEW t \in Trails(R), Ready(t)
    PROVE  /\ Rest(t) \in Trails(R)
           /\ First(t) \in R /\ WaitsIn(t, First(t))
           /\ \A r \in R : WaitsIn(Rest(t), r) => WaitsIn(t, r)
           /\ \A r \in R : WaitsIn(t, r) => r = First(t) \/ WaitsIn(Rest(t), r)
<1> USE DEF Trails, Ready, First, Rest
<1> DEFINE c == Head(t)
           u == Rest(t)
<1>1. /\ c \in Seq(R) /\ Tail(c) \in Seq(R) /\ Len(t) \in Nat \ {0} /\ c = t[1]
      /\ Len(c) \in Nat \ {0} /\ Tail(t) \in Seq(Seq(R)) /\ Head(c) = c[1] /\ Head(c) \in R
  OBVIOUS
<1>2. /\ Len(u) = Len(t) /\ u \in Seq(Seq(R))
      /\ u[1] = Tail(c)
      /\ \A i \in 2 .. Len(t) : u[i] = t[i]
  BY <1>1
<1>3. Len(Tail(c)) = Len(c) - 1 /\ \A j \in 1 .. (Len(c) - 1) : Tail(c)[j] = c[j + 1]
  BY <1>1
<1>d. /\ DOMAIN t = 1 .. Len(t) /\ DOMAIN u = 1 .. Len(t)
      /\ DOMAIN c = 1 .. Len(c) /\ DOMAIN Tail(c) = 1 .. (Len(c) - 1)
  BY <1>1, <1>2, <1>3
<1>4. WaitsIn(t, Head(c))
  <2>1. 1 \in DOMAIN t /\ 1 \in DOMAIN t[1] /\ t[1][1] = Head(c)
    BY <1>1, <1>d
  <2> QED BY <2>1 DEF WaitsIn
<1>5. ASSUME NEW r \in R, WaitsIn(u, r)
      PROVE  WaitsIn(t, r)
  <2>1. PICK i \in DOMAIN u : \E j \in DOMAIN u[i] : u[i][j] = r
    BY <1>5 DEF WaitsIn
  <2>2. PICK j \in DOMAIN u[i] : u[i][j] = r
    BY <2>1
  <2>3. CASE i = 1
    <3>1. j + 1 \in DOMAIN t[1] /\ t[1][j + 1] = r /\ 1 \in DOMAIN t
      BY <1>1, <1>2, <1>3, <1>d, <2>2, <2>3
    <3> QED BY <3>1 DEF WaitsIn
  <2>4. CASE i # 1
    <3>1. i \in 2 .. Len(t) /\ u[i] = t[i] /\ i \in DOMAIN t
      BY <1>1, <1>2, <1>d, <2>4
    <3> QED BY <2>2, <3>1 DEF WaitsIn
  <2> QED BY <2>3, <2>4
<1>6. ASSUME NEW r \in R, WaitsIn(t, r), r # Head(c)
      PROVE  WaitsIn(u, r)
  <2>1. PICK i \in DOMAIN t : \E j \in DOMAIN t[i] : t[i][j] = r
    BY <1>6 DEF WaitsIn
  <2>2. PICK j \in DOMAIN t[i] : t[i][j] = r
    BY <2>1
  <2>3. CASE i = 1
    <3>1. j # 1 /\ j \in 1 .. Len(c)
      BY <1>1, <1>6, <1>d, <2>2, <2>3
    <3>2. j - 1 \in DOMAIN u[1] /\ u[1][j - 1] = r /\ 1 \in DOMAIN u
      <4>1. j - 1 \in 1 .. (Len(c) - 1) /\ (j - 1) + 1 = j
        BY <1>1, <3>1
      <4>2. Tail(c)[j - 1] = c[j]
        BY <1>3, <4>1
      <4>3. c[j] = r
        BY <1>1, <2>2, <2>3
      <4> QED BY <1>1, <1>2, <1>d, <4>1, <4>2, <4>3
    <3> QED BY <3>2 DEF WaitsIn
  <2>4. CASE i # 1
    <3>1. i \in 2 .. Len(t) /\ i \in DOMAIN u
      BY <1>1, <1>d, <2>4
    <3>2. u[i] = t[i]
      BY <1>2, <3>1
    <3> QED BY <2>2, <3>1, <3>2 DEF WaitsIn
  <2> QED BY <2>3, <2>4
<1> QED
  BY <1>1, <1>2, <1>4, <1>5, <1>6

\* The recursive call adds the references of its object.
LEMMA CallOne ==
    ASSUME NEW R, NEW t \in Trails(R), NEW c \in Seq(R)
    PROVE  /\ Push(c, t) \in Trails(R)
           /\ \A r \in R : WaitsIn(Push(c, t), r) <=> WaitsIn(t, r) \/ InCall(c, r)
<1> USE DEF Trails, Push, InCall
<1> DEFINE u == Push(c, t)
<1>1. /\ Len(t) \in Nat /\ DOMAIN t = 1 .. Len(t) /\ u \in Seq(Seq(R))
      /\ Len(u) = Len(t) + 1 /\ DOMAIN u = 1 .. (Len(t) + 1)
      /\ u[1] = c /\ \A i \in 1 .. Len(t) : u[i + 1] = t[i]
  OBVIOUS
<1>2. ASSUME NEW r \in R, WaitsIn(u, r)
      PROVE  WaitsIn(t, r) \/ \E j \in DOMAIN c : c[j] = r
  <2>1. PICK i \in DOMAIN u : \E j \in DOMAIN u[i] : u[i][j] = r
    BY <1>2 DEF WaitsIn
  <2>2. CASE i = 1
    BY <1>1, <2>1, <2>2
  <2>3. CASE i # 1
    <3>1. i - 1 \in DOMAIN t /\ u[i] = t[i - 1]
      BY <1>1, <2>3
    <3> QED BY <2>1, <3>1 DEF WaitsIn
  <2> QED BY <2>2, <2>3
<1>3. ASSUME NEW r \in R, WaitsIn(t, r)
      PROVE  WaitsIn(u, r)
  <2>1. PICK i \in DOMAIN t : \E j \in DOMAIN t[i] : t[i][j] = r
    BY <1>3 DEF WaitsIn
  <2>2. i + 1 \in DOMAIN u /\ u[i + 1] = t[i]
    BY <1>1
  <2> QED BY <2>1, <2>2 DEF WaitsIn
<1>4. ASSUME NEW r \in R, \E j \in DOMAIN c : c[j] = r
      PROVE  WaitsIn(u, r)
  <2>1. 1 \in DOMAIN u /\ u[1] = c
    BY <1>1
  <2> QED BY <1>4, <2>1 DEF WaitsIn
<1> QED
  BY <1>1, <1>2, <1>3, <1>4

\* Pushing two calls is pushing one after the other.
LEMMA PushTwo ==
    ASSUME NEW S, NEW a \in S, NEW b \in S, NEW s \in Seq(S)
    PROVE  PushBoth(a, b, s) = Push(a, Push(b, s))
<1> USE DEF Push, PushBoth
<1> DEFINE x == << a, b >> \o s
           y == << a >> \o (<< b >> \o s)
<1>1. x \in Seq(S) /\ y \in Seq(S) /\ Len(x) = Len(s) + 2 /\ Len(y) = Len(s) + 2
      /\ Len(s) \in Nat
  OBVIOUS
<1>2. \A i \in 1 .. (Len(s) + 2) : x[i] = y[i]
  OBVIOUS
<1> HIDE DEF x, y
<1> QED
  BY <1>1, <1>2, SeqEqual DEF x, y

\* A call without references left gives way to its caller.
LEMMA ReturnOne ==
    ASSUME NEW R, NEW t \in Trails(R), t # << >>, Head(t) = << >>
    PROVE  /\ Tail(t) \in Trails(R)
           /\ \A r \in R : WaitsIn(t, r) <=> WaitsIn(Tail(t), r)
           /\ Len(t) = 1 => \A r \in R : ~WaitsIn(t, r)
<1> USE DEF Trails
<1>1. /\ Len(t) \in Nat \ {0} /\ DOMAIN t = 1 .. Len(t) /\ Tail(t) \in Seq(Seq(R))
      /\ DOMAIN Tail(t) = 1 .. (Len(t) - 1) /\ t[1] = << >>
      /\ \A i \in 1 .. (Len(t) - 1) : Tail(t)[i] = t[i + 1]
  OBVIOUS
<1>2. DOMAIN t[1] = {}
  BY <1>1
<1>3. ASSUME NEW r \in R, WaitsIn(t, r)
      PROVE  WaitsIn(Tail(t), r) /\ Len(t) # 1
  <2>1. PICK i \in DOMAIN t : \E j \in DOMAIN t[i] : t[i][j] = r
    BY <1>3 DEF WaitsIn
  <2>2. i # 1
    BY <1>2, <2>1
  <2>3. i - 1 \in DOMAIN Tail(t) /\ Tail(t)[i - 1] = t[i] /\ Len(t) # 1
    BY <1>1, <2>2
  <2> QED BY <2>1, <2>3 DEF WaitsIn
<1>4. ASSUME NEW r \in R, WaitsIn(Tail(t), r)
      PROVE  WaitsIn(t, r)
  <2>1. PICK i \in DOMAIN Tail(t) : \E j \in DOMAIN Tail(t)[i] : Tail(t)[i][j] = r
    BY <1>4 DEF WaitsIn
  <2>2. i + 1 \in DOMAIN t /\ Tail(t)[i] = t[i + 1]
    BY <1>1
  <2> QED BY <2>1, <2>2 DEF WaitsIn
<1> QED
  BY <1>1, <1>3, <1>4

-----------------------------------------------------------------------------
(* Types.                                                                  *)

\* The caches hold readable objects, steady ones all the time, and the walk
\* is over exactly when no call is left.
WalkOK ==
    /\ refs \in [{Pod} \cup Intermediates -> Seq(References)]
    /\ cached \subseteq Readable /\ steady \subseteq cached
    /\ trail \in Trails(References)
    /\ outcome \in Workloads \cup {"walking", None, Error}
    /\ outcome # "walking" => trail = << >>

\* The reference at hand has a kind.
LEMMA OwnerTypes ==
    ASSUME WalkOK, Looking
    PROVE  /\ owner \in References /\ WaitsIn(trail, owner)
           /\ owner.to \in Objects /\ outcome = "walking"
<1>1. trail \in Trails(References) /\ Ready(trail) /\ owner = First(trail)
  BY DEF WalkOK, Looking, owner, Trails, Ready, First
<1>2. owner \in References /\ WaitsIn(trail, owner)
  BY <1>1, ConsumeOne
<1> QED
  BY <1>2 DEF References, WalkOK, Looking

\* What a step of the walk does to the trail.
LEMMA ContinueTrail ==
    ASSUME WalkOK, Looking, Continue
    PROVE  /\ trail' \in Trails(References) /\ outcome' = outcome
           /\ \A r \in References : WaitsIn(trail', r) => WaitsIn(trail, r)
           /\ \A r \in References : WaitsIn(trail, r) => r = owner \/ WaitsIn(trail', r)
<1>1. trail \in Trails(References) /\ Ready(trail) /\ owner = First(trail)
  BY DEF WalkOK, Looking, owner, Trails, Ready, First
<1>2. trail' = Rest(trail) /\ outcome' = outcome
  BY DEF Continue, Rest
<1> QED
  BY <1>1, <1>2, ConsumeOne

\* fetchIntermediateOwner of a cached object calls findWorkloadOwner for it.
LEMMA CallTrail ==
    ASSUME WalkOK, Looking, owner.to \in Intermediates,
           trail' = << GetOwnerReferences(owner.to), Tail(Head(trail)) >> \o Tail(trail)
    PROVE  /\ trail' \in Trails(References)
           /\ \A r \in References : WaitsIn(trail', r) =>
                 WaitsIn(trail, r) \/ InCall(refs[owner.to], r)
           /\ \A r \in References : WaitsIn(trail, r) => r = owner \/ WaitsIn(trail', r)
           /\ \A j \in DOMAIN refs[owner.to] : WaitsIn(trail', refs[owner.to][j])
<1> DEFINE c == refs[owner.to]
<1>1. trail \in Trails(References) /\ Ready(trail) /\ owner = First(trail)
  BY DEF WalkOK, Looking, owner, Trails, Ready, First
<1>2. c \in Seq(References) /\ \A j \in DOMAIN c : c[j] \in References
  <2>1. c \in Seq(References)
    BY DEF WalkOK
  <2> QED BY <2>1
<1>3. trail' = Push(c, Rest(trail))
  <2>1. /\ trail \in Seq(Seq(References)) /\ trail # << >>
        /\ Head(trail) \in Seq(References) /\ Head(trail) # << >>
    BY DEF WalkOK, Looking, Trails
  <2>2. Tail(Head(trail)) \in Seq(References) /\ Tail(trail) \in Seq(Seq(References))
    BY <2>1
  <2> DEFINE d == Tail(Head(trail))
             s == Tail(trail)
  <2>3. trail' = PushBoth(c, d, s) /\ Rest(trail) = Push(d, s)
    BY DEF GetOwnerReferences, Rest, Push, PushBoth
  <2> DEFINE Calls == Seq(References)
  <2>c. c \in Calls /\ d \in Calls /\ s \in Seq(Calls)
    BY <1>2, <2>2
  <2> HIDE DEF c, d, s, Calls
  <2> QED BY ONLY <2>c, <2>3, PushTwo
<1> HIDE DEF c
<1>4. /\ Rest(trail) \in Trails(References)
      /\ \A r \in References : WaitsIn(Rest(trail), r) => WaitsIn(trail, r)
      /\ \A r \in References : WaitsIn(trail, r) => r = owner \/ WaitsIn(Rest(trail), r)
  BY <1>1, ConsumeOne
<1>5. /\ trail' \in Trails(References)
      /\ \A r \in References :
            WaitsIn(trail', r) <=> WaitsIn(Rest(trail), r) \/ InCall(c, r)
  BY <1>2, <1>3, <1>4, CallOne
<1>6. \A j \in DOMAIN c : InCall(c, c[j])
  BY DEF InCall
<1> QED
  BY <1>2, <1>4, <1>5, <1>6 DEF c

\* Types are kept.
LEMMA WalkOKStep ==
    ASSUME WalkOK, [Next]_walk
    PROVE  WalkOK'
<1>1. CASE Looking /\ Continue /\ UNCHANGED << refs, cached, moves, steady >>
  <2>1. outcome = "walking"
    BY <1>1, OwnerTypes
  <2> QED BY <1>1, <2>1, ContinueTrail DEF WalkOK
<1>2. CASE PassOver
  BY <1>1, <1>2 DEF PassOver
<1>3. ASSUME NEW result \in Workloads \cup {None, Error}, Return(result),
             UNCHANGED << refs, cached, moves, steady >>
      PROVE  WalkOK'
  BY <1>3 DEF Return, WalkOK, Trails
<1>4. CASE getWorkloadRef
  BY <1>1, <1>3, <1>4 DEF getWorkloadRef, NotFound
<1>5. CASE fetchIntermediateOwner
  <2>1. outcome = "walking"
    BY <1>5, OwnerTypes DEF fetchIntermediateOwner
  <2>2. CASE owner.to \in cached
    BY <1>5, <2>1, <2>2, CallTrail DEF fetchIntermediateOwner, WalkOK
  <2>3. CASE owner.to \notin cached
    BY <1>1, <1>5, <2>3 DEF fetchIntermediateOwner, NotFound
  <2> QED BY <2>2, <2>3
<1>6. CASE ReturnNil
  <2>1. outcome = "walking" /\ Tail(trail) \in Trails(References)
    BY <1>6, ReturnOne DEF ReturnNil, WalkOK
  <2> QED BY <1>3, <1>6, <2>1 DEF ReturnNil, WalkOK
<1>7. CASE GetFails
  BY <1>3, <1>7 DEF GetFails
<1>8. CASE \E o \in Readable : CacheMoves(o)
  BY <1>8 DEF CacheMoves, WalkOK
<1>9. CASE UNCHANGED walk
  BY <1>9 DEF walk, WalkOK
<1> QED
  BY <1>2, <1>4, <1>5, <1>6, <1>7, <1>8, <1>9 DEF Next, findWorkloadOwner

\* The walk starts with the references of the pod.
LEMMA InitWalk == Init => WalkOK
<1> SUFFICES ASSUME Init PROVE WalkOK
  OBVIOUS
<1>1. refs \in [{Pod} \cup Intermediates -> Seq(References)]
  BY GraphAssumption DEF Init
<1>2. refs[Pod] \in Seq(References) /\ trail = << refs[Pod] >>
  BY <1>1 DEF Init, GetOwnerReferences
<1>3. trail \in Trails(References)
  BY <1>2 DEF Trails
<1> QED
  BY <1>1, <1>3 DEF Init, WalkOK

-----------------------------------------------------------------------------
(* What is answered owns the pod.                                          *)

\* In terms of references: a closed set holds the controllers of its objects.
LEMMA ClosedCall ==
    ASSUME NEW S, NEW C, ClosedThrough(S, C), NEW x \in C \cap DOMAIN refs,
           NEW r, InCall(refs[x], r), r.controller, r.to \in S
    PROVE  r.to \in C
BY DEF ClosedThrough, InCall

\* Every set that holds the pod and is closed under controllers holds those
\* of the references on the trail, and the answer.
OnTheWay ==
    \A C \in SUBSET Objects : ClosedThrough(Objects, C) =>
        /\ \A r \in References : WaitsIn(trail, r) /\ r.controller => r.to \in C
        /\ outcome \in Workloads => outcome \in C

\* The walk goes on with references of objects that it got to.
LEMMA OnTheWayStep ==
    ASSUME WalkOK, OnTheWay, [Next]_walk
    PROVE  OnTheWay'
<1> SUFFICES ASSUME NEW C \in SUBSET Objects, ClosedThrough(Objects, C)'
             PROVE  /\ \A r \in References : WaitsIn(trail', r) /\ r.controller => r.to \in C
                    /\ outcome' \in Workloads => outcome' \in C
  BY DEF OnTheWay
<1>r. refs' = refs
  BY DEF Next, findWorkloadOwner, PassOver, getWorkloadRef, fetchIntermediateOwner, ReturnNil,
         GetFails, CacheMoves, walk
<1>c. ClosedThrough(Objects, C)
  BY <1>r DEF ClosedThrough
<1>i. /\ \A r \in References : WaitsIn(trail, r) /\ r.controller => r.to \in C
      /\ outcome \in Workloads => outcome \in C
  BY <1>c DEF OnTheWay
<1>k. "walking" \notin Workloads /\ None \notin Workloads /\ Error \notin Workloads
  BY KindAssumption DEF Objects, Readable
<1>0. ASSUME trail' = << >> PROVE \A r \in References : ~WaitsIn(trail', r)
  <2>1. DOMAIN trail' = {}
    BY <1>0
  <2> QED BY <2>1 DEF WaitsIn
<1>1. CASE Looking /\ Continue
  BY <1>1, <1>i, ContinueTrail
<1>2. CASE PassOver
  BY <1>1, <1>2 DEF PassOver
<1>3. CASE getWorkloadRef
  <2>1. CASE owner.to \in cached
    <3>1. owner \in References /\ WaitsIn(trail, owner) /\ owner.controller
      BY <1>3, OwnerTypes DEF getWorkloadRef, Controls
    <3>2. trail' = << >> /\ outcome' = owner.to
      BY <1>3, <2>1 DEF getWorkloadRef, Return
    <3> QED BY <1>0, <1>i, <3>1, <3>2
  <2>2. CASE owner.to \notin cached
    BY <1>1, <1>3, <2>2 DEF getWorkloadRef, NotFound
  <2> QED BY <2>1, <2>2
<1>4. CASE fetchIntermediateOwner
  <2>1. CASE owner.to \in cached
    <3>1. /\ owner \in References /\ WaitsIn(trail, owner) /\ owner.controller
          /\ owner.to \in Intermediates /\ Looking
          /\ trail' = << GetOwnerReferences(owner.to), Tail(Head(trail)) >> \o Tail(trail)
          /\ outcome' = outcome
      BY <1>4, <2>1, OwnerTypes DEF fetchIntermediateOwner, Controls
    <3>2. owner.to \in C \cap DOMAIN refs
      BY <1>i, <3>1 DEF WalkOK
    <3>3. \A r \in References : WaitsIn(trail', r) => WaitsIn(trail, r) \/ InCall(refs[owner.to], r)
      BY <3>1, CallTrail
    <3>4. ASSUME NEW r \in References, InCall(refs[owner.to], r), r.controller
          PROVE  r.to \in C
      <4>1. r.to \in Objects
        BY DEF References
      <4> QED BY <1>c, <3>2, <3>4, <4>1, ClosedCall
    <3> QED BY ONLY <1>i, <3>1, <3>3, <3>4
  <2>2. CASE owner.to \notin cached
    BY <1>1, <1>4, <2>2 DEF fetchIntermediateOwner, NotFound
  <2> QED BY <2>1, <2>2
<1>5. CASE ReturnNil
  <2>1. CASE Len(trail) = 1
    <3>1. trail' = << >> /\ outcome' = None
      BY <1>5, <2>1 DEF ReturnNil, Return
    <3> QED BY <1>0, <1>k, <3>1
  <2>2. CASE Len(trail) # 1
    <3>1. trail' = Tail(trail) /\ outcome' = outcome
      BY <1>5, <2>2 DEF ReturnNil
    <3>2. \A r \in References : WaitsIn(trail, r) <=> WaitsIn(Tail(trail), r)
      BY <1>5, ReturnOne DEF ReturnNil, WalkOK
    <3> QED BY <1>i, <3>1, <3>2
  <2> QED BY <2>1, <2>2
<1>6. CASE GetFails
  <2>1. trail' = << >> /\ outcome' = Error
    BY <1>6 DEF GetFails, Return
  <2> QED BY <1>0, <1>k, <2>1
<1>7. CASE (\E o \in Readable : CacheMoves(o)) \/ UNCHANGED walk
  BY <1>7, <1>i DEF CacheMoves, walk
<1> QED
  BY <1>2, <1>3, <1>4, <1>5, <1>6, <1>7 DEF Next, findWorkloadOwner

\* findWorkloadOwner answers a workload only if the controller references
\* lead to it from the pod, whatever the owner references look like and the
\* caches show meanwhile.
THEOREM AnswerOwnsPod == Spec => []FoundIsOwner
<1> DEFINE I == WalkOK /\ OnTheWay
<1>1. Init => I
  <2> SUFFICES ASSUME Init PROVE OnTheWay
    BY InitWalk
  <2>1. trail = << refs[Pod] >> /\ outcome = "walking"
    BY DEF Init, GetOwnerReferences
  <2>2. Pod \in DOMAIN refs /\ "walking" \notin Workloads
    BY InitWalk, KindAssumption DEF WalkOK, Objects, Readable
  <2>3. \A r \in References : WaitsIn(trail, r) => InCall(refs[Pod], r)
    <3>1. DOMAIN trail = {1} /\ trail[1] = refs[Pod]
      BY <2>1
    <3> QED BY <3>1 DEF WaitsIn, InCall
  <2>4. ASSUME NEW C \in SUBSET Objects, ClosedThrough(Objects, C), NEW r \in References,
               WaitsIn(trail, r), r.controller
        PROVE  r.to \in C
    <3>1. Pod \in C \cap DOMAIN refs /\ r.to \in Objects /\ InCall(refs[Pod], r)
      BY <2>2, <2>3, <2>4 DEF ClosedThrough, References
    <3> QED BY <2>4, <3>1, ClosedCall
  <2> QED BY <2>1, <2>2, <2>4 DEF OnTheWay
<1>2. I /\ [Next]_walk => I'
  BY WalkOKStep, OnTheWayStep
<1>3. I => FoundIsOwner
  BY DEF WalkOK, OnTheWay, FoundIsOwner, OwnersThrough, Objects, Readable
<1> QED
  BY <1>1, <1>2, <1>3, PTL DEF Spec

-----------------------------------------------------------------------------
(* What is missed was missing.                                             *)

\* The walk has got to the objects of C and read their references: what they
\* lead to, and has been cached all along, is in C or still to be looked at.
Explored(C) ==
    /\ Pod \in C /\ C \subseteq {Pod} \cup Intermediates
    /\ \A x \in C : \A r \in References :
          (InCall(refs[x], r) /\ r.controller /\ r.to \in steady)
          => r.to \in C \/ WaitsIn(trail, r)

NothingMissed == outcome \in {"walking", None} => \E C : Explored(C)

\* Dropping a reference that leads to nothing steady misses nothing.
LEMMA ExploredKept ==
    ASSUME NEW C, Explored(C), refs' = refs, steady' \subseteq steady,
           \A r \in References :
              WaitsIn(trail, r) => WaitsIn(trail', r) \/ ~r.controller \/ r.to \notin steady'
    PROVE  Explored(C)'
BY DEF Explored

\* A reference is taken off the trail when its object is reached, is not in
\* the cache, or cannot be read at all.
LEMMA NothingMissedStep ==
    ASSUME WalkOK, NothingMissed, [Next]_walk
    PROVE  NothingMissed'
<1>k. /\ "walking" \notin Workloads /\ None \notin Workloads
      /\ Error \notin {"walking", None} /\ Readable \cap Others = {}
      /\ Intermediates \cap Workloads = {}
  BY KindAssumption DEF Objects, Readable
<1>t. steady \subseteq cached /\ steady \subseteq Readable
  BY DEF WalkOK
<1>1. ASSUME Looking, Continue, UNCHANGED << refs, steady >>,
             ~owner.controller \/ owner.to \notin steady
      PROVE  NothingMissed'
  <2>1. PICK C : Explored(C)
    BY <1>1, OwnerTypes DEF NothingMissed
  <2>2. \A r \in References :
           WaitsIn(trail, r) => WaitsIn(trail', r) \/ ~r.controller \/ r.to \notin steady'
    BY <1>1, ContinueTrail
  <2>3. Explored(C)'
    BY <1>1, <2>1, <2>2, ExploredKept
  <2> QED BY <2>3 DEF NothingMissed
<1>2. CASE PassOver
  BY <1>1, <1>2, <1>k, <1>t DEF PassOver, Controls
<1>3. CASE getWorkloadRef
  <2>1. CASE owner.to \in cached
    <3>1. outcome' \in Workloads
      BY <1>3, <2>1 DEF getWorkloadRef, Return
    <3> QED BY <1>k, <3>1 DEF NothingMissed
  <2>2. CASE owner.to \notin cached
    BY <1>1, <1>3, <1>t, <2>2 DEF getWorkloadRef, NotFound
  <2> QED BY <2>1, <2>2
<1>4. CASE fetchIntermediateOwner
  <2>1. CASE owner.to \in cached
    <3>0. PICK o : o = owner.to
      OBVIOUS
    <3>1. /\ owner \in References /\ outcome = "walking" /\ o \in Intermediates /\ Looking
          /\ trail' = << GetOwnerReferences(o), Tail(Head(trail)) >> \o Tail(trail)
          /\ UNCHANGED << refs, steady >>
      BY <1>4, <2>1, <3>0, OwnerTypes DEF fetchIntermediateOwner
    <3>2. PICK C : Explored(C)
      BY <3>1 DEF NothingMissed
    <3>3. /\ \A r \in References : WaitsIn(trail, r) => r = owner \/ WaitsIn(trail', r)
          /\ \A j \in DOMAIN refs[o] : WaitsIn(trail', refs[o][j])
      BY <3>0, <3>1, CallTrail
    <3>4. \A r : InCall(refs[o], r) => WaitsIn(trail', r)
      BY <3>3 DEF InCall
    <3>d. PICK D : D = C \cup {o}
      OBVIOUS
    <3>5. Pod \in D /\ D \subseteq {Pod} \cup Intermediates
      BY <3>1, <3>2, <3>d DEF Explored
    <3>6. ASSUME NEW x \in D, NEW r \in References,
                 InCall(refs[x], r), r.controller, r.to \in steady
          PROVE  r.to \in D \/ WaitsIn(trail', r)
      <4>1. CASE x = o
        BY <3>4, <3>6, <4>1
      <4>2. CASE x \in C
        BY <3>0, <3>2, <3>3, <3>6, <3>d, <4>2 DEF Explored
      <4> QED BY <3>d, <4>1, <4>2
    <3>7. Explored(D)'
      BY <3>1, <3>5, <3>6 DEF Explored
    <3> QED BY <3>7 DEF NothingMissed
  <2>2. CASE owner.to \notin cached
    BY <1>1, <1>4, <1>t, <2>2 DEF fetchIntermediateOwner, NotFound
  <2> QED BY <2>1, <2>2
<1>5. CASE ReturnNil
  <2>1. /\ trail # << >> /\ Head(trail) = << >> /\ trail \in Trails(References)
        /\ outcome = "walking" /\ UNCHANGED << refs, steady >>
    BY <1>5 DEF ReturnNil, WalkOK
  <2>2. PICK C : Explored(C)
    BY <2>1 DEF NothingMissed
  <2>3. \A r \in References : WaitsIn(trail, r) => WaitsIn(trail', r)
    <3>1. /\ \A r \in References : WaitsIn(trail, r) <=> WaitsIn(Tail(trail), r)
          /\ Len(trail) = 1 => \A r \in References : ~WaitsIn(trail, r)
      BY <2>1, ReturnOne
    <3> QED BY <1>5, <3>1 DEF ReturnNil
  <2>4. Explored(C)'
    BY <2>1, <2>2, <2>3, ExploredKept
  <2> QED BY <2>4 DEF NothingMissed
<1>6. CASE GetFails
  BY <1>6, <1>k DEF GetFails, Return, NothingMissed
<1>7. CASE \E o \in Readable : CacheMoves(o)
  <2>1. UNCHANGED << refs, trail, outcome >> /\ steady' \subseteq steady /\ outcome = "walking"
    BY <1>7 DEF CacheMoves
  <2>2. PICK C : Explored(C)
    BY <2>1 DEF NothingMissed
  <2>3. Explored(C)'
    BY <2>1, <2>2, ExploredKept
  <2> QED BY <2>3 DEF NothingMissed
<1>8. CASE UNCHANGED walk
  BY <1>8 DEF walk, NothingMissed, Explored
<1> QED
  BY <1>2, <1>3, <1>4, <1>5, <1>6, <1>7, <1>8 DEF Next, findWorkloadOwner

\* findWorkloadOwner answers nil for a pod with a workload only if an object
\* between them was missing from its cache at some time of the walk:
\* ScanOutdatedPods drops such a pod, and no other.
THEOREM NilMeansGone == Spec => []MissedOnlyIfGone
<1> DEFINE I == WalkOK /\ NothingMissed
<1>1. Init => I
  <2> SUFFICES ASSUME Init PROVE Explored({Pod})
    BY InitWalk DEF NothingMissed
  <2>1. trail = << refs[Pod] >>
    BY DEF Init, GetOwnerReferences
  <2>2. \A r : InCall(refs[Pod], r) => WaitsIn(trail, r)
    <3>1. DOMAIN trail = {1} /\ trail[1] = refs[Pod]
      BY <2>1
    <3> QED BY <3>1 DEF WaitsIn, InCall
  <2> QED BY <2>2 DEF Explored
<1>2. I /\ [Next]_walk => I'
  BY WalkOKStep, NothingMissedStep
<1>3. I => MissedOnlyIfGone
  <2> SUFFICES ASSUME I, outcome = None, NEW o \in OwnersThrough(steady), o \in Workloads
               PROVE  FALSE
    BY DEF MissedOnlyIfGone
  <2>1. PICK C : Explored(C)
    BY DEF NothingMissed
  <2>2. \A r \in References : ~WaitsIn(trail, r)
    <3>1. trail = << >>
      BY KindAssumption DEF WalkOK
    <3>2. DOMAIN trail = {}
      BY <3>1
    <3> QED BY <3>2 DEF WaitsIn
  <2> DEFINE D == C \cap ({Pod} \cup steady)
  <2>3. ClosedThrough(steady, D)
    <3>1. Pod \in D
      BY <2>1 DEF Explored
    <3>2. ASSUME NEW x \in D \cap DOMAIN refs, NEW i \in DOMAIN refs[x],
                 refs[x][i].controller, refs[x][i].to \in steady
          PROVE  refs[x][i].to \in D
      <4>1. refs[x] \in Seq(References)
        BY DEF WalkOK
      <4>2. refs[x][i] \in References /\ InCall(refs[x], refs[x][i])
        BY <4>1 DEF InCall
      <4>3. refs[x][i].to \in C
        <5> DEFINE r == refs[x][i]
        <5>1. r \in References /\ InCall(refs[x], r) /\ r.controller /\ r.to \in steady /\ x \in C
          BY <3>2, <4>2
        <5> HIDE DEF r
        <5> QED BY <2>1, <2>2, <5>1 DEF Explored, r
      <4> QED BY <3>2, <4>3
    <3> HIDE DEF D
    <3> QED BY <3>1, <3>2 DEF ClosedThrough
  <2>4. o \in D
    <3>1. D \in SUBSET ({Pod} \cup steady)
      OBVIOUS
    <3> HIDE DEF D
    <3> QED BY <2>3, <3>1 DEF OwnersThrough
  <2>5. o \in {Pod} \cup Intermediates
    BY <2>1, <2>4 DEF Explored
  <2> QED BY <2>5, KindAssumption DEF Readable
<1> QED
  BY <1>1, <1>2, <1>3, PTL DEF Spec
=============================================================================
