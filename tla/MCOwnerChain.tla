---------------------------- MODULE MCOwnerChain ----------------------------
(***************************************************************************)
(* Owner references for OwnerChain: a pod with up to two owners, a         *)
(* ReplicaSet with up to two, and another ReplicaSet above it.  The API    *)
(* server accepts one controller reference per object.                     *)
(***************************************************************************)
EXTENDS OwnerChain, FiniteSets, TLC

Ref(o, c) == [to |-> o, controller |-> c]

RefSeqs(owners, n) ==
    {s \in UNION {[1 .. k -> {Ref(o, c) : o \in owners, c \in BOOLEAN}] : k \in 0 .. n} :
        Cardinality({i \in DOMAIN s : s[i].controller}) <= 1}

SmallGraphs ==
    {(Pod :> p) @@ ("rs" :> r) @@ ("rs2" :> q) :
        p \in RefSeqs({"rs", "sts", "job"}, 2),
        r \in RefSeqs({"rs2", "dep"}, 2),
        q \in RefSeqs({"dep"}, 1)}
=============================================================================
