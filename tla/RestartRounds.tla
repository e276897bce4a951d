--------------------------- MODULE RestartRounds ---------------------------
(***************************************************************************)
(* What fortsa promises about restarts, without saying how: it works in    *)
(* rounds.  A round looks at all namespaces or at one, judges workloads of *)
(* it, and restarts some of those it judged outdated, each at most once    *)
(* and one at a time.  It may be cut short at any moment.  Between rounds, *)
(* in a dry run, in a skipped namespace and outside the scope nothing is   *)
(* restarted, and a restart only ever moves restartedAt forward.           *)
(*                                                                         *)
(* IstioChangeReconciler implements this: see Rounds in                    *)
(* IstioChangeProperties.                                                  *)
(***************************************************************************)
EXTENDS Naturals

CONSTANTS
    Workloads, Namespaces, NamespaceOf, SkipNamespaces, DryRun,
    Times           \* the values restartedAt can have

VARIABLES
    restartedAt,    \* workload -> restartedAt, 0 if it was never restarted
    phase,          \* "rest", "judging" or "restarting"
    scope,          \* the namespaces of the round
    verdicts        \* workloads judged outdated and not dealt with yet

rounds == << restartedAt, phase, scope, verdicts >>

Init ==
    /\ restartedAt = [w \in Workloads |-> 0]
    /\ phase = "rest" /\ scope = {} /\ verdicts = {}

Begin ==
    /\ phase = "rest"
    /\ phase' = "judging"
    /\ scope' \in {Namespaces} \cup {{n} : n \in Namespaces}
    /\ UNCHANGED << restartedAt, verdicts >>

Judge(w) ==
    /\ phase = "judging"
    /\ w \notin verdicts
    /\ NamespaceOf[w] \in scope \ SkipNamespaces
    /\ verdicts' = verdicts \cup {w}
    /\ UNCHANGED << restartedAt, phase, scope >>

Turn ==
    /\ phase = "judging"
    /\ phase' = "restarting"
    /\ UNCHANGED << restartedAt, scope, verdicts >>

Restart(w, t) ==
    /\ phase = "restarting" /\ ~DryRun
    /\ w \in verdicts /\ t > restartedAt[w]
    /\ restartedAt' = [restartedAt EXCEPT ![w] = t]
    /\ verdicts' = verdicts \ {w}
    /\ UNCHANGED << phase, scope >>

\* Cooling down, dry run, or the restart fails.
Pass(w) ==
    /\ phase = "restarting"
    /\ w \in verdicts
    /\ verdicts' = verdicts \ {w}
    /\ UNCHANGED << restartedAt, phase, scope >>

\* Done, failed or crashed.
End ==
    /\ phase # "rest"
    /\ phase' = "rest" /\ scope' = {} /\ verdicts' = {}
    /\ UNCHANGED restartedAt

Next ==
    \/ Begin \/ Turn \/ End
    \/ \E w \in Workloads : Judge(w) \/ Pass(w) \/ \E t \in Times : Restart(w, t)

Spec == Init /\ [][Next]_rounds
=============================================================================
