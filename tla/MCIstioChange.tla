--------------------------- MODULE MCIstioChange ---------------------------
(***************************************************************************)
(* Values for the constants of IstioChangeReconciler, shared by the runs.  *)
(***************************************************************************)
EXTENDS IstioChangeProperties

Image(hub, tag) == << hub, "/", "proxyv2", ":", tag >>

TwoTags       == {Image("docker.io", "1.20"), Image("docker.io", "1.21")}
ThreeTags     == TwoTags \cup {Image("docker.io", "1.22")}
TwoHubs       == TwoTags \cup {Image("gcr.io", "1.21")}
AllSame       == [r \in Revisions |-> Image("docker.io", "1.20")]
R2Newer       == [r \in Revisions |->
                     Image("docker.io", IF r = "r2" THEN "1.21" ELSE "1.20")]

TagsToR1      == [t \in Tags |-> "r1"]

Enabled       == [rev |-> None, injection |-> "enabled"]
Rev(l)        == [rev |-> l, injection |-> "unset"]

EnabledOnly   == {Enabled}
EnabledOrNot  == {Enabled, [rev |-> None, injection |-> "unset"]}
EnabledOrR2   == {Enabled, Rev("r2")}
AllEnabled    == [n \in Namespaces |-> Enabled]

NoTemplateRev == [w \in Workloads |-> None]
ApiOnR2       == [w \in Workloads |-> IF w = "api" THEN "r2" ELSE None]
OneNamespace  == [w \in Workloads |-> "shop"]
ByNamespace   == [w \in Workloads |->
                     CASE w = "db" -> "data" [] w = "log" -> "infra" [] OTHER -> "shop"]
SameName      == [w \in Workloads |-> "app"]
OwnName       == [w \in Workloads |-> w]
OnePodEach    == [p \in Pods |-> p]
TwoWebPods    == [p \in Pods |-> IF p = "web2" THEN "web" ELSE p]
=============================================================================
