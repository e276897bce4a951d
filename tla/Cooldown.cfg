\* Two ConfigMap changes, so that a workload qualifies for a second restart,
\* and three images, so that a change need not restore an earlier one, with a
\* Conflict and a crash.  The caches may lag as long as the delay, a rollout
\* takes up to two ticks, calls any time.  The cooldown of 4 covers a verdict
\* if the last patch and the age of the list took at most a tick together.
SPECIFICATION VerdictSpec
CONSTANTS
    Revisions = {"r1"}
    Tags = {}
    Default = "r1"
    Namespaces = {"shop"}
    Workloads = {"web"}
    Pods = {"web"}
    NamespaceOf <- OneNamespace
    NameOf <- OwnName
    OwnerOf <- OnePodEach
    TemplateRev <- NoTemplateRev
    OptOut = {}
    Images <- ThreeTags
    NamespaceLabels <- EnabledOnly
    InitialImage <- AllSame
    InitialTag <- TagsToR1
    InitialLabels <- AllEnabled
    InitialPods = {"web"}
    None = "none"
    Second = 2
    IstiodLag = 1
    InformerLag = 2
    RolloutLag = 2
    MaxTime = 10
    Horizon = 5
    MaxConfigs = 2
    MaxRetags = 0
    MaxRelabels = 0
    MaxEvictions = 0
    CompareHub = FALSE
    IstiodConfigReadDelay = 2
    SkipNamespaces = {}
    AnnotationCooldown = 4
    IstioChange = "istio-change"
    PeriodicReconcile = "periodic"
    PeriodicOn = FALSE
    RestartDelay = 0
    DryRun = FALSE
    MaxReadFaults = 0
    MaxDropFaults = 0
    MaxConflicts = 1
    MaxCrashes = 1
PROPERTIES
    CooldownRespected
    PatchTakesEffect
    RestartsAreNeeded
CHECK_DEADLOCK FALSE
