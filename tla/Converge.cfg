\* Events only: no ticker and no cooldown.  A ConfigMap and the tag change, the
\* pod is created at any time, a List call fails, the process
\* crashes.  The delay covers istiod and the caches together.
SPECIFICATION FairSpec
CONSTANTS
    Revisions = {"r1", "r2"}
    Tags = {"default"}
    Default = "default"
    Namespaces = {"shop"}
    Workloads = {"web"}
    Pods = {"web"}
    NamespaceOf <- OneNamespace
    NameOf <- OwnName
    OwnerOf <- OnePodEach
    TemplateRev <- NoTemplateRev
    OptOut = {}
    Images <- TwoHubs
    NamespaceLabels <- EnabledOnly
    InitialImage <- R2Newer
    InitialTag <- TagsToR1
    InitialLabels <- AllEnabled
    InitialPods = {}
    None = "none"
    Second = 1
    IstiodLag = 1
    InformerLag = 1
    RolloutLag = 99
    MaxTime = 4
    Horizon = 2
    MaxConfigs = 1
    MaxRetags = 1
    MaxRelabels = 0
    MaxEvictions = 1
    CompareHub = FALSE
    IstiodConfigReadDelay = 2
    SkipNamespaces = {}
    AnnotationCooldown = 0
    IstioChange = "istio-change"
    PeriodicReconcile = "periodic"
    PeriodicOn = FALSE
    RestartDelay = 0
    DryRun = FALSE
    MaxReadFaults = 1
    MaxDropFaults = 0
    MaxConflicts = 0
    MaxCrashes = 1
INVARIANTS
    RestIsUpToDate
PROPERTIES
    Converges
CHECK_DEADLOCK FALSE
