\* A namespace moves from revision r1 to r2, whose ConfigMap did not change.
\* The ticker is on; nothing fails.
SPECIFICATION FairSpec
CONSTANTS
    Revisions = {"r1", "r2"}
    Tags = {}
    Default = "r1"
    Namespaces = {"shop"}
    Workloads = {"web"}
    Pods = {"web"}
    NamespaceOf <- OneNamespace
    NameOf <- OwnName
    OwnerOf <- OnePodEach
    TemplateRev <- NoTemplateRev
    OptOut = {}
    Images <- TwoTags
    NamespaceLabels <- EnabledOrR2
    InitialImage <- R2Newer
    InitialTag <- TagsToR1
    InitialLabels <- AllEnabled
    InitialPods = {"web"}
    None = "none"
    Second = 1
    IstiodLag = 1
    InformerLag = 1
    RolloutLag = 99
    MaxTime = 4
    Horizon = 3
    MaxConfigs = 0
    MaxRetags = 0
    MaxRelabels = 1
    MaxEvictions = 1
    CompareHub = FALSE
    IstiodConfigReadDelay = 1
    SkipNamespaces = {}
    AnnotationCooldown = 0
    IstioChange = "istio-change"
    PeriodicReconcile = "periodic"
    PeriodicOn = TRUE
    RestartDelay = 0
    DryRun = FALSE
    MaxReadFaults = 0
    MaxDropFaults = 0
    MaxConflicts = 0
    MaxCrashes = 0
PROPERTIES
    Converges
CHECK_DEADLOCK FALSE
