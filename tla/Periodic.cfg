\* With the ticker: two ConfigMap changes, the cooldown, a failing call.
SPECIFICATION FairSpec
CONSTANTS
    Revisions = {"r1"}
    Tags = {}
    Default = "r1"
    Namespaces = {"shop"}
    Workloads = {"web"}
    Pods = {"web"}
    NamespaceOf <- OneNamespace
    NameOf <- OwnName
    OwnerOf <- OnePodEach
    TemplateRev <- NoTemplateRev
    OptOut = {}
    Images <- TwoTags
    NamespaceLabels <- EnabledOnly
    InitialImage <- AllSame
    InitialTag <- TagsToR1
    InitialLabels <- AllEnabled
    InitialPods = {"web"}
    None = "none"
    Second = 1
    IstiodLag = 1
    InformerLag = 1
    RolloutLag = 99
    MaxTime = 7
    Horizon = 3
    MaxConfigs = 2
    MaxRetags = 0
    MaxRelabels = 0
    MaxEvictions = 0
    CompareHub = FALSE
    IstiodConfigReadDelay = 2
    SkipNamespaces = {}
    AnnotationCooldown = 2
    IstioChange = "istio-change"
    PeriodicReconcile = "periodic"
    PeriodicOn = TRUE
    RestartDelay = 0
    DryRun = FALSE
    MaxReadFaults = 0
    MaxDropFaults = 1
    MaxConflicts = 0
    MaxCrashes = 0
PROPERTIES
    Converges
    ScansGoQuiet
CHECK_DEADLOCK FALSE
