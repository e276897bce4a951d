\* Events of all kinds (ConfigMap, tag removed, two namespace updates), the
\* ticker, a failing List call or a panic in the webhook call, and a crash.
\* What happens to the pod does not matter here, but that it is scanned.
SPECIFICATION Spec
CONSTANTS
    Revisions = {"r1"}
    Tags = {"default"}
    Default = "default"
    Namespaces = {"shop"}
    Workloads = {"web"}
    Pods = {"web"}
    NamespaceOf <- OneNamespace
    NameOf <- OwnName
    OwnerOf <- OnePodEach
    TemplateRev <- NoTemplateRev
    OptOut = {}
    Images <- TwoTags
    NamespaceLabels <- EnabledOrNot
    InitialImage <- AllSame
    InitialTag <- TagsToR1
    InitialLabels <- AllEnabled
    InitialPods = {"web"}
    None = "none"
    Second = 1
    IstiodLag = 1
    InformerLag = 2
    RolloutLag = 99
    MaxTime = 3
    Horizon = 1
    MaxConfigs = 1
    MaxRetags = 1
    MaxRelabels = 2
    MaxEvictions = 0
    CompareHub = FALSE
    IstiodConfigReadDelay = 1
    SkipNamespaces = {}
    AnnotationCooldown = 0
    IstioChange = "istio-change"
    PeriodicReconcile = "periodic"
    PeriodicOn = TRUE
    RestartDelay = 0
    DryRun = FALSE
    MaxReadFaults = 1
    MaxDropFaults = 0
    MaxConflicts = 0
    MaxCrashes = 1
INVARIANTS
    NoEventLost
CHECK_DEADLOCK FALSE
