\* A Deployment and a StatefulSet of one namespace with the same name.
SPECIFICATION Spec
CONSTANTS
    Revisions = {"r1"}
    Tags = {}
    Default = "r1"
    Namespaces = {"shop"}
    Workloads = {"web", "api"}
    Pods = {"web", "api"}
    NamespaceOf <- OneNamespace
    NameOf <- SameName
    OwnerOf <- OnePodEach
    TemplateRev <- NoTemplateRev
    OptOut = {}
    Images <- TwoTags
    NamespaceLabels <- EnabledOnly
    InitialImage <- AllSame
    InitialTag <- TagsToR1
    InitialLabels <- AllEnabled
    InitialPods = {"web", "api"}
    None = "none"
    Second = 1
    IstiodLag = 1
    InformerLag = 1
    RolloutLag = 99
    MaxTime = 3
    Horizon = 1
    MaxConfigs = 1
    MaxRetags = 0
    MaxRelabels = 0
    MaxEvictions = 0
    CompareHub = FALSE
    IstiodConfigReadDelay = 1
    SkipNamespaces = {}
    AnnotationCooldown = 0
    IstioChange = "istio-change"
    PeriodicReconcile = "periodic"
    PeriodicOn = FALSE
    RestartDelay = 0
    DryRun = FALSE
    MaxReadFaults = 0
    MaxDropFaults = 0
    MaxConflicts = 0
    MaxCrashes = 0
PROPERTIES
    OutdatedIsFound
CHECK_DEADLOCK FALSE
