\* Three workloads in three namespaces, one of them with two pods, that can be
\* moved to revision r2; one of the namespaces is skipped.
SPECIFICATION Spec
CONSTANTS
    Revisions = {"r1", "r2"}
    Tags = {}
    Default = "r1"
    Namespaces = {"shop", "data", "infra"}
    Workloads = {"web", "db", "log"}
    Pods = {"web", "web2", "db", "log"}
    NamespaceOf <- ByNamespace
    NameOf <- OwnName
    OwnerOf <- TwoWebPods
    TemplateRev <- NoTemplateRev
    OptOut = {}
    Images <- TwoTags
    NamespaceLabels <- EnabledOrR2
    InitialImage <- R2Newer
    InitialTag <- TagsToR1
    InitialLabels <- AllEnabled
    InitialPods = {"web", "web2", "db", "log"}
    None = "none"
    Second = 1
    IstiodLag = 1
    InformerLag = 1
    RolloutLag = 99
    MaxTime = 2
    Horizon = 1
    MaxConfigs = 0
    MaxRetags = 0
    MaxRelabels = 1
    MaxEvictions = 0
    CompareHub = FALSE
    IstiodConfigReadDelay = 1
    SkipNamespaces = {"infra"}
    AnnotationCooldown = 0
    IstioChange = "istio-change"
    PeriodicReconcile = "periodic"
    PeriodicOn = FALSE
    RestartDelay = 0
    DryRun = FALSE
    MaxReadFaults = 0
    MaxDropFaults = 0
    MaxConflicts = 0
    MaxCrashes = 1
INVARIANTS
    RestartsInScope
PROPERTIES
    ImplementsRounds
CHECK_DEADLOCK FALSE
