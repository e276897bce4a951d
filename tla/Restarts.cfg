\* Two workloads of one namespace become outdated together; patches meet
\* Conflicts until they give up, lookups, webhook calls and patches fail.
SPECIFICATION Spec
CONSTANTS
    Revisions = {"r1"}
    Tags = {}
    Default = "r1"
    Namespaces = {"shop"}
    Workloads = {"web", "api"}
    Pods = {"web", "api"}
    NamespaceOf <- OneNamespace
    NameOf <- OwnName
    OwnerOf <- OnePodEach
    TemplateRev <- NoTemplateRev
    OptOut = {}
    Images <- TwoTags
    NamespaceLabels <- EnabledOnly
    InitialImage <- AllSame
    InitialTag <- TagsToR1
    InitialLabels <- AllEnabled
    InitialPods = {"web", "api"}
    None = "none"
    Second = 1
    IstiodLag = 1
    InformerLag = 1
    RolloutLag = 99
    MaxTime = 5
    Horizon = 1
    MaxConfigs = 1
    MaxRetags = 0
    MaxRelabels = 0
    MaxEvictions = 0
    CompareHub = FALSE
    IstiodConfigReadDelay = 1
    SkipNamespaces = {}
    AnnotationCooldown = 2
    IstioChange = "istio-change"
    PeriodicReconcile = "periodic"
    PeriodicOn = FALSE
    RestartDelay = 1
    DryRun = FALSE
    MaxReadFaults = 0
    MaxDropFaults = 1
    MaxConflicts = 3
    MaxCrashes = 0
INVARIANTS
    TypeOK
    RestartsSpaced
PROPERTIES
    OutdatedIsFound
CHECK_DEADLOCK FALSE
