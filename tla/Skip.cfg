\* A workload behind the tag "default" and one whose template names revision
\* r2: both ConfigMaps and the tag change, a pod is created at any time.
\* The delay is the smallest that SkipIsSafe needs: IstiodLag + Second - 1.
SPECIFICATION Spec
CONSTANTS
    Revisions = {"r1", "r2"}
    Tags = {"default"}
    Default = "default"
    Namespaces = {"shop"}
    Workloads = {"web", "api"}
    Pods = {"web", "api"}
    NamespaceOf <- OneNamespace
    NameOf <- OwnName
    OwnerOf <- OnePodEach
    TemplateRev <- ApiOnR2
    OptOut = {}
    Images <- TwoTags
    NamespaceLabels <- EnabledOnly
    InitialImage <- AllSame
    InitialTag <- TagsToR1
    InitialLabels <- AllEnabled
    InitialPods = {}
    None = "none"
    Second = 2
    IstiodLag = 2
    InformerLag = 2
    RolloutLag = 99
    MaxTime = 8
    Horizon = 4
    MaxConfigs = 1
    MaxRetags = 1
    MaxRelabels = 0
    MaxEvictions = 1
    CompareHub = FALSE
    IstiodConfigReadDelay = 3
    SkipNamespaces = {}
    AnnotationCooldown = 0
    IstioChange = "istio-change"
    PeriodicReconcile = "periodic"
    PeriodicOn = FALSE
    RestartDelay = 0
    DryRun = FALSE
    MaxReadFaults = 0
    MaxDropFaults = 0
    MaxConflicts = 0
    MaxCrashes = 0
INVARIANTS
    SkipIsSafe
    SkipInvariant
CHECK_DEADLOCK FALSE
