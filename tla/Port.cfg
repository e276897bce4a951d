\* Images with ports and without tags, no digests and no lists.
SPECIFICATION Spec
CONSTANTS
    Hosts = {"docker.io", "gcr.io"}
    Ports = {"5000"}
    Repositories = {"istio"}
    Names = {"proxyv2", "proxyv3"}
    ImageTags = {"1.20", "1.21"}
    Digests = {}
    Absent = "absent"
    ConfigMaps <- SomeConfigMaps
    MWCs <- SomeMWCs
    SkipEntries <- SomeSkipEntries
    MaxList = 1
INVARIANTS
    RegistryIsIgnored
