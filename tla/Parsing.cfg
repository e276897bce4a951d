\* Every image of two hosts, a port, a repository, names, tags and digests;
\* every list of up to three ConfigMaps, MWCs or --skip-namespaces entries.
SPECIFICATION Spec
CONSTANTS
    Hosts = {"docker.io", "gcr.io"}
    Ports = {"5000"}
    Repositories = {"istio"}
    Names = {"proxyv2", "proxyv3"}
    ImageTags = {"1.20", "1.21"}
    Digests = {"abc"}
    Absent = "absent"
    ConfigMaps <- SomeConfigMaps
    MWCs <- SomeMWCs
    SkipEntries <- SomeSkipEntries
    MaxList = 3
INVARIANTS
    ParseFindsNameAndTag
    MatchIsNameAndTag
    LatestOfEachRevision
    RevisionAndTimeOfOneMWC
    SkipListIsRead
