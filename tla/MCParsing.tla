----------------------------- MODULE MCParsing -----------------------------
(***************************************************************************)
(* ImageRef and ConfigParsing against references, over bounded inputs: two *)
(* images, a list of ConfigMaps, a list of MWCs, or a list of namespaces.  *)
(* An image is a record of its parts, Render writes it the way Kubernetes  *)
(* expects it, and the parser has to find the parts again.                 *)
(***************************************************************************)
EXTENDS ImageRef, ConfigParsing

CONSTANTS
    Hosts, Ports, Repositories, Names, ImageTags, Digests, Absent,
    ConfigMaps, MWCs, SkipEntries,  \* what lists are made of
    MaxList                         \* bound: length of a list

\* What stands between the separators of an image holds none of them, as in
\* every reference that Kubernetes admits.
ASSUME TokenAssumption ==
    \A c \in {"/", ":", "@"} :
        c \notin UNION {Hosts, Ports, Repositories, Names, ImageTags}

\* The prefix of the name is there or not; creationTimestamp and the times of
\* the managedFields are times.
ASSUME ObjectAssumption ==
    /\ \A cm \in ConfigMaps :
          cm.injector \in BOOLEAN /\ cm.created \in Nat /\ cm.managed \in Seq(Nat)
    /\ \A mwc \in MWCs :
          mwc.tagMWC \in BOOLEAN /\ mwc.created \in Nat /\ mwc.managed \in Seq(Nat)

\* An entry of --skip-namespaces is one name, if any, with blanks around it.
ASSUME EntryAssumption ==
    \A e \in SkipEntries :
        /\ e \in Seq(STRING)
        /\ \A i \in DOMAIN e : e[i] # Comma
        /\ \A i, j \in DOMAIN e : e[i] # Blank /\ e[j] # Blank => i = j

Refs == {r \in [host : Hosts \cup {Absent}, port : Ports \cup {Absent},
                repository : Repositories \cup {Absent}, name : Names,
                tag : ImageTags \cup {Absent}, digest : Digests \cup {Absent}] :
            r.host = Absent => r.port = Absent}

Part(before, part, after) ==
    IF part = Absent THEN << >> ELSE before \o << part >> \o after

Render(r) ==
    Part(<< >>, r.host, << >>) \o Part(<< ":" >>, r.port, << >>)
    \o (IF r.host = Absent THEN << >> ELSE << "/" >>)
    \o Part(<< >>, r.repository, << "/" >>) \o << r.name >>
    \o Part(<< ":" >>, r.tag, << >>) \o Part(<< "@", "sha256", ":" >>, r.digest, << >>)

\* Every combination of absence and two revisions; two managedFields of which
\* one may have no time; ConfigMaps that are not read.
SomeConfigMaps ==
    {[injector |-> TRUE, values |-> "json", top |-> t, global |-> g, label |-> l,
      created |-> 2, managed |-> m] :
        t \in {Unset, "r1"}, g \in {Unset, "r2"}, l \in {Unset, "r1"},
        m \in {<< >>, << 1, 4 >>, << 3, 0 >>}}
    \cup {[injector |-> i, values |-> v, top |-> "r1", global |-> Unset, label |-> Unset,
           created |-> 5, managed |-> << >>] :
              i \in BOOLEAN, v \in {"json", "missing", "broken"}}

SomeMWCs ==
    {[tagMWC |-> p, tag |-> t, rev |-> r, created |-> 2, managed |-> m] :
        p \in BOOLEAN, t \in {Unset, "prod", "canary"}, r \in {Unset, "r1", "r2"},
        m \in {<< >>, << 3 >>}}

SomeSkipEntries ==
    {b \o n \o a : b \in {<< >>, << Blank >>}, n \in {<< >>, << "infra" >>, << "data" >>},
                   a \in {<< >>, << Blank, Blank >>}}

VARIABLE input

Nothing == [what |-> "nothing"]

Grow(what, S) ==
    \E x \in S :
        \/ input = Nothing /\ input' = [what |-> what, list |-> << x >>]
        \/ /\ input.what = what /\ Len(input.list) < MaxList
           /\ input' = [input EXCEPT !.list = Append(@, x)]

Init == input = Nothing
Next ==
    \/ /\ input = Nothing
       /\ \E c \in Refs, e \in Refs :
             input' = [what |-> "images", current |-> c, expected |-> e]
    \/ Grow("configMaps", ConfigMaps) \/ Grow("mwcs", MWCs) \/ Grow("skip", SkipEntries)
    \/ input # Nothing /\ input' = Nothing
Spec == Init /\ [][Next]_input

-----------------------------------------------------------------------------
Tag(r) == IF r.tag = Absent THEN "latest" ELSE r.tag

\* The colon of a port is not followed by that of a tag.
PortHidesTag(r) == r.port # Absent /\ r.tag = Absent

\* ParseImage finds the name of every image, with or without a registry, a
\* port, a repository, a tag and a digest, and the tag of every image without
\* a digest, unless a port is there and no tag.
ParseFindsNameAndTag ==
    (input.what = "images" /\ ~PortHidesTag(input.current)) =>
        /\ ParseImage(Render(input.current)).ImageName = << input.current.name >>
        /\ input.current.digest = Absent =>
              ParseImage(Render(input.current)).Tag = << Tag(input.current) >>

\* An image of which, the registry aside, name and tag are all there is.
NameAndTagOnly(r) == r.digest = Absent /\ ~PortHidesTag(r)

\* Without --compare-hub, imagesMatch is equality of name and tag, whatever
\* registries, ports and repositories are.
MatchIsNameAndTag ==
    (input.what = "images" /\ NameAndTagOnly(input.current) /\ NameAndTagOnly(input.expected)) =>
        (imagesMatch(Render(input.current), Render(input.expected), FALSE)
            <=> /\ input.current.name = input.expected.name
                /\ Tag(input.current) = Tag(input.expected))

\* The comment of imagesMatch, "only image name and tag are compared (registry
\* is ignored)": two images that differ only in what is in front of the name
\* match.
RegistryIsIgnored ==
    (/\ input.what = "images"
     /\ input.current.name = input.expected.name
     /\ input.current.tag = input.expected.tag
     /\ input.current.digest = input.expected.digest) =>
        imagesMatch(Render(input.current), Render(input.expected), FALSE)

-----------------------------------------------------------------------------
\* cm is read as the ConfigMap of revision rev.
IsOfRevision(cm, rev) ==
    LET given == << cm.top, cm.global, cm.label, "default" >>
    IN  /\ cm.injector /\ cm.values = "json"
        /\ \E i \in DOMAIN given : /\ given[i] = rev /\ rev # Unset
                                   /\ \A j \in 1 .. (i - 1) : given[j] = Unset

\* The revisions that some ConfigMap names, and the one that none need name.
Named(cm) == {cm.top, cm.global, cm.label}

NamedRevisions == {"default"} \cup UNION {Named(cm) : cm \in ConfigMaps}

Times(obj) == {obj.created} \cup {obj.managed[i] : i \in DOMAIN obj.managed}

\* BuildLastModifiedByRevision: whatever the order of the list, a revision
\* has the latest time of all the ConfigMaps that name it, and a ConfigMap
\* that cannot be read, or is none of the injector's, neither adds a revision
\* nor hides another one.
LatestOfEachRevision ==
    input.what = "configMaps" =>
        LET times(rev) == UNION {Times(input.list[i]) :
                              i \in {j \in DOMAIN input.list : IsOfRevision(input.list[j], rev)}}
            result     == BuildLastModifiedByRevision(input.list)
        IN  \A rev \in NamedRevisions :
                IF rev \in DOMAIN result
                THEN result[rev] \in times(rev) /\ \A t \in times(rev) : t <= result[rev]
                ELSE times(rev) = {}

\* FetchTagToRevisionAndLastModified: the revision and the time of a tag are
\* those of one and the same MWC, also when two MWCs carry the tag (the list
\* has no order, either may win); the skip by creation time compares pods of
\* that revision with that time.  Every tag of the list is in the maps.
RevisionAndTimeOfOneMWC ==
    input.what = "mwcs" =>
        LET maps == FetchTagToRevisionAndLastModified(input.list)
            of(t) == {j \in DOMAIN input.list : /\ input.list[j].tagMWC /\ input.list[j].tag = t
                                                /\ input.list[j].rev # Unset}
        IN  \A t \in {m.tag : m \in MWCs} \ {Unset} :
                IF of(t) = {} THEN t \notin DOMAIN maps.tagToRevision
                ELSE \E j \in of(t) :
                        /\ maps.tagToRevision[t] = input.list[j].rev
                        /\ maps.lastModifiedByTag[t] \in Times(input.list[j])
                        /\ \A u \in Times(input.list[j]) : u <= maps.lastModifiedByTag[t]

\* The name in an entry, if there is one.
Meant(entry) ==
    IF \A i \in DOMAIN entry : entry[i] = Blank THEN << >>
    ELSE << entry[CHOOSE i \in DOMAIN entry : entry[i] # Blank] >>

\* The flag as it is written: the entries with commas between them.
WriteEntry(s, entry) == s \o << Comma >> \o entry

Joined(entries) == Tail(FoldLeft(WriteEntry, << >>, entries))

\* parseSkipNamespaces: blanks around a name and empty entries make no
\* difference, so that every namespace meant is skipped (ScanOutdatedPods
\* compares whole names), and no other.
SkipListIsRead ==
    input.what = "skip" =>
        parseSkipNamespaces(Joined(input.list)) =
            SelectSeq([i \in DOMAIN input.list |-> Meant(input.list[i])], LAMBDA p : p # << >>)
=============================================================================
