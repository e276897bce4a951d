------------------------------ MODULE ImageRef ------------------------------
(***************************************************************************)
(* How fortsa compares two container images (internal/podscanner,          *)
(* ParseImage and imagesMatch).  An image reference is a sequence of       *)
(* tokens: the separators "/", ":" and "@", and the path segments, ports,  *)
(* tags and digests between them, for instance                             *)
(*    <<"docker.io", "/", "istio", "/", "proxyv2", ":", "1.20">>           *)
(* The empty sequence is Go's "": the pod has no istio-proxy container.    *)
(***************************************************************************)
EXTENDS Naturals, Sequences

NoImage == << >>

\* Position of the first / last occurrence of c in s, 0 when there is none
\* (strings.Index and strings.LastIndex, shifted by one).
Index(s, c) ==
    IF \E i \in DOMAIN s : s[i] = c
    THEN CHOOSE i \in DOMAIN s : s[i] = c /\ \A j \in 1 .. (i - 1) : s[j] # c
    ELSE 0

LastIndex(s, c) ==
    IF \E i \in DOMAIN s : s[i] = c
    THEN CHOOSE i \in DOMAIN s :
            s[i] = c /\ \A j \in (i + 1) .. Len(s) : s[j] # c
    ELSE 0

Before(s, i) == SubSeq(s, 1, i - 1)
After(s, i)  == SubSeq(s, i + 1, Len(s))

\* A slip this parser could make: taking the FIRST colon for the tag's.
ParseImageFirstColon(image) ==
    LET colon == Index(image, ":")
        path  == IF colon > 0 THEN Before(image, colon) ELSE image
        slash == LastIndex(path, "/")
    IN  [Registry  |-> IF slash > 0 THEN Before(path, slash) ELSE << >>,
         ImageName |-> IF slash > 0 THEN After(path, slash) ELSE path,
         Tag       |-> IF colon > 0 THEN After(image, colon) ELSE << "latest" >>]

\* The digest is cut off first; the tag is what follows the LAST colon of the
\* rest, whatever that colon belongs to; the name is the last path segment.
ParseImage(image) ==
    LET at    == Index(image, "@")
        ref   == IF at > 0 THEN Before(image, at) ELSE image
        colon == LastIndex(ref, ":")
        path  == IF colon > 0 THEN Before(ref, colon) ELSE ref
        slash == LastIndex(path, "/")
    IN  [Registry  |-> IF slash > 0 THEN Before(path, slash) ELSE << >>,
         ImageName |-> IF slash > 0 THEN After(path, slash) ELSE path,
         Tag       |-> IF colon > 0 THEN After(ref, colon) ELSE << "latest" >>]

\* A slip: the name is compared with the path in front of it.
imagesMatchWithPath(current, expected, compareHub) ==
    LET cp == ParseImage(current)
        ep == ParseImage(expected)
    IN  cp = ep

imagesMatch(current, expected, compareHub) ==
    IF compareHub
    THEN current = expected
    ELSE LET cp == ParseImage(current)
             ep == ParseImage(expected)
         IN  cp.ImageName = ep.ImageName /\ cp.Tag = ep.Tag
=============================================================================
