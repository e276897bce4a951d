--------------------------- MODULE ParsingProofs ---------------------------
(***************************************************************************)
(* Proofs, for every set of hosts, ports, repositories, names and tags,    *)
(* about ParseImage and imagesMatch: the name and the tag of an image are  *)
(* found, and without --compare-hub nothing else is compared.  And for     *)
(* lists of any length, about what is made of ConfigMaps, MWCs and         *)
(* --skip-namespaces.  Folds are reasoned about by induction over the      *)
(* list, with the least counterexample that well-foundedness provides.     *)
(***************************************************************************)
EXTENDS MCParsing, SequenceTheorems, TLAPS

LOCAL W == INSTANCE WellFoundedInduction

-----------------------------------------------------------------------------
(* strings.Index, strings.LastIndex and the slices taken at them.          *)

\* A character with no other of its kind behind it is the last.
LEMMA LastAt ==
    ASSUME NEW S, NEW s \in Seq(S), NEW c, NEW k \in 1 .. Len(s),
           s[k] = c, \A j \in (k + 1) .. Len(s) : s[j] # c
    PROVE  LastIndex(s, c) = k
<1>1. DOMAIN s = 1 .. Len(s) /\ Len(s) \in Nat
  BY LenProperties
<1> DEFINE Rearmost(i) == s[i] = c /\ \A j \in (i + 1) .. Len(s) : s[j] # c
<1>2. Rearmost(k) /\ k \in DOMAIN s
  BY <1>1
<1>3. \A i \in DOMAIN s : Rearmost(i) => i = k
  BY <1>1
<1>4. (CHOOSE i \in DOMAIN s : Rearmost(i)) = k
  <2> HIDE DEF Rearmost
  <2> QED BY <1>2, <1>3
<1> QED BY <1>2, <1>4 DEF LastIndex

\* A character with no other of its kind before it is the first.
LEMMA FirstAt ==
    ASSUME NEW S, NEW s \in Seq(S), NEW c, NEW k \in 1 .. Len(s),
           s[k] = c, \A j \in 1 .. (k - 1) : s[j] # c
    PROVE  Index(s, c) = k
<1>1. DOMAIN s = 1 .. Len(s) /\ Len(s) \in Nat
  BY LenProperties
<1> DEFINE Lead(i) == s[i] = c /\ \A j \in 1 .. (i - 1) : s[j] # c
<1>2. Lead(k) /\ k \in DOMAIN s
  BY <1>1
<1>3. \A i \in DOMAIN s : Lead(i) => i = k
  BY <1>1
<1>4. (CHOOSE i \in DOMAIN s : Lead(i)) = k
  <2> HIDE DEF Lead
  <2> QED BY <1>2, <1>3
<1> QED BY <1>2, <1>4 DEF Index

\* A character that the alphabet lacks is found nowhere.
LEMMA Nowhere ==
    ASSUME NEW S, NEW s \in Seq(S), NEW c, c \notin S
    PROVE  Index(s, c) = 0 /\ LastIndex(s, c) = 0
<1>1. DOMAIN s = 1 .. Len(s)
  BY LenProperties
<1>2. \A i \in DOMAIN s : s[i] # c
  BY <1>1, ElementOfSeq
<1> QED BY <1>2 DEF Index, LastIndex

\* What stands before the second of two parts is the first.
LEMMA CutAt ==
    ASSUME NEW S, NEW a \in Seq(S), NEW b \in Seq(S), Len(b) > 0
    PROVE  Before(a \o b, Len(a) + 1) = a
<1>1. /\ a \o b \in Seq(S) /\ Len(a \o b) = Len(a) + Len(b)
      /\ \A i \in 1 .. Len(a) + Len(b) :
            (a \o b)[i] = IF i <= Len(a) THEN a[i] ELSE b[i - Len(a)]
  BY ConcatProperties
<1>2. Len(a) \in Nat /\ Len(b) \in Nat
  BY LenProperties
<1> DEFINE s == a \o b
           u == SubSeq(s, 1, Len(a))
<1> HIDE DEF s
<1>3. \A i \in 1 .. Len(a) : s[i] \in S /\ s[i] = a[i]
  BY <1>1, <1>2, ElementOfSeq DEF s
<1>4. u \in Seq(S) /\ Len(u) = Len(a) /\ \A i \in 1 .. Len(a) : u[i] = s[i]
  BY <1>2, <1>3
<1>5. u = a
  BY <1>3, <1>4, SeqEqual
<1>6. Len(a) + 1 - 1 = Len(a)
  BY <1>2
<1> QED BY <1>5, <1>6 DEF Before, s

\* What follows position k is the one token that stands there.
LEMMA LastToken ==
    ASSUME NEW S, NEW s \in Seq(S), NEW k \in Nat, Len(s) = k + 1
    PROVE  After(s, k) = << s[k + 1] >>
<1>1. s[k + 1] \in S
  BY ElementOfSeq
<1> DEFINE u == SubSeq(s, k + 1, Len(s))
           v == << s[k + 1] >>
<1>2. u \in Seq(S) /\ Len(u) = 1 /\ u[1] = s[k + 1]
  BY <1>1
<1>3. v \in Seq(S) /\ Len(v) = 1 /\ v[1] = s[k + 1]
  BY <1>1
<1>4. u = v
  <2> HIDE DEF u, v
  <2> QED BY <1>2, <1>3, SeqEqual
<1> QED BY <1>4 DEF After

-----------------------------------------------------------------------------
(* The parts of a rendered image: everything before the name, the name     *)
(* with it, the tag behind it, the digest behind that.                     *)

Leading(r)  == Part(<< >>, r.host, << >>) \o Part(<< ":" >>, r.port, << >>)
             \o (IF r.host = Absent THEN << >> ELSE << "/" >>)
             \o Part(<< >>, r.repository, << "/" >>)
Path(r)   == Leading(r) \o << r.name >>
Colon(r)  == Part(<< ":" >>, r.tag, << >>)
Ref(r)    == Path(r) \o Colon(r)
AtSign(r) == Part(<< "@", "sha256", ":" >>, r.digest, << >>)

\* What stands in front of the name, where no port hides in it, and with one.
Segments == Hosts \cup Repositories \cup {"/"}
Plain    == Segments \cup Names
Fronts   == Segments \cup Ports \cup {":"}
Tokens   == Fronts \cup Names \cup ImageTags
Written  == Tokens \cup Digests \cup {"@", "sha256"}

\* Render puts the parts one behind the other.
LEMMA RenderParts ==
    ASSUME NEW r
    PROVE  Render(r) = Ref(r) \o AtSign(r)
BY DEF Render, Ref, Path, Leading, Colon, AtSign

\* A separator or a token is a sequence.
LEMMA OneToken ==
    ASSUME NEW S, NEW x \in S
    PROVE  << x >> \in Seq(S) /\ Len(<< x >>) = 1 /\ << x >>[1] = x
OBVIOUS

\* p is b, x and a, one behind the other.
Joins(p, b, x, a) ==
    /\ Len(p) = Len(b) + 1 + Len(a)
    /\ \A i \in 1 .. Len(b) : p[i] = b[i]
    /\ p[Len(b) + 1] = x
    /\ \A i \in 1 .. Len(a) : p[Len(b) + 1 + i] = a[i]

\* Part writes nothing for what is absent, and otherwise the part between
\* what goes around it.
LEMMA PartWritten ==
    ASSUME NEW S, NEW b \in Seq(S), NEW a \in Seq(S), NEW x \in S \cup {Absent}
    PROVE  /\ Part(b, x, a) \in Seq(S)
           /\ x = Absent => Part(b, x, a) = << >>
           /\ x # Absent => Joins(Part(b, x, a), b, x, a)
<1>0. CASE x = Absent
  BY <1>0, EmptySeq DEF Part
<1>1. CASE x # Absent
  <2>0. x \in S /\ Len(b) \in Nat /\ Len(a) \in Nat
    BY <1>1, LenProperties
  <2> DEFINE o == << x >>
             c == b \o o
             p == c \o a
  <2>1. o \in Seq(S) /\ Len(o) = 1 /\ o[1] = x
    BY <2>0, OneToken
  <2> HIDE DEF o
  <2>2. /\ c \in Seq(S) /\ Len(c) = Len(b) + Len(o)
        /\ \A i \in 1 .. Len(b) + Len(o) : c[i] = IF i <= Len(b) THEN b[i] ELSE o[i - Len(b)]
    BY <2>1, ConcatProperties
  <2> HIDE DEF c
  <2>3. /\ p \in Seq(S) /\ Len(p) = Len(c) + Len(a)
        /\ \A i \in 1 .. Len(c) + Len(a) : p[i] = IF i <= Len(c) THEN c[i] ELSE a[i - Len(c)]
    <3>1. c \in Seq(S)
      BY <2>2
    <3> QED BY <3>1, ConcatProperties
  <2>4. Part(b, x, a) = p
    BY <1>1 DEF Part, c, o
  <2> HIDE DEF p
  <2>5. p[Len(b) + 1] = x
    BY <2>0, <2>1, <2>2, <2>3
  <2>6. \A i \in 1 .. Len(b) : p[i] = b[i]
    BY <2>0, <2>1, <2>2, <2>3
  <2>7. ASSUME NEW i \in 1 .. Len(a) PROVE p[Len(b) + 1 + i] = a[i]
    <3>1. /\ Len(b) + 1 + i \in 1 .. Len(c) + Len(a) /\ ~(Len(b) + 1 + i <= Len(c))
          /\ Len(b) + 1 + i - Len(c) = i
      BY <2>0, <2>1, <2>2
    <3> QED BY <2>3, <3>1
  <2>8. Len(p) = Len(b) + 1 + Len(a)
    BY <2>0, <2>1, <2>2, <2>3
  <2>9. Joins(p, b, x, a)
    BY <2>5, <2>6, <2>7, <2>8 DEF Joins
  <2> QED BY <1>1, <2>3, <2>4, <2>9
<1> QED BY <1>0, <1>1

\* What stands before the name ends in a slash, and has no colon where there
\* is no port.
LEMMA FrontParts ==
    ASSUME NEW r \in Refs
    PROVE  /\ Leading(r) \in Seq(Fronts)
           /\ r.port = Absent => Leading(r) \in Seq(Segments)
           /\ Leading(r) # << >> => Leading(r)[Len(Leading(r))] = "/"
<1> DEFINE A == Part(<< >>, r.host, << >>)
           B == Part(<< ":" >>, r.port, << >>)
           C == IF r.host = Absent THEN << >> ELSE << "/" >>
           D == Part(<< >>, r.repository, << "/" >>)
<1>0. /\ r.host \in Hosts \cup {Absent} /\ r.port \in Ports \cup {Absent}
      /\ r.repository \in Repositories \cup {Absent}
      /\ r.host = Absent => r.port = Absent
  BY DEF Refs
<1> DEFINE e == << >>
           slash == << "/" >>
           colon == << ":" >>
<1>e. e \in Seq(Segments) /\ e \in Seq(Fronts) /\ Len(e) = 0
  BY EmptySeq
<1>s. slash \in Seq(Segments) /\ Len(slash) = 1 /\ slash[1] = "/"
  BY OneToken DEF Segments
<1>o. colon \in Seq(Fronts)
  BY OneToken DEF Fronts
<1> HIDE DEF e, slash, colon
<1>a. A \in Seq(Segments) /\ (r.host = Absent => A = << >>)
  <2>1. r.host \in Segments \cup {Absent}
    BY <1>0 DEF Segments
  <2>2. Part(e, r.host, e) \in Seq(Segments) /\ (r.host = Absent => Part(e, r.host, e) = << >>)
    BY <1>e, <2>1, PartWritten
  <2> QED BY <2>2 DEF e
<1>b. B \in Seq(Fronts) /\ (r.port = Absent => B = << >>)
  <2>1. r.port \in Fronts \cup {Absent}
    BY <1>0 DEF Fronts
  <2>2. /\ Part(colon, r.port, e) \in Seq(Fronts)
        /\ r.port = Absent => Part(colon, r.port, e) = << >>
    BY <1>e, <1>o, <2>1, PartWritten
  <2> QED BY <2>2 DEF e, colon
<1>c. C \in Seq(Segments) /\ (r.host = Absent => C = << >>) /\ (r.host # Absent => C = << "/" >>)
  BY <1>e, <1>s DEF e, slash
<1>d. /\ D \in Seq(Segments) /\ (r.repository = Absent => D = << >>)
      /\ r.repository # Absent => Len(D) = 2 /\ D[2] = "/"
  <2>1. r.repository \in Segments \cup {Absent}
    BY <1>0 DEF Segments
  <2> DEFINE P == Part(e, r.repository, slash)
  <2>2. e \in Seq(Segments) /\ slash \in Seq(Segments)
    BY <1>e, <1>s
  <2>p. /\ P \in Seq(Segments) /\ (r.repository = Absent => P = << >>)
        /\ r.repository # Absent => Joins(P, e, r.repository, slash)
    BY <2>1, <2>2, PartWritten
  <2>3. D = P
    BY DEF e, slash
  <2> HIDE DEF D, P
  <2> QED BY <1>e, <1>s, <2>p, <2>3 DEF Joins
<1> HIDE DEF A, B, C, D
<1>1. Segments \subseteq Fronts
  BY DEF Fronts
<1>2. A \in Seq(Fronts) /\ C \in Seq(Fronts) /\ D \in Seq(Fronts)
  BY <1>1, <1>a, <1>c, <1>d, SeqMonotonic
<1> DEFINE E == (A \o B) \o C
           F == E \o D
<1>3. A \o B \in Seq(Fronts)
  BY <1>2, <1>b, ConcatProperties
<1>4. /\ E \in Seq(Fronts) /\ Len(E) = Len(A \o B) + Len(C)
      /\ \A i \in 1 .. Len(A \o B) + Len(C) :
            E[i] = IF i <= Len(A \o B) THEN (A \o B)[i] ELSE C[i - Len(A \o B)]
  BY <1>2, <1>3, ConcatProperties
<1>5. /\ F \in Seq(Fronts) /\ Len(F) = Len(E) + Len(D)
      /\ \A i \in 1 .. Len(E) + Len(D) : F[i] = IF i <= Len(E) THEN E[i] ELSE D[i - Len(E)]
  BY <1>2, <1>4, ConcatProperties
<1>6. ASSUME r.port = Absent PROVE F \in Seq(Segments)
  <2>1. B \in Seq(Segments)
    BY <1>6, <1>b, EmptySeq
  <2>2. A \o B \in Seq(Segments)
    BY <2>1, <1>a, ConcatProperties
  <2>3. E \in Seq(Segments)
    BY <2>2, <1>c, ConcatProperties
  <2> QED BY <2>3, <1>d, ConcatProperties
<1>l. /\ Len(A \o B) \in Nat /\ Len(C) \in Nat /\ Len(D) \in Nat /\ Len(E) \in Nat
  BY <1>2, <1>3, <1>4, LenProperties
<1>7. ASSUME F # << >> PROVE F[Len(F)] = "/"
  <2>1. CASE r.repository # Absent
    <3>1. Len(D) = 2 /\ D[2] = "/"
      BY <2>1, <1>d
    <3>2. Len(F) = Len(E) + 2 /\ F[Len(E) + 2] = D[2]
      <4> HIDE DEF E, F
      <4> QED BY <3>1, <1>5, <1>l
    <3> QED BY <3>1, <3>2
  <2>2. CASE r.repository = Absent /\ r.host # Absent
    <3>1. D = << >> /\ C = << "/" >>
      BY <2>2, <1>c, <1>d
    <3>2. F = E
      BY <3>1, <1>4, ConcatEmptySeq
    <3>3. Len(C) = 1 /\ C[1] = "/"
      BY <3>1
    <3>4. Len(E) = Len(A \o B) + 1 /\ E[Len(A \o B) + 1] = C[1]
      <4> HIDE DEF E, F
      <4> QED BY <3>3, <1>4, <1>l
    <3> QED BY <3>2, <3>3, <3>4
  <2>3. CASE r.repository = Absent /\ r.host = Absent
    <3>1. A = << >> /\ B = << >> /\ C = << >> /\ D = << >>
      BY <2>3, <1>0, <1>a, <1>b, <1>c, <1>d
    <3>2. F = << >>
      BY <3>1
    <3> QED BY <3>2, <1>7
  <2> QED BY <2>1, <2>2, <2>3
<1>8. Leading(r) = F
  BY DEF Leading, A, B, C, D
<1> QED
  <2> HIDE DEF F
  <2> QED BY <1>5, <1>6, <1>7, <1>8

\* The last segment of the path is the name, whatever stands in front of it.
LEMMA NameBehindSlash ==
    ASSUME NEW r \in Refs
    PROVE  /\ Path(r) \in Seq(Tokens) /\ Path(r) # << >>
           /\ r.port = Absent => Path(r) \in Seq(Plain)
           /\ LET slash == LastIndex(Path(r), "/")
              IN  (IF slash > 0 THEN After(Path(r), slash) ELSE Path(r)) = << r.name >>
<1> DEFINE f == Leading(r)
           o == << r.name >>
           p == f \o o
<1>0. r.name \in Names /\ r.name # "/"
  BY TokenAssumption DEF Refs
<1>1. /\ f \in Seq(Fronts) /\ (r.port = Absent => f \in Seq(Segments))
      /\ f # << >> => f[Len(f)] = "/"
  BY FrontParts
<1>2. f \in Seq(Tokens) /\ (r.port = Absent => f \in Seq(Plain))
  BY <1>1, SeqMonotonic DEF Tokens, Plain
<1>3. o \in Seq(Names) /\ Len(o) = 1 /\ o[1] = r.name
  BY <1>0, OneToken
<1>4. o \in Seq(Tokens) /\ o \in Seq(Plain)
  BY <1>3, SeqMonotonic DEF Tokens, Plain
<1> HIDE DEF f, o
<1>5. /\ p \in Seq(Tokens) /\ Len(p) = Len(f) + Len(o)
      /\ \A i \in 1 .. Len(f) + Len(o) : p[i] = IF i <= Len(f) THEN f[i] ELSE o[i - Len(f)]
  BY <1>2, <1>4, ConcatProperties
<1>6. r.port = Absent => p \in Seq(Plain)
  BY <1>2, <1>4, ConcatProperties
<1>7. Path(r) = p
  BY DEF Path, f, o
<1> HIDE DEF p
<1>8. Len(f) \in Nat /\ Len(p) = Len(f) + 1 /\ p[Len(f) + 1] = r.name
  BY <1>2, <1>3, <1>5, LenProperties
<1>n. p # << >>
  BY <1>8, EmptySeq
<1>9. CASE f # << >>
  <2>1. Len(f) > 0 /\ f[Len(f)] = "/"
    BY <1>1, <1>2, <1>9, EmptySeq
  <2>2. /\ Len(f) \in 1 .. Len(p) /\ p[Len(f)] = "/"
        /\ \A j \in (Len(f) + 1) .. Len(p) : p[j] # "/"
    BY <1>0, <1>3, <1>5, <1>8, <2>1
  <2>3. LastIndex(p, "/") = Len(f)
    BY <1>5, <2>2, LastAt
  <2>4. After(p, Len(f)) = << r.name >>
    BY <1>5, <1>8, LastToken
  <2> QED BY <1>5, <1>6, <1>7, <1>n, <2>1, <2>3, <2>4
<1>10. CASE f = << >>
  <2>1. p = o /\ p \in Seq(Names)
    BY <1>3, <1>10, ConcatEmptySeq DEF p
  <2>2. "/" \notin Names
    BY TokenAssumption
  <2>3. LastIndex(p, "/") = 0
    BY <2>1, <2>2, Nowhere
  <2> QED BY <1>5, <1>6, <1>7, <1>n, <2>1, <2>3 DEF o
<1> QED BY <1>9, <1>10

\* The tag stands behind the last colon; where there is no tag and no port,
\* there is no colon.
LEMMA TagBehindColon ==
    ASSUME NEW r \in Refs, ~PortHidesTag(r)
    PROVE  LET colon == LastIndex(Ref(r), ":")
           IN  /\ Ref(r) \in Seq(Tokens)
               /\ (IF colon > 0 THEN Before(Ref(r), colon) ELSE Ref(r)) = Path(r)
               /\ (IF colon > 0 THEN After(Ref(r), colon) ELSE << "latest" >>) = << Tag(r) >>
<1> DEFINE p == Path(r)
           e == << >>
           sep == << ":" >>
           t == Part(sep, r.tag, e)
           s == p \o t
<1>0. r.tag \in ImageTags \cup {Absent}
  BY DEF Refs
<1>1. p \in Seq(Tokens) /\ (r.port = Absent => p \in Seq(Plain))
  BY NameBehindSlash
<1>e. e \in Seq(Tokens) /\ Len(e) = 0
  BY EmptySeq
<1>c. sep \in Seq(Tokens) /\ Len(sep) = 1 /\ sep[1] = ":"
  BY OneToken DEF Tokens, Fronts
<1>r. Ref(r) = s
  BY DEF Ref, Colon
<1> HIDE DEF p, e, sep
<1>2. /\ t \in Seq(Tokens) /\ (r.tag = Absent => t = << >>)
      /\ r.tag # Absent => Joins(t, sep, r.tag, e)
  <2>1. r.tag \in Tokens \cup {Absent}
    BY <1>0 DEF Tokens
  <2> QED BY <1>e, <1>c, <2>1, PartWritten
<1> HIDE DEF t
<1>3. /\ s \in Seq(Tokens) /\ Len(s) = Len(p) + Len(t)
      /\ \A i \in 1 .. Len(p) + Len(t) : s[i] = IF i <= Len(p) THEN p[i] ELSE t[i - Len(p)]
  BY <1>1, <1>2, ConcatProperties
<1>4. CASE r.tag = Absent
  <2>1. s = p /\ p \in Seq(Plain)
    BY <1>1, <1>2, <1>4, ConcatEmptySeq DEF PortHidesTag
  <2>2. ":" \notin Plain
    BY TokenAssumption DEF Plain, Segments
  <2>3. LastIndex(s, ":") = 0
    BY <2>1, <2>2, Nowhere
  <2> QED BY <1>3, <1>4, <1>r, <2>1, <2>3 DEF Tag, p
<1>5. CASE r.tag # Absent
  <2>1. Len(t) = 2 /\ t[1] = ":" /\ t[2] = r.tag
    BY <1>2, <1>5, <1>e, <1>c DEF Joins
  <2>2. r.tag # ":"
    BY <1>0, <1>5, TokenAssumption
  <2>3. Len(p) \in Nat
    BY <1>1, LenProperties
  <2> DEFINE k == Len(p) + 1
  <2>s. s \in Seq(Tokens)
    BY <1>3
  <2> HIDE DEF s
  <2>4. /\ k \in 1 .. Len(s) /\ s[k] = ":" /\ Len(s) = k + 1 /\ s[k + 1] = r.tag
        /\ \A j \in (k + 1) .. Len(s) : s[j] # ":"
    BY <1>3, <2>1, <2>2, <2>3
  <2>5. LastIndex(s, ":") = k
    BY <2>s, <2>4, LastAt
  <2>6. Before(s, k) = p
    <3>1. p \in Seq(Tokens) /\ t \in Seq(Tokens) /\ Len(t) > 0
      BY <1>1, <1>2, <2>1
    <3>2. Before(p \o t, Len(p) + 1) = p
      BY <3>1, CutAt
    <3> QED BY <3>2 DEF s
  <2>7. After(s, k) = << r.tag >>
    BY <2>s, <2>3, <2>4, LastToken
  <2>8. k > 0
    BY <2>3
  <2> QED BY <1>5, <1>r, <2>s, <2>5, <2>6, <2>7, <2>8 DEF Tag, p
<1> QED BY <1>4, <1>5

\* The digest is cut off at the first "@", which is in none of the other parts.
LEMMA DigestBehindAt ==
    ASSUME NEW r \in Refs, Ref(r) \in Seq(Tokens)
    PROVE  LET at == Index(Render(r), "@")
           IN  (IF at > 0 THEN Before(Render(r), at) ELSE Render(r)) = Ref(r)
<1> DEFINE p == Ref(r)
           e == << >>
           sep == << "@", "sha256", ":" >>
           t == Part(sep, r.digest, e)
           s == p \o t
<1>0. r.digest \in Digests \cup {Absent}
  BY DEF Refs
<1>n. "@" \notin Tokens
  BY TokenAssumption DEF Tokens, Fronts, Segments
<1>1. p \in Seq(Tokens) /\ p \in Seq(Written) /\ Len(p) \in Nat
  <2>1. Tokens \subseteq Written
    BY DEF Written
  <2> QED BY <2>1, SeqMonotonic, LenProperties
<1>e. e \in Seq(Written) /\ Len(e) = 0
  BY EmptySeq
<1>c. sep \in Seq(Written) /\ Len(sep) = 3 /\ sep[1] = "@"
  <2>1. "@" \in Written /\ "sha256" \in Written /\ ":" \in Written
    BY DEF Written, Tokens, Fronts
  <2> QED BY <2>1
<1>r. Render(r) = s
  BY RenderParts DEF AtSign
<1> HIDE DEF p, e, sep
<1>2. /\ t \in Seq(Written) /\ (r.digest = Absent => t = << >>)
      /\ r.digest # Absent => Joins(t, sep, r.digest, e)
  <2>1. r.digest \in Written \cup {Absent}
    BY <1>0 DEF Written
  <2> QED BY <1>e, <1>c, <2>1, PartWritten
<1> HIDE DEF t
<1>3. /\ s \in Seq(Written) /\ Len(s) = Len(p) + Len(t)
      /\ \A i \in 1 .. Len(p) + Len(t) : s[i] = IF i <= Len(p) THEN p[i] ELSE t[i - Len(p)]
  BY <1>1, <1>2, ConcatProperties
<1>4. CASE r.digest = Absent
  <2>1. s = p
    BY <1>1, <1>2, <1>4, ConcatEmptySeq
  <2>2. Index(p, "@") = 0
    BY <1>1, <1>n, Nowhere
  <2> QED BY <1>r, <2>1, <2>2 DEF p
<1>5. CASE r.digest # Absent
  <2>1. Len(t) = 4 /\ t[1] = "@"
    BY <1>2, <1>5, <1>e, <1>c DEF Joins
  <2> DEFINE k == Len(p) + 1
  <2>s. s \in Seq(Written)
    BY <1>3
  <2> HIDE DEF s
  <2>a. \A j \in 1 .. Len(p) : p[j] # "@"
    BY <1>1, <1>n, ElementOfSeq
  <2>4. /\ k \in 1 .. Len(s) /\ s[k] = "@" /\ k > 0
        /\ \A j \in 1 .. (k - 1) : s[j] # "@"
    BY <1>1, <1>3, <2>1, <2>a
  <2>5. Index(s, "@") = k
    BY <2>s, <2>4, FirstAt
  <2>6. Before(s, k) = p
    <3>1. p \in Seq(Written) /\ t \in Seq(Written) /\ Len(t) > 0
      BY <1>1, <1>2, <2>1
    <3>2. Before(p \o t, Len(p) + 1) = p
      BY <3>1, CutAt
    <3> QED BY <3>2 DEF s
  <2> QED BY <1>r, <2>4, <2>5, <2>6 DEF p
<1> QED BY <1>4, <1>5

\* ParseImage finds the name and the tag that were written.
LEMMA ParseOfRender ==
    ASSUME NEW r \in Refs, ~PortHidesTag(r)
    PROVE  /\ ParseImage(Render(r)).ImageName = << r.name >>
           /\ ParseImage(Render(r)).Tag = << Tag(r) >>
<1> DEFINE image == Render(r)
           at    == Index(image, "@")
           ref   == IF at > 0 THEN Before(image, at) ELSE image
           colon == LastIndex(ref, ":")
           path  == IF colon > 0 THEN Before(ref, colon) ELSE ref
           slash == LastIndex(path, "/")
           name  == IF slash > 0 THEN After(path, slash) ELSE path
           tag   == IF colon > 0 THEN After(ref, colon) ELSE << "latest" >>
<1>1. ref = Ref(r)
  BY TagBehindColon, DigestBehindAt
<1> HIDE DEF ref
<1>2. path = Path(r) /\ tag = << Tag(r) >>
  BY <1>1, TagBehindColon
<1> HIDE DEF path, tag
<1>3. name = << r.name >>
  BY <1>2, NameBehindSlash
<1>4. ParseImage(image).ImageName = name /\ ParseImage(image).Tag = tag
  BY DEF ParseImage, ref, path, tag
<1> QED BY <1>2, <1>3, <1>4

-----------------------------------------------------------------------------
(* The specification.                                                      *)

\* The images compared are references that Render can write.
Inputs ==
    [what : {"nothing"}] \cup [what : {"images"}, current : Refs, expected : Refs]
    \cup [what : {"configMaps"}, list : Seq(ConfigMaps)]
    \cup [what : {"mwcs"}, list : Seq(MWCs)] \cup [what : {"skip"}, list : Seq(SkipEntries)]

\* A list begins with an element and grows by elements of its kind, and never
\* becomes a pair of images.
LEMMA GrowsInputs ==
    ASSUME NEW what \in {"configMaps", "mwcs", "skip"}, NEW S,
           [what : {what}, list : Seq(S)] \subseteq Inputs,
           input \in Inputs, input.what = what => input.list \in Seq(S), Grow(what, S)
    PROVE  input' \in Inputs /\ input'.what = what /\ Len(input'.list) > 0
<1>1. PICK x \in S :
        \/ input = Nothing /\ input' = [what |-> what, list |-> << x >>]
        \/ /\ input.what = what /\ Len(input.list) < MaxList
           /\ input' = [input EXCEPT !.list = Append(@, x)]
  BY DEF Grow
<1>2. CASE input' = [what |-> what, list |-> << x >>]
  <2>1. << x >> \in Seq(S) /\ Len(<< x >>) = 1
    BY OneToken
  <2>2. input'.what = what /\ input'.list = << x >>
    BY <1>2
  <2>3. input' \in Inputs
    BY <1>2, <2>1
  <2> QED BY <2>1, <2>2, <2>3
<1>3. CASE input.what = what /\ input' = [input EXCEPT !.list = Append(@, x)]
  <2>1. Append(input.list, x) \in Seq(S) /\ Len(Append(input.list, x)) > 0
    BY <1>3
  <2>2. \E l \in Seq(S) : input = [what |-> what, list |-> l]
    BY <1>3 DEF Inputs
  <2>3. input' = [what |-> what, list |-> Append(input.list, x)]
    BY <1>3, <2>2
  <2>4. input'.what = what /\ input'.list = Append(input.list, x)
    BY <2>3
  <2> QED BY <2>1, <2>3, <2>4
<1> QED BY <1>1, <1>2, <1>3

InputOK == input \in Inputs

\* What is looked at is nothing, two images, or a list.
LEMMA InputsKept == Spec => []InputOK
<1>1. Init => InputOK
  BY DEF Init, Nothing, Inputs, InputOK
<1>2. InputOK /\ [Next]_input => InputOK'
  <2> SUFFICES ASSUME input \in Inputs, [Next]_input PROVE input' \in Inputs
    BY DEF InputOK
  <2>1. CASE \E c \in Refs, e \in Refs :
               input' = [what |-> "images", current |-> c, expected |-> e]
    BY <2>1 DEF Inputs
  <2>2. CASE Grow("configMaps", ConfigMaps)
    <3>1. input.what = "configMaps" => input.list \in Seq(ConfigMaps)
      BY DEF Inputs
    <3>2. [what : {"configMaps"}, list : Seq(ConfigMaps)] \subseteq Inputs
      BY DEF Inputs
    <3> QED BY <2>2, <3>1, <3>2, GrowsInputs
  <2>3. CASE Grow("mwcs", MWCs)
    <3>1. input.what = "mwcs" => input.list \in Seq(MWCs)
      BY DEF Inputs
    <3>2. [what : {"mwcs"}, list : Seq(MWCs)] \subseteq Inputs
      BY DEF Inputs
    <3> QED BY <2>3, <3>1, <3>2, GrowsInputs
  <2>4. CASE Grow("skip", SkipEntries)
    <3>1. input.what = "skip" => input.list \in Seq(SkipEntries)
      BY DEF Inputs
    <3>2. [what : {"skip"}, list : Seq(SkipEntries)] \subseteq Inputs
      BY DEF Inputs
    <3> QED BY <2>4, <3>1, <3>2, GrowsInputs
  <2>5. CASE input' = Nothing
    BY <2>5 DEF Nothing, Inputs
  <2>6. CASE UNCHANGED input
    BY <2>6
  <2> QED BY <2>1, <2>2, <2>3, <2>4, <2>5, <2>6 DEF Next
<1> QED BY <1>1, <1>2, PTL DEF Spec

\* The images compared are two references.
LEMMA TwoReferences ==
    ASSUME InputOK, input.what = "images"
    PROVE  input.current \in Refs /\ input.expected \in Refs
BY DEF InputOK, Inputs

\* ParseImage finds the name of every image that has no port without a tag,
\* and the tag if there is no digest, for all hosts, ports, repositories,
\* names and tags: the digest is cut off first, so that its colon is not taken
\* for the tag's, and a port's colon stands before the tag's.
THEOREM NameAndTagFound == Spec => []ParseFindsNameAndTag
<1>1. InputOK => ParseFindsNameAndTag
  <2> SUFFICES ASSUME InputOK, input.what = "images", ~PortHidesTag(input.current)
               PROVE  /\ ParseImage(Render(input.current)).ImageName = << input.current.name >>
                      /\ ParseImage(Render(input.current)).Tag = << Tag(input.current) >>
    BY DEF ParseFindsNameAndTag
  <2>1. input.current \in Refs
    BY TwoReferences
  <2> QED BY <2>1, ParseOfRender
<1> QED BY <1>1, InputsKept, PTL

\* Without --compare-hub, imagesMatch says that two such images are the same
\* exactly if their names and their tags are: another registry, port or
\* repository makes no difference.
THEOREM MatchComparesNameAndTag == Spec => []MatchIsNameAndTag
<1>1. InputOK => MatchIsNameAndTag
  <2> SUFFICES ASSUME InputOK, input.what = "images",
                      NameAndTagOnly(input.current), NameAndTagOnly(input.expected)
               PROVE  imagesMatch(Render(input.current), Render(input.expected), FALSE)
                        <=> /\ input.current.name = input.expected.name
                            /\ Tag(input.current) = Tag(input.expected)
    BY DEF MatchIsNameAndTag
  <2> DEFINE c == input.current
             e == input.expected
  <2>1. c \in Refs /\ e \in Refs /\ ~PortHidesTag(c) /\ ~PortHidesTag(e)
    BY TwoReferences DEF NameAndTagOnly
  <2>2. /\ ParseImage(Render(c)).ImageName = << c.name >>
        /\ ParseImage(Render(c)).Tag = << Tag(c) >>
        /\ ParseImage(Render(e)).ImageName = << e.name >>
        /\ ParseImage(Render(e)).Tag = << Tag(e) >>
    BY <2>1, ParseOfRender
  <2>3. /\ << c.name >> = << e.name >> <=> c.name = e.name
        /\ << Tag(c) >> = << Tag(e) >> <=> Tag(c) = Tag(e)
    OBVIOUS
  <2> QED BY <2>2, <2>3 DEF imagesMatch
<1> QED BY <1>1, InputsKept, PTL

-----------------------------------------------------------------------------
(* Induction, and what a loop over a list computes.                        *)

\* What 0 has and every number up to n passes on to the next one, n has.
LEMMA Climb ==
    ASSUME NEW n \in Nat, NEW T, 0 \in T, \A k \in Nat : k < n /\ k \in T => k + 1 \in T
    PROVE  n \in T
<1> DEFINE Missing == {k \in Nat : k <= n /\ k \notin T}
           Less    == {p \in Nat \X Nat : p[1] < p[2]}
<1> SUFFICES ASSUME Missing # {} PROVE FALSE
  OBVIOUS
<1>1. W!IsWellFoundedOn(Less, Nat)
  BY W!NatLessThanWellFounded DEF W!OpToRel
<1>2. PICK k \in Missing : \A j \in Missing : << j, k >> \notin Less
  <2>1. Missing \subseteq Nat
    OBVIOUS
  <2> HIDE DEF Missing, Less
  <2> QED BY <1>1, <2>1, W!WFMin
<1>3. k \in Nat /\ k <= n /\ k \notin T /\ k # 0
  BY <1>2
<1>4. k - 1 \in Nat /\ k - 1 < n /\ k - 1 < k /\ (k - 1) + 1 = k
  BY <1>3
<1>5. k - 1 \in Missing /\ << k - 1, k >> \in Less
  BY <1>3, <1>4
<1> QED BY <1>2, <1>5

\* g does what FoldLeft does with the first n elements of a list: it takes
\* the one with the largest index last.
IsFold(g, n, base, step) ==
    \A s \in SUBSET (1 .. n) :
        g[s] = IF s = {} THEN base ELSE step[<< Max(s), g[s \ {Max(s)}] >>]

\* The largest element.
LEMMA MaxIs ==
    ASSUME NEW s \in SUBSET Nat, NEW m \in s, \A x \in s : x <= m
    PROVE  Max(s) = m
<1> DEFINE Top(x) == \A y \in s : x >= y
<1>1. Top(m) /\ \A x \in s : Top(x) => x = m
  OBVIOUS
<1>2. (CHOOSE x \in s : Top(x)) = m
  <2> HIDE DEF Top
  <2> QED BY <1>1
<1> QED BY <1>2 DEF Max

\* A loop has a result.
LEMMA FoldExists ==
    ASSUME NEW n \in Nat, NEW X, NEW base \in X, NEW step \in [(1 .. n) \X X -> X]
    PROVE  \E g \in [SUBSET (1 .. n) -> X] : IsFold(g, n, base, step)
<1> DEFINE Has(m) == \E g \in [SUBSET (1 .. m) -> X] : IsFold(g, m, base, step)
           T      == {m \in Nat : m <= n => Has(m)}
<1>1. 0 \in T
  <2> DEFINE g == [s \in SUBSET (1 .. 0) |-> base]
  <2>1. \A s \in SUBSET (1 .. 0) : s = {}
    OBVIOUS
  <2>2. g \in [SUBSET (1 .. 0) -> X] /\ \A s \in SUBSET (1 .. 0) : g[s] = base
    OBVIOUS
  <2> HIDE DEF g
  <2>3. IsFold(g, 0, base, step)
    BY <2>1, <2>2 DEF IsFold
  <2> QED BY <2>2, <2>3
<1>2. ASSUME NEW m \in Nat, m < n, m \in T PROVE m + 1 \in T
  <2>0. Has(m)
    <3> HIDE DEF Has
    <3> QED BY <1>2
  <2>1. PICK g \in [SUBSET (1 .. m) -> X] : IsFold(g, m, base, step)
    BY <2>0
  <2> DEFINE h == [s \in SUBSET (1 .. m + 1) |->
                     IF m + 1 \in s THEN step[<< m + 1, g[s \ {m + 1}] >>] ELSE g[s]]
  <2>2. m + 1 \in 1 .. n
    BY <1>2
  <2>3. \A s \in SUBSET (1 .. m + 1) :
           /\ m + 1 \notin s => s \in SUBSET (1 .. m)
           /\ s \ {m + 1} \in SUBSET (1 .. m)
    BY <1>2
  <2>4. h \in [SUBSET (1 .. m + 1) -> X]
    BY <2>1, <2>2, <2>3
  <2>5. ASSUME NEW s \in SUBSET (1 .. m + 1)
        PROVE  h[s] = IF s = {} THEN base ELSE step[<< Max(s), h[s \ {Max(s)}] >>]
    <3>1. CASE m + 1 \in s
      <4>1. Max(s) = m + 1
        BY <3>1, MaxIs
      <4>2. h[s \ {m + 1}] = g[s \ {m + 1}]
        BY <2>3
      <4> QED BY <3>1, <4>1, <4>2
    <3>2. CASE m + 1 \notin s
      <4>1. s \in SUBSET (1 .. m) /\ s \ {Max(s)} \in SUBSET (1 .. m + 1)
            /\ m + 1 \notin s \ {Max(s)}
        BY <2>3, <3>2
      <4>2. h[s] = g[s] /\ h[s \ {Max(s)}] = g[s \ {Max(s)}]
        BY <3>2, <4>1
      <4>3. g[s] = IF s = {} THEN base ELSE step[<< Max(s), g[s \ {Max(s)}] >>]
        BY <2>1, <4>1 DEF IsFold
      <4> QED BY <4>2, <4>3
    <3> QED BY <3>1, <3>2
  <2> HIDE DEF h
  <2>6. IsFold(h, m + 1, base, step)
    BY <2>4, <2>5 DEF IsFold
  <2> QED BY <2>4, <2>6
<1>3. n \in T
  <2> HIDE DEF T
  <2> QED BY <1>1, <1>2, Climb
<1>4. Has(n)
  <2> HIDE DEF Has
  <2> QED BY <1>3
<1> QED BY <1>4

\* A non-empty set of numbers up to n has a largest element.
LEMMA MaxInRange ==
    ASSUME NEW n \in Nat, NEW s \in SUBSET (1 .. n), s # {}
    PROVE  Max(s) \in s
<1> DEFINE T == {m \in Nat : \A r \in SUBSET (1 .. m) :
                               r # {} => \E x \in r : \A y \in r : y <= x}
<1>1. 0 \in T
  <2>1. \A r \in SUBSET (1 .. 0) : r = {}
    OBVIOUS
  <2> QED BY <2>1
<1>2. ASSUME NEW m \in Nat, m < n, m \in T PROVE m + 1 \in T
  <2> SUFFICES ASSUME NEW r \in SUBSET (1 .. m + 1), r # {}
               PROVE  \E x \in r : \A y \in r : y <= x
    OBVIOUS
  <2>1. CASE m + 1 \in r
    BY <2>1
  <2>2. CASE m + 1 \notin r
    <3>1. r \in SUBSET (1 .. m)
      BY <2>2
    <3> QED BY <1>2, <3>1
  <2> QED BY <2>1, <2>2
<1>3. n \in T
  <2> HIDE DEF T
  <2> QED BY <1>1, <1>2, Climb
<1>4. PICK x \in s : \A y \in s : y <= x
  BY <1>3
<1> QED BY <1>4, MaxIs

\* The elements up to k + 1 are those up to k and the one at k + 1.
LEMMA OneMore ==
    ASSUME NEW k \in Nat
    PROVE  /\ 1 .. k + 1 # {} /\ Max(1 .. k + 1) = k + 1
           /\ (1 .. k + 1) \ {k + 1} = 1 .. k
<1>1. k + 1 \in 1 .. k + 1 /\ (1 .. k + 1) \ {k + 1} = 1 .. k
  OBVIOUS
<1>2. 1 .. k + 1 \in SUBSET Nat /\ \A x \in 1 .. k + 1 : x <= k + 1
  OBVIOUS
<1> QED BY <1>1, <1>2, MaxIs

\* GetConfigMapLastModified goes through the managedFields one by one.
LEMMA TimesRun ==
    ASSUME NEW obj, obj.created \in Nat, obj.managed \in Seq(Nat)
    PROVE  \E v : /\ v[0] = obj.created
                  /\ \A k \in Nat : k < Len(obj.managed) =>
                        v[k + 1] = IF obj.managed[k + 1] > v[k] THEN obj.managed[k + 1] ELSE v[k]
                  /\ GetConfigMapLastModified(obj) = v[Len(obj.managed)]
<1> DEFINE ts    == obj.managed
           n     == Len(ts)
           Eq(f) == f = [s \in SUBSET DOMAIN ts |->
                           IF s = {} THEN obj.created
                           ELSE IF ts[Max(s)] > f[s \ {Max(s)}] THEN ts[Max(s)]
                                ELSE f[s \ {Max(s)}]]
           it    == CHOOSE f : Eq(f)
           step  == [p \in (1 .. n) \X Nat |-> IF ts[p[1]] > p[2] THEN ts[p[1]] ELSE p[2]]
<1>1. n \in Nat /\ DOMAIN ts = 1 .. n /\ \A i \in 1 .. n : ts[i] \in Nat
  BY LenProperties, ElementOfSeq
<1>2. Eq(it)
  <2>1. step \in [(1 .. n) \X Nat -> Nat]
    BY <1>1
  <2>2. \A i \in 1 .. n, x \in Nat : step[<< i, x >>] = IF ts[i] > x THEN ts[i] ELSE x
    OBVIOUS
  <2> HIDE DEF step
  <2>3. PICK g \in [SUBSET (1 .. n) -> Nat] : IsFold(g, n, obj.created, step)
    BY <1>1, <2>1, FoldExists
  <2>4. ASSUME NEW s \in SUBSET (1 .. n), s # {}
        PROVE  g[s] = IF ts[Max(s)] > g[s \ {Max(s)}] THEN ts[Max(s)] ELSE g[s \ {Max(s)}]
    <3>1. Max(s) \in 1 .. n /\ g[s \ {Max(s)}] \in Nat
      BY <1>1, <2>3, <2>4, MaxInRange
    <3>2. g[s] = step[<< Max(s), g[s \ {Max(s)}] >>]
      BY <2>3, <2>4 DEF IsFold
    <3> QED BY <2>2, <3>1, <3>2
  <2>5. g[{}] = obj.created
    BY <2>3 DEF IsFold
  <2>6. Eq(g)
    BY <1>1, <2>3, <2>4, <2>5
  <2> HIDE DEF Eq
  <2> QED BY <2>6
<1>3. GetConfigMapLastModified(obj) = it[DOMAIN ts]
  BY DEF GetConfigMapLastModified, FoldLeft, MapThenFoldSet
<1> HIDE DEF it
<1> DEFINE v == [k \in 0 .. n |-> it[1 .. k]]
<1>4. v[0] = obj.created /\ v[n] = it[1 .. n]
  BY <1>1, <1>2
<1>5. ASSUME NEW k \in Nat, k < n
      PROVE  v[k + 1] = IF ts[k + 1] > v[k] THEN ts[k + 1] ELSE v[k]
  <2>1. /\ v[k + 1] = it[1 .. k + 1] /\ v[k] = it[1 .. k]
        /\ 1 .. k + 1 \in SUBSET DOMAIN ts
    BY <1>1, <1>5
  <2>2. it[1 .. k + 1] = IF ts[k + 1] > it[1 .. k] THEN ts[k + 1] ELSE it[1 .. k]
    <3>1. \A s \in SUBSET DOMAIN ts :
             s # {} => it[s] = IF ts[Max(s)] > it[s \ {Max(s)}] THEN ts[Max(s)]
                               ELSE it[s \ {Max(s)}]
      BY <1>2
    <3> QED BY <2>1, <3>1, OneMore
  <2> HIDE DEF v
  <2> QED BY <2>1, <2>2
<1> HIDE DEF v
<1> QED BY <1>1, <1>3, <1>4, <1>5

\* GetConfigMapLastModified returns the latest of the times.
LEMMA LatestTime ==
    ASSUME NEW obj, obj.created \in Nat, obj.managed \in Seq(Nat)
    PROVE  /\ GetConfigMapLastModified(obj) \in Times(obj)
           /\ \A t \in Times(obj) : t \in Nat /\ t <= GetConfigMapLastModified(obj)
<1> DEFINE ts   == obj.managed
           n    == Len(ts)
           S(k) == {obj.created} \cup {ts[i] : i \in 1 .. k}
<1>1. n \in Nat /\ DOMAIN ts = 1 .. n /\ \A i \in 1 .. n : ts[i] \in Nat
  BY LenProperties, ElementOfSeq
<1>2. PICK v : /\ v[0] = obj.created
               /\ \A k \in Nat : k < n =>
                     v[k + 1] = IF ts[k + 1] > v[k] THEN ts[k + 1] ELSE v[k]
               /\ GetConfigMapLastModified(obj) = v[n]
  BY TimesRun
<1> DEFINE T == {k \in Nat : k <= n => v[k] \in S(k) /\ \A t \in S(k) : t \in Nat /\ t <= v[k]}
<1>3. 0 \in T
  BY <1>2
<1>4. ASSUME NEW k \in Nat, k < n, k \in T PROVE k + 1 \in T
  <2>1. v[k] \in S(k) /\ \A t \in S(k) : t \in Nat /\ t <= v[k]
    BY <1>1, <1>4
  <2>2. S(k + 1) = S(k) \cup {ts[k + 1]}
    OBVIOUS
  <2>3. k + 1 \in 1 .. n /\ ts[k + 1] \in Nat
    BY <1>1, <1>4
  <2>4. v[k + 1] = IF ts[k + 1] > v[k] THEN ts[k + 1] ELSE v[k]
    BY <1>2, <1>4
  <2> HIDE DEF S
  <2>5. v[k + 1] \in S(k + 1) /\ \A t \in S(k + 1) : t \in Nat /\ t <= v[k + 1]
    BY <2>1, <2>2, <2>3, <2>4
  <2> QED BY <2>5
<1>5. n \in T
  <2> HIDE DEF T
  <2> QED BY <1>1, <1>3, <1>4, Climb
<1>6. S(n) = Times(obj)
  BY <1>1 DEF Times
<1> HIDE DEF S
<1> QED BY <1>1, <1>2, <1>5, <1>6

-----------------------------------------------------------------------------
(* BuildLastModifiedByRevision.                                            *)

\* Maps from keys of K to values of V.
Maps(K, V) == UNION {[D -> V] : D \in SUBSET K}

\* An entry is added or overwritten.
LEMMA EntryAdded ==
    ASSUME NEW K, NEW V, NEW f \in Maps(K, V), NEW x \in K, NEW y \in V
    PROVE  Assign(f, x, y) \in Maps(K, V)
<1>1. PICK D \in SUBSET K : f \in [D -> V]
  BY DEF Maps
<1>2. D \cup {x} \in SUBSET K /\ Assign(f, x, y) \in [D \cup {x} -> V]
  BY <1>1 DEF Assign
<1> QED BY <1>2 DEF Maps

\* No entry yet.
LEMMA NoMapEmpty ==
    ASSUME NEW K, NEW V
    PROVE  NoMap \in Maps(K, V) /\ DOMAIN NoMap = {}
<1>1. NoMap \in [{} -> V] /\ DOMAIN NoMap = {}
  BY DEF NoMap
<1> QED BY <1>1 DEF Maps

\* A ConfigMap is of the revision that ParseConfigMapValues finds, and of no
\* other.
LEMMA RevisionParsed ==
    ASSUME NEW cm \in ConfigMaps, NEW rev
    PROVE  /\ IsOfRevision(cm, rev)
                <=> cm.injector /\ ParseConfigMapValues(cm) = rev /\ rev # Unset
           /\ ParseConfigMapValues(cm) \in NamedRevisions \cup {Unset}
           /\ cm.created \in Nat /\ cm.managed \in Seq(Nat) /\ cm.injector \in BOOLEAN
<1>1. /\ cm.created \in Nat /\ cm.managed \in Seq(Nat) /\ cm.injector \in BOOLEAN
      /\ {cm.top, cm.global, cm.label, "default"} \subseteq NamedRevisions
  <2>1. Named(cm) \subseteq NamedRevisions /\ "default" \in NamedRevisions
    BY DEF NamedRevisions
  <2>2. {cm.top, cm.global, cm.label, "default"} \subseteq NamedRevisions
    BY <2>1 DEF Named
  <2> QED BY <2>2, ObjectAssumption
<1> DEFINE given == << cm.top, cm.global, cm.label, "default" >>
<1>2. /\ DOMAIN given = {1, 2, 3, 4}
      /\ given[1] = cm.top /\ given[2] = cm.global /\ given[3] = cm.label /\ given[4] = "default"
  OBVIOUS
<1>3. /\ 1 .. (1 - 1) = {} /\ 1 .. (2 - 1) = {1}
      /\ 1 .. (3 - 1) = {1, 2} /\ 1 .. (4 - 1) = {1, 2, 3}
  OBVIOUS
<1> DEFINE P(i) == given[i] = rev /\ rev # Unset /\ \A j \in 1 .. (i - 1) : given[j] = Unset
<1>4. IsOfRevision(cm, rev) <=>
         cm.injector /\ cm.values = "json" /\ (P(1) \/ P(2) \/ P(3) \/ P(4))
  <2>1. IsOfRevision(cm, rev) <=>
           cm.injector /\ cm.values = "json" /\ \E i \in DOMAIN given : P(i)
    BY DEF IsOfRevision
  <2> HIDE DEF given, P
  <2> QED BY <1>2, <2>1
<1> HIDE DEF given
<1>5. IsOfRevision(cm, rev) <=>
         /\ cm.injector /\ cm.values = "json" /\ rev # Unset
         /\ \/ cm.top = rev
            \/ cm.top = Unset /\ cm.global = rev
            \/ cm.top = Unset /\ cm.global = Unset /\ cm.label = rev
            \/ cm.top = Unset /\ cm.global = Unset /\ cm.label = Unset /\ rev = "default"
  <2>1. P(1) <=> cm.top = rev /\ rev # Unset
    BY <1>2, <1>3
  <2>2. P(2) <=> cm.global = rev /\ rev # Unset /\ cm.top = Unset
    BY <1>2, <1>3
  <2>3. P(3) <=> cm.label = rev /\ rev # Unset /\ cm.top = Unset /\ cm.global = Unset
    BY <1>2, <1>3
  <2>4. P(4) <=> /\ "default" = rev /\ rev # Unset
                 /\ cm.top = Unset /\ cm.global = Unset /\ cm.label = Unset
    BY <1>2, <1>3
  <2> HIDE DEF P
  <2> QED BY <1>4, <2>1, <2>2, <2>3, <2>4
<1>6. /\ ParseConfigMapValues(cm) \in NamedRevisions \cup {Unset}
      /\ cm.values # "json" => ParseConfigMapValues(cm) = Unset
      /\ cm.values = "json" =>
            ParseConfigMapValues(cm) = IF cm.top # Unset THEN cm.top
                                       ELSE IF cm.global # Unset THEN cm.global
                                       ELSE IF cm.label # Unset THEN cm.label ELSE "default"
  <2>1. ParseConfigMapValues(cm) \in {Unset, cm.top, cm.global, cm.label, "default"}
    BY DEF ParseConfigMapValues
  <2>2. ParseConfigMapValues(cm) \in NamedRevisions \cup {Unset}
    BY <1>1, <2>1
  <2> QED BY <2>2 DEF ParseConfigMapValues
<1>7. IsOfRevision(cm, rev) <=> cm.injector /\ ParseConfigMapValues(cm) = rev /\ rev # Unset
  <2>1. CASE cm.values # "json"
    BY <2>1, <1>5, <1>6
  <2>2. CASE cm.values = "json" /\ cm.top # Unset
    BY <2>2, <1>5, <1>6
  <2>3. CASE cm.values = "json" /\ cm.top = Unset /\ cm.global # Unset
    BY <2>3, <1>5, <1>6
  <2>4. CASE cm.values = "json" /\ cm.top = Unset /\ cm.global = Unset
    BY <2>4, <1>5, <1>6
  <2> QED BY <2>1, <2>2, <2>3, <2>4
<1> QED BY <1>1, <1>6, <1>7

\* One ConfigMap more.
LEMMA ConfigMapAdded ==
    ASSUME NEW result \in Maps(NamedRevisions, Nat), NEW cm \in ConfigMaps
    PROVE  AddConfigMap(result, cm) \in Maps(NamedRevisions, Nat)
<1> DEFINE rev  == ParseConfigMapValues(cm)
           time == GetConfigMapLastModified(cm)
<1>1. time \in Nat /\ (rev # Unset => rev \in NamedRevisions)
  BY RevisionParsed, LatestTime
<1>2. AddConfigMap(result, cm) \in {result, Assign(result, rev, time)}
      /\ (rev = Unset => AddConfigMap(result, cm) = result)
  BY DEF AddConfigMap
<1>3. CASE rev # Unset
  <2>1. Assign(result, rev, time) \in Maps(NamedRevisions, Nat)
    BY <1>1, <1>3, EntryAdded
  <2> QED BY <1>2, <2>1
<1> QED BY <1>2, <1>3

\* BuildLastModifiedByRevision goes through the ConfigMaps one by one.
LEMMA RevisionsRun ==
    ASSUME NEW list \in Seq(ConfigMaps)
    PROVE  \E v : /\ v[0] = NoMap
                  /\ \A k \in Nat : k < Len(list) => v[k + 1] = AddConfigMap(v[k], list[k + 1])
                  /\ BuildLastModifiedByRevision(list) = v[Len(list)]
<1> DEFINE n     == Len(list)
           X     == Maps(NamedRevisions, Nat)
           Eq(f) == f = [s \in SUBSET DOMAIN list |->
                           IF s = {} THEN NoMap
                           ELSE AddConfigMap(f[s \ {Max(s)}], list[Max(s)])]
           it    == CHOOSE f : Eq(f)
           step  == [p \in (1 .. n) \X X |-> AddConfigMap(p[2], list[p[1]])]
<1>1. n \in Nat /\ DOMAIN list = 1 .. n /\ \A i \in 1 .. n : list[i] \in ConfigMaps
  BY LenProperties, ElementOfSeq
<1>2. BuildLastModifiedByRevision(list) = it[DOMAIN list]
  BY DEF BuildLastModifiedByRevision, FoldLeft, MapThenFoldSet
<1>3. Eq(it)
  <2>1. step \in [(1 .. n) \X X -> X]
    BY <1>1, ConfigMapAdded
  <2>2. \A i \in 1 .. n, x \in X : step[<< i, x >>] = AddConfigMap(x, list[i])
    OBVIOUS
  <2> HIDE DEF step
  <2>3. PICK g \in [SUBSET (1 .. n) -> X] : IsFold(g, n, NoMap, step)
    BY <1>1, <2>1, NoMapEmpty, FoldExists
  <2>4. ASSUME NEW s \in SUBSET (1 .. n), s # {}
        PROVE  g[s] = AddConfigMap(g[s \ {Max(s)}], list[Max(s)])
    <3>1. Max(s) \in 1 .. n /\ g[s \ {Max(s)}] \in X
      BY <1>1, <2>3, <2>4, MaxInRange
    <3>2. g[s] = step[<< Max(s), g[s \ {Max(s)}] >>]
      BY <2>3, <2>4 DEF IsFold
    <3> QED BY <2>2, <3>1, <3>2
  <2>5. g[{}] = NoMap
    BY <2>3 DEF IsFold
  <2>6. Eq(g)
    BY <1>1, <2>3, <2>4, <2>5
  <2> HIDE DEF Eq
  <2> QED BY <2>6
<1> HIDE DEF it
<1> DEFINE v == [k \in 0 .. n |-> it[1 .. k]]
<1>4. v[0] = NoMap /\ v[n] = it[1 .. n]
  BY <1>1, <1>3
<1>5. ASSUME NEW k \in Nat, k < n PROVE v[k + 1] = AddConfigMap(v[k], list[k + 1])
  <2>1. /\ v[k + 1] = it[1 .. k + 1] /\ v[k] = it[1 .. k]
        /\ 1 .. k + 1 \in SUBSET DOMAIN list
    BY <1>1, <1>5
  <2>2. it[1 .. k + 1] = AddConfigMap(it[1 .. k], list[k + 1])
    <3>1. \A s \in SUBSET DOMAIN list :
             s # {} => it[s] = AddConfigMap(it[s \ {Max(s)}], list[Max(s)])
      BY <1>3
    <3> QED BY <2>1, <3>1, OneMore
  <2> HIDE DEF v
  <2> QED BY <2>1, <2>2
<1> HIDE DEF v
<1> QED BY <1>1, <1>2, <1>4, <1>5

\* The times of the first k ConfigMaps of a list that are of revision rev.
TimesOf(list, rev, k) ==
    UNION {Times(list[i]) : i \in {j \in 1 .. k : IsOfRevision(list[j], rev)}}

\* One ConfigMap more.
LEMMA TimesGrow ==
    ASSUME NEW list, NEW rev, NEW k \in Nat
    PROVE  /\ TimesOf(list, rev, 0) = {}
           /\ IsOfRevision(list[k + 1], rev) =>
                 TimesOf(list, rev, k + 1) = TimesOf(list, rev, k) \cup Times(list[k + 1])
           /\ ~IsOfRevision(list[k + 1], rev) =>
                 TimesOf(list, rev, k + 1) = TimesOf(list, rev, k)
<1> DEFINE I(m) == {j \in 1 .. m : IsOfRevision(list[j], rev)}
           U(S) == UNION {Times(list[i]) : i \in S}
<1>1. I(0) = {}
  OBVIOUS
<1>2. IsOfRevision(list[k + 1], rev) => I(k + 1) = I(k) \cup {k + 1}
  OBVIOUS
<1>3. ~IsOfRevision(list[k + 1], rev) => I(k + 1) = I(k)
  OBVIOUS
<1>4. \A m : TimesOf(list, rev, m) = U(I(m))
  BY DEF TimesOf
<1>5. U({}) = {} /\ \A S : U(S \cup {k + 1}) = U(S) \cup Times(list[k + 1])
  OBVIOUS
<1> HIDE DEF I, U
<1> QED BY <1>1, <1>2, <1>3, <1>4, <1>5

\* m has the latest of the times S of a revision, if there are any.
HasLatest(m, rev, S) ==
    IF rev \in DOMAIN m THEN m[rev] \in S /\ \A t \in S : t <= m[rev] ELSE S = {}

\* BuildLastModifiedByRevision finds the latest time of each revision.
LEMMA RevisionsFound ==
    ASSUME NEW list \in Seq(ConfigMaps), NEW rev
    PROVE  HasLatest(BuildLastModifiedByRevision(list), rev, TimesOf(list, rev, Len(list)))
<1> DEFINE n == Len(list)
           M == Maps(NamedRevisions, Nat)
<1>1. n \in Nat /\ \A i \in 1 .. n : list[i] \in ConfigMaps
  BY LenProperties, ElementOfSeq
<1>2. PICK v : /\ v[0] = NoMap
               /\ \A k \in Nat : k < n => v[k + 1] = AddConfigMap(v[k], list[k + 1])
               /\ BuildLastModifiedByRevision(list) = v[n]
  BY RevisionsRun
<1> DEFINE R(k) == /\ v[k] \in M /\ TimesOf(list, rev, k) \subseteq Nat
                   /\ HasLatest(v[k], rev, TimesOf(list, rev, k))
           T    == {k \in Nat : k <= n => R(k)}
<1>3. R(0)
  <2>1. TimesOf(list, rev, 0) = {}
    BY TimesGrow
  <2> QED BY <1>2, <2>1, NoMapEmpty DEF HasLatest
<1>4. ASSUME NEW k \in Nat, k < n, R(k) PROVE R(k + 1)
  <2> DEFINE cm   == list[k + 1]
             m    == v[k]
             own  == ParseConfigMapValues(cm)
             time == GetConfigMapLastModified(cm)
             S    == TimesOf(list, rev, k)
  <2>1. /\ cm \in ConfigMaps /\ m \in M /\ S \subseteq Nat /\ HasLatest(m, rev, S)
        /\ v[k + 1] = AddConfigMap(m, cm)
    BY <1>1, <1>2, <1>4
  <2>2. v[k + 1] \in M
    BY <2>1, ConfigMapAdded
  <2>3. /\ IsOfRevision(cm, rev) <=> cm.injector /\ own = rev /\ rev # Unset
        /\ own # Unset => own \in NamedRevisions
        /\ time \in Times(cm) /\ time \in Nat /\ \A t \in Times(cm) : t \in Nat /\ t <= time
    BY <2>1, RevisionParsed, LatestTime
  <2>4. rev \in DOMAIN m => m[rev] \in Nat
    BY <2>1 DEF Maps
  <2>5. /\ IsOfRevision(cm, rev) => TimesOf(list, rev, k + 1) = S \cup Times(cm)
        /\ ~IsOfRevision(cm, rev) => TimesOf(list, rev, k + 1) = S
    BY TimesGrow
  <2>6. /\ DOMAIN Assign(m, own, time) = DOMAIN m \cup {own}
        /\ Assign(m, own, time)[own] = time
        /\ \A z \in DOMAIN m : z # own => Assign(m, own, time)[z] = m[z]
    <3> HIDE DEF cm, m, own, time, S
    <3> QED BY DEF Assign
  <2>7. /\ cm.injector /\ own # Unset /\ (own \notin DOMAIN m \/ time > m[own])
              => AddConfigMap(m, cm) = Assign(m, own, time)
        /\ ~(cm.injector /\ own # Unset /\ (own \notin DOMAIN m \/ time > m[own]))
              => AddConfigMap(m, cm) = m
    BY DEF AddConfigMap
  <2>8. HasLatest(v[k + 1], rev, TimesOf(list, rev, k + 1))
    <3> HIDE DEF cm, m, own, time, S
    <3>1. CASE ~IsOfRevision(cm, rev)
      <4>1. CASE v[k + 1] = m
        BY <2>1, <2>5, <3>1, <4>1
      <4>2. CASE v[k + 1] = Assign(m, own, time) /\ own # Unset /\ cm.injector
        <5>1. own # rev
          BY <2>3, <3>1, <4>2
        <5> QED BY <2>1, <2>5, <2>6, <3>1, <4>2, <5>1 DEF HasLatest
      <4> QED BY <2>1, <2>7, <4>1, <4>2
    <3>2. CASE IsOfRevision(cm, rev)
      <4>1. own = rev /\ rev # Unset /\ cm.injector
        BY <2>3, <3>2
      <4>2. CASE rev \notin DOMAIN m
        <5>1. v[k + 1] = Assign(m, rev, time) /\ S = {}
          BY <2>1, <2>7, <4>1, <4>2 DEF HasLatest
        <5> QED BY <2>3, <2>5, <2>6, <3>2, <4>1, <5>1 DEF HasLatest
      <4>3. CASE rev \in DOMAIN m
        <5>1. m[rev] \in Nat /\ m[rev] \in S /\ \A t \in S : t <= m[rev]
          BY <2>1, <2>4, <4>3 DEF HasLatest
        <5>2. CASE time > m[rev]
          <6>1. v[k + 1] = Assign(m, rev, time)
            BY <2>1, <2>7, <4>1, <5>2
          <6>2. TimesOf(list, rev, k + 1) = S \cup Times(cm)
            BY <2>5, <3>2
          <6>3. \A t \in S \cup Times(cm) : t <= time
            <7>1. ASSUME NEW t \in S PROVE t <= time
              <8>1. t \in Nat /\ t <= m[rev] /\ m[rev] < time
                BY <2>1, <2>3, <5>1, <5>2
              <8>2. time \in Nat /\ m[rev] \in Nat
                BY <2>3, <5>1
              <8> QED BY <8>1, <8>2
            <7> QED BY <2>3, <7>1
          <6> QED BY <2>3, <2>6, <4>1, <6>1, <6>2, <6>3 DEF HasLatest
        <5>3. CASE ~(time > m[rev])
          <6>1. v[k + 1] = m
            BY <2>1, <2>7, <4>1, <4>3, <5>3
          <6>2. TimesOf(list, rev, k + 1) = S \cup Times(cm)
            BY <2>5, <3>2
          <6>3. \A t \in S \cup Times(cm) : t <= m[rev]
            <7>1. ASSUME NEW t \in Times(cm) PROVE t <= m[rev]
              <8>1. time \in Nat /\ m[rev] \in Nat /\ t \in Nat /\ t <= time
                BY <2>3, <5>1
              <8>2. time <= m[rev]
                BY <8>1, <5>3
              <8> QED BY <8>1, <8>2
            <7> QED BY <5>1, <7>1
          <6> QED BY <4>3, <5>1, <6>1, <6>2, <6>3 DEF HasLatest
        <5> QED BY <5>2, <5>3
      <4> QED BY <4>2, <4>3
    <3> QED BY <3>1, <3>2
  <2>9. TimesOf(list, rev, k + 1) \subseteq Nat
    <3> HIDE DEF cm, S
    <3> QED BY <2>1, <2>3, <2>5
  <2> QED BY <2>2, <2>8, <2>9
<1>5. n \in T
  <2> HIDE DEF R
  <2>1. 0 \in T /\ \A k \in Nat : k < n /\ k \in T => k + 1 \in T
    BY <1>1, <1>3, <1>4
  <2> HIDE DEF T
  <2> QED BY <1>1, <2>1, Climb
<1>6. R(n)
  <2> HIDE DEF R
  <2> QED BY <1>1, <1>5
<1> QED BY <1>2, <1>6

-----------------------------------------------------------------------------
(* FetchTagToRevisionAndLastModified.                                      *)

TagNames == {mwc.tag : mwc \in MWCs}
RevNames == {mwc.rev : mwc \in MWCs}
TagMaps  == [tagToRevision : Maps(TagNames, RevNames), lastModifiedByTag : Maps(TagNames, Nat)]
NoTags   == [tagToRevision |-> NoMap, lastModifiedByTag |-> NoMap]

\* mwc says where tag t points.
IsOfTag(mwc, t) == mwc.tagMWC /\ mwc.tag = t /\ mwc.rev # Unset

\* One MWC more.
LEMMA TagAdded ==
    ASSUME NEW maps \in TagMaps, NEW mwc \in MWCs
    PROVE  AddTag(maps, mwc) \in TagMaps
<1>1. /\ mwc.tag \in TagNames /\ mwc.rev \in RevNames
      /\ mwc.created \in Nat /\ mwc.managed \in Seq(Nat)
  BY ObjectAssumption DEF TagNames, RevNames
<1>2. getLastModified(mwc) \in Nat
  BY <1>1, LatestTime DEF getLastModified
<1>3. /\ maps.tagToRevision \in Maps(TagNames, RevNames)
      /\ maps.lastModifiedByTag \in Maps(TagNames, Nat)
  BY DEF TagMaps
<1>4. Assign(maps.tagToRevision, mwc.tag, mwc.rev) \in Maps(TagNames, RevNames)
  BY <1>1, <1>3, EntryAdded
<1>5. Assign(maps.lastModifiedByTag, mwc.tag, getLastModified(mwc)) \in Maps(TagNames, Nat)
  BY <1>1, <1>2, <1>3, EntryAdded
<1> QED BY <1>4, <1>5 DEF AddTag, TagMaps

\* FetchTagToRevisionAndLastModified goes through the MWCs one by one.
LEMMA TagsRun ==
    ASSUME NEW list \in Seq(MWCs)
    PROVE  \E v : /\ v[0] = NoTags
                  /\ \A k \in Nat : k < Len(list) => v[k + 1] = AddTag(v[k], list[k + 1])
                  /\ FetchTagToRevisionAndLastModified(list) = v[Len(list)]
<1> DEFINE n     == Len(list)
           Eq(f) == f = [s \in SUBSET DOMAIN list |->
                           IF s = {} THEN NoTags
                           ELSE AddTag(f[s \ {Max(s)}], list[Max(s)])]
           it    == CHOOSE f : Eq(f)
           step  == [p \in (1 .. n) \X TagMaps |-> AddTag(p[2], list[p[1]])]
<1>1. n \in Nat /\ DOMAIN list = 1 .. n /\ \A i \in 1 .. n : list[i] \in MWCs
  BY LenProperties, ElementOfSeq
<1>2. FetchTagToRevisionAndLastModified(list) = it[DOMAIN list]
  BY DEF FetchTagToRevisionAndLastModified, FoldLeft, MapThenFoldSet, NoTags
<1>3. Eq(it)
  <2>0. NoTags \in TagMaps
    BY NoMapEmpty DEF NoTags, TagMaps
  <2>1. step \in [(1 .. n) \X TagMaps -> TagMaps]
    BY <1>1, TagAdded
  <2>2. \A i \in 1 .. n, x \in TagMaps : step[<< i, x >>] = AddTag(x, list[i])
    OBVIOUS
  <2> HIDE DEF step
  <2>3. PICK g \in [SUBSET (1 .. n) -> TagMaps] : IsFold(g, n, NoTags, step)
    BY <1>1, <2>0, <2>1, FoldExists
  <2>4. ASSUME NEW s \in SUBSET (1 .. n), s # {}
        PROVE  g[s] = AddTag(g[s \ {Max(s)}], list[Max(s)])
    <3>1. Max(s) \in 1 .. n /\ g[s \ {Max(s)}] \in TagMaps
      BY <1>1, <2>3, <2>4, MaxInRange
    <3>2. g[s] = step[<< Max(s), g[s \ {Max(s)}] >>]
      BY <2>3, <2>4 DEF IsFold
    <3> QED BY <2>2, <3>1, <3>2
  <2>5. g[{}] = NoTags
    BY <2>3 DEF IsFold
  <2>6. Eq(g)
    BY <1>1, <2>3, <2>4, <2>5
  <2> HIDE DEF Eq
  <2> QED BY <2>6
<1> HIDE DEF it
<1> DEFINE v == [k \in 0 .. n |-> it[1 .. k]]
<1>4. v[0] = NoTags /\ v[n] = it[1 .. n]
  BY <1>1, <1>3
<1>5. ASSUME NEW k \in Nat, k < n PROVE v[k + 1] = AddTag(v[k], list[k + 1])
  <2>1. /\ v[k + 1] = it[1 .. k + 1] /\ v[k] = it[1 .. k]
        /\ 1 .. k + 1 \in SUBSET DOMAIN list
    BY <1>1, <1>5
  <2>2. it[1 .. k + 1] = AddTag(it[1 .. k], list[k + 1])
    <3>1. \A s \in SUBSET DOMAIN list :
             s # {} => it[s] = AddTag(it[s \ {Max(s)}], list[Max(s)])
      BY <1>3
    <3> QED BY <2>1, <3>1, OneMore
  <2> HIDE DEF v
  <2> QED BY <2>1, <2>2
<1> HIDE DEF v
<1> QED BY <1>1, <1>2, <1>4, <1>5

\* The maps have what one of the first k MWCs says of tag t, if any does.
HasTag(maps, list, t, k) ==
    \/ /\ t \notin DOMAIN maps.tagToRevision
       /\ \A j \in 1 .. k : ~IsOfTag(list[j], t)
    \/ /\ t \in DOMAIN maps.tagToRevision \cap DOMAIN maps.lastModifiedByTag
       /\ \E j \in 1 .. k : /\ IsOfTag(list[j], t)
                            /\ maps.tagToRevision[t] = list[j].rev
                            /\ maps.lastModifiedByTag[t] = getLastModified(list[j])

\* FetchTagToRevisionAndLastModified finds every tag.
LEMMA TagsFound ==
    ASSUME NEW list \in Seq(MWCs), NEW t, t # Unset
    PROVE  HasTag(FetchTagToRevisionAndLastModified(list), list, t, Len(list))
<1> DEFINE n == Len(list)
<1>1. n \in Nat /\ \A i \in 1 .. n : list[i] \in MWCs
  BY LenProperties, ElementOfSeq
<1>2. PICK v : /\ v[0] = NoTags
               /\ \A k \in Nat : k < n => v[k + 1] = AddTag(v[k], list[k + 1])
               /\ FetchTagToRevisionAndLastModified(list) = v[n]
  BY TagsRun
<1> DEFINE R(k) == HasTag(v[k], list, t, k)
           T    == {k \in Nat : k <= n => R(k)}
<1>3. R(0)
  <2>1. t \notin DOMAIN v[0].tagToRevision
    <3>1. v[0].tagToRevision = NoMap
      BY <1>2 DEF NoTags
    <3>2. DOMAIN NoMap = {}
      BY DEF NoMap
    <3> QED BY <3>1, <3>2
  <2> QED BY <2>1 DEF HasTag
<1>4. ASSUME NEW k \in Nat, k < n, R(k) PROVE R(k + 1)
  <2> DEFINE mwc  == list[k + 1]
             revs == v[k].tagToRevision
             mods == v[k].lastModifiedByTag
             time == getLastModified(mwc)
  <2>1. v[k + 1] = AddTag(v[k], mwc)
    BY <1>2, <1>4
  <2>2. k + 1 \in 1 .. k + 1 /\ \A j \in 1 .. k + 1 : j \in 1 .. k \/ j = k + 1
    OBVIOUS
  <2>3. 1 .. k \subseteq 1 .. k + 1
    OBVIOUS
  <2>4. CASE ~(mwc.tagMWC /\ mwc.tag # Unset /\ mwc.rev # Unset)
    <3>1. v[k + 1] = v[k] /\ ~IsOfTag(mwc, t)
      BY <2>1, <2>4 DEF AddTag, IsOfTag
    <3> QED BY <1>4, <2>2, <2>3, <3>1 DEF HasTag
  <2>5. CASE mwc.tagMWC /\ mwc.tag # Unset /\ mwc.rev # Unset
    <3>1. /\ v[k + 1].tagToRevision = Assign(revs, mwc.tag, mwc.rev)
          /\ v[k + 1].lastModifiedByTag = Assign(mods, mwc.tag, time)
      BY <2>1, <2>5 DEF AddTag
    <3>2. CASE mwc.tag = t
      <4>1. IsOfTag(mwc, t)
        BY <2>5, <3>2 DEF IsOfTag
      <4>2. /\ t \in DOMAIN v[k + 1].tagToRevision \cap DOMAIN v[k + 1].lastModifiedByTag
            /\ v[k + 1].tagToRevision[t] = mwc.rev /\ v[k + 1].lastModifiedByTag[t] = time
        BY <3>1, <3>2 DEF Assign
      <4> QED BY <2>2, <4>1, <4>2 DEF HasTag
    <3>3. CASE mwc.tag # t
      <4>1. ~IsOfTag(mwc, t)
        BY <3>3 DEF IsOfTag
      <4>2. /\ t \in DOMAIN v[k + 1].tagToRevision <=> t \in DOMAIN revs
            /\ t \in DOMAIN v[k + 1].lastModifiedByTag <=> t \in DOMAIN mods
            /\ t \in DOMAIN revs => v[k + 1].tagToRevision[t] = revs[t]
            /\ t \in DOMAIN mods => v[k + 1].lastModifiedByTag[t] = mods[t]
        BY <3>1, <3>3 DEF Assign
      <4> QED BY <1>4, <2>2, <2>3, <4>1, <4>2 DEF HasTag
    <3> QED BY <3>2, <3>3
  <2> QED BY <2>4, <2>5
<1>5. n \in T
  <2> HIDE DEF R
  <2>1. 0 \in T /\ \A k \in Nat : k < n /\ k \in T => k + 1 \in T
    BY <1>1, <1>3, <1>4
  <2> HIDE DEF T
  <2> QED BY <1>1, <2>1, Climb
<1>6. R(n)
  <2> HIDE DEF R
  <2> QED BY <1>1, <1>5
<1> QED BY <1>2, <1>6

-----------------------------------------------------------------------------
(* parseSkipNamespaces.                                                    *)

Chars == STRING \cup {Comma}
Parts == {p \in Seq(Seq(Chars)) : Len(p) > 0}

\* strings.Split gets from the parts a to the parts b with the characters s.
Runs(a, s, b) ==
    \E w : /\ w[0] = a /\ w[Len(s)] = b
           /\ \A k \in Nat : k < Len(s) => w[k + 1] = AddChar(w[k], s[k + 1])

\* One character more: a comma begins a part, any other one goes to the last.
LEMMA CharAdded ==
    ASSUME NEW p \in Seq(Seq(Chars)), NEW u \in Seq(Chars), NEW c \in Chars
    PROVE  /\ AddChar(p, Comma) = Append(p, << >>)
           /\ c # Comma => AddChar(Append(p, u), c) = Append(p, Append(u, c))
<1>1. AddChar(p, Comma) = Append(p, << >>)
  BY DEF AddChar
<1>2. ASSUME c # Comma PROVE AddChar(Append(p, u), c) = Append(p, Append(u, c))
  <2> DEFINE q == Append(p, u)
             r == Append(p, Append(u, c))
             d == [q EXCEPT ![Len(q)] = Append(@, c)]
  <2>1. Append(u, c) \in Seq(Chars) /\ Len(p) \in Nat
    BY LenProperties, AppendProperties
  <2>2. q \in Seq(Seq(Chars)) /\ Len(q) = Len(p) + 1 /\ q[Len(p) + 1] = u
        /\ \A i \in 1 .. Len(p) : q[i] = p[i]
    BY AppendProperties
  <2>3. r \in Seq(Seq(Chars)) /\ Len(r) = Len(p) + 1 /\ r[Len(p) + 1] = Append(u, c)
        /\ \A i \in 1 .. Len(p) : r[i] = p[i]
    BY <2>1, AppendProperties
  <2> HIDE DEF q, r
  <2>4. d \in Seq(Seq(Chars)) /\ Len(d) = Len(p) + 1
        /\ \A i \in 1 .. Len(p) + 1 : d[i] = IF i = Len(p) + 1 THEN Append(u, c) ELSE p[i]
    <3>1. Len(p) + 1 \in Nat /\ Len(p) + 1 > 0 /\ Append(q[Len(q)], c) \in Seq(Chars)
          /\ Append(q[Len(q)], c) = Append(u, c)
      BY <2>1, <2>2
    <3>2. d \in Seq(Seq(Chars)) /\ Len(d) = Len(q)
      BY <2>2, <3>1
    <3>3. \A i \in 1 .. Len(p) + 1 : i \in 1 .. Len(p) \/ i = Len(p) + 1
      BY <2>1
    <3>4. DOMAIN q = 1 .. Len(p) + 1
      BY <2>2, LenProperties
    <3>5. \A i \in 1 .. Len(p) + 1 :
             d[i] = IF i = Len(q) THEN Append(q[Len(q)], c) ELSE q[i]
      BY <3>4
    <3> HIDE DEF d
    <3> QED BY <2>2, <3>1, <3>2, <3>3, <3>5
  <2> HIDE DEF d
  <2>5. \A i \in 1 .. Len(p) + 1 : i \in 1 .. Len(p) \/ i = Len(p) + 1
    BY <2>1
  <2>6. \A i \in 1 .. Len(d) : d[i] = r[i]
    BY <2>1, <2>3, <2>4, <2>5
  <2>7. d = r
    BY <2>3, <2>4, <2>6, SeqEqual
  <2> QED BY <1>2, <2>7 DEF AddChar, d, q, r
<1> QED BY <1>1, <1>2

\* There is always a part that a character can go to.
LEMMA PartsKept ==
    ASSUME NEW p \in Parts, NEW c \in Chars
    PROVE  AddChar(p, c) \in Parts
<1>0. p \in Seq(Seq(Chars)) /\ Len(p) \in Nat /\ Len(p) > 0 /\ << >> \in Seq(Chars)
  BY LenProperties, EmptySeq DEF Parts
<1>1. CASE c = Comma
  <2>1. AddChar(p, c) = Append(p, << >>)
    BY <1>1 DEF AddChar
  <2>2. Append(p, << >>) \in Seq(Seq(Chars)) /\ Len(Append(p, << >>)) = Len(p) + 1
    BY <1>0, AppendProperties
  <2> QED BY <1>0, <2>1, <2>2 DEF Parts
<1>2. CASE c # Comma
  <2> DEFINE d == [p EXCEPT ![Len(p)] = Append(@, c)]
  <2>1. p[Len(p)] \in Seq(Chars)
    BY <1>0, ElementOfSeq
  <2>2. Append(p[Len(p)], c) \in Seq(Chars)
    BY <2>1, AppendProperties
  <2>3. d \in Seq(Seq(Chars)) /\ Len(d) = Len(p)
    BY <1>0, <2>2
  <2>4. AddChar(p, c) = d
    BY <1>2 DEF AddChar
  <2> QED BY <1>0, <2>3, <2>4 DEF Parts
<1> QED BY <1>1, <1>2

\* strings.Split goes through the characters one by one.
LEMMA SplitRuns ==
    ASSUME NEW list \in Seq(Chars)
    PROVE  Runs(<< << >> >>, list, Split(list))
<1> DEFINE n     == Len(list)
           Eq(f) == f = [s \in SUBSET DOMAIN list |->
                           IF s = {} THEN << << >> >>
                           ELSE AddChar(f[s \ {Max(s)}], list[Max(s)])]
           it    == CHOOSE f : Eq(f)
           step  == [p \in (1 .. n) \X Parts |-> AddChar(p[2], list[p[1]])]
<1>1. n \in Nat /\ DOMAIN list = 1 .. n /\ \A i \in 1 .. n : list[i] \in Chars
  BY LenProperties, ElementOfSeq
<1>2. Split(list) = it[DOMAIN list]
  BY DEF Split, FoldLeft, MapThenFoldSet
<1>3. Eq(it)
  <2>0. << << >> >> \in Parts
    BY DEF Parts
  <2>1. step \in [(1 .. n) \X Parts -> Parts]
    BY <1>1, PartsKept
  <2>2. \A i \in 1 .. n, x \in Parts : step[<< i, x >>] = AddChar(x, list[i])
    OBVIOUS
  <2> HIDE DEF step
  <2>3. PICK g \in [SUBSET (1 .. n) -> Parts] : IsFold(g, n, << << >> >>, step)
    BY <1>1, <2>0, <2>1, FoldExists
  <2>4. ASSUME NEW s \in SUBSET (1 .. n), s # {}
        PROVE  g[s] = AddChar(g[s \ {Max(s)}], list[Max(s)])
    <3>1. Max(s) \in 1 .. n /\ g[s \ {Max(s)}] \in Parts
      BY <1>1, <2>3, <2>4, MaxInRange
    <3>2. g[s] = step[<< Max(s), g[s \ {Max(s)}] >>]
      BY <2>3, <2>4 DEF IsFold
    <3> QED BY <2>2, <3>1, <3>2
  <2>5. g[{}] = << << >> >>
    BY <2>3 DEF IsFold
  <2>6. Eq(g)
    BY <1>1, <2>3, <2>4, <2>5
  <2> HIDE DEF Eq
  <2> QED BY <2>6
<1> HIDE DEF it
<1> DEFINE v == [k \in 0 .. n |-> it[1 .. k]]
<1>4. v[0] = << << >> >> /\ v[n] = it[1 .. n]
  BY <1>1, <1>3
<1>5. ASSUME NEW k \in Nat, k < n PROVE v[k + 1] = AddChar(v[k], list[k + 1])
  <2>1. /\ v[k + 1] = it[1 .. k + 1] /\ v[k] = it[1 .. k]
        /\ 1 .. k + 1 \in SUBSET DOMAIN list
    BY <1>1, <1>5
  <2>2. it[1 .. k + 1] = AddChar(it[1 .. k], list[k + 1])
    <3>1. \A s \in SUBSET DOMAIN list :
             s # {} => it[s] = AddChar(it[s \ {Max(s)}], list[Max(s)])
      BY <1>3
    <3> QED BY <2>1, <3>1, OneMore
  <2> HIDE DEF v
  <2> QED BY <2>1, <2>2
<1> HIDE DEF v
<1> QED BY <1>1, <1>2, <1>4, <1>5 DEF Runs

\* The characters determine the parts.
LEMMA RunsOnce ==
    ASSUME NEW s \in Seq(Chars), NEW a, NEW b, NEW c, Runs(a, s, b), Runs(a, s, c)
    PROVE  b = c
<1>0. Len(s) \in Nat
  BY LenProperties
<1>1. PICK v : /\ v[0] = a /\ v[Len(s)] = b
               /\ \A k \in Nat : k < Len(s) => v[k + 1] = AddChar(v[k], s[k + 1])
  BY DEF Runs
<1>2. PICK w : /\ w[0] = a /\ w[Len(s)] = c
               /\ \A k \in Nat : k < Len(s) => w[k + 1] = AddChar(w[k], s[k + 1])
  BY DEF Runs
<1> DEFINE T == {k \in Nat : v[k] = w[k]}
<1>3. 0 \in T /\ \A k \in Nat : k < Len(s) /\ k \in T => k + 1 \in T
  BY <1>1, <1>2
<1>4. Len(s) \in T
  <2> HIDE DEF T
  <2> QED BY <1>0, <1>3, Climb
<1> QED BY <1>1, <1>2, <1>4

\* One string after the other.
LEMMA RunsOn ==
    ASSUME NEW s \in Seq(Chars), NEW t \in Seq(Chars), NEW a, NEW b, NEW c,
           Runs(a, s, b), Runs(b, t, c)
    PROVE  Runs(a, s \o t, c)
<1> DEFINE m == Len(s)
           n == Len(t)
           z == s \o t
<1>0. m \in Nat /\ n \in Nat
  BY LenProperties
<1>1. PICK v : /\ v[0] = a /\ v[m] = b
               /\ \A k \in Nat : k < m => v[k + 1] = AddChar(v[k], s[k + 1])
  BY DEF Runs
<1>2. PICK w : /\ w[0] = b /\ w[n] = c
               /\ \A k \in Nat : k < n => w[k + 1] = AddChar(w[k], t[k + 1])
  BY DEF Runs
<1>3. /\ z \in Seq(Chars) /\ Len(z) = m + n
      /\ \A i \in 1 .. m + n : z[i] = IF i <= m THEN s[i] ELSE t[i - m]
  BY ConcatProperties
<1> HIDE DEF m, n, z
<1> DEFINE u == [k \in 0 .. m + n |-> IF k <= m THEN v[k] ELSE w[k - m]]
<1>4. u[0] = a /\ u[m + n] = c
  <2>1. u[0] = v[0]
    BY <1>0
  <2>2. n = 0 => u[m + n] = v[m] /\ w[n] = w[0]
    BY <1>0
  <2>3. n # 0 => u[m + n] = w[n]
    <3>1. n # 0 => ~(m + n <= m) /\ (m + n) - m = n /\ m + n \in 0 .. m + n
      BY <1>0
    <3> QED BY <3>1
  <2> QED BY <1>1, <1>2, <2>1, <2>2, <2>3
<1>5. ASSUME NEW k \in Nat, k < m + n PROVE u[k + 1] = AddChar(u[k], z[k + 1])
  <2>1. CASE k < m
    <3>1. u[k + 1] = v[k + 1] /\ u[k] = v[k] /\ z[k + 1] = s[k + 1]
      BY <1>0, <1>3, <2>1
    <3> QED BY <1>1, <2>1, <3>1
  <2>2. CASE ~(k < m)
    <3> DEFINE j == k - m
    <3>1. j \in Nat /\ j < n /\ (k + 1) - m = j + 1
      BY <1>0, <1>5, <2>2
    <3>2. u[k + 1] = w[j + 1] /\ z[k + 1] = t[j + 1]
      <4>1. k + 1 \in 0 .. m + n /\ k + 1 \in 1 .. m + n /\ ~(k + 1 <= m)
        BY <1>0, <1>5, <2>2
      <4> QED BY <1>3, <3>1, <4>1
    <3>3. u[k] = w[j]
      <4>1. CASE k = m
        <5>1. u[k] = v[m] /\ j = 0
          BY <1>0, <4>1
        <5> QED BY <1>1, <1>2, <5>1
      <4>2. CASE k # m
        BY <1>0, <1>5, <2>2, <4>2
      <4> QED BY <4>1, <4>2
    <3> HIDE DEF j, u
    <3> QED BY <1>2, <3>1, <3>2, <3>3
  <2> QED BY <2>1, <2>2
<1> HIDE DEF u
<1> QED BY <1>3, <1>4, <1>5 DEF Runs, z

\* A comma begins a part.
LEMMA RunsComma ==
    ASSUME NEW p \in Seq(Seq(Chars))
    PROVE  Runs(p, << Comma >>, Append(p, << >>))
<1> DEFINE w == [k \in 0 .. 1 |-> IF k = 0 THEN p ELSE AddChar(p, Comma)]
<1>1. w[0] = p /\ w[1] = AddChar(p, Comma) /\ Len(<< Comma >>) = 1 /\ << Comma >>[1] = Comma
  OBVIOUS
<1>2. AddChar(p, Comma) = Append(p, << >>)
  BY DEF AddChar
<1>3. \A k \in Nat : k < 1 => k = 0
  OBVIOUS
<1> HIDE DEF w
<1>4. \A k \in Nat : k < 1 => w[k + 1] = AddChar(w[k], << Comma >>[k + 1])
  BY <1>1, <1>3
<1> QED BY <1>1, <1>2, <1>4 DEF Runs

\* The characters of an entry become the part that was begun.
LEMMA RunsEntry ==
    ASSUME NEW p \in Seq(Seq(Chars)), NEW e \in Seq(Chars), \A i \in 1 .. Len(e) : e[i] # Comma
    PROVE  Runs(Append(p, << >>), e, Append(p, e))
<1> DEFINE n == Len(e)
           u(i) == SubSeq(e, 1, i)
           w == [i \in 0 .. n |-> Append(p, u(i))]
<1>1. n \in Nat /\ \A i \in 1 .. n : e[i] \in Chars
  BY LenProperties, ElementOfSeq
<1>2. \A i \in 0 .. n : /\ u(i) \in Seq(Chars) /\ Len(u(i)) = i
                        /\ \A j \in 1 .. i : u(i)[j] = e[j]
  BY <1>1
<1>3. u(0) = << >>
  BY <1>1, <1>2, EmptySeq
<1>4. u(n) = e
  BY <1>1, <1>2, SeqEqual
<1>5. ASSUME NEW i \in Nat, i < n PROVE u(i + 1) = Append(u(i), e[i + 1])
  <2> DEFINE a == Append(u(i), e[i + 1])
             b == u(i + 1)
  <2>1. i \in 0 .. n /\ i + 1 \in 0 .. n /\ e[i + 1] \in Chars
    BY <1>1, <1>5
  <2> HIDE DEF u
  <2>2. a \in Seq(Chars) /\ Len(a) = i + 1 /\ a[i + 1] = e[i + 1]
        /\ \A j \in 1 .. i : a[j] = e[j]
    BY <1>2, <2>1, AppendProperties
  <2>3. b \in Seq(Chars) /\ Len(b) = i + 1 /\ \A j \in 1 .. i + 1 : b[j] = e[j]
    BY <1>2, <2>1
  <2> HIDE DEF a, b
  <2>4. \A j \in 1 .. i + 1 : j \in 1 .. i \/ j = i + 1
    OBVIOUS
  <2>5. a = b
    BY <2>2, <2>3, <2>4, SeqEqual
  <2> QED BY <2>5 DEF a, b
<1> HIDE DEF u
<1>6. ASSUME NEW i \in Nat, i < n PROVE w[i + 1] = AddChar(w[i], e[i + 1])
  <2>1. w[i + 1] = Append(p, u(i + 1)) /\ w[i] = Append(p, u(i))
    BY <1>1, <1>6
  <2>2. u(i) \in Seq(Chars) /\ e[i + 1] \in Chars /\ e[i + 1] # Comma
    BY <1>1, <1>2, <1>6
  <2> HIDE DEF w
  <2> QED BY <1>5, <1>6, <2>1, <2>2, CharAdded
<1>7. w[0] = Append(p, << >>) /\ w[n] = Append(p, e)
  BY <1>1, <1>3, <1>4
<1> HIDE DEF w
<1> QED BY <1>6, <1>7 DEF Runs

\* An entry is made of characters, none of which is a comma.
LEMMA EntryChars ==
    ASSUME NEW e \in SkipEntries
    PROVE  e \in Seq(Chars) /\ \A i \in 1 .. Len(e) : e[i] # Comma
<1>1. e \in Seq(STRING) /\ \A i \in DOMAIN e : e[i] # Comma
  BY EntryAssumption
<1>2. DOMAIN e = 1 .. Len(e) /\ \A i \in 1 .. Len(e) : e[i] \in Chars
  BY <1>1, LenProperties, ElementOfSeq DEF Chars
<1> QED BY <1>1, <1>2

\* An entry is written behind a comma.
LEMMA EntryWritten ==
    ASSUME NEW s \in Seq(Chars), NEW e \in Seq(Chars)
    PROVE  WriteEntry(s, e) \in Seq(Chars)
<1>1. << Comma >> \in Seq(Chars)
  BY OneToken DEF Chars
<1>2. s \o << Comma >> \in Seq(Chars)
  BY <1>1, ConcatProperties
<1> QED BY <1>2, ConcatProperties DEF WriteEntry

\* The entries are written one by one.
LEMMA EntriesWritten ==
    ASSUME NEW list \in Seq(SkipEntries)
    PROVE  \E v : /\ v[0] = << >>
                  /\ \A k \in Nat : k < Len(list) => v[k + 1] = WriteEntry(v[k], list[k + 1])
                  /\ Joined(list) = Tail(v[Len(list)])
<1> DEFINE n     == Len(list)
           X     == Seq(Chars)
           Eq(f) == f = [s \in SUBSET DOMAIN list |->
                           IF s = {} THEN << >>
                           ELSE WriteEntry(f[s \ {Max(s)}], list[Max(s)])]
           it    == CHOOSE f : Eq(f)
           step  == [p \in (1 .. n) \X X |-> WriteEntry(p[2], list[p[1]])]
<1>1. n \in Nat /\ DOMAIN list = 1 .. n /\ \A i \in 1 .. n : list[i] \in X
  BY EntryChars, LenProperties, ElementOfSeq
<1>2. Joined(list) = Tail(it[DOMAIN list])
  BY DEF Joined, FoldLeft, MapThenFoldSet
<1>3. Eq(it)
  <2>0. << >> \in X
    BY EmptySeq
  <2>1. step \in [(1 .. n) \X X -> X]
    BY <1>1, EntryWritten
  <2>2. \A i \in 1 .. n, x \in X : step[<< i, x >>] = WriteEntry(x, list[i])
    OBVIOUS
  <2> HIDE DEF step
  <2>3. PICK g \in [SUBSET (1 .. n) -> X] : IsFold(g, n, << >>, step)
    BY <1>1, <2>0, <2>1, FoldExists
  <2>4. ASSUME NEW s \in SUBSET (1 .. n), s # {}
        PROVE  g[s] = WriteEntry(g[s \ {Max(s)}], list[Max(s)])
    <3>1. Max(s) \in 1 .. n /\ g[s \ {Max(s)}] \in X
      BY <1>1, <2>3, <2>4, MaxInRange
    <3>2. g[s] = step[<< Max(s), g[s \ {Max(s)}] >>]
      BY <2>3, <2>4 DEF IsFold
    <3> QED BY <2>2, <3>1, <3>2
  <2>5. g[{}] = << >>
    BY <2>3 DEF IsFold
  <2>6. Eq(g)
    BY <1>1, <2>3, <2>4, <2>5
  <2> HIDE DEF Eq
  <2> QED BY <2>6
<1> HIDE DEF it
<1> DEFINE v == [k \in 0 .. n |-> it[1 .. k]]
<1>4. v[0] = << >> /\ v[n] = it[1 .. n]
  BY <1>1, <1>3
<1>5. ASSUME NEW k \in Nat, k < n PROVE v[k + 1] = WriteEntry(v[k], list[k + 1])
  <2>1. /\ v[k + 1] = it[1 .. k + 1] /\ v[k] = it[1 .. k]
        /\ 1 .. k + 1 \in SUBSET DOMAIN list
    BY <1>1, <1>5
  <2>2. it[1 .. k + 1] = WriteEntry(it[1 .. k], list[k + 1])
    <3>1. \A s \in SUBSET DOMAIN list :
             s # {} => it[s] = WriteEntry(it[s \ {Max(s)}], list[Max(s)])
      BY <1>3
    <3> QED BY <2>1, <3>1, OneMore
  <2> HIDE DEF v
  <2> QED BY <2>1, <2>2
<1> HIDE DEF v
<1> QED BY <1>1, <1>2, <1>4, <1>5

\* strings.Split takes apart what was joined.
LEMMA SplitJoined ==
    ASSUME NEW list \in Seq(SkipEntries), Len(list) > 0
    PROVE  Split(Joined(list)) = list
<1> DEFINE n    == Len(list)
           u(k) == SubSeq(list, 1, k)
<1>1. /\ n \in Nat /\ DOMAIN list = 1 .. n
      /\ \A i \in 1 .. n : /\ list[i] \in Seq(Chars)
                            /\ \A j \in 1 .. Len(list[i]) : list[i][j] # Comma
  BY EntryChars, LenProperties, ElementOfSeq
<1>2. list \in Seq(Seq(Chars))
  BY <1>1
<1>3. PICK v : /\ v[0] = << >>
               /\ \A k \in Nat : k < n => v[k + 1] = WriteEntry(v[k], list[k + 1])
               /\ Joined(list) = Tail(v[n])
  BY EntriesWritten
<1>4. \A k \in 0 .. n : /\ u(k) \in Seq(Seq(Chars)) /\ Len(u(k)) = k
                        /\ \A j \in 1 .. k : u(k)[j] = list[j]
  BY <1>1, <1>2
<1>5. u(0) = << >> /\ u(n) = list
  BY <1>1, <1>2, <1>4, EmptySeq, SeqEqual
<1> HIDE DEF u
<1>6. ASSUME NEW k \in Nat, k < n PROVE Append(u(k), list[k + 1]) = u(k + 1)
  <2> DEFINE a == Append(u(k), list[k + 1])
             b == u(k + 1)
  <2>1. k \in 0 .. n /\ k + 1 \in 0 .. n /\ list[k + 1] \in Seq(Chars)
    BY <1>1, <1>6
  <2>2. a \in Seq(Seq(Chars)) /\ Len(a) = k + 1 /\ a[k + 1] = list[k + 1]
        /\ \A j \in 1 .. k : a[j] = list[j]
    BY <1>4, <2>1, AppendProperties
  <2>3. b \in Seq(Seq(Chars)) /\ Len(b) = k + 1 /\ \A j \in 1 .. k + 1 : b[j] = list[j]
    BY <1>4, <2>1
  <2> HIDE DEF a, b
  <2>4. \A j \in 1 .. k + 1 : j \in 1 .. k \/ j = k + 1
    OBVIOUS
  <2>5. a = b
    BY <2>2, <2>3, <2>4, SeqEqual
  <2> QED BY <2>5 DEF a, b
<1> DEFINE R(k) == /\ v[k] \in Seq(Chars) /\ Runs(<< >>, v[k], u(k))
                   /\ k # 0 => Len(v[k]) > 0 /\ v[k][1] = Comma
           T    == {k \in Nat : k <= n => R(k)}
<1>7. R(0)
  <2>1. Runs(<< >>, << >>, << >>)
    <3> DEFINE w == [k \in {0} |-> << >>]
    <3>1. w[0] = << >> /\ Len(<< >>) = 0 /\ \A k \in Nat : ~(k < 0)
      OBVIOUS
    <3> HIDE DEF w
    <3> QED BY <3>1 DEF Runs
  <2> QED BY <1>3, <1>5, <2>1, EmptySeq
<1>8. ASSUME NEW k \in Nat, k < n, R(k) PROVE R(k + 1)
  <2> DEFINE e == list[k + 1]
             c == << Comma >>
             s == v[k] \o c
  <2>1. /\ e \in Seq(Chars) /\ u(k) \in Seq(Seq(Chars)) /\ v[k] \in Seq(Chars)
        /\ \A j \in 1 .. Len(e) : e[j] # Comma
    BY <1>1, <1>4, <1>8
  <2>2. c \in Seq(Chars) /\ Len(c) = 1 /\ c[1] = Comma
    BY OneToken DEF Chars
  <2>3. v[k + 1] = s \o e
    BY <1>3, <1>8 DEF WriteEntry
  <2>4. s \in Seq(Chars) /\ s \o e \in Seq(Chars)
    BY <2>1, <2>2, ConcatProperties
  <2>5. Runs(<< >>, s, Append(u(k), << >>))
    BY <1>8, <2>1, <2>2, RunsComma, RunsOn
  <2>6. Runs(<< >>, s \o e, Append(u(k), e))
    BY <2>1, <2>4, <2>5, RunsEntry, RunsOn
  <2>7. Len(s \o e) > 0 /\ (s \o e)[1] = Comma
    <3>1. /\ Len(s) = Len(v[k]) + 1 /\ Len(s \o e) = Len(s) + Len(e)
          /\ Len(v[k]) \in Nat /\ Len(e) \in Nat
      BY <2>1, <2>2, <2>4, ConcatProperties, LenProperties
    <3>2. /\ Len(s \o e) > 0 /\ 1 <= Len(s)
          /\ 1 \in 1 .. Len(s) + Len(e) /\ 1 \in 1 .. Len(v[k]) + 1
      <4> HIDE DEF s, e
      <4>1. Len(s) \in Nat /\ Len(s) > 0
        BY <3>1
      <4> QED BY <3>1, <4>1
    <3>3. (s \o e)[1] = s[1]
      <4> HIDE DEF s, e
      <4> QED BY <2>1, <2>4, <3>2, ConcatProperties
    <3>4. CASE k = 0
      <4>1. Len(v[k]) = 0
        BY <1>3, <3>4
      <4>2. ~(1 <= Len(v[k])) /\ 1 - Len(v[k]) = 1
        BY <4>1
      <4>3. s[1] = c[1]
        BY <2>1, <2>2, <3>2, <4>2, ConcatProperties
      <4> QED BY <2>2, <3>2, <3>3, <4>3
    <3>5. CASE k # 0
      <4>1. Len(v[k]) > 0 /\ v[k][1] = Comma
        BY <1>8, <3>5
      <4>2. 1 <= Len(v[k])
        BY <3>1, <4>1
      <4>3. s[1] = v[k][1]
        BY <2>1, <2>2, <3>2, <4>2, ConcatProperties
      <4> QED BY <3>2, <3>3, <4>1, <4>3
    <3> QED BY <3>4, <3>5
  <2> QED BY <1>6, <1>8, <2>3, <2>4, <2>6, <2>7
<1>9. R(n)
  <2> HIDE DEF R
  <2>1. 0 \in T /\ \A k \in Nat : k < n /\ k \in T => k + 1 \in T
    BY <1>1, <1>7, <1>8
  <2>2. n \in T
    <3> HIDE DEF T
    <3> QED BY <1>1, <2>1, Climb
  <2> QED BY <1>1, <2>2
<1>10. Runs(<< << >> >>, Tail(v[n]), list)
  <2> DEFINE z == v[n]
             t == Tail(z)
  <2>1. z \in Seq(Chars) /\ Len(z) \in Nat /\ Len(z) > 0 /\ z[1] = Comma
    BY <1>1, <1>9, LenProperties
  <2>2. t \in Seq(Chars) /\ Len(t) = Len(z) - 1 /\ \A i \in 1 .. Len(t) : t[i] = z[i + 1]
    BY <2>1
  <2> HIDE DEF z, t
  <2>3. PICK w : /\ w[0] = << >> /\ w[Len(z)] = list
                 /\ \A k \in Nat : k < Len(z) => w[k + 1] = AddChar(w[k], z[k + 1])
    BY <1>5, <1>9 DEF Runs, z
  <2>4. w[1] = << << >> >>
    <3>1. w[0 + 1] = AddChar(<< >>, z[0 + 1])
      BY <2>1, <2>3
    <3>2. w[1] = AddChar(<< >>, Comma)
      BY <2>1, <3>1
    <3> QED BY <3>2 DEF AddChar
  <2> DEFINE x == [k \in 0 .. Len(t) |-> w[k + 1]]
  <2>5. x[0] = << << >> >> /\ x[Len(t)] = list
    <3>1. Len(t) \in Nat /\ Len(t) + 1 = Len(z)
      BY <2>1, <2>2
    <3>2. x[0] = w[0 + 1] /\ x[Len(t)] = w[Len(t) + 1]
      BY <3>1
    <3> QED BY <2>3, <2>4, <3>1, <3>2
  <2>6. ASSUME NEW k \in Nat, k < Len(t) PROVE x[k + 1] = AddChar(x[k], t[k + 1])
    <3>1. /\ x[k + 1] = w[(k + 1) + 1] /\ x[k] = w[k + 1] /\ t[k + 1] = z[(k + 1) + 1]
          /\ k + 1 \in Nat /\ k + 1 < Len(z)
      BY <2>1, <2>2, <2>6
    <3> HIDE DEF x
    <3> QED BY <2>3, <3>1
  <2> HIDE DEF x
  <2> QED BY <2>5, <2>6 DEF Runs, t, z
<1>11. Tail(v[n]) \in Seq(Chars)
  BY <1>1, <1>9
<1> QED BY <1>3, <1>10, <1>11, SplitRuns, RunsOnce

\* strings.TrimSpace leaves the name.
LEMMA Trimmed ==
    ASSUME NEW e \in SkipEntries
    PROVE  TrimSpace(e) = Meant(e)
<1> DEFINE words == {i \in DOMAIN e : e[i] # Blank}
<1>1. e \in Seq(Chars) /\ DOMAIN e = 1 .. Len(e) /\ \A i, j \in words : i = j
  BY EntryChars, EntryAssumption, LenProperties
<1>2. CASE words = {}
  <2>1. TrimSpace(e) = << >> /\ \A i \in DOMAIN e : e[i] = Blank
    BY <1>2 DEF TrimSpace
  <2> QED BY <2>1 DEF Meant
<1>3. CASE words # {}
  <2>1. PICK k \in words : words = {k}
    BY <1>1, <1>3
  <2>2. k \in DOMAIN e /\ k \in 1 .. Len(e) /\ e[k] # Blank /\ k \in Nat /\ Len(e) \in Nat
    BY <1>1, <2>1, LenProperties
  <2>3. /\ (CHOOSE i \in words : \A j \in words : i <= j) = k
        /\ (CHOOSE i \in words : \A j \in words : i >= j) = k
    <3> HIDE DEF words
    <3>1. k <= k /\ k >= k
      BY <2>2
    <3> QED BY <2>1, <3>1
  <2>4. (CHOOSE i \in DOMAIN e : e[i] # Blank) = k
    <3>1. \A i \in DOMAIN e : e[i] # Blank => i = k
      BY <2>1
    <3> QED BY <2>2, <3>1
  <2>5. TrimSpace(e) = SubSeq(e, k, k)
    BY <1>3, <2>3 DEF TrimSpace
  <2>6. Meant(e) = << e[k] >>
    BY <2>2, <2>4 DEF Meant
  <2>7. SubSeq(e, k, k) = << e[k] >>
    <3> DEFINE a == SubSeq(e, k, k)
               b == << e[k] >>
    <3>1. e[k] \in Chars
      BY <1>1, <2>2, ElementOfSeq
    <3>2. a \in Seq(Chars) /\ Len(a) = 1 /\ a[1] = e[k]
      BY <1>1, <2>2, <3>1
    <3>3. b \in Seq(Chars) /\ Len(b) = 1 /\ b[1] = e[k]
      BY <3>1
    <3> HIDE DEF a, b
    <3>4. a = b
      BY <3>2, <3>3, SeqEqual
    <3> QED BY <3>4 DEF a, b
  <2> QED BY <2>5, <2>6, <2>7
<1> QED BY <1>2, <1>3

-----------------------------------------------------------------------------
\* A list has an element from the start.
LEMMA ListBegun == Spec => [](input.what = "skip" => Len(input.list) > 0)
<1> DEFINE Begun == input.what = "skip" => Len(input.list) > 0
<1>1. Init => Begun
  BY DEF Init, Nothing
<1>2. InputOK /\ Begun /\ [Next]_input => Begun'
  <2> SUFFICES ASSUME InputOK, Begun, [Next]_input PROVE Begun'
    OBVIOUS
  <2>1. CASE \E c \in Refs, e \in Refs :
               input' = [what |-> "images", current |-> c, expected |-> e]
    BY <2>1
  <2>2. CASE Grow("configMaps", ConfigMaps)
    <3>1. input.what = "configMaps" => input.list \in Seq(ConfigMaps)
      BY DEF InputOK, Inputs
    <3>2. [what : {"configMaps"}, list : Seq(ConfigMaps)] \subseteq Inputs
      BY DEF Inputs
    <3>3. input'.what = "configMaps"
      BY <2>2, <3>1, <3>2, GrowsInputs DEF InputOK
    <3> QED BY <3>3
  <2>3. CASE Grow("mwcs", MWCs)
    <3>1. input.what = "mwcs" => input.list \in Seq(MWCs)
      BY DEF InputOK, Inputs
    <3>2. [what : {"mwcs"}, list : Seq(MWCs)] \subseteq Inputs
      BY DEF Inputs
    <3>3. input'.what = "mwcs"
      BY <2>3, <3>1, <3>2, GrowsInputs DEF InputOK
    <3> QED BY <3>3
  <2>4. CASE Grow("skip", SkipEntries)
    <3>1. input.what = "skip" => input.list \in Seq(SkipEntries)
      BY DEF InputOK, Inputs
    <3>2. [what : {"skip"}, list : Seq(SkipEntries)] \subseteq Inputs
      BY DEF Inputs
    <3> QED BY <2>4, <3>1, <3>2, GrowsInputs DEF InputOK
  <2>5. CASE input' = Nothing
    BY <2>5 DEF Nothing
  <2>6. CASE UNCHANGED input
    BY <2>6
  <2> QED BY <2>1, <2>2, <2>3, <2>4, <2>5, <2>6 DEF Next
<1> QED BY <1>1, <1>2, InputsKept, PTL DEF Spec

\* A revision has the latest time of all the ConfigMaps that name it, for
\* every list of ConfigMaps: BuildLastModifiedByRevision neither lets an
\* earlier time win nor is led astray by a ConfigMap that it cannot read.
THEOREM LatestTimesFound == Spec => []LatestOfEachRevision
<1>1. InputOK => LatestOfEachRevision
  <2> SUFFICES ASSUME InputOK, input.what = "configMaps", NEW rev \in NamedRevisions
               PROVE  LET times  == UNION {Times(input.list[i]) :
                                      i \in {j \in DOMAIN input.list :
                                                IsOfRevision(input.list[j], rev)}}
                          result == BuildLastModifiedByRevision(input.list)
                      IN  IF rev \in DOMAIN result
                          THEN result[rev] \in times /\ \A t \in times : t <= result[rev]
                          ELSE times = {}
    BY DEF LatestOfEachRevision
  <2>1. input.list \in Seq(ConfigMaps)
    BY DEF InputOK, Inputs
  <2>2. DOMAIN input.list = 1 .. Len(input.list)
    BY <2>1, LenProperties
  <2> QED BY <2>1, <2>2, RevisionsFound DEF HasLatest, TimesOf
<1> QED BY <1>1, InputsKept, PTL

\* For every list of MWCs, every tag is found, and its revision and its time
\* are those of one and the same MWC
\* (FetchTagToRevisionAndLastModified).
THEOREM TagsOfOneMWC == Spec => []RevisionAndTimeOfOneMWC
<1>1. InputOK => RevisionAndTimeOfOneMWC
  <2> SUFFICES ASSUME InputOK, input.what = "mwcs", NEW t \in {m.tag : m \in MWCs} \ {Unset}
               PROVE  LET maps == FetchTagToRevisionAndLastModified(input.list)
                          of   == {j \in DOMAIN input.list :
                                     /\ input.list[j].tagMWC /\ input.list[j].tag = t
                                     /\ input.list[j].rev # Unset}
                      IN  IF of = {} THEN t \notin DOMAIN maps.tagToRevision
                          ELSE \E j \in of :
                                  /\ maps.tagToRevision[t] = input.list[j].rev
                                  /\ maps.lastModifiedByTag[t] \in Times(input.list[j])
                                  /\ \A u \in Times(input.list[j]) :
                                        u <= maps.lastModifiedByTag[t]
    BY DEF RevisionAndTimeOfOneMWC
  <2> DEFINE list == input.list
             maps == FetchTagToRevisionAndLastModified(list)
             of   == {j \in DOMAIN list : /\ list[j].tagMWC /\ list[j].tag = t
                                          /\ list[j].rev # Unset}
  <2>1. list \in Seq(MWCs)
    BY DEF InputOK, Inputs
  <2>2. DOMAIN list = 1 .. Len(list) /\ \A j \in DOMAIN list : list[j] \in MWCs
    BY <2>1, LenProperties, ElementOfSeq
  <2>3. HasTag(maps, list, t, Len(list))
    BY <2>1, TagsFound
  <2>4. \A j \in DOMAIN list : j \in of <=> IsOfTag(list[j], t)
    BY DEF IsOfTag
  <2>5. \A j \in DOMAIN list : /\ getLastModified(list[j]) \in Times(list[j])
                               /\ \A u \in Times(list[j]) : u <= getLastModified(list[j])
    BY <2>2, LatestTime, ObjectAssumption DEF getLastModified
  <2>6. CASE of = {}
    <3>1. t \notin DOMAIN maps.tagToRevision
      BY <2>2, <2>3, <2>4, <2>6 DEF HasTag
    <3> QED BY <2>6, <3>1
  <2>7. CASE of # {}
    <3>1. PICK j \in 1 .. Len(list) : /\ IsOfTag(list[j], t)
                                      /\ maps.tagToRevision[t] = list[j].rev
                                      /\ maps.lastModifiedByTag[t] = getLastModified(list[j])
      BY <2>2, <2>3, <2>4, <2>7 DEF HasTag
    <3>2. j \in of /\ j \in DOMAIN list
      BY <2>2, <2>4, <3>1
    <3>3. /\ maps.lastModifiedByTag[t] \in Times(list[j])
          /\ \A u \in Times(list[j]) : u <= maps.lastModifiedByTag[t]
      BY <2>5, <3>1, <3>2
    <3> HIDE DEF maps
    <3> QED BY <2>7, <3>1, <3>2, <3>3 DEF maps
  <2> QED BY <2>6, <2>7
<1> QED BY <1>1, InputsKept, PTL

\* For every list of entries, with commas between them, the namespaces are
\* those that the entries name, in their order: parseSkipNamespaces loses
\* none and makes up none.
THEOREM SkipListParsed == Spec => []SkipListIsRead
<1>1. InputOK /\ (input.what = "skip" => Len(input.list) > 0) => SkipListIsRead
  <2> SUFFICES ASSUME InputOK, input.what = "skip", Len(input.list) > 0
               PROVE  parseSkipNamespaces(Joined(input.list)) =
                        SelectSeq([i \in DOMAIN input.list |-> Meant(input.list[i])],
                                  LAMBDA p : p # << >>)
    BY DEF SkipListIsRead
  <2>1. input.list \in Seq(SkipEntries)
    BY DEF InputOK, Inputs
  <2>2. Split(Joined(input.list)) = input.list
    BY <2>1, SplitJoined
  <2>3. \A i \in DOMAIN input.list : TrimSpace(input.list[i]) = Meant(input.list[i])
    BY <2>1, LenProperties, ElementOfSeq, Trimmed
  <2>4. [i \in DOMAIN input.list |-> TrimSpace(input.list[i])] =
           [i \in DOMAIN input.list |-> Meant(input.list[i])]
    BY <2>3
  <2> QED BY <2>2, <2>4 DEF parseSkipNamespaces
<1> QED BY <1>1, InputsKept, ListBegun, PTL
=============================================================================
