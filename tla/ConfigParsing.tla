--------------------------- MODULE ConfigParsing ---------------------------
(***************************************************************************)
(* What fortsa makes of the objects and flags it reads, as functions: the  *)
(* revision and the modification time of the injector ConfigMaps           *)
(* (internal/configmap), the tags of the tag MWCs (internal/mwc) and the   *)
(* namespaces of --skip-namespaces (cmd).  Lists come in any order.        *)
(*                                                                         *)
(* A ConfigMap is a record of what is read from it: injector (its name has *)
(* the prefix), values ("json", "missing" or "broken"), the revision at    *)
(* the top level, under global and in the label, created and the times of  *)
(* its managedFields.  Unset and the time 0 stand for absence.             *)
(***************************************************************************)
EXTENDS Naturals, Sequences, SequencesExt

\* The empty string: what a field holds that is not there.
Unset == ""

\* The creation time, or a later time of one of the managedFields.
GetConfigMapLastModified(obj) ==
    FoldLeft(LAMBDA latest, t : IF t > latest THEN t ELSE latest, obj.created, obj.managed)

getLastModified(mwc) == GetConfigMapLastModified(mwc)

\* The revision of a ConfigMap; Unset stands for the error.
ParseConfigMapValues(cm) ==
    IF cm.values # "json" THEN Unset
    ELSE IF cm.top # Unset THEN cm.top
    ELSE IF cm.global # Unset THEN cm.global
    ELSE IF cm.label # Unset THEN cm.label
    ELSE "default"

\* Go's maps: an empty one, and m[key] = value.
NoMap == [key \in {} |-> {}]

Assign(m, key, value) ==
    [k \in DOMAIN m \cup {key} |-> IF k = key THEN value ELSE m[k]]

\* A slip: the last ConfigMap of a revision wins.
AddLast(result, cm) ==
    LET rev == ParseConfigMapValues(cm)
    IN  IF cm.injector /\ rev # Unset THEN Assign(result, rev, GetConfigMapLastModified(cm))
        ELSE result

\* The loop body: the later time of a revision is kept.
AddConfigMap(result, cm) ==
    LET rev  == ParseConfigMapValues(cm)
        time == GetConfigMapLastModified(cm)
    IN  IF /\ cm.injector /\ rev # Unset
           /\ rev \notin DOMAIN result \/ time > result[rev]
        THEN Assign(result, rev, time)
        ELSE result

BuildLastModifiedByRevision(list) == FoldLeft(AddConfigMap, NoMap, list)

\* A slip: only the time is kept when a later one is there.
AddTagLatest(maps, mwc) ==
    LET before == maps.lastModifiedByTag
        time   == IF mwc.tag \in DOMAIN before /\ before[mwc.tag] > getLastModified(mwc)
                  THEN before[mwc.tag] ELSE getLastModified(mwc)
    IN  IF mwc.tagMWC /\ mwc.tag # Unset /\ mwc.rev # Unset
        THEN [tagToRevision     |-> Assign(maps.tagToRevision, mwc.tag, mwc.rev),
              lastModifiedByTag |-> Assign(before, mwc.tag, time)]
        ELSE maps

\* The loop body: both maps are overwritten together.
AddTag(maps, mwc) ==
    IF mwc.tagMWC /\ mwc.tag # Unset /\ mwc.rev # Unset
    THEN [tagToRevision     |-> Assign(maps.tagToRevision, mwc.tag, mwc.rev),
          lastModifiedByTag |-> Assign(maps.lastModifiedByTag, mwc.tag, getLastModified(mwc))]
    ELSE maps

FetchTagToRevisionAndLastModified(list) ==
    FoldLeft(AddTag, [tagToRevision |-> NoMap, lastModifiedByTag |-> NoMap], list)

-----------------------------------------------------------------------------
(* Flags.  A string is a sequence of commas, blanks and words.             *)

Comma == ","
Blank == " "

\* strings.Split(s, ",")
AddChar(parts, c) ==
    IF c = Comma THEN Append(parts, << >>)
    ELSE [parts EXCEPT ![Len(parts)] = Append(@, c)]

Split(s) == FoldLeft(AddChar, << << >> >>, s)

\* A slip: blanks are kept.
KeepSpace(s) == s

\* strings.TrimSpace
TrimSpace(s) ==
    LET words == {i \in DOMAIN s : s[i] # Blank}
    IN  IF words = {} THEN << >>
        ELSE SubSeq(s, CHOOSE i \in words : \A j \in words : i <= j,
                       CHOOSE i \in words : \A j \in words : i >= j)

parseSkipNamespaces(s) ==
    LET parts == Split(s)
    IN  SelectSeq([i \in DOMAIN parts |-> TrimSpace(parts[i])], LAMBDA p : p # << >>)
=============================================================================
