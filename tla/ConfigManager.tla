---------------------------- MODULE ConfigManager ----------------------------
(***************************************************************************)
(* ConfigManager::load: which files a service's configuration is made of,  *)
(* reading them one after the other, merging, validating, the snapshot.    *)
(*                                                                         *)
(* A file is <<directory, name>>; its name is "common" (common.yaml),      *)
(* "conf.d" (conf.d/<service>.yaml) or "svc" (<service>.yaml).             *)
(*                                                                         *)
(* A document is a function from key paths to "map", "null" or a scalar,   *)
(* which is how sequences are treated too.  The root is the path <<>>, and *)
(* what is above a path of the document is a map (IsDocument).             *)
(***************************************************************************)
EXTENDS Naturals, Sequences, FiniteSets, SequencesExt

CONSTANTS Project, Local   \* the directories ./config/ and ./

ASSUME ConfigConstants == Project # Local

VARIABLES
  files,    \* the documents there are: a function from files
  roots,    \* configRoots, with the directory of CONFIG_FILE at the end
  entries,  \* files loadInternal() still has to read
  layers,   \* documents read and not merged yet
  merged,   \* the result of the merge so far
  result,   \* m_lastError.code, or where load() is
  snapshot  \* m_snapshot

NoSnapshot == [p \in {} |-> "null"]

deployVars == <<files, roots>>
configVars == <<deployVars, entries, layers, merged, result, snapshot>>

ConfigInit ==
  /\ entries = <<>> /\ layers = <<>> /\ merged = [p \in {<<>>} |-> "null"]
  /\ result = "none" /\ snapshot = NoSnapshot

isLoaded == result = "ok"
-----------------------------------------------------------------------------
(* PathResolver                                                            *)

fileExists(f) == f \in DOMAIN files
IfExists(f) == IF fileExists(f) THEN <<f>> ELSE <<>>

\* findCommon() and findService(): the first root that has the file.
FindFirst(name) ==
  LET found == {i \in DOMAIN roots : fileExists(<<roots[i], name>>)}
  IN IF found = {} THEN <<>> ELSE << <<roots[Min(found)], name>> >>

\* The entries of the layers "common" and "project/common".
commonEntries == FindFirst("common") \o IfExists(<<Project, "common">>)

rootEntries[n \in 0..Len(roots)] ==
  IF n = 0 THEN <<>> ELSE rootEntries[n - 1] \o IfExists(<<roots[n], "svc">>)

resolveAll ==
  commonEntries \o FindFirst("conf.d") \o IfExists(<<Project, "svc">>)
    \o rootEntries[Len(roots)] \o IfExists(<<Local, "svc">>)
-----------------------------------------------------------------------------
(* ConfigMerger                                                            *)

Is(d, p, kind) == p \in DOMAIN d /\ d[p] = kind

IsDocument(d) ==
  /\ <<>> \in DOMAIN d
  /\ \A p \in DOMAIN d : p \in Seq(STRING) /\ \A q \in Prefixes(p) \ {p} : Is(d, q, "map")

\* Mutant: a map of the override replaces the one of the base.
mergeMapFlat(base, over) ==
  over @@ Restrict(base, {p \in DOMAIN base : p = <<>> \/ SubSeq(p, 1, 1) \notin DOMAIN over})

\* What the base has below a key stays as long as both have a map there.
mergeMap(base, over) ==
  LET kept == {p \in DOMAIN base : \A q \in Prefixes(p) \cap DOMAIN over :
                                     Is(over, q, "map") /\ Is(base, q, "map")}
  IN [p \in kept \cup DOMAIN over |-> IF p \in DOMAIN over THEN over[p] ELSE base[p]]

merge(base, over) ==
  IF Is(base, <<>>, "null") THEN over
  ELSE IF Is(over, <<>>, "null") THEN base
  ELSE IF Is(base, <<>>, "map") /\ Is(over, <<>>, "map") THEN mergeMap(base, over)
  ELSE over
-----------------------------------------------------------------------------
(* ConfigValidator, and loadInternal() step by step                        *)

\* The one rule: common.log is there and a map.
validate(d) == Is(d, <<"common", "log">>, "map")

ResolvesPaths ==
  /\ result = "none" /\ entries' = resolveAll
  /\ result' = IF commonEntries = <<>> THEN "not_found" ELSE "reading"
  /\ UNCHANGED <<deployVars, layers, merged, snapshot>>

LoadsFile ==
  /\ result = "reading" /\ entries # <<>>
  /\ layers' = Append(layers, files[Head(entries)]) /\ entries' = Tail(entries)
  /\ UNCHANGED <<deployVars, merged, result, snapshot>>

\* It is gone since, cannot be read, or is no YAML.
LoadFileFails ==
  /\ result = "reading" /\ entries # <<>> /\ result' = "parse_failed"
  /\ UNCHANGED <<deployVars, entries, layers, merged, snapshot>>

\* mergeMultiple(), one document at a time once all are read.
MergesLayer ==
  /\ result = "reading" /\ entries = <<>> /\ layers # <<>>
  /\ merged' = merge(merged, Head(layers)) /\ layers' = Tail(layers)
  /\ UNCHANGED <<deployVars, entries, result, snapshot>>

Validates ==
  /\ result = "reading" /\ entries = <<>> /\ layers = <<>>
  /\ IF validate(merged)
     THEN result' = "ok" /\ snapshot' = merged
     ELSE result' = "invalid" /\ UNCHANGED snapshot
  /\ UNCHANGED <<deployVars, entries, layers, merged>>

ConfigNext == ResolvesPaths \/ LoadsFile \/ LoadFileFails \/ MergesLayer \/ Validates
-----------------------------------------------------------------------------
(* ImmutableConfigView.  A key that is empty names the root.               *)

\* Where a step of the path leaves the maps there is nothing.
getNode(view, p) ==
  IF p \in DOMAIN view /\ \A q \in Prefixes(p) \ {p} : Is(view, q, "map")
  THEN view[p] ELSE "absent"

has(view, p) == getNode(view, p) \notin {"absent", "null"}

getString(view, p, default) ==
  IF getNode(view, p) \in {"absent", "null", "map"} THEN default ELSE getNode(view, p)

\* The view of a map below.
getSection(view, p) ==
  [q \in {SubSeq(r, Len(p) + 1, Len(r)) : r \in {s \in DOMAIN view : p \in Prefixes(s)}}
     |-> view[p \o q]]
-----------------------------------------------------------------------------
ConfigTypeOK ==
  /\ result \in {"none", "reading", "not_found", "parse_failed", "invalid", "ok"}
  /\ ToSet(entries) \subseteq DOMAIN files /\ ToSet(layers) \subseteq {files[f] : f \in DOMAIN files}

\* A common or conf.d file counts in the first root that has one.
Used(f) ==
  \/ f[2] = "svc" /\ f[1] \in ToSet(roots) \cup {Project, Local}
  \/ f = <<Project, "common">>
  \/ \E i \in DOMAIN roots : /\ f[1] = roots[i] /\ f[2] # "svc"
                             /\ \A j \in 1..(i - 1) : <<roots[j], f[2]>> \notin DOMAIN files

\* common < project common < conf.d < project < root by root < local.
Rank(f) ==
  CASE f[2] = "common" -> IF f[1] = Project THEN 2 ELSE 1
    [] f[2] = "conf.d" -> 3
    [] f[2] = "svc"    -> IF f[1] = Local THEN 5 + Len(roots)
                          ELSE 4 + Max({0} \cup {i \in DOMAIN roots : roots[i] = f[1]})

\* The document says what is at the path, or that there is nothing.
Decides(d, p) ==
  ~Is(d, <<>>, "null") /\ (p \in DOMAIN d \/ \E q \in Prefixes(p) \cap DOMAIN d : d[q] # "map")

\* What the getters return for a key, through any section of the snapshot, is what
\* the scalar, map or null v calls for.
Shows(p, v) ==
  \A s \in {q \in Prefixes(p) : Is(snapshot, q, "map")} :
    LET view == getSection(snapshot, s)  rest == SubSeq(p, Len(s) + 1, Len(p)) IN
    /\ getNode(view, rest) = v
    /\ has(view, rest) <=> v \notin {"absent", "null"}
    /\ getString(view, rest, "default") =
         IF v \in {"absent", "null", "map"} THEN "default" ELSE v

\* Whatever files there are and whatever shapes they have, each key is for the
\* getters as the file of highest rank says that says anything about it.
SnapshotFollowsPrecedence ==
  isLoaded =>
    \A p \in UNION {DOMAIN files[f] : f \in DOMAIN files} :
      LET deciding == {f \in DOMAIN files : Used(f) /\ Decides(files[f], p)} IN
      IF deciding = {} THEN Shows(p, "absent")
      ELSE \E f \in deciding : /\ \A g \in deciding : Rank(g) <= Rank(f)
                               /\ Shows(p, IF p \in DOMAIN files[f] THEN files[f][p]
                                           ELSE "absent")
=============================================================================
