---------------------------- MODULE MCApplication ----------------------------
(***************************************************************************)
(* Signalled: whatever its signals, a service with two files.  Deployed:   *)
(* whatever its files, a service with the default signals, none of which   *)
(* comes.                                                                  *)
(***************************************************************************)
EXTENDS Application

CONSTANTS int, hup, segv, pipe, kill, etc

Sets(g, f, i) == [graceful |-> g, fatal |-> f, ignored |-> i]
Default == Sets(<<int>>, <<segv>>, <<pipe>>)
\* One that adds a signal; a signal twice, in two sets, or uncatchable.
Services ==
  {Default, Sets(<<int, hup>>, <<segv>>, <<>>), Sets(<<int, int>>, <<segv>>, <<pipe>>),
   Sets(<<int, hup>>, <<hup>>, <<pipe>>), Sets(<<int, kill>>, <<segv>>, <<pipe>>)}

Root(kind) == <<>> :> kind
Common(kind) == Root("map") @@ (<<"common">> :> kind)
Log(kind) == Common("map") @@ (<<"common", "log">> :> kind)
Key(key, v) == Log("map") @@ (<<"common", "log", key>> :> v)

File(key, v) == Key("file", "map") @@ (<<"common", "log", "file", key>> :> v)

\* Empty, a text, without common.log, with it as an empty or a text, with keys in order,
\* unknown, refused, of a text where a map is expected, and of a file.
Documents ==
  {Root("null"), Root("x"), Common("null"), Log("null"), Log("x"),
   Key("strict", "true"), Key("strict", "x") @@ Key("level", "x"),
   Key("format", "x"), Key("file", "x"), File("enabled", "true")}

\* Up to two files of any content in /etc/tbox/, ./config/ and ./, or three of
\* contents that hide and reveal each other.
Paths == {<<etc, "common">>, <<Project, "common">>, <<etc, "conf.d">>, <<Project, "conf.d">>,
          <<etc, "svc">>, <<Project, "svc">>, <<Local, "svc">>}
Trees == UNION {[F -> Documents] : F \in UNION {kSubset(k, Paths) : k \in 0..2}}
  \cup UNION {[F -> {Log("null"), Key("strict", "true"), Key("level", "x")}] : F \in kSubset(3, Paths)}

Signalled ==
  [sets: Services, signals: {3}, roots: {<<etc, Project>>},
   files: {[f \in {<<etc, "common">>, <<Project, "svc">>} |-> Key("strict", v)] : v \in {"true", "x"}}]

Deployed ==
  [sets: {Default}, signals: {0}, roots: {<<etc>>, <<etc, Project>>, <<etc, Project, Local>>},
   files: Trees]

Both == Signalled \cup Deployed
=============================================================================
