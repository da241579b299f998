----------------------------- MODULE MCRequests -----------------------------
EXTENDS Requests, TLC

CONSTANTS r1, r2

TwoRuns == {r1, r2}
MCScalars == {"image", "containerfile", "mapping", "name"}
MCMaps == {"env"}
MCAppended == {"ports", "volumes", "mounts", "cmd"}
MCReplaced == {"cmd", "entrypoint"}
MCNotPassed == {"containerfile"}
MCKeys == {"k", "l"}
MCValues == {"x", "y"}
MCArrays == {"A", "B", "C"}
MCContent == [A |-> <<"x", "y">>, B |-> <<"y">>, C |-> <<None, None>>]

SetTo(f, v) == [how |-> "set", field |-> f, value |-> v]
Env(v, w) == [how |-> "merge", field |-> "env", value |-> [k |-> v, l |-> w]]
To(how, f, a, n) == [how |-> how, field |-> f, value |-> [array |-> a, len |-> n]]

Image == SetTo("image", "x")
Containerfile == SetTo("containerfile", "y")

\* Options that meet: in a field, in an array, or in what Validate looks at.
Meeting ==
  {SetTo("name", "x"), SetTo("name", "y"), Env("x", None), Env("y", "x"), SetTo("mapping", "x"),
   To("append", "ports", "A", 1), To("append", "ports", "A", 2),
   To("append", "volumes", "B", 1), To("append", "mounts", "A", 2),
   To("assign", "cmd", "A", 1), To("assign", "cmd", "A", 2), To("append", "cmd", "B", 1),
   To("append", "cmd", "A", 1), To("assign", "entrypoint", "A", 2)}

\* An image and any two of them, and some lists of their own.
MCScripts ==
  {<<Image, o, p>> : o, p \in Meeting}
  \cup {<<>>, <<Containerfile>>, <<Image, Containerfile>>,
        <<Image, To("append", "volumes", "B", 1), To("append", "mounts", "A", 1)>>,
        <<Image, To("append", "volumes", "C", 1), To("append", "mounts", "C", 2)>>}

\* WithEntrypoint with two words, and WithNetwork with an alias.
EntrypointAndAlias == {<<Image, To("assign", "entrypoint", "A", 2), To("append", "aliases", "B", 1)>>}
OneRun == {r1}
WithAliases == MCAppended \cup {"aliases"}
NotPassedAliases == MCNotPassed \cup {"aliases"}

Symmetry == Permutations(TwoRuns)
=============================================================================
