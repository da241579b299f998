------------------------------ MODULE Requests ------------------------------
(***************************************************************************)
(* What Run makes of its options (options.go, Validate in container.go,    *)
(* buildCreateArgs in args.go): the customizers are applied one after      *)
(* another to a request of Run's own, which is validated and read once     *)
(* more when `container create` is called.  Several Runs may go on at      *)
(* once and share options, whose slices are the caller's and, beyond the   *)
(* elements an option was given, may have room left that others see.       *)
(* Mapping ports to the host is in Ports, building images in Lifecycle.    *)
(***************************************************************************)
EXTENDS Naturals, SequencesExt

CONSTANTS
  Runs,
  Scripts,   \* lists of options: see Option
  Scalars,   \* fields with one value; "image", "containerfile" and "mapping" are among them
  Maps,      \* fields with a value per key
  Appended,  \* lists that options append to
  Replaced,  \* lists that an option sets to the slice it was given
  NotPassed, \* fields with no argument: the Containerfile, Ulimits, DNS, NetworkAliases, ...
  Keys, Values,
  Arrays, Content,   \* the callers' arrays, and what is in them at first
  None, Own          \* no value; a list of the request's own

Cells == UNION {1 .. Len(Content[a]) : a \in Arrays}

\* The first n elements of an array.
Slices == {s \in [array : Arrays, len : Cells] : s.len <= Len(Content[s.array])}

Option ==
  [how : {"set"}, field : Scalars, value : Values]
  \cup [how : {"merge"}, field : Maps, value : [Keys -> Values \cup {None}]]
  \cup [how : {"append"}, field : Appended, value : Slices]
  \cup [how : {"assign"}, field : Replaced, value : Slices]

ASSUME FieldsAssumption ==
  /\ {"image", "containerfile", "mapping"} \subseteq Scalars
  /\ {"ports", "volumes", "mounts", "cmd"} \subseteq Appended /\ "cmd" \in Replaced
  /\ Appended \cap Replaced = {"cmd"}
  /\ Scalars \cap Maps = {} /\ (Scalars \cup Maps) \cap (Appended \cup Replaced) = {}

ASSUME ArraysAssumption == Own \notin Arrays /\ Content \in [Arrays -> Seq(Values \cup {None})]

ASSUME ScriptsAssumption == Scripts \subseteq Seq(Option)

Lists == Appended \cup Replaced
Fields == Scalars \cup Maps \cup Lists

VARIABLES
  heap,    \* the callers' arrays
  opts,    \* per Run: its options
  next,    \* per Run: the option to be applied next
  req,     \* per Run: its ContainerRequest
  result,  \* per Run: "none" so far, "invalid", or "created"
  told,    \* per Run: what create was called with
  wrote    \* observation, per array: the Runs that wrote to it

vars == <<heap, opts, next, req, result, told, wrote>>

\* A list of a request: a slice of a caller's array, or elements of its own.
Empty == [array |-> Own, len |-> 0, own |-> <<>>]
Elements(list) == IF list.array = Own THEN list.own ELSE SubSeq(heap[list.array], 1, list.len)
Given(slice) == SubSeq(heap[slice.array], 1, slice.len)

Zero == [f \in Fields |-> IF f \in Scalars THEN None
                          ELSE IF f \in Maps THEN [k \in Keys |-> None] ELSE Empty]

\* Every Run has an image, or the empty string, as an argument of its own: it is the
\* request's first value of "image".
Init ==
  /\ heap = Content
  /\ opts \in [Runs -> Scripts]
  /\ next = [r \in Runs |-> 1]
  /\ req = [r \in Runs |-> Zero]
  /\ result = [r \in Runs |-> "none"]
  /\ told = [r \in Runs |-> Zero]
  /\ wrote = [a \in Arrays |-> {}]

-----------------------------------------------------------------------------
(* The customizers.                                                        *)

Due(r) == result[r] = "none" /\ next[r] <= Len(opts[r])
Current(r) == opts[r][next[r]]

Put(r, f, v) == req' = [req EXCEPT ![r][f] = v]

Applied(r) ==
  /\ next' = [next EXCEPT ![r] = @ + 1]
  /\ UNCHANGED <<opts, result, told>>

\* WithName, WithCPUs, WithInit, ...: the last one decides.
Set(r) ==
  /\ Due(r) /\ Current(r).how = "set"
  /\ Put(r, Current(r).field, Current(r).value)
  /\ Applied(r) /\ UNCHANGED <<heap, wrote>>

\* Mutant: what is there already stays.
FirstWins(old, new) == [k \in Keys |-> IF old[k] # None THEN old[k] ELSE new[k]]

\* The copying loop of WithEnv, WithLabels and WithTmpfs.
Merged(old, new) == [k \in Keys |-> IF new[k] # None THEN new[k] ELSE old[k]]

Merge(r) ==
  /\ Due(r) /\ Current(r).how = "merge"
  /\ LET f == Current(r).field IN Put(r, f, Merged(req[r][f], Current(r).value))
  /\ Applied(r) /\ UNCHANGED <<heap, wrote>>

\* WithCmd, WithEntrypoint and WithEntrypointArgs keep the slice they were given.
Assign(r) ==
  /\ Due(r) /\ Current(r).how = "assign"
  /\ LET s == Current(r).value
     IN  Put(r, Current(r).field, [array |-> s.array, len |-> s.len, own |-> <<>>])
  /\ Applied(r) /\ UNCHANGED <<heap, wrote>>

\* Go's append writes into the array if there is room in it.
Room(list, n) == list.array # Own /\ list.len + n <= Len(heap[list.array])

\* Mutant: an empty list takes the slice over as it is.
KeepSlice(list, slice) ==
  IF Elements(list) = <<>> THEN [array |-> slice.array, len |-> slice.len, own |-> <<>>]
  ELSE IF Room(list, slice.len) THEN [list EXCEPT !.len = @ + slice.len]
  ELSE [Empty EXCEPT !.own = Elements(list) \o Given(slice)]

\* The list that append returns: the same array, longer, or a copy of the request's own.
Longer(list, slice) ==
  IF Room(list, slice.len) THEN [list EXCEPT !.len = @ + slice.len]
  ELSE [Empty EXCEPT !.own = Elements(list) \o Given(slice)]

WithCells(array, n, cells) ==
  [i \in DOMAIN array |-> IF i \in n + 1 .. n + Len(cells) THEN cells[i - n] ELSE array[i]]

\* WithExposedPorts, WithNetworks, WithMounts, WithCmdArgs, ...
AppendTo(r) ==
  /\ Due(r) /\ Current(r).how = "append"
  /\ LET f == Current(r).field
         s == Current(r).value
         list == req[r][f]
         a == list.array
     IN  /\ Put(r, f, Longer(list, s))
         /\ IF Room(list, s.len)
            THEN /\ heap' = [heap EXCEPT ![a] = WithCells(@, list.len, Given(s))]
                 /\ wrote' = [wrote EXCEPT ![a] = @ \cup {r}]
            ELSE UNCHANGED <<heap, wrote>>
  /\ Applied(r)

-----------------------------------------------------------------------------
(* Validate and create.                                                    *)

\* The targets of the volumes and mounts, in the order in which Validate goes through them.
Targets(q) == Elements(q["volumes"]) \o Elements(q["mounts"])

\* An entry without a target is passed over, any other must not have been met before.
Valid(q) ==
  /\ (q["image"] # None) # (q["containerfile"] # None)
  /\ \A i \in DOMAIN Targets(q) :
       Targets(q)[i] # None => \A j \in 1 .. i - 1 : Targets(q)[j] # Targets(q)[i]
  /\ q["mapping"] # None => Elements(q["ports"]) # <<>>

Validate(r) ==
  /\ result[r] = "none" /\ next[r] = Len(opts[r]) + 1
  /\ IF Valid(req[r])
     THEN next' = [next EXCEPT ![r] = @ + 1] /\ UNCHANGED result
     ELSE result' = [result EXCEPT ![r] = "invalid"] /\ UNCHANGED next
  /\ UNCHANGED <<heap, opts, req, told, wrote>>

\* An image that Run builds between the two is named by its Containerfile.
ImageOf(q) == IF q["containerfile"] # None THEN q["containerfile"] ELSE q["image"]

\* The arguments of create: the elements of the lists, of the entrypoint the first one, and
\* nothing for what it is not told.
Arguments(q) ==
  [f \in Fields \ NotPassed |->
     IF f = "image" THEN ImageOf(q)
     ELSE IF f \notin Lists THEN q[f]
     ELSE IF f = "entrypoint" /\ Elements(q[f]) # <<>> THEN <<Head(Elements(q[f]))>>
     ELSE Elements(q[f])]

Create(r) ==
  /\ result[r] = "none" /\ next[r] = Len(opts[r]) + 2
  /\ result' = [result EXCEPT ![r] = "created"]
  /\ told' = [told EXCEPT ![r] = Arguments(req[r])]
  /\ UNCHANGED <<heap, opts, next, req, wrote>>

Next ==
  \E r \in Runs :
    Set(r) \/ Merge(r) \/ Assign(r) \/ AppendTo(r) \/ Validate(r) \/ Create(r)

Spec == Init /\ [][Next]_vars

-----------------------------------------------------------------------------
(* What a list of options means, apart from the order in which the code    *)
(* gets there.                                                             *)

Where(os, how, f) == {i \in DOMAIN os : os[i].how = how /\ os[i].field = f}
Latest(S) == IF S = {} THEN 0 ELSE Max(S)

\* The last option that gives the field, or the key, a value.
ScalarAsked(os, f) ==
  LET i == Latest(Where(os, "set", f)) IN IF i = 0 THEN None ELSE os[i].value

GivesKey(os, f, k) == {i \in Where(os, "merge", f) : os[i].value[k] # None}

MapAsked(os, f) ==
  [k \in Keys |-> LET i == Latest(GivesKey(os, f, k)) IN IF i = 0 THEN None ELSE os[i].value[k]]

\* The slice last assigned and what is appended after it, with their first contents.
AtFirst(slice) == SubSeq(Content[slice.array], 1, slice.len)

Part(os, f, j) ==
  LET i == Latest(Where(os, "assign", f))
  IN  IF j = i \/ (j > i /\ j \in Where(os, "append", f)) THEN AtFirst(os[j].value) ELSE <<>>

ListAsked(os, f) == FlattenSeq([j \in DOMAIN os |-> Part(os, f, j)])

Argument(os, f) ==
  IF f = "image" /\ ScalarAsked(os, "image") = None THEN ScalarAsked(os, "containerfile")
  ELSE IF f \in Scalars THEN ScalarAsked(os, f)
  ELSE IF f \in Maps THEN MapAsked(os, f)
  ELSE ListAsked(os, f)

\* Of an entrypoint of several words create is told the first one, which is less than the
\* README says: see EveryOptionReachesCreate.
AsAsked(os, f, passed) ==
  LET asked == Argument(os, f)
  IN  passed = asked \/ (f = "entrypoint" /\ Len(asked) > 1 /\ passed = <<Head(asked)>>)

Acceptable(os) ==
  LET mounted == ListAsked(os, "volumes") \o ListAsked(os, "mounts")
  IN  /\ \/ ScalarAsked(os, "image") = None /\ ScalarAsked(os, "containerfile") # None
         \/ ScalarAsked(os, "image") # None /\ ScalarAsked(os, "containerfile") = None
      /\ \A i, j \in DOMAIN mounted : i # j /\ mounted[i] = mounted[j] => mounted[i] = None
      /\ ScalarAsked(os, "mapping") = None \/ ListAsked(os, "ports") # <<>>

\* The options that give a slice of an array, and the arrays given for a field.
Uses(os, a) == {i \in DOMAIN os : os[i].how \in {"append", "assign"} /\ os[i].value.array = a}
Mentioned(os, f) ==
  {os[i].value.array : i \in Where(os, "append", f) \cup Where(os, "assign", f)}

\* Nobody has written to the arrays that a Run is given for the field, unless the Run itself
\* did, to one that it is given once.
Undisturbed(r, f) ==
  \A a \in Mentioned(opts[r], f) :
    wrote[a] = {} \/ (wrote[a] = {r} /\ \A i, j \in Uses(opts[r], a) : i = j)

-----------------------------------------------------------------------------
(* Properties.                                                             *)

\* A Run is refused exactly if its options say both or neither of image and Containerfile,
\* one target mounted twice, or ports to be mapped and none exposed; otherwise create is
\* told what they say.  Other Runs with the same options change nothing in that, unless
\* WithCmdArgs wrote to an array that slices of this Run's options are of: the field they
\* are for may then be different (options.go:13-338, container.go:116-153, args.go:28-159).
\* It is about the fields that have an argument, and of an entrypoint of several words about
\* the first: the rest is not told, whatever the documents say (EveryOptionReachesCreate).
ToldWhatItAsked ==
  \A r \in Runs :
    /\ result[r] # "none" /\ (\A f \in {"volumes", "mounts", "ports"} : Undisturbed(r, f)) =>
         (result[r] = "created" <=> Acceptable(opts[r]))
    /\ result[r] = "created" =>
         \A f \in Fields \ NotPassed :
           (f \in Lists => Undisturbed(r, f)) => AsAsked(opts[r], f, told[r][f])

\* "`WithEntrypoint(entry...)` | `...string` | Container entrypoint command." (README.md:190),
\* "WithNetwork attaches the container to an existing network with network aliases."
\* (network.go:79), and so on: an option that asks for something has create told all of it.
\* (Of a Containerfile the build is told.)
EveryOptionReachesCreate ==
  \A r \in Runs, f \in Fields \ {"containerfile"} :
    result[r] = "created" /\ (f \in Lists => Undisturbed(r, f)) =>
      \/ Argument(opts[r], f) = Argument(<<>>, f)
      \/ f \in DOMAIN told[r] /\ told[r][f] = Argument(opts[r], f)

\* A Run writes into its callers' arrays by WithCmdArgs only, and there only behind the
\* slice it was given by WithCmd: other lists are never a caller's (options.go:69, 22-27).
OnlyCmdArgsWrites ==
  [][\A a \in Arrays : heap'[a] # heap[a] =>
       \E r \in Runs :
         /\ next'[r] # next[r] /\ Current(r).how = "append" /\ Current(r).field = "cmd"
         /\ req[r]["cmd"].array = a
         /\ \A i \in 1 .. req[r]["cmd"].len : heap'[a][i] = heap[a][i]]_vars
=============================================================================
