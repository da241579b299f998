---------------------------- MODULE RequestsProofs ----------------------------
(***************************************************************************)
(* Why create is told what the options ask for, and why only WithCmdArgs   *)
(* writes into a caller's array.  The request is, after any number of      *)
(* options, what those options ask for (AskedSoFar): what one more option  *)
(* asks for is what its action does (ScalarAppend, MapAppend, ListAppend). *)
(* The steps of other Runs come in by the arrays only: a list is a slice   *)
(* of an array only if the Run assigned it that array (AssignedSoFar), and *)
(* only who assigned an array to its command writes to it (WritersInv).    *)
(***************************************************************************)
EXTENDS Requests, SequenceTheorems, WellFoundedInduction, TLAPS

Cell == Values \cup {None}
List ==
  {l \in [array : Arrays \cup {Own}, len : Nat, own : Seq(Cell)] :
     l.array # Own => l.len <= Len(Content[l.array])}

Proper(q) ==
  /\ \A f \in Maps : q[f] \in [Keys -> Cell]
  /\ \A f \in Lists : q[f] \in List
  /\ \A f \in Appended \ Replaced : q[f].array = Own

\* The types of what the steps read and write; enough for OnlyCommandsShare.
RequestInv ==
  /\ heap \in [Arrays -> Seq(Cell)] /\ \A a \in Arrays : Len(heap[a]) = Len(Content[a])
  /\ opts \in [Runs -> Seq(Option)] /\ next \in [Runs -> Nat \ {0}]
  /\ req \in [Runs -> {q \in [Fields -> UNION {Cell, List, [Keys -> Cell]}] : Proper(q)}]

\* The options applied so far.
Past(r) == SubSeq(opts[r], 1, IF next[r] <= Len(opts[r]) THEN next[r] - 1 ELSE Len(opts[r]))

\* Who wrote to an array had given it to its command before; one nobody wrote to is as it was.
WritersInv ==
  /\ wrote \in [Arrays -> SUBSET Runs]
  /\ \A a \in Arrays : wrote[a] = {} => heap[a] = Content[a]
  /\ \A a \in Arrays : \A r \in wrote[a] :
       \E i \in Where(Past(r), "assign", "cmd") : Past(r)[i].value.array = a

\* A request is what the options so far ask for.
AskedSoFar(r) ==
  /\ \A f \in Scalars : req[r][f] = ScalarAsked(Past(r), f)
  /\ \A f \in Maps : req[r][f] = MapAsked(Past(r), f)
  /\ \A f \in Lists : Undisturbed(r, f) => Elements(req[r][f]) = ListAsked(Past(r), f)

\* A list over a caller's array was assigned it.
AssignedSoFar(r) ==
  \A f \in Lists : req[r][f].array # Own =>
    \E i \in Where(Past(r), "assign", f) : Past(r)[i].value.array = req[r][f].array

Judged == {"volumes", "mounts", "ports"}
OneSource(q) == (q["image"] # None) # (q["containerfile"] # None)

\* What Validate found holds as long as the arrays it looked at are left alone.
VerdictInv(r) ==
  /\ next[r] <= Len(opts[r]) + 2
  /\ result[r] = "created" => next[r] = Len(opts[r]) + 2
  /\ result[r] = "invalid" => next[r] = Len(opts[r]) + 1
  /\ next[r] = Len(opts[r]) + 2 => OneSource(req[r])
  /\ (\A f \in Judged : Undisturbed(r, f)) =>
       /\ result[r] = "invalid" => ~Acceptable(opts[r])
       /\ next[r] = Len(opts[r]) + 2 => Acceptable(opts[r])

ToldSoFar(r) ==
  result[r] = "created" =>
    \A f \in Fields \ NotPassed :
      (f \in Lists => Undisturbed(r, f)) => AsAsked(opts[r], f, told[r][f])

\* What is known of a Run.
RunInv(r) == AskedSoFar(r) /\ AssignedSoFar(r) /\ VerdictInv(r) /\ ToldSoFar(r)

\* The inductive invariant.
AskedInv ==
  /\ RequestInv
  /\ result \in [Runs -> {"none", "invalid", "created"}] /\ told = [r \in Runs |-> told[r]]
  /\ WritersInv
  /\ \A r \in Runs : RunInv(r)

-----------------------------------------------------------------------------
(* Types.                                                                  *)

LEMMA FieldFacts ==
  /\ \A f \in Lists : f \notin Scalars /\ f \notin Maps /\ f \in Fields
  /\ \A f \in Scalars \cup Maps : f \notin Lists /\ f \in Fields
  /\ \A f \in Maps : f \notin Scalars
  /\ \A f \in Appended \ Replaced : f \in Lists
  /\ \A f \in Appended : f \in Lists
  /\ \A f \in Replaced : f \in Lists /\ f \notin Appended \ Replaced
  /\ \A f \in Appended \ {"cmd"} : f \in Appended \ Replaced
  /\ "cmd" \in Lists
BY FieldsAssumption DEF Lists, Fields

LEMMA CurrentFacts ==
  ASSUME RequestInv, NEW r \in Runs, Due(r)
  PROVE  Current(r) \in Option
BY DEF RequestInv, Due, Current

LEMMA OptionFacts ==
  ASSUME NEW o \in Option
  PROVE  /\ o.how = "set" => o.field \in Scalars /\ o.value \in Values
         /\ o.how = "merge" => o.field \in Maps /\ o.value \in [Keys -> Cell]
         /\ o.how = "append" => o.field \in Appended /\ o.value \in Slices
         /\ o.how = "assign" => o.field \in Replaced /\ o.value \in Slices
BY DEF Option, Cell

LEMMA InitInv == Init => RequestInv
<1> SUFFICES ASSUME Init PROVE RequestInv
  OBVIOUS
<1>1. Zero \in {q \in [Fields -> UNION {Cell, List, [Keys -> Cell]}] : Proper(q)}
  <2>1. Empty \in List /\ Empty.array = Own
    BY DEF Empty, List
  <2>2. \A f \in Lists : Zero[f] = Empty
    BY FieldFacts DEF Zero
  <2>5. \A f \in Maps : Zero[f] \in [Keys -> Cell]
    BY FieldFacts DEF Zero, Cell
  <2>3. \A f \in Fields : Zero[f] \in UNION {Cell, List, [Keys -> Cell]}
    BY <2>1 DEF Zero, Cell
  <2>4. Zero \in [Fields -> UNION {Cell, List, [Keys -> Cell]}]
    BY <2>3 DEF Zero
  <2> QED
    BY <2>1, <2>2, <2>4, <2>5, FieldFacts DEF Proper
<1>2. opts \in [Runs -> Seq(Option)]
  BY ScriptsAssumption DEF Init
<1> QED
  BY <1>1, <1>2, ArraysAssumption DEF Init, RequestInv, Cell

\* A list that an option adds to, or sets, stays a list; it is the request's own unless
\* the option is one of those that keep the slice they were given.
LEMMA SliceFacts ==
  ASSUME RequestInv, NEW s \in Slices
  PROVE  /\ Given(s) \in Seq(Cell) /\ Len(Given(s)) = s.len
         /\ s.array \in Arrays /\ s.len \in Nat /\ s.len <= Len(heap[s.array])
<1>1. s.array \in Arrays /\ s.len <= Len(Content[s.array]) /\ s.len \in Cells
  BY DEF Slices
<1>2. Cells \subseteq Nat
  BY ArraysAssumption DEF Cells
<1>3. heap[s.array] \in Seq(Cell) /\ Len(heap[s.array]) = Len(Content[s.array])
  BY <1>1 DEF RequestInv
<1>4. s.len \in 0 .. Len(heap[s.array])
  BY <1>1, <1>2, <1>3
<1>5. Given(s) \in Seq(Cell) /\ Len(Given(s)) = s.len
  BY <1>3, <1>4, SubSeqProperties, LenProperties DEF Given
<1> QED
  BY <1>1, <1>3, <1>4, <1>5

LEMMA LongerIsList ==
  ASSUME RequestInv, NEW list \in List, NEW s \in Slices
  PROVE  /\ Longer(list, s) \in List
         /\ list.array = Own => Longer(list, s).array = Own
<1>1. Elements(list) \in Seq(Cell)
  <2>1. CASE list.array = Own
    BY <2>1 DEF Elements, List
  <2>2. CASE list.array # Own
    <3>1. heap[list.array] \in Seq(Cell) /\ list.len \in Nat /\ list.len <= Len(heap[list.array])
      BY <2>2 DEF RequestInv, List
    <3> QED
      BY <2>2, <3>1 DEF Elements
  <2> QED
    BY <2>1, <2>2
<1>2. CASE Room(list, s.len)
  <2>1. list.array \in Arrays /\ list.len + s.len <= Len(Content[list.array]) /\ list.len + s.len \in Nat
    BY <1>2, SliceFacts DEF Room, List, RequestInv
  <2>2. [list EXCEPT !.len = @ + s.len] \in List
    BY <2>1 DEF List
  <2> QED
    BY <1>2, <2>2 DEF Longer, Room
<1>3. CASE ~Room(list, s.len)
  <2>1. Elements(list) \o Given(s) \in Seq(Cell)
    BY <1>1, SliceFacts
  <2>2. \A own \in Seq(Cell) : [Empty EXCEPT !.own = own] \in List /\ [Empty EXCEPT !.own = own].array = Own
    BY DEF Empty, List
  <2> QED
    BY <1>3, <2>1, <2>2 DEF Longer
<1> QED
  BY <1>2, <1>3

\* A request in which one field has been put is a request.
LEMMA PutKeeps ==
  ASSUME RequestInv, NEW r \in Runs, NEW f \in Fields, NEW v \in UNION {Cell, List, [Keys -> Cell]},
         f \in Lists => v \in List, f \in Maps => v \in [Keys -> Cell],
         f \in Appended \ Replaced => v.array = Own,
         Put(r, f, v)
  PROVE  req' \in [Runs -> {q \in [Fields -> UNION {Cell, List, [Keys -> Cell]}] : Proper(q)}]
<1> DEFINE q == [req[r] EXCEPT ![f] = v]
<1>1. req[r] \in [Fields -> UNION {Cell, List, [Keys -> Cell]}] /\ Proper(req[r])
  BY DEF RequestInv
<1>2. q \in [Fields -> UNION {Cell, List, [Keys -> Cell]}]
  BY <1>1
<1>3. Proper(q)
  BY <1>1, FieldFacts DEF Proper
<1>4. req' = [req EXCEPT ![r] = q]
  BY DEF Put
<1> QED
  BY <1>2, <1>3, <1>4 DEF RequestInv

LEMMA AppliedKeeps ==
  ASSUME RequestInv, NEW r \in Runs, Applied(r)
  PROVE  opts' \in [Runs -> Seq(Option)] /\ next' \in [Runs -> Nat \ {0}]
BY DEF RequestInv, Applied

LEMMA SetKeeps == ASSUME RequestInv, NEW r \in Runs, Set(r) PROVE RequestInv'
<1>1. Current(r).field \in Scalars /\ Current(r).value \in Values
  BY CurrentFacts, OptionFacts DEF Set
<1>2. Put(r, Current(r).field, Current(r).value)
  BY DEF Set
<1>3. req' \in [Runs -> {q \in [Fields -> UNION {Cell, List, [Keys -> Cell]}] : Proper(q)}]
  BY <1>1, <1>2, PutKeeps, FieldFacts DEF Cell
<1> QED
  BY <1>3, AppliedKeeps DEF Set, RequestInv

LEMMA MergeKeeps == ASSUME RequestInv, NEW r \in Runs, Merge(r) PROVE RequestInv'
<1> DEFINE f == Current(r).field
           v == Merged(req[r][f], Current(r).value)
<1>1. f \in Maps /\ Put(r, f, v)
  BY CurrentFacts, OptionFacts DEF Merge
<1>2. v \in [Keys -> Cell]
  <2>1. req[r][f] \in [Keys -> Cell] /\ Current(r).value \in [Keys -> Cell]
    BY <1>1, CurrentFacts, OptionFacts DEF Merge, RequestInv, Proper
  <2> QED
    BY <2>1 DEF Merged
<1>3. req' \in [Runs -> {q \in [Fields -> UNION {Cell, List, [Keys -> Cell]}] : Proper(q)}]
  BY <1>1, <1>2, PutKeeps, FieldFacts
<1> QED
  BY <1>3, AppliedKeeps DEF Merge, RequestInv

LEMMA AssignKeeps == ASSUME RequestInv, NEW r \in Runs, Assign(r) PROVE RequestInv'
<1> DEFINE f == Current(r).field
           s == Current(r).value
           v == [array |-> s.array, len |-> s.len, own |-> <<>>]
<1>1. f \in Replaced /\ s \in Slices /\ Put(r, f, v)
  BY CurrentFacts, OptionFacts DEF Assign
<1>2. v \in List
  BY <1>1, SliceFacts DEF List, RequestInv
<1>3. req' \in [Runs -> {q \in [Fields -> UNION {Cell, List, [Keys -> Cell]}] : Proper(q)}]
  BY <1>1, <1>2, PutKeeps, FieldFacts
<1> QED
  BY <1>3, AppliedKeeps DEF Assign, RequestInv

\* A write into an array keeps its length and what is before it.
LEMMA WriteKeeps ==
  ASSUME NEW old \in Seq(Cell), NEW n \in Nat, NEW cells \in Seq(Cell), n + Len(cells) <= Len(old)
  PROVE  /\ WithCells(old, n, cells) \in Seq(Cell) /\ Len(WithCells(old, n, cells)) = Len(old)
         /\ \A i \in 1 .. n : WithCells(old, n, cells)[i] = old[i]
<1> DEFINE new == WithCells(old, n, cells)
<1>1. \A i \in 1 .. Len(old) : new[i] \in Cell
  <2> TAKE i \in 1 .. Len(old)
  <2>1. CASE i \in n + 1 .. n + Len(cells)
    <3>1. i - n \in 1 .. Len(cells)
      BY <2>1
    <3>2. cells[i - n] \in Cell
      BY <3>1
    <3> QED
      BY <2>1, <3>2 DEF WithCells
  <2>2. CASE i \notin n + 1 .. n + Len(cells)
    BY <2>2 DEF WithCells
  <2> QED
    BY <2>1, <2>2
<1>2. new \in [1 .. Len(old) -> Cell]
  <2>1. DOMAIN old = 1 .. Len(old)
    OBVIOUS
  <2> QED
    BY <2>1, <1>1 DEF WithCells
<1>3. new \in Seq(Cell) /\ Len(new) = Len(old)
  BY <1>2, SeqDef, LenProperties
<1>4. \A i \in 1 .. n : new[i] = old[i]
  BY DEF WithCells
<1> QED
  BY <1>3, <1>4

LEMMA RoomFacts ==
  ASSUME RequestInv, NEW list \in List, NEW s \in Slices, Room(list, s.len)
  PROVE  /\ list.array \in Arrays /\ heap[list.array] \in Seq(Cell) /\ list.len \in Nat
         /\ Given(s) \in Seq(Cell) /\ list.len + Len(Given(s)) <= Len(heap[list.array])
BY SliceFacts DEF RequestInv, List, Room

LEMMA AppendKeeps == ASSUME RequestInv, NEW r \in Runs, AppendTo(r) PROVE RequestInv'
<1> DEFINE f == Current(r).field
           s == Current(r).value
           list == req[r][f]
<1>1. f \in Appended /\ s \in Slices /\ Put(r, f, Longer(list, s))
  BY CurrentFacts, OptionFacts DEF AppendTo
<1>2. list \in List /\ (f \in Appended \ Replaced => list.array = Own)
  BY <1>1, FieldFacts DEF RequestInv, Proper
<1>3. req' \in [Runs -> {q \in [Fields -> UNION {Cell, List, [Keys -> Cell]}] : Proper(q)}]
  BY <1>1, <1>2, LongerIsList, PutKeeps, FieldFacts
<1>4. heap' \in [Arrays -> Seq(Cell)] /\ \A a \in Arrays : Len(heap'[a]) = Len(Content[a])
  <2>1. CASE Room(list, s.len)
    <3>1. heap' = [heap EXCEPT ![list.array] = WithCells(@, list.len, Given(s))]
      BY <2>1 DEF AppendTo
    <3> QED
      BY <1>1, <1>2, <2>1, <3>1, RoomFacts, WriteKeeps DEF RequestInv
  <2>2. CASE ~Room(list, s.len)
    BY <2>2 DEF AppendTo, RequestInv
  <2> QED
    BY <2>1, <2>2
<1> QED
  BY <1>3, <1>4, AppliedKeeps DEF AppendTo, RequestInv

LEMMA NextKeeps == RequestInv /\ [Next]_vars => RequestInv'
<1> SUFFICES ASSUME RequestInv, [Next]_vars PROVE RequestInv'
  OBVIOUS
<1>1. CASE UNCHANGED vars
  BY <1>1 DEF vars, RequestInv
<1>2. ASSUME NEW r \in Runs, Validate(r) PROVE RequestInv'
  BY <1>2 DEF Validate, RequestInv
<1>3. ASSUME NEW r \in Runs, Create(r) PROVE RequestInv'
  BY <1>3 DEF Create, RequestInv
<1> QED
  BY <1>1, <1>2, <1>3, SetKeeps, MergeKeeps, AssignKeeps, AppendKeeps DEF Next

\* Only an append to the command writes, behind the slice it extends.
LEMMA WritesAreCmdArgs ==
  ASSUME RequestInv, [Next]_vars, NEW a \in Arrays, heap'[a] # heap[a]
  PROVE  \E r \in Runs :
           /\ next'[r] # next[r] /\ Current(r).how = "append" /\ Current(r).field = "cmd"
           /\ req[r]["cmd"].array = a
           /\ \A i \in 1 .. req[r]["cmd"].len : heap'[a][i] = heap[a][i]
<1>1. PICK r \in Runs : AppendTo(r)
  BY DEF Next, vars, Set, Merge, Assign, Validate, Create
<1> DEFINE f == Current(r).field
           s == Current(r).value
           list == req[r][f]
<1>2. f \in Appended /\ s \in Slices /\ Current(r).how = "append"
  BY <1>1, CurrentFacts, OptionFacts DEF AppendTo
<1>3. list \in List /\ (f # "cmd" => list.array = Own)
  BY <1>2, FieldFacts DEF RequestInv, Proper
<1>4. Room(list, s.len) /\ list.array = a
  BY <1>1 DEF AppendTo, RequestInv
<1>5. f = "cmd"
  BY <1>3, <1>4, ArraysAssumption
<1>6. \A i \in 1 .. list.len : heap'[a][i] = heap[a][i]
  <2>1. heap' = [heap EXCEPT ![list.array] = WithCells(@, list.len, Given(s))]
    BY <1>1, <1>4 DEF AppendTo
  <2>2. heap'[a] = WithCells(heap[a], list.len, Given(s))
    BY <1>4, <2>1 DEF RequestInv
  <2>3. /\ heap[a] \in Seq(Cell) /\ list.len \in Nat
        /\ Given(s) \in Seq(Cell) /\ list.len + Len(Given(s)) <= Len(heap[a])
    BY <1>2, <1>3, <1>4, RoomFacts
  <2> QED
    BY <2>2, <2>3, WriteKeeps
<1>7. next'[r] # next[r]
  BY <1>1 DEF AppendTo, Applied, RequestInv
<1> QED
  BY <1>2, <1>4, <1>5, <1>6, <1>7

\* For any options, arrays and number of Runs: a caller's array changes by WithCmdArgs only,
\* behind the slice that WithCmd was given (options.go:58-72, 22-27).
THEOREM OnlyCommandsShare == Spec => OnlyCmdArgsWrites
<1>1. Init => RequestInv
  BY InitInv
<1>2. RequestInv /\ [Next]_vars => RequestInv'
  BY NextKeeps
<1>3. RequestInv /\ [Next]_vars =>
        [\A a \in Arrays : heap'[a] # heap[a] =>
           \E r \in Runs :
             /\ next'[r] # next[r] /\ Current(r).how = "append" /\ Current(r).field = "cmd"
             /\ req[r]["cmd"].array = a
             /\ \A i \in 1 .. req[r]["cmd"].len : heap'[a][i] = heap[a][i]]_vars
  BY WritesAreCmdArgs
<1> QED
  BY <1>1, <1>2, <1>3, PTL DEF Spec, OnlyCmdArgsWrites

-----------------------------------------------------------------------------
(* Numbers: the last of a set of options.                                  *)

\* The least element of a set of numbers.
LEMMA LeastNumber ==
  ASSUME NEW T \in SUBSET Nat, T # {}
  PROVE  \E m \in T : \A n \in T : m <= n
<1>1. PICK m \in T : \A n \in T : ~(<<n, m>> \in OpToRel(<, Nat))
  BY NatLessThanWellFounded, WFMin
<1>2. ASSUME NEW n \in T PROVE m <= n
  <2>1. m \in Nat /\ n \in Nat
    OBVIOUS
  <2>2. ~(n < m)
    BY <1>1, <2>1 DEF OpToRel
  <2> QED
    BY <2>1, <2>2
<1> QED
  BY <1>2

LEMMA LatestFacts ==
  ASSUME NEW n \in Nat, NEW S \in SUBSET (1 .. n)
  PROVE  /\ Latest(S) \in 0 .. n
         /\ Latest(S) = 0 <=> S = {}
         /\ Latest(S) # 0 => Latest(S) \in S /\ \A j \in S : j <= Latest(S)
<1>1. CASE S = {}
  BY <1>1 DEF Latest
<1>2. CASE S # {}
  <2> DEFINE T == {k \in Nat : \A j \in S : j <= k}
  <2>1. n \in T
    OBVIOUS
  <2>2. PICK m \in T : \A k \in T : m <= k
    BY <2>1, LeastNumber
  <2>3. m \in S
    <3> SUFFICES ASSUME m \notin S PROVE FALSE
      OBVIOUS
    <3>1. PICK j \in S : TRUE
      BY <1>2
    <3>2. m \in Nat /\ j \in 1 .. n /\ j <= m
      BY <3>1
    <3>3. m - 1 \in T
      BY <3>2
    <3> QED
      BY <2>2, <3>2, <3>3
  <2>4. \E x \in S : \A y \in S : x >= y
    BY <2>3
  <2> DEFINE l == Max(S)
  <2>5. l \in S /\ \A y \in S : l >= y
    BY <2>4 DEF Max
  <2>6. Latest(S) = l
    BY <1>2 DEF Latest
  <2>7. l \in 1 .. n
    BY <2>5
  <2> HIDE DEF l
  <2> QED
    BY <1>2, <2>5, <2>6, <2>7
<1> QED
  BY <1>1, <1>2

\* A last element is the latest.
LEMMA LatestLast ==
  ASSUME NEW n \in Nat, NEW S \in SUBSET (1 .. n + 1), n + 1 \in S
  PROVE  Latest(S) = n + 1
<1>1. Latest(S) \in 0 .. n + 1 /\ Latest(S) # 0 /\ \A j \in S : j <= Latest(S)
  BY LatestFacts
<1> QED
  BY <1>1

-----------------------------------------------------------------------------
(* Concatenation: g is what FlattenSeq computes on its way through parts.  *)

Joins(parts, n, g) ==
  /\ g \in [1 .. n -> Seq(Cell)]
  /\ \A i \in 1 .. n : g[i] = IF i = 1 THEN parts[i] ELSE g[i - 1] \o parts[i]

LEMMA JoinExists ==
  ASSUME NEW parts \in Seq(Seq(Cell)), NEW n \in 0 .. Len(parts)
  PROVE  \E g : Joins(parts, n, g)
<1> DEFINE T == {k \in 0 .. Len(parts) : ~\E g : Joins(parts, k, g)}
<1> SUFFICES ASSUME T # {} PROVE FALSE
  OBVIOUS
<1>0. T \in SUBSET Nat /\ Len(parts) \in Nat
  OBVIOUS
<1>a. \A k : k \in T <=> k \in 0 .. Len(parts) /\ ~\E g : Joins(parts, k, g)
  OBVIOUS
<1> HIDE DEF T
<1>1. PICK m \in T : \A k \in T : m <= k
  BY <1>0, LeastNumber
<1>2. m \in 0 .. Len(parts) /\ ~\E g : Joins(parts, m, g)
  BY <1>a
<1>3. m # 0
  <2>1. Joins(parts, 0, [i \in 1 .. 0 |-> <<>>])
    BY DEF Joins
  <2> QED
    BY <1>2, <2>1
<1>4. m - 1 \in 0 .. Len(parts) /\ m - 1 \notin T
  <2>1. m - 1 \in 0 .. Len(parts) /\ ~(m <= m - 1)
    BY <1>0, <1>2, <1>3
  <2> QED
    BY <1>1, <2>1
<1>5. PICK g : Joins(parts, m - 1, g)
  BY <1>4, <1>a
<1> DEFINE h == [i \in 1 .. m |-> IF i = m THEN (IF m = 1 THEN parts[m] ELSE g[m - 1] \o parts[m]) ELSE g[i]]
<1>6. \A i \in 1 .. m : parts[i] \in Seq(Cell)
  BY <1>2
<1>7. \A i \in 1 .. m - 1 : g[i] \in Seq(Cell) /\ g[i] = IF i = 1 THEN parts[i] ELSE g[i - 1] \o parts[i]
  BY <1>5 DEF Joins
<1>8. \A i \in 1 .. m : h[i] \in Seq(Cell)
  BY <1>2, <1>3, <1>6, <1>7
<1>9. \A i \in 1 .. m : h[i] = IF i = 1 THEN parts[i] ELSE h[i - 1] \o parts[i]
  <2> TAKE i \in 1 .. m
  <2>1. CASE i = m
    BY <1>2, <1>3, <2>1
  <2>2. CASE i # m
    <3>1. i \in 1 .. m - 1 /\ (i # 1 => i - 1 \in 1 .. m /\ i - 1 # m)
      BY <1>0, <1>2, <2>2
    <3>2. h[i] = g[i] /\ (i # 1 => h[i - 1] = g[i - 1])
      BY <2>2, <3>1
    <3> QED
      BY <1>7, <3>1, <3>2
  <2> QED
    BY <2>1, <2>2
<1>10. Joins(parts, m, h)
  BY <1>8, <1>9 DEF Joins
<1> QED
  BY <1>2, <1>10

LEMMA FlattenIsJoin ==
  ASSUME NEW parts \in Seq(Seq(Cell)), NEW g, Joins(parts, Len(parts), g), Len(parts) # 0
  PROVE  FlattenSeq(parts) = g[Len(parts)]
<1> DEFINE n == Len(parts)
           Rec(f) == f = [i \in 1 .. n |-> IF i = 1 THEN parts[i] ELSE f[i - 1] \o parts[i]]
           h == CHOOSE f : Rec(f)
<1>0. n \in Nat \ {0}
  OBVIOUS
<1>1. FlattenSeq(parts) = h[n]
  BY DEF FlattenSeq
<1>2. Rec(g)
  BY DEF Joins
<1>3. Rec(h)
  BY <1>2
<1>4. \A i \in 1 .. n : h[i] = IF i = 1 THEN parts[i] ELSE h[i - 1] \o parts[i]
  BY <1>3
<1>5. \A i \in 1 .. n : g[i] = IF i = 1 THEN parts[i] ELSE g[i - 1] \o parts[i]
  BY <1>2
<1> HIDE DEF h
<1> DEFINE T == {i \in 1 .. n : h[i] # g[i]}
<1>6. T = {}
  <2> SUFFICES ASSUME T # {} PROVE FALSE
    OBVIOUS
  <2>0. T \in SUBSET Nat
    OBVIOUS
  <2>1. PICK m \in T : \A k \in T : m <= k
    BY <2>0, LeastNumber
  <2>2. m \in 1 .. n /\ h[m] # g[m]
    OBVIOUS
  <2>3. m # 1
    BY <1>0, <1>4, <1>5, <2>2
  <2>4. m - 1 \in 1 .. n /\ h[m - 1] = g[m - 1]
    BY <1>0, <2>1, <2>2, <2>3
  <2> QED
    BY <1>4, <1>5, <2>2, <2>3, <2>4
<1> QED
  BY <1>0, <1>1, <1>6

LEMMA FlattenEmpty == FlattenSeq(<<>>) = <<>>
BY DEF FlattenSeq

LEMMA FlattenAppend ==
  ASSUME NEW parts \in Seq(Seq(Cell)), NEW x \in Seq(Cell)
  PROVE  /\ FlattenSeq(parts) \in Seq(Cell)
         /\ FlattenSeq(Append(parts, x)) = FlattenSeq(parts) \o x
<1> DEFINE n == Len(parts)
           longer == Append(parts, x)
<1>1. /\ longer \in Seq(Seq(Cell)) /\ Len(longer) = n + 1 /\ n \in Nat
      /\ longer[n + 1] = x /\ \A i \in 1 .. n : longer[i] = parts[i]
  BY AppendProperties
<1> HIDE DEF longer
<1>2. PICK g : Joins(longer, n + 1, g)
  <2>1. n + 1 \in 0 .. Len(longer)
    BY <1>1
  <2> QED
    BY <1>1, <2>1, JoinExists
<1>3. FlattenSeq(longer) = g[n + 1]
  BY <1>1, <1>2, FlattenIsJoin
<1>6. \A i \in 1 .. n + 1 : g[i] \in Seq(Cell) /\ g[i] = IF i = 1 THEN longer[i] ELSE g[i - 1] \o longer[i]
  BY <1>2 DEF Joins
<1>7. g[n + 1] = IF n = 0 THEN x ELSE g[n] \o x
  <2>1. n + 1 \in 1 .. n + 1 /\ (n + 1) - 1 = n /\ (n + 1 = 1 <=> n = 0)
    BY <1>1
  <2> QED
    BY <1>1, <1>6, <2>1
<1>4. CASE n = 0
  <2>1. parts = <<>>
    BY <1>4
  <2>2. <<>> \o x = x
    BY ConcatEmptySeq
  <2>3. FlattenSeq(parts) = <<>> /\ <<>> \in Seq(Cell)
    BY <2>1, FlattenEmpty
  <2>4. FlattenSeq(longer) = x
    BY <1>3, <1>4, <1>7
  <2> QED
    BY <2>2, <2>3, <2>4 DEF longer
<1>5. CASE n # 0
  <2> DEFINE h == [i \in 1 .. n |-> g[i]]
  <2>1. \A i \in 1 .. n : h[i] \in Seq(Cell) /\ h[i] = IF i = 1 THEN parts[i] ELSE h[i - 1] \o parts[i]
    <3> TAKE i \in 1 .. n
    <3>1. i \in 1 .. n + 1 /\ (i # 1 => i - 1 \in 1 .. n)
      BY <1>1
    <3>2. h[i] = g[i] /\ (i # 1 => h[i - 1] = g[i - 1])
      BY <3>1
    <3>3. longer[i] = parts[i]
      BY <1>1
    <3> HIDE DEF h
    <3> QED
      BY <1>6, <3>1, <3>2, <3>3
  <2>2. h \in [1 .. n -> Seq(Cell)]
    BY <2>1
  <2>3. n \in 1 .. n /\ h[n] = g[n]
    BY <1>1, <1>5
  <2> HIDE DEF h
  <2>4. Joins(parts, n, h)
    BY <2>1, <2>2 DEF Joins
  <2>5. FlattenSeq(parts) = h[n]
    BY <1>5, <2>4, FlattenIsJoin
  <2> QED
    BY <1>3, <1>5, <1>7, <2>1, <2>3, <2>5 DEF longer
<1> QED
  BY <1>4, <1>5

LEMMA FlattenNothing ==
  ASSUME NEW parts \in Seq(Seq(Cell)), \A i \in 1 .. Len(parts) : parts[i] = <<>>
  PROVE  FlattenSeq(parts) = <<>>
<1> DEFINE n == Len(parts)
           g == [i \in 1 .. n |-> <<>>]
<1>1. CASE n = 0
  <2>1. parts = <<>>
    BY <1>1
  <2> QED
    BY <2>1, FlattenEmpty
<1>2. CASE n # 0
  <2>1. n \in 1 .. n /\ \A i \in 1 .. n : g[i] = <<>> /\ (i # 1 => g[i - 1] = <<>>)
    BY <1>2
  <2>2. <<>> \o <<>> = <<>>
    OBVIOUS
  <2>3. g \in [1 .. n -> Seq(Cell)]
    OBVIOUS
  <2> HIDE DEF g
  <2>4. Joins(parts, n, g)
    BY <2>1, <2>2, <2>3 DEF Joins
  <2> QED
    BY <1>2, <2>1, <2>4, FlattenIsJoin
<1> QED
  BY <1>1, <1>2

-----------------------------------------------------------------------------
(* What one more option asks for.                                          *)

LEMMA AtFirstFacts ==
  ASSUME NEW s \in Slices
  PROVE  /\ AtFirst(s) \in Seq(Cell) /\ Len(AtFirst(s)) = s.len /\ s.len \in Nat \ {0}
         /\ s.array \in Arrays
<1>1. s.array \in Arrays /\ s.len \in Cells /\ s.len <= Len(Content[s.array])
  BY DEF Slices
<1>2. \A a \in Arrays : Content[a] \in Seq(Cell)
  BY ArraysAssumption DEF Cell
<1>3. Cells \subseteq Nat \ {0}
  BY <1>2 DEF Cells
<1>4. s.len \in 0 .. Len(Content[s.array])
  <2>1. Content[s.array] \in Seq(Cell)
    BY <1>1, <1>2
  <2>2. Len(Content[s.array]) \in Nat
    BY <2>1, LenProperties
  <2>3. s.len \in Nat
    BY <1>1, <1>3
  <2> QED
    BY <1>1, <2>2, <2>3
<1> QED
  BY <1>1, <1>2, <1>3, <1>4, SubSeqProperties, LenProperties DEF AtFirst

\* One more option, and what it says.
LEMMA OneMore ==
  ASSUME NEW os \in Seq(Option), NEW o \in Option
  PROVE  /\ Append(os, o) \in Seq(Option) /\ Len(os) \in Nat
         /\ DOMAIN os = 1 .. Len(os) /\ DOMAIN Append(os, o) = 1 .. Len(os) + 1
         /\ \A i \in 1 .. Len(os) : os[i] \in Option /\ Append(os, o)[i] = os[i]
         /\ Append(os, o)[Len(os) + 1] = o
BY AppendProperties

LEMMA WhereFacts ==
  ASSUME NEW os \in Seq(Option), NEW how, NEW f
  PROVE  Where(os, how, f) \in SUBSET (1 .. Len(os))
BY DEF Where

LEMMA WhereAppend ==
  ASSUME NEW os \in Seq(Option), NEW o \in Option, NEW how, NEW f
  PROVE  Where(Append(os, o), how, f) =
           IF o.how = how /\ o.field = f THEN Where(os, how, f) \cup {Len(os) + 1}
           ELSE Where(os, how, f)
<1> DEFINE n == Len(os)
           more == Append(os, o)
<1>1. /\ n \in Nat /\ DOMAIN os = 1 .. n /\ DOMAIN more = 1 .. n + 1
      /\ \A i \in 1 .. n : more[i] = os[i]
      /\ more[n + 1] = o
  BY OneMore
<1> HIDE DEF more, n
<1>2. 1 .. n + 1 = (1 .. n) \cup {n + 1} /\ n + 1 \notin 1 .. n
  BY <1>1
<1>3. \A i : i \in Where(more, how, f) <=>
             \/ i \in Where(os, how, f)
             \/ i = n + 1 /\ o.how = how /\ o.field = f
  BY <1>1, <1>2 DEF Where
<1>4. Where(more, how, f) =
        IF o.how = how /\ o.field = f THEN Where(os, how, f) \cup {n + 1} ELSE Where(os, how, f)
  BY <1>3
<1> QED
  BY <1>4 DEF more, n

LEMMA ScalarAppend ==
  ASSUME NEW os \in Seq(Option), NEW o \in Option, NEW f
  PROVE  ScalarAsked(Append(os, o), f) =
           IF o.how = "set" /\ o.field = f THEN o.value ELSE ScalarAsked(os, f)
<1> DEFINE n == Len(os)
           more == Append(os, o)
           S == Where(os, "set", f)
           T == Where(more, "set", f)
<1>1. n \in Nat /\ S \in SUBSET (1 .. n) /\ T \in SUBSET (1 .. n + 1)
  BY OneMore, WhereFacts
<1>2. CASE o.how = "set" /\ o.field = f
  <2>1. Latest(T) = n + 1
    BY <1>1, <1>2, WhereAppend, LatestLast
  <2> QED
    BY <1>1, <1>2, <2>1, OneMore DEF ScalarAsked
<1>3. CASE ~(o.how = "set" /\ o.field = f)
  <2>1. T = S
    BY <1>3, WhereAppend
  <2>2. Latest(S) \in 0 .. n
    BY <1>1, LatestFacts
  <2>3. Latest(S) # 0 => more[Latest(S)] = os[Latest(S)]
    BY <1>1, <2>2, OneMore
  <2> QED
    BY <1>3, <2>1, <2>3 DEF ScalarAsked
<1> QED
  BY <1>2, <1>3

LEMMA MapAppend ==
  ASSUME NEW os \in Seq(Option), NEW o \in Option, NEW f
  PROVE  MapAsked(Append(os, o), f) =
           IF o.how = "merge" /\ o.field = f THEN Merged(MapAsked(os, f), o.value)
           ELSE MapAsked(os, f)
<1> DEFINE n == Len(os)
           more == Append(os, o)
           merges == o.how = "merge" /\ o.field = f
<1>1. ASSUME NEW k \in Keys
      PROVE  MapAsked(more, f)[k] = IF merges /\ o.value[k] # None THEN o.value[k] ELSE MapAsked(os, f)[k]
  <2> DEFINE S == GivesKey(os, f, k)
             T == GivesKey(more, f, k)
  <2>1. n \in Nat /\ S \in SUBSET (1 .. n) /\ T \in SUBSET (1 .. n + 1)
    <3>1. n \in Nat /\ more \in Seq(Option) /\ Len(more) = n + 1
      BY AppendProperties
    <3>2. Where(os, "merge", f) \in SUBSET (1 .. n) /\ Where(more, "merge", f) \in SUBSET (1 .. n + 1)
      BY <3>1, WhereFacts
    <3> QED
      BY <3>1, <3>2 DEF GivesKey
  <2>2. CASE merges /\ o.value[k] # None
    <3>1. n + 1 \in T
      BY <2>2, WhereAppend, OneMore DEF GivesKey
    <3>2. Latest(T) = n + 1
      BY <2>1, <3>1, LatestLast
    <3> QED
      BY <2>1, <2>2, <3>2, OneMore DEF MapAsked
  <2>3. CASE ~(merges /\ o.value[k] # None)
    <3>1. \A i \in Where(os, "merge", f) : i \in 1 .. n /\ more[i] = os[i]
      BY WhereFacts, OneMore
    <3>2. T = S
      BY <2>1, <2>3, <3>1, WhereAppend, OneMore DEF GivesKey
    <3>3. Latest(S) \in 0 .. n
      BY <2>1, LatestFacts
    <3>4. Latest(S) # 0 => more[Latest(S)] = os[Latest(S)]
      BY <2>1, <3>3, OneMore
    <3> QED
      BY <2>3, <3>2, <3>4 DEF MapAsked
  <2> QED
    BY <2>2, <2>3
<1>2. \A os2 : MapAsked(os2, f) = [k \in Keys |-> MapAsked(os2, f)[k]]
  BY DEF MapAsked
<1>3. CASE merges
  <2>1. Merged(MapAsked(os, f), o.value) = [k \in Keys |-> MapAsked(more, f)[k]]
    BY <1>1, <1>3 DEF Merged
  <2> QED
    BY <1>2, <1>3, <2>1
<1>4. CASE ~merges
  <2>1. \A k \in Keys : MapAsked(more, f)[k] = MapAsked(os, f)[k]
    BY <1>1, <1>4
  <2> QED
    BY <1>2, <1>4, <2>1
<1> QED
  BY <1>3, <1>4

LEMMA PartFacts ==
  ASSUME NEW os \in Seq(Option), NEW f, NEW j \in 1 .. Len(os)
  PROVE  Part(os, f, j) \in Seq(Cell)
<1> DEFINE S == Where(os, "assign", f)
<1>1. S \in SUBSET (1 .. Len(os)) /\ Len(os) \in Nat
  BY WhereFacts
<1>2. j = Latest(S) => j \in S
  BY <1>1, LatestFacts
<1>3. j \in S \cup Where(os, "append", f) => os[j] \in Option /\ os[j].how \in {"assign", "append"}
  BY DEF Where
<1>4. j \in S \cup Where(os, "append", f) => AtFirst(os[j].value) \in Seq(Cell)
  BY <1>3, OptionFacts, AtFirstFacts
<1> QED
  BY <1>2, <1>4 DEF Part

LEMMA ListAskedType ==
  ASSUME NEW os \in Seq(Option), NEW f
  PROVE  /\ [j \in DOMAIN os |-> Part(os, f, j)] \in Seq(Seq(Cell))
         /\ ListAsked(os, f) \in Seq(Cell)
<1> DEFINE parts == [j \in DOMAIN os |-> Part(os, f, j)]
<1>1. DOMAIN os = 1 .. Len(os) /\ Len(os) \in Nat
  OBVIOUS
<1>2. parts \in [1 .. Len(os) -> Seq(Cell)]
  BY <1>1, PartFacts
<1>3. parts \in Seq(Seq(Cell))
  BY <1>1, <1>2, SeqDef
<1>4. <<>> \in Seq(Cell)
  OBVIOUS
<1> HIDE DEF parts
<1>5. FlattenSeq(parts) \in Seq(Cell)
  BY <1>3, <1>4, FlattenAppend
<1> QED
  BY <1>3, <1>5 DEF ListAsked, parts

LEMMA ListAppend ==
  ASSUME NEW os \in Seq(Option), NEW o \in Option, NEW f
  PROVE  ListAsked(Append(os, o), f) =
           IF o.how = "assign" /\ o.field = f THEN AtFirst(o.value)
           ELSE IF o.how = "append" /\ o.field = f THEN ListAsked(os, f) \o AtFirst(o.value)
           ELSE ListAsked(os, f)
<1> DEFINE n == Len(os)
           more == Append(os, o)
           S == Where(os, "assign", f)
           x == Part(more, f, n + 1)
           before == [j \in 1 .. n |-> Part(more, f, j)]
           parts == [j \in DOMAIN os |-> Part(os, f, j)]
<1>1. /\ n \in Nat /\ DOMAIN os = 1 .. n /\ DOMAIN more = 1 .. n + 1 /\ more \in Seq(Option)
      /\ (\A i \in 1 .. n : more[i] = os[i]) /\ more[n + 1] = o /\ Len(more) = n + 1
  BY OneMore, AppendProperties
<1>2. before \in Seq(Seq(Cell)) /\ Len(before) = n /\ x \in Seq(Cell)
  <2>1. \A j \in 1 .. n + 1 : Part(more, f, j) \in Seq(Cell)
    BY <1>1, PartFacts
  <2>2. 1 .. n \subseteq 1 .. n + 1 /\ n + 1 \in 1 .. n + 1
    BY <1>1
  <2>3. before \in [1 .. n -> Seq(Cell)]
    BY <2>1, <2>2
  <2> QED
    BY <1>1, <2>1, <2>2, <2>3, SeqDef, LenProperties
<1>3. [j \in DOMAIN more |-> Part(more, f, j)] = Append(before, x)
  <2> DEFINE all == [j \in DOMAIN more |-> Part(more, f, j)]
  <2>1. DOMAIN Append(before, x) = 1 .. n + 1 /\ DOMAIN all = 1 .. n + 1
    BY <1>1, <1>2, AppendProperties
  <2>2. \A j \in 1 .. n + 1 : all[j] = Append(before, x)[j]
    BY <1>1, <1>2, AppendProperties
  <2>3. all = [j \in 1 .. n + 1 |-> all[j]] /\ Append(before, x) = [j \in 1 .. n + 1 |-> Append(before, x)[j]]
    BY <1>2, <2>1, AppendProperties
  <2> QED
    BY <2>2, <2>3
<1>4. ListAsked(more, f) = FlattenSeq(before) \o x /\ FlattenSeq(before) \in Seq(Cell)
  BY <1>2, <1>3, FlattenAppend DEF ListAsked
<1>5. ListAsked(os, f) = FlattenSeq(parts)
  BY DEF ListAsked
<1> HIDE DEF more, before, parts, x
<1>6. CASE o.how = "assign" /\ o.field = f
  <2>1. Latest(Where(more, "assign", f)) = n + 1
    BY <1>1, <1>6, WhereFacts, WhereAppend, LatestLast DEF more
  <2>2. x = AtFirst(o.value)
    BY <1>1, <2>1 DEF x, Part
  <2>3. \A j \in 1 .. n : before[j] = <<>>
    BY <1>1, <2>1 DEF before, Part
  <2>4. FlattenSeq(before) = <<>>
    BY <1>2, <2>3, FlattenNothing
  <2> QED
    BY <1>2, <1>4, <1>6, <2>2, <2>4, ConcatEmptySeq DEF more
<1>7. CASE ~(o.how = "assign" /\ o.field = f)
  <2>1. Where(more, "assign", f) = S
    BY <1>7, WhereAppend DEF more
  <2>2. Latest(S) \in 0 .. n
    BY <1>1, WhereFacts, LatestFacts
  <2>3. \A j \in 1 .. n : j \in Where(more, "append", f) <=> j \in Where(os, "append", f)
    BY <1>1 DEF Where
  <2>4. \A j \in 1 .. n : before[j] = Part(os, f, j)
    BY <1>1, <2>1, <2>3 DEF before, Part
  <2>5. before = parts
    BY <1>1, <2>4 DEF before, parts
  <2>6. x = IF o.how = "append" /\ o.field = f THEN AtFirst(o.value) ELSE <<>>
    <3>1. n + 1 # Latest(S) /\ n + 1 > Latest(S)
      BY <1>1, <2>2
    <3>2. n + 1 \in Where(more, "append", f) <=> o.how = "append" /\ o.field = f
      BY <1>1 DEF Where
    <3> QED
      BY <1>1, <2>1, <3>1, <3>2 DEF x, Part
  <2> QED
    BY <1>4, <1>5, <1>7, <2>5, <2>6, ConcatEmptySeq DEF more
<1> QED
  BY <1>6, <1>7

\* Before the first option nothing has been asked for.
LEMMA NothingAsked ==
  /\ \A f : ScalarAsked(<<>>, f) = None
  /\ \A f : MapAsked(<<>>, f) = [k \in Keys |-> None]
  /\ \A f : ListAsked(<<>>, f) = <<>>
<1>1. \A how, f : Where(<<>>, how, f) = {}
  BY DEF Where
<1>2. \A f, k : GivesKey(<<>>, f, k) = {}
  BY <1>1 DEF GivesKey
<1>3. \A f : ListAsked(<<>>, f) = <<>>
  <2> TAKE f
  <2>1. [j \in DOMAIN <<>> |-> Part(<<>>, f, j)] = <<>>
    OBVIOUS
  <2> QED
    BY <2>1, FlattenEmpty DEF ListAsked
<1>4. \A f : ScalarAsked(<<>>, f) = None
  BY <1>1 DEF ScalarAsked, Latest
<1>5. \A f : MapAsked(<<>>, f) = [k \in Keys |-> None]
  BY <1>2 DEF MapAsked, Latest
<1> QED
  BY <1>3, <1>4, <1>5

-----------------------------------------------------------------------------
(* The options applied so far, and the arrays they give.                   *)

\* The options before the n-th.
Before(os, n) == SubSeq(os, 1, IF n <= Len(os) THEN n - 1 ELSE Len(os))

LEMMA BeforeFacts ==
  ASSUME NEW os \in Seq(Option), NEW m \in Nat \ {0}
  PROVE  /\ Before(os, m) \in Seq(Option)
         /\ \A i : i \in DOMAIN Before(os, m) <=> i \in DOMAIN os /\ i < m
         /\ \A i \in DOMAIN Before(os, m) : Before(os, m)[i] = os[i]
         /\ m > Len(os) => Before(os, m) = os
<1> DEFINE n == IF m <= Len(os) THEN m - 1 ELSE Len(os)
<1>1. Len(os) \in Nat /\ DOMAIN os = 1 .. Len(os)
  OBVIOUS
<1>2. n \in 0 .. Len(os) /\ Before(os, m) = SubSeq(os, 1, n)
  BY <1>1 DEF Before
<1>3. \A i : i \in 1 .. n <=> i \in DOMAIN os /\ i < m
  BY <1>1
<1>6. m > Len(os) => n = Len(os)
  BY <1>1
<1> HIDE DEF n
<1>4. /\ Before(os, m) \in Seq(Option) /\ Len(Before(os, m)) = n
      /\ \A i \in 1 .. n : Before(os, m)[i] = os[i]
  <2>1. \A i \in 1 .. n : 1 + i - 1 = i
    BY <1>2
  <2>2. 1 \in 1 .. Len(os) + 1 /\ n - 1 + 1 = n /\ (~(1 <= n) => n = 0)
    BY <1>1, <1>2
  <2> QED
    BY <1>1, <1>2, <2>1, <2>2, SubSeqProperties
<1>5. DOMAIN Before(os, m) = 1 .. n
  BY <1>4, LenProperties
<1>7. SubSeq(os, 1, Len(os)) = os
  BY SubSeqFull
<1> QED
  BY <1>2, <1>3, <1>4, <1>5, <1>6, <1>7

LEMMA PastFacts ==
  ASSUME RequestInv, NEW r \in Runs
  PROVE  /\ Past(r) \in Seq(Option) /\ opts[r] \in Seq(Option) /\ next[r] \in Nat \ {0}
         /\ \A i : i \in DOMAIN Past(r) <=> i \in DOMAIN opts[r] /\ i < next[r]
         /\ \A i \in DOMAIN Past(r) : Past(r)[i] = opts[r][i]
         /\ next[r] > Len(opts[r]) => Past(r) = opts[r]
<1>1. opts[r] \in Seq(Option) /\ next[r] \in Nat \ {0}
  BY DEF RequestInv
<1>2. Past(r) = Before(opts[r], next[r])
  BY DEF Past, Before
<1> DEFINE before == Before(opts[r], next[r])
<1>3. /\ before \in Seq(Option)
      /\ \A i : i \in DOMAIN before <=> i \in DOMAIN opts[r] /\ i < next[r]
      /\ \A i \in DOMAIN before : before[i] = opts[r][i]
      /\ next[r] > Len(opts[r]) => before = opts[r]
  BY <1>1, BeforeFacts
<1> HIDE DEF before
<1>4. Past(r) = before
  BY <1>2 DEF before
<1> QED
  BY <1>1, <1>3, <1>4

LEMMA PastMore ==
  ASSUME RequestInv, NEW r \in Runs, Due(r), Applied(r)
  PROVE  /\ Past(r)' = Append(Past(r), Current(r)) /\ Past(r) \in Seq(Option) /\ Current(r) \in Option
         /\ next[r] \in DOMAIN opts[r] /\ Current(r) = opts[r][next[r]]
         /\ next[r] \notin DOMAIN Past(r)
<1> DEFINE os == opts[r]
           n == next[r]
           more == Append(Past(r), Current(r))
<1>1. os \in Seq(Option) /\ n \in Nat \ {0} /\ n <= Len(os) /\ n \in DOMAIN os
  BY DEF RequestInv, Due
<1>2. opts' = opts /\ next'[r] = n + 1
  BY DEF Applied, RequestInv
<1>3. Current(r) \in Option /\ Current(r) = os[n]
  BY CurrentFacts DEF Current
<1>4. /\ Past(r)' \in Seq(Option) /\ \A i : i \in DOMAIN Past(r)' <=> i \in DOMAIN os /\ i < n + 1
      /\ \A i \in DOMAIN Past(r)' : Past(r)'[i] = os[i]
  <2>1. Past(r)' = Before(os, n + 1)
    BY <1>2 DEF Past, Before
  <2>2. n + 1 \in Nat \ {0}
    BY <1>1
  <2>3. /\ Before(os, n + 1) \in Seq(Option)
        /\ \A i : i \in DOMAIN Before(os, n + 1) <=> i \in DOMAIN os /\ i < n + 1
        /\ \A i \in DOMAIN Before(os, n + 1) : Before(os, n + 1)[i] = os[i]
    BY <1>1, <2>2, BeforeFacts
  <2> QED
    BY <2>1, <2>3
<1>5. /\ Past(r) \in Seq(Option) /\ \A i : i \in DOMAIN Past(r) <=> i \in DOMAIN os /\ i < n
      /\ \A i \in DOMAIN Past(r) : Past(r)[i] = os[i]
  BY PastFacts
<1>6. DOMAIN os = 1 .. Len(os) /\ Len(os) \in Nat
  BY <1>1
<1>7. DOMAIN Past(r)' = 1 .. n /\ DOMAIN Past(r) = 1 .. n - 1
  <2>1. \A i : i \in DOMAIN os /\ i < n + 1 <=> i \in 1 .. n
    BY <1>1, <1>6
  <2>2. \A i : i \in DOMAIN os /\ i < n <=> i \in 1 .. n - 1
    BY <1>1, <1>6
  <2>3. DOMAIN Past(r)' = 1 .. Len(Past(r)') /\ DOMAIN Past(r) = 1 .. Len(Past(r))
    BY <1>4, <1>5, LenProperties
  <2> QED
    BY <1>4, <1>5, <2>1, <2>2, <2>3
<1>8. Len(Past(r)) = n - 1 /\ Len(Past(r)') = n
  BY <1>1, <1>4, <1>5, <1>7, LenProperties
<1>9. /\ more \in Seq(Option) /\ Len(more) = n
      /\ \A i \in 1 .. n - 1 : more[i] = os[i]
      /\ more[n] = os[n]
  BY <1>1, <1>3, <1>5, <1>7, <1>8, AppendProperties
<1>10. \A i \in 1 .. n : more[i] = Past(r)'[i]
  BY <1>1, <1>4, <1>7, <1>9
<1>11. more = Past(r)'
  BY <1>4, <1>8, <1>9, <1>10, SeqEqual
<1> QED
  BY <1>1, <1>3, <1>5, <1>7, <1>11

LEMMA AssignedFacts ==
  ASSUME RequestInv, NEW r \in Runs, NEW f, NEW i \in Where(Past(r), "assign", f)
  PROVE  /\ i \in DOMAIN opts[r] /\ i < next[r] /\ Past(r)[i] = opts[r][i]
         /\ opts[r][i].how = "assign" /\ opts[r][i].field = f
         /\ opts[r][i].value.array \in Mentioned(opts[r], f)
         /\ i \in Uses(opts[r], opts[r][i].value.array)
<1>1. i \in DOMAIN Past(r) /\ Past(r)[i].how = "assign" /\ Past(r)[i].field = f
  BY DEF Where
<1>2. i \in DOMAIN opts[r] /\ i < next[r] /\ Past(r)[i] = opts[r][i]
  BY <1>1, PastFacts
<1> QED
  BY <1>1, <1>2 DEF Mentioned, Where, Uses

LEMMA OptionsStay ==
  ASSUME RequestInv, [Next]_vars
  PROVE  opts' = opts /\ \A r \in Runs : next'[r] \in {next[r], next[r] + 1}
<1>1. CASE UNCHANGED vars
  BY <1>1 DEF vars
<1>2. ASSUME NEW w \in Runs, Applied(w) PROVE opts' = opts /\ \A r \in Runs : next'[r] \in {next[r], next[r] + 1}
  BY <1>2 DEF Applied, RequestInv
<1>3. ASSUME NEW w \in Runs, Validate(w) PROVE opts' = opts /\ \A r \in Runs : next'[r] \in {next[r], next[r] + 1}
  BY <1>3 DEF Validate, RequestInv
<1> QED
  BY <1>1, <1>2, <1>3 DEF Next, Set, Merge, Assign, AppendTo, Create

\* What has been applied stays applied.
LEMMA PastGrows ==
  ASSUME RequestInv, [Next]_vars, NEW r \in Runs, NEW how, NEW f, NEW i \in Where(Past(r), how, f)
  PROVE  i \in Where(Past(r)', how, f) /\ Past(r)'[i] = Past(r)[i]
<1> DEFINE now == Before(opts[r], next'[r])
<1>1. opts[r] \in Seq(Option) /\ next[r] \in Nat \ {0} /\ next'[r] \in {next[r], next[r] + 1} /\ opts' = opts
  BY OptionsStay DEF RequestInv
<1>2. Past(r)' = now
  BY <1>1 DEF Past, Before
<1>3. next'[r] \in Nat \ {0} /\ next'[r] >= next[r]
  BY <1>1
<1>4. /\ \A j : j \in DOMAIN now <=> j \in DOMAIN opts[r] /\ j < next'[r]
      /\ \A j \in DOMAIN now : now[j] = opts[r][j]
  BY <1>1, <1>3, BeforeFacts
<1>5. i \in DOMAIN Past(r) /\ i \in DOMAIN opts[r] /\ i < next[r] /\ Past(r)[i] = opts[r][i]
  BY PastFacts DEF Where
<1>6. i \in Nat
  BY <1>1, <1>5
<1>7. i < next'[r]
  BY <1>1, <1>3, <1>5, <1>6
<1>8. i \in DOMAIN now /\ now[i] = Past(r)[i]
  BY <1>4, <1>5, <1>7
<1> HIDE DEF now
<1> QED
  BY <1>2, <1>8 DEF Where

\* An array changes by somebody's WithCmdArgs, and it is known whose.
LEMMA WriteFacts ==
  ASSUME RequestInv, WritersInv, [Next]_vars, NEW a \in Arrays
  PROVE  \/ heap'[a] = heap[a] /\ wrote'[a] = wrote[a]
         \/ \E w \in Runs : /\ AppendTo(w) /\ Current(w).field = "cmd" /\ req[w]["cmd"].array = a
                            /\ wrote'[a] = wrote[a] \cup {w}
<1> SUFFICES ASSUME ~(heap'[a] = heap[a] /\ wrote'[a] = wrote[a])
             PROVE  \E w \in Runs : /\ AppendTo(w) /\ Current(w).field = "cmd" /\ req[w]["cmd"].array = a
                                    /\ wrote'[a] = wrote[a] \cup {w}
  OBVIOUS
<1>1. PICK w \in Runs : AppendTo(w)
  BY DEF Next, vars, Set, Merge, Assign, Validate, Create
<1> DEFINE f == Current(w).field
           s == Current(w).value
           list == req[w][f]
<1>2. f \in Appended /\ s \in Slices
  BY <1>1, CurrentFacts, OptionFacts DEF AppendTo
<1>3. list \in List /\ (f # "cmd" => list.array = Own)
  BY <1>2, FieldFacts DEF RequestInv, Proper
<1>4. Room(list, s.len)
  BY <1>1 DEF AppendTo
<1>5. f = "cmd"
  BY <1>3, <1>4 DEF Room
<1>6. /\ heap' = [heap EXCEPT ![list.array] = WithCells(@, list.len, Given(s))]
      /\ wrote' = [wrote EXCEPT ![list.array] = @ \cup {w}]
  BY <1>1, <1>4 DEF AppendTo
<1>7. list.array = a
  BY <1>6 DEF RequestInv, WritersInv
<1>8. wrote'[a] = wrote[a] \cup {w}
  BY <1>6, <1>7 DEF WritersInv
<1> QED
  BY <1>1, <1>5, <1>7, <1>8

LEMMA MentionedFacts ==
  ASSUME RequestInv, NEW r \in Runs, NEW f
  PROVE  Mentioned(opts[r], f) \subseteq Arrays
<1> SUFFICES ASSUME NEW i \in Where(opts[r], "append", f) \cup Where(opts[r], "assign", f)
             PROVE  opts[r][i].value.array \in Arrays
  BY DEF Mentioned
<1>1. opts[r][i] \in Option /\ opts[r][i].how \in {"append", "assign"}
  BY DEF Where, RequestInv
<1> QED
  BY <1>1, OptionFacts, AtFirstFacts

\* Arrays that are undisturbed now were so before.
LEMMA WasUndisturbed ==
  ASSUME RequestInv, WritersInv, [Next]_vars, NEW r \in Runs, NEW f, Undisturbed(r, f)'
  PROVE  Undisturbed(r, f)
<1>1. \A a \in Arrays : wrote[a] \subseteq wrote'[a]
  BY WriteFacts
<1>2. opts' = opts
  BY OptionsStay
<1>3. ASSUME NEW a \in Mentioned(opts[r], f)
      PROVE  wrote[a] = {} \/ (wrote[a] = {r} /\ \A i, j \in Uses(opts[r], a) : i = j)
  <2>1. wrote'[a] = {} \/ (wrote'[a] = {r} /\ \A i, j \in Uses(opts[r], a) : i = j)
    BY <1>2, <1>3 DEF Undisturbed
  <2>2. wrote[a] \subseteq wrote'[a]
    BY <1>1, <1>3, MentionedFacts
  <2> QED
    BY <2>1, <2>2
<1> QED
  BY <1>3 DEF Undisturbed

\* A slice that an undisturbed field is given next has its first contents.
LEMMA GivenIsAtFirst ==
  ASSUME RequestInv, WritersInv, NEW r \in Runs, Due(r), Current(r).how \in {"append", "assign"},
         Undisturbed(r, Current(r).field)
  PROVE  Given(Current(r).value) = AtFirst(Current(r).value)
<1> DEFINE a == Current(r).value.array
           f == Current(r).field
<1>1. /\ Current(r) \in Option /\ Current(r).value \in Slices /\ a \in Arrays
      /\ next[r] \in DOMAIN opts[r] /\ Current(r) = opts[r][next[r]]
  BY CurrentFacts, OptionFacts, AtFirstFacts DEF Due, Current, RequestInv
<1>2. a \in Mentioned(opts[r], f) /\ next[r] \in Uses(opts[r], a)
  BY <1>1 DEF Mentioned, Where, Uses
<1>3. wrote[a] = {} \/ (wrote[a] = {r} /\ \A i, j \in Uses(opts[r], a) : i = j)
  BY <1>2 DEF Undisturbed
<1>4. wrote[a] # {r} \/ ~\A i, j \in Uses(opts[r], a) : i = j
  <2> SUFFICES ASSUME wrote[a] = {r}, \A i, j \in Uses(opts[r], a) : i = j PROVE FALSE
    OBVIOUS
  <2>0. \E i \in Where(Past(r), "assign", "cmd") : Past(r)[i].value.array = a
    <3>1. a \in Arrays /\ r \in wrote[a]
      BY <1>1
    <3> HIDE DEF a
    <3> QED
      BY <3>1 DEF WritersInv
  <2>1. PICK i \in Where(Past(r), "assign", "cmd") : Past(r)[i].value.array = a
    BY <2>0
  <2>2. i \in Uses(opts[r], a) /\ i < next[r]
    BY <2>1, AssignedFacts
  <2>3. next[r] \in Nat
    BY DEF RequestInv
  <2> QED
    BY <1>2, <2>2, <2>3
<1>5. heap[a] = Content[a]
  BY <1>1, <1>3, <1>4 DEF WritersInv
<1> QED
  BY <1>5 DEF Given, AtFirst

\* A list that a step does not put keeps its elements, if its arrays are still undisturbed.
LEMMA ElementsStay ==
  ASSUME RequestInv, WritersInv, [Next]_vars, NEW r \in Runs, NEW f \in Lists, AssignedSoFar(r),
         req'[r][f] = req[r][f], Undisturbed(r, f)'
  PROVE  Elements(req[r][f])' = Elements(req[r][f])
<1> DEFINE list == req[r][f]
           a == list.array
<1>1. CASE a = Own
  BY <1>1 DEF Elements
<1>2. CASE a # Own
  <2>1. PICK i \in Where(Past(r), "assign", f) : Past(r)[i].value.array = a
    BY <1>2 DEF AssignedSoFar
  <2>2. a \in Mentioned(opts[r], f) /\ i \in Uses(opts[r], a) /\ opts[r][i].field = f /\ a \in Arrays
    <3>1. /\ opts[r][i].value.array = a /\ opts[r][i].field = f
          /\ opts[r][i].value.array \in Mentioned(opts[r], f)
          /\ i \in Uses(opts[r], opts[r][i].value.array)
      BY <2>1, AssignedFacts
    <3> QED
      BY <3>1, MentionedFacts
  <2>3. heap'[a] = heap[a]
    <3> SUFFICES ASSUME heap'[a] # heap[a] PROVE FALSE
      OBVIOUS
    <3>1. PICK w \in Runs : /\ AppendTo(w) /\ Current(w).field = "cmd" /\ req[w]["cmd"].array = a
                            /\ wrote'[a] = wrote[a] \cup {w}
      BY <2>2, WriteFacts
    <3>2. wrote'[a] = {r} /\ \A k, j \in Uses(opts[r], a) : k = j
      BY <2>2, <3>1, OptionsStay DEF Undisturbed
    <3>3. w = r
      BY <3>1, <3>2
    <3>4. PICK j \in Where(Past(r), "assign", "cmd") : Past(r)[j].value.array = a
      BY <1>2, <3>1, <3>3, FieldFacts DEF AssignedSoFar
    <3>5. j \in Uses(opts[r], a) /\ opts[r][j].field = "cmd"
      BY <3>4, AssignedFacts
    <3>6. f = "cmd"
      BY <2>2, <3>2, <3>5
    <3>7. req'[r][f] # list
      <4> DEFINE s == Current(r).value
      <4>1. s \in Slices /\ list \in List
        BY <3>1, <3>3, CurrentFacts, OptionFacts DEF AppendTo, RequestInv, Proper
      <4>2. Room(list, s.len) /\ req'[r][f] = Longer(list, s)
        BY <3>1, <3>3, <3>6, FieldFacts DEF AppendTo, Put, RequestInv
      <4>3. req'[r][f].len = list.len + s.len
        BY <4>1, <4>2 DEF Longer, List
      <4>4. s.len \in Nat \ {0} /\ list.len \in Nat
        BY <4>1, AtFirstFacts DEF List
      <4> QED
        BY <4>3, <4>4
    <3> QED
      BY <3>7
  <2> QED
    BY <1>2, <2>3 DEF Elements
<1> QED
  BY <1>1, <1>2

-----------------------------------------------------------------------------
(* One step: the others, and each action of the Run itself.                *)

LEMMA WritersKeep ==
  ASSUME RequestInv, WritersInv, \A r \in Runs : AssignedSoFar(r), [Next]_vars
  PROVE  WritersInv'
<1>1. wrote' \in [Arrays -> SUBSET Runs]
  <2>1. ASSUME NEW r \in Runs, AppendTo(r) PROVE wrote' \in [Arrays -> SUBSET Runs]
    BY <2>1 DEF AppendTo, WritersInv
  <2> QED
    BY <2>1 DEF Next, vars, Set, Merge, Assign, Validate, Create, WritersInv
<1>2. ASSUME NEW a \in Arrays, wrote'[a] = {} PROVE heap'[a] = Content[a]
  BY <1>2, WriteFacts DEF WritersInv
<1>3. ASSUME NEW a \in Arrays, NEW r \in wrote'[a]
      PROVE  \E i \in Where(Past(r)', "assign", "cmd") : Past(r)'[i].value.array = a
  <2>1. r \in Runs
    BY <1>1
  <2>2. \E i \in Where(Past(r), "assign", "cmd") : Past(r)[i].value.array = a
    <3>1. CASE r \in wrote[a]
      BY <3>1 DEF WritersInv
    <3>2. CASE r \notin wrote[a]
      <4>1. req[r]["cmd"].array = a
        BY <3>2, WriteFacts
      <4> QED
        BY <2>1, <4>1, FieldFacts, ArraysAssumption DEF AssignedSoFar
    <3> QED
      BY <3>1, <3>2
  <2> QED
    BY <2>1, <2>2, PastGrows
<1> QED
  BY <1>1, <1>2, <1>3 DEF WritersInv

LEMMA BystanderKeeps ==
  ASSUME RequestInv, WritersInv, [Next]_vars, NEW r \in Runs, RunInv(r), next'[r] = next[r],
         req'[r] = req[r], result'[r] = result[r], told'[r] = told[r]
  PROVE  RunInv(r)'
<1>1. opts' = opts /\ Past(r)' = Past(r)
  BY OptionsStay DEF Past
<1>2. \A f : Undisturbed(r, f)' => Undisturbed(r, f)
  BY WasUndisturbed
<1>3. \A f \in Lists : Undisturbed(r, f)' => Elements(req[r][f])' = Elements(req[r][f])
  BY ElementsStay DEF RunInv
<1>4. AskedSoFar(r)'
  BY <1>1, <1>2, <1>3 DEF RunInv, AskedSoFar
<1>5. AssignedSoFar(r)'
  BY <1>1 DEF RunInv, AssignedSoFar
<1>6. VerdictInv(r)'
  BY <1>1, <1>2 DEF RunInv, VerdictInv
<1>7. ToldSoFar(r)'
  BY <1>1, <1>2 DEF RunInv, ToldSoFar
<1> QED
  BY <1>4, <1>5, <1>6, <1>7 DEF RunInv

LEMMA PutFacts ==
  ASSUME RequestInv, NEW r \in Runs, NEW f \in Fields, NEW v, Put(r, f, v)
  PROVE  req'[r][f] = v /\ \A g \in Fields \ {f} : req'[r][g] = req[r][g]
BY DEF RequestInv, Put

\* Before the verdict, there is none.
LEMMA NoVerdictYet ==
  ASSUME RequestInv, NEW r \in Runs, Due(r), Applied(r)
  PROVE  VerdictInv(r)' /\ ToldSoFar(r)'
<1>1. next'[r] = next[r] + 1 /\ result'[r] = "none" /\ opts' = opts
  BY DEF Due, Applied, RequestInv
<1>2. next[r] \in Nat /\ next[r] <= Len(opts[r]) /\ Len(opts[r]) \in Nat
  BY DEF RequestInv, Due
<1>3. next'[r] <= Len(opts'[r]) + 2 /\ next'[r] # Len(opts'[r]) + 2
  BY <1>1, <1>2
<1> QED
  BY <1>1, <1>3 DEF VerdictInv, ToldSoFar

\* An option changes nothing in what another field is asked to be.
LEMMA OtherField ==
  ASSUME RequestInv, WritersInv, [Next]_vars, NEW r \in Runs, AskedSoFar(r), AssignedSoFar(r),
         Due(r), Applied(r), NEW g \in Fields, g # Current(r).field, req'[r][g] = req[r][g]
  PROVE  /\ g \in Scalars => req'[r][g] = ScalarAsked(Past(r)', g)
         /\ g \in Maps => req'[r][g] = MapAsked(Past(r)', g)
         /\ g \in Lists => /\ Undisturbed(r, g)' => Elements(req[r][g])' = ListAsked(Past(r)', g)
                           /\ req'[r][g].array # Own =>
                                \E i \in Where(Past(r)', "assign", g) : Past(r)'[i].value.array = req'[r][g].array
<1>1. Past(r)' = Append(Past(r), Current(r)) /\ Past(r) \in Seq(Option) /\ Current(r) \in Option
  BY PastMore
<1>2. g \in Scalars => req'[r][g] = ScalarAsked(Past(r)', g)
  BY <1>1, ScalarAppend DEF AskedSoFar
<1>3. g \in Maps => req'[r][g] = MapAsked(Past(r)', g)
  BY <1>1, MapAppend DEF AskedSoFar
<1>4. ASSUME g \in Lists, Undisturbed(r, g)' PROVE Elements(req[r][g])' = ListAsked(Past(r)', g)
  <2>1. Elements(req[r][g])' = Elements(req[r][g])
    BY <1>4, ElementsStay
  <2>2. Elements(req[r][g]) = ListAsked(Past(r), g)
    BY <1>4, WasUndisturbed DEF AskedSoFar
  <2>3. ListAsked(Past(r)', g) = ListAsked(Past(r), g)
    BY <1>1, ListAppend
  <2> QED
    BY <2>1, <2>2, <2>3
<1>5. ASSUME g \in Lists, req'[r][g].array # Own
      PROVE  \E i \in Where(Past(r)', "assign", g) : Past(r)'[i].value.array = req'[r][g].array
  BY <1>5, PastGrows DEF AssignedSoFar
<1> QED
  BY <1>2, <1>3, <1>4, <1>5

\* The field an option is for and the others, together.
LEMMA Together ==
  ASSUME RequestInv, WritersInv, [Next]_vars, NEW r \in Runs, RunInv(r), Due(r), Applied(r),
         NEW f \in Fields, f = Current(r).field, NEW v, Put(r, f, v),
         f \in Scalars => v = ScalarAsked(Past(r)', f),
         f \in Maps => v = MapAsked(Past(r)', f),
         f \in Lists => /\ Undisturbed(r, f)' => Elements(req[r][f])' = ListAsked(Past(r)', f)
                        /\ v.array # Own =>
                             \E i \in Where(Past(r)', "assign", f) : Past(r)'[i].value.array = v.array
  PROVE  RunInv(r)'
<1>1. req'[r][f] = v /\ \A g \in Fields \ {f} : req'[r][g] = req[r][g]
  BY PutFacts
<1>2. ASSUME NEW g \in Fields
      PROVE  /\ g \in Scalars => req'[r][g] = ScalarAsked(Past(r)', g)
             /\ g \in Maps => req'[r][g] = MapAsked(Past(r)', g)
             /\ g \in Lists => /\ Undisturbed(r, g)' => Elements(req[r][g])' = ListAsked(Past(r)', g)
                               /\ req'[r][g].array # Own =>
                                    \E i \in Where(Past(r)', "assign", g) : Past(r)'[i].value.array = req'[r][g].array
  <2>1. CASE g = f
    BY <1>1, <2>1
  <2>2. CASE g # f
    BY <1>1, <2>2, OtherField DEF RunInv
  <2> QED
    BY <2>1, <2>2
<1>3. AskedSoFar(r)'
  BY <1>2, FieldFacts DEF AskedSoFar
<1>4. AssignedSoFar(r)'
  BY <1>2, FieldFacts DEF AssignedSoFar
<1> QED
  BY <1>3, <1>4, NoVerdictYet DEF RunInv

LEMMA SetAsks ==
  ASSUME RequestInv, WritersInv, [Next]_vars, NEW r \in Runs, RunInv(r), Set(r)
  PROVE  RunInv(r)'
<1>0. PICK o : o = Current(r)
  OBVIOUS
<1>1. o \in Option /\ o.how = "set" /\ o.field \in Scalars
  BY <1>0, CurrentFacts, OptionFacts DEF Set
<1>2. Due(r) /\ Applied(r) /\ Put(r, o.field, o.value)
  BY <1>0 DEF Set
<1>3. ScalarAsked(Past(r)', o.field) = o.value
  <2>1. Past(r)' = Append(Past(r), o) /\ Past(r) \in Seq(Option)
    BY <1>0, <1>2, PastMore
  <2> QED
    BY <1>1, <2>1, ScalarAppend
<1>4. o.field \in Fields /\ o.field \notin Maps /\ o.field \notin Lists
  BY <1>1, FieldFacts
<1> QED
  BY <1>0, <1>1, <1>2, <1>3, <1>4, Together

LEMMA MergeAsks ==
  ASSUME RequestInv, WritersInv, [Next]_vars, NEW r \in Runs, RunInv(r), Merge(r)
  PROVE  RunInv(r)'
<1>0. PICK o : o = Current(r)
  OBVIOUS
<1> DEFINE v == Merged(req[r][o.field], o.value)
<1>1. o \in Option /\ o.how = "merge" /\ o.field \in Maps
  BY <1>0, CurrentFacts, OptionFacts DEF Merge
<1>2. Due(r) /\ Applied(r) /\ Put(r, o.field, v)
  BY <1>0 DEF Merge
<1>3. MapAsked(Past(r)', o.field) = Merged(MapAsked(Past(r), o.field), o.value)
  <2>1. Past(r)' = Append(Past(r), o) /\ Past(r) \in Seq(Option)
    BY <1>0, <1>2, PastMore
  <2> QED
    BY <1>1, <2>1, MapAppend
<1>4. req[r][o.field] = MapAsked(Past(r), o.field)
  BY <1>1 DEF RunInv, AskedSoFar
<1>5. o.field \in Fields /\ o.field \notin Scalars /\ o.field \notin Lists
  BY <1>1, FieldFacts
<1>6. v = MapAsked(Past(r)', o.field)
  BY <1>3, <1>4
<1> HIDE DEF v
<1> QED
  BY <1>0, <1>1, <1>2, <1>5, <1>6, Together

LEMMA AssignAsks ==
  ASSUME RequestInv, WritersInv, [Next]_vars, NEW r \in Runs, RunInv(r), Assign(r)
  PROVE  RunInv(r)'
<1>0. PICK o : o = Current(r)
  OBVIOUS
<1> DEFINE f == o.field
           s == o.value
           v == [array |-> s.array, len |-> s.len, own |-> <<>>]
<1>1. o \in Option /\ o.how = "assign" /\ f \in Replaced /\ s \in Slices
  BY <1>0, CurrentFacts, OptionFacts DEF Assign
<1>2. Due(r) /\ Applied(r) /\ Put(r, f, v) /\ heap' = heap
  BY <1>0 DEF Assign
<1>3. Past(r)' = Append(Past(r), o) /\ Past(r) \in Seq(Option)
  BY <1>0, <1>2, PastMore
<1>4. f \in Fields /\ f \notin Scalars /\ f \notin Maps
  BY <1>1, FieldFacts
<1>5. s.array # Own /\ v.array = s.array /\ v.len = s.len
  BY <1>1, AtFirstFacts, ArraysAssumption
<1>6. req'[r][f] = v
  BY <1>2, <1>4, PutFacts
<1>7. Undisturbed(r, f)' => Elements(req[r][f])' = ListAsked(Past(r)', f)
  <2> SUFFICES ASSUME Undisturbed(r, f)' PROVE Elements(req[r][f])' = ListAsked(Past(r)', f)
    OBVIOUS
  <2>1. Given(s) = AtFirst(s)
    BY <1>0, <1>1, <1>2, GivenIsAtFirst, WasUndisturbed
  <2>2. Elements(req[r][f])' = Given(s)
    BY <1>2, <1>5, <1>6 DEF Elements, Given
  <2>3. ListAsked(Past(r)', f) = AtFirst(s)
    BY <1>1, <1>3, ListAppend
  <2> QED
    BY <2>1, <2>2, <2>3
<1>8. \E i \in Where(Past(r)', "assign", f) : Past(r)'[i].value.array = v.array
  <2>1. Len(Past(r)) + 1 \in Where(Past(r)', "assign", f)
    BY <1>1, <1>3, WhereAppend
  <2>2. Past(r)'[Len(Past(r)) + 1] = o
    BY <1>1, <1>3, OneMore
  <2> QED
    BY <1>5, <2>1, <2>2
<1> HIDE DEF v
<1> QED
  BY <1>0, <1>2, <1>4, <1>7, <1>8, Together

\* What is written behind a slice is what the slice is made longer by.
LEMMA LongerSlice ==
  ASSUME NEW old \in Seq(Cell), NEW n \in Nat, NEW cells \in Seq(Cell), n + Len(cells) <= Len(old)
  PROVE  SubSeq(WithCells(old, n, cells), 1, n + Len(cells)) = SubSeq(old, 1, n) \o cells
<1> DEFINE new == WithCells(old, n, cells)
           m == n + Len(cells)
           left == SubSeq(new, 1, m)
           before == SubSeq(old, 1, n)
           right == before \o cells
<1>1. new \in Seq(Cell) /\ Len(new) = Len(old) /\ \A i \in 1 .. n : new[i] = old[i]
  BY WriteKeeps
<1>2. Len(old) \in Nat /\ Len(cells) \in Nat /\ m \in Nat /\ DOMAIN old = 1 .. Len(old)
  OBVIOUS
<1>3. \A i \in n + 1 .. m : new[i] = cells[i - n]
  BY <1>2 DEF WithCells
<1> HIDE DEF new, m
<1>4. left \in Seq(Cell) /\ Len(left) = m /\ \A i \in 1 .. m : left[i] = new[i]
  <2>1. 1 \in 1 .. Len(new) + 1 /\ m \in 0 .. Len(new) /\ m - 1 + 1 = m /\ (~(1 <= m) => m = 0)
    BY <1>1, <1>2 DEF m
  <2>2. \A i \in 1 .. m : 1 + i - 1 = i
    BY <1>2
  <2> QED
    BY <1>1, <2>1, <2>2, SubSeqProperties
<1>5. before \in Seq(Cell) /\ Len(before) = n /\ \A i \in 1 .. n : before[i] = old[i]
  <2>1. 1 \in 1 .. Len(old) + 1 /\ n \in 0 .. Len(old) /\ n - 1 + 1 = n /\ (~(1 <= n) => n = 0)
    BY <1>2
  <2>2. \A i \in 1 .. n : 1 + i - 1 = i
    OBVIOUS
  <2> QED
    BY <2>1, <2>2, SubSeqProperties
<1> HIDE DEF before, left
<1>6. /\ right \in Seq(Cell) /\ Len(right) = m
      /\ \A i \in 1 .. m : right[i] = IF i <= n THEN before[i] ELSE cells[i - n]
  BY <1>5, ConcatProperties DEF m
<1> HIDE DEF right
<1>7. \A i \in 1 .. m : left[i] = right[i]
  <2> TAKE i \in 1 .. m
  <2>1. CASE i <= n
    <3>1. i \in 1 .. n
      BY <2>1
    <3> QED
      BY <1>1, <1>4, <1>5, <1>6, <2>1, <3>1
  <2>2. CASE ~(i <= n)
    <3>1. i \in n + 1 .. m
      BY <1>2, <2>2
    <3> QED
      BY <1>3, <1>4, <1>6, <2>2, <3>1
  <2> QED
    BY <2>1, <2>2
<1>8. left = right
  BY <1>4, <1>6, <1>7, SeqEqual
<1> QED
  BY <1>8 DEF left, right, before, new, m

\* append is append, whether there is room or not.
LEMMA AppendedElements ==
  ASSUME RequestInv, NEW r \in Runs, AppendTo(r), NEW o, o = Current(r)
  PROVE  Elements(req[r][o.field])' = Elements(req[r][o.field]) \o Given(o.value)
<1> DEFINE f == o.field
           s == o.value
           list == req[r][f]
           new == Longer(list, s)
<1>1. f \in Appended /\ s \in Slices /\ f \in Fields /\ Put(r, f, new)
  BY CurrentFacts, OptionFacts, FieldFacts DEF AppendTo
<1>2. list \in List
  BY <1>1, FieldFacts DEF RequestInv, Proper
<1>3. req'[r][f] = new
  BY <1>1, PutFacts
<1>5. CASE Room(list, s.len)
  <2>1. new.array = list.array /\ new.len = list.len + s.len /\ list.array # Own
    BY <1>2, <1>5 DEF Longer, List, Room
  <2>2. heap' = [heap EXCEPT ![list.array] = WithCells(@, list.len, Given(s))]
    BY <1>5 DEF AppendTo
  <2>3. /\ list.array \in Arrays /\ heap[list.array] \in Seq(Cell) /\ list.len \in Nat
        /\ Given(s) \in Seq(Cell) /\ list.len + Len(Given(s)) <= Len(heap[list.array])
        /\ Len(Given(s)) = s.len
    BY <1>1, <1>2, <1>5, RoomFacts, SliceFacts
  <2>4. heap'[list.array] = WithCells(heap[list.array], list.len, Given(s))
    BY <2>2, <2>3 DEF RequestInv
  <2>5. SubSeq(heap'[list.array], 1, list.len + s.len) = SubSeq(heap[list.array], 1, list.len) \o Given(s)
    <3>1. SubSeq(WithCells(heap[list.array], list.len, Given(s)), 1, list.len + Len(Given(s)))
            = SubSeq(heap[list.array], 1, list.len) \o Given(s)
      BY <2>3, LongerSlice
    <3> QED
      BY <2>3, <2>4, <3>1
  <2> QED
    BY <1>3, <2>1, <2>5 DEF Elements
<1>6. CASE ~Room(list, s.len)
  <2>1. new.array = Own /\ new.own = Elements(list) \o Given(s)
    BY <1>6 DEF Longer, Empty
  <2> QED
    BY <1>3, <2>1 DEF Elements
<1> QED
  BY <1>5, <1>6

LEMMA AppendAsks ==
  ASSUME RequestInv, WritersInv, [Next]_vars, NEW r \in Runs, RunInv(r), AppendTo(r)
  PROVE  RunInv(r)'
<1>0. PICK o : o = Current(r)
  OBVIOUS
<1> DEFINE f == o.field
           s == o.value
           list == req[r][f]
           v == Longer(list, s)
<1>1. o \in Option /\ o.how = "append" /\ f \in Appended /\ s \in Slices
  BY <1>0, CurrentFacts, OptionFacts DEF AppendTo
<1>2. Due(r) /\ Applied(r) /\ Put(r, f, v)
  BY <1>0 DEF AppendTo
<1>3. Past(r)' = Append(Past(r), o) /\ Past(r) \in Seq(Option)
  BY <1>0, <1>2, PastMore
<1>4. f \in Fields /\ f \notin Scalars /\ f \notin Maps /\ f \in Lists
  BY <1>1, FieldFacts
<1>5. list \in List
  BY <1>4 DEF RequestInv, Proper
<1>7. Undisturbed(r, f)' => Elements(req[r][f])' = ListAsked(Past(r)', f)
  <2> SUFFICES ASSUME Undisturbed(r, f)' PROVE Elements(req[r][f])' = ListAsked(Past(r)', f)
    OBVIOUS
  <2>0. Undisturbed(r, f)
    BY WasUndisturbed
  <2>1. Given(s) = AtFirst(s)
    BY <1>0, <1>1, <1>2, <2>0, GivenIsAtFirst
  <2>2. Elements(req[r][f])' = Elements(list) \o Given(s)
    BY <1>0, AppendedElements
  <2>3. Elements(list) = ListAsked(Past(r), f)
    BY <1>4, <2>0 DEF RunInv, AskedSoFar
  <2>4. ListAsked(Past(r)', f) = ListAsked(Past(r), f) \o AtFirst(s)
    BY <1>1, <1>3, ListAppend
  <2> QED
    BY <2>1, <2>2, <2>3, <2>4
<1>8. v.array # Own => \E i \in Where(Past(r)', "assign", f) : Past(r)'[i].value.array = v.array
  <2> SUFFICES ASSUME v.array # Own
               PROVE  \E i \in Where(Past(r)', "assign", f) : Past(r)'[i].value.array = v.array
    OBVIOUS
  <2>1. Room(list, s.len)
    BY DEF Longer, Empty
  <2>2. v.array = list.array /\ list.array # Own
    BY <1>5, <2>1 DEF Longer, List, Room
  <2>3. \E i \in Where(Past(r), "assign", f) : Past(r)[i].value.array = list.array
    BY <1>4, <2>2 DEF RunInv, AssignedSoFar
  <2> QED
    BY <2>2, <2>3, PastGrows
<1> HIDE DEF v
<1> QED
  BY <1>0, <1>2, <1>4, <1>7, <1>8, Together

\* What Validate finds is what its definition asks, in other words.
LEMMA ValidIsAcceptable ==
  ASSUME RequestInv, NEW r \in Runs, AskedSoFar(r), Past(r) = opts[r], \A f \in Judged : Undisturbed(r, f)
  PROVE  Valid(req[r]) <=> Acceptable(opts[r])
<1> DEFINE q == req[r]
           os == opts[r]
           mounted == ListAsked(os, "volumes") \o ListAsked(os, "mounts")
<1>1. {"volumes", "mounts", "ports"} \subseteq Lists /\ {"image", "containerfile", "mapping"} \subseteq Scalars
  BY FieldsAssumption DEF Lists
<1>2. \A f \in Judged : Elements(q[f]) = ListAsked(os, f)
  BY <1>1 DEF AskedSoFar, Judged
<1>3. \A f \in {"image", "containerfile", "mapping"} : q[f] = ScalarAsked(os, f)
  BY <1>1 DEF AskedSoFar
<1>4. Targets(q) = mounted
  BY <1>2 DEF Targets, Judged
<1>5. mounted \in Seq(Cell)
  BY ListAskedType, ConcatProperties DEF RequestInv
<1> HIDE DEF mounted
<1>6. (\A i \in DOMAIN mounted : mounted[i] # None => \A j \in 1 .. i - 1 : mounted[j] # mounted[i])
        <=> (\A i, j \in DOMAIN mounted : i # j /\ mounted[i] = mounted[j] => mounted[i] = None)
  <2>1. DOMAIN mounted = 1 .. Len(mounted) /\ Len(mounted) \in Nat
    BY <1>5, LenProperties
  <2>2. ASSUME \A i \in DOMAIN mounted : mounted[i] # None => \A j \in 1 .. i - 1 : mounted[j] # mounted[i],
               NEW i \in DOMAIN mounted, NEW j \in DOMAIN mounted, i # j, mounted[i] = mounted[j]
        PROVE  mounted[i] = None
    <3>1. i \in 1 .. j - 1 \/ j \in 1 .. i - 1
      BY <2>1, <2>2
    <3> QED
      BY <2>2, <3>1
  <2>3. ASSUME \A i, j \in DOMAIN mounted : i # j /\ mounted[i] = mounted[j] => mounted[i] = None,
               NEW i \in DOMAIN mounted, mounted[i] # None, NEW j \in 1 .. i - 1
        PROVE  mounted[j] # mounted[i]
    <3>1. j \in DOMAIN mounted /\ j # i
      BY <2>1
    <3> QED
      BY <2>3, <3>1
  <2> QED
    BY <2>2, <2>3
<1>7. (q["image"] # None) # (q["containerfile"] # None)
        <=> \/ ScalarAsked(os, "image") = None /\ ScalarAsked(os, "containerfile") # None
            \/ ScalarAsked(os, "image") # None /\ ScalarAsked(os, "containerfile") = None
  BY <1>3
<1>8. Elements(q["ports"]) = ListAsked(os, "ports") /\ q["mapping"] = ScalarAsked(os, "mapping")
  BY <1>2, <1>3 DEF Judged
<1> QED
  BY <1>4, <1>6, <1>7, <1>8, Zenon DEF Valid, Acceptable, mounted

LEMMA ValidateJudges ==
  ASSUME RequestInv, WritersInv, [Next]_vars, NEW r \in Runs, RunInv(r), Validate(r),
         result \in [Runs -> {"none", "invalid", "created"}]
  PROVE  RunInv(r)'
<1>1. /\ result[r] = "none" /\ next[r] = Len(opts[r]) + 1 /\ opts[r] \in Seq(Option) /\ Len(opts[r]) \in Nat
      /\ opts' = opts /\ heap' = heap /\ req' = req /\ wrote' = wrote
  BY DEF Validate, RequestInv
<1>2. next'[r] = IF Valid(req[r]) THEN Len(opts[r]) + 2 ELSE Len(opts[r]) + 1
  BY <1>1 DEF Validate, RequestInv
<1>3. result'[r] = IF Valid(req[r]) THEN "none" ELSE "invalid"
  BY <1>1 DEF Validate
<1>4. Past(r) = opts[r] /\ Past(r)' = opts[r]
  <2>1. next[r] > Len(opts[r]) /\ ~(next'[r] <= Len(opts[r]))
    BY <1>1, <1>2
  <2>2. Past(r)' = SubSeq(opts[r], 1, Len(opts[r]))
    BY <1>1, <2>1 DEF Past
  <2> QED
    BY <1>1, <2>1, <2>2, PastFacts, SubSeqFull
<1>5. \A f : Undisturbed(r, f)' <=> Undisturbed(r, f)
  BY <1>1 DEF Undisturbed
<1>6. AskedSoFar(r)' /\ AssignedSoFar(r)'
  BY <1>1, <1>4, <1>5 DEF RunInv, AskedSoFar, AssignedSoFar, Elements
<1>7. (\A f \in Judged : Undisturbed(r, f)) => (Valid(req[r]) <=> Acceptable(opts[r]))
  BY <1>4, ValidIsAcceptable DEF RunInv
<1>8. Valid(req[r]) => OneSource(req[r])
  BY DEF Valid, OneSource
<1>9. VerdictInv(r)'
  <2>1. next'[r] <= Len(opts[r]) + 2
    BY <1>1, <1>2
  <2>2. next'[r] = Len(opts[r]) + 2 <=> Valid(req[r])
    BY <1>1, <1>2
  <2>3. result'[r] # "created" /\ (result'[r] = "invalid" <=> ~Valid(req[r]))
    BY <1>3
  <2>4. result'[r] = "invalid" => next'[r] = Len(opts[r]) + 1
    BY <1>2, <1>3
  <2> QED
    BY <1>1, <1>5, <1>7, <1>8, <2>1, <2>2, <2>3, <2>4 DEF VerdictInv
<1>10. ToldSoFar(r)'
  BY <1>3 DEF ToldSoFar
<1> QED
  BY <1>6, <1>9, <1>10 DEF RunInv

\* What create is told is what is asked, but for the words of an entrypoint after the first.
LEMMA ArgumentsAreAsked ==
  ASSUME RequestInv, NEW r \in Runs, AskedSoFar(r), Past(r) = opts[r], OneSource(req[r]),
         NEW f \in Fields \ NotPassed, f \in Lists => Undisturbed(r, f)
  PROVE  AsAsked(opts[r], f, Arguments(req[r])[f])
<1> DEFINE q == req[r]
           os == opts[r]
<1>1. {"image", "containerfile"} \subseteq Scalars /\ "image" \notin Lists
  BY FieldsAssumption, FieldFacts
<1>2. \A g \in Scalars : q[g] = ScalarAsked(os, g)
  BY DEF AskedSoFar
<1>3. CASE f = "image"
  <2>1. Arguments(q)[f] = ImageOf(q)
    BY <1>3 DEF Arguments
  <2> QED
    BY <1>1, <1>2, <1>3, <2>1 DEF ImageOf, OneSource, Argument, AsAsked
<1>4. CASE f # "image" /\ f \in Scalars
  <2>1. Arguments(q)[f] = q[f]
    BY <1>4, FieldFacts DEF Arguments
  <2> QED
    BY <1>2, <1>4, <2>1 DEF Argument, AsAsked
<1>5. CASE f \in Maps
  <2>1. Arguments(q)[f] = q[f] /\ q[f] = MapAsked(os, f) /\ f # "image"
    BY <1>1, <1>5, FieldFacts DEF Arguments, AskedSoFar
  <2> QED
    BY <1>5, <2>1, FieldFacts DEF Argument, AsAsked
<1>6. CASE f \in Lists
  <2> DEFINE all == ListAsked(os, f)
  <2>1. Elements(q[f]) = all /\ all \in Seq(Cell) /\ f # "image" /\ f \notin Scalars /\ f \notin Maps
    BY <1>1, <1>6, FieldFacts, ListAskedType DEF AskedSoFar, RequestInv
  <2>2. Arguments(q)[f] = IF f = "entrypoint" /\ all # <<>> THEN <<Head(all)>> ELSE all
    BY <1>6, <2>1 DEF Arguments
  <2>3. Argument(os, f) = all
    BY <2>1 DEF Argument
  <2> HIDE DEF all
  <2>4. CASE f # "entrypoint" \/ all = <<>>
    BY <2>2, <2>3, <2>4 DEF AsAsked
  <2>5. CASE f = "entrypoint" /\ all # <<>> /\ Len(all) = 1
    <3>1. all = <<Head(all)>>
      BY <2>1, <2>5
    <3> QED
      BY <2>2, <2>3, <2>5, <3>1 DEF AsAsked
  <2>6. CASE f = "entrypoint" /\ all # <<>> /\ Len(all) > 1
    BY <2>2, <2>3, <2>6 DEF AsAsked
  <2>7. all # <<>> => Len(all) = 1 \/ Len(all) > 1
    <3>1. all # <<>> => Len(all) # 0
      BY <2>1, EmptySeq
    <3>2. Len(all) \in Nat
      BY <2>1, LenProperties
    <3>3. \A n \in Nat : n # 0 => n = 1 \/ n > 1
      OBVIOUS
    <3> QED
      BY ONLY <3>1, <3>2, <3>3, Zenon
  <2> QED
    BY <2>4, <2>5, <2>6, <2>7
<1> QED
  BY <1>3, <1>4, <1>5, <1>6 DEF Fields

LEMMA CreateTells ==
  ASSUME RequestInv, WritersInv, [Next]_vars, NEW r \in Runs, RunInv(r), Create(r),
         result \in [Runs -> {"none", "invalid", "created"}], told = [w \in Runs |-> told[w]]
  PROVE  RunInv(r)'
<1>1. /\ next[r] = Len(opts[r]) + 2 /\ opts[r] \in Seq(Option) /\ Len(opts[r]) \in Nat
      /\ opts' = opts /\ heap' = heap /\ req' = req /\ wrote' = wrote /\ next' = next
  BY DEF Create, RequestInv
<1>2. result'[r] = "created" /\ told'[r] = Arguments(req[r])
  BY DEF Create
<1>3. Past(r) = opts[r] /\ Past(r)' = Past(r)
  BY <1>1, PastFacts DEF Past
<1>4. \A f : Undisturbed(r, f)' <=> Undisturbed(r, f)
  BY <1>1 DEF Undisturbed
<1>5. AskedSoFar(r)' /\ AssignedSoFar(r)'
  BY <1>1, <1>3, <1>4 DEF RunInv, AskedSoFar, AssignedSoFar, Elements
<1>6. VerdictInv(r)'
  BY <1>1, <1>2, <1>4 DEF RunInv, VerdictInv
<1>7. ToldSoFar(r)'
  <2>1. AskedSoFar(r) /\ OneSource(req[r])
    BY <1>1 DEF RunInv, VerdictInv
  <2>2. \A f \in Fields \ NotPassed :
          (f \in Lists => Undisturbed(r, f)) => AsAsked(opts[r], f, Arguments(req[r])[f])
    BY <1>3, <2>1, ArgumentsAreAsked
  <2> QED
    BY <1>1, <1>2, <1>4, <2>2 DEF ToldSoFar
<1> QED
  BY <1>5, <1>6, <1>7 DEF RunInv

-----------------------------------------------------------------------------
(* The theorem.                                                            *)

LEMMA InitAsked == Init => AskedInv
<1> SUFFICES ASSUME Init PROVE AskedInv
  OBVIOUS
<1>1. RequestInv
  BY InitInv
<1>2. WritersInv
  BY DEF Init, WritersInv
<1>3. result \in [Runs -> {"none", "invalid", "created"}] /\ told = [r \in Runs |-> told[r]]
  BY DEF Init
<1>4. ASSUME NEW r \in Runs PROVE RunInv(r)
  <2>1. req[r] = Zero /\ next[r] = 1 /\ result[r] = "none" /\ opts[r] \in Seq(Option) /\ Len(opts[r]) \in Nat
    BY <1>1 DEF Init, RequestInv
  <2>2. Past(r) = <<>>
    <3>1. \A i : i \notin DOMAIN Past(r)
      BY <1>1, <2>1, PastFacts
    <3>2. Past(r) \in Seq(Option)
      BY <1>1, PastFacts
    <3> QED
      BY <3>1, <3>2
  <2>3. \A f \in Lists : Zero[f] = Empty
    BY FieldFacts DEF Zero
  <2>4. \A f \in Scalars : Zero[f] = None
    BY FieldFacts DEF Zero
  <2>5. \A f \in Maps : Zero[f] = [k \in Keys |-> None]
    BY FieldFacts DEF Zero
  <2>6. AskedSoFar(r)
    BY <2>1, <2>2, <2>3, <2>4, <2>5, NothingAsked DEF AskedSoFar, Elements, Empty
  <2>7. AssignedSoFar(r)
    BY <2>1, <2>3 DEF AssignedSoFar, Empty
  <2>8. VerdictInv(r) /\ ToldSoFar(r)
    BY <2>1 DEF VerdictInv, ToldSoFar
  <2> QED
    BY <2>6, <2>7, <2>8 DEF RunInv
<1> QED
  BY <1>1, <1>2, <1>3, <1>4 DEF AskedInv

LEMMA NextAsks == AskedInv /\ [Next]_vars => AskedInv'
<1> SUFFICES ASSUME AskedInv, [Next]_vars PROVE AskedInv'
  OBVIOUS
<1> USE DEF AskedInv
<1>1. RequestInv /\ RequestInv'
  BY NextKeeps
<1>2. WritersInv /\ WritersInv'
  BY WritersKeep DEF RunInv
<1>3. result' \in [Runs -> {"none", "invalid", "created"}] /\ told' = [r \in Runs |-> told'[r]]
  <2>1. CASE result' = result /\ told' = told
    BY <2>1
  <2>2. ASSUME NEW r \in Runs, Validate(r)
        PROVE  result' \in [Runs -> {"none", "invalid", "created"}] /\ told' = [w \in Runs |-> told'[w]]
    BY <2>2 DEF Validate
  <2>3. ASSUME NEW r \in Runs, Create(r)
        PROVE  result' \in [Runs -> {"none", "invalid", "created"}] /\ told' = [w \in Runs |-> told'[w]]
    BY <2>3 DEF Create
  <2> QED
    BY <2>1, <2>2, <2>3 DEF Next, vars, Set, Merge, Assign, AppendTo, Applied
<1>4. ASSUME NEW r \in Runs PROVE RunInv(r)'
  <2> DEFINE Apart == next'[r] = next[r] /\ req'[r] = req[r] /\ result'[r] = result[r] /\ told'[r] = told[r]
  <2>1. RunInv(r)
    OBVIOUS
  <2>2. CASE UNCHANGED vars
    BY <1>1, <1>2, <2>1, <2>2, BystanderKeeps DEF vars
  <2>3. ASSUME NEW w \in Runs, w # r, Set(w) \/ Merge(w) \/ Assign(w) \/ AppendTo(w) \/ Validate(w) \/ Create(w)
        PROVE  Apart
    <3>1. CASE Applied(w) /\ \E f, v : Put(w, f, v)
      BY <1>1, <2>3, <3>1 DEF Applied, Put, RequestInv
    <3>2. CASE Validate(w)
      BY <1>1, <2>3, <3>2 DEF Validate, RequestInv
    <3>3. CASE Create(w)
      BY <1>1, <2>3, <3>3 DEF Create, RequestInv
    <3> QED
      BY <2>3, <3>1, <3>2, <3>3 DEF Set, Merge, Assign, AppendTo
  <2>4. CASE Apart
    BY <1>1, <1>2, <2>1, <2>4, BystanderKeeps
  <2> HIDE DEF Apart
  <2>5. CASE Set(r)
    BY <1>1, <1>2, <2>1, <2>5, SetAsks
  <2>6. CASE Merge(r)
    BY <1>1, <1>2, <2>1, <2>6, MergeAsks
  <2>7. CASE Assign(r)
    BY <1>1, <1>2, <2>1, <2>7, AssignAsks
  <2>8. CASE AppendTo(r)
    BY <1>1, <1>2, <2>1, <2>8, AppendAsks
  <2>9. CASE Validate(r)
    BY <1>1, <1>2, <2>1, <2>9, ValidateJudges
  <2>10. CASE Create(r)
    BY <1>1, <1>2, <2>1, <2>10, CreateTells
  <2> QED
    BY <2>2, <2>3, <2>4, <2>5, <2>6, <2>7, <2>8, <2>9, <2>10 DEF Next
<1> QED
  BY <1>1, <1>2, <1>3, <1>4

LEMMA AskedIsTold == AskedInv => ToldWhatItAsked
<1> SUFFICES ASSUME AskedInv, NEW r \in Runs
             PROVE  /\ result[r] # "none" /\ (\A f \in {"volumes", "mounts", "ports"} : Undisturbed(r, f)) =>
                         (result[r] = "created" <=> Acceptable(opts[r]))
                    /\ result[r] = "created" =>
                         \A f \in Fields \ NotPassed :
                           (f \in Lists => Undisturbed(r, f)) => AsAsked(opts[r], f, told[r][f])
  BY DEF ToldWhatItAsked
<1>1. VerdictInv(r) /\ ToldSoFar(r) /\ result[r] \in {"none", "invalid", "created"}
  BY DEF AskedInv, RunInv
<1>2. ASSUME result[r] # "none", \A f \in {"volumes", "mounts", "ports"} : Undisturbed(r, f)
      PROVE  result[r] = "created" <=> Acceptable(opts[r])
  BY <1>1, <1>2 DEF VerdictInv, Judged
<1> QED
  BY <1>1, <1>2 DEF ToldSoFar

\* For any options, arrays and number of Runs at once, and whatever the order of their steps:
\* a Run is refused exactly if its options ask for what cannot be, and create is told what
\* they ask in the fields that have an argument (of an entrypoint the first word), as long as
\* nobody writes to the arrays they are given (options.go:13-338, container.go:116-153,
\* args.go:28-159).
THEOREM RunsToldWhatTheyAsked == Spec => []ToldWhatItAsked
<1>1. Init => AskedInv
  BY InitAsked
<1>2. AskedInv /\ [Next]_vars => AskedInv'
  BY NextAsks
<1>3. AskedInv => ToldWhatItAsked
  BY AskedIsTold
<1> QED
  BY <1>1, <1>2, <1>3, PTL DEF Spec
=============================================================================
