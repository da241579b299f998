---------------------------- MODULE TransferProofs ----------------------------
(***************************************************************************)
(* TransferInv is inductive, and the three other properties follow.        *)
(***************************************************************************)
EXTENDS Transfer, TLAPS

\* What a file is.
LEMMA FileIsWhole ==
  /\ \A d \in Contents, p \in Perms : File(d, p) \in Whole /\ File(d, p) # NoFile
  /\ \A d, p : File(d, p).data = d /\ File(d, p).perm = p
BY NoFileAssumption DEF File, Whole

LEMMA ContentsFacts ==
  /\ 0 \in Contents /\ Given \in Contents /\ Partial \in Contents /\ Empty \in Contents
  /\ 0 .. MaxEdits \subseteq Contents /\ Given \notin 0 .. MaxEdits
  /\ TempPerm \in Perms
BY EditsAssumption, PermsAssumption DEF Contents, Given, Partial, Empty

LEMMA ChangedData ==
  ASSUME NEW f \in Whole, NEW d \in Contents
  PROVE  LET e == [f EXCEPT !.data = d]
         IN  e \in Whole /\ e # NoFile /\ e.data = d /\ e.perm = f.perm
BY NoFileAssumption DEF Whole

LEMMA ChangedPerm ==
  ASSUME NEW f \in Whole, NEW p \in Perms
  PROVE  LET e == [f EXCEPT !.perm = p]
         IN  e \in Whole /\ e # NoFile /\ e.data = f.data /\ e.perm = p
BY NoFileAssumption DEF Whole

LEMMA FieldOfOne ==
  ASSUME NEW C, NEW S, NEW f \in [C -> S], NEW c \in C, NEW v
  PROVE  [f EXCEPT ![c].data = v] = [f EXCEPT ![c] = [f[c] EXCEPT !.data = v]]
OBVIOUS

LEMMA DataOfOne ==
  ASSUME NEW f \in [Calls -> Files], NEW c \in Calls, f[c] \in Whole, NEW d \in Contents
  PROVE  LET g == [f EXCEPT ![c].data = d]
         IN  /\ g = [f EXCEPT ![c] = g[c]] /\ g[c] \in Whole /\ g[c] # NoFile
             /\ g[c].data = d /\ g[c].perm = f[c].perm
<1>1. [f EXCEPT ![c].data = d] = [f EXCEPT ![c] = [f[c] EXCEPT !.data = d]]
  BY FieldOfOne
<1>2. LET e == [f[c] EXCEPT !.data = d]
      IN  e \in Whole /\ e # NoFile /\ e.data = d /\ e.perm = f[c].perm
  BY ChangedData
<1> QED
  BY <1>1, <1>2

LEMMA PermOfOne ==
  ASSUME NEW f \in [Calls -> Files], NEW c \in Calls, f[c] \in Whole, NEW p \in Perms
  PROVE  LET g == [f EXCEPT ![c].perm = p]
         IN  /\ g = [f EXCEPT ![c] = g[c]] /\ g[c] \in Whole /\ g[c] # NoFile
             /\ g[c].data = f[c].data /\ g[c].perm = p
<1>1. [f EXCEPT ![c].perm = p] = [f EXCEPT ![c] = [f[c] EXCEPT !.perm = p]]
  OBVIOUS
<1>2. LET e == [f[c] EXCEPT !.perm = p]
      IN  e \in Whole /\ e # NoFile /\ e.data = f[c].data /\ e.perm = p
  BY ChangedPerm
<1> QED
  BY <1>1, <1>2

LEMMA InitInv == Init => TransferInv
<1> SUFFICES ASSUME Init PROVE TransferInv
  OBVIOUS
<1> USE DEF Init
<1>1. TypeOK
  BY ContentsFacts, FileIsWhole, EditsAssumption DEF TypeOK, Steps, Files, File
<1>2. \A c \in Calls : Placed(c) /\ Underway(c)
  BY DEF Placed, Underway
<1> QED
  BY <1>1, <1>2 DEF TransferInv

\* A step of one call leaves the others as they are.
LEMMA OthersStay ==
  ASSUME TransferInv, NEW c \in Calls, NEW d \in Calls, d # c,
         UNCHANGED <<host, kind[d], asked[d], touched[d], guest[d], temp[d], held[d], step[d], result[d]>>
  PROVE  (Placed(d) /\ Underway(d))'
BY DEF TransferInv, Placed, Underway, Writes, Faithful, Source

\* What is left to show of a step of one call.
LEMMA OneCallSteps ==
  ASSUME TransferInv, TypeOK', NEW c \in Calls, (Placed(c) /\ Underway(c))',
         UNCHANGED <<host, kind, asked>>,
         \A d \in Calls \ {c} :
           UNCHANGED <<guest[d], temp[d], held[d], step[d], result[d], touched[d]>>
  PROVE  TransferInv'
<1>1. \A d \in Calls : d # c => (Placed(d) /\ Underway(d))'
  BY OthersStay
<1> QED
  BY <1>1 DEF TransferInv

LEMMA BeginKeeps == ASSUME TransferInv, NEW c \in Calls, Begin(c) PROVE TransferInv'
<1> USE DEF Begin, Goto, Fail, Succeed, call
<1>1. TypeOK'
  BY ContentsFacts, FileIsWhole DEF TransferInv, TypeOK, Steps, Files, Whole, Ended, Placed
<1>2. (Placed(c) /\ Underway(c))'
  BY ContentsFacts, FileIsWhole DEF TransferInv, TypeOK, Placed, Underway, Writes, Faithful, Source, Ended
<1>3. \A d \in Calls \ {c} : UNCHANGED <<guest[d], temp[d], held[d], step[d], result[d], touched[d]>>
  BY DEF TransferInv, TypeOK
<1> QED
  BY <1>1, <1>2, <1>3, OneCallSteps

LEMMA StatKeeps == ASSUME TransferInv, NEW c \in Calls, Stat(c) PROVE TransferInv'
<1> USE DEF Stat, Goto, Fail, Succeed, call
<1>1. TypeOK'
  BY ContentsFacts, FileIsWhole DEF TransferInv, TypeOK, Steps, Files, Whole, Ended, Placed
<1>2. (Placed(c) /\ Underway(c))'
  BY ContentsFacts, FileIsWhole DEF TransferInv, TypeOK, Placed, Underway, Writes, Faithful, Source, Ended, AsIs
<1>3. \A d \in Calls \ {c} : UNCHANGED <<guest[d], temp[d], held[d], step[d], result[d], touched[d]>>
  BY DEF TransferInv, TypeOK
<1> QED
  BY <1>1, <1>2, <1>3, OneCallSteps

LEMMA ReadKeeps == ASSUME TransferInv, NEW c \in Calls, Read(c) PROVE TransferInv'
<1> USE DEF Read, Goto, Fail, Succeed, call
<1>1. TypeOK'
  BY ContentsFacts, FileIsWhole DEF TransferInv, TypeOK, Steps, Files, Whole, Ended, Placed
<1>2. (Placed(c) /\ Underway(c))'
  BY ContentsFacts, FileIsWhole DEF TransferInv, TypeOK, Placed, Underway, Writes, Faithful, Source, Ended
<1>3. \A d \in Calls \ {c} : UNCHANGED <<guest[d], temp[d], held[d], step[d], result[d], touched[d]>>
  BY DEF TransferInv, TypeOK
<1> QED
  BY <1>1, <1>2, <1>3, OneCallSteps

LEMMA CopyAsIsKeeps == ASSUME TransferInv, NEW c \in Calls, CopyAsIs(c) PROVE TransferInv'
<1> USE DEF CopyAsIs, Goto, Fail, Succeed, call
<1>1. PICK ok \in BOOLEAN, after \in Files :
        /\ Copy(c, host.file, guest[c], ok, after)
        /\ guest' = [guest EXCEPT ![c] = after]
        /\ IF ok THEN Succeed(c, "over") ELSE Fail(c, "over")
  OBVIOUS
<1>2. ok => after = host.file /\ after # NoFile
  BY <1>1 DEF Copy
<1>6. TypeOK'
  BY <1>1 DEF TransferInv, TypeOK, Steps
<1>7. (Placed(c) /\ Underway(c))'
  <2>1. Placed(c)'
    BY <1>1 DEF TransferInv, TypeOK, Placed, Writes
  <2>2. CASE ok
    BY <1>1, <1>2, <2>1, <2>2 DEF TransferInv, TypeOK, Placed, Underway, Writes, Faithful, Source
  <2>3. CASE ~ok
    BY <1>1, <2>1, <2>3 DEF TransferInv, TypeOK, Placed, Underway, Writes, Faithful, Source
  <2> QED
    BY <2>2, <2>3
<1>8. \A d \in Calls \ {c} : UNCHANGED <<guest[d], temp[d], held[d], step[d], result[d], touched[d]>>
  BY <1>1 DEF TransferInv, TypeOK
<1> QED
  BY <1>6, <1>7, <1>8, OneCallSteps

LEMMA MakeTempKeeps == ASSUME TransferInv, NEW c \in Calls, MakeTemp(c) PROVE TransferInv'
<1> USE DEF MakeTemp, Goto, Fail, Succeed, call
<1>1. TypeOK'
  BY ContentsFacts, FileIsWhole DEF TransferInv, TypeOK, Steps, Files, Whole, Ended, Placed
<1>2. (Placed(c) /\ Underway(c))'
  BY ContentsFacts, FileIsWhole DEF TransferInv, TypeOK, Placed, Underway, Writes, Faithful, Source, Ended
<1>3. \A d \in Calls \ {c} : UNCHANGED <<guest[d], temp[d], held[d], step[d], result[d], touched[d]>>
  BY DEF TransferInv, TypeOK
<1> QED
  BY <1>1, <1>2, <1>3, OneCallSteps

LEMMA WriteKeeps == ASSUME TransferInv, NEW c \in Calls, Write(c) PROVE TransferInv'
<1> USE DEF Write, Goto, Fail, Succeed, call
<1>1. temp \in [Calls -> Files] /\ temp[c] \in Whole /\ Writes(c) /\ asked[c] \in Perms /\ held[c] \in Contents
  BY DEF TransferInv, TypeOK, Placed, Underway, Files, Writes
<1>3. PICK x \in Contents :
        /\ temp' = [temp EXCEPT ![c].data = x]
        /\ \/ x = held[c] /\ Goto(c, "chmod") /\ UNCHANGED result
           \/ Fail(c, "remove")
  BY <1>1, ContentsFacts
<1>2. temp' = [temp EXCEPT ![c] = temp'[c]] /\ temp'[c] \in Whole /\ temp'[c] # NoFile /\ temp'[c].data = x
  BY <1>1, <1>3, DataOfOne, ContentsFacts
<1>6. TypeOK'
  BY <1>1, <1>2, <1>3 DEF TransferInv, TypeOK, Steps, Files
<1>7. (Placed(c) /\ Underway(c))'
  <2>1. Placed(c)'
    BY <1>1, <1>2, <1>3 DEF TransferInv, TypeOK, Placed, Writes
  <2>2. Underway(c)'
    BY <1>1, <1>2, <1>3 DEF TransferInv, TypeOK, Placed, Underway, Writes, Faithful, Source
  <2> QED
    BY <2>1, <2>2
<1>8. \A d \in Calls \ {c} : UNCHANGED <<guest[d], temp[d], held[d], step[d], result[d], touched[d]>>
  BY <1>1, <1>2 DEF TransferInv, TypeOK
<1> QED
  BY <1>6, <1>7, <1>8, OneCallSteps

LEMMA ChmodKeeps == ASSUME TransferInv, NEW c \in Calls, Chmod(c) PROVE TransferInv'
<1> USE DEF Chmod, Goto, Fail, Succeed, call
<1>1. temp \in [Calls -> Files] /\ temp[c] \in Whole /\ Writes(c) /\ asked[c] \in Perms /\ held[c] \in Contents
  BY DEF TransferInv, TypeOK, Placed, Underway, Files, Writes
<1>2. temp' = [temp EXCEPT ![c] = temp'[c]] /\ temp'[c] \in Whole /\ temp'[c] # NoFile
      /\ temp'[c].data = temp[c].data
  <2>1. CASE temp' = [temp EXCEPT ![c].perm = asked[c]]
    BY <1>1, <2>1, PermOfOne, ContentsFacts
  <2>2. CASE UNCHANGED temp
    BY <1>1, <2>2, NoFileAssumption
  <2> QED
    BY <2>1, <2>2
<1>3. step'[c] = "copy" => temp'[c].perm = asked[c]
  <2>1. CASE temp' = [temp EXCEPT ![c].perm = asked[c]]
    BY <1>1, <2>1, PermOfOne
  <2>2. CASE step' = [step EXCEPT ![c] = "remove"]
    BY <2>2 DEF TransferInv, TypeOK
  <2> QED
    BY <2>1, <2>2
<1>6. TypeOK'
  BY <1>1, <1>2 DEF TransferInv, TypeOK, Steps, Files
<1>7. (Placed(c) /\ Underway(c))'
  <2>1. Placed(c)'
    BY <1>1, <1>2 DEF TransferInv, TypeOK, Placed, Writes
  <2>2. Underway(c)'
    BY <1>1, <1>2, <1>3 DEF TransferInv, TypeOK, Placed, Underway, Writes, Faithful, Source
  <2> QED
    BY <2>1, <2>2
<1>8. \A d \in Calls \ {c} : UNCHANGED <<guest[d], temp[d], held[d], step[d], result[d], touched[d]>>
  BY <1>1, <1>2 DEF TransferInv, TypeOK
<1> QED
  BY <1>6, <1>7, <1>8, OneCallSteps

LEMMA CopyInKeeps == ASSUME TransferInv, NEW c \in Calls, CopyIn(c) PROVE TransferInv'
<1> USE DEF CopyIn, Goto, Fail, Succeed, call
<1>1. PICK ok \in BOOLEAN, after \in Files :
        /\ Copy(c, temp[c], guest[c], ok, after)
        /\ guest' = [guest EXCEPT ![c] = after]
        /\ IF ok THEN Succeed(c, "remove") ELSE Fail(c, "remove")
  OBVIOUS
<1>2. ok => after = temp[c] /\ after # NoFile
  BY <1>1 DEF Copy
<1>6. TypeOK'
  BY <1>1 DEF TransferInv, TypeOK, Steps
<1>7. (Placed(c) /\ Underway(c))'
  <2>1. Placed(c)'
    BY <1>1 DEF TransferInv, TypeOK, Placed, Writes
  <2>2. CASE ok
    BY <1>1, <1>2, <2>1, <2>2 DEF TransferInv, TypeOK, Placed, Underway, Writes, Faithful, Source
  <2>3. CASE ~ok
    BY <1>1, <2>1, <2>3 DEF TransferInv, TypeOK, Placed, Underway, Writes, Faithful, Source
  <2> QED
    BY <2>2, <2>3
<1>8. \A d \in Calls \ {c} : UNCHANGED <<guest[d], temp[d], held[d], step[d], result[d], touched[d]>>
  BY <1>1 DEF TransferInv, TypeOK
<1> QED
  BY <1>6, <1>7, <1>8, OneCallSteps

LEMMA FillKeeps == ASSUME TransferInv, NEW c \in Calls, Fill(c) PROVE TransferInv'
<1> USE DEF Fill, Goto, Fail, Succeed, call
<1>1. temp \in [Calls -> Files] /\ temp[c] \in Whole /\ ~Writes(c)
  BY DEF TransferInv, TypeOK, Placed, Files, Writes
<1>2. Source(c) # NoFile => Source(c).data \in Contents
  BY ContentsFacts, FileIsWhole DEF TransferInv, TypeOK, Source, Files, Whole
<1>3. PICK x \in Contents :
        /\ temp' = [temp EXCEPT ![c].data = x]
        /\ \/ /\ Source(c) # NoFile /\ x = Source(c).data
              /\ Goto(c, "open") /\ UNCHANGED result
           \/ Fail(c, "remove")
  BY <1>2, ContentsFacts
<1>4. temp'[c] \in Whole /\ temp'[c] # NoFile /\ temp'[c].data = x
  BY <1>1, <1>3, DataOfOne, ContentsFacts
<1>5. temp' = [temp EXCEPT ![c] = temp'[c]]
  BY <1>1, <1>3, DataOfOne, ContentsFacts
<1>6. TypeOK'
  BY <1>3, <1>4, <1>5 DEF TransferInv, TypeOK, Steps, Files
<1>7. (Placed(c) /\ Underway(c))'
  <2>1. Placed(c)'
    BY <1>1, <1>3, <1>4 DEF TransferInv, TypeOK, Placed, Writes
  <2>2. Underway(c)'
    BY <1>1, <1>2, <1>4, <1>3 DEF TransferInv, TypeOK, Placed, Underway, Writes, Faithful, Source
  <2> QED
    BY <2>1, <2>2
<1>8. \A d \in Calls \ {c} : UNCHANGED <<guest[d], temp[d], held[d], step[d], result[d], touched[d]>>
  BY <1>5 DEF TransferInv, TypeOK
<1> QED
  BY <1>6, <1>7, <1>8, OneCallSteps

LEMMA OpenKeeps == ASSUME TransferInv, NEW c \in Calls, Open(c) PROVE TransferInv'
<1> USE DEF Open, Goto, Fail, Succeed, call
<1>1. TypeOK'
  <2>1. temp[c] \in Whole
    BY DEF TransferInv, TypeOK, Placed, Files
  <2>2. temp[c].data \in Contents
    BY <2>1 DEF Whole
  <2> QED
    BY <2>2 DEF TransferInv, TypeOK, Steps
<1>2. (Placed(c) /\ Underway(c))'
  BY ContentsFacts, FileIsWhole DEF TransferInv, TypeOK, Placed, Underway, Writes, Faithful, Source, Ended
<1>3. \A d \in Calls \ {c} : UNCHANGED <<guest[d], temp[d], held[d], step[d], result[d], touched[d]>>
  BY DEF TransferInv, TypeOK
<1> QED
  BY <1>1, <1>2, <1>3, OneCallSteps

LEMMA RemoveKeeps == ASSUME TransferInv, NEW c \in Calls, Remove(c) PROVE TransferInv'
<1> USE DEF Remove, Goto, Fail, Succeed, call
<1>1. TypeOK'
  BY ContentsFacts, FileIsWhole DEF TransferInv, TypeOK, Steps, Files, Whole, Ended, Placed
<1>2. (Placed(c) /\ Underway(c))'
  BY ContentsFacts, FileIsWhole DEF TransferInv, TypeOK, Placed, Underway, Writes, Faithful, Source, Ended
<1>3. \A d \in Calls \ {c} : UNCHANGED <<guest[d], temp[d], held[d], step[d], result[d], touched[d]>>
  BY DEF TransferInv, TypeOK
<1> QED
  BY <1>1, <1>2, <1>3, OneCallSteps

LEMMA CloseKeeps == ASSUME TransferInv, NEW c \in Calls, Close(c) PROVE TransferInv'
<1> USE DEF Close, Goto, Fail, Succeed, call
<1>1. TypeOK'
  BY DEF TransferInv, TypeOK, Steps, Files
<1>2. (Placed(c) /\ Underway(c))'
  BY ContentsFacts, FileIsWhole DEF TransferInv, TypeOK, Placed, Underway, Writes, Faithful, Source, Ended
<1>3. \A d \in Calls \ {c} : UNCHANGED <<guest[d], temp[d], held[d], step[d], result[d], touched[d]>>
  BY DEF TransferInv, TypeOK
<1> QED
  BY <1>1, <1>2, <1>3, OneCallSteps

LEMMA CheckKeeps == ASSUME TransferInv, NEW c \in Calls, Check(c) PROVE TransferInv'
<1> USE DEF Check, Goto, Fail, Succeed, call
<1>1. TypeOK'
  BY DEF TransferInv, TypeOK, Steps
<1>2. (Placed(c) /\ Underway(c))'
  BY ContentsFacts, FileIsWhole DEF TransferInv, TypeOK, Placed, Underway, Writes, Faithful, Source, Ended
<1>3. \A d \in Calls \ {c} : UNCHANGED <<guest[d], temp[d], held[d], step[d], result[d], touched[d]>>
  BY DEF TransferInv, TypeOK
<1> QED
  BY <1>1, <1>2, <1>3, OneCallSteps

LEMMA TickKeeps == ASSUME TransferInv, NEW c \in Calls, Tick(c) PROVE TransferInv'
<1> USE DEF Tick, Goto, Fail, Succeed, call
<1>1. TypeOK'
  BY ContentsFacts, FileIsWhole DEF TransferInv, TypeOK, Steps, Files, Whole, Ended, Placed
<1>2. (Placed(c) /\ Underway(c))'
  BY ContentsFacts, FileIsWhole DEF TransferInv, TypeOK, Placed, Underway, Writes, Faithful, Source, Ended
<1>3. \A d \in Calls \ {c} : UNCHANGED <<guest[d], temp[d], held[d], step[d], result[d], touched[d]>>
  BY DEF TransferInv, TypeOK
<1> QED
  BY <1>1, <1>2, <1>3, OneCallSteps

LEMMA AppearKeeps == ASSUME TransferInv, NEW c \in Calls, Appear(c) PROVE TransferInv'
<1> USE DEF Appear, call
<1>1. TypeOK'
  BY ContentsFacts, FileIsWhole DEF TransferInv, TypeOK, Files
<1>2. (Placed(c) /\ Underway(c))'
  BY DEF TransferInv, TypeOK, Placed, Underway, Writes, Faithful, Source
<1>3. \A d \in Calls \ {c} : UNCHANGED <<guest[d], temp[d], held[d], step[d], result[d], touched[d]>>
  BY DEF TransferInv, TypeOK
<1> QED
  BY <1>1, <1>2, <1>3, OneCallSteps

LEMMA ExpireKeeps == ASSUME TransferInv, NEW c \in Calls, Expire(c) PROVE TransferInv'
BY DEF Expire, TransferInv, TypeOK, Placed, Underway, Writes, Faithful, Source

\* Whoever changes the host file touches it for every call that is under way.
LEMMA EditHostKeeps == ASSUME TransferInv, EditHost PROVE TransferInv'
<1> USE DEF EditHost, call
<1>1. edits' \in 0 .. MaxEdits /\ UNCHANGED <<guest, temp, kind, asked, ctx, held, step, result>>
  BY EditsAssumption DEF TransferInv, TypeOK
<1>2. host'.regular \in BOOLEAN /\ host' = [file |-> host'.file, regular |-> host'.regular]
  BY DEF TransferInv, TypeOK
<1>3. host'.file \in [data : 0 .. MaxEdits, perm : Perms] \cup {NoFile}
  <2>1. CASE host' = [host EXCEPT !.file = NoFile]
    BY <2>1 DEF TransferInv, TypeOK
  <2>2. CASE \E p \in Perms : host' = [host EXCEPT !.file = File(edits', p)]
    BY <1>1, <2>2 DEF TransferInv, TypeOK, File
  <2>3. CASE host.file # NoFile /\ \E p \in Perms : host' = [host EXCEPT !.file.perm = p]
    BY <2>3 DEF TransferInv, TypeOK
  <2> QED
    BY <2>1, <2>2, <2>3
<1>4. TypeOK'
  BY <1>1, <1>2, <1>3 DEF TransferInv, TypeOK
<1>5. \A d \in Calls : (Placed(d) /\ Underway(d))'
  <2> TAKE d \in Calls
  <2>1. Placed(d)'
    BY <1>1 DEF TransferInv, TypeOK, Placed, Writes
  <2>2. touched'[d] <=> step[d] # "idle"
    BY DEF TransferInv, TypeOK
  <2>3. Underway(d)'
    BY <1>1, <2>2 DEF TransferInv, TypeOK, Placed, Underway, Writes, Faithful, Source
  <2> QED
    BY <2>1, <2>3
<1> QED
  BY <1>4, <1>5 DEF TransferInv

LEMMA NextKeeps == TransferInv /\ [Next]_vars => TransferInv'
<1> SUFFICES ASSUME TransferInv, [Next]_vars PROVE TransferInv'
  OBVIOUS
<1>1. CASE UNCHANGED vars
  BY <1>1 DEF vars, TransferInv, TypeOK, Placed, Underway, Writes, Faithful, Source
<1>2. CASE EditHost
  BY <1>2, EditHostKeeps
<1>3. ASSUME NEW c \in Calls,
             \/ Begin(c) \/ Stat(c) \/ Read(c) \/ CopyAsIs(c) \/ MakeTemp(c) \/ Write(c) \/ Chmod(c)
             \/ CopyIn(c) \/ Fill(c) \/ Open(c) \/ Remove(c) \/ Close(c) \/ Check(c) \/ Tick(c)
             \/ Appear(c) \/ Expire(c)
      PROVE  TransferInv'
  BY <1>3, BeginKeeps, StatKeeps, ReadKeeps, CopyAsIsKeeps, MakeTempKeeps, WriteKeeps, ChmodKeeps,
     CopyInKeeps, FillKeeps, OpenKeeps, RemoveKeeps, CloseKeeps, CheckKeeps, TickKeeps,
     AppearKeeps, ExpireKeeps
<1> QED
  BY <1>1, <1>2, <1>3 DEF Next

\* Every call, for any number of calls, modes and changes of the host file, is at a step
\* whose temporary file and bytes are what the steps before it have made them
\* (provider.go:243-323, container.go:346-361).
THEOREM TransferInvariant == Spec => []TransferInv
<1>1. Init => TransferInv
  BY InitInv
<1>2. TransferInv /\ [Next]_vars => TransferInv'
  BY NextKeeps
<1> QED
  BY <1>1, <1>2, PTL DEF Spec

\* No call leaves its temporary file behind, and no reader loses the one it was handed
\* (provider.go:258, 282-286, 304-308).
THEOREM NoTempIsLeft == Spec => []NoTempLeft
<1>1. TransferInv => NoTempLeft
  BY DEF TransferInv, Placed, NoTempLeft
<1> QED
  BY <1>1, TransferInvariant, PTL

\* A copy into a container that succeeds is what was asked for, unless the host file was
\* changed during the call (container.go:349-361).
THEOREM CopiesArriveAsAsked == Spec => []ArrivesAsAsked
<1>1. TransferInv => ArrivesAsAsked
  <2> SUFFICES ASSUME TransferInv, NEW c \in Calls, Writes(c), result[c] = "nil"
               PROVE  /\ guest[c] # NoFile /\ guest[c].data \in 0 .. Given
                      /\ kind[c] = "bytes" => guest[c] = File(Given, asked[c])
                      /\ kind[c] = "file" /\ ~touched[c] => guest[c] = File(host.file.data, asked[c])
    BY DEF ArrivesAsAsked
  <2>1. guest[c] \in Whole /\ Faithful(c, guest[c].data)
        /\ (kind[c] = "bytes" \/ ~touched[c] => guest[c].perm = asked[c])
    BY DEF TransferInv, TypeOK, Underway, Files
  <2>2. guest[c] = File(guest[c].data, guest[c].perm)
    BY <2>1 DEF Whole, File
  <2>3. guest[c].data \in 0 .. Given
    BY <2>1, EditsAssumption DEF Faithful, Writes, Given
  <2> QED
    BY <2>1, <2>2, <2>3, NoFileAssumption DEF Faithful
<1> QED
  BY <1>1, TransferInvariant, PTL

\* What a reader, a probe or create gets is whole, and is there (provider.go:63-77, 310-322).
THEOREM CallsGetWhatIsThere == Spec => []GetsWhatIsThere
<1>1. TransferInv => GetsWhatIsThere
  BY DEF TransferInv, Underway, GetsWhatIsThere
<1> QED
  BY <1>1, TransferInvariant, PTL
=============================================================================
