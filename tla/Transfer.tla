------------------------------ MODULE Transfer ------------------------------
(***************************************************************************)
(* Files on their way into and out of a container (provider.go,            *)
(* container.go, wait/file.go): every call but the copy of a host file as  *)
(* it is goes through a temporary file of its own, and the file a call     *)
(* copies from may change under it.  The file system, the other processes  *)
(* of the host, and what `container cp` and `container create` do with the *)
(* paths they are given are external.  CreateTemp never returns a name     *)
(* that is or was in use, so a temporary file is named by its call.        *)
(***************************************************************************)
EXTENDS Naturals

CONSTANTS
  Calls,      \* calls that are made, all at once
  Kinds,      \* what may be called: see Begin
  Perms,      \* permission bits; Invalid is a mode that has none
  Readable,   \* those that let `container cp` read a file
  Invalid, NoFile,
  MaxEdits    \* bound: changes other processes make

TempPerm == "rw"    \* what CreateTemp gives a file

ASSUME PermsAssumption ==
  /\ Readable \subseteq Perms /\ TempPerm \in Readable /\ Invalid \notin Perms

ASSUME KindsAssumption == Kinds \subseteq {"bytes", "file", "from", "probe", "create"}

ASSUME EditsAssumption == MaxEdits \in Nat

\* Contents are versions: of the host file and of the container's files 0 .. MaxEdits, of
\* the bytes a caller passes Given, of what is there for a while only Partial and Empty.
Given == MaxEdits + 1
Partial == MaxEdits + 2
Empty == MaxEdits + 3
Contents == 0 .. Empty

File(d, p) == [data |-> d, perm |-> p]
Whole == [data : Contents, perm : Perms]
Files == Whole \cup {NoFile}

ASSUME NoFileAssumption == NoFile \notin Whole

VARIABLES
  host,     \* the host file, and whether it is a regular one
  guest,    \* per call: the file at its path in the container
  temp,     \* per call: its temporary file
  kind, asked, ctx,   \* per call: what is called, the mode it asks for, its context
  held,     \* per call: the bytes it holds
  step, result,       \* per call: where it is, what it returned
  touched,  \* observation: the host file has changed since the call began
  edits

vars == <<host, guest, temp, kind, asked, ctx, held, step, result, touched, edits>>

\* The calls that copy into the container; only they ask for a mode.
Writes(c) == kind[c] \in {"bytes", "file"}

Init ==
  /\ host \in [file : {File(0, p) : p \in Perms} \cup {NoFile}, regular : BOOLEAN]
  /\ guest = [c \in Calls |-> NoFile]
  /\ temp = [c \in Calls |-> NoFile]
  /\ kind \in [Calls -> Kinds]
  /\ asked \in [Calls -> Perms \cup {Invalid}] /\ \A c \in Calls : ~Writes(c) => asked[c] = Invalid
  /\ ctx = [c \in Calls |-> "live"]
  /\ held = [c \in Calls |-> Empty]
  /\ step = [c \in Calls |-> "idle"]
  /\ result = [c \in Calls |-> "none"]
  /\ touched = [c \in Calls |-> FALSE]
  /\ edits = 0

call == <<kind, asked, ctx>>

Steps == {"idle", "stat", "read", "direct", "make", "write", "chmod", "copy", "command", "open",
          "remove", "reading", "check", "tick", "over"}

Goto(c, next) == step' = [step EXCEPT ![c] = next]

\* A call that fails goes where `next` says and will return an error.
Fail(c, next) == Goto(c, next) /\ result' = [result EXCEPT ![c] = "err"]
Succeed(c, next) == Goto(c, next) /\ result' = [result EXCEPT ![c] = "nil"]

\* What a call checks before it does anything: the mode is one, if it has one.
Begin(c) ==
  /\ step[c] = "idle"
  /\ IF Writes(c) /\ asked[c] = Invalid
     THEN Fail(c, "over") /\ UNCHANGED held
     ELSE /\ Goto(c, CASE kind[c] = "file" -> "stat" [] kind[c] = "probe" -> "check" [] OTHER -> "make")
          /\ held' = [held EXCEPT ![c] = IF kind[c] = "bytes" THEN Given ELSE @]
          /\ UNCHANGED result
  /\ touched' = [touched EXCEPT ![c] = FALSE]
  /\ UNCHANGED <<host, guest, temp, call, edits>>

-----------------------------------------------------------------------------
(* Into the container.                                                     *)

\* Mutant: a regular file is copied as it is, whatever its mode.
RegularIsEnough(c) == host.regular

\* The host file is as asked for already.
AsIs(c) == host.regular /\ host.file.perm = asked[c]

\* CopyFileToContainer looks at the host file, and then either has it copied as it is or
\* reads it; it may have changed in between.
Stat(c) ==
  /\ step[c] = "stat"
  /\ IF host.file = NoFile THEN Fail(c, "over")
     ELSE Goto(c, IF AsIs(c) THEN "direct" ELSE "read") /\ UNCHANGED result
  /\ UNCHANGED <<host, guest, temp, call, held, touched, edits>>

Read(c) ==
  /\ step[c] = "read"
  /\ \/ /\ host.file # NoFile /\ host.file.perm \in Readable
        /\ held' = [held EXCEPT ![c] = host.file.data]
        /\ Goto(c, "make") /\ UNCHANGED result
     \/ Fail(c, "over") /\ UNCHANGED held
  /\ UNCHANGED <<host, guest, temp, call, touched, edits>>

\* `container cp`: the target becomes a copy of the source, of its mode too; a command
\* that fails, or is killed with its context, may have come to any point.
Copy(c, source, target, ok, after) ==
  \/ /\ ctx[c] = "live" /\ ok /\ source # NoFile /\ source.perm \in Readable
     /\ after = source
  \/ /\ ~ok /\ after = target
  \/ /\ ctx[c] = "live" /\ ~ok /\ source # NoFile /\ source.perm \in Readable
     /\ after \in {source, [source EXCEPT !.data = Partial]}

CopyAsIs(c) ==
  /\ step[c] = "direct"
  /\ \E ok \in BOOLEAN, after \in Files :
       /\ Copy(c, host.file, guest[c], ok, after)
       /\ guest' = [guest EXCEPT ![c] = after]
       /\ IF ok THEN Succeed(c, "over") ELSE Fail(c, "over")
  /\ UNCHANGED <<host, temp, call, held, touched, edits>>

\* A call that has failed is over; a probe that has failed is tried again at the next tick.
Ended(c) == IF kind[c] = "probe" THEN "tick" ELSE "over"

\* CreateTemp; what goes wrong before it leaves nothing, what goes wrong after it goes
\* through the deferred Remove.
MakeTemp(c) ==
  /\ step[c] = "make"
  /\ \/ /\ temp' = [temp EXCEPT ![c] = File(Empty, TempPerm)]
        /\ Goto(c, IF Writes(c) THEN "write" ELSE "command") /\ UNCHANGED result
     \/ Fail(c, Ended(c)) /\ UNCHANGED temp
  /\ UNCHANGED <<host, guest, call, held, touched, edits>>

Write(c) ==
  /\ step[c] = "write"
  /\ \/ temp' = [temp EXCEPT ![c].data = held[c]] /\ Goto(c, "chmod") /\ UNCHANGED result
     \/ temp' = [temp EXCEPT ![c].data = Partial] /\ Fail(c, "remove")
  /\ UNCHANGED <<host, guest, call, held, touched, edits>>

Chmod(c) ==
  /\ step[c] = "chmod"
  /\ \/ temp' = [temp EXCEPT ![c].perm = asked[c]] /\ Goto(c, "copy") /\ UNCHANGED result
     \/ Fail(c, "remove") /\ UNCHANGED temp
  /\ UNCHANGED <<host, guest, call, held, touched, edits>>

CopyIn(c) ==
  /\ step[c] = "copy"
  /\ \E ok \in BOOLEAN, after \in Files :
       /\ Copy(c, temp[c], guest[c], ok, after)
       /\ guest' = [guest EXCEPT ![c] = after]
       /\ IF ok THEN Succeed(c, "remove") ELSE Fail(c, "remove")
  /\ UNCHANGED <<host, temp, call, held, touched, edits>>

-----------------------------------------------------------------------------
(* Out of the container: the file, or the id that create writes.           *)

Source(c) == IF kind[c] = "create" THEN File(Given, TempPerm) ELSE guest[c]

\* Mutant: the error of the command is ignored.
FillAnyway(c) ==
  /\ step[c] = "command"
  /\ \E d \in {Empty, Partial} : temp' = [temp EXCEPT ![c].data = d]
  /\ Goto(c, "open") /\ UNCHANGED result
  /\ UNCHANGED <<host, guest, call, held, touched, edits>>

\* `container cp` or `container create` fills the file, or fails and leaves it in any state;
\* of create the arguments may also not have been built.
Fill(c) ==
  /\ step[c] = "command"
  /\ \/ /\ ctx[c] = "live" /\ Source(c) # NoFile
        /\ temp' = [temp EXCEPT ![c].data = Source(c).data]
        /\ Goto(c, "open") /\ UNCHANGED result
     \/ /\ \E d \in {Empty, Partial} : temp' = [temp EXCEPT ![c].data = d]
        /\ Fail(c, "remove")
  /\ UNCHANGED <<host, guest, call, held, touched, edits>>

\* Mutant: the file is handed over before it is known to open.
HandOverFirst(c) ==
  /\ step[c] = "open"
  /\ \/ held' = [held EXCEPT ![c] = temp[c].data]
        /\ Succeed(c, IF kind[c] = "from" THEN "reading" ELSE "remove")
     \/ Fail(c, Ended(c)) /\ UNCHANGED held
  /\ UNCHANGED <<host, guest, temp, call, touched, edits>>

\* The file is opened: handed over to a reader, closed at once by a probe, or read for
\* the id of the container.
Open(c) ==
  /\ step[c] = "open"
  /\ \/ held' = [held EXCEPT ![c] = temp[c].data]
        /\ Succeed(c, IF kind[c] = "from" THEN "reading" ELSE "remove")
     \/ Fail(c, "remove") /\ UNCHANGED held
  /\ UNCHANGED <<host, guest, temp, call, touched, edits>>

\* The deferred Remove, or the one of a probe's Close.
Remove(c) ==
  /\ step[c] = "remove"
  /\ temp' = [temp EXCEPT ![c] = NoFile]
  /\ Goto(c, IF result[c] = "err" THEN Ended(c) ELSE "over")
  /\ UNCHANGED <<host, guest, call, held, result, touched, edits>>

\* The caller closes the reader it was given.
Close(c) ==
  /\ step[c] = "reading"
  /\ temp' = [temp EXCEPT ![c] = NoFile]
  /\ Goto(c, "over")
  /\ UNCHANGED <<host, guest, call, held, result, touched, edits>>

-----------------------------------------------------------------------------
(* FileStrategy, which probes until there is a file or its context ends.   *)

Check(c) ==
  /\ step[c] = "check"
  /\ IF ctx[c] = "done" THEN Fail(c, "over") ELSE Goto(c, "make") /\ UNCHANGED result
  /\ UNCHANGED <<host, guest, temp, call, held, touched, edits>>

Tick(c) ==
  /\ step[c] = "tick"
  /\ \/ ctx[c] = "done" /\ Fail(c, "over")
     \/ Goto(c, "check") /\ result' = [result EXCEPT ![c] = "none"]
  /\ UNCHANGED <<host, guest, temp, call, held, touched, edits>>

-----------------------------------------------------------------------------
(* The host, the container and the contexts.                               *)

EditHost ==
  /\ edits < MaxEdits /\ edits' = edits + 1
  /\ \/ host' = [host EXCEPT !.file = NoFile]
     \/ \E p \in Perms : host' = [host EXCEPT !.file = File(edits', p)]
     \/ host.file # NoFile /\ \E p \in Perms : host' = [host EXCEPT !.file.perm = p]
  /\ touched' = [c \in Calls |-> step[c] # "idle"]
  /\ UNCHANGED <<guest, temp, call, held, step, result>>

Appear(c) ==
  /\ kind[c] \in {"from", "probe"} /\ guest[c] = NoFile
  /\ guest' = [guest EXCEPT ![c] = File(0, TempPerm)]
  /\ UNCHANGED <<host, temp, call, held, step, result, touched, edits>>

Expire(c) ==
  /\ ctx[c] = "live"
  /\ ctx' = [ctx EXCEPT ![c] = "done"]
  /\ UNCHANGED <<host, guest, temp, kind, asked, held, step, result, touched, edits>>

Next ==
  \/ \E c \in Calls :
       \/ Begin(c) \/ Stat(c) \/ Read(c) \/ CopyAsIs(c) \/ MakeTemp(c) \/ Write(c) \/ Chmod(c)
       \/ CopyIn(c) \/ Fill(c) \/ Open(c) \/ Remove(c) \/ Close(c) \/ Check(c) \/ Tick(c)
       \/ Appear(c) \/ Expire(c)
  \/ EditHost

Spec == Init /\ [][Next]_vars

-----------------------------------------------------------------------------
(* Properties.                                                             *)

\* A call that is over leaves no temporary file, whichever of its steps failed, and a
\* probe has at most the one of the attempt under way, however many it makes; a reader
\* that was handed over has its file until it is closed (provider.go:258, 304-308, 282-286).
NoTempLeft ==
  \A c \in Calls :
    /\ step[c] \in {"over", "tick", "check"} => temp[c] = NoFile
    /\ step[c] = "reading" => temp[c] # NoFile

\* A copy that succeeded is whole, and has the mode that was asked for: always if bytes
\* were copied, and of a host file unless it changed after the call had begun, since it
\* is looked at first and copied later (container.go:349-361).
ArrivesAsAsked ==
  \A c \in Calls : Writes(c) /\ result[c] = "nil" =>
    /\ guest[c] # NoFile /\ guest[c].data \in 0 .. Given
    /\ kind[c] = "bytes" => guest[c] = File(Given, asked[c])
    /\ kind[c] = "file" /\ ~touched[c] => guest[c] = File(host.file.data, asked[c])

\* A reader, a probe that found its file and the id of a container come of a command that
\* succeeded: they show all of the file, which is there, or the id.
GetsWhatIsThere ==
  \A c \in Calls : ~Writes(c) /\ result[c] = "nil" =>
    Source(c) # NoFile /\ held[c] = Source(c).data

\* What the three rest on: the temporary file is there from its creation to its removal,
\* and what a step finds is what the steps before it have left.
TypeOK ==
  /\ host \in [file : [data : 0 .. MaxEdits, perm : Perms] \cup {NoFile}, regular : BOOLEAN]
  /\ guest \in [Calls -> Files] /\ temp \in [Calls -> Files]
  /\ kind \in [Calls -> Kinds] /\ asked \in [Calls -> Perms \cup {Invalid}]
  /\ ctx \in [Calls -> {"live", "done"}] /\ held \in [Calls -> Contents]
  /\ step \in [Calls -> Steps] /\ result \in [Calls -> {"none", "nil", "err"}]
  /\ touched \in [Calls -> BOOLEAN] /\ edits \in 0 .. MaxEdits

Placed(c) ==
  /\ temp[c] # NoFile <=> step[c] \in {"write", "chmod", "copy", "command", "open", "remove", "reading"}
  /\ step[c] \in {"stat", "read", "direct"} => kind[c] = "file"
  /\ step[c] \in {"write", "chmod", "copy"} => Writes(c)
  /\ step[c] \in {"command", "open", "reading", "check", "tick"} => ~Writes(c)
  /\ step[c] \in {"check", "tick"} => kind[c] = "probe"
  /\ step[c] \notin {"remove", "reading", "tick", "over"} => result[c] = "none"
  /\ step[c] = "reading" => result[c] = "nil"
  /\ step[c] = "tick" => result[c] = "err"

\* The bytes a write is about are the caller's, or a version of the host file, the last
\* one if it has not changed.
Faithful(c, data) ==
  /\ kind[c] = "bytes" => data = Given
  /\ kind[c] = "file" => /\ data \in 0 .. MaxEdits
                         /\ ~touched[c] => host.file # NoFile /\ host.file.data = data

Underway(c) ==
  /\ Writes(c) /\ step[c] \notin {"idle", "over"} => asked[c] # Invalid
  /\ Writes(c) /\ step[c] \in {"make", "write", "chmod", "copy"} => Faithful(c, held[c])
  /\ step[c] \in {"chmod", "copy"} => temp[c].data = held[c]
  /\ step[c] = "copy" => temp[c].perm = asked[c]
  /\ step[c] = "direct" /\ ~touched[c] => host.file # NoFile /\ host.file.perm = asked[c]
  /\ step[c] = "open" => Source(c) # NoFile /\ temp[c].data = Source(c).data
  /\ Writes(c) /\ result[c] = "nil" =>
       /\ guest[c] # NoFile /\ Faithful(c, guest[c].data)
       /\ kind[c] = "bytes" \/ ~touched[c] => guest[c].perm = asked[c]
  /\ ~Writes(c) /\ result[c] = "nil" => Source(c) # NoFile /\ held[c] = Source(c).data

TransferInv == TypeOK /\ \A c \in Calls : Placed(c) /\ Underway(c)
=============================================================================
