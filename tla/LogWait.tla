------------------------------- MODULE LogWait -------------------------------
(***************************************************************************)
(* LogStrategy.WaitUntilReady (wait/log.go) on the stream that             *)
(* Provider.ContainerLogs (provider.go) and execRunner.Start (cli.go) make *)
(* of `container logs -f`: the process, the pipe of its stdout, the        *)
(* goroutine that scans it, the channel of lines, and the select loop that *)
(* counts them.                                                            *)
(***************************************************************************)
EXTENDS Naturals, Sequences, FiniteSets

CONSTANTS
  Occurrences,   \* what WithOccurrence may have been given
  Cap,           \* bound: the capacity of lineChan, 100 in the code
  MaxLines       \* bound: the lines the process writes

ASSUME LogAssumption == Occurrences \subseteq Nat /\ Cap \in Nat /\ MaxLines \in Nat

VARIABLES
  process,   \* the log command
  wrote,     \* the lines it has written to its stdout
  stderr,    \* it has written to its stderr, which nobody reads
  pipe,      \* the lines the scanner has not read
  scanner, held, failed,   \* the goroutine, the line it has in hand, scanner.Err()
  lines, closed,           \* lineChan
  reported,                \* errChan holds an error
  ctx,
  occurrence, valid,       \* the strategy: how often, and whether its regexp compiles
  at, count, result        \* the caller

stream == <<process, wrote, stderr>>
reader == <<pipe, scanner, held, failed>>
channels == <<lines, closed, reported>>
call == <<occurrence, valid, at, count, result>>
vars == <<stream, reader, channels, ctx, call>>

\* A line matches, does not, or is too long for a Scanner.
Lines == {"match", "other", "long"}

\* Those that match among the first n lines.
Matches(n) == Cardinality({i \in 1 .. n : wrote[i] = "match"})

\* An occurrence is counted before it is compared: none is as good as one.
Enough == Matches(Len(wrote)) >= IF occurrence = 0 THEN 1 ELSE occurrence

TooLong == \E i \in DOMAIN wrote : wrote[i] = "long"

Init ==
  /\ process = "none" /\ wrote = <<>> /\ stderr = FALSE
  /\ pipe = <<>> /\ scanner = "unborn" /\ held = <<>> /\ failed = FALSE
  /\ lines = <<>> /\ closed = FALSE /\ reported = FALSE
  /\ ctx = "live"
  /\ occurrence \in Occurrences /\ valid \in BOOLEAN
  /\ at = "logs" /\ count = 0 /\ result = "none"

-----------------------------------------------------------------------------
(* The caller.                                                             *)

Return(what) == at' = "returned" /\ result' = what

\* Close, deferred once there is a reader: the process is killed, the pipe stays open.
ReturnClosed(what) == Return(what) /\ process' = "exited"

\* target.Logs fails, as it does when the context has ended.
LogsFail ==
  /\ at = "logs"
  /\ Return("err")
  /\ UNCHANGED <<stream, reader, channels, ctx, occurrence, valid, count>>

OpenLogs ==
  /\ at = "logs" /\ ctx = "live"
  /\ IF valid
     THEN /\ process' = "running" /\ scanner' = "scan" /\ at' = "select"
          /\ UNCHANGED result
     ELSE ReturnClosed("err") /\ UNCHANGED scanner
  /\ UNCHANGED <<wrote, stderr, pipe, held, failed, channels, ctx, occurrence, valid, count>>

ContextEnds ==
  /\ at = "select" /\ ctx = "done"
  /\ ReturnClosed("err")
  /\ UNCHANGED <<wrote, stderr, reader, channels, ctx, occurrence, valid, count>>

\* Mutants: one occurrence too many is asked for; one too few is enough.
OneMore(n) == n > occurrence
OneLess(n) == n + 1 >= occurrence

Reached(n) == n >= occurrence

TakeLine ==
  /\ at = "select" /\ lines # <<>>
  /\ lines' = Tail(lines)
  /\ IF Head(lines) = "match"
     THEN /\ count' = count + 1
          /\ IF Reached(count') THEN ReturnClosed("nil") ELSE UNCHANGED <<process, at, result>>
     ELSE UNCHANGED <<process, at, count, result>>
  /\ UNCHANGED <<wrote, stderr, reader, closed, reported, ctx, occurrence, valid>>

\* Mutant: the end of the stream overtakes what is still in the channel.
EndOvertakes ==
  /\ at = "select" /\ closed
  /\ ReturnClosed(IF reported THEN "stream error" ELSE "eof")
  /\ UNCHANGED <<wrote, stderr, reader, channels, ctx, occurrence, valid, count>>

\* The channel is closed and drained.  Only an error that is already in errChan is seen.
StreamEnded ==
  /\ at = "select" /\ lines = <<>> /\ closed
  /\ ReturnClosed(IF reported THEN "stream error" ELSE "eof")
  /\ UNCHANGED <<wrote, stderr, reader, channels, ctx, occurrence, valid, count>>

Call == LogsFail \/ OpenLogs \/ ContextEnds \/ TakeLine \/ StreamEnded

-----------------------------------------------------------------------------
(* The goroutine that scans.                                               *)

ScanLine ==
  /\ scanner = "scan" /\ pipe # <<>> /\ Head(pipe) # "long"
  /\ held' = <<Head(pipe)>>
  /\ pipe' = Tail(pipe)
  /\ scanner' = "send"
  /\ UNCHANGED <<stream, failed, channels, ctx, call>>

\* Mutants: a line that finds the channel full is dropped; the channel has no buffer.
SendOrDrop ==
  /\ scanner = "send"
  /\ lines' = IF Len(lines) < Cap THEN lines \o held ELSE lines
  /\ held' = <<>>
  /\ scanner' = "scan"
  /\ UNCHANGED <<stream, pipe, failed, closed, reported, ctx, call>>

SendToReceiver ==
  /\ scanner = "send" /\ at = "select" /\ lines = <<>>
  /\ lines' = lines \o held
  /\ held' = <<>>
  /\ scanner' = "scan"
  /\ UNCHANGED <<stream, pipe, failed, closed, reported, ctx, call>>

\* lineChan <- scanner.Text() blocks while the channel is full.
Send ==
  /\ scanner = "send" /\ Len(lines) < Cap
  /\ lines' = lines \o held
  /\ held' = <<>>
  /\ scanner' = "scan"
  /\ UNCHANGED <<stream, pipe, failed, closed, reported, ctx, call>>

\* The writing end of the pipe is closed once cmd.Wait has returned: when the process has
\* exited and both of its outputs have been copied, but nobody reads the copy of stderr.
Eof == process = "exited" /\ ~stderr

ScanEnds ==
  /\ scanner = "scan"
  /\ \/ pipe = <<>> /\ Eof /\ UNCHANGED failed
     \/ pipe # <<>> /\ Head(pipe) = "long" /\ failed' = TRUE
  /\ scanner' = "close"
  /\ UNCHANGED <<stream, pipe, held, channels, ctx, call>>

\* Mutant: the channel is closed only after a clean end.
CloseAfterEof ==
  /\ scanner = "close"
  /\ closed' = ~failed
  /\ scanner' = IF failed THEN "report" ELSE "ended"
  /\ UNCHANGED <<stream, pipe, held, failed, lines, reported, ctx, call>>

CloseLines ==
  /\ scanner = "close"
  /\ closed' = TRUE
  /\ scanner' = IF failed THEN "report" ELSE "ended"
  /\ UNCHANGED <<stream, pipe, held, failed, lines, reported, ctx, call>>

ReportError ==
  /\ scanner = "report"
  /\ reported' = TRUE
  /\ scanner' = "ended"
  /\ UNCHANGED <<stream, pipe, held, failed, lines, closed, ctx, call>>

Scan == ScanLine \/ Send \/ ScanEnds \/ CloseLines \/ ReportError

-----------------------------------------------------------------------------
(* The environment.                                                        *)

Write ==
  /\ process = "running" /\ Len(wrote) < MaxLines
  /\ \E l \in Lines : wrote' = Append(wrote, l) /\ pipe' = Append(pipe, l)
  /\ UNCHANGED <<process, stderr, scanner, held, failed, channels, ctx, call>>

WriteStderr ==
  /\ process = "running" /\ ~stderr
  /\ stderr' = TRUE
  /\ UNCHANGED <<process, wrote, reader, channels, ctx, call>>

\* The stream ends with its container, or the end of the context kills the process.
Exit ==
  /\ process = "running"
  /\ process' = "exited"
  /\ UNCHANGED <<wrote, stderr, reader, channels, ctx, call>>

Expire == ctx = "live" /\ ctx' = "done" /\ UNCHANGED <<stream, reader, channels, call>>

Next == Call \/ Scan \/ Write \/ WriteStderr \/ Exit \/ Expire

Spec == Init /\ [][Next]_vars

\* The goroutines that can run do run.  The process is not obliged to write or to exit.
Fairness == WF_vars(Call) /\ WF_vars(Scan)

FairSpec == Spec /\ Fairness

-----------------------------------------------------------------------------
(* Properties.                                                             *)

\* Every variable stays in its type; lineChan holds no more than it can.
StreamType ==
  /\ process \in {"none", "running", "exited"}
  /\ wrote \in Seq(Lines)
  /\ stderr \in BOOLEAN

ReaderType ==
  /\ pipe \in Seq(Lines)
  /\ scanner \in {"unborn", "scan", "send", "close", "report", "ended"}
  /\ held \in {<<>>, <<"match">>, <<"other">>}
  /\ failed \in BOOLEAN

ChannelsType ==
  /\ lines \in Seq({"match", "other"}) /\ Len(lines) <= Cap
  /\ closed \in BOOLEAN /\ reported \in BOOLEAN
  /\ ctx \in {"live", "done"}

CallType ==
  /\ occurrence \in Occurrences /\ valid \in BOOLEAN
  /\ at \in {"logs", "select", "returned"}
  /\ count \in Nat
  /\ result \in {"none", "nil", "err", "stream error", "eof"}

TypeOK == StreamType /\ ReaderType /\ ChannelsType /\ CallType

\* Between the process and the count no line is lost, doubled or overtaken, whoever is
\* ahead: what was counted is a prefix of what was written, the rest is still under way
\* (log.go:63-95).
Underway == lines \o held \o pipe
Taken == Len(wrote) - Len(Underway)

NoLineLost ==
  /\ Len(Underway) <= Len(wrote)
  /\ \A i \in DOMAIN Underway : Underway[i] = wrote[Taken + i]
  /\ count = Matches(Taken)

\* io.EOF is not returned over lines that would have been enough (log.go:83-92).
EofMeansTooFew == result = "eof" => ~Enough \/ TooLong

\* What they rest on: the scanner has a line in hand only while it sends it, and closes the
\* channel only once the stream has ended or broken; the caller stops at the last match it
\* was asked for, and not before.
StreamSafe ==
  /\ held = <<>> <=> scanner # "send"
  /\ at = "logs" => scanner = "unborn" /\ process = "none"
  /\ at = "returned" => process # "running"
  /\ failed => scanner \in {"close", "report", "ended"} /\ pipe # <<>> /\ Head(pipe) = "long"
  /\ scanner \in {"close", "report", "ended"} /\ ~failed => pipe = <<>> /\ process = "exited"
  /\ closed => scanner \in {"report", "ended"}
  /\ result = "none" <=> at # "returned"
  /\ result \in {"none", "eof"} => count = 0 \/ count < occurrence
  /\ result = "eof" => closed /\ lines = <<>>

LogInv == TypeOK /\ NoLineLost /\ StreamSafe

\* Once the pattern has been written often enough the wait ends, context or no context.
EnoughLinesEndTheWait == (at = "select" /\ Enough) ~> (at = "returned")

\* A stream that ends, with nothing on stderr, or breaks, ends the wait.
StreamEndEndsTheWait ==
  (at = "select" /\ (Eof \/ TooLong)) ~> (at = "returned")

\* The goroutine ends after the wait has returned, if the lines nobody will receive any
\* more fit into the channel and the process wrote nothing to stderr.
ScannerEnds ==
  (at = "returned" /\ ~stderr /\ Len(lines \o held \o pipe) <= Cap)
    ~> (scanner \in {"unborn", "ended"})

\* ForLog is a Strategy (wait.go:9-11).
Contract == INSTANCE WaitContract WITH
  met <- Enough,
  result <- IF result \in {"none", "nil"} THEN result ELSE "err"

KeepsContract == Contract!Spec
=============================================================================
