------------------------------ MODULE PollWait ------------------------------
(***************************************************************************)
(* The strategies that poll: ForListeningPort, ForHTTP, ForSQL, ForExec,   *)
(* ForHealth, ForExit and ForFile (wait/*.go).  They share one loop and    *)
(* differ in what they resolve before it and in what a probe takes for     *)
(* readiness.  The container and the daemon they ask live on meanwhile.    *)
(***************************************************************************)
EXTENDS Naturals

CONSTANTS
  Asks,        \* what the strategy may be built as
  MaxFaults,   \* bound: resolutions and probes that fail while the context is live
  MaxLate      \* bound: probes counted after the context has ended

\* "udp" is ForListeningPort with a port of that protocol
Kinds == {"port", "udp", "http", "sql", "exec", "health", "exit", "file"}

\* mapping: HostPortMapping; known: the port is valid and, with mapping, published;
\* want: the exit code ForExec's matcher accepts (0 for the others)
ASSUME AsksAssumption ==
  /\ Asks \subseteq [kind : Kinds, mapping : BOOLEAN, known : BOOLEAN, want : {0, 1}]
  /\ \A a \in Asks : a.kind # "exec" => a.want = 0
ASSUME BoundsAssumption == MaxFaults \in Nat /\ MaxLate \in Nat

VARIABLES
  \* the container: its status, whether it has an address, and what is found in it:
  \* the exit code of the command, or 0 exactly when the service or the file is there
  status, address, code,
  \* the call: its strategy and context, the ticker's pending tick, where it is
  ask, ctx, tick, at, result,
  \* observation: what is waited for has been the case since the call began; probes
  \* that ended after the context had
  met, late,
  faults

world == <<status, address, code>>
vars == <<world, ask, ctx, tick, at, result, met, late, faults>>

ResolvesAddress == ask.kind \in {"port", "udp", "http", "sql"}

\* What the strategy is documented to wait for.
IsMet(s, c) ==
  IF ask.kind = "exit" THEN s # "running" ELSE s = "running" /\ c = ask.want

Init ==
  /\ status = "running"
  /\ address \in BOOLEAN
  /\ code \in {0, 1}
  /\ ask \in Asks
  /\ ctx = "live"
  /\ tick = FALSE
  /\ at = IF ResolvesAddress THEN "host" ELSE "check"
  /\ result = "none"
  /\ met = IsMet(status, code)
  /\ late = 0
  /\ faults = 0

-----------------------------------------------------------------------------
(* The call.                                                               *)

Goto(label) == at' = label /\ UNCHANGED result

Return(what) == at' = "returned" /\ result' = what

\* A command the context allows, and the daemon serves.
Served == ctx = "live" /\ UNCHANGED faults
Fault == ctx = "live" /\ faults < MaxFaults /\ faults' = faults + 1
Refused == ctx = "done" /\ UNCHANGED faults

\* What is looked up in Inspect must be there; nothing is tried again.
Inspect(found, next) ==
  \/ Served /\ IF status # "gone" /\ found THEN Goto(next) ELSE Return("err")
  \/ Fault /\ Return("err")
  \/ Refused /\ Return("err")

\* ForListeningPort looks at its port first.
BadSpec == ask.kind \in {"port", "udp"} /\ ~ask.known /\ ~ask.mapping

\* Host: "localhost" with mapping, else the container's address.
ResolveHost ==
  /\ at = "host"
  /\ \/ BadSpec /\ Return("err") /\ UNCHANGED faults
     \/ ~BadSpec /\ ask.mapping /\ Goto("port") /\ UNCHANGED faults
     \/ ~BadSpec /\ ~ask.mapping /\ Inspect(address, "port")
  /\ UNCHANGED <<world, ask, ctx, tick, met, late>>

\* MappedPort: the port itself, or with mapping the published one.
ResolvePort ==
  /\ at = "port"
  /\ \/ ~ask.mapping /\ ask.known /\ Goto("check") /\ UNCHANGED faults
     \/ ~ask.mapping /\ ~ask.known /\ Return("err") /\ UNCHANGED faults
     \/ ask.mapping /\ Inspect(ask.known, "check")
  /\ UNCHANGED <<world, ask, ctx, tick, met, late>>

\* Mutant: the loop does not look at the context.
CheckNothing ==
  /\ at = "check"
  /\ Goto("probe")
  /\ UNCHANGED <<world, ask, ctx, tick, met, late, faults>>

\* The head of the loop: ctx.Err()
CheckContext ==
  /\ at = "check"
  /\ IF ctx = "live" THEN Goto("probe") ELSE Return("err")
  /\ UNCHANGED <<world, ask, ctx, tick, met, late, faults>>

\* Mutant: ForExit retries after an error, as the others do.
RetryOnError == FALSE

\* What a probe makes of an error: ForExit takes it for a container that is gone.
ReadyOnError == ask.kind = "exit"

\* Mutant: the answer is not looked at (no status code, matcher, or query result).
FindsAnswer ==
  IF ask.kind = "exit" THEN status = "stopped" \/ (status = "gone" /\ ReadyOnError)
  ELSE status = "running"

\* What a probe that was served makes of what it finds.  A container that is gone is an
\* error to Inspect; ExecContainer returns an error for every exit code but 0, before the
\* matcher sees it; dialling a UDP port sends nothing, and succeeds whoever listens there.
Finds ==
  CASE ask.kind = "exit" -> status = "stopped" \/ (status = "gone" /\ ReadyOnError)
    [] ask.kind = "exec" -> status = "running" /\ code = 0 /\ code = ask.want
    [] ask.kind = "udp" -> TRUE
    [] OTHER -> status = "running" /\ code = 0

\* Mutant: a probe that fails ends the wait.
ConcludeAtOnce(ready) == Return(IF ready THEN "nil" ELSE "err")

Conclude(ready) == IF ready THEN Return("nil") ELSE Goto("select")

Probe ==
  /\ at = "probe"
  /\ \/ Served /\ Conclude(Finds) /\ UNCHANGED late
     \/ Fault /\ Conclude(ReadyOnError) /\ UNCHANGED late
     \/ Refused /\ Conclude(ReadyOnError) /\ late' = IF late < MaxLate THEN late + 1 ELSE late
  /\ UNCHANGED <<world, ask, ctx, tick, met>>

\* A select with both channels ready takes either.
Select ==
  /\ at = "select"
  /\ \/ ctx = "done" /\ Return("err") /\ UNCHANGED tick
     \/ tick /\ tick' = FALSE /\ Goto("check")
  /\ UNCHANGED <<world, ask, ctx, met, late, faults>>

Call == ResolveHost \/ ResolvePort \/ CheckContext \/ Probe \/ Select

-----------------------------------------------------------------------------
(* The environment.                                                        *)

Tick == ~tick /\ tick' = TRUE /\ UNCHANGED <<world, ask, ctx, at, result, met, late, faults>>

Expire == ctx = "live" /\ ctx' = "done" /\ UNCHANGED <<world, ask, tick, at, result, met, late, faults>>

\* The container gets its address, its service comes and goes, its process exits, and
\* --rm removes it.
World ==
  /\ \/ status = "running" /\ ~address /\ address' = TRUE /\ UNCHANGED <<status, code>>
     \/ status = "running" /\ code' = 1 - code /\ UNCHANGED <<status, address>>
     \/ status = "running" /\ status' = "stopped" /\ UNCHANGED <<address, code>>
     \/ status = "stopped" /\ status' = "gone" /\ UNCHANGED <<address, code>>
  /\ met' = (met \/ IsMet(status', code'))
  /\ UNCHANGED <<ask, ctx, tick, at, result, late, faults>>

Next == Call \/ Tick \/ Expire \/ World

Spec == Init /\ [][Next]_vars

\* The call goes on, commands end, and the ticker ticks (its interval is positive).
Fairness == WF_vars(Call) /\ WF_vars(Tick)

FairSpec == Spec /\ Fairness

-----------------------------------------------------------------------------
(* Properties.                                                             *)

\* Every variable stays in its type.
TypeOK ==
  /\ status \in {"running", "stopped", "gone"}
  /\ address \in BOOLEAN
  /\ code \in {0, 1}
  /\ ask \in Asks
  /\ ctx \in {"live", "done"}
  /\ tick \in BOOLEAN
  /\ at \in {"host", "port", "check", "probe", "select", "returned"}
  /\ result \in {"none", "nil", "err"}
  /\ met \in BOOLEAN
  /\ late \in 0 .. MaxLate
  /\ faults \in 0 .. MaxFaults

\* Nobody probes on and on after the end of the context, whichever way the selects fall:
\* only the probe that was under way can end after it (exec.go:62-75, and its likes).
AtMostOneLateProbe ==
  /\ late <= 1
  /\ late = 1 => ctx = "done" /\ at # "probe"

PollInv == TypeOK /\ (result = "none" <=> at # "returned") /\ AtMostOneLateProbe

\* Once the loop is reached only the end of the context makes the strategy give up:
\* a probe that fails is tried again.
GivesUpOnlyOnExpiry ==
  [][result' = "err" /\ at \in {"check", "probe", "select"} => ctx = "done"]_vars

\* Readiness that lasts is noticed: the wait ends, without the context ending.
LastingReadinessEndsTheWait ==
  <>[]IsMet(status, code) => <>(result # "none")

\* The strategies whose nil does not mean that what they wait for has been the case: ForExit
\* takes any error for the exit, and ForListeningPort finds every UDP port ready, although
\* the README says of it "Checks if a TCP/UDP port is open and listening." (README.md:149).
SaysNothing(kind) == kind \in {"exit", "udp"}

\* The contract of a Strategy (wait.go:9-11): nil only for what has been the case, one
\* verdict, and one at the latest when the context has ended.  Those whose nil says nothing
\* keep the rest of it.
Contract == INSTANCE WaitContract WITH met <- met \/ SaysNothing(ask.kind)
KeepsContract == Contract!Spec

\* "blocks until the container's status is not "running"" (exit.go:26).
NilMeansMet == result = "nil" => met
=============================================================================
