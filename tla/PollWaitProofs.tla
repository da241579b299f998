---------------------------- MODULE PollWaitProofs ----------------------------
(***************************************************************************)
(* What the polling strategies promise, for any strategies and any number  *)
(* of faults.                                                              *)
(***************************************************************************)
EXTENDS PollWait, TLAPS

\* The effect of one step on what the loop is about.
LEMMA InspectKeeps ==
  ASSUME PollInv, NEW found \in BOOLEAN, NEW next \in {"port", "check"}, at # "returned",
         Inspect(found, next)
  PROVE  /\ faults' \in 0 .. MaxFaults
         /\ at' \in {"port", "check", "returned"} /\ result' \in {"none", "nil", "err"}
         /\ result' = "none" <=> at' # "returned"
BY BoundsAssumption DEF PollInv, TypeOK, Inspect, Goto, Return, Served, Fault, Refused

LEMMA ProbeKeeps == ASSUME PollInv, Probe PROVE PollInv'
<1>1. /\ at = "probe" /\ late = 0 /\ result = "none"
      /\ \E ready \in BOOLEAN : Conclude(ready)
  <2>1. Finds \in BOOLEAN /\ ReadyOnError \in BOOLEAN
    BY DEF Finds, ReadyOnError
  <2> QED
    BY <2>1 DEF Probe, PollInv, AtMostOneLateProbe, TypeOK
<1>2. at' \in {"select", "returned"} /\ result' \in {"none", "nil"} /\ (result' = "none" <=> at' # "returned")
  BY <1>1 DEF Conclude, Goto, Return
<1>3. faults' \in 0 .. MaxFaults /\ late' \in 0 .. MaxLate /\ late' <= 1 /\ (late' = 1 => ctx = "done")
  BY <1>1, BoundsAssumption DEF Probe, Served, Fault, Refused, PollInv, TypeOK
<1> QED
  BY <1>2, <1>3 DEF Probe, PollInv, TypeOK, AtMostOneLateProbe, world

LEMMA NextKeeps == PollInv /\ [Next]_vars => PollInv'
<1> SUFFICES ASSUME PollInv, [Next]_vars PROVE PollInv'
  OBVIOUS
<1> USE DEF PollInv, TypeOK, AtMostOneLateProbe, world
<1>1. CASE UNCHANGED vars
  BY <1>1 DEF vars
<1>2. CASE ResolveHost
  <2>1. at = "host" /\ late' = late
    BY <1>2 DEF ResolveHost
  <2>2. CASE Inspect(address, "port")
    BY <1>2, <2>1, <2>2, InspectKeeps DEF ResolveHost
  <2>3. CASE (Return("err") \/ Goto("port")) /\ UNCHANGED faults
    BY <1>2, <2>1, <2>3 DEF ResolveHost, Return, Goto
  <2> QED
    BY <1>2, <2>2, <2>3 DEF ResolveHost
<1>3. CASE ResolvePort
  <2>1. at = "port" /\ late' = late
    BY <1>3 DEF ResolvePort
  <2>2. CASE Inspect(ask.known, "check")
    <3>1. ask.known \in BOOLEAN
      BY AsksAssumption
    <3> QED
      BY <1>3, <2>1, <2>2, <3>1, InspectKeeps DEF ResolvePort
  <2>3. CASE (Return("err") \/ Goto("check")) /\ UNCHANGED faults
    BY <1>3, <2>1, <2>3 DEF ResolvePort, Return, Goto
  <2> QED
    BY <1>3, <2>2, <2>3 DEF ResolvePort
<1>4. CASE CheckContext
  BY <1>4 DEF CheckContext, Goto, Return
<1>5. CASE Probe
  BY <1>5, ProbeKeeps
<1>6. CASE Select
  BY <1>6 DEF Select, Goto, Return
<1>7. CASE Tick \/ Expire
  BY <1>7 DEF Tick, Expire
<1>8. CASE World
  <2>1. status' \in {"running", "stopped", "gone"} /\ address' \in BOOLEAN /\ code' \in {0, 1}
    <3>1. code \in {0, 1} => 1 - code \in {0, 1}
      OBVIOUS
    <3> QED
      BY <1>8, <3>1 DEF World
  <2>2. met' \in BOOLEAN
    BY <1>8 DEF World, IsMet
  <2> QED
    BY <1>8, <2>1, <2>2 DEF World
<1> QED
  BY <1>1, <1>2, <1>3, <1>4, <1>5, <1>6, <1>7, <1>8 DEF Next, Call

\* A polling strategy returns once, and no more than the probe under way ends after its
\* context has (exec.go:62-78 and its likes).
THEOREM PollInvariant == Spec => []PollInv
<1>1. Init => PollInv
  <2> SUFFICES ASSUME Init PROVE PollInv
    OBVIOUS
  <2>1. met \in BOOLEAN
    BY DEF Init, IsMet
  <2>2. late \in 0 .. MaxLate /\ faults \in 0 .. MaxFaults /\ late <= 1 /\ late # 1
    BY BoundsAssumption DEF Init
  <2>3. at \in {"host", "check"}
    BY DEF Init
  <2> QED
    BY <2>1, <2>2, <2>3 DEF Init, PollInv, TypeOK, AtMostOneLateProbe
<1>2. PollInv /\ [Next]_vars => PollInv'
  BY NextKeeps
<1> QED
  BY <1>1, <1>2, PTL DEF Spec

\* In the loop a strategy fails only because its context has ended (exec.go:63, 72).
THEOREM FailsOnlyOnExpiry == Spec => GivesUpOnlyOnExpiry
<1>1. PollInv /\ [Next]_vars =>
        [result' = "err" /\ at \in {"check", "probe", "select"} => ctx = "done"]_vars
  <2> SUFFICES ASSUME PollInv, Next, result' = "err", at \in {"check", "probe", "select"}
               PROVE  ctx = "done"
    OBVIOUS
  <2>1. result = "none"
    BY DEF PollInv
  <2>2. ~(ResolveHost \/ ResolvePort \/ Tick \/ Expire \/ World)
    BY <2>1 DEF ResolveHost, ResolvePort, Tick, Expire, World
  <2>3. ~Probe
    BY <2>1 DEF Probe, Conclude, Goto, Return
  <2> QED
    BY <2>1, <2>2, <2>3 DEF Next, Call, CheckContext, Select, Goto, Return, PollInv, TypeOK
<1> QED
  BY <1>1, PollInvariant, PTL DEF Spec, GivesUpOnlyOnExpiry

\* Readiness that is there has been noticed by whoever watches.
Watched == met \/ ~IsMet(status, code)

LEMMA WatchedInvariant == Spec => []Watched
<1>1. Init => Watched
  BY DEF Init, Watched
<1>2. Watched /\ [Next]_vars => Watched'
  <2> SUFFICES ASSUME Watched, [Next]_vars PROVE Watched'
    OBVIOUS
  <2>1. CASE World
    BY <2>1 DEF World, Watched, IsMet
  <2>2. CASE UNCHANGED <<world, ask, met>>
    BY <2>2 DEF Watched, IsMet, world
  <2> QED
    BY <2>1, <2>2 DEF Next, Call, ResolveHost, ResolvePort, CheckContext, Probe, Select, Tick,
       Expire, vars, world
<1> QED
  BY <1>1, <1>2, PTL DEF Spec

\* What a probe takes for readiness is what the strategy waits for, but where it says nothing.
LEMMA ProbeIsHonest ==
  ASSUME PollInv, Probe, Watched, result' = "nil"
  PROVE  met \/ SaysNothing(ask.kind)
<1> SUFFICES ASSUME ask.kind \notin {"exit", "udp"} PROVE met
  BY DEF SaysNothing
<1>1. ~ReadyOnError /\ result = "none"
  BY DEF ReadyOnError, PollInv, Probe
<1>2. Finds
  BY <1>1 DEF Probe, Conclude, Goto
<1>3. status = "running" /\ code = ask.want
  BY <1>2, AsksAssumption DEF Finds, PollInv, TypeOK
<1> QED
  BY <1>3 DEF IsMet, Watched

\* Every polling strategy keeps the safety of the contract (wait.go:9-11), ForExit and
\* ForListeningPort of a UDP port but for what their nil means, which is nothing.
THEOREM PollingIsAStrategy == Spec => Contract!Safe
<1>1. Init => Contract!Init
  BY DEF Init, Contract!Init, IsMet
<1>2. PollInv /\ Watched /\ [Next]_vars => [Contract!Next]_(Contract!vars)
  <2> SUFFICES ASSUME PollInv, Watched, [Next]_vars PROVE [Contract!Next]_(Contract!vars)
    OBVIOUS
  <2> USE DEF Contract!Next, Contract!vars, Contract!Meet, Contract!Expire, Contract!Ready, Contract!Fail
  <2>1. CASE UNCHANGED vars
    BY <2>1 DEF vars
  <2>2. CASE ResolveHost
    BY <2>2 DEF ResolveHost, Inspect, Goto, Return, PollInv
  <2>3. CASE ResolvePort
    BY <2>3 DEF ResolvePort, Inspect, Goto, Return, PollInv
  <2>4. CASE CheckContext
    BY <2>4 DEF CheckContext, Goto, Return, PollInv
  <2>5. CASE Probe
    <3>1. result' = "none" \/ result' = "nil"
      BY <2>5 DEF Probe, Conclude, Goto, Return, PollInv
    <3>2. result = "none" /\ UNCHANGED <<met, ctx, ask>>
      BY <2>5 DEF Probe, PollInv
    <3> QED
      BY <2>5, <3>1, <3>2, ProbeIsHonest
  <2>6. CASE Select
    BY <2>6 DEF Select, Goto, Return, PollInv
  <2>7. CASE Tick
    BY <2>7 DEF Tick
  <2>8. CASE Expire
    BY <2>8 DEF Expire, world
  <2>9. CASE World
    <3>1. met => met'
      BY <2>9 DEF World
    <3>2. met' \in BOOLEAN /\ met \in BOOLEAN /\ UNCHANGED <<ctx, result, ask>>
      BY <2>9 DEF World, IsMet, PollInv, TypeOK
    <3> QED
      BY <3>1, <3>2
  <2> QED
    BY <2>1, <2>2, <2>3, <2>4, <2>5, <2>6, <2>7, <2>8, <2>9 DEF Next, Call
<1> QED
  BY <1>1, <1>2, PollInvariant, WatchedInvariant, PTL DEF Spec, Contract!Safe
=============================================================================
