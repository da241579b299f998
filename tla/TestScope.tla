------------------------------ MODULE TestScope ------------------------------
(***************************************************************************)
(* Tests that use the library (testing.go, applecontainer.go, and the way  *)
(* examples/network_test.go does it): a test may make a network of its     *)
(* own, calls Run, registers cleanups with t.Cleanup, and ends, or fails,  *)
(* at any time.  Its deferred calls run, the last of them cancels the      *)
(* context Run was given, and then its cleanups run, the last one first.   *)
(* Tests share the process: each is named by its Run and drives Lifecycle  *)
(* through two callers, the deferred Terminate and the cleanup.  The       *)
(* testing package is external.                                            *)
(***************************************************************************)
EXTENDS Lifecycle

CONSTANTS
  Styles,      \* how a test may be written
  Parallel,    \* whether tests run in parallel; none of the repository calls t.Parallel
  MaxNetFaults \* bound: network commands of the tests that fail

ASSUME StylesAssumption ==
  /\ Styles \subseteq [own : BOOLEAN, first : BOOLEAN, defers : BOOLEAN,
                      registers : {"never", "late", "early"}]
  /\ Parallel \in BOOLEAN /\ MaxNetFaults \in Nat

Deferred(t) == <<t, "defer">>
Cleanup(t) == <<t, "cleanup">>

\* CleanupContainer terminates with context.Background(), the deferred call with the
\* test's context.
ASSUME CallersAssumption ==
  /\ Callers = Runs \X {"defer", "cleanup"}
  /\ Background = Runs \X {"cleanup"}

VARIABLES
  style,     \* per test: own: it makes a network; first: it registers the network's cleanup
             \* before it calls Run and not with the container's; defers: it defers
             \* c.Terminate(ctx); registers: never, after it has looked at the error of Run
             \* (late) or before (early: CleanupContainer takes a nil container)
  step,      \* per test: where it is
  net,       \* per test: its own network
  stack,     \* per test: what t.Cleanup has been given, the first one first
  broken,    \* per test: a network command of it failed
  netFaults

testing == <<style, step, net, stack, broken, netFaults>>
scopeVars == <<vars, testing>>

Steps == {"network", "run", "body", "terminate", "cancel", "cleanup", "terminating", "done"}

ScopeInit ==
  /\ Init
  /\ on = [k \in Callers |-> k[1]]
  /\ style \in [Runs -> Styles]
  /\ step = [t \in Runs |-> "network"]
  /\ net = [t \in Runs |-> "none"]
  /\ stack = [t \in Runs |-> <<>>]
  /\ broken = [t \in Runs |-> FALSE]
  /\ netFaults = 0

GotoStep(t, next) == step' = [step EXCEPT ![t] = next]

Push(t, more) == stack' = [stack EXCEPT ![t] = @ \o more]

\* A network command of a test, under its context or under context.Background() when bg:
\* it ends well, fails, or its context ends first.
NetCommand(bg, t, new, ok) ==
  \/ /\ bg \/ ctx[t] = "live"
     /\ ok = (new = "exists" \/ net[t] = "exists")
     /\ net' = [net EXCEPT ![t] = IF ok THEN new ELSE @]
     /\ UNCHANGED <<vars, broken, netFaults>>
  \/ /\ netFaults < MaxNetFaults
     /\ ~ok /\ \E s \in {net[t], new} : net' = [net EXCEPT ![t] = s]
     /\ broken' = [broken EXCEPT ![t] = TRUE]
     /\ netFaults' = netFaults + 1
     /\ UNCHANGED vars
  \/ /\ ~bg /\ ~ok
     /\ \/ Expire(t) /\ (\E s \in {net[t], new} : net' = [net EXCEPT ![t] = s])
        \/ ctx[t] = "done" /\ UNCHANGED <<vars, net>>
     /\ broken' = [broken EXCEPT ![t] = TRUE]
     /\ UNCHANGED netFaults

-----------------------------------------------------------------------------
(* The test function.                                                      *)

MayBegin(t) == Parallel \/ \A u \in Runs \ {t} : step[u] \in {"network", "done"}

\* NewNetwork, and CleanupNetwork if it is registered here; a failure ends the test.
MakeNetwork(t) ==
  /\ step[t] = "network" /\ MayBegin(t)
  /\ \/ /\ ~style[t].own
        /\ GotoStep(t, "run")
        /\ UNCHANGED <<vars, net, stack, broken, netFaults>>
     \/ /\ style[t].own
        /\ \E ok \in BOOLEAN :
             /\ NetCommand(FALSE, t, "exists", ok)
             /\ GotoStep(t, IF ok THEN "run" ELSE "cancel")
             /\ Push(t, IF ok /\ style[t].first THEN <<"network">> ELSE <<>>)
  /\ UNCHANGED style

InRun(t) ==
  /\ step[t] = "run" /\ RunStep(t)
  /\ UNCHANGED testing

\* Mutant: it does nothing either with a container that is not running.
RunningOnly(t) == IF HasHandle(t) /\ isRunning[t] THEN <<"container">> ELSE <<>>

\* CleanupContainer does nothing with a nil container.
CleanupContainer(t) == IF HasHandle(t) THEN <<"container">> ELSE <<>>

Registers(t) ==
  \/ style[t].registers = "early"
  \/ style[t].registers = "late" /\ ret[t] = "ok"

\* Run has returned.  An error ends the test, and with it what it held of the handle.
RunReturned(t) ==
  /\ step[t] = "run" /\ pc[t] = "returned"
  /\ GotoStep(t, IF ret[t] = "ok" THEN "body" ELSE "cancel")
  /\ IF Registers(t)
     THEN Push(t, CleanupContainer(t)
                    \o IF style[t].own /\ ~style[t].first THEN <<"network">> ELSE <<>>)
     ELSE UNCHANGED stack
  /\ UNCHANGED <<vars, style, net, broken, netFaults>>

\* The body ends at any time: it returns, or one of its checks fails.
EndBody(t) ==
  /\ step[t] = "body"
  /\ IF style[t].defers
     THEN BeginTerminate(Deferred(t), t) /\ GotoStep(t, "terminate")
     ELSE UNCHANGED vars /\ GotoStep(t, "cancel")
  /\ UNCHANGED <<style, net, stack, broken, netFaults>>

InTerminate(t) ==
  /\ \/ step[t] = "terminate" /\ CallStep(Deferred(t))
     \/ step[t] = "terminating" /\ CallStep(Cleanup(t))
  /\ UNCHANGED testing

\* The deferred Terminate has returned; its error is ignored.
DeferReturned(t) ==
  /\ step[t] = "terminate" /\ at[Deferred(t)] = "idle"
  /\ GotoStep(t, "cancel")
  /\ UNCHANGED <<vars, style, net, stack, broken, netFaults>>

\* defer cancel()
Cancel(t) ==
  /\ step[t] = "cancel"
  /\ Expire(t) \/ (ctx[t] = "done" /\ UNCHANGED vars)
  /\ GotoStep(t, "cleanup")
  /\ UNCHANGED <<style, net, stack, broken, netFaults>>

-----------------------------------------------------------------------------
(* The cleanups of t.Cleanup.                                              *)

Stack == INSTANCE SequencesExt

\* Mutant: the next one only if the one before it did well.
StopAtFirstFailure(t) == said[Cleanup(t)] # "err"

LastOf(s) == Stack!Last(s)

\* What was registered last is next.
Pop(t, cleanup) ==
  /\ step[t] = "cleanup" /\ stack[t] # <<>>
  /\ LastOf(stack[t]) = cleanup
  /\ stack' = [stack EXCEPT ![t] = Stack!Front(@)]

CleanUpContainer(t) ==
  /\ Pop(t, "container")
  /\ BeginTerminate(Cleanup(t), t)
  /\ GotoStep(t, "terminating")
  /\ UNCHANGED <<style, net, broken, netFaults>>

\* An error is logged and the next cleanup runs.
GoesOn(t) == TRUE

CleanupReturned(t) ==
  /\ step[t] = "terminating" /\ at[Cleanup(t)] = "idle" /\ GoesOn(t)
  /\ GotoStep(t, "cleanup")
  /\ UNCHANGED <<vars, style, net, stack, broken, netFaults>>

\* The daemon may refuse to delete a network a container is attached to.
InUse(t) == Present(container[t])

CleanUpNetwork(t) ==
  /\ Pop(t, "network")
  /\ \/ \E ok \in BOOLEAN : NetCommand(TRUE, t, "gone", ok)
     \/ InUse(t) /\ UNCHANGED <<vars, net, broken, netFaults>>
  /\ UNCHANGED <<style, step>>

Done(t) ==
  /\ step[t] = "cleanup" /\ stack[t] = <<>>
  /\ GotoStep(t, "done")
  /\ UNCHANGED <<vars, style, net, stack, broken, netFaults>>

TestStep(t) ==
  \/ MakeNetwork(t) \/ InRun(t) \/ RunReturned(t) \/ EndBody(t) \/ InTerminate(t)
  \/ DeferReturned(t) \/ Cancel(t) \/ CleanUpContainer(t) \/ CleanupReturned(t)
  \/ CleanUpNetwork(t) \/ Done(t)

World(t) == (Environment(t) \/ FollowerEnds(t)) /\ UNCHANGED testing

ScopeNext == \E t \in Runs : TestStep(t) \/ World(t)

ScopeSpec == ScopeInit /\ [][ScopeNext]_scopeVars

\* A test goes on as long as it can: its body ends, and the commands it runs end.
ScopeFairSpec == ScopeSpec /\ \A t \in Runs : WF_scopeVars(TestStep(t))
-----------------------------------------------------------------------------
(* Properties.                                                             *)

\* Over a test that kept the handle Run returned, also one that came with an error, and
\* that registered its network before the container in it, nothing is left if its network
\* commands and those of its last Terminate did not fail: everything that came with the
\* handle is gone, and so is the network, unless Run lost a container it had created
\* (testing.go:14-28, applecontainer.go:172-183).
KeptHandle(t) == HasHandle(t) => Registers(t)
LostContainer(t) == ret[t] = "nil" /\ container[t] = "created"

ScopeLeavesNothing ==
  \A t \in Runs :
    step[t] = "done" /\ KeptHandle(t) /\ ~broken[t] /\ clean[Cleanup(t)] =>
      /\ HasHandle(t) => Released(t)
      /\ style[t].first => net[t] # "exists" \/ LostContainer(t)

\* A test whose Run succeeded and that registered the container ends with everything that
\* came with it gone unless a command of the daemon failed, also when its context had
\* expired long before and its deferred Terminate failed for that.
TestReleases ==
  \A t \in Runs :
    (step[t] = "body" /\ Registers(t)) ~> (step[t] = "done" /\ (Released(t) \/ faults > 0))

\* What ScopeLeavesNothing rests on: Run moves in its step only; a cleanup that is running
\* is that of the test's own handle; a handle that was kept waits on the stack, is being
\* terminated or has been; the network waits below it.
Waiting(t, what) == \E i \in DOMAIN stack[t] : stack[t][i] = what

Terminated(t) == at[Cleanup(t)] = "idle" /\ said[Cleanup(t)] # "none"

InPlace(t) ==
  /\ on[Cleanup(t)] = t /\ on[Deferred(t)] = t
  /\ step[t] = "network" => pc[t] = "customize" /\ stack[t] = <<>>
  /\ step[t] = "run" => stack[t] = IF style[t].own /\ style[t].first THEN <<"network">> ELSE <<>>
  /\ step[t] # "run" => pc[t] \in {"customize", "returned"}
  /\ step[t] = "done" => stack[t] = <<>>
  /\ at[Cleanup(t)] \in {"idle", "termStop", "termDelete", "termClean"}
  /\ IF step[t] = "terminating" THEN at[Cleanup(t)] # "idle" \/ Terminated(t)
                               ELSE at[Cleanup(t)] = "idle"

HandleInReach(t) ==
  HasHandle(t) /\ Registers(t) /\ step[t] # "run" =>
    Waiting(t, "container") \/ step[t] = "terminating" \/ Terminated(t)

NetworkBelow(t) ==
  style[t].first => \A i \in DOMAIN stack[t] : i > 1 => stack[t][i] # "network"

NetworkInReach(t) ==
  net[t] = "exists" /\ style[t].first /\ ~broken[t] =>
    \/ Waiting(t, "network")
    \/ /\ step[t] \in {"cleanup", "done"} /\ stack[t] = <<>>
       /\ KeptHandle(t) /\ clean[Cleanup(t)] => LostContainer(t)

TestInv(t) == InPlace(t) /\ HandleInReach(t) /\ NetworkBelow(t) /\ NetworkInReach(t)

ScopeTypeOK ==
  /\ style \in [Runs -> Styles]
  /\ step \in [Runs -> Steps]
  /\ net \in [Runs -> {"none", "exists", "gone"}]
  /\ stack \in [Runs -> Seq({"container", "network"})]
  /\ broken \in [Runs -> BOOLEAN]
  /\ netFaults \in Nat

ScopeInv == ScopeTypeOK /\ \A t \in Runs : TestInv(t)
=============================================================================
