------------------------------- MODULE AnyWait -------------------------------
(***************************************************************************)
(* ForAnyStrategy.WaitUntilReady (wait/any.go): a goroutine per strategy,  *)
(* a goroutine that waits for all of them, and a select over three         *)
(* channels.  A select with several ready channels takes any of them; one  *)
(* with none parks, and the first event to come wakes it.                  *)
(***************************************************************************)
EXTENDS Naturals

CONSTANT Strategies   \* the strategies a call may be given

VARIABLES
  given,     \* the strategies of this call
  routine,   \* the goroutine of each strategy
  outcome,   \* what the strategy returned to it
  buffer,    \* the tokens in successChan, of capacity 1
  ctx,       \* the derived context: live, cancelled by cancel(), or expired from outside
  done,      \* doneChan is closed
  main,      \* the caller of WaitUntilReady
  result     \* what it returns, from the moment its select has chosen

vars == <<given, routine, outcome, buffer, ctx, done, main, result>>

Failures == {"joined", "no strategies ran", "cancelled", "expired"}

Init ==
  /\ given \in SUBSET Strategies
  /\ routine = [s \in Strategies |-> "unborn"]
  /\ outcome = [s \in Strategies |-> "none"]
  /\ buffer = 0
  /\ ctx = "live"
  /\ done = FALSE
  /\ main = "spawn"
  /\ result = "none"

Succeeded == {s \in given : outcome[s] = "nil"}
Failed == {s \in given : outcome[s] = "err"}

-----------------------------------------------------------------------------
(* The caller.                                                             *)

ReturnEmpty ==
  /\ main = "spawn" /\ given = {}
  /\ main' = "returned" /\ result' = "nil"
  /\ UNCHANGED <<given, routine, outcome, buffer, ctx, done>>

Spawn(s) ==
  /\ main = "spawn" /\ s \in given /\ routine[s] = "unborn"
  /\ routine' = [routine EXCEPT ![s] = "waiting"]
  /\ UNCHANGED <<given, outcome, buffer, ctx, done, main, result>>

\* All goroutines are started, the one that closes doneChan included.
Spawned ==
  /\ main = "spawn" /\ given # {}
  /\ \A s \in given : routine[s] # "unborn"
  /\ main' = "select"
  /\ UNCHANGED <<given, routine, outcome, buffer, ctx, done, result>>

\* errors.Join of what the failed strategies returned
Joined == IF Failed # {} THEN "joined" ELSE "no strategies ran"

Choose(what) == main' = "leaving" /\ result' = what

Select ==
  /\ main = "select"
  /\ \/ buffer > 0 /\ Choose("nil") /\ buffer' = buffer - 1
     \/ done /\ Choose(Joined) /\ UNCHANGED buffer
     \/ ctx # "live" /\ Choose(ctx) /\ UNCHANGED buffer
     \/ /\ buffer = 0 /\ ~done /\ ctx = "live"
        /\ main' = "parked"
        /\ UNCHANGED <<result, buffer>>
  /\ UNCHANGED <<given, routine, outcome, ctx, done>>

\* An event on a channel wakes a parked select, and only it.
Wake(what) ==
  IF main = "parked" THEN Choose(what) ELSE UNCHANGED <<main, result>>

\* cancel(), by a goroutine or deferred by the caller: the first end of a context stands.
CancelledBy(c) == IF c = "live" THEN "cancelled" ELSE c

Leave ==
  /\ main = "leaving"
  /\ main' = "returned"
  /\ ctx' = CancelledBy(ctx)
  /\ UNCHANGED <<given, routine, outcome, buffer, done, result>>

-----------------------------------------------------------------------------
(* The goroutines.                                                         *)

\* Mutant: a token is sent whatever the strategy returned.
ReturnsAndSends(s) ==
  /\ routine[s] = "waiting"
  /\ \E what \in {"nil", "err"} : outcome' = [outcome EXCEPT ![s] = what]
  /\ routine' = [routine EXCEPT ![s] = "send"]
  /\ UNCHANGED <<given, buffer, ctx, done, main, result>>

\* The strategies keep to WaitContract: they may return at any time, with either outcome,
\* and do return once the context has ended.
StrategyReturns(s) ==
  /\ routine[s] = "waiting"
  /\ \/ /\ outcome' = [outcome EXCEPT ![s] = "nil"]
        /\ routine' = [routine EXCEPT ![s] = "send"]
     \/ /\ outcome' = [outcome EXCEPT ![s] = "err"]
        /\ routine' = [routine EXCEPT ![s] = "done"]
  /\ UNCHANGED <<given, buffer, ctx, done, main, result>>

\* Mutant: the capacity of successChan is not respected.
SendOverfull(s) ==
  /\ routine[s] = "send"
  /\ buffer' = buffer + 1
  /\ routine' = [routine EXCEPT ![s] = "cancel"]
  /\ UNCHANGED <<given, outcome, ctx, done, main, result>>

\* Mutant: the send has no default branch.
SendOrBlock(s) ==
  /\ routine[s] = "send"
  /\ \/ /\ main = "parked"
        /\ Choose("nil")
        /\ routine' = [routine EXCEPT ![s] = "cancel"]
        /\ UNCHANGED buffer
     \/ /\ main # "parked" /\ buffer = 0
        /\ buffer' = 1
        /\ routine' = [routine EXCEPT ![s] = "cancel"]
        /\ UNCHANGED <<main, result>>
  /\ UNCHANGED <<given, outcome, ctx, done>>

\* Mutant: successChan has no buffer.
SendUnbuffered(s) ==
  /\ routine[s] = "send"
  /\ Wake("nil")
  /\ routine' = [routine EXCEPT ![s] = IF main = "parked" THEN "cancel" ELSE "done"]
  /\ UNCHANGED <<given, outcome, buffer, ctx, done>>

\* The non-blocking send: to the parked receiver, into the buffer, or not at all.
Send(s) ==
  /\ routine[s] = "send"
  /\ \/ /\ main = "parked"
        /\ Choose("nil")
        /\ routine' = [routine EXCEPT ![s] = "cancel"]
        /\ UNCHANGED buffer
     \/ /\ main # "parked" /\ buffer = 0
        /\ buffer' = 1
        /\ routine' = [routine EXCEPT ![s] = "cancel"]
        /\ UNCHANGED <<main, result>>
     \/ /\ main # "parked" /\ buffer = 1
        /\ routine' = [routine EXCEPT ![s] = "done"]
        /\ UNCHANGED <<buffer, main, result>>
  /\ UNCHANGED <<given, outcome, ctx, done>>

Cancel(s) ==
  /\ routine[s] = "cancel"
  /\ routine' = [routine EXCEPT ![s] = "done"]
  /\ ctx' = CancelledBy(ctx)
  /\ IF ctx = "live" THEN Wake("cancelled") ELSE UNCHANGED <<main, result>>
  /\ UNCHANGED <<given, outcome, buffer, done>>

\* Mutants: doneChan is closed as soon as one goroutine has ended; the wait group also
\* counts strategies that were not given.
OneEnded == \E s \in given : routine[s] = "done"
OthersEndedToo == \A s \in Strategies : routine[s] = "done"

\* wg.Wait() returns
AllEnded == \A s \in given : routine[s] = "done"

CloseDone ==
  /\ main # "spawn" /\ given # {} /\ ~done
  /\ AllEnded
  /\ done' = TRUE
  /\ Wake(Joined)
  /\ UNCHANGED <<given, routine, outcome, buffer, ctx>>

\* The Deadline passes, or the caller's context ends.
Expire ==
  /\ ctx = "live"
  /\ ctx' = "expired"
  /\ Wake("expired")
  /\ UNCHANGED <<given, routine, outcome, buffer, done>>

-----------------------------------------------------------------------------
Caller == ReturnEmpty \/ (\E s \in Strategies : Spawn(s)) \/ Spawned \/ Select \/ Leave

Next ==
  \/ Caller \/ CloseDone \/ Expire
  \/ \E s \in Strategies : StrategyReturns(s) \/ Send(s) \/ Cancel(s)

Spec == Init /\ [][Next]_vars

\* Goroutines that can run do run; a strategy is obliged to return only when the
\* context has ended, and the context need not expire.
Fairness ==
  /\ WF_vars(Caller) /\ WF_vars(CloseDone)
  /\ \A s \in Strategies : /\ WF_vars(Send(s)) /\ WF_vars(Cancel(s))
                           /\ WF_vars(ctx # "live" /\ StrategyReturns(s))

FairSpec == Spec /\ Fairness

-----------------------------------------------------------------------------
(* Properties.                                                             *)

\* Every variable stays in its type.
TypeOK ==
  /\ given \subseteq Strategies
  /\ routine \in [Strategies -> {"unborn", "waiting", "send", "cancel", "done"}]
  /\ outcome \in [Strategies -> {"none", "nil", "err"}]
  /\ buffer \in {0, 1}
  /\ ctx \in {"live", "cancelled", "expired"}
  /\ done \in BOOLEAN
  /\ main \in {"spawn", "select", "parked", "leaving", "returned"}
  /\ result \in {"none", "nil"} \cup Failures

\* A joined error is returned only when every strategy has ended: errs is not read while a
\* goroutine may still write its slot.
JoinedAfterAll == result = "joined" => \A s \in given : routine[s] = "done"

\* Once the select has parked, which of the three channels it takes reflects what
\* happened: it fails only if the context expired or every strategy failed.
ParkedSelectIsExact ==
  [][main = "parked" /\ result' \in Failures =>
       ctx' = "expired" \/ (Failed' = given)]_vars

\* "succeeding when any one succeeds" (any.go:10): a wait that nobody outside has ended
\* does not fail when one of its strategies has succeeded.
AnySuccessSucceeds ==
  [][result = "none" /\ result' \in Failures => ctx = "expired" \/ ctx' = "expired" \/ Succeeded = {}]_vars

\* No goroutine outlives the wait for long: once WaitUntilReady has returned, the ones it
\* started end, however many of them succeed at once.
GoroutinesEnd ==
  (main = "returned") ~> (\A s \in given : routine[s] = "done")

\* The wait returns once all of its strategies have, even when the context never ends.
ReturnsAfterAll == (\A s \in given : routine[s] = "done") ~> (main = "returned")

\* ForAny is a Strategy itself: it keeps the contract its parts keep.
Contract == INSTANCE WaitContract WITH
  met <- given = {} \/ Succeeded # {},
  ctx <- IF ctx = "expired" THEN "done" ELSE "live",
  result <- IF main # "returned" THEN "none" ELSE IF result = "nil" THEN "nil" ELSE "err"

KeepsContract == Contract!Spec

\* What the safety properties rest on.  Until the select has chosen, an empty buffer means
\* that no goroutine has got past its send; a parked select has nothing to choose from.
Choosing == main \in {"spawn", "select", "parked"}

RoutineSafe(s) ==
  /\ routine[s] # "unborn" => s \in given
  /\ routine[s] \in {"unborn", "waiting"} => outcome[s] = "none"
  /\ routine[s] \in {"send", "cancel"} => outcome[s] = "nil"
  /\ routine[s] = "done" => outcome[s] # "none"
  /\ Choosing /\ buffer = 0 =>
       routine[s] # "cancel" /\ (routine[s] = "done" => outcome[s] = "err")

ResultSafe ==
  /\ Choosing <=> result = "none"
  /\ buffer > 0 => Succeeded # {}
  /\ result = "nil" => given = {} \/ Succeeded # {}
  /\ done => main # "spawn" /\ \A s \in given : routine[s] = "done"
  /\ result = "joined" => done
  /\ main = "parked" => buffer = 0 /\ ~done /\ ctx = "live"

AnyInv == TypeOK /\ ResultSafe /\ \A s \in Strategies : RoutineSafe(s)
=============================================================================
