------------------------------- MODULE AllWait -------------------------------
(***************************************************************************)
(* ForAllStrategy.WaitUntilReady (wait/all.go): its strategies one after   *)
(* the other, under a context with a deadline of its own.  Each of them    *)
(* keeps to WaitContract.                                                  *)
(***************************************************************************)
EXTENDS Naturals

CONSTANT MaxLen   \* bound: the strategies of a call

VARIABLES
  len,        \* how many strategies this call has
  deadline,   \* none, pending or passed
  outer,      \* the context of the caller
  ready,      \* what each strategy waits for is the case now
  next,       \* the strategy whose turn it is
  met,        \* what it waits for has been the case since its turn began
  result,
  \* observation: what each strategy waits for has been the case since the call began
  ever

vars == <<len, deadline, outer, ready, next, met, result, ever>>

Given == 1 .. len

\* What strategy i waits for, once its turn has come.
ReadyNow(i, now) == i \in Given /\ now[i]

Init ==
  /\ len \in 0 .. MaxLen
  /\ deadline \in {"none", "pending"}
  /\ outer = "live"
  /\ ready \in [1 .. MaxLen -> BOOLEAN]
  /\ next = 1
  /\ met = ReadyNow(1, ready)
  /\ result = "none"
  /\ ever = ready

\* Mutant: the strategies are given the caller's context.
OuterEnded == outer = "done"

\* The context the strategies are given has ended: WithTimeout derives it from the caller's.
Ended == outer = "done" \/ deadline = "passed"

\* Mutant: the first strategy that is ready ends the wait.
FirstDecides ==
  /\ result = "none" /\ met
  /\ result' = "nil"
  /\ UNCHANGED <<len, deadline, outer, ready, next, met, ever>>

\* WaitUntilReady of the strategy returns nil, and the turn is the next one's.
TurnOver ==
  /\ result = "none"
  /\ next' = next + 1
  /\ met' = ReadyNow(next', ready)
  /\ UNCHANGED <<len, deadline, outer, ready, result, ever>>

\* A strategy that keeps to WaitContract returns nil only if its condition has held.
StrategyReady == met /\ TurnOver

\* It returns an error, for whatever reason, and the rest are not tried.
StrategyFails ==
  /\ result = "none" /\ next \in Given
  /\ result' = "err"
  /\ UNCHANGED <<len, deadline, outer, ready, next, met, ever>>

AllReady ==
  /\ result = "none" /\ next \notin Given
  /\ result' = "nil"
  /\ UNCHANGED <<len, deadline, outer, ready, next, met, ever>>

Expire ==
  /\ \/ outer = "live" /\ outer' = "done" /\ UNCHANGED deadline
     \/ deadline = "pending" /\ deadline' = "passed" /\ UNCHANGED outer
  /\ UNCHANGED <<len, ready, next, met, result, ever>>

\* What is waited for comes, and may go again.
World ==
  /\ \E i \in Given : ready' = [ready EXCEPT ![i] = ~@]
  /\ met' = (met \/ ReadyNow(next, ready'))
  /\ ever' = [i \in 1 .. MaxLen |-> ever[i] \/ ready'[i]]
  /\ UNCHANGED <<len, deadline, outer, next, result>>

Next == StrategyReady \/ StrategyFails \/ AllReady \/ Expire \/ World

Spec == Init /\ [][Next]_vars

\* A strategy returns once its context has ended; until then it may wait for ever.
Fairness ==
  /\ WF_vars(AllReady)
  /\ WF_vars(Ended /\ (StrategyReady \/ StrategyFails))

FairSpec == Spec /\ Fairness

-----------------------------------------------------------------------------
(* Properties.                                                             *)

\* Every variable stays in its type.
TypeOK ==
  /\ len \in 0 .. MaxLen
  /\ deadline \in {"none", "pending", "passed"}
  /\ outer \in {"live", "done"}
  /\ ready \in [1 .. MaxLen -> BOOLEAN]
  /\ next \in 1 .. len + 1
  /\ met \in BOOLEAN
  /\ result \in {"none", "nil", "err"}
  /\ ever \in [1 .. MaxLen -> BOOLEAN]

\* ForAll is a Strategy itself (all.go:15): it keeps the contract of its parts, with the
\* end of its own deadline as the end of its context.
Contract == INSTANCE WaitContract WITH
  met <- \A i \in Given : ever[i],
  ctx <- IF outer = "done" \/ deadline = "passed" THEN "done" ELSE "live"

KeepsContract == Contract!Spec

\* What makes the refinement inductive: every strategy whose turn is over has been ready,
\* and a nil is returned only after the last turn.
TurnsInv ==
  /\ TypeOK
  /\ met => next \in Given /\ ever[next]
  /\ \A i \in Given : ready[i] \/ i < next => ever[i]
  /\ result = "nil" => next = len + 1
=============================================================================
