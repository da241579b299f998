------------------------------ MODULE NestedWait ------------------------------
(***************************************************************************)
(* A ForAll whose first strategy is a ForAny, as WithWaitStrategy makes of *)
(* it (options.go, wait/all.go, wait/any.go): ForAny is called under the   *)
(* context of ForAll, its verdict ends the turn or the wait, and the       *)
(* goroutines it leaves go on while the strategies after it have their     *)
(* turns.  ForAny's part of the state is AnyWait's, ForAll's is AllWait's. *)
(***************************************************************************)
EXTENDS AnyWait

CONSTANT MaxLen   \* bound: the strategies of ForAll, ForAny included

ASSUME MaxLenAssumption == MaxLen \in Nat \ {0}

VARIABLES
  len, deadline, outer, ready, next, met, verdict, ever   \* of ForAll: see AllWait

All == INSTANCE AllWait WITH result <- verdict

nested == <<vars, All!vars>>

\* What ForAny waits for: that one of its strategies has been ready, or that it has none.
AnyReady == given = {} \/ Succeeded # {}

NestedInit ==
  /\ Init /\ All!Init
  /\ len > 0 /\ (ready[1] <=> AnyReady)

-----------------------------------------------------------------------------
(* The turn of ForAny.                                                     *)

\* What ForAll observes of a step of ForAny's: that its condition has come to hold.
Observe ==
  /\ ready' = [ready EXCEPT ![1] = AnyReady']
  /\ met' = (met \/ All!ReadyNow(next, ready'))
  /\ ever' = [i \in 1 .. MaxLen |-> ever[i] \/ ready'[i]]
  /\ UNCHANGED <<len, deadline, outer, next, verdict>>

\* ForAny, the goroutines it has left included, and its own Deadline.
InnerStep == Next /\ Observe

\* ForAll is given what ForAny returned.
InnerReturns ==
  /\ main = "returned" /\ next = 1
  /\ IF result = "nil" THEN All!TurnOver ELSE All!StrategyFails
  /\ UNCHANGED vars

-----------------------------------------------------------------------------
(* The rest of ForAll.                                                     *)

LaterReturns ==
  /\ next > 1
  /\ All!StrategyReady \/ All!StrategyFails
  /\ UNCHANGED vars

Returns == All!AllReady /\ UNCHANGED vars

\* The context of ForAny is derived from the one that ForAll gives its strategies.
OuterExpires ==
  /\ All!Expire
  /\ IF ctx = "live" THEN Expire ELSE UNCHANGED vars

\* What the later strategies wait for comes, and may go again.
LaterWorld == All!World /\ ready'[1] = ready[1] /\ UNCHANGED vars

NestedNext == InnerStep \/ InnerReturns \/ LaterReturns \/ Returns \/ OuterExpires \/ LaterWorld

NestedSpec == NestedInit /\ [][NestedNext]_nested

\* ForAny's goroutines run (Fairness, of AnyWait), and so does the loop of ForAll, whose
\* later strategies are obliged to return only when the context they are given has ended.
NestedFairness ==
  /\ Fairness
  /\ WF_nested(InnerReturns) /\ WF_nested(Returns) /\ WF_nested(All!Ended /\ LaterReturns)

NestedFairSpec == NestedSpec /\ NestedFairness

-----------------------------------------------------------------------------
(* Properties, besides those of AnyWait.                                   *)

\* ForAll over a ForAny is a Strategy (all.go:15): it returns nil only after a strategy of
\* ForAny and every later one have been ready, and returns when its own deadline or the
\* caller's context ends it, whichever of its parts has its turn.
OuterKeepsContract == All!KeepsContract

\* The strategies have their turns in order, each until it has been ready (all.go:22-26): the
\* nil of ForAny, of which AllWait knows nothing, is one that its condition bears out.
TurnsHold == All!TurnsInv
=============================================================================
