---------------------------- MODULE WaitContract ----------------------------
(***************************************************************************)
(* What a Strategy promises to Run (wait/wait.go): WaitUntilReady returns  *)
(* nil only after what it waits for has been the case, returns once, and   *)
(* returns when its context ends.                                          *)
(***************************************************************************)

VARIABLES
  met,     \* what is waited for has been the case
  ctx,     \* the context of the call
  result   \* what WaitUntilReady returned

vars == <<met, ctx, result>>

Init == met \in BOOLEAN /\ ctx = "live" /\ result = "none"

Meet == ~met /\ met' = TRUE /\ UNCHANGED <<ctx, result>>

Expire == ctx = "live" /\ ctx' = "done" /\ UNCHANGED <<met, result>>

Ready == result = "none" /\ met /\ result' = "nil" /\ UNCHANGED <<met, ctx>>

\* A strategy may fail for reasons of its own at any time.
Fail == result = "none" /\ result' = "err" /\ UNCHANGED <<met, ctx>>

Next == Meet \/ Expire \/ Ready \/ Fail

Return == ctx = "done" /\ (Ready \/ Fail)

\* What it never does, and with it what it does in the end.
Safe == Init /\ [][Next]_vars

Spec == Safe /\ WF_vars(Return)
=============================================================================
