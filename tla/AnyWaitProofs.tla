---------------------------- MODULE AnyWaitProofs ----------------------------
(***************************************************************************)
(* ForAny for any number of strategies: its invariant, what follows from   *)
(* it, and that every step of AnyWait is a step of WaitContract, or none.  *)
(***************************************************************************)
EXTENDS AnyWait, TLAPS

\* Every step keeps every variable in its type.
LEMMA TypeStep == TypeOK /\ [Next]_vars => TypeOK'
<1> SUFFICES ASSUME TypeOK, [Next]_vars PROVE TypeOK'
  OBVIOUS
<1> USE DEF TypeOK, Failures
<1>0. Joined \in Failures
  BY DEF Joined
<1>1. CASE ReturnEmpty
  BY <1>1 DEF ReturnEmpty
<1>2. ASSUME NEW s \in Strategies, Spawn(s) PROVE TypeOK'
  BY <1>2 DEF Spawn
<1>3. CASE Spawned
  BY <1>3 DEF Spawned
<1>4. CASE Select
  <2>0. (buffer > 0 /\ buffer' = buffer - 1) \/ UNCHANGED buffer
    BY <1>4, Zenon DEF Select
  <2>b. buffer \in {0, 1}
    OBVIOUS
  <2>1. buffer' \in {0, 1}
    <3>1. CASE buffer = 1 /\ buffer' = buffer - 1
      BY ONLY <3>1
    <3>. QED BY ONLY <2>0, <2>b, <3>1
  <2>2. main' \in {"parked", "leaving"} /\ result' \in {"none", "nil"} \cup Failures
    BY <1>0, <1>4 DEF Select, Choose
  <2>3. UNCHANGED <<given, routine, outcome, ctx, done>>
    BY <1>4 DEF Select
  <2>. QED BY <2>1, <2>2, <2>3
<1>5. CASE Leave
  BY <1>5 DEF Leave, CancelledBy
<1>6. ASSUME NEW s \in Strategies, StrategyReturns(s) PROVE TypeOK'
  BY <1>6 DEF StrategyReturns
<1>7. ASSUME NEW s \in Strategies, Send(s) PROVE TypeOK'
  <2>1. buffer' \in {0, 1}
    BY <1>7 DEF Send
  <2>2. routine' \in [Strategies -> {"unborn", "waiting", "send", "cancel", "done"}]
    BY <1>7 DEF Send
  <2>3. main' \in {main, "leaving"} /\ result' \in {result, "nil"}
    BY <1>7 DEF Send, Choose
  <2>4. UNCHANGED <<given, outcome, ctx, done>>
    BY <1>7 DEF Send
  <2>. QED BY <2>1, <2>2, <2>3, <2>4
<1>8. ASSUME NEW s \in Strategies, Cancel(s) PROVE TypeOK'
  BY <1>8 DEF Cancel, CancelledBy, Wake, Choose
<1>9. CASE CloseDone
  BY <1>0, <1>9 DEF CloseDone, Wake, Choose
<1>10. CASE Expire
  BY <1>10 DEF Expire, Wake, Choose
<1>11. CASE UNCHANGED vars
  BY <1>11 DEF vars
<1>. QED
  BY <1>1, <1>2, <1>3, <1>4, <1>5, <1>6, <1>7, <1>8, <1>9, <1>10, <1>11 DEF Next, Caller

\* What a goroutine keeps.
LEMMA RoutineStep ==
  ASSUME AnyInv, [Next]_vars, NEW s \in Strategies
  PROVE  RoutineSafe(s)'
<1> USE DEF AnyInv, ResultSafe, TypeOK, RoutineSafe, Choosing, Failures
<1>1. CASE ReturnEmpty
  BY <1>1 DEF ReturnEmpty
<1>2. ASSUME NEW t \in Strategies, Spawn(t) PROVE RoutineSafe(s)'
  BY <1>2 DEF Spawn
<1>3. CASE Spawned
  BY <1>3 DEF Spawned
<1>4. CASE Select
  BY <1>4 DEF Select, Choose
<1>5. CASE Leave
  BY <1>5 DEF Leave
<1>6. ASSUME NEW t \in Strategies, StrategyReturns(t) PROVE RoutineSafe(s)'
  BY <1>6 DEF StrategyReturns
<1>7. ASSUME NEW t \in Strategies, Send(t) PROVE RoutineSafe(s)'
  <2>1. outcome[t] = "nil" /\ t \in given /\ UNCHANGED <<given, outcome>>
    BY <1>7 DEF Send
  <2>2. CASE s # t
    <3>1. routine'[s] = routine[s]
      BY <1>7, <2>2 DEF Send
    <3>2. Choosing' /\ buffer' = 0 => Choosing /\ buffer = 0
      BY <1>7 DEF Send, Choose
    <3>. QED BY <2>1, <3>1, <3>2
  <2>3. CASE s = t
    <3>1. routine'[s] \in {"cancel", "done"}
      BY <1>7, <2>3 DEF Send
    <3>2. main' = "leaving" \/ buffer' = 1
      BY <1>7 DEF Send, Choose
    <3>3. ~(Choosing' /\ buffer' = 0)
      BY ONLY <3>2 DEF Choosing
    <3>4. (outcome[s])' = "nil" /\ (routine[s])' \in {"cancel", "done"} /\ s \in given'
      BY <2>1, <2>3, <3>1
    <3>. QED BY <3>3, <3>4
  <2>. QED BY <2>2, <2>3
<1>8. ASSUME NEW t \in Strategies, Cancel(t) PROVE RoutineSafe(s)'
  BY <1>8 DEF Cancel, Wake, Choose
<1>9. CASE CloseDone
  BY <1>9 DEF CloseDone, Wake, Choose
<1>10. CASE Expire
  BY <1>10 DEF Expire, Wake, Choose
<1>11. CASE UNCHANGED vars
  BY <1>11 DEF vars
<1>. QED
  BY <1>1, <1>2, <1>3, <1>4, <1>5, <1>6, <1>7, <1>8, <1>9, <1>10, <1>11 DEF Next, Caller

\* A strategy that has succeeded stays so.
LEMMA SuccessStays == AnyInv /\ [Next]_vars => given' = given /\ Succeeded \subseteq Succeeded'
<1> SUFFICES ASSUME AnyInv, [Next]_vars PROVE given' = given /\ Succeeded \subseteq Succeeded'
  OBVIOUS
<1>1. ASSUME NEW s \in Strategies, StrategyReturns(s) PROVE given' = given /\ Succeeded \subseteq Succeeded'
  BY <1>1 DEF StrategyReturns, Succeeded, AnyInv, TypeOK, RoutineSafe
<1>2. CASE UNCHANGED <<given, outcome>>
  BY <1>2 DEF Succeeded
<1>. QED
  BY <1>1, <1>2 DEF Next, Caller, ReturnEmpty, Spawn, Spawned, Select, Leave, Send, Cancel,
     CloseDone, Expire, vars

\* What the caller keeps.
LEMMA ResultStep == AnyInv /\ [Next]_vars => ResultSafe'
<1> SUFFICES ASSUME AnyInv, [Next]_vars PROVE ResultSafe'
  OBVIOUS
<1> USE DEF AnyInv, ResultSafe, TypeOK, Choosing, Failures
<1>0. given' = given /\ Succeeded \subseteq Succeeded'
  BY SuccessStays
<1>a. Joined \in {"joined", "no strategies ran"}
  BY DEF Joined
<1>1. CASE ReturnEmpty
  BY <1>0, <1>1 DEF ReturnEmpty
<1>2. ASSUME NEW s \in Strategies, Spawn(s) PROVE ResultSafe'
  BY <1>0, <1>2 DEF Spawn
<1>3. CASE Spawned
  BY <1>0, <1>3 DEF Spawned
<1>4. CASE Select
  BY <1>0, <1>a, <1>4 DEF Select, Choose
<1>5. CASE Leave
  BY <1>0, <1>5 DEF Leave
<1>6. ASSUME NEW s \in Strategies, StrategyReturns(s) PROVE ResultSafe'
  BY <1>0, <1>6 DEF StrategyReturns
<1>7. ASSUME NEW s \in Strategies, Send(s) PROVE ResultSafe'
  <2>1. s \in Succeeded'
    BY <1>7, <1>0 DEF Send, RoutineSafe, Succeeded
  <2>a. s \in given /\ routine[s] # "done"
    BY <1>7 DEF Send, RoutineSafe
  <2>2. ~done'
    BY <1>7, <2>a DEF Send
  <2>3. (main = "parked" /\ main' = "leaving" /\ result' = "nil" /\ UNCHANGED buffer)
          \/ (main # "parked" /\ UNCHANGED <<main, result>>)
    BY <1>7 DEF Send, Choose
  <2>4. buffer' > 0 => Succeeded' # {}
    BY <2>1
  <2>5. Choosing' <=> result' = "none"
    BY <2>3
  <2>6. result' = "nil" => Succeeded' # {}
    BY <2>1
  <2>7. (result' = "joined" => FALSE) /\ (main' = "parked" => FALSE)
    BY <2>2, <2>3, <2>a
  <2>. QED BY <2>2, <2>4, <2>5, <2>6, <2>7
<1>8. ASSUME NEW s \in Strategies, Cancel(s) PROVE ResultSafe'
  BY <1>0, <1>8 DEF Cancel, Wake, Choose
<1>9. CASE CloseDone
  BY <1>0, <1>a, <1>9 DEF CloseDone, Wake, Choose, AllEnded
<1>10. CASE Expire
  BY <1>0, <1>10 DEF Expire, Wake, Choose
<1>11. CASE UNCHANGED vars
  BY <1>0, <1>11 DEF vars
<1>. QED
  BY <1>1, <1>2, <1>3, <1>4, <1>5, <1>6, <1>7, <1>8, <1>9, <1>10, <1>11 DEF Next, Caller

LEMMA AnyStart == Init => AnyInv
<1> SUFFICES ASSUME Init PROVE AnyInv
  OBVIOUS
<1> USE DEF Init, Choosing
<1>1. TypeOK
  BY DEF TypeOK
<1>2. ResultSafe
  BY DEF ResultSafe
<1>3. \A s \in Strategies : RoutineSafe(s)
  BY DEF RoutineSafe
<1>. QED BY <1>1, <1>2, <1>3 DEF AnyInv

LEMMA AnyStep == AnyInv /\ [Next]_vars => AnyInv'
<1> SUFFICES ASSUME AnyInv, [Next]_vars PROVE AnyInv'
  OBVIOUS
<1>1. \A s \in Strategies : RoutineSafe(s)'
  BY RoutineStep
<1>. QED BY <1>1, TypeStep, ResultStep DEF AnyInv

\* The inductive invariant, whatever the strategies and the order in which they end.
THEOREM AnyInvariant == Spec => []AnyInv
<1>. QED BY AnyStart, AnyStep, PTL DEF Spec

\* errors.Join reads the slots of the goroutines only after all of them have ended.
THEOREM JoinedSafe == Spec => []JoinedAfterAll
<1>1. AnyInv => JoinedAfterAll
  BY DEF AnyInv, ResultSafe, JoinedAfterAll
<1>. QED BY <1>1, AnyInvariant, PTL

\* The action of ParkedSelectIsExact.
ParkedExactly ==
  main = "parked" /\ result' \in Failures => ctx' = "expired" \/ (Failed' = given)

\* A select that has parked fails only because the context expired or all strategies failed.
THEOREM ParkedSafe == Spec => ParkedSelectIsExact
<1>1. AnyInv /\ [Next]_vars => ParkedExactly
  <2> SUFFICES ASSUME AnyInv, [Next]_vars, main = "parked", result' \in Failures
               PROVE  ctx' = "expired" \/ Failed' = given
    BY DEF ParkedExactly
  <2>1. buffer = 0 /\ ctx = "live" /\ result = "none" /\ Choosing
    BY DEF AnyInv, ResultSafe, Choosing
  <2>2. result' # result
    BY <2>1 DEF Failures
  <2>3. ASSUME NEW s \in Strategies, Send(s) PROVE FALSE
    BY <2>3 DEF Send, Choose, Failures
  <2>4. ASSUME NEW s \in Strategies, Cancel(s) PROVE FALSE
    BY <2>1, <2>4 DEF Cancel, AnyInv, RoutineSafe
  <2>5. ASSUME CloseDone PROVE Failed' = given
    <3>1. \A s \in given : outcome[s] = "err"
      BY <2>1, <2>5 DEF CloseDone, AllEnded, AnyInv, TypeOK, RoutineSafe
    <3>. QED BY <2>5, <3>1 DEF CloseDone, Failed
  <2>6. ASSUME Expire PROVE ctx' = "expired"
    BY <2>6 DEF Expire
  <2>. QED
    BY <2>2, <2>3, <2>4, <2>5, <2>6 DEF Next, Caller, ReturnEmpty, Spawn, Spawned, Select,
       Leave, StrategyReturns, vars
<1>2. [][AnyInv /\ [Next]_vars => ParkedExactly]_vars
  BY <1>1, PTL
<1>. QED BY <1>2, AnyInvariant, PTL DEF Spec, ParkedSelectIsExact, ParkedExactly

\* ForAny keeps the safety part of WaitContract: nil only once a part is met, one verdict
\* for good, and every failure a permitted one.
THEOREM ForAnyIsAStrategy == Spec => Contract!Safe
<1> DEFINE Met == given = {} \/ Succeeded # {}
           Ctx == IF ctx = "expired" THEN "done" ELSE "live"
           Res == IF main # "returned" THEN "none" ELSE IF result = "nil" THEN "nil" ELSE "err"
<1>1. Init => Contract!Init
  BY DEF Init, Contract!Init
<1>2. AnyInv /\ [Next]_vars => [Contract!Next]_Contract!vars
  <2> SUFFICES ASSUME AnyInv, [Next]_vars PROVE [Contract!Next]_Contract!vars
    OBVIOUS
  <2> USE DEF Contract!Next, Contract!vars
  <2>0. ASSUME UNCHANGED <<given, outcome>> PROVE Met' = Met
    BY <2>0 DEF Succeeded
  <2>1. CASE ReturnEmpty
    <3>1. Met' = Met
      BY <2>0, <2>1 DEF ReturnEmpty
    <3>2. Ctx' = Ctx /\ Res = "none" /\ Res' = "nil"
      BY <2>1 DEF ReturnEmpty
    <3>3. Met
      BY <2>1 DEF ReturnEmpty
    <3>. QED BY <3>1, <3>2, <3>3 DEF Contract!Ready
  <2>2. CASE Leave
    <3>1. Met' = Met
      BY <2>0, <2>2 DEF Leave
    <3>2. Ctx' = Ctx /\ Res = "none" /\ Res' \in {"nil", "err"}
      BY <2>2 DEF Leave, CancelledBy
    <3>3. Res' = "nil" => Met
      BY <2>2 DEF Leave, AnyInv, ResultSafe
    <3>. QED BY <3>1, <3>2, <3>3 DEF Contract!Ready, Contract!Fail
  <2>3. ASSUME NEW s \in Strategies, StrategyReturns(s) PROVE [Contract!Next]_Contract!vars
    <3>1. Ctx' = Ctx /\ Res' = Res
      BY <2>3 DEF StrategyReturns
    <3>2. Met => Met'
      BY SuccessStays
    <3>. QED BY <3>1, <3>2 DEF Contract!Meet
  <2>4. CASE Expire
    <3>1. Met' = Met
      BY <2>0, <2>4 DEF Expire
    <3>2. Res' = Res /\ Ctx = "live" /\ Ctx' = "done"
      BY <2>4 DEF Expire, Wake, Choose
    <3>. QED BY <3>1, <3>2 DEF Contract!Expire
  <2>5. CASE Spawned \/ Select \/ CloseDone \/ UNCHANGED vars
    <3>1. Met' = Met
      BY <2>0, <2>5 DEF Spawned, Select, CloseDone, vars
    <3>2. Ctx' = Ctx /\ Res' = Res
      BY <2>5 DEF Spawned, Select, CloseDone, Wake, Choose, vars
    <3>. QED BY <3>1, <3>2
  <2>6. ASSUME NEW s \in Strategies, Spawn(s) \/ Send(s) \/ Cancel(s)
        PROVE  [Contract!Next]_Contract!vars
    <3>1. Met' = Met
      BY <2>0, <2>6 DEF Spawn, Send, Cancel
    <3>2. Ctx' = Ctx /\ Res' = Res
      BY <2>6 DEF Spawn, Send, Cancel, CancelledBy, Wake, Choose
    <3>. QED BY <3>1, <3>2
  <2>. QED BY <2>1, <2>2, <2>3, <2>4, <2>5, <2>6 DEF Next, Caller
<1>. QED BY <1>1, <1>2, AnyInvariant, PTL DEF Spec, Contract!Safe
=============================================================================
