--------------------------- MODULE NestedWaitProofs ---------------------------
(***************************************************************************)
(* ForAll for any number of strategies, and the composition: what ForAny   *)
(* does inside ForAll is what AnyWait says, and what ForAll does is what   *)
(* AllWait says, with ForAny's verdict as that of its first strategy.      *)
(***************************************************************************)
EXTENDS NestedWait, AnyWaitProofs

-----------------------------------------------------------------------------
(* ForAll, whatever its strategies are.                                    *)

\* What the strategies wait for is the case or not.
LEMMA ReadyNowBoolean ==
  ASSUME NEW now \in [1 .. MaxLen -> BOOLEAN], NEW i, len \in 0 .. MaxLen
  PROVE  All!ReadyNow(i, now) \in BOOLEAN
BY Zenon DEF All!ReadyNow

\* Every step of ForAll keeps what is known of the turns.
LEMMA TurnsStep == All!TurnsInv /\ [All!Next]_(All!vars) => All!TurnsInv'
<1> USE MaxLenAssumption
<1> SUFFICES ASSUME All!TurnsInv, [All!Next]_(All!vars) PROVE All!TurnsInv'
  OBVIOUS
<1> USE DEF All!TurnsInv, All!TypeOK, All!Given
<1>1. CASE All!StrategyReady
  <2>1. /\ next \in All!Given /\ ever[next] /\ next' = next + 1 /\ verdict = "none"
        /\ UNCHANGED <<len, deadline, outer, ready, verdict, ever>>
    BY <1>1 DEF All!StrategyReady, All!TurnOver
  <2>2. met' \in BOOLEAN
    BY <1>1, ReadyNowBoolean DEF All!StrategyReady, All!TurnOver
  <2>3. met' => next' \in All!Given /\ ready[next']
    BY <1>1, <2>1 DEF All!StrategyReady, All!TurnOver, All!ReadyNow
  <2>. QED BY <2>1, <2>2, <2>3
<1>2. CASE All!StrategyFails
  BY <1>2 DEF All!StrategyFails
<1>3. CASE All!AllReady
  BY <1>3 DEF All!AllReady
<1>4. CASE All!Expire
  BY <1>4 DEF All!Expire
<1>5. CASE All!World
  BY <1>5 DEF All!World, All!ReadyNow
<1>6. CASE UNCHANGED All!vars
  BY <1>6 DEF All!vars
<1>. QED BY <1>1, <1>2, <1>3, <1>4, <1>5, <1>6 DEF All!Next

LEMMA TurnsInit == All!Init => All!TurnsInv
<1> USE MaxLenAssumption
<1> SUFFICES ASSUME All!Init PROVE All!TurnsInv
  OBVIOUS
<1>1. met \in BOOLEAN
  BY ReadyNowBoolean DEF All!Init
<1>2. met => next \in All!Given /\ ever[next]
  BY DEF All!Init, All!ReadyNow
<1>. QED BY <1>1, <1>2 DEF All!Init, All!TurnsInv, All!TypeOK, All!Given

\* In ForAll every strategy whose turn is over has been ready, and nil comes after the last.
THEOREM TurnsInvariant == All!Spec => []All!TurnsInv
<1>. QED BY TurnsInit, TurnsStep, PTL DEF All!Spec

\* Whatever keeps to the contract as its strategies, ForAll does only what a Strategy may do
\* (the liveness of the contract is model-checked).
THEOREM ForAllIsAStrategy == All!Spec => All!Contract!Safe
<1> USE MaxLenAssumption
<1>1. All!Init => All!Contract!Init
  BY DEF All!Init, All!Contract!Init
<1>2. All!TurnsInv /\ [All!Next]_(All!vars) => [All!Contract!Next]_(All!Contract!vars)
  <2> SUFFICES ASSUME All!TurnsInv, [All!Next]_(All!vars) PROVE [All!Contract!Next]_(All!Contract!vars)
    OBVIOUS
  <2> USE DEF All!TurnsInv, All!TypeOK, All!Given, All!Contract!Next, All!Contract!vars
  <2>1. CASE All!StrategyReady
    BY <2>1 DEF All!StrategyReady, All!TurnOver
  <2>2. CASE All!StrategyFails
    BY <2>2 DEF All!StrategyFails, All!Contract!Fail
  <2>3. CASE All!AllReady
    BY <2>3 DEF All!AllReady, All!Contract!Ready
  <2>4. CASE All!Expire
    BY <2>4 DEF All!Expire, All!Contract!Expire
  <2>5. CASE All!World
    <3> DEFINE AllEver == \A i \in All!Given : ever[i]
    <3>1. UNCHANGED <<len, deadline, outer, next, verdict>> /\ (AllEver => AllEver')
      BY <2>5 DEF All!World
    <3>2. CASE AllEver <=> AllEver'
      BY <3>1, <3>2, Zenon
    <3>3. CASE ~AllEver /\ AllEver'
      <4>1. UNCHANGED <<IF outer = "done" \/ deadline = "passed" THEN "done" ELSE "live", verdict>>
        BY <3>1
      <4>. QED BY <3>3, <4>1, Zenon DEF All!Contract!Meet
    <3>. QED BY <3>1, <3>2, <3>3
  <2>6. CASE UNCHANGED All!vars
    BY <2>6 DEF All!vars
  <2>. QED BY <2>1, <2>2, <2>3, <2>4, <2>5, <2>6 DEF All!Next
<1>. QED BY <1>1, <1>2, TurnsInvariant, PTL DEF All!Spec, All!Contract!Safe

-----------------------------------------------------------------------------
(* ForAny inside ForAll.                                                   *)

\* Each step of the composition is one of ForAny, or none of it.
LEMMA InnerSteps == [NestedNext]_nested => [Next]_vars
<1> SUFFICES ASSUME [NestedNext]_nested PROVE Next \/ UNCHANGED vars
  OBVIOUS
<1>1. CASE InnerStep
  BY <1>1 DEF InnerStep
<1>2. CASE OuterExpires
  BY <1>2 DEF OuterExpires, Next
<1>3. CASE InnerReturns \/ LaterReturns \/ Returns \/ LaterWorld
  BY <1>3 DEF InnerReturns, LaterReturns, Returns, LaterWorld
<1>4. CASE UNCHANGED nested
  BY <1>4 DEF nested
<1>. QED BY <1>1, <1>2, <1>3, <1>4 DEF NestedNext

\* What ForAny does inside ForAll is what it does anywhere (all.go:22-26, any.go:17-74), so
\* that every theorem about AnyWait holds of it.
THEOREM InnerIsForAny == NestedSpec => Spec
<1>1. NestedInit => Init
  BY DEF NestedInit
<1>. QED BY <1>1, InnerSteps, PTL DEF NestedSpec, Spec

-----------------------------------------------------------------------------
(* ForAll over ForAny.                                                     *)

\* What ties the two together: ForAll's first strategy is ready when ForAny has succeeded,
\* and nothing that is ready goes unnoticed.
Tied ==
  /\ len > 0
  /\ ready[1] <=> AnyReady
  /\ All!ReadyNow(next, ready) => met
  /\ \A i \in 1 .. MaxLen : ready[i] => ever[i]

NestedInv == AnyInv /\ All!TurnsInv /\ Tied

\* ForAny's condition changes only with what its strategies returned.
LEMMA AnyReadyStays == UNCHANGED <<given, outcome>> => (AnyReady' <=> AnyReady)
BY DEF AnyReady, Succeeded

\* A step of ForAny's is, for ForAll, a change of what its first strategy waits for, or none.
LEMMA InnerStepIsWorld ==
  ASSUME NestedInv, InnerStep
  PROVE  [All!Next]_(All!vars) /\ Tied'
<1> USE MaxLenAssumption
<1> DEFINE now == AnyReady'
<1>1. /\ ready \in [1 .. MaxLen -> BOOLEAN] /\ ever \in [1 .. MaxLen -> BOOLEAN]
      /\ met \in BOOLEAN /\ len \in 1 .. MaxLen
  BY DEF NestedInv, Tied, All!TurnsInv, All!TypeOK
<1>2. now \in BOOLEAN
  BY DEF AnyReady
<1>3. /\ ready' = [ready EXCEPT ![1] = now]
      /\ met' = (met \/ All!ReadyNow(next, ready'))
      /\ ever' = [i \in 1 .. MaxLen |-> ever[i] \/ ready'[i]]
      /\ UNCHANGED <<len, deadline, outer, next, verdict>>
  BY DEF InnerStep, Observe
<1> HIDE DEF now
<1>4. Tied'
  <2>1. ready'[1] = now /\ len' > 0 /\ \A i \in 1 .. MaxLen : ready'[i] => ever'[i]
    BY <1>1, <1>2, <1>3
  <2>2. All!ReadyNow(next, ready)' => met'
    BY <1>3 DEF All!ReadyNow, All!Given
  <2>. QED BY <2>1, <2>2 DEF Tied, now
<1>5. CASE now = ready[1]
  <2>1. ready' = ready
    BY <1>1, <1>3, <1>5
  <2>2. ever' = ever
    BY <1>1, <1>3, <2>1 DEF NestedInv, Tied
  <2>3. met' = met
    BY <1>1, <1>3, <2>1, Zenon DEF NestedInv, Tied
  <2>. QED BY <1>3, <1>4, <2>1, <2>2, <2>3 DEF All!vars
<1>6. CASE now # ready[1]
  <2>1. 1 \in All!Given /\ ready' = [ready EXCEPT ![1] = ~@]
    <3>1. ready[1] \in BOOLEAN /\ 1 \in 1 .. len
      BY <1>1
    <3>2. now = ~ready[1]
      BY <1>2, <1>6, <3>1
    <3>. QED BY <1>3, <3>1, <3>2 DEF All!Given
  <2>2. All!World
    BY <1>3, <2>1 DEF All!World
  <2>. QED BY <1>4, <2>2 DEF All!Next
<1>. QED BY <1>5, <1>6

\* A step of ForAll's own is one of AllWait's: ForAny returned nil only if it has succeeded.
LEMMA OuterSteps ==
  ASSUME NestedInv, InnerReturns \/ LaterReturns \/ Returns \/ OuterExpires \/ LaterWorld
  PROVE  All!Next /\ Tied'
<1> USE MaxLenAssumption
<1> USE DEF NestedInv, Tied
<1>0. /\ ready \in [1 .. MaxLen -> BOOLEAN] /\ len \in 1 .. MaxLen /\ next \in 1 .. len + 1
      /\ ever \in [1 .. MaxLen -> BOOLEAN]
  BY DEF All!TurnsInv, All!TypeOK
<1>1. AnyReady' <=> AnyReady
  <2>1. UNCHANGED <<given, outcome>>
    BY DEF InnerReturns, LaterReturns, Returns, OuterExpires, LaterWorld, Expire, vars
  <2>. QED BY <2>1, AnyReadyStays
<1>2. CASE All!StrategyReady
  <2>1. All!Next
    BY <1>2 DEF All!Next
  <2>2. UNCHANGED <<len, ready, ever>> /\ met' = All!ReadyNow(next', ready)
    BY <1>2 DEF All!StrategyReady, All!TurnOver
  <2>. QED BY <1>1, <2>1, <2>2 DEF All!ReadyNow, All!Given
<1>3. CASE All!StrategyFails \/ All!AllReady \/ All!Expire
  <2>1. All!Next
    BY <1>3 DEF All!Next
  <2>2. UNCHANGED <<len, ready, ever, next, met>>
    BY <1>3 DEF All!StrategyFails, All!AllReady, All!Expire
  <2>. QED BY <1>1, <2>1, <2>2 DEF All!ReadyNow, All!Given
<1>4. CASE LaterWorld
  <2>1. All!World /\ ready'[1] = ready[1]
    BY <1>4 DEF LaterWorld
  <2>2. /\ met' = (met \/ All!ReadyNow(next, ready')) /\ UNCHANGED <<len, next>>
        /\ ever' = [i \in 1 .. MaxLen |-> ever[i] \/ ready'[i]]
    BY <2>1 DEF All!World
  <2>. QED BY <1>1, <2>1, <2>2 DEF All!Next, All!ReadyNow, All!Given
<1>5. CASE InnerReturns
  <2>1. CASE result = "nil"
    <3>1. AnyReady
      BY <2>1 DEF AnyInv, ResultSafe, AnyReady
    <3>2. met
      BY <1>0, <1>5, <3>1 DEF InnerReturns, All!ReadyNow, All!Given
    <3>3. All!StrategyReady
      BY <1>5, <2>1, <3>2 DEF InnerReturns, All!StrategyReady
    <3>. QED BY <1>2, <3>3
  <2>2. CASE result # "nil"
    BY <1>3, <1>5, <2>2 DEF InnerReturns
  <2>. QED BY <2>1, <2>2
<1>. QED BY <1>2, <1>3, <1>4, <1>5 DEF LaterReturns, Returns, OuterExpires

LEMMA NestedStep ==
  NestedInv /\ [NestedNext]_nested => NestedInv' /\ [All!Next]_(All!vars)
<1> SUFFICES ASSUME NestedInv, [NestedNext]_nested PROVE NestedInv' /\ [All!Next]_(All!vars)
  OBVIOUS
<1>1. AnyInv'
  BY InnerSteps, AnyStep DEF NestedInv
<1>2. [All!Next]_(All!vars) /\ Tied'
  <2>1. CASE UNCHANGED nested
    BY <2>1 DEF nested, All!vars, vars, NestedInv, Tied, AnyReady, Succeeded, All!ReadyNow, All!Given
  <2>. QED BY <2>1, InnerStepIsWorld, OuterSteps DEF NestedNext
<1>3. All!TurnsInv'
  BY <1>2, TurnsStep DEF NestedInv
<1>. QED BY <1>1, <1>2, <1>3 DEF NestedInv

LEMMA NestedStart == NestedInit => NestedInv
<1> SUFFICES ASSUME NestedInit PROVE NestedInv
  OBVIOUS
<1>1. AnyInv
  BY AnyStart DEF NestedInit
<1>2. Tied
  BY MaxLenAssumption DEF NestedInit, All!Init, Tied
<1>. QED BY <1>1, <1>2, TurnsInit DEF NestedInit, NestedInv

LEMMA NestedInvariant == NestedSpec => []NestedInv
<1>. QED BY NestedStart, NestedStep, PTL DEF NestedSpec

\* ForAll over a ForAny behaves as ForAll does over any strategies: the nil of ForAny comes
\* only after its condition has held, whatever its goroutines do (all.go:22-26).
THEOREM OuterIsForAll == NestedSpec => All!Spec
<1>1. NestedInit => All!Init
  BY DEF NestedInit
<1>. QED BY <1>1, NestedStep, NestedInvariant, PTL DEF NestedSpec, All!Spec

\* So the turns hold in the composition.
THEOREM NestedTurnsHold == NestedSpec => []TurnsHold
<1>. QED BY OuterIsForAll, TurnsInvariant, PTL DEF TurnsHold

\* And the composition is a Strategy again: it does only what WaitContract allows.
THEOREM NestedIsAStrategy == NestedSpec => All!Contract!Safe
<1>. QED BY OuterIsForAll, ForAllIsAStrategy, PTL
=============================================================================
