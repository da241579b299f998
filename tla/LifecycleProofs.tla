-------------------------- MODULE LifecycleProofs --------------------------
(***************************************************************************)
(* What Lifecycle promises for every set of runs, callers and requests and *)
(* for every bound.  Below it, what tests add (TestScope, which extends    *)
(* Lifecycle): they are clients of Lifecycle, and those that keep what     *)
(* they are handed leave nothing behind, for every number of tests, every  *)
(* style and every bound, in sequence or in parallel.                      *)
(***************************************************************************)
EXTENDS TestScope, SequenceTheorems, TLAPS

\* What one invocation of the binary may do: the object keeps its state or takes the
\* new one, an absent object is left alone, and only a present one is served.
LEMMA CommandEffect ==
  ASSUME TypeOK,
         NEW bg \in BOOLEAN, NEW r \in Runs, NEW present \in BOOLEAN,
         NEW old, NEW new, NEW e, NEW after,
         Command(bg, r, present, old, new, e, after)
  PROVE  /\ after = old \/ (present /\ after = new)
         /\ e = "ok" => present /\ after = new
         /\ e = "absent" => ~present
         /\ e \in Endings
         /\ ctx' \in [Runs -> {"live", "done"}]
         /\ faults' \in Nat
<1>1. /\ after = old \/ (present /\ after = new)
      /\ e = "ok" => present /\ after = new
      /\ e = "absent" => ~present
      /\ e \in Endings
  <2>1. CASE present
    BY <2>1 DEF Command, Endings
  <2>2. CASE ~present
    BY <2>2 DEF Command, Endings
  <2>. QED BY <2>1, <2>2
<1>2. ctx' \in [Runs -> {"live", "done"}]
  BY DEF Command, TypeOK
<1>3. faults' \in Nat
  BY DEF Command, TypeOK
<1>. QED BY <1>1, <1>2, <1>3

\* Present is a predicate, whatever it is asked about.
LEMMA PresentBoolean == ASSUME NEW s PROVE Present(s) \in BOOLEAN
BY DEF Present

\* The same for a caller's command on the container of its handle.
LEMMA ContainerCommandEffect ==
  ASSUME TypeOK, NEW k \in Callers, NEW new, NEW e, ContainerCommand(k, new, e)
  PROVE  /\ container' \in [Runs -> ContainerStates]
         /\ \A r \in Runs : r # on[k] => container'[r] = container[r]
         /\ \/ container'[on[k]] = container[on[k]]
            \/ Present(container[on[k]]) /\ container'[on[k]] = new
         /\ e = "ok" => Present(container[on[k]]) /\ container'[on[k]] = new
         /\ e = "absent" => ~Present(container[on[k]]) /\ container'[on[k]] = container[on[k]]
         /\ e \in Endings
         /\ ctx' \in [Runs -> {"live", "done"}]
         /\ faults' \in Nat
         /\ UNCHANGED <<network, image>>
<1> DEFINE r == on[k]
<1>1. r \in Runs
  BY DEF TypeOK
<1>2. PICK s \in ContainerStates :
        /\ Command(k \in Background, r, Present(container[r]), container[r], new, e, s)
        /\ container' = [container EXCEPT ![r] = s]
  BY DEF ContainerCommand
<1>3. (k \in Background) \in BOOLEAN /\ Present(container[r]) \in BOOLEAN
  BY PresentBoolean
<1>4. /\ s = container[r] \/ (Present(container[r]) /\ s = new)
      /\ e = "ok" => Present(container[r]) /\ s = new
      /\ e = "absent" => ~Present(container[r])
      /\ e \in Endings
      /\ ctx' \in [Runs -> {"live", "done"}]
      /\ faults' \in Nat
  BY <1>1, <1>2, <1>3, CommandEffect
<1>5. container' \in [Runs -> ContainerStates] /\ container'[r] = s
  BY <1>1, <1>2 DEF TypeOK
<1>. QED
  BY <1>1, <1>2, <1>4, <1>5 DEF TypeOK, ContainerCommand

\* The same for a cleanup: it concerns the object at the head of the list, which is
\* gone afterwards, or was not there, unless the command failed.
LEMMA CleanupEffect ==
  ASSUME TypeOK, NEW k \in Callers, TerminateCleanup(k)
  PROVE  /\ network' \in [Runs -> ObjectStates] /\ image' \in [Runs -> ObjectStates]
         /\ \A r \in Runs : /\ network'[r] # network[r] => r = on[k] /\ network'[r] = "gone"
                            /\ image'[r] # image[r] => r = on[k] /\ image'[r] = "gone"
         /\ clean' \in [Callers -> BOOLEAN]
         /\ \A j \in Callers : j # k => clean'[j] = clean[j]
         /\ clean'[k] => /\ clean[k]
                         /\ Head(todo[k]) = "network" => network'[on[k]] # "exists"
                         /\ Head(todo[k]) = "image" => image'[on[k]] # "exists"
         /\ ctx' \in [Runs -> {"live", "done"}]
         /\ faults' \in Nat
<1> DEFINE r == on[k]
           bg == k \in Background
           N(e, s) == /\ Head(todo[k]) = "network"
                      /\ Command(bg, r, Present(network[r]), network[r], "gone", e, s)
                      /\ network' = [network EXCEPT ![r] = s]
                      /\ clean' = [clean EXCEPT ![k] = @ /\ e # "fail"]
                      /\ UNCHANGED image
           I(e, s) == /\ Head(todo[k]) = "image"
                      /\ Command(bg, r, Present(image[r]), image[r], "gone", e, s)
                      /\ image' = [image EXCEPT ![r] = s]
                      /\ clean' = [clean EXCEPT ![k] = @ /\ e # "fail"]
                      /\ UNCHANGED network
<1>1. PICK e \in Endings, s \in ObjectStates : N(e, s) \/ I(e, s)
  BY DEF TerminateCleanup
<1>2. r \in Runs /\ bg \in BOOLEAN
  BY DEF TypeOK
<1>3. CASE N(e, s)
  <2>1. /\ s = network[r] \/ s = "gone"
        /\ e = "ok" => s = "gone"
        /\ e = "absent" => ~Present(network[r]) /\ s = network[r]
        /\ ctx' \in [Runs -> {"live", "done"}] /\ faults' \in Nat
    <3>1. Present(network[r]) \in BOOLEAN /\ Command(bg, r, Present(network[r]), network[r], "gone", e, s)
      BY <1>3, PresentBoolean
    <3>. HIDE DEF r, bg, N, I
    <3>. QED BY <1>2, <3>1, CommandEffect
  <2>2. e = "absent" => s # "exists"
    BY <2>1 DEF Present
  <2>3. e # "fail" => s # "exists"
    BY <2>1, <2>2 DEF Endings
  <2>4. /\ network' = [network EXCEPT ![r] = s] /\ network' \in [Runs -> ObjectStates]
        /\ UNCHANGED image /\ image \in [Runs -> ObjectStates]
    BY <1>2, <1>3 DEF TypeOK
  <2>5. /\ clean' = [clean EXCEPT ![k] = @ /\ e # "fail"] /\ clean' \in [Callers -> BOOLEAN]
        /\ clean'[k] => clean[k] /\ s # "exists"
    BY <2>3, <1>3 DEF TypeOK
  <2>6. \A q \in Runs : network'[q] = IF q = r THEN s ELSE network[q]
    BY <2>4 DEF TypeOK
  <2>7. Head(todo[k]) = "network"
    BY <1>3
  <2>8. \A j \in Callers : j # k => clean'[j] = clean[j]
    BY <2>5 DEF TypeOK
  <2>. HIDE DEF r, bg, N, I
  <2>9. \A q \in Runs : /\ network'[q] # network[q] => q = r /\ network'[q] = "gone"
                        /\ image'[q] = image[q]
    BY <2>1, <2>4, <2>6
  <2>10. network'[r] = s
    BY <1>2, <2>6
  <2>. QED BY <2>1, <2>4, <2>5, <2>7, <2>8, <2>9, <2>10 DEF r
<1>4. CASE I(e, s)
  <2>1. /\ s = image[r] \/ s = "gone"
        /\ e = "ok" => s = "gone"
        /\ e = "absent" => ~Present(image[r]) /\ s = image[r]
        /\ ctx' \in [Runs -> {"live", "done"}] /\ faults' \in Nat
    <3>1. Present(image[r]) \in BOOLEAN /\ Command(bg, r, Present(image[r]), image[r], "gone", e, s)
      BY <1>4, PresentBoolean
    <3>. HIDE DEF r, bg, N, I
    <3>. QED BY <1>2, <3>1, CommandEffect
  <2>2. e = "absent" => s # "exists"
    BY <2>1 DEF Present
  <2>3. e # "fail" => s # "exists"
    BY <2>1, <2>2 DEF Endings
  <2>4. /\ image' = [image EXCEPT ![r] = s] /\ image' \in [Runs -> ObjectStates]
        /\ UNCHANGED network /\ network \in [Runs -> ObjectStates]
    BY <1>2, <1>4 DEF TypeOK
  <2>5. /\ clean' = [clean EXCEPT ![k] = @ /\ e # "fail"] /\ clean' \in [Callers -> BOOLEAN]
        /\ clean'[k] => clean[k] /\ s # "exists"
    BY <2>3, <1>4 DEF TypeOK
  <2>6. \A q \in Runs : image'[q] = IF q = r THEN s ELSE image[q]
    BY <2>4 DEF TypeOK
  <2>7. Head(todo[k]) = "image"
    BY <1>4
  <2>8. \A j \in Callers : j # k => clean'[j] = clean[j]
    BY <2>5 DEF TypeOK
  <2>. HIDE DEF r, bg, N, I
  <2>9. \A q \in Runs : /\ image'[q] # image[q] => q = r /\ image'[q] = "gone"
                        /\ network'[q] = network[q]
    BY <2>1, <2>4, <2>6
  <2>10. image'[r] = s
    BY <1>2, <2>6
  <2>. QED BY <2>1, <2>4, <2>5, <2>7, <2>8, <2>9, <2>10 DEF r
<1>. QED BY <1>1, <1>3, <1>4

\* Registering a cleanup keeps the lists lists of cleanups.
LEMMA RegisterType ==
  ASSUME TypeOK, NEW r \in Runs, NEW ok \in BOOLEAN, NEW object \in {"network", "image"},
         Register(r, ok, object)
  PROVE  cleanups' \in [Runs -> Seq({"network", "image"})]
<1>1. Append(cleanups[r], object) \in Seq({"network", "image"})
  BY DEF TypeOK
<1>. QED BY <1>1 DEF Register, TypeOK

\* Every step keeps every variable in its type.
LEMMA TypeStep == TypeOK /\ [Next]_vars => TypeOK'
<1> SUFFICES ASSUME TypeOK, [Next]_vars PROVE TypeOK'
  OBVIOUS
<1> USE DEF ContainerStates, ObjectStates, RunLabels, CallLabels
<1> DEFINE EnvironmentOK == ctx' \in [Runs -> {"live", "done"}] /\ faults' \in Nat
<1>1. ASSUME NEW r \in Runs, Customize(r) PROVE TypeOK'
  <2>1. CASE req[r].network
    <3>1. PICK e \in Endings, s \in ObjectStates :
            /\ Command(FALSE, r, TRUE, network[r], "exists", e, s)
            /\ network' = [network EXCEPT ![r] = s]
            /\ Register(r, e = "ok", "network")
            /\ Advance(r, e = "ok", "validate", "nil")
      BY <1>1, <2>1 DEF Customize
    <3>2. EnvironmentOK
      BY <3>1, CommandEffect
    <3>3. cleanups' \in [Runs -> Seq({"network", "image"})]
      BY <3>1, RegisterType
    <3>4. UNCHANGED <<container, image, req, version, isRunning, follower, caller>>
      BY <1>1 DEF Customize
    <3>. QED BY <3>1, <3>2, <3>3, <3>4 DEF TypeOK, Advance, caller
  <2>2. CASE ~req[r].network
    <3>1. /\ Advance(r, TRUE, "validate", "nil")
          /\ UNCHANGED <<daemon, cleanups, ctx, faults, req, version, isRunning, follower, caller>>
      BY <1>1, <2>2 DEF Customize, daemon
    <3>. QED BY <3>1 DEF TypeOK, Advance, daemon, caller
  <2>. QED BY <2>1, <2>2
<1>2. ASSUME NEW r \in Runs, Validate(r) PROVE TypeOK'
  BY <1>2 DEF TypeOK, Validate, Advance, daemon, caller
<1>3. ASSUME NEW r \in Runs, VersionCheck(r) PROVE TypeOK'
  <2>1. CASE NeedsVersionCheck
    <3>1. PICK e \in Endings : /\ Command(FALSE, r, TRUE, "none", "none", e, "none")
                               /\ version' = IF e = "ok" THEN "ok" ELSE "err"
      BY <1>3, <2>1 DEF VersionCheck
    <3>2. EnvironmentOK
      BY <3>1, CommandEffect
    <3>. QED BY <1>3, <3>1, <3>2 DEF TypeOK, VersionCheck, Advance, daemon, caller
  <2>2. CASE ~NeedsVersionCheck
    <3>1. Advance(r, version = "ok", "build", "nil")
          /\ UNCHANGED <<version, ctx, faults, daemon, req, cleanups, isRunning, follower, caller>>
      BY <1>3, <2>2 DEF VersionCheck
    <3>. QED BY <3>1 DEF TypeOK, Advance, daemon, caller
  <2>. QED BY <2>1, <2>2
<1>4. ASSUME NEW r \in Runs, Build(r) PROVE TypeOK'
  <2>1. CASE req[r].build
    <3>1. PICK e \in Endings, s \in ObjectStates :
            /\ Command(FALSE, r, TRUE, image[r], "exists", e, s)
            /\ image' = [image EXCEPT ![r] = s]
            /\ Register(r, e = "ok" /\ ~req[r].keep, "image")
            /\ Advance(r, e = "ok", "create", "nil")
      BY <1>4, <2>1 DEF Build
    <3>2. EnvironmentOK
      BY <3>1, CommandEffect
    <3>3. cleanups' \in [Runs -> Seq({"network", "image"})]
      BY <3>1, RegisterType
    <3>4. UNCHANGED <<container, network, req, version, isRunning, follower, caller>>
      BY <1>4 DEF Build
    <3>. QED BY <3>1, <3>2, <3>3, <3>4 DEF TypeOK, Advance, caller
  <2>2. CASE ~req[r].build
    <3>1. /\ Advance(r, TRUE, "create", "nil")
          /\ UNCHANGED <<daemon, cleanups, ctx, faults, req, version, isRunning, follower, caller>>
      BY <1>4, <2>2 DEF Build, daemon
    <3>. QED BY <3>1 DEF TypeOK, Advance, daemon, caller
  <2>. QED BY <2>1, <2>2
<1>5. ASSUME NEW r \in Runs, CreateContainer(r) PROVE TypeOK'
  <2>1. PICK e \in Endings, s \in ContainerStates :
          /\ Command(FALSE, r, TRUE, container[r], "created", e, s)
          /\ container' = [container EXCEPT ![r] = s]
          /\ Advance(r, e = "ok", "copy", "nil")
    BY <1>5 DEF CreateContainer
  <2>2. EnvironmentOK
    BY <2>1, CommandEffect
  <2>. QED BY <1>5, <2>1, <2>2 DEF TypeOK, CreateContainer, Advance, caller
<1>6. ASSUME NEW r \in Runs, CopyFiles(r) PROVE TypeOK'
  <2>1. CASE req[r].files
    <3>1. PICK e \in Endings :
            /\ Command(FALSE, r, Present(container[r]), "none", "none", e, "none")
            /\ Advance(r, e = "ok", "start", "err")
      BY <1>6, <2>1 DEF CopyFiles
    <3>2. EnvironmentOK
      BY <3>1, CommandEffect, PresentBoolean
    <3>. QED BY <1>6, <3>1, <3>2 DEF TypeOK, CopyFiles, Advance, daemon, caller
  <2>2. CASE ~req[r].files
    <3>1. /\ Advance(r, TRUE, "start", "err")
          /\ UNCHANGED <<daemon, cleanups, ctx, faults, req, version, isRunning, follower, caller>>
      BY <1>6, <2>2 DEF CopyFiles
    <3>. QED BY <3>1 DEF TypeOK, Advance, daemon, caller
  <2>. QED BY <2>1, <2>2
<1>7. ASSUME NEW r \in Runs, StartContainer(r) PROVE TypeOK'
  <2>1. PICK e \in Endings, s \in ContainerStates :
          /\ Command(FALSE, r, Present(container[r]), container[r], "running", e, s)
          /\ container' = [container EXCEPT ![r] = s]
          /\ Advance(r, e = "ok", "started", "err")
    BY <1>7 DEF StartContainer
  <2>2. EnvironmentOK
    BY <2>1, CommandEffect, PresentBoolean
  <2>. QED BY <1>7, <2>1, <2>2 DEF TypeOK, StartContainer, Advance, caller
<1>8. ASSUME NEW r \in Runs, MarkRunning(r) PROVE TypeOK'
  BY <1>8 DEF TypeOK, MarkRunning, Advance, daemon, caller
<1>9. ASSUME NEW r \in Runs, FollowLogs(r) PROVE TypeOK'
  <2>1. CASE req[r].logs
    <3>1. PICK e \in Endings :
            /\ Command(TRUE, r, TRUE, "none", "none", e, "none")
            /\ follower' = [follower EXCEPT ![r] = IF e = "ok" THEN "on" ELSE @]
            /\ Advance(r, e = "ok", "wait", "err")
      BY <1>9, <2>1 DEF FollowLogs
    <3>2. EnvironmentOK
      BY <3>1, CommandEffect
    <3>. QED BY <1>9, <3>1, <3>2 DEF TypeOK, FollowLogs, Advance, daemon, caller
  <2>2. CASE ~req[r].logs
    <3>1. /\ Advance(r, TRUE, "wait", "err")
          /\ UNCHANGED <<daemon, cleanups, ctx, faults, req, version, isRunning, follower, caller>>
      BY <1>9, <2>2 DEF FollowLogs
    <3>. QED BY <3>1 DEF TypeOK, Advance, daemon, caller
  <2>. QED BY <2>1, <2>2
<1>10. ASSUME NEW r \in Runs, WaitReady(r) PROVE TypeOK'
  BY <1>10 DEF TypeOK, WaitReady, Return, Advance, daemon, caller
<1>11. ASSUME NEW r \in Runs, NEW k \in Callers, BeginStart(k, r) \/ BeginStop(k, r) PROVE TypeOK'
  <2>1. Enter(k, r, "start") \/ Enter(k, r, "stop")
    BY <1>11 DEF BeginStart, BeginStop
  <2>2. UNCHANGED <<daemon, run, ctx, isRunning, follower, todo, released, faults>>
    BY <1>11 DEF BeginStart, BeginStop
  <2>3. /\ at' \in [Callers -> CallLabels] /\ on' \in [Callers -> Runs]
        /\ said' \in [Callers -> {"none", "nil", "err"}] /\ clean' \in [Callers -> BOOLEAN]
        /\ calls' \in Nat
    <3>1. PICK label \in {"start", "stop"} : Enter(k, r, label)
      BY <2>1
    <3>. QED BY <3>1 DEF Enter, TypeOK
  <2>. QED BY <2>2, <2>3 DEF TypeOK, daemon, run
<1>12. ASSUME NEW r \in Runs, NEW k \in Callers, BeginTerminate(k, r) PROVE TypeOK'
  BY <1>12 DEF TypeOK, BeginTerminate, Cancelled, Enter, daemon, run
<1>13. ASSUME NEW k \in Callers, StartCommand(k) PROVE TypeOK'
  BY <1>13, ContainerCommandEffect DEF TypeOK, StartCommand, Goto, run
<1>14. ASSUME NEW k \in Callers, StopCommand(k) PROVE TypeOK'
  BY <1>14, ContainerCommandEffect DEF TypeOK, StopCommand, Goto, run
<1>15. ASSUME NEW k \in Callers, StoreRunning(k) PROVE TypeOK'
  BY <1>15 DEF TypeOK, StoreRunning, Goto, daemon, run
<1>16. ASSUME NEW k \in Callers, TerminateStop(k) PROVE TypeOK'
  BY <1>16, ContainerCommandEffect DEF TypeOK, TerminateStop, Goto, run
<1>17. ASSUME NEW k \in Callers, TerminateDelete(k) PROVE TypeOK'
  <2>1. container' \in [Runs -> ContainerStates] /\ EnvironmentOK /\ UNCHANGED <<network, image>>
    BY <1>17, ContainerCommandEffect DEF TerminateDelete
  <2>2. /\ UNCHANGED <<run, isRunning, follower, on, released, calls>>
        /\ clean' \in [Callers -> BOOLEAN]
    BY <1>17 DEF TerminateDelete, TypeOK
  <2>3. /\ at' = [at EXCEPT ![k] = "termClean"] \/ at' = [at EXCEPT ![k] = "idle"]
        /\ said' = said \/ said' = [said EXCEPT ![k] = "err"]
    BY <1>17 DEF TerminateDelete, Goto
  <2>6. /\ at' \in [Callers -> CallLabels]
        /\ said' \in [Callers -> {"none", "nil", "err"}]
    <3>1. at \in [Callers -> CallLabels] /\ said \in [Callers -> {"none", "nil", "err"}]
      BY DEF TypeOK
    <3>. QED BY <2>3, <3>1
  <2>4. todo' = todo \/ todo' = [todo EXCEPT ![k] = cleanups[on[k]]]
    BY <1>17 DEF TerminateDelete
  <2>5. todo' \in [Callers -> Seq({"network", "image"})]
    <3>1. cleanups[on[k]] \in Seq({"network", "image"})
      <4>1. on[k] \in Runs /\ cleanups \in [Runs -> Seq({"network", "image"})]
        BY DEF TypeOK
      <4>. QED BY <4>1
    <3>2. todo \in [Callers -> Seq({"network", "image"})]
      BY DEF TypeOK
    <3>. QED BY <2>4, <3>1, <3>2
  <2>. QED BY <2>1, <2>2, <2>6, <2>5 DEF TypeOK, run
<1>18. ASSUME NEW k \in Callers, TerminateCleanup(k) PROVE TypeOK'
  <2>1. /\ UNCHANGED <<container, run, isRunning, follower, at, on, said, released, calls>>
        /\ todo' = [todo EXCEPT ![k] = Tail(@)] /\ todo[k] # <<>>
    BY <1>18 DEF TerminateCleanup
  <2>2. todo' \in [Callers -> Seq({"network", "image"})]
    BY <2>1 DEF TypeOK
  <2>3. /\ network' \in [Runs -> ObjectStates] /\ image' \in [Runs -> ObjectStates]
        /\ clean' \in [Callers -> BOOLEAN] /\ EnvironmentOK
    BY <1>18, CleanupEffect
  <2>. QED BY <2>1, <2>2, <2>3 DEF TypeOK, run
<1>19. ASSUME NEW k \in Callers, TerminateReturn(k) PROVE TypeOK'
  BY <1>19 DEF TypeOK, TerminateReturn, Goto, daemon, run
<1>20. ASSUME NEW r \in Runs, Environment(r) \/ FollowerEnds(r) PROVE TypeOK'
  <2>1. CASE Expire(r)
    BY <2>1 DEF TypeOK, Expire, daemon, run, caller
  <2>2. CASE ProcessExit(r) \/ AutoRemove(r)
    <3>1. /\ UNCHANGED <<network, image, run, ctx, isRunning, follower, caller, faults>>
          /\ \E s \in {"stopped", "gone"} : container' = [container EXCEPT ![r] = s]
      BY <2>2 DEF ProcessExit, AutoRemove
    <3>2. container' \in [Runs -> ContainerStates]
      BY <3>1 DEF TypeOK
    <3>. QED BY <3>1, <3>2 DEF TypeOK, run, caller
  <2>3. CASE FollowerEnds(r) \/ StreamJams(r)
    <3>1. /\ UNCHANGED <<daemon, run, ctx, isRunning, caller, faults>>
          /\ \E s \in {"ended", "jammed"} : follower' = [follower EXCEPT ![r] = s]
      BY <2>3 DEF FollowerEnds, StreamJams
    <3>2. follower' \in [Runs -> {"none", "on", "cancelled", "jammed", "ended"}]
      BY <3>1 DEF TypeOK
    <3>. QED BY <3>1, <3>2 DEF TypeOK, daemon, run, caller
  <2>. QED BY <1>20, <2>1, <2>2, <2>3 DEF Environment
<1>21. CASE UNCHANGED vars
  BY <1>21 DEF TypeOK, vars, daemon, run, caller
<1>. QED
  BY <1>1, <1>2, <1>3, <1>4, <1>5, <1>6, <1>7, <1>8, <1>9, <1>10, <1>11, <1>12, <1>13, <1>14,
     <1>15, <1>16, <1>17, <1>18, <1>19, <1>20, <1>21
     DEF Next, RunStep, CallStep

\* Type correctness.
THEOREM TypeCorrect == Spec => []TypeOK
<1>1. Init => TypeOK
  BY RequestsAssumption DEF Init, TypeOK, ContainerStates, ObjectStates, RunLabels, CallLabels
<1>. QED BY <1>1, TypeStep, PTL DEF Spec

-----------------------------------------------------------------------------
(* The inductive invariant, one side at a time.                            *)

\* A step of Run concerns its own run only, and only before it has returned.
LEMMA RunStepFrame ==
  ASSUME TypeOK, NEW r \in Runs, RunStep(r)
  PROVE  /\ pc[r] # "returned"
         /\ UNCHANGED <<req, caller>>
         /\ \A q \in Runs : q # r =>
              /\ container'[q] = container[q] /\ network'[q] = network[q] /\ image'[q] = image[q]
              /\ pc'[q] = pc[q] /\ ret'[q] = ret[q] /\ cleanups'[q] = cleanups[q]
<1>1. CASE Customize(r)
  <2>1. /\ UNCHANGED <<container, image, req, caller>> /\ pc[r] # "returned"
        /\ \A q \in Runs : q # r => pc'[q] = pc[q] /\ ret'[q] = ret[q]
    BY <1>1 DEF Customize, Advance, TypeOK
  <2>2. \A q \in Runs : q # r => network'[q] = network[q] /\ cleanups'[q] = cleanups[q]
    BY <1>1 DEF Customize, Register, TypeOK
  <2>. QED BY <2>1, <2>2
<1>2. CASE Validate(r)
  BY <1>2 DEF Validate, Advance, TypeOK, daemon
<1>3. CASE VersionCheck(r)
  BY <1>3 DEF VersionCheck, Advance, TypeOK, daemon
<1>4. CASE Build(r)
  <2>1. /\ UNCHANGED <<container, network, req, caller>> /\ pc[r] # "returned"
        /\ \A q \in Runs : q # r => pc'[q] = pc[q] /\ ret'[q] = ret[q]
    BY <1>4 DEF Build, Advance, TypeOK
  <2>2. \A q \in Runs : q # r => image'[q] = image[q] /\ cleanups'[q] = cleanups[q]
    BY <1>4 DEF Build, Register, TypeOK
  <2>. QED BY <2>1, <2>2
<1>5. CASE CreateContainer(r)
  <2>1. /\ UNCHANGED <<network, image, cleanups, req, caller>> /\ pc[r] # "returned"
        /\ \A q \in Runs : q # r => container'[q] = container[q]
    BY <1>5 DEF CreateContainer, TypeOK
  <2>2. \A q \in Runs : q # r => pc'[q] = pc[q] /\ ret'[q] = ret[q]
    BY <1>5 DEF CreateContainer, Advance, TypeOK
  <2>. QED BY <2>1, <2>2
<1>6. CASE CopyFiles(r)
  <2>1. UNCHANGED <<daemon, cleanups, req, caller>> /\ pc[r] # "returned"
    BY <1>6 DEF CopyFiles
  <2>2. \A q \in Runs : q # r => pc'[q] = pc[q] /\ ret'[q] = ret[q]
    BY <1>6 DEF CopyFiles, Advance, TypeOK
  <2>. QED BY <2>1, <2>2 DEF daemon
<1>7. CASE StartContainer(r)
  <2>1. /\ UNCHANGED <<network, image, cleanups, req, caller>> /\ pc[r] # "returned"
        /\ \A q \in Runs : q # r => container'[q] = container[q]
    BY <1>7 DEF StartContainer, TypeOK
  <2>2. \A q \in Runs : q # r => pc'[q] = pc[q] /\ ret'[q] = ret[q]
    BY <1>7 DEF StartContainer, Advance, TypeOK
  <2>. QED BY <2>1, <2>2
<1>8. CASE MarkRunning(r)
  BY <1>8 DEF MarkRunning, Advance, TypeOK, daemon
<1>9. CASE FollowLogs(r)
  BY <1>9 DEF FollowLogs, Advance, TypeOK, daemon
<1>10. CASE WaitReady(r)
  BY <1>10 DEF WaitReady, Return, Advance, TypeOK, daemon
<1>. QED BY <1>1, <1>2, <1>3, <1>4, <1>5, <1>6, <1>7, <1>8, <1>9, <1>10 DEF RunStep

\* A registered object stays registered.
LEMMA RegisterKeeps ==
  ASSUME TypeOK, NEW r \in Runs, NEW ok \in BOOLEAN, NEW object \in {"network", "image"},
         Register(r, ok, object)
  PROVE  /\ \A thing : Registered(r, thing) => Registered(r, thing)'
         /\ ok => Registered(r, object)'
<1>1. cleanups[r] \in Seq({"network", "image"})
  BY DEF TypeOK
<1>2. cleanups'[r] = IF ok THEN Append(cleanups[r], object) ELSE cleanups[r]
  BY DEF Register, TypeOK
<1>3. CASE ok
  <2>1. /\ DOMAIN cleanups'[r] = 1 .. (Len(cleanups[r]) + 1)
        /\ \A i \in DOMAIN cleanups[r] : cleanups'[r][i] = cleanups[r][i]
        /\ cleanups'[r][Len(cleanups[r]) + 1] = object
        /\ DOMAIN cleanups[r] = 1 .. Len(cleanups[r])
        /\ Len(cleanups[r]) \in Nat
    BY <1>1, <1>2, <1>3
  <2>. QED BY <2>1 DEF Registered
<1>4. CASE ~ok
  BY <1>2, <1>4 DEF Registered
<1>. QED BY <1>3, <1>4

\* A step of Run keeps what holds of that run.
LEMMA RunStepSafe ==
  ASSUME TypeOK, NEW r \in Runs, RunSafe(r), RunStep(r)
  PROVE  RunSafe(r)'
<1> USE DEF BeforeCreate
<1>0. pc[r] # "returned" /\ ret[r] = "none" /\ req' = req
  BY RunStepFrame DEF RunSafe
<1>1. CASE Customize(r)
  <2>1. CASE req[r].network
    <3>1. PICK e \in Endings, s \in ObjectStates :
            /\ Command(FALSE, r, TRUE, network[r], "exists", e, s)
            /\ network' = [network EXCEPT ![r] = s]
            /\ Register(r, e = "ok", "network")
            /\ Advance(r, e = "ok", "validate", "nil")
      BY <1>1, <2>1 DEF Customize
    <3>2. container' = container /\ image' = image /\ pc[r] = "customize"
      BY <1>1 DEF Customize
    <3>3. /\ \A thing : Registered(r, thing) => Registered(r, thing)'
          /\ e = "ok" => Registered(r, "network")'
      BY <3>1, RegisterKeeps
    <3>4. /\ pc'[r] = IF e = "ok" THEN "validate" ELSE "returned"
          /\ ret'[r] = IF e = "ok" THEN "none" ELSE "nil"
      BY <1>0, <3>1 DEF Advance, TypeOK
    <3>. QED BY <1>0, <3>2, <3>3, <3>4 DEF RunSafe
  <2>2. CASE ~req[r].network
    <3>1. /\ Advance(r, TRUE, "validate", "nil") /\ pc[r] = "customize"
          /\ UNCHANGED <<daemon, cleanups>>
      BY <1>1, <2>2 DEF Customize, daemon
    <3>. QED BY <1>0, <3>1 DEF RunSafe, Registered, Advance, TypeOK, daemon
  <2>. QED BY <2>1, <2>2
<1>2. CASE Validate(r)
  BY <1>0, <1>2 DEF Validate, Advance, RunSafe, Registered, TypeOK, daemon
<1>3. CASE VersionCheck(r)
  <2>1. /\ Advance(r, version' = "ok", "build", "nil") /\ pc[r] = "version"
        /\ UNCHANGED <<daemon, cleanups>>
    BY <1>3 DEF VersionCheck
  <2>. QED BY <1>0, <2>1 DEF Advance, RunSafe, Registered, TypeOK, daemon
<1>4. CASE Build(r)
  <2>1. CASE req[r].build
    <3>1. PICK e \in Endings, s \in ObjectStates :
            /\ Command(FALSE, r, TRUE, image[r], "exists", e, s)
            /\ image' = [image EXCEPT ![r] = s]
            /\ Register(r, e = "ok" /\ ~req[r].keep, "image")
            /\ Advance(r, e = "ok", "create", "nil")
      BY <1>4, <2>1 DEF Build
    <3>2. container' = container /\ network' = network /\ pc[r] = "build"
      BY <1>4 DEF Build
    <3>3. /\ \A thing : Registered(r, thing) => Registered(r, thing)'
          /\ e = "ok" /\ ~req[r].keep => Registered(r, "image")'
      BY <3>1, RegisterKeeps
    <3>4. /\ pc'[r] = IF e = "ok" THEN "create" ELSE "returned"
          /\ ret'[r] = IF e = "ok" THEN "none" ELSE "nil"
      BY <1>0, <3>1 DEF Advance, TypeOK
    <3>. QED BY <1>0, <3>2, <3>3, <3>4 DEF RunSafe
  <2>2. CASE ~req[r].build
    <3>1. /\ Advance(r, TRUE, "create", "nil") /\ pc[r] = "build"
          /\ UNCHANGED <<daemon, cleanups>>
      BY <1>4, <2>2 DEF Build, daemon
    <3>. QED BY <1>0, <3>1 DEF RunSafe, Registered, Advance, TypeOK, daemon
  <2>. QED BY <2>1, <2>2
<1>5. CASE CreateContainer(r)
  <2>1. PICK e \in Endings, s \in ContainerStates :
          /\ Command(FALSE, r, TRUE, container[r], "created", e, s)
          /\ container' = [container EXCEPT ![r] = s]
          /\ Advance(r, e = "ok", "copy", "nil")
    BY <1>5 DEF CreateContainer
  <2>2. pc[r] = "create" /\ container[r] = "none" /\ UNCHANGED <<network, image, cleanups>>
    BY <1>5 DEF CreateContainer, RunSafe
  <2>3. container'[r] \in {"none", "created"}
    <3>1. Command(FALSE, r, TRUE, container[r], "created", e, s)
      BY <2>1
    <3>2. s = container[r] \/ s = "created"
      BY <3>1 DEF Command
    <3>. QED BY <2>1, <2>2, <3>2 DEF TypeOK
  <2>4. e = "ok" => container'[r] = "created"
    <3>1. Command(FALSE, r, TRUE, container[r], "created", e, s)
      BY <2>1
    <3>2. e = "ok" => s = "created"
      BY <3>1 DEF Command
    <3>. QED BY <2>1, <3>2 DEF TypeOK
  <2>. QED BY <1>0, <2>1, <2>2, <2>3, <2>4 DEF RunSafe, Registered, Advance, TypeOK
<1>6. CASE CopyFiles(r) \/ StartContainer(r) \/ MarkRunning(r) \/ FollowLogs(r) \/ WaitReady(r)
  <2>1. /\ pc[r] \notin BeforeCreate /\ UNCHANGED <<network, image, cleanups>>
        /\ \/ \E ok \in BOOLEAN, next \in {"start", "started", "logs", "wait"} : Advance(r, ok, next, "err")
           \/ \E what \in {"ok", "err"} : Advance(r, FALSE, "returned", what)
    <3>1. CASE CopyFiles(r)
      BY <3>1 DEF CopyFiles, daemon
    <3>2. CASE StartContainer(r)
      BY <3>2 DEF StartContainer
    <3>3. CASE MarkRunning(r)
      BY <3>3 DEF MarkRunning, daemon
    <3>4. CASE FollowLogs(r)
      BY <3>4 DEF FollowLogs, daemon
    <3>5. CASE WaitReady(r)
      BY <3>5 DEF WaitReady, Return, daemon
    <3>. QED BY <1>6, <3>1, <3>2, <3>3, <3>4, <3>5
  <2>2. /\ pc'[r] \notin BeforeCreate /\ ret'[r] # "nil"
        /\ pc'[r] = "returned" <=> ret'[r] # "none"
    BY <1>0, <2>1 DEF Advance, TypeOK
  <2>3. container[r] # "none" => container'[r] # "none"
    <3>1. CASE StartContainer(r)
      <4>1. PICK e \in Endings, s \in ContainerStates :
              /\ Command(FALSE, r, Present(container[r]), container[r], "running", e, s)
              /\ container' = [container EXCEPT ![r] = s]
        BY <3>1 DEF StartContainer
      <4>2. s = container[r] \/ s = "running"
        BY <4>1 DEF Command
      <4>. QED BY <4>1, <4>2 DEF TypeOK
    <3>2. CASE ~StartContainer(r)
      BY <1>6, <3>2 DEF CopyFiles, MarkRunning, FollowLogs, WaitReady, daemon
    <3>. QED BY <3>1, <3>2
  <2>. QED BY <1>0, <2>1, <2>2, <2>3 DEF RunSafe, Registered
<1>. QED BY <1>1, <1>2, <1>3, <1>4, <1>5, <1>6 DEF RunStep

\* A step of a call concerns the objects of its handle only, and never brings one back.
LEMMA CallStepFrame ==
  ASSUME TypeOK, NEW k \in Callers, CallStep(k)
  PROVE  /\ at[k] # "idle"
         /\ UNCHANGED <<run, on>>
         /\ \A q \in Runs :
              /\ q # on[k] => container'[q] = container[q]
              /\ container[q] = "gone" => container'[q] = "gone"
              /\ container[q] # "none" => container'[q] # "none"
              /\ network'[q] # network[q] => q = on[k] /\ network'[q] = "gone"
              /\ image'[q] # image[q] => q = on[k] /\ image'[q] = "gone"
         /\ \A j \in Callers : j # k =>
              at'[j] = at[j] /\ todo'[j] = todo[j] /\ said'[j] = said[j] /\ clean'[j] = clean[j]
<1> DEFINE Daemon == \A q \in Runs :
              /\ q # on[k] => container'[q] = container[q]
              /\ container[q] = "gone" => container'[q] = "gone"
              /\ container[q] # "none" => container'[q] # "none"
              /\ network'[q] # network[q] => q = on[k] /\ network'[q] = "gone"
              /\ image'[q] # image[q] => q = on[k] /\ image'[q] = "gone"
<1>1. ASSUME NEW new, Present(container[on[k]]) => new # "none", NEW e, ContainerCommand(k, new, e)
      PROVE  Daemon
  <2>1. \A q \in Runs : container[q] = "gone" => ~Present(container[q])
    BY DEF Present
  <2>. QED BY <1>1, <2>1, ContainerCommandEffect
<1>2. CASE StartCommand(k)
  <2>1. Daemon
    BY <1>1, <1>2 DEF StartCommand
  <2>. QED BY <1>2, <2>1 DEF StartCommand, Goto, TypeOK
<1>3. CASE StopCommand(k)
  <2>1. Daemon
    <3>1. PICK e \in Endings : ContainerCommand(k, AfterStop(container[on[k]]), e)
      BY <1>3 DEF StopCommand
    <3>2. Present(container[on[k]]) => AfterStop(container[on[k]]) # "none"
      BY DEF Present, AfterStop
    <3>. HIDE DEF Daemon
    <3>. QED BY <3>1, <3>2, <1>1
  <2>. QED BY <1>3, <2>1 DEF StopCommand, Goto, TypeOK
<1>4. CASE StoreRunning(k)
  BY <1>4 DEF StoreRunning, Goto, TypeOK, daemon
<1>5. CASE TerminateStop(k)
  <2>1. Daemon
    <3>1. PICK e \in Endings : ContainerCommand(k, AfterStop(container[on[k]]), e)
      BY <1>5 DEF TerminateStop
    <3>2. Present(container[on[k]]) => AfterStop(container[on[k]]) # "none"
      BY DEF Present, AfterStop
    <3>. HIDE DEF Daemon
    <3>. QED BY <3>1, <3>2, <1>1
  <2>. QED BY <1>5, <2>1 DEF TerminateStop, Goto, TypeOK
<1>6. CASE TerminateDelete(k)
  <2>1. Daemon
    BY <1>1, <1>6 DEF TerminateDelete
  <2>. QED BY <1>6, <2>1 DEF TerminateDelete, Goto, TypeOK
<1>7. CASE TerminateCleanup(k)
  <2>1. Daemon /\ \A j \in Callers : j # k => clean'[j] = clean[j]
    BY <1>7, CleanupEffect DEF TerminateCleanup
  <2>. QED BY <1>7, <2>1 DEF TerminateCleanup, TypeOK
<1>8. CASE TerminateReturn(k)
  BY <1>8 DEF TerminateReturn, Goto, TypeOK, daemon
<1>. QED BY <1>2, <1>3, <1>4, <1>5, <1>6, <1>7, <1>8 DEF CallStep

\* What a handle refers to only ever goes away.
LEMMA HandleStable ==
  ASSUME TypeOK, \A q \in Runs : RunSafe(q), [Next]_vars, NEW r \in Runs, HasHandle(r)
  PROVE  /\ HasHandle(r)' /\ pc'[r] = pc[r] /\ ret'[r] = ret[r]
         /\ cleanups'[r] = cleanups[r] /\ req'[r] = req[r]
         /\ container[r] = "gone" => container'[r] = "gone"
         /\ network[r] # "exists" => network'[r] # "exists"
         /\ image[r] # "exists" => image'[r] # "exists"
<1>0. pc[r] = "returned"
  BY DEF RunSafe, HasHandle
<1>1. ASSUME NEW q \in Runs, RunStep(q) PROVE q # r /\ UNCHANGED <<req>>
      /\ container'[r] = container[r] /\ network'[r] = network[r] /\ image'[r] = image[r]
      /\ pc'[r] = pc[r] /\ ret'[r] = ret[r] /\ cleanups'[r] = cleanups[r]
  BY <1>0, <1>1, RunStepFrame
<1>2. ASSUME NEW q \in Runs, Environment(q) \/ FollowerEnds(q)
      PROVE  /\ UNCHANGED <<run, network, image>>
             /\ container[r] = "gone" => container'[r] = "gone"
  BY <1>2 DEF Environment, Expire, ProcessExit, AutoRemove, StreamJams, FollowerEnds, TypeOK, daemon
<1>3. ASSUME NEW k \in Callers, NEW q \in Runs, BeginStart(k, q) \/ BeginStop(k, q) \/ BeginTerminate(k, q)
      PROVE  UNCHANGED <<run, daemon>>
  BY <1>3 DEF BeginStart, BeginStop, BeginTerminate
<1>4. ASSUME NEW k \in Callers, CallStep(k)
      PROVE  /\ UNCHANGED run
             /\ container[r] = "gone" => container'[r] = "gone"
             /\ network[r] # "exists" => network'[r] # "exists"
             /\ image[r] # "exists" => image'[r] # "exists"
  BY <1>4, CallStepFrame
<1>5. CASE UNCHANGED vars
  BY <1>5 DEF vars, run, daemon, HasHandle
<1>. QED
  BY <1>1, <1>2, <1>3, <1>4, <1>5 DEF Next, HasHandle, run, daemon

\* Runs.
LEMMA RunsStaySafe ==
  ASSUME TypeOK, \A q \in Runs : RunSafe(q), \A k \in Callers : CallSafe(k), [Next]_vars, NEW r \in Runs
  PROVE  RunSafe(r)'
<1>1. ASSUME NEW q \in Runs, RunStep(q) PROVE RunSafe(r)'
  <2>1. CASE q = r
    BY <1>1, <2>1, RunStepSafe
  <2>2. CASE q # r
    BY <1>1, <2>2, RunStepFrame DEF RunSafe, Registered
  <2>. QED BY <2>1, <2>2
<1>2. ASSUME NEW q \in Runs, Environment(q) \/ FollowerEnds(q) PROVE RunSafe(r)'
  <2>1. /\ UNCHANGED <<run, network, image>>
        /\ \/ container'[r] = container[r]
           \/ container[r] \in {"running", "stopped"} /\ container'[r] # "none"
    BY <1>2 DEF Environment, Expire, ProcessExit, AutoRemove, StreamJams, FollowerEnds, TypeOK, daemon
  <2>. QED BY <2>1 DEF RunSafe, Registered, run
<1>3. ASSUME NEW k \in Callers, NEW q \in Runs, BeginStart(k, q) \/ BeginStop(k, q) \/ BeginTerminate(k, q)
      PROVE  RunSafe(r)'
  <2>1. UNCHANGED <<run, daemon>>
    BY <1>3 DEF BeginStart, BeginStop, BeginTerminate
  <2>. QED BY <2>1 DEF RunSafe, Registered, run, daemon
<1>4. ASSUME NEW k \in Callers, CallStep(k) PROVE RunSafe(r)'
  <2>1. HasHandle(on[k]) /\ UNCHANGED run
    BY <1>4, CallStepFrame DEF CallSafe
  <2>2. /\ r # on[k] => container'[r] = container[r]
        /\ container[r] # "none" => container'[r] # "none"
        /\ network'[r] = "exists" => network[r] = "exists"
        /\ image'[r] = "exists" => image[r] = "exists"
    BY <1>4, CallStepFrame
  <2>3. r = on[k] => pc[r] = "returned" /\ ret[r] # "nil"
    BY <2>1 DEF HasHandle, RunSafe
  <2>. QED BY <2>1, <2>2, <2>3 DEF RunSafe, Registered, run, BeforeCreate
<1>5. CASE UNCHANGED vars
  BY <1>5 DEF vars, run, daemon, RunSafe, Registered
<1>. QED BY <1>1, <1>2, <1>3, <1>4, <1>5 DEF Next

\* Callers.  A call in flight is affected by others only through the daemon.
LEMMA OthersStaySafe ==
  ASSUME TypeOK, \A q \in Runs : RunSafe(q), [Next]_vars,
         NEW k \in Callers, CallSafe(k),
         UNCHANGED <<at[k], on[k], todo[k], said[k], clean[k]>>, released \subseteq released',
         on[k] \in released => HasHandle(on[k])
  PROVE  CallSafe(k)'
<1>1. on[k] \in Runs /\ on'[k] = on[k]
  BY DEF TypeOK
<1>2. CASE HasHandle(on[k])
  BY <1>1, <1>2, HandleStable DEF CallSafe, Listed
<1>3. CASE ~HasHandle(on[k])
  BY <1>1, <1>3 DEF CallSafe
<1>. QED BY <1>2, <1>3

\* A step of a caller keeps what holds of its call.
LEMMA CallStepSafe ==
  ASSUME TypeOK, \A q \in Runs : RunSafe(q), [Next]_vars,
         NEW k \in Callers, CallSafe(k), CallStep(k)
  PROVE  CallSafe(k)'
<1> DEFINE r == on[k]
<1>0. /\ r \in Runs /\ at[k] # "idle" /\ HasHandle(r) /\ said[k] = "none"
      /\ on' = on /\ UNCHANGED run
  BY CallStepFrame DEF CallSafe, TypeOK
<1>1. /\ HasHandle(r)' /\ cleanups'[r] = cleanups[r] /\ req'[r] = req[r]
      /\ container[r] = "gone" => container'[r] = "gone"
      /\ network[r] # "exists" => network'[r] # "exists"
      /\ image[r] # "exists" => image'[r] # "exists"
  BY <1>0, HandleStable
<1>2. CASE StartCommand(k) \/ StopCommand(k) \/ StoreRunning(k) \/ TerminateStop(k)
  <2>1. at'[k] \in CallLabels \ {"termClean"} /\ said'[k] = "none"
    BY <1>0, <1>2 DEF StartCommand, StopCommand, StoreRunning, TerminateStop, Goto, TypeOK, CallLabels
  <2>. QED BY <1>0, <1>1, <2>1 DEF CallSafe
<1>3. CASE TerminateDelete(k)
  <2>1. PICK e \in Endings :
          /\ ContainerCommand(k, "gone", e)
          /\ clean' = [clean EXCEPT ![k] = @ /\ e # "fail"]
          /\ IF e = "ok" \/ IsNotFound(e)
             THEN /\ Goto(k, "termClean")
                  /\ todo' = [todo EXCEPT ![k] = cleanups[on[k]]]
                  /\ UNCHANGED said
             ELSE /\ Goto(k, "idle")
                  /\ said' = [said EXCEPT ![k] = "err"]
                  /\ UNCHANGED todo
    BY <1>3 DEF TerminateDelete
  <2>2. CASE e = "ok" \/ e = "absent"
    <3>1. /\ at' = [at EXCEPT ![k] = "termClean"]
          /\ todo' = [todo EXCEPT ![k] = cleanups[r]]
          /\ said' = said
      BY <2>1, <2>2 DEF IsNotFound, Goto
    <3>2. at'[k] = "termClean" /\ todo'[k] = cleanups[r] /\ said'[k] = "none"
      BY <1>0, <3>1 DEF TypeOK
    <3>3. container'[r] = "gone"
      <4>1. CASE e = "ok"
        BY <2>1, <4>1, ContainerCommandEffect
      <4>2. CASE e = "absent"
        <5>1. ~Present(container[r]) /\ container'[r] = container[r]
          BY <2>1, <4>2, ContainerCommandEffect
        <5>2. container[r] # "none"
          BY <1>0 DEF HasHandle, RunSafe, BeforeCreate
        <5>. QED BY <1>0, <5>1, <5>2 DEF Present, TypeOK, ContainerStates
      <4>. QED BY <2>2, <4>1, <4>2
    <3>4. /\ network'[r] = "exists" => Registered(r, "network")
          /\ image'[r] = "exists" => req[r].keep \/ Registered(r, "image")
      BY <1>0, <1>1 DEF RunSafe, HasHandle
    <3>. QED BY <1>0, <1>1, <3>2, <3>3, <3>4 DEF CallSafe, Listed, Registered
  <2>3. CASE e = "fail"
    <3>1. /\ at' = [at EXCEPT ![k] = "idle"]
          /\ said' = [said EXCEPT ![k] = "err"]
      BY <2>1, <2>3 DEF IsNotFound, Goto
    <3>2. at'[k] = "idle" /\ said'[k] = "err" /\ ~clean'[k]
      BY <2>1, <2>3, <3>1 DEF TypeOK
    <3>. QED BY <1>0, <3>2 DEF CallSafe
  <2>. QED BY <2>1, <2>2, <2>3 DEF Endings
<1>4. CASE TerminateCleanup(k)
  <2>1. /\ at[k] = "termClean" /\ todo[k] # <<>> /\ at' = at /\ said' = said
        /\ todo' = [todo EXCEPT ![k] = Tail(@)]
    BY <1>4 DEF TerminateCleanup
  <2>2. todo[k] \in Seq({"network", "image"}) /\ todo'[k] = Tail(todo[k])
    BY <2>1 DEF TypeOK
  <2>3. ASSUME NEW object PROVE Listed(k, object) => object = Head(todo[k]) \/ Listed(k, object)'
    <3>1. /\ Len(todo[k]) \in Nat /\ DOMAIN todo[k] = 1 .. Len(todo[k])
          /\ Head(todo[k]) = todo[k][1]
          /\ DOMAIN todo'[k] = 1 .. (Len(todo[k]) - 1)
          /\ \A i \in 1 .. (Len(todo[k]) - 1) : todo'[k][i] = todo[k][i + 1]
      <4> DEFINE S == {"network", "image"}
                 q == todo[k]
      <4>1. q \in Seq(S) /\ q # <<>>
        BY <2>1, <2>2
      <4>2. /\ Len(q) \in Nat /\ DOMAIN q = 1 .. Len(q)
            /\ Head(q) = q[1]
            /\ Tail(q) \in Seq(S) /\ Len(Tail(q)) = Len(q) - 1
            /\ \A i \in 1 .. Len(Tail(q)) : Tail(q)[i] = q[i + 1]
        <5>. HIDE DEF q, S
        <5>. QED BY <4>1, HeadTailProperties, LenProperties
      <4>3. DOMAIN Tail(q) = 1 .. Len(Tail(q))
        <5>. HIDE DEF q, S
        <5>. QED BY <4>2, LenProperties
      <4>. QED BY <2>2, <4>2, <4>3
    <3>2. ASSUME NEW i \in DOMAIN todo[k], todo[k][i] = object, i # 1 PROVE Listed(k, object)'
      <4>1. i - 1 \in 1 .. (Len(todo[k]) - 1) /\ todo[k][(i - 1) + 1] = object
        BY <3>1, <3>2
      <4>2. i - 1 \in DOMAIN todo'[k] /\ todo'[k][i - 1] = object
        BY <3>1, <4>1
      <4>. QED BY <4>2 DEF Listed
    <3>. QED BY <3>1, <3>2 DEF Listed
  <2>4. /\ clean'[k] => clean[k]
        /\ clean'[k] /\ Head(todo[k]) = "network" => network'[r] # "exists"
        /\ clean'[k] /\ Head(todo[k]) = "image" => image'[r] # "exists"
    BY <1>4, CleanupEffect
  <2>. QED BY <1>0, <1>1, <2>1, <2>3, <2>4 DEF CallSafe
<1>5. CASE TerminateReturn(k)
  <2>1. /\ at[k] = "termClean" /\ todo[k] = <<>> /\ clean' = clean /\ UNCHANGED daemon
        /\ at' = [at EXCEPT ![k] = "idle"] /\ said' = [said EXCEPT ![k] = "nil"]
        /\ released' = released \cup {r}
    BY <1>5 DEF TerminateReturn, Goto
  <2>2. at'[k] = "idle" /\ said'[k] = "nil" /\ r \in released'
    BY <2>1 DEF TypeOK
  <2>3. \A object : ~Listed(k, object)
    BY <2>1 DEF Listed
  <2>. QED BY <1>0, <1>1, <2>1, <2>2, <2>3 DEF CallSafe, daemon
<1>. QED BY <1>2, <1>3, <1>4, <1>5 DEF CallStep

\* A call begins with nothing said, deleted or left to remove.
LEMMA BeginSafe ==
  ASSUME TypeOK, NEW k \in Callers, NEW r \in Runs,
         BeginStart(k, r) \/ BeginStop(k, r) \/ BeginTerminate(k, r)
  PROVE  CallSafe(k)'
<1>1. PICK label \in {"start", "stop", "termStop"} : Enter(k, r, label)
  BY DEF BeginStart, BeginStop, BeginTerminate
<1>2. /\ HasHandle(r) /\ at'[k] = label /\ on'[k] = r /\ said'[k] = "none"
  BY <1>1 DEF Enter, TypeOK
<1>3. ret' = ret
  BY DEF BeginStart, BeginStop, BeginTerminate, run
<1>. QED BY <1>2, <1>3 DEF CallSafe, HasHandle

\* Only its own actions change what a caller keeps.
LEMMA CallerFrame ==
  ASSUME TypeOK, [Next]_vars, NEW k \in Callers
  PROVE  \/ UNCHANGED <<at[k], on[k], todo[k], said[k], clean[k]>>
         \/ CallStep(k)
         \/ \E r \in Runs : BeginStart(k, r) \/ BeginStop(k, r) \/ BeginTerminate(k, r)
<1>1. ASSUME NEW r \in Runs, RunStep(r) \/ Environment(r) \/ FollowerEnds(r) PROVE UNCHANGED caller
  <2>1. CASE RunStep(r)
    BY <2>1, RunStepFrame
  <2>2. CASE Environment(r) \/ FollowerEnds(r)
    BY <2>2 DEF Environment, Expire, ProcessExit, AutoRemove, StreamJams, FollowerEnds
  <2>. QED BY <1>1, <2>1, <2>2
<1>2. ASSUME NEW j \in Callers, j # k, CallStep(j)
      PROVE  UNCHANGED <<at[k], on[k], todo[k], said[k], clean[k]>>
  BY <1>2, CallStepFrame
<1>3. ASSUME NEW j \in Callers, j # k, NEW r \in Runs,
             BeginStart(j, r) \/ BeginStop(j, r) \/ BeginTerminate(j, r)
      PROVE  UNCHANGED <<at[k], on[k], todo[k], said[k], clean[k]>>
  <2>1. PICK label \in {"start", "stop", "termStop"} : Enter(j, r, label)
    BY <1>3 DEF BeginStart, BeginStop, BeginTerminate
  <2>2. todo' = todo
    BY <1>3 DEF BeginStart, BeginStop, BeginTerminate
  <2>. QED BY <1>3, <2>1, <2>2 DEF Enter, TypeOK
<1>. QED BY <1>1, <1>2, <1>3 DEF Next, vars, caller

\* Only a Terminate that has finished its cleanups releases its run.
LEMMA ReleasedGrows ==
  ASSUME TypeOK, [Next]_vars
  PROVE  /\ released \subseteq released'
         /\ \A r \in released' \ released :
              \E k \in Callers : at[k] = "termClean" /\ on[k] = r /\ UNCHANGED daemon
<1>1. ASSUME NEW r \in Runs, RunStep(r) \/ Environment(r) \/ FollowerEnds(r) PROVE released' = released
  <2>1. CASE RunStep(r)
    BY <2>1, RunStepFrame DEF caller
  <2>2. CASE Environment(r) \/ FollowerEnds(r)
    BY <2>2 DEF Environment, Expire, ProcessExit, AutoRemove, StreamJams, FollowerEnds, caller
  <2>. QED BY <1>1, <2>1, <2>2
<1>2. ASSUME NEW k \in Callers, NEW r \in Runs, BeginStart(k, r) \/ BeginStop(k, r) \/ BeginTerminate(k, r)
      PROVE  released' = released
  BY <1>2 DEF BeginStart, BeginStop, BeginTerminate
<1>3. ASSUME NEW k \in Callers, CallStep(k)
      PROVE  released' = released \/ (at[k] = "termClean" /\ released' = released \cup {on[k]} /\ UNCHANGED daemon)
  BY <1>3 DEF CallStep, StartCommand, StopCommand, StoreRunning, TerminateStop, TerminateDelete,
     TerminateCleanup, TerminateReturn
<1>. QED BY <1>1, <1>2, <1>3 DEF Next, vars, caller

\* The safety invariant, whatever the runs, the callers and the bounds.
THEOREM SafetyInvariant == Spec => []SafetyInv
<1>1. Init => SafetyInv
  <2>1. Init => TypeOK
    BY RequestsAssumption DEF Init, TypeOK, ContainerStates, ObjectStates, RunLabels, CallLabels
  <2>. QED BY <2>1 DEF Init, SafetyInv, RunSafe, ReleasedSafe, CallSafe, BeforeCreate, HasHandle
<1>2. SafetyInv /\ [Next]_vars => SafetyInv'
  <2> SUFFICES ASSUME SafetyInv, [Next]_vars PROVE SafetyInv'
    OBVIOUS
  <2>1. TypeOK /\ TypeOK'
    BY TypeStep DEF SafetyInv
  <2>2. /\ \A r \in Runs : RunSafe(r) /\ ReleasedSafe(r)
        /\ \A k \in Callers : CallSafe(k)
    BY DEF SafetyInv
  <2>3. ASSUME NEW r \in Runs PROVE RunSafe(r)'
    BY <2>1, <2>2, RunsStaySafe
  <2>4. released \subseteq released' /\ \A r \in released' \ released :
          \E k \in Callers : at[k] = "termClean" /\ on[k] = r /\ UNCHANGED daemon
    BY <2>1, ReleasedGrows
  <2>5. ASSUME NEW r \in Runs PROVE ReleasedSafe(r)'
    <3>1. CASE r \in released
      BY <2>1, <2>2, <3>1, HandleStable DEF ReleasedSafe
    <3>2. CASE r \in released' \ released
      <4>1. HasHandle(r) /\ container[r] = "gone"
        BY <2>2, <2>4, <3>2 DEF CallSafe
      <4>. QED BY <2>1, <2>2, <4>1, HandleStable DEF ReleasedSafe
    <3>. QED BY <3>1, <3>2 DEF ReleasedSafe
  <2>6. ASSUME NEW k \in Callers PROVE CallSafe(k)'
    <3>1. on[k] \in released => HasHandle(on[k])
      BY <2>1, <2>2 DEF ReleasedSafe, TypeOK
    <3>2. CASE UNCHANGED <<at[k], on[k], todo[k], said[k], clean[k]>>
      BY <2>1, <2>2, <2>4, <3>1, <3>2, OthersStaySafe
    <3>3. CASE CallStep(k)
      BY <2>1, <2>2, <3>3, CallStepSafe
    <3>4. CASE \E r \in Runs : BeginStart(k, r) \/ BeginStop(k, r) \/ BeginTerminate(k, r)
      BY <2>1, <3>4, BeginSafe
    <3>. QED BY <2>1, <3>2, <3>3, <3>4, CallerFrame
  <2>. QED BY <2>1, <2>3, <2>5, <2>6 DEF SafetyInv
<1>. QED BY <1>1, <1>2, PTL DEF Spec

-----------------------------------------------------------------------------
(* What follows from it.                                                   *)

\* Run makes networks and images and removes none.
LEMMA RunStepMakes ==
  ASSUME TypeOK, NEW q \in Runs, RunStep(q), NEW r \in Runs
  PROVE  /\ network'[r] = network[r] \/ network'[r] = "exists"
         /\ image'[r] = image[r] \/ image'[r] = "exists"
<1>1. CASE Customize(q)
  <2>1. network' = network \/ \E e \in Endings, s \in ObjectStates :
          /\ Command(FALSE, q, TRUE, network[q], "exists", e, s)
          /\ network' = [network EXCEPT ![q] = s]
    BY <1>1 DEF Customize
  <2>2. image' = image
    BY <1>1 DEF Customize
  <2>. QED BY <2>1, <2>2 DEF Command, TypeOK
<1>2. CASE Build(q)
  <2>1. image' = image \/ \E e \in Endings, s \in ObjectStates :
          /\ Command(FALSE, q, TRUE, image[q], "exists", e, s)
          /\ image' = [image EXCEPT ![q] = s]
    BY <1>2 DEF Build
  <2>2. network' = network
    BY <1>2 DEF Build
  <2>. QED BY <2>1, <2>2 DEF Command, TypeOK
<1>3. CASE ~Customize(q) /\ ~Build(q)
  BY <1>3 DEF RunStep, Validate, VersionCheck, CreateContainer, CopyFiles, StartContainer,
     MarkRunning, FollowLogs, WaitReady, daemon
<1>. QED BY <1>1, <1>2, <1>3

\* A container some Terminate has released, or is cleaning up after, is gone.
THEOREM ReleasedIsGone == Spec => []ReleasedMeansGone
<1>1. SafetyInv => ReleasedMeansGone
  BY DEF SafetyInv, ReleasedSafe, CallSafe, ReleasedMeansGone
<1>. QED BY <1>1, SafetyInvariant, PTL

\* Terminate is idempotent: it fails only if one of its commands does.
THEOREM TerminateIsIdempotent == Spec => []TerminateFailsOnlyOnFailure
<1>1. SafetyInv => TerminateFailsOnlyOnFailure
  BY DEF SafetyInv, CallSafe, TerminateFailsOnlyOnFailure
<1>. QED BY <1>1, SafetyInvariant, PTL

\* A Terminate without a failure leaves nothing of its run behind.
THEOREM NothingIsLeft == Spec => []CleanTerminateLeavesNothing
<1>1. SafetyInv => CleanTerminateLeavesNothing
  BY DEF SafetyInv, TypeOK, CallSafe, ReleasedSafe, CleanTerminateLeavesNothing
<1>. QED BY <1>1, SafetyInvariant, PTL

\* A container that was started can be reached: no Run that returned no handle has one.
THEOREM StartedIsReachable == Spec => []NoOrphanRuns
<1>1. SafetyInv => NoOrphanRuns
  BY DEF SafetyInv, RunSafe, NoOrphanRuns
<1>. QED BY <1>1, SafetyInvariant, PTL

\* A handle knows what its Run made.
THEOREM HandlesOwn == Spec => []HandleOwnsWhatRunMade
<1>1. SafetyInv => HandleOwnsWhatRunMade
  BY DEF SafetyInv, RunSafe, HasHandle, HandleOwnsWhatRunMade
<1>. QED BY <1>1, SafetyInvariant, PTL

\* Networks and images are removed only after the container.
THEOREM ContainersGoFirst == Spec => ContainerGoesFirst
<1> DEFINE Removes(r) == \/ network[r] = "exists" /\ network'[r] = "gone"
                         \/ image[r] = "exists" /\ image'[r] = "gone"
<1>1. SafetyInv /\ [Next]_vars => [\A r \in Runs : Removes(r) => container[r] = "gone"]_vars
  <2> SUFFICES ASSUME SafetyInv, [Next]_vars, NEW r \in Runs, Removes(r) PROVE container[r] = "gone"
    OBVIOUS
  <2>1. TypeOK /\ \A k \in Callers : CallSafe(k)
    BY DEF SafetyInv
  <2>2. ASSUME NEW q \in Runs, RunStep(q) PROVE FALSE
    BY <2>1, <2>2, RunStepMakes
  <2>3. ASSUME NEW q \in Runs, Environment(q) \/ FollowerEnds(q) PROVE FALSE
    BY <2>3 DEF Environment, Expire, ProcessExit, AutoRemove, StreamJams, FollowerEnds, daemon
  <2>4. ASSUME NEW k \in Callers, NEW q \in Runs, BeginStart(k, q) \/ BeginStop(k, q) \/ BeginTerminate(k, q)
        PROVE  FALSE
    BY <2>4 DEF BeginStart, BeginStop, BeginTerminate, daemon
  <2>5. ASSUME NEW k \in Callers, CallStep(k) PROVE container[r] = "gone"
    <3>1. CASE TerminateCleanup(k)
      <4>1. r = on[k]
        BY <2>1, <3>1, CleanupEffect
      <4>2. at[k] = "termClean"
        BY <3>1 DEF TerminateCleanup
      <4>. QED BY <2>1, <4>1, <4>2 DEF CallSafe
    <3>2. CASE StoreRunning(k) \/ TerminateReturn(k)
      BY <3>2 DEF StoreRunning, TerminateReturn, daemon
    <3>3. CASE StartCommand(k) \/ StopCommand(k) \/ TerminateStop(k) \/ TerminateDelete(k)
      <4>1. UNCHANGED <<network, image>>
        BY <3>3 DEF StartCommand, StopCommand, TerminateStop, TerminateDelete, ContainerCommand
      <4>. QED BY <4>1
    <3>. QED BY <2>5, <3>1, <3>2, <3>3 DEF CallStep
  <2>6. CASE UNCHANGED vars
    BY <2>6 DEF vars, daemon
  <2>. QED BY <2>2, <2>3, <2>4, <2>5, <2>6 DEF Next
<1>. QED BY <1>1, SafetyInvariant, PTL DEF Spec, ContainerGoesFirst

-----------------------------------------------------------------------------
(* Lifecycle implements Lease: what Run makes and what its handle removes  *)
(* keeps to the lease.                                                     *)

OwnerMap == [r \in Runs |-> Owner(r)]
UseMap == [r \in Runs |-> Use(container[r])]
KeepMap == [r \in Runs |-> req[r].keep]

-----------------------------------------------------------------------------
(* The invariant of the lists.                                             *)

\* What the lease rests on besides SafetyInv: nothing is there before its step of Run; an
\* image that is to be kept is on no list, and lists are worked off after the delete only.
BeforeBuild == {"customize", "validate", "version", "build"}

LeaseInv ==
  /\ \A r \in Runs : /\ pc[r] = "customize" => network[r] = "none"
                     /\ pc[r] \in BeforeBuild => image[r] = "none"
                     /\ req[r].keep => ~Registered(r, "image")
  /\ \A k \in Callers : /\ at[k] # "termClean" => todo[k] = <<>>
                        /\ req[on[k]].keep => ~Listed(k, "image")

\* Registering an object that is not an image, or nothing, registers no image.
LEMMA RegisterNoImage ==
  ASSUME TypeOK, NEW r \in Runs, NEW ok \in BOOLEAN, NEW object \in {"network", "image"},
         Register(r, ok, object), ok => object # "image", ~Registered(r, "image")
  PROVE  ~Registered(r, "image")'
<1>1. cleanups[r] \in Seq({"network", "image"})
  BY DEF TypeOK
<1>2. cleanups'[r] = IF ok THEN Append(cleanups[r], object) ELSE cleanups[r]
  BY DEF Register, TypeOK
<1>3. CASE ok
  <2>1. /\ DOMAIN cleanups'[r] = 1 .. (Len(cleanups[r]) + 1)
        /\ \A i \in 1 .. Len(cleanups[r]) : cleanups'[r][i] = cleanups[r][i]
        /\ cleanups'[r][Len(cleanups[r]) + 1] = object
        /\ DOMAIN cleanups[r] = 1 .. Len(cleanups[r])
        /\ Len(cleanups[r]) \in Nat
    BY <1>1, <1>2, <1>3
  <2>. QED BY <1>3, <2>1 DEF Registered
<1>4. CASE ~ok
  BY <1>2, <1>4 DEF Registered
<1>. QED BY <1>3, <1>4

\* A step of Run keeps the lists of kept images empty and fills the slots in order.
LEMMA RunStepLists ==
  ASSUME TypeOK, NEW r \in Runs, RunSafe(r), RunStep(r),
         pc[r] = "customize" => network[r] = "none",
         pc[r] \in BeforeBuild => image[r] = "none",
         req[r].keep => ~Registered(r, "image")
  PROVE  /\ pc'[r] = "customize" => network'[r] = "none"
         /\ pc'[r] \in BeforeBuild => image'[r] = "none"
         /\ req[r].keep => ~Registered(r, "image")'
<1>0. pc[r] # "returned" /\ pc[r] \in RunLabels
  BY RunStepFrame DEF TypeOK
<1>1. CASE Customize(r)
  <2>1. pc'[r] \in {"validate", "returned"} /\ image' = image /\ pc[r] = "customize"
    BY <1>1 DEF Customize, Advance, TypeOK
  <2>2. req[r].keep => ~Registered(r, "image")'
    <3>1. CASE \E e \in Endings : Register(r, e = "ok", "network")
      BY <3>1, RegisterNoImage
    <3>2. CASE cleanups' = cleanups
      BY <3>2 DEF Registered
    <3>. QED BY <1>1, <3>1, <3>2 DEF Customize
  <2>. QED BY <2>1, <2>2 DEF BeforeBuild
<1>2. CASE Build(r)
  <2>1. pc'[r] \in {"create", "returned"}
    BY <1>2 DEF Build, Advance, TypeOK
  <2>2. req[r].keep => ~Registered(r, "image")'
    <3>1. ASSUME req[r].keep, NEW e \in Endings, Register(r, e = "ok" /\ ~req[r].keep, "image")
          PROVE  ~Registered(r, "image")'
      <4>1. (e = "ok" /\ ~req[r].keep) = FALSE
        BY <3>1
      <4>2. Register(r, FALSE, "image")
        BY <3>1, <4>1
      <4>. QED BY <3>1, <4>2, RegisterNoImage
    <3>2. CASE cleanups' = cleanups
      BY <3>2 DEF Registered
    <3>. QED BY <1>2, <3>1, <3>2 DEF Build
  <2>. QED BY <2>1, <2>2 DEF BeforeBuild
<1>3. ASSUME UNCHANGED <<network, image, cleanups>>, pc'[r] # "customize",
             pc'[r] \in BeforeBuild => pc[r] \in BeforeBuild
      PROVE  /\ pc'[r] \in BeforeBuild => image'[r] = "none"
             /\ req[r].keep => ~Registered(r, "image")'
  BY <1>3 DEF Registered
<1>4. CASE Validate(r)
  <2>1. UNCHANGED <<network, image, cleanups>> /\ pc[r] = "validate"
    BY <1>4 DEF Validate, daemon
  <2>2. pc'[r] \in {"version", "returned"}
    BY <1>4 DEF Validate, Advance, TypeOK
  <2>. QED BY <1>3, <2>1, <2>2 DEF BeforeBuild
<1>5. CASE VersionCheck(r)
  <2>1. UNCHANGED <<network, image, cleanups>> /\ pc[r] = "version"
    BY <1>5 DEF VersionCheck, daemon
  <2>2. pc'[r] \in {"build", "returned"}
    BY <1>5 DEF VersionCheck, Advance, TypeOK
  <2>. QED BY <1>3, <2>1, <2>2 DEF BeforeBuild
<1>6. CASE CreateContainer(r)
  <2>1. UNCHANGED <<network, image, cleanups>>
    BY <1>6 DEF CreateContainer
  <2>2. pc'[r] \in {"copy", "returned"}
    BY <1>6 DEF CreateContainer, Advance, TypeOK
  <2>. QED BY <1>3, <2>1, <2>2 DEF BeforeBuild
<1>7. CASE CopyFiles(r)
  <2>1. UNCHANGED <<network, image, cleanups>>
    BY <1>7 DEF CopyFiles, daemon
  <2>2. pc'[r] \in {"start", "returned"}
    BY <1>7 DEF CopyFiles, Advance, TypeOK
  <2>. QED BY <1>3, <2>1, <2>2 DEF BeforeBuild
<1>8. CASE StartContainer(r)
  <2>1. UNCHANGED <<network, image, cleanups>>
    BY <1>8 DEF StartContainer
  <2>2. pc'[r] \in {"started", "returned"}
    BY <1>8 DEF StartContainer, Advance, TypeOK
  <2>. QED BY <1>3, <2>1, <2>2 DEF BeforeBuild
<1>9. CASE MarkRunning(r)
  <2>1. UNCHANGED <<network, image, cleanups>>
    BY <1>9 DEF MarkRunning, daemon
  <2>2. pc'[r] \in {"logs", "returned"}
    BY <1>9 DEF MarkRunning, Advance, TypeOK
  <2>. QED BY <1>3, <2>1, <2>2 DEF BeforeBuild
<1>10. CASE FollowLogs(r)
  <2>1. UNCHANGED <<network, image, cleanups>>
    BY <1>10 DEF FollowLogs, daemon
  <2>2. pc'[r] \in {"wait", "returned"}
    BY <1>10 DEF FollowLogs, Advance, TypeOK
  <2>. QED BY <1>3, <2>1, <2>2 DEF BeforeBuild
<1>11. CASE WaitReady(r)
  <2>1. UNCHANGED <<network, image, cleanups>>
    BY <1>11 DEF WaitReady, daemon
  <2>2. pc'[r] \in {"returned", "returned"}
    BY <1>11 DEF WaitReady, Return, Advance, TypeOK
  <2>. QED BY <1>3, <2>1, <2>2 DEF BeforeBuild
<1>. QED BY <1>1, <1>2, <1>4, <1>5, <1>6, <1>7, <1>8, <1>9, <1>10, <1>11 DEF RunStep

\* A step of a call works its list off, and takes a new one from its handle only.
LEMMA CallStepLists ==
  ASSUME TypeOK, NEW k \in Callers, CallStep(k),
         at[k] # "termClean" => todo[k] = <<>>,
         req[on[k]].keep => ~Listed(k, "image"),
         req[on[k]].keep => ~Registered(on[k], "image")
  PROVE  /\ at'[k] # "termClean" => todo'[k] = <<>>
         /\ req[on[k]].keep => ~Listed(k, "image")'
<1>1. CASE TerminateDelete(k)
  <2>1. \/ todo'[k] = todo[k] /\ at'[k] = "idle" /\ at[k] = "termDelete"
        \/ todo'[k] = cleanups[on[k]] /\ at'[k] = "termClean"
    BY <1>1 DEF TerminateDelete, Goto, TypeOK
  <2>. QED BY <2>1 DEF Listed, Registered
<1>2. CASE TerminateCleanup(k)
  <2>1. todo[k] # <<>> /\ todo'[k] = Tail(todo[k]) /\ at' = at /\ at[k] = "termClean"
        /\ todo[k] \in Seq({"network", "image"})
    BY <1>2 DEF TerminateCleanup, TypeOK
  <2>2. \A i \in DOMAIN Tail(todo[k]) : /\ i + 1 \in DOMAIN todo[k]
                                       /\ Tail(todo[k])[i] = todo[k][i + 1]
    BY <2>1
  <2>. QED BY <2>1, <2>2 DEF Listed
<1>3. CASE TerminateReturn(k)
  BY <1>3 DEF TerminateReturn, Goto, TypeOK, Listed
<1>4. ASSUME todo' = todo, at[k] # "termClean", at'[k] # "termClean"
      PROVE  /\ at'[k] # "termClean" => todo'[k] = <<>>
             /\ req[on[k]].keep => ~Listed(k, "image")'
  BY <1>4 DEF Listed
<1>5. CASE StartCommand(k)
  BY <1>4, <1>5 DEF StartCommand, Goto, TypeOK
<1>6. CASE StopCommand(k)
  BY <1>4, <1>6 DEF StopCommand, Goto, TypeOK
<1>7. CASE StoreRunning(k)
  BY <1>4, <1>7 DEF StoreRunning, Goto, TypeOK
<1>8. CASE TerminateStop(k)
  BY <1>4, <1>8 DEF TerminateStop, Goto, TypeOK
<1>. QED BY <1>1, <1>2, <1>3, <1>5, <1>6, <1>7, <1>8 DEF CallStep

\* What holds of the lists holds throughout, as SafetyInv does.
LEMMA LeaseInvariant == Spec => []LeaseInv
<1>1. Init => LeaseInv
  BY DEF Init, LeaseInv, Registered, Listed
<1>2. SafetyInv /\ LeaseInv /\ [Next]_vars => LeaseInv'
  <2> SUFFICES ASSUME SafetyInv, LeaseInv, [Next]_vars PROVE LeaseInv'
    OBVIOUS
  <2>0. TypeOK /\ (\A r \in Runs : RunSafe(r)) /\ (\A k \in Callers : CallSafe(k))
    BY DEF SafetyInv
  <2>1. ASSUME NEW q \in Runs, RunStep(q) PROVE LeaseInv'
    <3>1. UNCHANGED <<req, at, on, todo>>
      BY <2>0, <2>1, RunStepFrame DEF caller
    <3>2. \A r \in Runs : r # q => /\ network'[r] = network[r] /\ image'[r] = image[r]
                                   /\ pc'[r] = pc[r] /\ cleanups'[r] = cleanups[r]
      BY <2>0, <2>1, RunStepFrame
    <3>3. /\ pc'[q] = "customize" => network'[q] = "none"
          /\ pc'[q] \in BeforeBuild => image'[q] = "none"
          /\ req[q].keep => ~Registered(q, "image")'
      BY <2>0, <2>1, RunStepLists DEF LeaseInv
    <3>. QED BY <3>1, <3>2, <3>3 DEF LeaseInv, Registered, Listed
  <2>2. ASSUME UNCHANGED <<network, image, run, todo, on>>,
               \A k \in Callers : at'[k] = at[k] \/ (at[k] # "termClean" /\ at'[k] # "termClean")
        PROVE  LeaseInv'
    BY <2>2 DEF LeaseInv, Registered, Listed, run
  <2>3. ASSUME NEW q \in Runs, Environment(q) \/ FollowerEnds(q) PROVE LeaseInv'
    <3>. UNCHANGED <<network, image, run, caller>>
      BY <2>3 DEF Environment, Expire, ProcessExit, AutoRemove, StreamJams, FollowerEnds, daemon
    <3>. QED BY <2>2 DEF caller
  <2>4. ASSUME NEW k \in Callers, NEW q \in Runs,
               BeginStart(k, q) \/ BeginStop(k, q) \/ BeginTerminate(k, q)
        PROVE  LeaseInv'
    <3>1. /\ UNCHANGED <<network, image, run, todo>> /\ at[k] = "idle"
          /\ \A j \in Callers : j # k => at'[j] = at[j] /\ on'[j] = on[j]
          /\ at'[k] # "termClean"
      BY <2>0, <2>4 DEF BeginStart, BeginStop, BeginTerminate, Enter, daemon, TypeOK
    <3>2. todo[k] = <<>>
      BY <3>1 DEF LeaseInv
    <3>. QED BY <3>1, <3>2 DEF LeaseInv, Registered, Listed, run
  <2>5. ASSUME NEW k \in Callers, CallStep(k) PROVE LeaseInv'
    <3>1. /\ UNCHANGED <<run, on>> /\ at[k] # "idle"
          /\ \A j \in Callers : j # k => at'[j] = at[j] /\ todo'[j] = todo[j]
          /\ \A r \in Runs : r # on[k] => network'[r] = network[r] /\ image'[r] = image[r]
      BY <2>0, <2>5, CallStepFrame
    <3>2. on[k] \in Runs /\ pc[on[k]] = "returned"
      <4>1. on[k] \in Runs /\ CallSafe(k)
        BY <2>0 DEF TypeOK
      <4>2. HasHandle(on[k]) /\ RunSafe(on[k])
        BY <2>0, <3>1, <4>1 DEF CallSafe
      <4>. QED BY <4>1, <4>2 DEF RunSafe, HasHandle
    <3>3. /\ at'[k] # "termClean" => todo'[k] = <<>>
          /\ req[on[k]].keep => ~Listed(k, "image")'
      BY <2>0, <2>5, <3>2, CallStepLists DEF LeaseInv
    <3>. QED BY <3>1, <3>2, <3>3 DEF LeaseInv, Registered, Listed, run, BeforeBuild
  <2>6. CASE UNCHANGED vars
    BY <2>2, <2>6 DEF vars, daemon, caller
  <2>. QED BY <2>1, <2>3, <2>4, <2>5, <2>6 DEF Next
<1>. QED BY <1>1, <1>2, SafetyInvariant, PTL DEF Spec

-----------------------------------------------------------------------------
(* The refinement.                                                         *)

\* A step that concerns one run is, mapped, an update at that run.
LEMMA MapStep ==
  ASSUME NEW r \in Runs, UNCHANGED req,
         \A q \in Runs : q # r => ret'[q] = ret[q] /\ container'[q] = container[q]
  PROVE  /\ OwnerMap' = [OwnerMap EXCEPT ![r] = Owner(r)']
         /\ UseMap' = [UseMap EXCEPT ![r] = Use(container'[r])]
         /\ KeepMap' = KeepMap
<1>1. \A q \in Runs : q # r => Owner(q)' = Owner(q)
  BY DEF Owner
<1>. QED BY <1>1 DEF OwnerMap, UseMap, KeepMap

\* A step that changes nothing the lease speaks of.
LEMMA MapStutter ==
  ASSUME UNCHANGED <<req, ret, network, image>>,
         \A q \in Runs : Use(container'[q]) = Use(container[q])
  PROVE  UNCHANGED Promise!vars
BY DEF Promise!vars, Owner

\* A step of Run makes one thing, starts the container, or leaves the daemon alone.
LEMMA RunStepOutcome ==
  ASSUME TypeOK, NEW q \in Runs, RunSafe(q), LeaseInv, RunStep(q)
  PROVE  \/ UNCHANGED daemon
         \/ /\ network[q] = "none" /\ network' = [network EXCEPT ![q] = "exists"]
            /\ UNCHANGED <<container, image>> /\ ret'[q] \in {"none", "nil"}
         \/ /\ image[q] = "none" /\ image' = [image EXCEPT ![q] = "exists"]
            /\ UNCHANGED <<container, network>> /\ ret'[q] \in {"none", "nil"}
         \/ /\ container[q] = "none" /\ container' = [container EXCEPT ![q] = "created"]
            /\ UNCHANGED <<network, image>> /\ ret'[q] \in {"none", "nil"}
         \/ /\ Present(container[q]) /\ container' = [container EXCEPT ![q] = "running"]
            /\ UNCHANGED <<network, image>> /\ ret'[q] \in {"none", "err"}
<1>0. ret[q] = "none"
  BY RunStepFrame DEF RunSafe
<1>1. CASE Customize(q)
  <2>1. CASE UNCHANGED network
    BY <1>1, <2>1 DEF Customize, daemon
  <2>2. CASE \E e \in Endings, s \in ObjectStates :
               /\ Command(FALSE, q, TRUE, network[q], "exists", e, s)
               /\ network' = [network EXCEPT ![q] = s]
               /\ Advance(q, e = "ok", "validate", "nil")
    <3>1. PICK e \in Endings, s \in ObjectStates :
               /\ Command(FALSE, q, TRUE, network[q], "exists", e, s)
               /\ network' = [network EXCEPT ![q] = s]
               /\ Advance(q, e = "ok", "validate", "nil")
      BY <2>2
    <3>2. s = network[q] \/ s = "exists"
      BY <3>1 DEF Command
    <3>3. network[q] = "none" /\ UNCHANGED <<container, image>>
      BY <1>1 DEF Customize, LeaseInv
    <3>4. ret'[q] \in {"none", "nil"}
      BY <1>0, <3>1 DEF Advance, TypeOK
    <3>5. CASE s = network[q]
      BY <3>1, <3>3, <3>5 DEF TypeOK, daemon
    <3>6. CASE s = "exists"
      BY <3>1, <3>3, <3>4, <3>6
    <3>. QED BY <3>2, <3>5, <3>6
  <2>. QED BY <1>1, <2>1, <2>2 DEF Customize
<1>2. CASE Build(q)
  <2>1. CASE UNCHANGED image
    BY <1>2, <2>1 DEF Build, daemon
  <2>2. CASE \E e \in Endings, s \in ObjectStates :
               /\ Command(FALSE, q, TRUE, image[q], "exists", e, s)
               /\ image' = [image EXCEPT ![q] = s]
               /\ Advance(q, e = "ok", "create", "nil")
    <3>1. PICK e \in Endings, s \in ObjectStates :
               /\ Command(FALSE, q, TRUE, image[q], "exists", e, s)
               /\ image' = [image EXCEPT ![q] = s]
               /\ Advance(q, e = "ok", "create", "nil")
      BY <2>2
    <3>2. s = image[q] \/ s = "exists"
      BY <3>1 DEF Command
    <3>3. image[q] = "none" /\ UNCHANGED <<container, network>>
      BY <1>2 DEF Build, LeaseInv, BeforeBuild
    <3>4. ret'[q] \in {"none", "nil"}
      BY <1>0, <3>1 DEF Advance, TypeOK
    <3>5. CASE s = image[q]
      BY <3>1, <3>3, <3>5 DEF TypeOK, daemon
    <3>6. CASE s = "exists"
      BY <3>1, <3>3, <3>4, <3>6
    <3>. QED BY <3>2, <3>5, <3>6
  <2>. QED BY <1>2, <2>1, <2>2 DEF Build
<1>3. CASE CreateContainer(q)
  <2>1. PICK e \in Endings, s \in ContainerStates :
          /\ Command(FALSE, q, TRUE, container[q], "created", e, s)
          /\ container' = [container EXCEPT ![q] = s]
          /\ Advance(q, e = "ok", "copy", "nil")
    BY <1>3 DEF CreateContainer
  <2>2. s = container[q] \/ s = "created"
    BY <2>1 DEF Command
  <2>3. container[q] = "none" /\ UNCHANGED <<network, image>>
    BY <1>3 DEF CreateContainer, RunSafe, BeforeCreate
  <2>4. ret'[q] \in {"none", "nil"}
    BY <1>0, <2>1 DEF Advance, TypeOK
  <2>5. CASE s = container[q]
    BY <2>1, <2>3, <2>5 DEF TypeOK, daemon
  <2>6. CASE s = "created"
    BY <2>1, <2>3, <2>4, <2>6
  <2>. QED BY <2>2, <2>5, <2>6
<1>4. CASE StartContainer(q)
  <2>1. PICK e \in Endings, s \in ContainerStates :
          /\ Command(FALSE, q, Present(container[q]), container[q], "running", e, s)
          /\ container' = [container EXCEPT ![q] = s]
          /\ Advance(q, e = "ok", "started", "err")
    BY <1>4 DEF StartContainer
  <2>2. s = container[q] \/ (Present(container[q]) /\ s = "running")
    <3>1. CASE Present(container[q])
      BY <2>1, <3>1 DEF Command
    <3>2. CASE ~Present(container[q])
      BY <2>1, <3>2 DEF Command
    <3>. QED BY <3>1, <3>2
  <2>3. UNCHANGED <<network, image>>
    BY <1>4 DEF StartContainer
  <2>4. ret'[q] \in {"none", "err"}
    BY <1>0, <2>1 DEF Advance, TypeOK
  <2>5. CASE s = container[q]
    BY <2>1, <2>3, <2>5 DEF TypeOK, daemon
  <2>6. CASE Present(container[q]) /\ s = "running"
    BY <2>1, <2>3, <2>4, <2>6
  <2>. QED BY <2>2, <2>5, <2>6
<1>5. CASE ~(Customize(q) \/ Build(q) \/ CreateContainer(q) \/ StartContainer(q))
  BY <1>5 DEF RunStep, Validate, VersionCheck, CopyFiles, MarkRunning, FollowLogs, WaitReady
<1>. QED BY <1>1, <1>2, <1>3, <1>4, <1>5

\* A step of Run is a step of the lease.
LEMMA RunStepLeases ==
  ASSUME TypeOK, NEW q \in Runs, RunSafe(q), LeaseInv, RunStep(q)
  PROVE  Promise!Next \/ UNCHANGED Promise!vars
<1>1. /\ UNCHANGED req
      /\ \A p \in Runs : p # q => ret'[p] = ret[p] /\ container'[p] = container[p]
      /\ ret[q] = "none" /\ RunSafe(q)'
  BY RunStepFrame, RunStepSafe DEF RunSafe
<1>2. /\ OwnerMap' = [OwnerMap EXCEPT ![q] = Owner(q)']
      /\ UseMap' = [UseMap EXCEPT ![q] = Use(container'[q])]
      /\ KeepMap' = KeepMap
  BY <1>1, MapStep
<1>3. /\ OwnerMap[q] = "run" /\ UseMap[q] = Use(container[q])
      /\ ret'[q] = "none" => Owner(q)' = "run"
      /\ ret'[q] = "nil" => Owner(q)' = "nobody"
      /\ ret'[q] \in {"err", "ok"} => Owner(q)' = "handle"
      /\ ret'[q] \in {"none", "nil", "err", "ok"}
  <2>1. ret'[q] \in {"none", "nil", "err", "ok"}
    BY TypeStep DEF Next, TypeOK
  <2>. QED BY <1>1, <2>1 DEF OwnerMap, UseMap, Owner
<1>4. CASE UNCHANGED daemon
  <2>1. UNCHANGED <<container, network, image>>
    BY <1>4 DEF daemon
  <2>2. CASE ret'[q] = "none"
    <3>1. UNCHANGED ret
      BY <1>1, <2>2, TypeStep DEF TypeOK, Next
    <3>. QED BY <1>1, <2>1, <3>1, MapStutter
  <2>3. CASE ret'[q] = "nil"
    <3>1. UseMap[q] \in {"none", "idle"}
      BY <1>1, <1>3, <2>1, <2>3 DEF RunSafe, Use
    <3>2. UseMap' = UseMap
      BY <2>1 DEF UseMap
    <3>3. Promise!Abandon(q)
      BY <1>2, <1>3, <2>1, <2>3, <3>1, <3>2 DEF Promise!Abandon, Promise!Pass, OwnerMap, UseMap, KeepMap
    <3>. QED BY <3>3 DEF Promise!Next
  <2>4. CASE ret'[q] \in {"err", "ok"}
    <3>1. UseMap[q] # "none"
      BY <1>1, <1>3, <2>1, <2>4 DEF RunSafe, Use, BeforeCreate
    <3>2. UseMap' = UseMap
      BY <2>1 DEF UseMap
    <3>3. Promise!HandOver(q)
      BY <1>2, <1>3, <2>1, <2>4, <3>1, <3>2 DEF Promise!HandOver, Promise!Pass, OwnerMap, UseMap, KeepMap
    <3>. QED BY <3>3 DEF Promise!Next
  <2>. QED BY <1>3, <2>2, <2>3, <2>4
<1>5. CASE \/ /\ network[q] = "none" /\ network' = [network EXCEPT ![q] = "exists"]
              /\ UNCHANGED <<container, image>> /\ ret'[q] \in {"none", "nil"}
           \/ /\ image[q] = "none" /\ image' = [image EXCEPT ![q] = "exists"]
              /\ UNCHANGED <<container, network>> /\ ret'[q] \in {"none", "nil"}
  <2>1. UseMap' = UseMap
    BY <1>5 DEF UseMap
  <2>2. Promise!Pass(q, "run") \/ Promise!Pass(q, "nobody")
    BY <1>2, <1>3, <1>5 DEF Promise!Pass, OwnerMap
  <2>3. Promise!Make(q)
    BY <1>2, <1>3, <1>5, <2>1, <2>2 DEF Promise!Make, OwnerMap, UseMap, KeepMap
  <2>. QED BY <2>3 DEF Promise!Next
<1>6. CASE /\ container[q] = "none" /\ container' = [container EXCEPT ![q] = "created"]
           /\ UNCHANGED <<network, image>> /\ ret'[q] \in {"none", "nil"}
  <2>1. UseMap[q] = "none" /\ Use(container'[q]) = "idle"
    BY <1>3, <1>6 DEF Use, TypeOK
  <2>2. Promise!Pass(q, "run") \/ Promise!Pass(q, "nobody")
    BY <1>2, <1>3, <1>6 DEF Promise!Pass, OwnerMap
  <2>3. Promise!Make(q)
    BY <1>2, <1>3, <1>6, <2>1, <2>2 DEF Promise!Make, OwnerMap, UseMap, KeepMap
  <2>. QED BY <2>3 DEF Promise!Next
<1>7. CASE /\ Present(container[q]) /\ container' = [container EXCEPT ![q] = "running"]
           /\ UNCHANGED <<network, image>> /\ ret'[q] \in {"none", "err"}
  <2>1. Use(container'[q]) = "started" /\ UseMap[q] \in {"idle", "started"}
    BY <1>3, <1>7 DEF Use, TypeOK, Present, ContainerStates
  <2>2. CASE UseMap[q] = "idle"
    <3>1. Promise!Pass(q, "run") \/ Promise!Pass(q, "handle")
      BY <1>2, <1>3, <1>7 DEF Promise!Pass, OwnerMap
    <3>2. Promise!Start(q)
      BY <1>2, <1>3, <1>7, <2>1, <2>2, <3>1 DEF Promise!Start, OwnerMap, UseMap, KeepMap
    <3>. QED BY <3>2 DEF Promise!Next
  <2>3. CASE UseMap[q] = "started"
    <3>1. UseMap' = UseMap
      BY <1>2, <2>1, <2>3 DEF UseMap
    <3>2. CASE ret'[q] = "none"
      <4>1. OwnerMap' = OwnerMap
        BY <1>2, <1>3, <3>2 DEF OwnerMap
      <4>. QED BY <1>2, <1>7, <3>1, <4>1 DEF Promise!vars, OwnerMap, UseMap, KeepMap
    <3>3. CASE ret'[q] = "err"
      <4>1. Promise!HandOver(q)
        BY <1>2, <1>3, <1>7, <2>3, <3>1, <3>3 DEF Promise!HandOver, Promise!Pass, OwnerMap, UseMap, KeepMap
      <4>. QED BY <4>1 DEF Promise!Next
    <3>. QED BY <1>7, <3>2, <3>3
  <2>. QED BY <2>1, <2>2, <2>3
<1>. QED BY <1>4, <1>5, <1>6, <1>7, RunStepOutcome

\* What changes the container of one run only, by starting or removing it, is a step of
\* the lease, if a handle is there to start it or to remove what was not started.
LEMMA ContainerLeases ==
  ASSUME TypeOK, NEW r \in Runs, NEW s \in ContainerStates,
         UNCHANGED <<req, ret, network, image>>, container' = [container EXCEPT ![r] = s],
         \/ Use(s) = Use(container[r])
         \/ container[r] = "created" /\ s = "running" /\ HasHandle(r)
         \/ container[r] \in {"running", "stopped"} /\ s = "gone"
         \/ container[r] = "created" /\ s = "gone" /\ HasHandle(r)
  PROVE  Promise!Next \/ UNCHANGED Promise!vars
<1>1. /\ OwnerMap' = [OwnerMap EXCEPT ![r] = Owner(r)']
      /\ UseMap' = [UseMap EXCEPT ![r] = Use(container'[r])]
      /\ KeepMap' = KeepMap
  BY MapStep DEF TypeOK
<1>2. /\ container'[r] = s /\ UseMap[r] = Use(container[r]) /\ OwnerMap' = OwnerMap
      /\ HasHandle(r) => OwnerMap[r] = "handle"
  BY DEF TypeOK, UseMap, OwnerMap, Owner, HasHandle
<1>3. CASE Use(s) = Use(container[r])
  <2>1. \A q \in Runs : Use(container'[q]) = Use(container[q])
    BY <1>3 DEF TypeOK
  <2>. QED BY <2>1, MapStutter
<1>4. CASE container[r] = "created" /\ s = "running" /\ HasHandle(r)
  <2>1. Promise!Start(r)
    BY <1>1, <1>2, <1>4 DEF Promise!Start, OwnerMap, UseMap, KeepMap, Use
  <2>. QED BY <2>1 DEF Promise!Next
<1>5. CASE \/ container[r] \in {"running", "stopped"} /\ s = "gone"
           \/ container[r] = "created" /\ s = "gone" /\ HasHandle(r)
  <2>1. \/ UseMap[r] = "started"
        \/ UseMap[r] = "idle" /\ OwnerMap[r] = "handle"
    BY <1>2, <1>5 DEF Use
  <2>2. UseMap' = [UseMap EXCEPT ![r] = "gone"]
    BY <1>1, <1>2, <1>5 DEF Use
  <2>3. Promise!RemoveContainer(r)
    BY <1>1, <1>2, <2>1, <2>2 DEF Promise!RemoveContainer, OwnerMap, UseMap, KeepMap
  <2>. QED BY <2>3 DEF Promise!Next
<1>. QED BY <1>3, <1>4, <1>5

\* A command on the container of a handle.
LEMMA CommandLeases ==
  ASSUME TypeOK, NEW k \in Callers, NEW new \in ContainerStates, NEW e, ContainerCommand(k, new, e),
         HasHandle(on[k]), UNCHANGED <<req, ret>>,
         Use(new) = Use(container[on[k]]) \/ new \in {"running", "gone"}
  PROVE  Promise!Next \/ UNCHANGED Promise!vars
<1> DEFINE r == on[k]
           s == container'[r]
<1>1. /\ r \in Runs /\ UNCHANGED <<network, image>>
      /\ s = container[r] \/ (Present(container[r]) /\ s = new)
      /\ s \in ContainerStates /\ container' = [container EXCEPT ![r] = s]
  BY ContainerCommandEffect DEF TypeOK
<1>2. \/ Use(s) = Use(container[r])
      \/ container[r] = "created" /\ s = "running" /\ HasHandle(r)
      \/ container[r] \in {"running", "stopped"} /\ s = "gone"
      \/ container[r] = "created" /\ s = "gone" /\ HasHandle(r)
  <2>1. container[r] \in ContainerStates
    BY <1>1 DEF TypeOK
  <2>. QED BY <1>1, <2>1 DEF Present, Use, ContainerStates
<1>. QED BY <1>1, <1>2, ContainerLeases

\* A cleanup removes what it is listed for, once the container is gone.
LEMMA CleanupLeases ==
  ASSUME TypeOK, LeaseInv, NEW k \in Callers, CallSafe(k), TerminateCleanup(k)
  PROVE  Promise!Next \/ UNCHANGED Promise!vars
<1> DEFINE r == on[k]
<1>1. /\ r \in Runs /\ OwnerMap[r] = "handle" /\ UseMap[r] = "gone" /\ KeepMap[r] = req[r].keep
  BY DEF TypeOK, CallSafe, TerminateCleanup, OwnerMap, Owner, HasHandle, UseMap, Use, KeepMap
<1>2. UNCHANGED <<container, req, ret>> /\ OwnerMap' = OwnerMap /\ UseMap' = UseMap /\ KeepMap' = KeepMap
  BY DEF TerminateCleanup, run, OwnerMap, Owner, UseMap, KeepMap
<1>3. PICK s \in ObjectStates, e \in Endings :
        \/ /\ Head(todo[k]) = "network"
           /\ Command(k \in Background, r, Present(network[r]), network[r], "gone", e, s)
           /\ network' = [network EXCEPT ![r] = s] /\ UNCHANGED image
        \/ /\ Head(todo[k]) = "image"
           /\ Command(k \in Background, r, Present(image[r]), image[r], "gone", e, s)
           /\ image' = [image EXCEPT ![r] = s] /\ UNCHANGED network
  BY DEF TerminateCleanup
<1>4. ASSUME NEW x \in ObjectStates, Command(k \in Background, r, Present(x), x, "gone", e, s)
      PROVE  s = x \/ (x = "exists" /\ s = "gone")
  <2>1. CASE Present(x)
    BY <1>4, <2>1 DEF Command, Present, ObjectStates
  <2>2. CASE ~Present(x)
    BY <1>4, <2>2 DEF Command
  <2>. QED BY <2>1, <2>2
<1>5. network[r] \in ObjectStates /\ image[r] \in ObjectStates
  BY <1>1 DEF TypeOK
<1>6. CASE UNCHANGED <<network, image>>
  BY <1>2, <1>6, MapStutter
<1>7. CASE network[r] = "exists" /\ network' = [network EXCEPT ![r] = "gone"] /\ UNCHANGED image
  <2>1. Promise!RemoveUsed(r)
    BY <1>1, <1>2, <1>7 DEF Promise!RemoveUsed, OwnerMap, UseMap, KeepMap
  <2>. QED BY <1>1, <2>1 DEF Promise!Next
<1>8. CASE /\ image[r] = "exists" /\ image' = [image EXCEPT ![r] = "gone"] /\ UNCHANGED network
           /\ Head(todo[k]) = "image"
  <2>1. ~req[r].keep
    <3>1. todo[k] \in Seq({"network", "image"}) /\ todo[k] # <<>>
      BY DEF TypeOK, TerminateCleanup
    <3>2. 1 \in DOMAIN todo[k] /\ todo[k][1] = "image"
      BY <1>8, <3>1
    <3>. QED BY <3>2 DEF LeaseInv, Listed
  <2>2. Promise!RemoveUsed(r)
    BY <1>1, <1>2, <1>8, <2>1 DEF Promise!RemoveUsed, OwnerMap, UseMap, KeepMap
  <2>. QED BY <1>1, <2>2 DEF Promise!Next
<1>9. CASE Head(todo[k]) = "network" /\ network' = [network EXCEPT ![r] = s] /\ UNCHANGED image
  <2>1. s = network[r] \/ (network[r] = "exists" /\ s = "gone")
    BY <1>3, <1>4, <1>5, <1>9
  <2>2. s = network[r] => UNCHANGED network
    BY <1>9 DEF TypeOK
  <2>. QED BY <1>6, <1>7, <1>9, <2>1, <2>2
<1>10. CASE Head(todo[k]) = "image" /\ image' = [image EXCEPT ![r] = s] /\ UNCHANGED network
  <2>1. s = image[r] \/ (image[r] = "exists" /\ s = "gone")
    BY <1>3, <1>4, <1>5, <1>10
  <2>2. s = image[r] => UNCHANGED image
    BY <1>10 DEF TypeOK
  <2>. QED BY <1>6, <1>8, <1>10, <2>1, <2>2
<1>. QED BY <1>3, <1>9, <1>10

\* A step of a call is a step of the lease.
LEMMA CallStepLeases ==
  ASSUME TypeOK, LeaseInv, NEW k \in Callers, CallSafe(k), CallStep(k)
  PROVE  Promise!Next \/ UNCHANGED Promise!vars
<1>1. HasHandle(on[k]) /\ UNCHANGED <<req, ret>> /\ on[k] \in Runs
  BY CallStepFrame DEF CallSafe, run, TypeOK
<1>2. AfterStop(container[on[k]]) \in ContainerStates
      /\ Use(AfterStop(container[on[k]])) = Use(container[on[k]])
  BY <1>1 DEF AfterStop, Use, TypeOK, ContainerStates
<1>3. CASE StartCommand(k)
  BY <1>1, <1>3, CommandLeases DEF StartCommand, ContainerStates
<1>4. CASE StopCommand(k)
  BY <1>1, <1>2, <1>4, CommandLeases DEF StopCommand
<1>5. CASE TerminateStop(k)
  BY <1>1, <1>2, <1>5, CommandLeases DEF TerminateStop
<1>6. CASE TerminateDelete(k)
  BY <1>1, <1>6, CommandLeases DEF TerminateDelete, ContainerStates
<1>7. CASE TerminateCleanup(k)
  BY <1>7, CleanupLeases
<1>8. CASE StoreRunning(k) \/ TerminateReturn(k)
  BY <1>8, MapStutter DEF StoreRunning, TerminateReturn, daemon, run
<1>. QED BY <1>3, <1>4, <1>5, <1>6, <1>7, <1>8 DEF CallStep

\* Run and the handle keep the lease: what was started is never abandoned, a network or an
\* image goes after its container and only through a handle, a kept image stays.
THEOREM LifecycleKeepsLease == Spec => KeepsLease
<1>1. Init => Promise!Init
  <2> SUFFICES ASSUME Init PROVE Promise!Init
    OBVIOUS
  <2>1. KeepMap \in [Runs -> BOOLEAN]
    BY RequestsAssumption DEF Init, KeepMap
  <2>2. OwnerMap = [r \in Runs |-> "run"] /\ UseMap = [r \in Runs |-> "none"]
    BY DEF Init, OwnerMap, Owner, UseMap, Use
  <2>. QED BY <2>1, <2>2 DEF Init, Promise!Init, KeepMap, OwnerMap, UseMap
<1>2. SafetyInv /\ LeaseInv /\ [Next]_vars => [Promise!Next]_Promise!vars
  <2> SUFFICES ASSUME SafetyInv, LeaseInv, [Next]_vars PROVE Promise!Next \/ UNCHANGED Promise!vars
    OBVIOUS
  <2>0. TypeOK /\ (\A r \in Runs : RunSafe(r)) /\ (\A k \in Callers : CallSafe(k))
    BY DEF SafetyInv
  <2>1. ASSUME NEW q \in Runs, RunStep(q) PROVE Promise!Next \/ UNCHANGED Promise!vars
    BY <2>0, <2>1, RunStepLeases
  <2>2. ASSUME NEW q \in Runs, Environment(q) \/ FollowerEnds(q)
        PROVE  Promise!Next \/ UNCHANGED Promise!vars
    <3>1. CASE ProcessExit(q)
      BY <2>0, <3>1, ContainerLeases DEF ProcessExit, run, ContainerStates, Use
    <3>2. CASE AutoRemove(q)
      BY <2>0, <3>2, ContainerLeases DEF AutoRemove, run, ContainerStates
    <3>3. CASE Expire(q) \/ StreamJams(q) \/ FollowerEnds(q)
      BY <3>3, MapStutter DEF Expire, StreamJams, FollowerEnds, daemon, run
    <3>. QED BY <2>2, <3>1, <3>2, <3>3 DEF Environment
  <2>3. ASSUME NEW k \in Callers, NEW q \in Runs,
               BeginStart(k, q) \/ BeginStop(k, q) \/ BeginTerminate(k, q)
        PROVE  Promise!Next \/ UNCHANGED Promise!vars
    BY <2>3, MapStutter DEF BeginStart, BeginStop, BeginTerminate, daemon, run
  <2>4. ASSUME NEW k \in Callers, CallStep(k) PROVE Promise!Next \/ UNCHANGED Promise!vars
    BY <2>0, <2>4, CallStepLeases
  <2>5. CASE UNCHANGED vars
    BY <2>5, MapStutter DEF vars, daemon, run
  <2>. QED BY <2>1, <2>2, <2>3, <2>4, <2>5 DEF Next
<1>. QED BY <1>1, <1>2, SafetyInvariant, LeaseInvariant, PTL DEF Spec, KeepsLease, Promise!Spec
-----------------------------------------------------------------------------
(* The tests.  CallersAssumption, by which the callers are those of the    *)
(* tests, is used from here on only.                                       *)

\* A network command of a test leaves Lifecycle alone, but for the end of its context.
LEMMA NetCommandClient ==
  ASSUME NEW bg \in BOOLEAN, NEW t \in Runs, NEW new, NEW ok, NetCommand(bg, t, new, ok)
  PROVE  UNCHANGED vars \/ Expire(t)
BY DEF NetCommand

\* Every step of a test is a step of Lifecycle or none.
LEMMA ClientStep == [ScopeNext]_scopeVars => [Next]_vars
<1> SUFFICES ASSUME [ScopeNext]_scopeVars PROVE [Next]_vars
  OBVIOUS
<1>1. ASSUME NEW t \in Runs, MakeNetwork(t) PROVE UNCHANGED vars \/ Expire(t)
  BY <1>1, NetCommandClient DEF MakeNetwork
<1>2. ASSUME NEW t \in Runs, CleanUpNetwork(t) PROVE UNCHANGED vars \/ Expire(t)
  BY <1>2, NetCommandClient DEF CleanUpNetwork
<1>3. ASSUME NEW t \in Runs, Cancel(t) PROVE UNCHANGED vars \/ Expire(t)
  BY <1>3 DEF Cancel
<1>4. ASSUME NEW t \in Runs, UNCHANGED vars \/ Expire(t) PROVE [Next]_vars
  BY <1>4 DEF Next, Environment
<1>5. \A t \in Runs : Deferred(t) \in Callers /\ Cleanup(t) \in Callers
  BY CallersAssumption DEF Deferred, Cleanup
<1>6. ASSUME NEW t \in Runs, RunReturned(t) \/ DeferReturned(t) \/ CleanupReturned(t) \/ Done(t)
      PROVE  UNCHANGED vars
  BY <1>6 DEF RunReturned, DeferReturned, CleanupReturned, Done
<1>7. ASSUME NEW t \in Runs, InRun(t) \/ World(t) PROVE Next
  BY <1>7 DEF InRun, World, Next
<1>8. ASSUME NEW t \in Runs, InTerminate(t) PROVE Next
  BY <1>5, <1>8 DEF InTerminate, Next
<1>9. ASSUME NEW t \in Runs, EndBody(t) \/ CleanUpContainer(t) PROVE [Next]_vars
  BY <1>5, <1>9 DEF EndBody, CleanUpContainer, Next
<1>10. CASE UNCHANGED scopeVars
  BY <1>10 DEF scopeVars
<1>. QED BY <1>1, <1>2, <1>3, <1>4, <1>6, <1>7, <1>8, <1>9, <1>10 DEF ScopeNext, TestStep

\* Tests are clients of Lifecycle: what is proved of Lifecycle holds for them.
THEOREM TestsAreClients == ScopeSpec => Spec
<1>1. ScopeInit => Init
  BY DEF ScopeInit
<1>. QED BY <1>1, ClientStep, PTL DEF ScopeSpec, Spec

-----------------------------------------------------------------------------
(* The invariant, one actor at a time.                                      *)

\* The callers of a test are two, and no other test's.
LEMMA TwoCallersEach ==
  ASSUME NEW t \in Runs
  PROVE  /\ Deferred(t) \in Callers /\ Cleanup(t) \in Callers
         /\ \A u \in Runs : Deferred(t) # Cleanup(u)
         /\ \A u \in Runs : u # t => Deferred(t) # Deferred(u) /\ Cleanup(t) # Cleanup(u)
BY CallersAssumption DEF Deferred, Cleanup

\* What a test's invariant reads of Lifecycle.
Same(t) ==
  /\ UNCHANGED <<pc[t], ret[t], on[Cleanup(t)], on[Deferred(t)],
                 at[Cleanup(t)], said[Cleanup(t)], clean[Cleanup(t)]>>
  /\ container[t] = "created" => container'[t] = "created" \/ HasHandle(t)

\* A test in whose reach nothing changed is as safe as before.
LEMMA Undisturbed ==
  ASSUME NEW t \in Runs, TestInv(t), Same(t),
         UNCHANGED <<style[t], step[t], net[t], stack[t], broken[t]>>
  PROVE  TestInv(t)'
BY DEF TestInv, Same, InPlace, HandleInReach, NetworkBelow, NetworkInReach, HasHandle, Registers,
   Waiting, Terminated, KeptHandle, LostContainer

\* A test may go on from its body to its cleanups without further ado.
LEMMA OnToCleanup ==
  ASSUME NEW t \in Runs, TestInv(t), Same(t),
         UNCHANGED <<style[t], net[t], stack[t], broken[t]>>,
         step[t] \in {"body", "terminate", "cancel"}, step'[t] \in {"terminate", "cancel", "cleanup"}
  PROVE  TestInv(t)'
BY DEF TestInv, Same, InPlace, HandleInReach, NetworkBelow, NetworkInReach, HasHandle, Registers,
   Waiting, Terminated, KeptHandle, LostContainer

\* The stack without its last element.
LEMMA FrontFacts ==
  ASSUME NEW s \in Seq({"container", "network"}), s # <<>>
  PROVE  /\ Stack!Front(s) \in Seq({"container", "network"})
         /\ Len(s) \in Nat \ {0} /\ Len(Stack!Front(s)) = Len(s) - 1
         /\ \A i \in 1 .. Len(s) - 1 : Stack!Front(s)[i] = s[i]
<1>1. Len(s) \in Nat /\ Len(s) # 0
  BY EmptySeq
<1> DEFINE S == {"container", "network"}
           n == Len(s) - 1
<1>2. 1 \in Int /\ n \in Int /\ \A i \in 1 .. n : s[i] \in S
  BY <1>1, ElementOfSeq
<1>3. /\ SubSeq(s, 1, n) \in Seq(S)
      /\ Len(SubSeq(s, 1, n)) = IF 1 <= n THEN n - 1 + 1 ELSE 0
      /\ \A i \in 1 .. n - 1 + 1 : SubSeq(s, 1, n)[i] = s[1 + i - 1]
  <2>. HIDE DEF n, S
  <2>. QED BY <1>2, SubSeqProperties
<1>4. Stack!Front(s) = SubSeq(s, 1, n)
  BY DEF Stack!Front
<1>5. Len(SubSeq(s, 1, n)) = n /\ \A i \in 1 .. n : SubSeq(s, 1, n)[i] = s[i]
  <2>1. n \in Nat
    BY <1>1
  <2>. HIDE DEF n, S
  <2>2. n - 1 + 1 = n /\ (1 <= n \/ n = 0) /\ \A i \in 1 .. n : 1 + i - 1 = i
    BY <2>1
  <2>3. Len(SubSeq(s, 1, n)) = n
    BY <1>3, <2>1, <2>2
  <2>4. ASSUME NEW i \in 1 .. n PROVE SubSeq(s, 1, n)[i] = s[i]
    <3>1. SubSeq(s, 1, n)[i] = s[1 + i - 1]
      BY <1>3, <2>2
    <3>2. 1 + i - 1 = i
      BY <2>2
    <3>. QED BY <3>1, <3>2
  <2>. QED BY <2>3, <2>4
<1>. QED BY <1>1, <1>3, <1>4, <1>5

\* A network command touches the test's own network, and tells a success from the rest.
LEMMA NetCommandEffect ==
  ASSUME ScopeTypeOK, NEW bg \in BOOLEAN, NEW t \in Runs, NEW new \in {"exists", "gone"},
         NEW ok \in BOOLEAN, NetCommand(bg, t, new, ok)
  PROVE  /\ net' \in [Runs -> {"none", "exists", "gone"}]
         /\ broken' \in [Runs -> BOOLEAN] /\ netFaults' \in Nat
         /\ \A u \in Runs : u # t => net'[u] = net[u] /\ broken'[u] = broken[u]
         /\ broken[t] => broken'[t]
         /\ ok => net'[t] = new
         /\ ~ok /\ ~broken'[t] => net'[t] # "exists"
         /\ UNCHANGED <<daemon, run, caller>>
<1>1. UNCHANGED <<daemon, run, caller>>
  BY NetCommandClient DEF vars, Expire
<1>2. CASE ok = (new = "exists" \/ net[t] = "exists")
           /\ net' = [net EXCEPT ![t] = IF ok THEN new ELSE @]
           /\ UNCHANGED <<broken, netFaults>>
  BY <1>1, <1>2 DEF ScopeTypeOK
<1>3. CASE /\ ~ok /\ broken' = [broken EXCEPT ![t] = TRUE] /\ netFaults' \in Nat
           /\ net' = net \/ \E s \in {net[t], new} : net' = [net EXCEPT ![t] = s]
  BY <1>1, <1>3 DEF ScopeTypeOK
<1>. QED BY <1>2, <1>3 DEF NetCommand, ScopeTypeOK

\* Nothing of Lifecycle that concerns the test moves.
LEMMA SameIfCallersRest ==
  ASSUME NEW t \in Runs, UNCHANGED <<pc, ret, caller, container>>
  PROVE  Same(t)
BY DEF Same, caller

\* What is left to show of a step of one test: the types, and that test.
LEMMA OneTest ==
  ASSUME ScopeInv, ScopeTypeOK', NEW t \in Runs, TestInv(t)',
         \A u \in Runs : u # t =>
           Same(u) /\ UNCHANGED <<style[u], step[u], net[u], stack[u], broken[u]>>
  PROVE  ScopeInv'
BY Undisturbed DEF ScopeInv

\* A concatenation holds the elements of the one, then those of the other.
LEMMA ConcatElements ==
  ASSUME NEW a \in Seq({"container", "network"}), NEW b \in Seq({"container", "network"})
  PROVE  /\ a \o b \in Seq({"container", "network"})
         /\ DOMAIN (a \o b) = 1 .. Len(a) + Len(b)
         /\ \A i \in 1 .. Len(a) : (a \o b)[i] = a[i]
         /\ \A i \in 1 .. Len(b) : (a \o b)[Len(a) + i] = b[i]
<1>1. Len(a) \in Nat /\ Len(b) \in Nat
  OBVIOUS
<1>2. /\ a \o b \in Seq({"container", "network"}) /\ Len(a \o b) = Len(a) + Len(b)
      /\ \A i \in 1 .. Len(a) + Len(b) : (a \o b)[i] = IF i <= Len(a) THEN a[i] ELSE b[i - Len(a)]
  BY ConcatProperties
<1>3. ASSUME NEW i \in 1 .. Len(b) PROVE (a \o b)[Len(a) + i] = b[i]
  <2>1. Len(a) + i \in 1 .. Len(a) + Len(b) /\ ~(Len(a) + i <= Len(a)) /\ Len(a) + i - Len(a) = i
    BY <1>1
  <2>2. (a \o b)[Len(a) + i] = b[Len(a) + i - Len(a)]
    BY <1>2, <2>1
  <2>. QED BY <2>1, <2>2
<1>4. ASSUME NEW i \in 1 .. Len(a) PROVE (a \o b)[i] = a[i]
  BY <1>1, <1>2
<1>5. DOMAIN (a \o b) = 1 .. Len(a) + Len(b)
  BY <1>2, LenProperties
<1>. QED BY <1>2, <1>3, <1>4, <1>5

LEMMA Short ==
  /\ <<>> \in Seq({"container", "network"}) /\ Len(<<>>) = 0
  /\ <<"container">> \in Seq({"container", "network"}) /\ Len(<<"container">>) = 1
  /\ <<"network">> \in Seq({"container", "network"}) /\ Len(<<"network">>) = 1
  /\ <<"container">>[1] = "container" /\ <<"network">>[1] = "network"
OBVIOUS

LEMMA Shift ==
  ASSUME NEW n \in {0, 1}, NEW m \in Nat, NEW i \in 1 .. n + m, i > 1
  PROVE  i - n \in 1 .. m /\ n + (i - n) = i
OBVIOUS

LEMMA One == ASSUME NEW n \in Nat, n # 0, ~(n > 1) PROVE n = 1
OBVIOUS

LEMMA MakeNetworkKeeps ==
  ASSUME SafetyInv, ScopeInv, NEW t \in Runs, MakeNetwork(t)
  PROVE  ScopeInv'
<1>0. TypeOK /\ ScopeTypeOK /\ TestInv(t) /\ step[t] = "network" /\ style' = style
  BY DEF SafetyInv, ScopeInv, MakeNetwork
<1>1. /\ pc[t] = "customize" /\ stack[t] = <<>> /\ ret[t] = "none"
      /\ at[Cleanup(t)] = "idle" /\ on[Cleanup(t)] = t /\ on[Deferred(t)] = t
  BY <1>0 DEF TestInv, InPlace, SafetyInv, RunSafe
<1>2. CASE ~style[t].own /\ GotoStep(t, "run") /\ UNCHANGED <<vars, net, stack, broken, netFaults>>
  <2>1. UNCHANGED <<pc, ret, caller, container>>
    BY <1>2 DEF vars, run, daemon
  <2>2. ScopeTypeOK'
    BY <1>0, <1>2 DEF ScopeTypeOK, GotoStep, Steps
  <2>3. TestInv(t)'
    BY <1>0, <1>1, <1>2, <2>1 DEF TestInv, InPlace, HandleInReach, NetworkBelow, NetworkInReach,
       GotoStep, ScopeTypeOK, caller, Waiting, HasHandle
  <2>4. \A u \in Runs : Same(u)
    BY <2>1, SameIfCallersRest
  <2>. QED BY <1>0, <1>2, <2>2, <2>3, <2>4, OneTest DEF GotoStep, ScopeTypeOK
<1>3. CASE style[t].own
  <2>0. PICK ok \in BOOLEAN :
           /\ NetCommand(FALSE, t, "exists", ok)
           /\ GotoStep(t, IF ok THEN "run" ELSE "cancel")
           /\ Push(t, IF ok /\ style[t].first THEN <<"network">> ELSE <<>>)
    BY <1>3 DEF MakeNetwork
  <2>1. /\ net' \in [Runs -> {"none", "exists", "gone"}]
        /\ broken' \in [Runs -> BOOLEAN] /\ netFaults' \in Nat
        /\ \A u \in Runs : u # t => net'[u] = net[u] /\ broken'[u] = broken[u]
        /\ ~ok /\ ~broken'[t] => net'[t] # "exists"
        /\ UNCHANGED <<pc, ret, caller, container>>
    BY <1>0, <2>0, NetCommandEffect DEF run, daemon
  <2>2. stack' = [stack EXCEPT ![t] = IF ok /\ style[t].first THEN <<"network">> ELSE <<>>]
    BY <1>0, <1>1, <2>0, ConcatEmptySeq DEF Push, ScopeTypeOK
  <2>3. ScopeTypeOK'
    <3>1. stack' \in [Runs -> Seq({"container", "network"})]
      BY <1>0, <2>2, Short DEF ScopeTypeOK
    <3>. QED BY <1>0, <2>0, <2>1, <3>1 DEF ScopeTypeOK, GotoStep, Steps
  <2>4. /\ step'[t] = IF ok THEN "run" ELSE "cancel"
        /\ stack'[t] = IF ok /\ style[t].first THEN <<"network">> ELSE <<>>
    BY <1>0, <2>0, <2>2 DEF ScopeTypeOK, GotoStep
  <2>5. ok /\ style[t].first => Waiting(t, "network")'
    BY <2>4 DEF Waiting
  <2>6. TestInv(t)'
    BY <1>0, <1>1, <1>3, <2>1, <2>4, <2>5 DEF TestInv, InPlace, HandleInReach, NetworkBelow,
       NetworkInReach, HasHandle, caller
  <2>7. \A u \in Runs : Same(u)
    BY <2>1, SameIfCallersRest
  <2>. QED BY <1>0, <2>0, <2>1, <2>2, <2>3, <2>6, <2>7, OneTest DEF GotoStep, ScopeTypeOK
<1>. QED BY <1>2, <1>3 DEF MakeNetwork

LEMMA InRunKeeps ==
  ASSUME SafetyInv, ScopeInv, NEW t \in Runs, InRun(t)
  PROVE  ScopeInv'
<1>1. TypeOK /\ RunStep(t) /\ step[t] = "run" /\ UNCHANGED testing
  BY DEF SafetyInv, InRun
<1>2. /\ UNCHANGED caller
      /\ \A u \in Runs : u # t => pc'[u] = pc[u] /\ ret'[u] = ret[u] /\ container'[u] = container[u]
  BY <1>1, RunStepFrame
<1>3. TestInv(t)'
  BY <1>1, <1>2 DEF ScopeInv, testing, caller, TestInv, InPlace, HandleInReach, NetworkBelow,
     NetworkInReach, Waiting
<1>4. \A u \in Runs : u # t => Same(u)
  BY <1>2 DEF Same, caller
<1>. QED BY <1>1, <1>3, <1>4, OneTest DEF testing, ScopeInv, ScopeTypeOK

LEMMA RunReturnedKeeps ==
  ASSUME SafetyInv, ScopeInv, NEW t \in Runs, RunReturned(t)
  PROVE  ScopeInv'
<1>0. /\ ScopeTypeOK /\ TestInv(t) /\ step[t] = "run" /\ pc[t] = "returned"
      /\ UNCHANGED <<style, net, broken, netFaults>> /\ UNCHANGED <<pc, ret, caller, container>>
  BY DEF ScopeInv, RunReturned, vars, run, daemon
<1>1. /\ stack[t] = IF style[t].own /\ style[t].first THEN <<"network">> ELSE <<>>
      /\ on[Cleanup(t)] = t /\ on[Deferred(t)] = t /\ at[Cleanup(t)] = "idle"
  BY <1>0 DEF TestInv, InPlace
<1>2. PICK new \in {"body", "cancel"} : GotoStep(t, new)
  BY DEF RunReturned
<1> DEFINE own == IF style[t].own /\ ~style[t].first THEN <<"network">> ELSE <<>>
           more == CleanupContainer(t) \o own
<1>3. /\ own \in Seq({"container", "network"})
      /\ CleanupContainer(t) \in Seq({"container", "network"})
      /\ HasHandle(t) => Len(CleanupContainer(t)) = 1 /\ CleanupContainer(t)[1] = "container"
      /\ Len(CleanupContainer(t)) \in {0, 1}
      /\ \A i \in 1 .. Len(CleanupContainer(t)) : CleanupContainer(t)[i] = "container"
      /\ style[t].first => Len(own) = 0
  <2>0. own \in Seq({"container", "network"}) /\ (style[t].first => Len(own) = 0)
    BY Short
  <2>. HIDE DEF own
  <2>1. CASE HasHandle(t)
    <3>1. CleanupContainer(t) = <<"container">>
      BY <2>1 DEF CleanupContainer
    <3>. QED BY <2>0, <2>1, <3>1, Short
  <2>2. CASE ~HasHandle(t)
    <3>1. CleanupContainer(t) = <<>>
      BY <2>2 DEF CleanupContainer
    <3>. QED BY <2>0, <2>2, <3>1, Short
  <2>. QED BY <2>1, <2>2
<1>4. /\ more \in Seq({"container", "network"})
      /\ HasHandle(t) => 1 \in DOMAIN more /\ more[1] = "container"
      /\ style[t].first => \A i \in DOMAIN more : i = 1 /\ more[i] = "container"
  <2>. HIDE DEF own
  <2>1. Len(own) \in Nat
    BY <1>3
  <2>. QED BY <1>3, <2>1, ConcatElements
<1>5. stack' = [stack EXCEPT ![t] = IF Registers(t) THEN stack[t] \o more ELSE stack[t]]
  BY <1>0, <1>1 DEF RunReturned, Push, ScopeTypeOK
<1>6. /\ stack'[t] \in Seq({"container", "network"})
      /\ HasHandle(t) /\ Registers(t) => Waiting(t, "container")'
      /\ style[t].own /\ style[t].first => Waiting(t, "network")'
      /\ NetworkBelow(t)'
  <2>0. stack'[t] = IF Registers(t) THEN stack[t] \o more ELSE stack[t]
    BY <1>0, <1>5 DEF ScopeTypeOK
  <2>. HIDE DEF more
  <2>1. /\ stack[t] \in Seq({"container", "network"}) /\ Len(stack[t]) \in {0, 1}
        /\ style[t].own /\ style[t].first => Len(stack[t]) = 1 /\ stack[t][1] = "network"
        /\ DOMAIN stack[t] = 1 .. Len(stack[t])
        /\ DOMAIN more = 1 .. Len(more) /\ Len(more) \in Nat
    <3>1. /\ stack[t] \in Seq({"container", "network"}) /\ Len(stack[t]) \in {0, 1}
          /\ style[t].own /\ style[t].first => Len(stack[t]) = 1 /\ stack[t][1] = "network"
      BY <1>1, Short
    <3>2. DOMAIN stack[t] = 1 .. Len(stack[t])
      BY <3>1, LenProperties
    <3>3. DOMAIN more = 1 .. Len(more) /\ Len(more) \in Nat
      BY <1>4, LenProperties
    <3>. QED BY <3>1, <3>2, <3>3
  <2>2. CASE ~Registers(t)
    BY <1>0, <2>0, <2>1, <2>2 DEF Waiting, NetworkBelow
  <2>3. CASE Registers(t)
    <3>1. /\ stack'[t] \in Seq({"container", "network"})
          /\ DOMAIN stack'[t] = 1 .. Len(stack[t]) + Len(more)
          /\ \A i \in 1 .. Len(stack[t]) : stack'[t][i] = stack[t][i]
          /\ \A i \in 1 .. Len(more) : stack'[t][Len(stack[t]) + i] = more[i]
      BY <1>4, <2>0, <2>1, <2>3, ConcatElements
    <3>2. HasHandle(t) => Waiting(t, "container")'
      BY <1>4, <2>1, <3>1 DEF Waiting
    <3>3. style[t].own /\ style[t].first => Waiting(t, "network")'
      <4>1. SUFFICES ASSUME style[t].own, style[t].first
                     PROVE  1 \in DOMAIN stack'[t] /\ stack'[t][1] = "network"
        BY <1>0 DEF Waiting
      <4>2. Len(stack[t]) = 1 /\ stack[t][1] = "network"
        BY <2>1, <4>1
      <4>. QED BY <2>1, <3>1, <4>2
    <3>4. NetworkBelow(t)'
      <4>0. UNCHANGED style
        BY <1>0
      <4> SUFFICES ASSUME style[t].first, NEW i \in 1 .. Len(stack[t]) + Len(more), i > 1
                   PROVE  stack'[t][i] # "network"
        BY <3>1, <4>0 DEF NetworkBelow
      <4> DEFINE j == i - Len(stack[t])
      <4>1. j \in 1 .. Len(more) /\ Len(stack[t]) + j = i
        BY <2>1, Shift
      <4>. HIDE DEF j
      <4>2. stack'[t][i] = more[j]
        BY <3>1, <4>1
      <4>3. more[j] = "container"
        BY <1>4, <2>1, <4>1
      <4>. QED BY <4>2, <4>3
    <3>. QED BY <3>1, <3>2, <3>3, <3>4
  <2>. QED BY <2>2, <2>3
<1>7. ScopeTypeOK'
  BY <1>0, <1>2, <1>5, <1>6 DEF ScopeTypeOK, GotoStep, Steps
<1>8. TestInv(t)'
  <2>1. step'[t] = new
    BY <1>0, <1>2 DEF ScopeTypeOK, GotoStep
  <2>2. HandleInReach(t)'
    BY <1>0, <1>6 DEF HandleInReach, HasHandle, Registers
  <2>3. NetworkInReach(t)'
    <3>1. net[t] = "exists" /\ style[t].first /\ ~broken[t] => style[t].own
      BY <1>0, <1>1 DEF TestInv, NetworkInReach, Waiting
    <3>. QED BY <1>0, <1>6, <3>1 DEF NetworkInReach
  <2>4. InPlace(t)'
    BY <1>0, <1>1, <2>1 DEF InPlace, caller
  <2>. QED BY <1>6, <2>2, <2>3, <2>4 DEF TestInv
<1>9. \A u \in Runs : Same(u)
  BY <1>0, SameIfCallersRest
<1>. QED BY <1>0, <1>2, <1>5, <1>7, <1>8, <1>9, OneTest DEF GotoStep, ScopeTypeOK

\* A call that begins concerns its caller only.
LEMMA BeginTerminateFrame ==
  ASSUME TypeOK, NEW k \in Callers, NEW r \in Runs, BeginTerminate(k, r)
  PROVE  /\ UNCHANGED <<pc, ret, container>> /\ HasHandle(r)
         /\ at'[k] = "termStop" /\ on'[k] = r
         /\ \A j \in Callers : j # k =>
              at'[j] = at[j] /\ on'[j] = on[j] /\ said'[j] = said[j] /\ clean'[j] = clean[j]
BY DEF BeginTerminate, Enter, TypeOK, run, daemon

LEMMA EndBodyKeeps ==
  ASSUME SafetyInv, ScopeInv, NEW t \in Runs, EndBody(t)
  PROVE  ScopeInv'
<1>0. /\ TypeOK /\ ScopeTypeOK /\ TestInv(t) /\ step[t] = "body"
      /\ UNCHANGED <<style, net, stack, broken, netFaults>>
      /\ Deferred(t) \in Callers
  BY TwoCallersEach DEF SafetyInv, ScopeInv, EndBody
<1>1. PICK new \in {"terminate", "cancel"} : GotoStep(t, new)
  BY DEF EndBody
<1>2. \A u \in Runs : Same(u)
  <2>1. CASE UNCHANGED vars
    BY <2>1, SameIfCallersRest DEF vars, run, daemon
  <2>2. CASE BeginTerminate(Deferred(t), t)
    <3>1. ASSUME NEW u \in Runs PROVE Same(u)
      <4>1. /\ Cleanup(u) \in Callers /\ Deferred(u) \in Callers /\ Deferred(t) # Cleanup(u)
            /\ u # t => Deferred(u) # Deferred(t)
        BY TwoCallersEach
      <4>2. on'[Deferred(u)] = on[Deferred(u)]
        BY <1>0, <2>2, <4>1, BeginTerminateFrame DEF TestInv, InPlace
      <4>. QED BY <1>0, <2>2, <4>1, <4>2, BeginTerminateFrame DEF Same
    <3>. QED BY <3>1
  <2>. QED BY <2>1, <2>2 DEF EndBody
<1>3. ScopeTypeOK' /\ step'[t] = new
  BY <1>0, <1>1 DEF ScopeTypeOK, GotoStep, Steps
<1>4. TestInv(t)'
  BY <1>0, <1>2, <1>3, OnToCleanup
<1>. QED BY <1>0, <1>1, <1>2, <1>3, <1>4, OneTest DEF GotoStep, ScopeTypeOK

LEMMA LeaveKeeps ==
  ASSUME SafetyInv, ScopeInv, NEW t \in Runs, DeferReturned(t) \/ Cancel(t)
  PROVE  ScopeInv'
<1>0. /\ ScopeTypeOK /\ TestInv(t) /\ step[t] \in {"terminate", "cancel"}
      /\ UNCHANGED <<style, net, stack, broken, netFaults>>
      /\ UNCHANGED <<pc, ret, caller, container>>
  BY DEF ScopeInv, DeferReturned, Cancel, Expire, vars, run, daemon
<1>1. PICK new \in {"cancel", "cleanup"} : GotoStep(t, new)
  BY DEF DeferReturned, Cancel
<1>2. \A u \in Runs : Same(u)
  BY <1>0, SameIfCallersRest
<1>3. ScopeTypeOK' /\ step'[t] = new
  BY <1>0, <1>1 DEF ScopeTypeOK, GotoStep, Steps
<1>4. TestInv(t)'
  BY <1>0, <1>2, <1>3, OnToCleanup
<1>. QED BY <1>0, <1>1, <1>2, <1>3, <1>4, OneTest DEF GotoStep, ScopeTypeOK

\* A Terminate that is under way goes on, or says what became of it.
LEMMA TerminateGoesOn ==
  ASSUME TypeOK, NEW k \in Callers, CallStep(k), at[k] \in {"termStop", "termDelete", "termClean"}
  PROVE  /\ at'[k] \in {"idle", "termStop", "termDelete", "termClean"}
         /\ at'[k] = "idle" => said'[k] # "none"
<1>1. CASE TerminateDelete(k)
  BY <1>1 DEF TerminateDelete, Goto, TypeOK
<1>2. CASE TerminateStop(k) \/ TerminateCleanup(k) \/ TerminateReturn(k)
  BY <1>2 DEF TerminateStop, TerminateCleanup, TerminateReturn, Goto, TypeOK
<1>. QED BY <1>1, <1>2 DEF CallStep, StartCommand, StopCommand, StoreRunning

LEMMA InTerminateKeeps ==
  ASSUME SafetyInv, ScopeInv, NEW t \in Runs, InTerminate(t)
  PROVE  ScopeInv'
<1>0. /\ TypeOK /\ ScopeTypeOK /\ TestInv(t) /\ UNCHANGED testing
      /\ Deferred(t) \in Callers /\ Cleanup(t) \in Callers
      /\ \A k \in Callers : CallSafe(k)
  BY TwoCallersEach DEF SafetyInv, ScopeInv, InTerminate
<1>1. PICK k \in {Deferred(t), Cleanup(t)} :
        CallStep(k) /\ step[t] = IF k = Cleanup(t) THEN "terminating" ELSE "terminate"
  BY TwoCallersEach DEF InTerminate
<1>2. /\ k \in Callers /\ on[k] = t /\ at[k] # "idle" /\ HasHandle(t)
      /\ UNCHANGED <<pc, ret, on>>
      /\ \A u \in Runs : u # t => container'[u] = container[u]
      /\ \A j \in Callers : j # k => at'[j] = at[j] /\ said'[j] = said[j] /\ clean'[j] = clean[j]
  BY <1>0, <1>1, CallStepFrame DEF TestInv, InPlace, CallSafe, run
<1>3. ASSUME NEW u \in Runs, k # Cleanup(u) PROVE Same(u)
  BY <1>2, <1>3, TwoCallersEach DEF Same
<1>4. \A u \in Runs : u # t => k # Cleanup(u)
  BY <1>1, TwoCallersEach
<1>5. TestInv(t)'
  <2>1. CASE k = Cleanup(t)
    <3>1. step[t] = "terminating" /\ at[k] \in {"termStop", "termDelete", "termClean"}
      BY <1>0, <1>1, <1>2, <2>1 DEF TestInv, InPlace
    <3>2. /\ at'[k] \in {"idle", "termStop", "termDelete", "termClean"}
          /\ at'[k] = "idle" => said'[k] # "none"
      BY <1>0, <1>1, <1>2, <3>1, TerminateGoesOn
    <3>3. InPlace(t)'
      BY <1>0, <1>2, <2>1, <3>1, <3>2 DEF TestInv, InPlace, Terminated, testing
    <3>4. HandleInReach(t)' /\ NetworkBelow(t)' /\ NetworkInReach(t)'
      BY <1>0, <3>1 DEF TestInv, HandleInReach, NetworkBelow, NetworkInReach, testing, Waiting
    <3>. QED BY <3>3, <3>4 DEF TestInv
  <2>2. CASE k # Cleanup(t)
    BY <1>0, <1>3, <2>2, Undisturbed DEF testing
  <2>. QED BY <2>1, <2>2
<1>6. ScopeTypeOK'
  BY <1>0 DEF testing, ScopeTypeOK
<1>. QED BY <1>0, <1>3, <1>4, <1>5, <1>6, OneTest DEF testing

LEMMA CleanUpContainerKeeps ==
  ASSUME SafetyInv, ScopeInv, NEW t \in Runs, CleanUpContainer(t)
  PROVE  ScopeInv'
<1>0. /\ TypeOK /\ ScopeTypeOK /\ TestInv(t) /\ step[t] = "cleanup"
      /\ UNCHANGED <<style, net, broken, netFaults>>
      /\ Cleanup(t) \in Callers /\ Deferred(t) \in Callers
      /\ stack[t] \in Seq({"container", "network"}) /\ stack[t] # <<>>
  BY TwoCallersEach DEF SafetyInv, ScopeInv, CleanUpContainer, Pop, ScopeTypeOK
<1>1. /\ UNCHANGED <<pc, ret, container>>
      /\ at'[Cleanup(t)] = "termStop" /\ on'[Cleanup(t)] = t
      /\ \A j \in Callers : j # Cleanup(t) =>
           at'[j] = at[j] /\ on'[j] = on[j] /\ said'[j] = said[j] /\ clean'[j] = clean[j]
  BY <1>0, BeginTerminateFrame DEF CleanUpContainer
<1>2. /\ step' = [step EXCEPT ![t] = "terminating"]
      /\ stack' = [stack EXCEPT ![t] = Stack!Front(stack[t])]
      /\ stack[t][Len(stack[t])] = "container"
  BY <1>0 DEF CleanUpContainer, GotoStep, Pop, LastOf, Stack!Last, ScopeTypeOK
<1>3. /\ stack'[t] = Stack!Front(stack[t]) /\ step'[t] = "terminating"
      /\ stack'[t] \in Seq({"container", "network"})
      /\ DOMAIN stack[t] = 1 .. Len(stack[t]) /\ DOMAIN stack'[t] = 1 .. Len(stack[t]) - 1
      /\ Len(stack[t]) \in Nat \ {0}
      /\ \A i \in 1 .. Len(stack[t]) - 1 : stack'[t][i] = stack[t][i]
  <2>1. stack'[t] = Stack!Front(stack[t]) /\ step'[t] = "terminating"
    BY <1>0, <1>2 DEF ScopeTypeOK
  <2>2. DOMAIN stack[t] = 1 .. Len(stack[t])
        /\ DOMAIN Stack!Front(stack[t]) = 1 .. Len(Stack!Front(stack[t]))
    BY <1>0, FrontFacts, LenProperties
  <2>. QED BY <1>0, <2>1, <2>2, FrontFacts
<1>4. ScopeTypeOK'
  BY <1>0, <1>2, <1>3 DEF ScopeTypeOK, Steps
<1>5. NetworkBelow(t)'
  BY <1>0, <1>3 DEF TestInv, NetworkBelow
<1>6. Waiting(t, "network") => Waiting(t, "network")'
  BY <1>2, <1>3 DEF Waiting
<1>7. NetworkInReach(t)'
  BY <1>0, <1>6 DEF TestInv, NetworkInReach
<1>8. InPlace(t)'
  BY <1>0, <1>1, <1>3, TwoCallersEach DEF TestInv, InPlace
<1>9. TestInv(t)'
  BY <1>3, <1>5, <1>7, <1>8 DEF TestInv, HandleInReach
<1>10. \A u \in Runs : u # t => Same(u)
  BY <1>1, TwoCallersEach DEF Same
<1>. QED BY <1>0, <1>2, <1>4, <1>9, <1>10, OneTest DEF ScopeTypeOK

LEMMA CleanupEndsKeeps ==
  ASSUME SafetyInv, ScopeInv, NEW t \in Runs, CleanupReturned(t) \/ Done(t)
  PROVE  ScopeInv'
<1>0. /\ ScopeTypeOK /\ TestInv(t)
      /\ UNCHANGED <<style, net, stack, broken, netFaults>>
      /\ UNCHANGED <<pc, ret, caller, container>>
  BY DEF ScopeInv, CleanupReturned, Done, vars, run, daemon
<1>1. \A u \in Runs : Same(u)
  BY <1>0, SameIfCallersRest
<1>2. PICK new \in {"cleanup", "done"} : GotoStep(t, new)
  BY DEF CleanupReturned, Done
<1>3. ScopeTypeOK' /\ step'[t] = new
  BY <1>0, <1>2 DEF ScopeTypeOK, GotoStep, Steps
<1>4. TestInv(t)'
  <2>1. CASE CleanupReturned(t)
    <3>1. step[t] = "terminating" /\ at[Cleanup(t)] = "idle" /\ step'[t] = "cleanup"
      BY <1>0, <2>1 DEF CleanupReturned, GotoStep, ScopeTypeOK
    <3>2. InPlace(t)' /\ HandleInReach(t)' /\ NetworkBelow(t)'
      BY <1>0, <1>1, <3>1 DEF TestInv, Same, InPlace, HandleInReach, NetworkBelow, Terminated
    <3>3. NetworkInReach(t)'
      BY <1>0, <3>1 DEF TestInv, NetworkInReach, Waiting
    <3>. QED BY <3>2, <3>3 DEF TestInv
  <2>2. CASE Done(t)
    <3>1. step[t] = "cleanup" /\ stack[t] = <<>> /\ step'[t] = "done"
      BY <1>0, <2>2 DEF Done, GotoStep, ScopeTypeOK
    <3>2. InPlace(t)' /\ HandleInReach(t)' /\ NetworkBelow(t)'
      BY <1>0, <1>1, <3>1 DEF TestInv, Same, InPlace, HandleInReach, NetworkBelow, Terminated,
         Waiting, HasHandle, Registers
    <3>3. NetworkInReach(t)'
      BY <1>0, <1>1, <3>1 DEF TestInv, Same, NetworkInReach, Waiting, KeptHandle, HasHandle,
         Registers, LostContainer
    <3>. QED BY <3>2, <3>3 DEF TestInv
  <2>. QED BY <2>1, <2>2
<1>. QED BY <1>0, <1>1, <1>2, <1>3, <1>4, OneTest DEF GotoStep, ScopeTypeOK

\* A container that is there when the network's turn comes is one that Run lost, or one
\* whose Terminate met a failure.
LEMMA InUseMeansLost ==
  ASSUME SafetyInv, ScopeInv, NEW t \in Runs, step[t] = "cleanup", ~Waiting(t, "container"),
         InUse(t), KeptHandle(t), clean[Cleanup(t)]
  PROVE  LostContainer(t)
<1>0. /\ TypeOK /\ TestInv(t) /\ RunSafe(t) /\ ReleasedSafe(t)
      /\ Cleanup(t) \in Callers /\ CallSafe(Cleanup(t)) /\ on[Cleanup(t)] = t
  BY TwoCallersEach DEF SafetyInv, ScopeInv, TestInv, InPlace
<1>1. CASE HasHandle(t)
  <2>1. said[Cleanup(t)] # "none"
    BY <1>0, <1>1 DEF TestInv, HandleInReach, KeptHandle, Terminated
  <2>2. said[Cleanup(t)] = "nil"
    BY <1>0, <2>1 DEF TypeOK, CallSafe
  <2>3. container[t] = "gone"
    BY <1>0, <2>2 DEF CallSafe, ReleasedSafe
  <2>. QED BY <2>3 DEF InUse, Present
<1>2. CASE ~HasHandle(t)
  <2>1. container[t] # "none"
    BY DEF InUse, Present
  <2>2. pc[t] = "returned"
    BY <1>0, <2>1 DEF TestInv, InPlace, RunSafe, BeforeCreate
  <2>3. ret[t] = "nil"
    BY <1>0, <1>2, <2>2 DEF RunSafe, HasHandle, TypeOK
  <2>. QED BY <1>0, <2>1, <2>3 DEF RunSafe, LostContainer
<1>. QED BY <1>1, <1>2

LEMMA CleanUpNetworkKeeps ==
  ASSUME SafetyInv, ScopeInv, NEW t \in Runs, CleanUpNetwork(t)
  PROVE  ScopeInv'
<1>0. /\ ScopeTypeOK /\ TestInv(t) /\ step[t] = "cleanup" /\ UNCHANGED <<style, step>>
      /\ stack[t] \in Seq({"container", "network"}) /\ stack[t] # <<>>
      /\ stack[t][Len(stack[t])] = "network"
      /\ stack' = [stack EXCEPT ![t] = Stack!Front(stack[t])]
  BY DEF ScopeInv, CleanUpNetwork, Pop, LastOf, Stack!Last, ScopeTypeOK
<1>1. /\ net' \in [Runs -> {"none", "exists", "gone"}]
      /\ broken' \in [Runs -> BOOLEAN] /\ netFaults' \in Nat
      /\ \A u \in Runs : u # t => net'[u] = net[u] /\ broken'[u] = broken[u]
      /\ UNCHANGED <<pc, ret, caller, container>>
      /\ net'[t] = "exists" /\ ~broken'[t] => InUse(t)
  <2>1. ASSUME NEW ok \in BOOLEAN, NetCommand(TRUE, t, "gone", ok) PROVE <1>1!:
    BY <1>0, <2>1, NetCommandEffect DEF run, daemon
  <2>2. CASE InUse(t) /\ UNCHANGED <<vars, net, broken, netFaults>>
    BY <1>0, <2>2 DEF vars, run, daemon, ScopeTypeOK
  <2>. QED BY <2>1, <2>2 DEF CleanUpNetwork
<1>2. /\ stack'[t] = Stack!Front(stack[t])
      /\ stack'[t] \in Seq({"container", "network"})
      /\ DOMAIN stack[t] = 1 .. Len(stack[t]) /\ DOMAIN stack'[t] = 1 .. Len(stack[t]) - 1
      /\ Len(stack[t]) \in Nat \ {0} /\ Len(stack'[t]) = Len(stack[t]) - 1
      /\ \A i \in 1 .. Len(stack[t]) - 1 : stack'[t][i] = stack[t][i]
  <2>1. stack'[t] = Stack!Front(stack[t])
    BY <1>0 DEF ScopeTypeOK
  <2>2. DOMAIN stack[t] = 1 .. Len(stack[t])
        /\ DOMAIN Stack!Front(stack[t]) = 1 .. Len(Stack!Front(stack[t]))
    BY <1>0, FrontFacts, LenProperties
  <2>. QED BY <1>0, <2>1, <2>2, FrontFacts
<1>3. ScopeTypeOK'
  BY <1>0, <1>1, <1>2 DEF ScopeTypeOK
<1>4. \A u \in Runs : Same(u)
  BY <1>1, SameIfCallersRest
<1>5. NetworkBelow(t)'
  BY <1>0, <1>2 DEF TestInv, NetworkBelow
<1>6. Waiting(t, "container") => Waiting(t, "container")'
  BY <1>0, <1>2 DEF Waiting
<1>7. HandleInReach(t)'
  BY <1>0, <1>4, <1>6 DEF TestInv, HandleInReach, Same, HasHandle, Registers, Terminated
<1>8. InPlace(t)'
  BY <1>0, <1>4 DEF TestInv, InPlace, Same
<1>9. NetworkInReach(t)'
  <2> SUFFICES ASSUME net'[t] = "exists", style[t].first, ~broken'[t]
               PROVE  stack'[t] = <<>> /\ (KeptHandle(t)' /\ clean'[Cleanup(t)] => LostContainer(t)')
    BY <1>0 DEF NetworkInReach
  <2>1. Len(stack[t]) = 1
    <3>1. Len(stack[t]) \in DOMAIN stack[t] /\ Len(stack[t]) \in Nat /\ Len(stack[t]) # 0
      BY <1>2
    <3>2. ~(Len(stack[t]) > 1)
      BY <1>0, <3>1 DEF TestInv, NetworkBelow
    <3>. QED BY <3>1, <3>2, One
  <2>2. stack'[t] = <<>>
    BY <1>2, <2>1, EmptySeq
  <2>3. ~Waiting(t, "container")
    BY <1>0, <1>2, <2>1 DEF Waiting
  <2>4. KeptHandle(t) /\ clean[Cleanup(t)] => LostContainer(t)
    BY <1>0, <1>1, <2>3, InUseMeansLost
  <2>. QED BY <1>0, <1>1, <2>2, <2>4 DEF KeptHandle, HasHandle, Registers, LostContainer, caller
<1>. QED BY <1>0, <1>1, <1>3, <1>4, <1>5, <1>7, <1>8, <1>9, OneTest DEF TestInv, ScopeTypeOK

LEMMA WorldKeeps ==
  ASSUME SafetyInv, ScopeInv, NEW q \in Runs, World(q)
  PROVE  ScopeInv'
<1>1. TypeOK /\ UNCHANGED <<testing, pc, ret, caller>>
      /\ \A u \in Runs : container[u] = "created" => container'[u] = "created"
  BY DEF SafetyInv, World, Environment, Expire, ProcessExit, AutoRemove, StreamJams, FollowerEnds,
     TypeOK, daemon, run
<1>2. \A u \in Runs : Same(u)
  BY <1>1 DEF Same, caller
<1>. QED BY <1>1, <1>2, Undisturbed DEF ScopeInv, ScopeTypeOK, testing

\* The invariant holds of every run of tests.
LEMMA ScopeStep == SafetyInv /\ ScopeInv /\ [ScopeNext]_scopeVars => ScopeInv'
<1> SUFFICES ASSUME SafetyInv, ScopeInv, [ScopeNext]_scopeVars PROVE ScopeInv'
  OBVIOUS
<1>1. CASE UNCHANGED scopeVars
  <2>1. UNCHANGED <<testing, pc, ret, caller, container>>
    BY <1>1 DEF scopeVars, vars, run, daemon
  <2>. QED BY <2>1, SameIfCallersRest, Undisturbed DEF ScopeInv, ScopeTypeOK, testing
<1>2. CASE ScopeNext
  BY <1>2, MakeNetworkKeeps, InRunKeeps, RunReturnedKeeps, EndBodyKeeps, LeaveKeeps, InTerminateKeeps,
     CleanUpContainerKeeps, CleanupEndsKeeps, CleanUpNetworkKeeps, WorldKeeps DEF ScopeNext, TestStep
<1>. QED BY <1>1, <1>2

\* What is registered stays in reach of the test, in the order that removes it.
THEOREM ScopeInvariant == ScopeSpec => []ScopeInv
<1>1. ScopeInit => ScopeInv
  <2> SUFFICES ASSUME ScopeInit PROVE ScopeInv
    OBVIOUS
  <2>1. ScopeTypeOK
    BY Short DEF ScopeInit, ScopeTypeOK, Steps
  <2>2. ASSUME NEW t \in Runs PROVE TestInv(t)
    <3>1. Deferred(t) \in Callers /\ Cleanup(t) \in Callers
      BY TwoCallersEach
    <3>. QED BY <3>1 DEF ScopeInit, Init, TestInv, InPlace, HandleInReach, NetworkBelow,
         NetworkInReach, HasHandle, Deferred, Cleanup
  <2>. QED BY <2>1, <2>2 DEF ScopeInv
<1>2. ScopeSpec => []SafetyInv
  BY TestsAreClients, SafetyInvariant, PTL
<1>. QED BY <1>1, <1>2, ScopeStep, PTL DEF ScopeSpec

\* A test that keeps its handle and makes its network first leaves nothing behind.
THEOREM TestsLeaveNothing == ScopeSpec => []ScopeLeavesNothing
<1>1. SafetyInv /\ ScopeInv => ScopeLeavesNothing
  <2> SUFFICES ASSUME SafetyInv, ScopeInv, NEW t \in Runs, step[t] = "done", KeptHandle(t),
                      ~broken[t], clean[Cleanup(t)]
               PROVE  /\ HasHandle(t) => Released(t)
                      /\ style[t].first => net[t] # "exists" \/ LostContainer(t)
    BY DEF ScopeLeavesNothing
  <2>0. /\ TypeOK /\ TestInv(t) /\ Cleanup(t) \in Callers /\ CallSafe(Cleanup(t))
        /\ on[Cleanup(t)] = t /\ stack[t] = <<>>
    BY TwoCallersEach DEF SafetyInv, ScopeInv, TestInv, InPlace
  <2>1. \A what : ~Waiting(t, what)
    BY <2>0 DEF Waiting
  <2>2. ASSUME HasHandle(t) PROVE Released(t)
    <3>1. said[Cleanup(t)] # "none"
      BY <2>0, <2>1, <2>2 DEF TestInv, HandleInReach, KeptHandle, Terminated
    <3>2. said[Cleanup(t)] = "nil"
      BY <2>0, <3>1 DEF TypeOK, CallSafe
    <3>3. /\ container[t] = "gone" /\ network[t] # "exists"
          /\ image[t] = "exists" => req[t].keep
      BY <2>0, <3>2 DEF CallSafe, SafetyInv, ReleasedSafe
    <3>. QED BY <2>0, <3>3 DEF Released, Present, TypeOK, ObjectStates
  <2>3. style[t].first => net[t] # "exists" \/ LostContainer(t)
    BY <2>0, <2>1 DEF TestInv, NetworkInReach
  <2>. QED BY <2>2, <2>3
<1>2. ScopeSpec => []SafetyInv
  BY TestsAreClients, SafetyInvariant, PTL
<1>. QED BY <1>1, <1>2, ScopeInvariant, PTL
=============================================================================
