------------------------------ MODULE Lifecycle ------------------------------
(***************************************************************************)
(* The life of a container: Run (applecontainer.go) acquires a network, an *)
(* image and a container by running the container binary, and hands the    *)
(* caller a *Container (container.go) whose Start, Stop and Terminate may  *)
(* be called by several goroutines.  The daemon behind the binary is       *)
(* external: it is modelled from the commands the code sends and from the  *)
(* way the code reads their ending.                                        *)
(***************************************************************************)
EXTENDS Naturals, Sequences

CONSTANTS
  Runs,        \* calls of Run; each has at most one container
  Callers,     \* goroutines that use the handles Run returned
  Background,  \* the callers that pass context.Background(), as CleanupContainer does
  Requests,    \* the requests a Run may be called with
  MaxFaults,   \* bound: commands that fail for a reason other than the context
  MaxCalls     \* bound: calls of Start, Stop and Terminate

ASSUME RequestsAssumption ==
  Requests \subseteq [network : BOOLEAN, build : BOOLEAN, keep : BOOLEAN,
                      valid : BOOLEAN, files : BOOLEAN, logs : BOOLEAN]

ASSUME BoundsAssumption == MaxFaults \in Nat /\ MaxCalls \in Nat

VARIABLES
  \* the daemon, per Run: the container, the network and the image made for it
  container, network, image,
  \* Run: its request and context, where it is, what it returned
  req, ctx, pc, ret,
  \* package state: the verdict cached behind versionOnce
  version,
  \* the *Container: req.Cleanups, isRunning, the goroutine that follows the logs
  cleanups, isRunning, follower,
  \* the callers: where each is, on which handle, the cleanups it has yet to run
  at, on, todo,
  \* observation: what a caller's last Terminate returned, and whether every
  \* command of it ended without a failure; the runs some Terminate released
  said, clean, released,
  \* bounds
  faults, calls

daemon == <<container, network, image>>
run == <<req, pc, ret, version, cleanups>>
caller == <<at, on, todo, said, clean, released, calls>>
vars == <<daemon, run, ctx, isRunning, follower, caller, faults>>

ContainerStates == {"none", "created", "running", "stopped", "gone"}
ObjectStates == {"none", "exists", "gone"}
RunLabels == {"customize", "validate", "version", "build", "create", "copy",
              "start", "started", "logs", "wait", "returned"}
CallLabels == {"idle", "start", "started", "stop", "stopped",
               "termStop", "termDelete", "termClean"}
Endings == {"ok", "absent", "fail"}

Init ==
  /\ container = [r \in Runs |-> "none"]
  /\ network = [r \in Runs |-> "none"]
  /\ image = [r \in Runs |-> "none"]
  /\ req \in [Runs -> Requests]
  /\ ctx = [r \in Runs |-> "live"]
  /\ pc = [r \in Runs |-> "customize"]
  /\ ret = [r \in Runs |-> "none"]
  /\ version = "unchecked"
  /\ cleanups = [r \in Runs |-> <<>>]
  /\ isRunning = [r \in Runs |-> FALSE]
  /\ follower = [r \in Runs |-> "none"]
  /\ at = [k \in Callers |-> "idle"]
  /\ on \in [Callers -> Runs]
  /\ todo = [k \in Callers |-> <<>>]
  /\ said = [k \in Callers |-> "none"]
  /\ clean = [k \in Callers |-> TRUE]
  /\ released = {}
  /\ faults = 0
  /\ calls = 0

-----------------------------------------------------------------------------
(* One invocation of the binary through commandRunner.                     *)

Present(s) == s \in {"created", "running", "stopped", "exists"}

(* A command run under the context of r, or under context.Background() when bg.
   The daemon would take the object from old to new; e is the ending the code
   sees and after the state the object is left in.  A command ends well, finds
   no such object, or fails: by a fault of the daemon or of a local file, because
   the context expired and killed the child (either may come before or after the
   daemon acted), or because the context had expired before the child started. *)
Command(bg, r, present, old, new, e, after) ==
  \/ /\ bg \/ ctx[r] = "live"
     /\ e = IF present THEN "ok" ELSE "absent"
     /\ after = IF present THEN new ELSE old
     /\ UNCHANGED <<ctx, faults>>
  \/ /\ bg \/ ctx[r] = "live"
     /\ faults < MaxFaults
     /\ e = "fail"
     /\ after = old \/ (present /\ after = new)
     /\ faults' = faults + 1
     /\ UNCHANGED ctx
  \/ /\ ~bg /\ ctx[r] = "live"
     /\ e = "fail"
     /\ after = old \/ (present /\ after = new)
     /\ ctx' = [ctx EXCEPT ![r] = "done"]
     /\ UNCHANGED faults
  \/ /\ ~bg /\ ctx[r] = "done"
     /\ e = "fail"
     /\ after = old
     /\ UNCHANGED <<ctx, faults>>

\* Mutants: no error, or every error, is taken for "not found".
NothingIsNotFound(e) == FALSE
AnyErrorIsNotFound(e) == e # "ok"

\* isNotFoundError: the error says the object does not exist.
IsNotFound(e) == e = "absent"

-----------------------------------------------------------------------------
(* Run: each step either goes on or returns (nil, err), (c, err), (c, nil). *)

Advance(r, ok, next, otherwise) ==
  /\ pc' = [pc EXCEPT ![r] = IF ok THEN next ELSE "returned"]
  /\ ret' = [ret EXCEPT ![r] = IF ok THEN @ ELSE otherwise]

Return(r, what) == Advance(r, FALSE, "returned", what)

\* Mutant: the list is overwritten.
RegisterLast(r, ok, object) ==
  cleanups' = [cleanups EXCEPT ![r] = IF ok THEN <<object>> ELSE @]

\* req.Cleanups = append(req.Cleanups, ...), once the object is known to exist
Register(r, ok, object) ==
  cleanups' = [cleanups EXCEPT ![r] = IF ok THEN Append(@, object) ELSE @]

\* The customizers: WithNewNetwork creates its network while the options are applied.
Customize(r) ==
  /\ pc[r] = "customize"
  /\ \/ /\ req[r].network
        /\ \E e \in Endings, s \in ObjectStates :
             /\ Command(FALSE, r, TRUE, network[r], "exists", e, s)
             /\ network' = [network EXCEPT ![r] = s]
             /\ Register(r, e = "ok", "network")
             /\ Advance(r, e = "ok", "validate", "nil")
     \/ /\ ~req[r].network
        /\ Advance(r, TRUE, "validate", "nil")
        /\ UNCHANGED <<network, cleanups, ctx, faults>>
  /\ UNCHANGED <<container, image, req, version, isRunning, follower, caller>>

\* A later customizer or Validate may refuse the request.
Validate(r) ==
  /\ pc[r] = "validate"
  /\ Advance(r, req[r].valid, "version", "nil")
  /\ UNCHANGED <<daemon, req, version, cleanups, ctx, isRunning, follower, caller, faults>>

\* sync.Once: the first Run asks the binary, every Run reads the verdict it left.
NeedsVersionCheck == version = "unchecked"

VersionCheck(r) ==
  /\ pc[r] = "version"
  /\ \/ /\ NeedsVersionCheck
        /\ \E e \in Endings : /\ Command(FALSE, r, TRUE, "none", "none", e, "none")
                              /\ version' = IF e = "ok" THEN "ok" ELSE "err"
     \/ /\ ~NeedsVersionCheck
        /\ UNCHANGED <<version, ctx, faults>>
  /\ Advance(r, version' = "ok", "build", "nil")
  /\ UNCHANGED <<daemon, req, cleanups, isRunning, follower, caller>>

Build(r) ==
  /\ pc[r] = "build"
  /\ \/ /\ req[r].build
        /\ \E e \in Endings, s \in ObjectStates :
             /\ Command(FALSE, r, TRUE, image[r], "exists", e, s)
             /\ image' = [image EXCEPT ![r] = s]
             /\ Register(r, e = "ok" /\ ~req[r].keep, "image")
             /\ Advance(r, e = "ok", "create", "nil")
     \/ /\ ~req[r].build
        /\ Advance(r, TRUE, "create", "nil")
        /\ UNCHANGED <<image, cleanups, ctx, faults>>
  /\ UNCHANGED <<container, network, req, version, isRunning, follower, caller>>

\* CreateContainer.  A cidfile that cannot be read back, or is empty, is a failure
\* after the daemon made the container.
CreateContainer(r) ==
  /\ pc[r] = "create"
  /\ \E e \in Endings, s \in ContainerStates :
       /\ Command(FALSE, r, TRUE, container[r], "created", e, s)
       /\ container' = [container EXCEPT ![r] = s]
       /\ Advance(r, e = "ok", "copy", "nil")
  /\ UNCHANGED <<network, image, req, version, cleanups, isRunning, follower, caller>>

CopyFiles(r) ==
  /\ pc[r] = "copy"
  /\ \/ /\ req[r].files
        /\ \E e \in Endings : /\ Command(FALSE, r, Present(container[r]), "none", "none", e, "none")
                              /\ Advance(r, e = "ok", "start", "err")
     \/ /\ ~req[r].files
        /\ Advance(r, TRUE, "start", "err")
        /\ UNCHANGED <<ctx, faults>>
  /\ UNCHANGED <<daemon, req, version, cleanups, isRunning, follower, caller>>

\* Mutant: a start that fails returns no handle.
StartFailureDropsHandle(r) ==
  /\ pc[r] = "start"
  /\ \E e \in Endings, s \in ContainerStates :
       /\ Command(FALSE, r, Present(container[r]), container[r], "running", e, s)
       /\ container' = [container EXCEPT ![r] = s]
       /\ Advance(r, e = "ok", "started", "nil")
  /\ UNCHANGED <<network, image, req, version, cleanups, isRunning, follower, caller>>

StartContainer(r) ==
  /\ pc[r] = "start"
  /\ \E e \in Endings, s \in ContainerStates :
       /\ Command(FALSE, r, Present(container[r]), container[r], "running", e, s)
       /\ container' = [container EXCEPT ![r] = s]
       /\ Advance(r, e = "ok", "started", "err")
  /\ UNCHANGED <<network, image, req, version, cleanups, isRunning, follower, caller>>

MarkRunning(r) ==
  /\ pc[r] = "started"
  /\ isRunning' = [isRunning EXCEPT ![r] = TRUE]
  /\ Advance(r, TRUE, "logs", "err")
  /\ UNCHANGED <<daemon, req, version, cleanups, ctx, follower, caller, faults>>

\* The log stream is opened under a context of its own, derived from Background.
FollowLogs(r) ==
  /\ pc[r] = "logs"
  /\ \/ /\ req[r].logs
        /\ \E e \in Endings :
             /\ Command(TRUE, r, TRUE, "none", "none", e, "none")
             /\ follower' = [follower EXCEPT ![r] = IF e = "ok" THEN "on" ELSE @]
             /\ Advance(r, e = "ok", "wait", "err")
     \/ /\ ~req[r].logs
        /\ Advance(r, TRUE, "wait", "err")
        /\ UNCHANGED <<follower, ctx, faults>>
  /\ UNCHANGED <<daemon, req, version, cleanups, isRunning, caller>>

\* WaitUntilReady ends well or not; the strategies have modules of their own.
WaitReady(r) ==
  /\ pc[r] = "wait"
  /\ \E what \in {"ok", "err"} : Return(r, what)
  /\ UNCHANGED <<daemon, req, version, cleanups, ctx, isRunning, follower, caller, faults>>

RunStep(r) ==
  \/ Customize(r) \/ Validate(r) \/ VersionCheck(r) \/ Build(r)
  \/ CreateContainer(r) \/ CopyFiles(r) \/ StartContainer(r) \/ MarkRunning(r)
  \/ FollowLogs(r) \/ WaitReady(r)

-----------------------------------------------------------------------------
(* The methods of *Container.                                              *)

HasHandle(r) == ret[r] \in {"ok", "err"}

Enter(k, r, label) ==
  /\ at[k] = "idle" /\ HasHandle(r) /\ calls < MaxCalls
  /\ at' = [at EXCEPT ![k] = label]
  /\ on' = [on EXCEPT ![k] = r]
  /\ said' = [said EXCEPT ![k] = "none"]
  /\ clean' = [clean EXCEPT ![k] = TRUE]
  /\ calls' = calls + 1

\* Mutant: every caller's command runs under the context given to Run.
CommandUnderRunContext(k, new, e) ==
  LET r == on[k] IN
  /\ \E s \in ContainerStates :
       /\ Command(FALSE, r, Present(container[r]), container[r], new, e, s)
       /\ container' = [container EXCEPT ![r] = s]
  /\ UNCHANGED <<network, image>>

\* A caller's command on the container of its handle.
ContainerCommand(k, new, e) ==
  LET r == on[k] IN
  /\ \E s \in ContainerStates :
       /\ Command(k \in Background, r, Present(container[r]), container[r], new, e, s)
       /\ container' = [container EXCEPT ![r] = s]
  /\ UNCHANGED <<network, image>>

Goto(k, label) == at' = [at EXCEPT ![k] = label]

\* Start and Stop: the command, then, if it ended well, the store to isRunning.
BeginStart(k, r) ==
  /\ Enter(k, r, "start")
  /\ UNCHANGED <<daemon, run, ctx, isRunning, follower, todo, released, faults>>

BeginStop(k, r) ==
  /\ Enter(k, r, "stop")
  /\ UNCHANGED <<daemon, run, ctx, isRunning, follower, todo, released, faults>>

AfterStop(s) == IF s = "running" THEN "stopped" ELSE s

StartCommand(k) ==
  /\ at[k] = "start"
  /\ \E e \in Endings : /\ ContainerCommand(k, "running", e)
                        /\ Goto(k, IF e = "ok" THEN "started" ELSE "idle")
  /\ UNCHANGED <<run, isRunning, follower, on, todo, said, clean, released, calls>>

StopCommand(k) ==
  /\ at[k] = "stop"
  /\ \E e \in Endings : /\ ContainerCommand(k, AfterStop(container[on[k]]), e)
                        /\ Goto(k, IF e = "ok" THEN "stopped" ELSE "idle")
  /\ UNCHANGED <<run, isRunning, follower, on, todo, said, clean, released, calls>>

StoreRunning(k) ==
  /\ at[k] \in {"started", "stopped"}
  /\ isRunning' = [isRunning EXCEPT ![on[k]] = (at[k] = "started")]
  /\ Goto(k, "idle")
  /\ UNCHANGED <<daemon, run, ctx, follower, on, todo, said, clean, released, calls, faults>>

\* Mutant: the log context is not cancelled.
NotCancelled(s) == s

\* Terminate: isRunning is cleared and the log context cancelled before any command.
Cancelled(s) == IF s = "on" THEN "cancelled" ELSE s

BeginTerminate(k, r) ==
  /\ Enter(k, r, "termStop")
  /\ isRunning' = [isRunning EXCEPT ![r] = FALSE]
  /\ follower' = [follower EXCEPT ![r] = Cancelled(@)]
  /\ UNCHANGED <<daemon, run, ctx, todo, released, faults>>

\* A stop that fails is logged and otherwise ignored.
TerminateStop(k) ==
  /\ at[k] = "termStop"
  /\ \E e \in Endings :
       /\ ContainerCommand(k, AfterStop(container[on[k]]), e)
       /\ clean' = [clean EXCEPT ![k] = @ /\ e # "fail"]
  /\ Goto(k, "termDelete")
  /\ UNCHANGED <<run, isRunning, follower, on, todo, said, released, calls>>

\* A delete that fails ends Terminate, unless the container was not found.
TerminateDelete(k) ==
  /\ at[k] = "termDelete"
  /\ \E e \in Endings :
       /\ ContainerCommand(k, "gone", e)
       /\ clean' = [clean EXCEPT ![k] = @ /\ e # "fail"]
       /\ IF e = "ok" \/ IsNotFound(e)
          THEN /\ Goto(k, "termClean")
               /\ todo' = [todo EXCEPT ![k] = cleanups[on[k]]]
               /\ UNCHANGED said
          ELSE /\ Goto(k, "idle")
               /\ said' = [said EXCEPT ![k] = "err"]
               /\ UNCHANGED todo
  /\ UNCHANGED <<run, isRunning, follower, on, released, calls>>

\* The cleanups run in order; one that fails is logged and the next one runs.
TerminateCleanup(k) ==
  LET r == on[k] IN
  /\ at[k] = "termClean"
  /\ todo[k] # <<>>
  /\ \E e \in Endings, s \in ObjectStates :
       \/ /\ Head(todo[k]) = "network"
          /\ Command(k \in Background, r, Present(network[r]), network[r], "gone", e, s)
          /\ network' = [network EXCEPT ![r] = s]
          /\ clean' = [clean EXCEPT ![k] = @ /\ e # "fail"]
          /\ UNCHANGED image
       \/ /\ Head(todo[k]) = "image"
          /\ Command(k \in Background, r, Present(image[r]), image[r], "gone", e, s)
          /\ image' = [image EXCEPT ![r] = s]
          /\ clean' = [clean EXCEPT ![k] = @ /\ e # "fail"]
          /\ UNCHANGED network
  /\ todo' = [todo EXCEPT ![k] = Tail(@)]
  /\ UNCHANGED <<container, run, isRunning, follower, at, on, said, released, calls>>

TerminateReturn(k) ==
  /\ at[k] = "termClean"
  /\ todo[k] = <<>>
  /\ Goto(k, "idle")
  /\ said' = [said EXCEPT ![k] = "nil"]
  /\ released' = released \cup {on[k]}
  /\ UNCHANGED <<daemon, run, ctx, isRunning, follower, on, todo, clean, calls, faults>>

CallStep(k) ==
  \/ StartCommand(k) \/ StopCommand(k) \/ StoreRunning(k)
  \/ TerminateStop(k) \/ TerminateDelete(k) \/ TerminateCleanup(k) \/ TerminateReturn(k)

-----------------------------------------------------------------------------
(* The environment: contexts expire, the container's process exits, the daemon
   removes a stopped container (it was created with --rm), log streams end.  *)

Expire(r) ==
  /\ ctx[r] = "live"
  /\ ctx' = [ctx EXCEPT ![r] = "done"]
  /\ UNCHANGED <<daemon, run, isRunning, follower, caller, faults>>

ProcessExit(r) ==
  /\ container[r] = "running"
  /\ container' = [container EXCEPT ![r] = "stopped"]
  /\ UNCHANGED <<network, image, run, ctx, isRunning, follower, caller, faults>>

AutoRemove(r) ==
  /\ container[r] = "stopped"
  /\ container' = [container EXCEPT ![r] = "gone"]
  /\ UNCHANGED <<network, image, run, ctx, isRunning, follower, caller, faults>>

\* The copying goroutine ends with its stream: killed by the cancelled context, or
\* because there is no longer a container to follow.
FollowerEnds(r) ==
  /\ \/ follower[r] = "cancelled"
     \/ follower[r] = "on" /\ container[r] = "gone"
  /\ follower' = [follower EXCEPT ![r] = "ended"]
  /\ UNCHANGED <<daemon, run, ctx, isRunning, caller, faults>>

\* Nobody reads the stderr of the log command: once it has written there, Wait waits for
\* that byte to be copied, the pipe of its stdout is not closed, and the stream never ends.
StreamJams(r) ==
  /\ follower[r] \in {"on", "cancelled"}
  /\ follower' = [follower EXCEPT ![r] = "jammed"]
  /\ UNCHANGED <<daemon, run, ctx, isRunning, caller, faults>>

Environment(r) == Expire(r) \/ ProcessExit(r) \/ AutoRemove(r) \/ StreamJams(r)

Next ==
  \/ \E r \in Runs : RunStep(r) \/ Environment(r) \/ FollowerEnds(r)
  \/ \E k \in Callers, r \in Runs : BeginStart(k, r) \/ BeginStop(k, r) \/ BeginTerminate(k, r)
  \/ \E k \in Callers : CallStep(k)

Spec == Init /\ [][Next]_vars

\* Every command ends (the binary exits, or its context kills it) and goroutines
\* keep running; nobody is obliged to call a method, and contexts need not expire.
Fairness ==
  /\ \A r \in Runs : WF_vars(RunStep(r)) /\ WF_vars(FollowerEnds(r))
  /\ \A k \in Callers : WF_vars(CallStep(k))

FairSpec == Spec /\ Fairness
-----------------------------------------------------------------------------
(* Properties.                                                             *)

\* Every variable stays in its type.
TypeOK ==
  /\ container \in [Runs -> ContainerStates]
  /\ network \in [Runs -> ObjectStates]
  /\ image \in [Runs -> ObjectStates]
  /\ req \in [Runs -> Requests]
  /\ ctx \in [Runs -> {"live", "done"}]
  /\ pc \in [Runs -> RunLabels]
  /\ ret \in [Runs -> {"none", "nil", "err", "ok"}]
  /\ version \in {"unchecked", "ok", "err"}
  /\ cleanups \in [Runs -> Seq({"network", "image"})]
  /\ isRunning \in [Runs -> BOOLEAN]
  /\ follower \in [Runs -> {"none", "on", "cancelled", "jammed", "ended"}]
  /\ at \in [Callers -> CallLabels]
  /\ on \in [Callers -> Runs]
  /\ todo \in [Callers -> Seq({"network", "image"})]
  /\ said \in [Callers -> {"none", "nil", "err"}]
  /\ clean \in [Callers -> BOOLEAN]
  /\ released \subseteq Runs
  /\ faults \in Nat
  /\ calls \in Nat

\* Once some Terminate of a handle returned nil, and from the moment any Terminate
\* is past its delete, the container is gone and stays gone, whatever Start, Stop
\* and Terminate calls of other goroutines are in flight (container.go:301-324).
ReleasedMeansGone ==
  \A r \in Runs :
    (r \in released \/ \E k \in Callers : on[k] = r /\ at[k] = "termClean")
      => container[r] = "gone"

\* "Terminate is idempotent" (container.go:300): a Terminate whose commands did not
\* fail returns nil, also when --rm or another Terminate removed the container first.
TerminateFailsOnlyOnFailure ==
  \A k \in Callers : said[k] = "err" => ~clean[k]

\* A Terminate that returns nil, and of which no command failed, leaves nothing
\* behind: the container is gone, and so are the network WithNewNetwork made and the
\* image Run built and was not asked to keep.
CleanTerminateLeavesNothing ==
  \A k \in Callers :
    said[k] = "nil" /\ clean[k] =>
      /\ container[on[k]] = "gone"
      /\ network[on[k]] # "exists"
      /\ image[on[k]] = "exists" => req[on[k]].keep

\* A container that was started is always in somebody's reach: the Run that started
\* it is still going on, or it returned a handle, also when it returned an error.
NoOrphanRuns ==
  \A r \in Runs : ret[r] = "nil" => container[r] \in {"none", "created"}

\* A handle knows how to remove everything Run made for it: a network or an image
\* that exists is among its cleanups, the image unless it is to be kept.
Registered(r, object) == \E i \in DOMAIN cleanups[r] : cleanups[r][i] = object

HandleOwnsWhatRunMade ==
  \A r \in Runs : HasHandle(r) =>
    /\ network[r] = "exists" => Registered(r, "network")
    /\ image[r] = "exists" => req[r].keep \/ Registered(r, "image")

\* What makes the safety properties inductive.  A run has returned exactly when it has
\* something to return; its container exists from its creation on; and what it made is
\* registered, unless it returned no handle.
BeforeCreate == {"customize", "validate", "version", "build", "create"}

RunSafe(r) ==
  /\ pc[r] = "returned" <=> ret[r] # "none"
  /\ pc[r] \in BeforeCreate => container[r] = "none"
  /\ pc[r] \notin BeforeCreate /\ ret[r] # "nil" => container[r] # "none"
  /\ ret[r] = "nil" => container[r] \in {"none", "created"}
  /\ ret[r] # "nil" /\ network[r] = "exists" => Registered(r, "network")
  /\ ret[r] # "nil" /\ image[r] = "exists" => req[r].keep \/ Registered(r, "image")

\* A call is on a handle; past its delete the container is gone, and what it has not
\* removed yet is still on its list.
Listed(k, object) == \E i \in DOMAIN todo[k] : todo[k][i] = object

CallSafe(k) ==
  /\ at[k] # "idle" => HasHandle(on[k]) /\ said[k] = "none"
  /\ at[k] = "termClean" => container[on[k]] = "gone"
  /\ said[k] = "nil" => on[k] \in released
  /\ said[k] = "err" => ~clean[k]
  /\ at[k] = "termClean" /\ clean[k] =>
       /\ network[on[k]] = "exists" => Listed(k, "network")
       /\ image[on[k]] = "exists" => req[on[k]].keep \/ Listed(k, "image")
  /\ said[k] = "nil" /\ clean[k] =>
       /\ network[on[k]] # "exists"
       /\ image[on[k]] = "exists" => req[on[k]].keep

ReleasedSafe(r) == r \in released => HasHandle(r) /\ container[r] = "gone"

\* The inductive invariant: the safety properties above, and what they rest on.
SafetyInv ==
  /\ TypeOK
  /\ \A r \in Runs : RunSafe(r) /\ ReleasedSafe(r)
  /\ \A k \in Callers : CallSafe(k)

\* No step removes a network or an image before the container that uses it is gone:
\* the cleanups wait for the delete, and a delete that fails skips them.
ContainerGoesFirst ==
  [][\A r \in Runs :
       \/ network[r] = "exists" /\ network'[r] = "gone"
       \/ image[r] = "exists" /\ image'[r] = "gone"
       => container[r] = "gone"]_vars

\* Termination with context.Background(), as CleanupContainer does it, gets rid of the
\* container and of everything registered with it, even when the context Run was given
\* has expired, unless a command of the daemon failed.
Released(r) == container[r] = "gone" /\ ~Present(network[r]) /\ (Present(image[r]) => req[r].keep)

BackgroundTerminateReleases ==
  \A k \in Background, r \in Runs :
    (at[k] = "termStop" /\ on[k] = r) ~> (Released(r) \/ faults > 0)

\* The goroutine that copies the logs ends once Terminate has begun, also when the
\* container cannot be deleted, unless its command wrote to the stderr nobody reads.
TerminateEndsFollower ==
  \A k \in Callers, r \in Runs :
    (at[k] = "termStop" /\ on[k] = r) ~> (follower[r] \in {"none", "ended", "jammed"})

\* Run and the handle keep the lease on what was made (Lease): whoever returned owns it,
\* nothing that was started is abandoned, only a handle removes, the container first,
\* and never an image that is to be kept (applecontainer.go:56-170, container.go:300-324).
Owner(r) == IF ret[r] = "none" THEN "run" ELSE IF ret[r] = "nil" THEN "nobody" ELSE "handle"

Use(s) == IF s = "created" THEN "idle" ELSE IF s \in {"running", "stopped"} THEN "started" ELSE s

Promise == INSTANCE Lease WITH
  owner <- [r \in Runs |-> Owner(r)],
  container <- [r \in Runs |-> Use(container[r])],
  keep <- [r \in Runs |-> req[r].keep]

KeepsLease == Promise!Spec
=============================================================================
