# Verification of applecontainer-go

TLA+ models of the library, their model checking with TLC, and proofs about them with
TLAPS. Source references are to files of the repository; `C` stands for `container.go`,
`A` for `applecontainer.go`, `P` for `provider.go`.

## The system

The library runs Apple's `container` binary for Go tests. It keeps almost no state of its
own: the containers, networks and images live in the daemon behind the binary, every
operation is one or more child processes under a `context.Context`, and what makes it hard
is what happens between two of them.

| component | state | operations | talks to |
|---|---|---|---|
| **Run** (`A`) | the verdict behind `versionOnce`; the request it builds | customize, validate, check the version, build, create, copy files, start, follow logs, wait | every component below |
| **Container handle** (`C`) | `isRunning`, `logCancel`, `req.Cleanups` | `Start`, `Stop`, `Terminate`, `CleanupContainer`; `CopyToContainer`, `CopyFileToContainer`; `Exec`, `Logs`, `Host`, `MappedPort`, `State`... | provider; used by several goroutines |
| **Provider** (`P`) | temporary files, one per call | one binary invocation per method, endings read as ok / not found / error | command runner, file system |
| **Command runner** (`cli.go`) | none | `Run` under a context; `Start` with a pipe, a goroutine in `cmd.Wait` | the binary |
| **Networks** (`network.go`) | a name | `NewNetwork`, `Remove`, `WithNewNetwork` (registers a cleanup) | provider, Run |
| **Version check, configuration** (`config.go`) | the parsed configuration, cached | parse, compare, read | Run |
| **Requests, options** (`options.go`, `args.go`) | a `ContainerRequest`, whose slices may share arrays with the caller's | setters, `Validate`, the arguments of `create`, ports to publish | Run, provider |
| **Strategies** (`wait/*.go`) | per call only | `WaitUntilReady(ctx, target)` | the handle, as `StrategyTarget` |
| **Test helpers** (`testing.go`) | none | `CleanupContainer`, `CleanupNetwork` on `t.Cleanup` | handle, networks |
| **Volumes, exec options, inspect types, logger** | none to speak of | two independent commands; setters; JSON decoding; formatting | provider |

How they interact. `Run` applies its options to a request of its own, creates things in the
daemon one after the other and returns `(nil, err)` up to the create and `(c, err)` or
`(c, nil)` from then on; everything made on the way is to be removed by a function in
`req.Cleanups`, which only the handle holds. `Terminate` may be called by several goroutines,
twice, or against a container that `--rm` has removed; a test typically calls it twice, once
deferred and once through `t.Cleanup`. A strategy is called by `Run` with Run's context and
calls back into the handle; `ForAll` and `ForAny` call strategies, `ForAny` in goroutines.

What is hard here: a context that ends between a command and the statement after it; a
command that fails after the daemon has acted; a store to `isRunning` after the command it
reports; two `Terminate`s; cleanups registered in one order and run in the other; a slice
whose array somebody else appends to; a file that changes between a look at it and a copy; a
`select` with several ready channels; goroutines that must end after their caller has gone;
an error read as an answer. Each such place is a hazard in `PROJECT.json`, with the
properties that cover it or the reason none does.

What makes each part correct:

- *Run and the handle*: nothing that was started is out of reach; a handle can remove
  everything its `Run` made; `Terminate` is idempotent, removes the container before what it
  uses, leaves nothing when its commands succeed, and ends the log goroutine.
- *A test*: if it kept the handle it got, nothing is left, wherever it failed.
- *Requests*: `create` is told what the options say, also while other Runs use the same ones.
- *Transfers*: no temporary file is left; what arrives is whole and as it was asked for.
- *Every strategy*: nil only if what is waited for has been the case (`ForExit` and a UDP port
  do not keep to that, see below); one verdict; a return once the context has ended.
- *ForAny, ForLog*: also that no goroutine outlives the call, and no line is lost.

## The models

| module | models | relation to others |
|---|---|---|
| `Lease` | who owns what a `Run` makes, and who may remove it | abstract |
| `Lifecycle` | `Run`, the handle's `Start`, `Stop`, `Terminate`, provider, runner, daemon | refines `Lease` |
| `TestScope` | tests: `t.Cleanup`, deferred calls, networks of their own | extends `Lifecycle`, whose behaviours contain its own |
| `Requests` | options, `Validate`, what `create` is told; slices over shared arrays | states what options mean and compares |
| `Transfer` | files into and out of a container, temporary files, the cidfile | - |
| `Ports` | exposed ports: allocation, publication, `MappedPort`, `Endpoint` | - |
| `WaitContract` | what `Strategy` promises (`wait/wait.go`) | abstract |
| `AnyWait` | `ForAnyStrategy` | refines `WaitContract` |
| `AllWait` | `ForAllStrategy`, over strategies that keep `WaitContract` | refines `WaitContract` |
| `NestedWait` | a `ForAll` whose first strategy is a `ForAny` | extends `AnyWait`, instantiates `AllWait`, whose behaviours contain its own |
| `LogWait` | `LogStrategy` with the stream under it | refines `WaitContract` |
| `PollWait` | the seven polling strategies | refines `WaitContract` |
| `MC*` | the instances TLC checks | |
| `*Proofs` | the theorems | |

Names of definitions follow the methods and variables of the code where there is one;
`map` in `PROJECT.json` gives file and lines for each.

**Lifecycle.** One `Run` per element of `Runs`, its label in `pc` and what it returned in
`ret`; goroutines in `Callers`, their labels in `at`. One action per statement that can be
interleaved: a command and the branch on its ending are one action, because the code keeps
no state between them; the store to `isRunning` after it is another. `Command` is one child
process: it ends well, finds no such object, or fails. It fails because the daemon or a
local file does (before or after the daemon acted), because the context expires and kills
it (also before or after), or because the context had ended and nothing was started. A
cidfile that cannot be read is a failure after the create. A request is a record of what
matters to the control: whether it makes a network, builds an image, keeps it, is valid, has
files to copy, has log consumers. `req.Cleanups` is the sequence of what its functions
remove. The daemon is external: it is a state per object, changed by commands, by the
process's exit and by `--rm`. `said`, `clean` and `released` only observe.

**Lease.** Everything a `Run` makes has one owner: the Run, then the handle it returns, or
nobody if it returns none. It says what may be abandoned (nothing that was started), who
removes (the handle; a container may also go by itself), in which order (the container before
what it uses) and what is never removed (a kept image). `KeepsLease` maps `pc` and `ret` to the
owner, and "created" and "stopped or running" to idle and started.

**TestScope.** A test is named by its Run; it may make a network of its own, calls `Run`,
registers `CleanupContainer` and `CleanupNetwork`, and ends or fails anywhere. Then its
deferred calls run, the last of them `cancel()`, and then the stack of `t.Cleanup`, last in
first out. `style` says how the test is written: with the network or without, which cleanup
it registers first, whether it defers `c.Terminate(ctx)`, and whether it registers the
container before it looks at the error of `Run`, after, or never; the styles that are checked
are those of `examples/network_test.go`, of the README, and two variants of them. The two callers of
a test are its deferred call, under the test's context, and its cleanup, under
`context.Background()`. The `testing` package is external.

**Requests.** An option is what it does to its field: set it, merge keys into a map, keep the
caller's slice, or append to the request's slice. A slice is an array of the caller's with a
length, or elements of its own: appending to the former writes into the array if there is room
behind it, as in Go, and both Runs and caller see that. The customizers of two Runs, their
`Validate` and the reading of the request for `create` interleave. The properties compare with
`ListAsked`, `MapAsked`, `ScalarAsked` and `Acceptable`, which say what a list of options
means without going through it in the code's order, and all of what it means: an entrypoint is
all its words. `EveryOptionReachesCreate` asks for that, and the code does not give it.
`ToldWhatItAsked` asks for it with two exceptions, which it names: of an entrypoint of several words
`create` may be told the first one (`AsAsked`), and fields that no argument is made from
(`NotPassed`) are left out. It also excuses a field one of whose arrays somebody
wrote to (`Undisturbed`), except the Run itself to an array that it was given once: `WithCmd`
and `WithEntrypoint` with slices of one array, and `WithCmdArgs` after them, can spoil the entrypoint
without any other Run. Fields are those on which something
depends; the others of the same kind are treated alike by the code.

**Transfer.** `CopyToContainer` (bytes), `CopyFileToContainer` (file), `CopyFileFromContainer`
(from), `ForFile`'s probes (probe) and the cidfile of `CreateContainer` (create), several at
once. Contents are version numbers: `Given` is what the caller passed, `Partial` what a failed
copy left. The host file may change, vanish or lose a mode between any two steps, which other
processes do (`EditHost`); `container cp` is external and modelled as `Copy`: it copies data and mode, or
fails and leaves anything between nothing and the whole.

**Ports.** `buildCreateArgs` visits the exposed ports in turn; for one that has no host port
yet it listens on TCP port 0, closes the listener, notes the port and publishes it. Listening
and closing are two actions, and between the close and the start anybody may take the port.
The socket table of the host (`holder`) is external: one holder per protocol and port; a start
binds all published ports or is refused. What is published stays in the order of the arguments, and
`MappedPort` takes the first entry of its port and protocol. It and `Endpoint` change nothing and are
operators. The direct mode publishes nothing.

**AnyWait.** A goroutine per strategy (`routine`), the buffered `successChan` (`buffer`),
the derived context, `doneChan`, and the caller with its select: with several channels ready
any may be taken, with none the select parks and the first event wakes it. A send to a
parked receiver bypasses the buffer, as it does in Go.

**AllWait.** The loop over the strategies with the optional deadline; a strategy here is
`WaitContract`'s step: ready when its condition has held during its turn, or an error.

**NestedWait.** `ForAll` over a `ForAny` and other strategies, as `WithWaitStrategy` builds it of a
`ForAny` (`options.go`, lines 95 to 101, where the `ForAny` is the only one). The first turn is not `WaitContract`'s
step but all of `AnyWait`: ForAny's context is derived from ForAll's, its verdict ends the turn or
the wait, and the goroutines it leaves go on during the turns after it. What `ForAny` waits for is that one of
its strategies has been ready, or that it has none. `InnerStep` is a step of `AnyWait`; the others are
those of `AllWait`. The `ForAny` is there in each behaviour, so a `ForAll` of nothing is not.

**LogWait.** The log process, the pipe of its stdout, the scanning goroutine with the line
in hand, `lineChan`, `errChan`, and the counting loop. A line matches, does not, or is too
long for a `bufio.Scanner`. The stderr of `container logs -f` is a pipe nobody reads: after
one byte there `cmd.Wait` does not return and the stdout pipe is not closed (`cli.go`,
`execRunner.Start`); `Eof` says so. The scanner's error is sent after the channel is closed,
in that order: a caller that sees the channel closed before the error arrives returns `io.EOF`.

**PollWait.** The seven strategies share one loop (check the context, probe, select on
context and ticker) and differ in what they resolve first (`ResolveHost`, `ResolvePort`) and
what a probe makes of what it finds (`Finds`, `ReadyOnError`). `code` is the exit code of
`ForExec`'s command, and for the others 0 exactly if the service, file or health is there.
That a TCP dial, a request or a query succeeds exactly if its service is there is what the models take
a network to do. A dial of a UDP port (kind `udp`) sends nothing and succeeds whoever listens, so the first probe
does; what `ForListeningPort` waits for is still that the service is there.

## The runs

| run | question | bounds |
|---|---|---|
| `lifecycle` | do `Run` and the handle implement `Lease`, and does `Terminate` keep its promises with two goroutines on one handle, one of them with `context.Background()`? | 1 Run, 2 callers, 4 request shapes, 1 fault, 4 calls |
| `scope` | does a test that kept its handle leave nothing, and is what it kept released in the end? | 2 tests one after the other, 4 styles, 1 fault, 1 failing network command |
| `requests` | is `create` told what the options say, and who writes into whose array? | 2 Runs at once; an image and any 2 of 14 options that meet, and 5 other lists |
| `requests_told` | is `create` told everything an option asks for? **violated** | 1 Run with an entrypoint of two words and a network alias |
| `transfer` | temporary files, contents and modes | 2 calls of any of 5 kinds, 3 modes, 1 change of the host file |
| `ports` | is what is published, noted and held the same? | 2 Runs, 2 host ports, 6 lists of exposed ports |
| `nested` | do `ForAny` inside a `ForAll`, and that `ForAll`, keep their properties and the contract? | 3 strategies in the `ForAny`, any subset given; 1 to 3 in the `ForAll` |
| `any_success` | does one success make `ForAny` succeed? **violated** | 3 strategies, any subset given |
| `log` | does `LogWait` keep its properties and the contract? | 4 lines, channel of 2, occurrences 0 to 2 |
| `poll` | does `PollWait` keep its properties and the contract? | every strategy, TCP and UDP ports, both networking modes, 2 faults |
| `poll_exit` | does `ForExit`'s nil mean that the container stopped? **violated** | `ForExit`, no fault |
| `poll_exec` | does `ForExec` notice a code other than 0? **violated** | `ForExec` with a matcher for 1 |

Why the bounds are enough. Two callers give every race of two methods, and each step of one
touches one handle, so a second handle adds no interleaving with the first; the state that
two Runs share is `version` (`scope`), the caller's arrays (`requests`) and the host's ports
(`ports`). Four calls allow a `Terminate` by each caller and a `Start` or `Stop` around them;
one fault separates "no command failed" from "one did", and contexts may end at any point
besides. Tests take turns (`Parallel = FALSE`), because no test of the repository calls
`t.Parallel`; that a version check which ended with the context of the first test fails the
second, as its verdict is cached, is reached with two. Two options reach every way one application meets another, and two Runs
every way an array is shared. Two transfers share only the host file, and one change of it
falls between any two steps. With three strategies one can win
the channel, one find it full and one still wait, and with three turns `ForAny`'s goroutines outlive its
turn and meet one that ends and one that begins. A channel of two with four lines lets the
scanner overtake, fill the channel and block. Two faults let a probe fail twice in a row.
Two host ports run out with two Runs, or one Run and another process, and the lists hold every
way in which two exposed ports can be related. `MaxLate` only stops a counter above the value a
property forbids. The proofs below do not depend on any of them.

Symmetry: the two Runs of `requests` and the two calls of `transfer` are interchangeable, and
both runs check only safety.

Deadlock is not checked: every model ends in states in which all calls have returned.

### What the runs show

Holding, for every interleaving within the bounds:

- `KeepsLease`: nothing that was started is abandoned, nothing is removed before its container,
  a kept image stays, and only a handle removes. `Run` may abandon a network, an image or a
  container it created and never started, when a later step is refused or the create fails
  after the daemon acted; that is what `A`'s early returns do.
- `ReleasedMeansGone`: once a `Terminate` is past its delete or has returned nil, the
  container is gone, whatever `Start`, `Stop` or `Terminate` is in flight.
- `TerminateFailsOnlyOnFailure`, `CleanTerminateLeavesNothing`: idempotence and completeness.
- `BackgroundTerminateReleases`, `TerminateEndsFollower`: liveness of `Terminate`.
- `ScopeLeavesNothing`, `TestReleases`: tests. `ScopeLeavesNothing` needs its
  conditions, and each names a way to leave something: a test that drops the handle `Run` returned
  with an error, which the order of the network example does; a network registered
  after its container, which is removed while the container is attached; a container that `Run` lost,
  which keeps the network in use.
- `ToldWhatItAsked`, `OnlyCmdArgsWrites`: the only option that can make two Runs meet is
  `WithCmdArgs` after a `WithCmd` with room in its array. `ToldWhatItAsked` is weaker than the documents
  by the two exceptions it names (see `EveryOptionReachesCreate` below). Nothing that the run excuses can
  happen to a Run that has its arrays to itself.
- `NoTempLeft`, `ArrivesAsAsked`, `GetsWhatIsThere`: transfers.
- `PortsInv`, `EndpointReachesItsPort`, `RefusedOnlyIfTaken`: what is published, noted and held
  agree; the endpoint of a running container leads to it; a start is refused only over a port
  somebody else took meanwhile, or one published twice (which happens when a string is exposed
  twice, or when the kernel gives out the port it has just got back; both are in the model).
- `JoinedAfterAll`, `ParkedSelectIsExact`, `GoroutinesEnd`, `ReturnsAfterAll`: `ForAny`
  reads no slot of `errs` that may still be written, fails after parking only when it should,
  leaks no goroutine and cannot hang once its strategies have ended, also while a `ForAll` around
  it goes on or is ended by its deadline.
- `TurnsHold`, `OuterKeepsContract`: a `ForAll` over a `ForAny` gives each strategy its turn until it has
  been ready, and keeps the contract.
- `LogInv` (no line is lost, doubled or overtaken), `EofMeansTooFew`, `EnoughLinesEndTheWait`,
  `StreamEndEndsTheWait`, `ScannerEnds` for `ForLog`.
- `PollInv` (at most one probe after the end of the context), `GivesUpOnlyOnExpiry`,
  `LastingReadinessEndsTheWait` for the polling strategies.
- `KeepsContract` for `ForAny`, `ForLog` and the polling strategies: each implements `WaitContract`. Of `ForExit` and of
  a UDP port it shows only that they return once and in time: it counts them as met from
  the start (`SaysNothing`), because their nil may come before what they wait for.
- `SafetyInv`, `ScopeInv`, `TransferInv`, `TurnsHold`, `AnyInv`, `LogInv`, `PollInv`: the invariants
  the proofs rest on, checked as they stand.

Violated (`findings` in `PROJECT.json` quotes the documents):

- `AnySuccessSucceeds`: the goroutine that succeeds sends its token and cancels; a caller
  that has not parked by then finds both channels ready and may take `ctx.Done()`.
- `NilMeansMet`: `ForExit` takes every error for "the container is gone", also that its own
  context has ended during the inspect.
- `EveryOptionReachesCreate`: of `WithEntrypoint(entry...)` the first word reaches `create`, and of
  `WithNetwork(aliases, nw)` no alias does; nor do `WithUlimits`, `WithDNS`, `WithDNSDomain`,
  `WithDNSSearch`, `WithNoDNS` and `WithAlwaysPull`, whose fields are read nowhere.
- `LastingReadinessEndsTheWait` for a matcher that accepts a code other than 0: the code is
  an error before the matcher could see it.

### Fairness

Weak fairness throughout, and only of what the runtime provides: a goroutine that can take a
step takes one, a command ends (the binary exits, or its context kills it), a ticker with a
positive interval ticks. In `Lifecycle` nobody is obliged to call a method, no context is obliged to
end, no process to write or to exit; the goroutine that copies logs ends only if its
stream does, and `StreamJams` is the case in which it does not. In `TestScope` a test goes on as
long as it can (`WF` of `TestStep`): its body ends and its commands do. In `AnyWait` and
`NestedWait` a strategy is obliged to return only when its context has ended, which is what
`WaitContract` promises for it; ForAny's goroutines and the loop of `ForAll` are scheduled.

## The proofs

All are for every value of the constants. None of the safety properties is inductive alone;
each proof has one inductive invariant, one step per action and lemmas on the operators the
actions share.

`LifecycleProofs`: `TypeCorrect`; `SafetyInvariant`, for which one needs to know what exists at each
label of `Run` (`RunSafe`), that what is not removed yet is still on the caller's own list,
which was copied from the handle's after the delete (`CallSafe`), and that a container is
created at most once, before its handle exists (`ReleasedSafe`). From it `ReleasedIsGone`,
`TerminateIsIdempotent`, `NothingIsLeft`, `StartedIsReachable`, `HandlesOwn`, and the action
property `ContainersGoFirst`. The lemma `LeaseInvariant` adds that nothing exists before its
step of `Run` and that no list names an image that is to be kept; `LifecycleKeepsLease` is the
refinement, where each step of `Lifecycle` is a step of `Lease` or a stutter.

The rest of `LifecycleProofs` is about `TestScope`, which extends `Lifecycle`; only there is `CallersAssumption`
used. `TestsAreClients`, that a behaviour of the tests is a behaviour of
`Lifecycle`, so that every theorem above holds under tests; `ScopeInvariant`, that a handle
that was kept waits on the stack, is being terminated or has been (`HandleInReach`) and the
network waits below it (`NetworkBelow`, `NetworkInReach`); and `TestsLeaveNothing`, for any
number of tests, one after the other or in parallel.

`RequestsProofs`: `OnlyCommandsShare`. A list that no `assign` reaches has elements of its own or
is empty, so an `append` to it never has room in a caller's array. `RunsToldWhatTheyAsked`, from
`AskedInv`: the request is at each point what the options so far ask for (`AskedSoFar`), which is inductive
because what one more option asks for is what its action does (`ScalarAppend`, `MapAppend`,
`ListAppend`). Other Runs come in by the arrays only: a list is a slice of an array only if
this Run assigned it that array (`AssignedSoFar`), and who wrote to an array had assigned it to its command
(`WritersInv`), so an undisturbed field is read from arrays nobody wrote to, or behind what
it reads. Two lemmas are inductions over data, done without the induction theorems, as the least
counterexample of a well-founded order: that a set of options has a last one (`LatestFacts`), and what
`FlattenSeq` computes (`JoinExists`, `FlattenIsJoin`). The theorem says of the entrypoint and of the fields in `NotPassed` no more
than `ToldWhatItAsked` does. `AskedInv` is stated with its proof; on the instance of the run
`requests` it held before it was proved.

`PortsProofs`: `PortsInvariant`. `PortsInv` says of each Run what it holds at each label, that what is
left to publish is the end of its list of exposed ports, and that what it has visited and wants is published under
the port written down for it. Every action is one turn of the loop, one socket taken, or one given
back, so there is one lemma for a turn (`TurnKeeps`), one for a start (`StartBinds`) and one for
Runs that only look on. From it `EndpointsReachTheirPorts`, where the first of the
entries of a port exists because the indices are well-founded, and `RefusalsAreOthers`.

`TransferProofs`: `TransferInvariant` (the temporary file is there from its creation to its
removal, and each step finds what the ones before it left), and from it `NoTempIsLeft`,
`CopiesArriveAsAsked`, `CallsGetWhatIsThere`.

`AnyWaitProofs`, for any number of strategies: `AnyInvariant`; `JoinedSafe`; `ParkedSafe`, whose
argument is that until the select has chosen, an empty buffer means that no goroutine has got past
its send, so the context of a parked select can be cancelled only from outside; `ForAnyIsAStrategy`.

`NestedWaitProofs`, for any number of strategies of either: `TurnsInvariant` and
`ForAllIsAStrategy`, about `AllWait`, over any strategies that keep the contract; `InnerIsForAny`,
that what happens inside is a behaviour of `AnyWait`, whose theorems therefore hold there;
`OuterIsForAll`, that the whole is one of `AllWait`, where the point is that ForAny's nil,
which `AllWait` would grant only after its condition has held, does come after it (`AnyInv` gives that);
and from these `NestedTurnsHold` and `NestedIsAStrategy`.

`PollWaitProofs`: `PollInvariant`, `FailsOnlyOnExpiry`, `PollingIsAStrategy` (of `ForExit` and of a UDP
port with the exception above).

`LogWaitProofs`: `LogInvariant`, for any capacity and any number of lines: written, piped, in the
scanner's hand, in the channel and counted add up, in their order (`StreamSafe`); `EofIsHonest`;
`ForLogIsAStrategy`.

They assume only what the `ASSUME`s of the modules state, which is the type of the constants
and what sets the environment apart: `RequestsAssumption`, `BoundsAssumption` (`Lifecycle`);
`StylesAssumption`, `CallersAssumption` (`TestScope`); `PermsAssumption`, `KindsAssumption`,
`EditsAssumption`, `NoFileAssumption` (`Transfer`); `FieldsAssumption`, `ArraysAssumption`,
`ScriptsAssumption` (`Requests`); `PortsAssumption` (`Ports`); `MaxLenAssumption` (`NestedWait`); `LogAssumption`
(`LogWait`); `AsksAssumption`, `BoundsAssumption` (`PollWait`). `AnyWait` needs none. TLC evaluates each of them.

Every invariant and every action property that a passing run checks is proved. Only model-checked:
everything under fairness (the liveness properties and the fairness of `WaitContract`, which
`KeepsContract` of the strategies includes), which the provers cannot do, and the violations.

## Not modelled

- *Configuration* (`config.go`): a file and the environment, read once behind a `sync.Once`. It
  yields the path of the binary and a flag, on which no step depends. Parsing and comparing two
  version strings is a choice of good or bad.
- *`SessionID`, `Prune`, `GenericLabels`*: a random string read once, one command, a map of constants.
- *Volumes*: two independent commands; nothing registers them for removal.
- *Exec options, inspect types, logger*: setters, JSON types and decoding, formatting. A
  decoded answer is found, not found or failed.
- *`SkipIfProviderNotHealthy`*: asks the binary before the test has anything.
- *Benchmarks and examples*: they use the library in the ways `TestScope` has, or not
  concurrently. The wording of arguments and errors is left out everywhere.

Read in the code and outside the properties, each for the reason given:

- README.md:149 says of `ForListeningPort`: "Checks if a TCP/UDP port is open and listening." For a UDP
  port it does not: the dial succeeds with nobody there (`wait/port.go`, line 49). `PollWait` has the dial
  as it is and `KeepsContract` excuses it by name; that the nil comes too early can be read off the definition
  (`Finds`), so no run repeats it.
- README.md:152 says of `ForLog`: "Scans stdout/stderr logs". It reads the stdout of `container logs -f`;
  whether the binary prints the container's stderr there is its own affair.
- A scanner that ends with an error (a line too long) closes the channel before it sends
  the error: the caller may find the channel closed and no error yet, and returns `io.EOF` instead. `LogWait` has
  it; `EofMeansTooFew` is about streams without such a line.
- The scanning goroutine stays behind for ever if the caller has returned and more lines are left than
  the channel holds (`wait/log.go`, line 70): reached in `log`, and excused by `ScannerEnds`.
- The verdict of the version check is cached for the process, also one that only says that
  the context of the first Run ended: every later Run fails (`A`, lines 35 to 40). `Lifecycle` and
  `TestScope` have it. The comment asks for exactly one check, and that there is one is the guard of the action.
- "Not found" is read off the text of the error, in which "not found", "no such" and "does not exist" may
  stand for other reasons (`C`, lines 381 to 389). `IsNotFound` is exact: the wording of the binary is external.
- `isRunning` may stay true after a `Terminate` that overlapped the end of a `Start` (`C`, line
  286): `Lifecycle` reaches it, and nothing promises that `IsRunning` is current.
- Two Runs that build the same tag share an image (`A`, line 109), and one's `Terminate` deletes
  it: in `Lifecycle` images are per Run, and that deleting an image that is in use fails or not
  is up to the daemon.
- A poll interval of zero or less panics in `time.NewTicker` (`wait/health.go`, line 42, and the other
  polling strategies); the models have ticks, not times.
