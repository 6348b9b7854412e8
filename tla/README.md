# A TLA+ model of go-mesos-executor

go-mesos-executor is a Mesos executor: the Mesos agent starts one process per
task; the process subscribes to the agent's HTTP API, receives the task, runs it
as a Docker container, runs *hooks* around the container, checks its health, and
tells the agent what becomes of it. This directory holds TLA+ modules translated
from the Go code, TLC runs that check them on small instances, and proofs checked
by TLAPS. Paths below are relative to the repository; a number after a colon is a
line.

## 1. The system

| Component | State it keeps | Operations | Talks to |
|---|---|---|---|
| **Executor core** `executor/executor.go` | `Shutdown`, `UnackedUpdates`, `ContainerID`, `HealthChecker`, `TaskInfo`, the event stream | `Execute` (subscribe, decode, handle), `handleLaunch`, `handleKill`, `handleShutdown`, `handleAcknowledged`, `handleMessage`, `healthCheck`, `waitContainer`, `handleStopSignals`, `throwError`, `tearDown`, `updateStatus` | agent (HTTP calls, event stream), containerizer and hooks (calls), checker (channels) |
| **Health checker** `healthcheck/healthcheck.go` | ticker, grace flag, `ConsecutiveFailures`, four channels | `Run`, `checkHTTP`, `checkTCP`, `checkCommand` | core: sends `Healthy`, `Done`, `Exited`, receives `Quit` |
| **Containerizer** `container/` | none: the Docker daemon's | create, run, stop, remove, wait, PID, IPs by interface, exec | Docker daemon, network namespaces |
| **Hook manager** `hook/hook_manager.go` | enabled hooks, registered hooks | `RegisterHooks`, five `Run*Hooks` | hooks |
| **Hooks** `hook/*.go` | the iptables hook's address cache | ACL rules, iptables rules, netns link, remove container, network mode | host's iptables, file system, containerizer |
| **Namespaces** `namespace/` | the executor's own namespace; per OS thread: the namespace it is in, the goroutine locked to it | enter, exit | kernel, Go runtime |
| **Command line, logger, test doubles** | configuration | | |

Four goroutines share one `Executor` value: *main* (`Execute`), *signals*
(`handleStopSignals`), *health* (`healthCheck`) and *waiter* (`waitContainer`).
`UnackedMutex` guards the map of updates; nothing guards the other fields, and no
lock is held from the call to the agent to the map's update. Several of them may be in `handleKill`,
`throwError`, `tearDown` and `updateStatus` at once. A fifth goroutine is the
checker, which meets *health* (and whoever is in `tearDown`) on unbuffered channels,
so each send blocks until the other side is ready. Each health check is one goroutine
more, whose deferred calls run beside the next check, and each command check leaves a
polling goroutine of the containerizer behind.

What is hard, and what makes it correct:

- *Two goroutines tear down at once.* The process should leave neither container
  nor rules behind; a terminal update should be true and, with a checker, single.
- *The ledger of updates.* An update is sent first and recorded afterwards; the
  stream may break and acknowledgements be lost, late or repeated. An update the
  agent has must be acknowledged or sent again.
- *Channels.* A send whose receiver is elsewhere blocks a goroutine for ever.
- *Partial failure.* Every call of a launch may fail, and the teardown that follows
  must undo what was done. Stop hooks ignore errors on purpose.
- *Several executors share one host's iptables*, and Docker gives addresses again.
- *A namespace belongs to a thread.* A check must answer for its container, and leave
  no thread in the container's namespace for other goroutines to run on.
- *Boundaries.* The failure counter is compared for equality after an increment,
  thresholds of 0 and 1 included.

`PROJECT.json` lists these as hazards, each at its line.

## 2. Modules

Three systems are composed; each has an abstract specification that it implements.

- `Executor` extends `HealthChecker` and `Containerizer`: each channel operation is
  one action that conjoins the core's half and the checker's half, each containerizer
  call is an operator that takes the call's outcome. `ExecutorRefines` maps it to
  `UpdateLedger` and to `TaskLifecycle`.
- `Checks` extends `HealthChecker`, `Namespace` and `DockerExec`: it puts the check
  functions in the place of the results that `HealthChecker` chooses freely, and
  implements `HealthChecker`'s specification, fairness included.
- `HostHooks` puts the five hooks of `main.go` under the hook manager. It uses the
  operators of `HookManager` through `INSTANCE`, reads `applied` off the host, and
  implements `HookManager`'s specification.

`IptablesHook` looks closer at what `Executor` and `HostHooks` reduce to a flag.

| Module | Models | How it corresponds to the code |
|---|---|---|
| `HealthChecker` | `Checker.Run` and its checks by their result | `ckPC` is the place in `Run`; `tick` is the one-place buffer of `ticker.C`; `failures` wraps at `CounterSize` (2^32 in the code). `streak` and `finished` are history: they guard no action |
| `Namespace` | `namespace.go` and OS threads | `ns[t]`, `lockedBy[t]` per thread; `handles` counts the files opened; `pidOwner` says whose process has the pid that the executor stored: the container's, one of the host or of another container; `opened[t]` is the namespace opened and not yet entered |
| `DockerExec` | `ContainerExec`, `checkExec` | `poller[s]` is the place of the polling goroutine, or the answer whose send is waiting |
| `Checks` | `checkHTTP`, `checkTCP`, `checkCommand` under `Run` | `at[s]` is the place of a check; one slot per check that is not over, since a check's deferred calls outlive its result |
| `Containerizer` | the Docker operations by their effect and error | no actions of its own; `Outcomes` says when an operation may fail: when the container's state refuses it, or when `Faults` names it |
| `Executor` | `executor.go`, its four goroutines, the agent's side of the calls | `pc[g]`, `call[g]` for goroutine `g`; one action per call or assignment another goroutine can observe. `Return` gives the place where a shared function returns to |
| `UpdateLedger` | what is promised of updates | abstract: sent, recorded, offered to a subscription, acknowledged, dropped |
| `TaskLifecycle` | the task as the framework sees it | abstract: staging, up, over, and the states that were reported |
| `ExecutorRefines` | the two refinement mappings | e.g. `open` is the set of updates between their call and their record |
| `HookManager` | registration, sort and runs of the hooks | `hooks` is the sorted slice, `pos` the place in the loop of `runHooks`, `Ask` the core asking for a run. `SortByPriority` is the insertion sort that `sort.Sort` does on a slice this short, with the non-strict `Less`, stated by the place (`Rank`) where it leaves each element |
| `AclHook` | `acl.go` | `Calls` are the commands `generateACL` makes until it returns, each named by its loop and its turn in it, and `FirstCalls` those made when one of them ends it; `chain` is a bag, since `iptables -A` appends duplicates |
| `NetnsHook` | `netns.go` | the stored path, the link |
| `HostHooks` | the hooks of `main.go` in one executor | `HookFunction` dispatches to the hook's function for the run in progress |
| `IptablesHook` | the iptables hook in several executors of a host | `host` counts the copies of each rule; `cache` is the address cache |
| `MCExecutor`, `MCHostHooks` | the sets of faults; labels and default ranges | |
| `HealthCheckerProofs`, `ChecksProofs`, `ExecutorProofs`, `UpdateProofs`, `TerminalProofs`, `StopProofs`, `IptablesProofs`, `HookProofs` | theorems | |

Choices of the model worth knowing:

- *The agent* is what its API lets the executor see. It may refuse a subscription,
  fail a call before or after it took the update, break the stream at any time, and
  send KILL, SHUTDOWN, LAUNCH (once), MESSAGE and ERROR when it likes. When the
  stream breaks, any of the acknowledgements on their way may be lost.
- *The process ends when main returns.* No other goroutine takes a step afterwards.
  The container, being Docker's, stays as it was.
- *Errors of a handler of main* abort `Execute`, except io.ErrUnexpectedEOF, which
  breaks the inner loop. Only `Decode` returns that one: an error of the agent's API
  reaches `updateStatus` wrapped by Go's HTTP client.
- *Unset state.* A teardown before `ContainerID` is assigned works with the empty
  ID; the `known` argument of the containerizer's operators says so.
- *The data races* on `Shutdown`, `ContainerID` and `HealthChecker` are modelled as
  interleavings of whole reads and writes.
- *`HookManager`, `HostHooks` and `IptablesHook` are sequential within one executor*: a teardown
  begins when the launch is over or has failed. The teardown of a signal in the
  middle of a launch is in `Executor`.
- *In `IptablesHook`* all tasks have the same container port and different host
  ports, on the bridge network. Rules for the container port are then the same for
  every container with an address, and only DNAT differs.
- *In `AclHook`* a rule is an address and a port index: a task's host ports are its own,
  so no other executor has the rule. Labels whose port index is no number are refused
  like those whose index is too large.
- *In `Checks`* a dial runs on the calling thread (the resolver of Go 1.9, which
  `.travis.yml:4` names, dials one address after the other). An answer from the
  container's namespace needs the container; the host may answer on any port, and so may
  another container. A task comes with any of the four network modes; for all but BRIDGE
  the checks look on the host, as the README of the repository has it ("only if in bridged
  network mode"), also for USER (which the network hook sets) and NONE, where the task is
  not on the host. Once the container has ended, its pid may come to belong to a process of the host
  or of another container. The code refuses the host's namespace (`namespace.go:37`) and
  cannot tell another container's.
- *A container that is stopped* first gets the stop signal (`docker.go:146-149`), so it may
  exit with 0 or with another code, and a task that was killed may be reported
  TASK_FINISHED by the waiter.
- *In `DockerExec`* starting a command may last for ever: `StartExec` follows its output
  and its context does not end that.

Each module defines a few operators whose comment calls them a mutant or a plausible
mistake. They are not part of any specification: each is a changed copy of an
operation, and shows that the property it is paired with in `PROJECT.json` fails
when the code makes that mistake.

## 3. Runs

Run one with `tlc -config <file>.cfg <module>`.

| Run | Config, module | Asks | Bounds |
|---|---|---|---|
| `checker` | `Checks`, `Checks` | Does the checker give up when, and only when, it should, once? Is a healthy result an answer from where the check was meant to look, is no free thread in a container's namespace, and do the checks answer as `HealthChecker` assumes? | all check kinds and network modes, thresholds 0, 1 and 2, counter of 3 values, 2 threads, 2 checks at a time, 2 handles, switches in that fail, new threads that are clean (`Inherits` FALSE) |
| `signals` | `MCExecutorSignals`, `MCExecutor` | Do the books of updates balance, as those of `UpdateLedger`, are ends reported in order, does the process never end without telling the agent, do kills and signals end it, are ends reported and updates acknowledged? | no health check, `SignalFaults`, a signal at any time, fairness |
| `health` | `MCExecutorHealth` | Are terminal updates single and true, what does the process leave behind, and is the task's life that of `TaskLifecycle`? | no check, HTTP or unknown; threshold 1; one health update; a signal once the launch is over; `CheckedFaults` |
| `hooks` | `MCHostHooks`, `MCHostHooks` | Are calls in priority order, does a launched task have its ACL rules, is what remains the fault of its own hook, and are the hooks what the manager takes them for? | the five hooks, all subsets enabled, two priorities, four sequences of ACL labels, one port, a default range named twice, commands and system calls that fail |
| `rules` | `IptablesHook` | Is every rule removed, and who may take a rule from a running container? | 2 executors, 2 addresses, one teardown each, post-run hooks that fail before, at or between their rules |
| `exit_early` | `MCExecutorExitEarly` | finding | no faults, signals |
| `ack_race` | `MCExecutorAckRace` | finding | no faults |
| `kill_hangs` | `MCExecutorKillHangs` | finding | TCP check, no faults, fairness |
| `unhealthy` | `MCExecutorUnhealthy` | finding | one check kind, no faults, fairness |
| `rules_reuse` | `IptablesHookReuse` | finding | 2 executors, 1 address, 2 teardowns, no faults |
| `rules_bridge` | `IptablesHookBridge` | finding | 2 executors, 1 address, no faults |
| `threads` | `ChecksThreads`, `Checks` | finding | TCP check, bridge network, threads cloned from locked ones (`Inherits` TRUE) |

Deadlock is checked in `hooks`, where another teardown is always possible. The other
systems stop: a process that returned, a checker that quit, executors that are down.

**Bounds, and why they suffice.** `Thresholds` {0, 1, 2} with `CounterSize` 3 has the
two edges (0, and the largest value the counter holds) and the smallest ordinary
one. Two slots are a check and the deferred calls of the one before, and `Take` finds no
third while both are busy; two threads are the one a check is locked to and one that is
free; two handles are one check below the limit and one at it. Four sequences of labels
are none, two labels that share a rule, and a label refused for its address after
rules were appended, and for its port before. A process has one task, so the core needs no set of tasks; updates are named by
sender and call, and `MaxBeats` limits only health updates, which differ in nothing
but their number: one is enough for a beat in flight while another goroutine kills.
`MaxTeardowns` is 1 in `rules` on purpose: with 2, a running container also loses rules to
a second teardown, which is `rules_reuse`. Two executors with two addresses include both sharing and not
sharing. Two priorities give every order type that the comparison of two hooks has.

**Faults.** The theorems of section 5 are about every set of faults, but for those their
ASSUMEs name; the runs have these. `signals` has those of the hooks before and during the
launch, of the stop, of the wait, of the agent's API and of the stream. It leaves out
"create" and "run" (a launch that fails there goes on as one whose hook failed just
before), "inspect" (of a task with a health check), and "unhook" and "remove" (what stop
hooks leave on the host is in none of its properties). `health` leaves out those with which
its properties are false because the code ignores an error on purpose: a stop that fails
("stop") leaves the container running, a stop hook that fails ("unhook") leaves the
rules; and those that multiply the states and change little near a checker ("create",
"run", "wait", "subscribe", "remove", "stream"). Its signals come once the launch is over
(`LaunchOver`): with a signal in the middle of a launch (`Signals = "any"`) TLC finds
`OneTerminalUpdate`, `TerminalMeansStopped` and `ImplementsTask` violated, because the
teardown passes before the launch goes on. `rules` leaves out a pre-stop hook that finds no
interface or no chains and a deletion that fails, with which rules stay.

**Fairness** (`Fairness` in `Executor`). Each goroutine goes on when it can: the Go
scheduler runs it, and calls to the agent and to Docker return, with a result or an
error. Three assumptions are on the agent: it does not refuse subscriptions for
ever; it sends SUBSCRIBED again and again if subscribed again and again; it does not
fail for ever to deliver an acknowledgement it owes (these are strong fairness, as a
broken stream disables the event in between). Nothing obliges the agent to send a
KILL, a container to end, a signal to arrive, a stream to break, or a core to send
Quit. In `HealthChecker` on its own, timers fire, checks with a deadline answer, and
the core takes what is sent; a hung HTTP check is under no fairness, because nothing in
the code ends it. `Checks` replaces the assumption that checks answer by fairness of
each check's own steps and of its deadline, and `ImplementsChecker` shows that this is
enough: Docker, the container and its processes, and the other end of a connection
owe nothing.

## 4. What the runs show

What holds:

- `DoneJustified`, `DoneOnce`, `UnhealthyIsGivenUp`: the checker gives up after a threshold
  of failures in a row outside the grace period, those of the period never adding up, and
  gives up once.
- `UpdateAccounting`, `MainAckIsFinal`: no update the agent received is forgotten
  unless its call returned an error, and what main sends is never recorded after its
  acknowledgement. (For the other goroutines it may be: `ack_race`.)
- `EndFollowsRunning`, `FinishedMeansSuccess`, `TerminalMeansStopped`,
  `OneTerminalUpdate`, `ExitClean`: what updates say is true and in order. A TASK_FINISHED
  says that the container ended with code 0 after a launch that went through, not that
  nobody killed it. `ExitClean` is about an `Execute` that fails, or that returns with no
  signal and no checker about; the others are `LeftOnlyMidKill` and `exit_early`.
- `ExitIsTold`: when `Execute` fails, TASK_KILLED was sent or its call failed; when it
  returns, that, or another goroutine is still on its way to it.
- `LeftOnlyMidKill`: if something is left behind, the process ended in the middle of a kill
  by a signal or a checker, as in `exit_early`. With signals once the launch is over, nothing
  else leads there.
- `MainEndsUnacked`: the process ends before main could handle the acknowledgement of a
  terminal update of its own, which its books never settle.
- `KillEndsProcess`, `SignalEndsProcess`, `EndIsReported`, `RunningIsAcknowledged`,
  for tasks without health check. A signal does end the process, but only through the
  acknowledgement of its TASK_KILLED: main is blocked in `Decode`, so
  `SignalEndsProcess` excepts the case in which that update was lost.
- `ImplementsLedger`: send, record, acknowledge and subscribe, in four goroutines, are
  the steps of one ledger, and each subscription carries exactly what is kept.
- `ImplementsTask`: nothing is reported ahead of what happened. The one freedom the life
  cycle leaves is a TASK_RUNNING after a terminal state, for a task with a health checker:
  the update of the launch and those of the checker come from different goroutines
  (`executor.go:417`), and the run does reach it.
- `HealthyIsAnswered`: a healthy result is an answer that this check got, for a bridged task
  from a container's namespace, the task's own as long as its process has the pid; not from
  the host behind a pid that was given again, nor from a late command. For a task of a
  user network or of none the answer is one of the host, where the task does not run.
- `UnlockedIsHome`, `ChecksTypeOK`: where the runtime starts no thread from a locked one and
  switches back work, checks leave no free thread in a container's namespace; and one
  check at a time has a result to give.
- `ImplementsChecker`: commands that never end, namespaces that are gone and a file limit
  that is reached still lead to an answer.
- `HighestPriorityFirst`, `OnlyOwnFailureLeaks`, `LaunchedWithAcl`, `ImplementsManager`:
  the ACL and netns hooks undo what they did unless a command of their own fails, also
  when a label is refused halfway and when the network hook changes the task in between.
- `NoOrphanRule`, `LostRuleIsShared`: every rule on the host has an executor that will delete
  it. A running container may miss a rule, but only one it shares with an executor whose
  post-run hook failed after it had cached the address: that one's teardown deletes rules
  it never appended (`iptables.go:109`, `157-161`). `RunningHasRules`, which has no such
  exception, is false with the fault "append" too, and is proved without it.

Where the code and what it says of itself disagree (the violation runs):

- `exit_early`: `handleKill` sets `Shutdown` before it tears down
  (`executor.go:305`). When the signals goroutine runs it, main may leave its loop
  and end the process with the container running.
- `ack_race`: `updateStatus` records an update after it sent it (`:383-397`). In
  another goroutine than main the acknowledgement may come in between; the update is
  then kept for ever and goes with each subscription.
- `kill_hangs`: the checker receives `Quit` once. After the container ended, a kill
  tears down again and blocks on `Quit` for ever (`:458`).
- `unhealthy`: after `Done`, a tick left in the ticker's channel starts one more
  check. Whatever its result, the checker sends on `Healthy` while the core sends on
  `Quit`, and both block.
- `rules_reuse`: the cached address outlives the container (`iptables.go:87`): a
  second teardown deletes rules of whoever has the address now.
- `rules_bridge`: `EnterNetworkNamespace`'s error is ignored (`docker.go:192`): for
  a container that has ended, the rules name the host's own bridge address.
- `threads`: a thread that the runtime clones from one locked in a container's namespace is
  there as well, and free to run any goroutine. Go did so up to 1.9, with which
  `.travis.yml:4` builds; README.md:184 has the lock avoid "namespace switching due to
  goroutine multiplexing".

Met while modelling, visible in the models' behaviours, and without a run of their
own: a check is started after `Done`; an HTTP check has a deadline for its dial only
(`healthcheck.go:182`) and `CkHang` models it; a check of unknown type ends the
checker without a receiver for `Quit`, so teardowns of such a task hang; the
goroutine that causes a kill never receives `Exited`; an update whose call failed
(`executor.go:388`) is in no later subscription; the poller of a command check ends only
if the command never ran (`docker.go:275-283`): otherwise it turns in its loop, or waits
to send to nobody; the handle of an entered namespace is never closed
(`namespace.go:32`), and at the file limit each bridged check is unhealthy; when a switch
back fails ("exit" in `SwitchFaults`), `UnlockedIsHome` fails. With a threshold of 0 the code
gives up only when the counter wraps to 0 (`healthcheck.go:111-118`), where
README.md:171-174 has the first unhealthy result outside the grace period kill the task;
the models follow the code, and no property takes its side.

## 5. What is proved

TLAPS proves the following for every value of the constants that satisfies the
named assumptions (`CheckerAssumption`, `ExecutorAssumption`, `NamespaceAssumption`,
`ChecksAssumption`, `IptablesAssumption`, `AclAssumption`, `PrioritiesAssumption`): any
threshold and counter size, any set of faults, signals at any time, any number of
health updates, checks, threads, executors, addresses, labels, ports and default ranges. A
theorem that needs more says so in its ASSUME; the third column repeats it. "Late signals"
is `Signals # "any"`: none comes before the launch is over.

| Theorem | Says | Assumes |
|---|---|---|
| `CheckerTyped`, `CheckerDoneJustified`, `CheckerDoneOnce` | the checker's invariants and the action property `DoneOnce` under `CkSafeSpec` | |
| `ChecksRunChecker` | with the real check functions every step is one of the checker or leaves it alone | |
| `ChecksCounterTyped`, `ChecksDoneJustified`, `ChecksDoneOnce` | so the three hold with the real check functions | |
| `ChecksTyped` | `[]ChecksTypeOK` | |
| `UnlockedAtHome` | `[]UnlockedIsHome` | no thread is started from a locked one, switches back work |
| `HealthyAnswered` | `[]HealthyIsAnswered` | |
| `ExecutorRunsChecker`, `ExecutorDoneJustified` | every step of the executor is one of the checker or leaves it alone; so `[]DoneJustified` holds inside it | |
| `ExecutorTyped` | `[]TypeOK` | |
| `UpdatesAccountedFor` | `[]UpdateAccounting` | |
| `EndReportedAfterRunning` | `[]EndFollowsRunning` | |
| `ExecutorImplementsLedger` | `Spec => ImplementsLedger`: the executor refines `UpdateLedger` | |
| `MainAcksFinal` | `[]MainAckIsFinal` | |
| `FinishedIsSuccess` | `[]FinishedMeansSuccess` | |
| `MainEndsBeforeAck` | `[]MainEndsUnacked` | |
| `OneTerminal` | `[]OneTerminalUpdate` | late signals |
| `TerminalIsTrue` | `[]TerminalMeansStopped` | late signals, stops work |
| `ExitIsClean` | `[]ExitClean`: clean when `Execute` fails, and when it returns with no signal and no checker about | stops and stop hooks work |
| `ExitTellsTheAgent` | `[]ExitIsTold` | |
| `LeavesOnlyMidKill` | `[]LeftOnlyMidKill` | late signals, stops and stop hooks work |
| `TaskFollowsLifecycle` | `Spec => ImplementsTask`: the executor refines `TaskLifecycle` | late signals, stops work |
| `HostTyped` | `[]HostTypeOK` | |
| `NothingOrphaned` | `[]NoOrphanRule` | deletions work, pre-stop hooks find interface and chains |
| `RulesStay` | `[]LostRuleIsShared` | one teardown each |
| `RulesComplete` | `[]RunningHasRules` | one teardown each, no post-run hook fails once it has cached its addresses |
| `SortSorts` | what `SortByPriority` does to any list of hooks: the same elements, by descending priority | |
| `PriorityOrder` | `[]HighestPriorityFirst` | |
| `HooksTyped` | `[]HookTypeOK` | |
| `NoForeignFailureLeaks` | `[]OnlyOwnFailureLeaks` | |
| `AclComplete` | `[]LaunchedWithAcl` | |
| `HooksAreManaged` | `Spec => ImplementsManager`: the hooks of `main.go` refine `HookManager` | |

The assumptions are those under which the property is true: a stop that fails on its own
leaves the container running, a second teardown is `rules_reuse`, and so on.

**The checker.** `DoneJustified` does not mention the counter, on which Done depends,
so it is not inductive; `CountBelowStreak` adds that the counter never exceeds the
failures in a row, and that Done is offered at the threshold exactly. `DoneOnce`
needs `DoneIsLast`: after Done the ticker is stopped, so at most the check of one
buffered tick is left, and it starts from a counter equal to the threshold, which it
resets or steps over.

**The check functions.** A healthy result depends on the thread the check was locked to
several steps before. `Routes` says which places a check of each kind goes through;
`Places` that a bridged check about to dial is locked to a thread, all of whose threads
are in the namespace of a container, and in the task's own as long as its process has the pid;
`Probes` that an answer noted is from there. For `UnlockedAtHome` it is enough that only
locked threads are in such a namespace: entering locks first, leaving switches before it
unlocks, and no thread is started from a locked one. `ChecksTypeOK` counts checks, which no
single step shows: `OneBusy` says that a check with a result to give is there exactly while
`Run` waits for one, and is the only one.

**The ledger.** `UpdateAccounting` is not inductive: a subscription makes `accepted`
grow by `resend`, and `RecordUpdate` takes an update out of `InFlight`. `BooksInv` is
`TypeOK` with three parts: `LaunchOrder` (which goroutine may be in which call: a
goroutine between sending and recording stays where it is, so its update stays in
flight), `Books` (what goes with a subscription is known and was accepted before;
an update about to be recorded was accepted) and `RunningFirst` (the waiter exists
only if the agent has TASK_RUNNING). The refinement of `UpdateLedger` uses `BooksInv` and
`AcksReached` (what is being acknowledged reached the agent), and shows for each step
whether it sends, drops, records, settles, offers, or changes nothing of the ledger.

**Main's updates.** Main sends each of its updates at most once and in an order:
`MainOrder` says where main is once one of them was accepted. So an update that main is
about to send is fresh, its acknowledgement cannot be under way, and none is handled
while main records (`AckOrder`). Main decodes only where `MainOrder` leaves no terminal
update of its own accepted, hence none to be acknowledged (`MainEndsBeforeAck`). For `FinishedIsSuccess`, `FinishedInv` ties the call
"finish" of a goroutine, and each update it sent, to a container that ended with code zero,
which no later stop changes; `FailureInv` keeps main out of "fail" once there is a waiter.

**One terminal update.** A goroutine is `Ending` from the moment it is past Quit until its
update is recorded. The checker takes Quit once (`QuitTaken` is for ever), so with a
checker at most one goroutine is ever `Ending`, and no terminal update was accepted
unless by it (`OneEnding`). No teardown may overtake the installation of the checker, which
is where the assumption on signals comes in: `Senders` says that the signals goroutine
starts when the launch is over, and `LaunchOverStays` that it then stays over.

**Terminal updates are true.** A goroutine past ContainerStop has a stopped container,
provided `tearDown` knew the container (`TearInv`) and nobody starts it afterwards
(`NoLaunch`): main is past its launch, or `shutdown` keeps it from one. `Truth` joins
both, for the goroutines that are past the stop and for the updates that were accepted.

**The exit.** `ExitInv` follows main's own teardown through its stages (rules gone, then
container stopped), and says what `shutdown` means when neither a checker nor a signal
is there: only main set it, so main is tearing down, or all is clean. `TellInv` follows
every goroutine instead of main: whoever sets `Shutdown` is in a kill, and goes on in that
call (`CallGoesOn`) until the agent was told or the call failed (`KillTells`), which is
for ever (`ToldStays`); once main has left, a goroutine on its way is another one, in
`handleKill` (`KillerAtExit`). `LeftInv` does the same for what is on the host. Once `Shutdown`
is set there is nothing left to launch, so what a kill took down stays down
(`NoLaunchStays`, `StaysDown`), and until its stop is done it is in `MidKill`.

**The task's life.** Every step of the executor is mapped to one of `TaskLifecycle`. A step
after which the agent has no more updates moves the phase with the container, which starts
once and ends for good (`ContainerMoves`). A step that gives it one comes from a goroutine in
`updateStatus` (`NewReport`), and who that is decides the rest: a TASK_RUNNING is main's, at
the end of its launch, or the checker's, which the launch started, so the container has run
(`FinishedInv`, `TaskInv`); main's comes before any end if there is no checker, since only a
launch that is over lets another goroutine report one (`MainRunsFirst`). An end is true by
`Truth`, and a success is the waiter's, who exists because the agent has TASK_RUNNING.

**The hooks.** The proof has three layers. *The list*: `Before` orders any two elements,
however `Less` treats equal ones, so their ranks are the places of the list (`RanksArePlaces`)
and the sort is a permutation; `Listed` follows, each enabled and registered hook once and by
descending priority. *The calls*: `InTurn` says that in the run in progress the functions of
all hooks before `pos` were called, and that each call that was made came after those for the
places before it; `HighestPriorityFirst` is a consequence. *The host*: what a post-run
appended is no more than the rules of all calls (`RulesAreABag`, `AddRules`), so deletions of
which none fails leave nothing (`TakeRules`); labels never change, and the network only
before there is a rule (`SameRules`, `OwnRules`). `StopsCalled` says which stop functions were
called in each phase of a teardown, `Undone` that what is left of a hook after its own was
called is in `failed`. `HooksAreManaged` uses the same lemma on each hook's function
(`EachFunction`): it touches nothing of another hook, and leaves no more than the abstract
hook may.

**The host's rules.** `NoOrphanRule` compares the copies of a rule on the host with the
executors that `Owed` has it to delete: an append owes the rule before anyone can miss it, and
the first deletion by an executor takes one copy and one debt (`Places` says where each
executor's teardowns and cache stand). `RulesStay` needs the other direction, `NothingMissing`:
a rule that is none of an executor with a failed post-run hook (`Whole`) is there as often as
it is owed, since whoever deletes it in an only teardown had appended it.

**Only model-checked.** The properties of behaviours under fairness: `KillEndsProcess`,
`SignalEndsProcess`, `EndIsReported`, `RunningIsAcknowledged`, `UnhealthyIsGivenUp`,
`ReturnsToSelect`, and the fairness half of `ImplementsChecker`, of which `ChecksRunChecker`
is the other half. Liveness under fairness needs `ENABLED`, which is beyond the provers. Every
invariant, every action property and the safety of every refinement that a run checks is a
theorem.

`HookManager` and `AclHook` say where a sort leaves its elements and which calls are made
by sets and their sizes, and not by a recursion over a sequence: a fold would need induction
over data, which the provers cannot do.

## 6. Not modelled, and why

- Command line and configuration, beyond the order in which hooks are registered; logger;
  test doubles: no behaviour over time.
- The contents of a task (image, volumes, environment, names of networks): passed through.
  Of its resources the model keeps whether a call fails.
- The text of rules, requests and labels. `-i all` (`acl.go:120`) and the range of good
  status codes are such text: they decide what a rule or an answer means and change no
  state.
- The wire format of the agent's API and of Docker's: external libraries.
- An interval of zero (`healthcheck.go:52`) panics at once, and the goroutine of the grace
  timer (`:64`) may wait for ever without effect on any other.

## 7. Plan

1. **Signals during a launch with hooks**: `HostHooks` with two goroutines of one executor in
   the manager at once, which `Executor` has with a flag for the rules.
2. **The addresses behind the flag**: `Executor` with the iptables rules of `IptablesHook` in
   place of `rules`, for several executors of one host that end in the middle of a kill.
