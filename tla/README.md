# android-test in TLA+: the wait for idleness, and the launcher of emulators

android-test is a family of libraries that test Android applications, with the tools
of the host that run the devices they are tested on. Two parts of it carry its own
core logic, and this directory models both.

* *Is the application idle?* Espresso asks this before every step of a test. It
  answers on the main thread, by looping that thread's message queue until thread
  pools, idling resources and the queue itself have nothing left to do.
* *Is there a device?* The launcher of emulators (Python, `tools/android/emulator/`)
  stages disk images, starts an emulator under a watchdog process, polls it until it
  is booted, installs apks, and starts over when something transient goes wrong. Or
  it boots one at build time, shuts it down and stores what it changed.

TLC checks the modules on small instances; TLAPS proves every invariant and action
property of their passing runs, and two refinements, for instances of every size
(one of them, `TripIsTrueIdle`, for pools of a fixed size). Liveness stays with TLC.

Paths below are relative to the repository; `base/` stands for
`espresso/core/java/androidx/test/espresso/base/`, `emulator/` for
`tools/android/emulator/`.

## 1. Inventory

### Components, their state and their operations

| Component | State | Operations |
|---|---|---|
| AsyncTask pool monitor (`base/AsyncTaskPoolMonitor.java`) | `monitor` (the registered IdleMonitor), `activeBarrierChecks`; of each monitor `poisoned`, its CyclicBarrier and `barrierGeneration`; the work queue and workers of the pool | `isIdleNow`, `notifyWhenIdle`, `cancelIdleMonitor`, barrier tasks and the barrier action in the pool |
| Idling resource registry (`base/IdlingResourceRegistry.java`) | `idlingStates`, `idleNotificationCallback`, delayed warning and timeout messages | `registerResources`, `unregisterResources`, `allResourcesAreIdle`, `notifyWhenAllResourcesAreIdle`, `cancelIdleMonitor`, `getBusyResources`, four message handlers |
| Counting idling resource (`espresso/idling_resource/.../CountingIdlingResource.java`) | a counter and a callback | `increment`, `decrement`, `isIdleNow` |
| UI controller and interrogator (`base/UiControllerImpl.java`, `base/Interrogator.java`) | `generation`, `conditionSet`, `interrogation`; the SignalingTasks under way | `loopMainThreadUntilIdle`, `loopMainThreadForAtLeast`, the `inject*` calls, `loopUntil`, `interruptEspressoTasks` |
| Looper idling resource (`base/LooperIdlingResourceInterrogationHandler.java`) | `started`, `idle`, `releasing`, the registered instances | callbacks of the interrogation on the looper's thread, `isIdleNow` and `release` on the main one |
| Idling thread pools (`espresso/idling_resource/concurrent/`) | a counting resource beside the pool's tasks | `execute`, `schedule`, `afterExecute`, `terminated` |
| URI idling resource (`espresso/idling_resource/net/`) | a counter, an idle flag, a delayed transition | `beginLoad`, `endLoad`, the transition |
| View interactions (`ViewInteraction.java`, `base/RootViewPicker.java`) | a future on the main thread and futures of remote processes; a back-off | `perform`, `check`, picking a root |
| Activity scenario (`core/java/androidx/test/core/app/ActivityScenario.java`) | `currentActivityStage`, `currentActivity`, a condition variable | `launch`, `moveToState`, `recreate`, `onActivity`, `close`, the lifecycle observer |
| Lifecycle monitor (`runner/monitor/.../ActivityLifecycleMonitorImpl.java`) | a list of weak callbacks, the stage of each activity | `addLifecycleCallback`, `signalLifecycleChange` |
| Instrumentation connection (`runner/monitor/.../InstrumentationConnection.java`) | clients by type, the other instrumentations | discovery, registration and removal of clients, clean-up, by messages between processes |
| Monitoring instrumentation, test runner | started activities, listeners | start-up, waiting for activities to end, running tests in sequence |
| Test orchestrator (`runner/android_test_orchestrator/`) | the list of tests, the current one, listeners | collection, one process per test, end of a process |
| Services (`services/`) | published binders, pipes, files | SpeakEasy, shell executor, storage, events |
| Emulator launcher and watchdog (`emulator/unified_launcher.py`, `emulated_device.py`) | the attempt, the temporary directory with the emulator's pid, the watchdog's `killable` and other lists, the processes themselves | `main`, `EntryPoint`, `StartDevice`, `_ForkWatchdog`, `_WatchdogLoop`, `_TransientDeath`, `KillEmulator`, `CleanUp` |
| X server (`emulator/xserver.py`) | a process, a display, lock files | `Start`, `WaitUntilRunning`, `environment`, `Kill` |
| Boot polling and installs (`emulated_device.py`, `common.py`) | what the poll has seen, the attempts of the poll, of the step, of an install and of a command | `_PollEmulatorStatus` and its fourteen checks, `InstallApk`, `_RestartAndroid`, `InstallSystemApks`, `Lockdown` |
| Images of the emulator (`emulated_device.py`) | the session directory, links, overlays, the archive, `ram.bin` | `_StageDataFiles`, `_InitializeRamdisk`, `_PrepareQemuArgs`, `_CleanUmount`, `TakeSnapshot`, `StoreAndCompressUserdata` |
| Intents, web, contrib, device, accessibility, rules, extensions, device broker | little of their own | built from the above |

### How they interact

A test posts an interaction to the main thread, which calls the UI controller. The
controller *polls* each source of idleness (two pool monitors and the registry),
*registers* a callback with those that are busy, and loops the queue of its own
thread. A source calls back from wherever it finds itself idle: a pool from the last
of its workers to reach a barrier, the registry from a message on the main thread.
The callback is a SignalingTask, whose `done()` posts a message that sets a bit of
`conditionSet`. When all bits are set and the queue is empty, or when a timeout, an
interrupt or an exception ends the loop, the controller *cancels* the callbacks and
polls again. Resources tell the registry about themselves from any thread by posting
a message to the main one, and are polled by it.

The launcher forks a watchdog, which spawns the helpers (pipe services or forwarders,
and a telnet service), an X server and the emulator, and sits by them in `os.wait`.
The two share no memory: the launcher reads the watchdog's exit status and the file
with the emulator's pid, and either of them may remove the temporary directory. All
the launcher knows of the device it asks over adb, one question at a time. What a boot
action stores, a start action of another process, often much later and under other
flags, stages again.

### What is hard, and what makes each part correct

The list of hazards, each at its line, is in `PROJECT.json`; these are their kinds.

* **Pool monitor.** It reasons about a pool from outside, through counters read one
  after the other, and from inside, through tasks of its own among the application's.
  Correct means: neither answer hides an application task; a broken barrier, a cancel
  at any moment and the leftovers of an earlier wait do no harm; who waits is told.
* **Registry.** What it believes of a resource lags behind the resource, by messages
  that may be stale. Correct means: a stale message never ends a wait over a busy
  resource; the callback, its two delayed messages and its one call stay in step
  whichever of idle message, warning, timeout, master timeout and cancel comes first;
  no wake-up is lost.
* **UI controller.** Signals of waits that were given up arrive later. Correct means:
  a signal counts only for its own wait, nothing of one wait is left for the next on
  any way out, an idle wait does not return over a source busy all along, and every
  call comes to an end when the application does.
* **Launcher and watchdog.** Five kinds of processes die in any order, and the next
  attempt may begin while those of the last still run. Correct means: no emulator of an
  earlier attempt runs beside the new one; nobody removes the files of an attempt under
  way; helpers that die are revived and those of a dead emulator are stopped; success
  is never reported for an emulator that was killed; everybody ends. The code falls
  short of the last ones in ways that section 4 names.
* **Boot polling.** Signs of a booted device are read one after the other and never
  again, while its framework may crash or be restarted. Correct means: the launcher
  goes on only with a device that is up; each apk is installed, once per content and
  however often the command was killed and tried again; only hanging apps and hanging
  installs are killed (up to a race and a count of cores, section 4); attempts run
  out in the end.
* **Images.** The same flags are asked in a dozen places. Correct means: what is named
  is staged; what boot did is there at start; inputs of the build are never written to;
  nothing unclean is stored.
* **Parts not modelled yet.** Counters that miss a task (idling pools); a delayed
  transition racing a new request (URI resource); a peek that misses the message in a
  looper's hands; stages of another activity instance (scenario); a process that dies
  (orchestrator); a removal that names the wrong client (connection).

## 2. Modules

| Module | Models |
|---|---|
| `AsyncTaskPoolMonitor` | the pool monitor inside a ThreadPoolExecutor, with the main thread that calls it |
| `AsyncTaskPoolMonitorProofs` | theorems about it: types, and what a trip of the barrier says of the pool |
| `AsyncTaskPoolCallbackProofs` | theorems about it: one callback at a time, once, and nothing left of it |
| `AsyncTaskPoolPollProofs` | a theorem about it: what a poll sees |
| `IdlingResourceRegistry` | the registry, its resources and the main thread's wait for them |
| `IdlingResourceRegistryProofs` | theorems about it |
| `UiControllerImpl` | the controller over pools and registry |
| `UiControllerImplProofs` | theorems about it |
| `EmulatorLauncher` | `main`, the attempts, the watchdogs, and the processes they start |
| `EmulatorLauncherProofs` | theorems about it |
| `EmulatorBoot` | the launcher against a device that boots, crashes and installs |
| `EmulatorBootProofs` | theorems about it |
| `EmulatorImages` | the images from staging at boot to staging at start |
| `EmulatorImagesProofs` | theorems about it |
| `IdleNotifier` | abstract: what `base/IdleNotifier.java` promises the controller |
| `MC*` | instances for TLC: sets of threads, tasks, resources, and a symmetry |

`IdleNotifier` is the joint. The pool monitor and the registry each implement it (a
refinement, checked by TLC and proved), and the controller's module is written against what it
promises: a callback over no other one, called at most once, by a pool possibly after
it was cancelled and by the registry never then.

### AsyncTaskPoolMonitor

One action is one access to shared memory, so the module has the code's
interleavings: `ReadQueue`, `ReadActive`, `ReadMonitor` and `ReadChecks` are the four
reads of `isIdleNow`; `NotifyWhenIdle` is its compare-and-set and `MonitorForIdle`,
`ExecuteBarrierTask` the submission of `CorePoolSize` barrier tasks;
`CheckPoisoned`, `CountCheck`, `ReadGeneration`, `Await`, `Interrupt`, `Restart`,
`RestartReset` and `UncountCheck` are the lines of the barrier task;
`BarrierTripped`, `ClearMonitor` and `OnIdle` the barrier action, run by the last to
arrive; `CancelIdleMonitor`, `Poison` and `PoisonReset` the cancel. `pc` holds where
each thread is; `monitorForIdle` has one set of program points for both its callers.

The JDK's executor and barrier are external and modelled from what this class asks of
them. What matters there is that a worker takes a task from the queue (`claimed`)
before it locks itself, and only locked workers count as active; and that a barrier's
action runs while the barrier is locked. Approximations: `getActiveCount` is one
step, and a pool that would reject a task makes the submitter wait. `watched`,
`awaited` and `owed` are history variables of the properties, each holding the tasks
that have not finished since: of those running at a call of `isIdleNow`, of those
outstanding at it, and of those outstanding when a barrier's last party arrived.

### IdlingResourceRegistry

The registry runs on the main thread, resources on any; an action is one poll of one
resource, one change of one resource, or one message posted or dispatched.
`AskNext` is one turn of the loop of `allResourcesAreIdle`, called from three places
(`Polls`), `GetBusyResources` one of `getBusyResources` (`Scans`). A
CountingIdlingResource changes its state and then calls back (`Decrement`, `Notify`);
a resource of `CallbackFirst` does what the javadoc of `ResourceCallback` asks,
calling back first (`NotifyFirst`, `ThenIdle`). `runSynchronouslyOnMainThread` is a
message (`Request`) and its dispatch. The delayed warning and timeout are members of
`timers` until they are due.

### UiControllerImpl

`StartCall` begins one of the calls, each a list of waits: a wait for idleness, for
an injection or for a delay. `Poll`, `RegisterNotificationCallback`, `StartLoop`,
`LastPoll` and `IdleWaitReturns` are `loopMainThreadUntilIdle`, one poll at a time;
`HandleMessage`, `RunSignalingTask`, `HandleResourceIdled`, `DelayHasPast` and
`HandleInterrupt` what the loop dispatches; `ConditionsMet`, `Interrupted`,
`MasterTimeoutThrows` / `MasterTimeoutLogs` and `DynamicTimeoutThrows` the ends of
`loopUntil`, each with `ResetLoop` (its `finally`) and, in an idle wait,
`CancelCallbacks` (the outer `finally`). A SignalingTask is a pair of a condition and
a generation, wherever it is: registered, about to run in a pool (`running`), in the
injecting thread (`injections`), delayed, or in the queue.

Abstractions: one busy flag stands for the registry's list of resources, with
`knownBusy` for its belief; the pool calls back from idleness at any time, late after
a cancel; policies throw or log as they please. Left out: `injectString` (a loop over
`injectKeyEvent`), sync barriers, plain messages of the application (they change
nothing here), an `isIdleNow` that throws, and the text of reports.

### EmulatorLauncher

`pc` is where the launcher is, `wpc[g]` where the watchdog of attempt `g` is. `Stage`,
`ForkWatchdog`, `EnsureEmuRunning`, `PollStep`, `PollTimeout`, `DeviceCommands`,
`Install`, `KillEmulatorPolitely` and `Store` follow `EntryPoint`; every command that
may fail does so in `ExecFails` (a transient failure: `TransientDeath`,
`StopAllProcesses`, `Wipe`) or `CommandFails` (a plain one). `Throw` is what an
exception does on its way to `main` (`MainCatches`), through the `finally` of the boot
action. A command over adb may also just not return: `ExecOnDevice` waits in
`communicate()` without a timeout, so an emulator that accepts the command and neither
answers nor dies keeps the launcher (`ExecHangs`, `pc = "waiting"`); when the emulator
dies adb ends, and the command has failed (`HungCommandFails`). `StartHelpers` to `WatchdogCleanup` are the watchdog line by line, one action
for each kind of child that `os.wait` returns. A directory is a record of which
attempt made its images and its pid file, since attempts may share one.

Three details the code has and the module keeps. A watchdog that exits with status 0
is taken for one that runs by the call of `waitpid` that reaps it. An exception that
nobody catches in the forked child unwinds the copied stack of the launcher, past the
clean-up (`Escape`). After a restart of the pipe services that failed, the list still
holds the old processes and `killable` does not, so the next death of one is a
KeyError. Abstracted: the steps of the poll (they are `EmulatorBoot`'s), log files,
lock files and cookies of the X server. Left out: the asserts in which `KillEmulator`
talks to the emulator's console, whose failure is like that of its commands. A log file
that cannot be opened for a helper ends the watchdog (`PipeDied`, `ForwarderDied`).
`XDies` makes an assumption about the environment, that an emulator does not outlive its
X server: the watchdog leaves without killing it. `late` is a history variable of the
properties.

### EmulatorBoot

`Checks` lists the fourteen checks of the poll in order, and its end, and `Following` the first one
after a given one that is still `Needed`: one pass of the loop is a walk along them,
which `AttemptStep` ends by going back to `poll`. `StartInstall` to `KillHungInstall`
are `InstallApk`, called from the poll (the bootstrap app) and from two loops over
apks; `tries` and `spawns` are its two nested counts. `PreverifyApks`,
`PushSystemApks`, `RestartForSystemApks`, `Batch` and `Lockdown` are the rest of
`_Run`. The device is a level that rises at its own pace, with what outlives a restart
of its framework (`bootProp`, `event`, `storage`) beside it; `am restart` returns
before the framework goes down (`pending`). `_KillCrashedProcesses` is two commands and
so two actions, `ReadEventLog` and `KillCrashedProcesses`, with the pids in `targets`
between them; an app dies or its pid is used again at any time (`AppEvent`), and apps
that hang go down with their framework, which leaves no log of it (`AppsDie`). Load is
measured in units of 16 polls, and only idle or not matters: `Busy` compares the idle
time of all `cores` with the time of one, as the code does whatever `--cores` says.
`fell`, `missed` and `quiet` are history variables. One small simplification: an
install of the bootstrap app that finds the framework down again on return is repeated
before the density is checked.

### EmulatorImages

Data is what each image *is* (as delivered, with its EGL libraries deleted, made by
the emulator, written to, resized) and, with QEMU2, which image its overlay was made
over. `StageSystem`, `Unpack` or `InitializeRamdisk`, and `StageRest` are
`_StageDataFiles`; `PrepareQemuArgs` the arguments; `CleanUmount`, once for each
`MountOrder`, with `Umounted` and `KillEmulator` the polite shutdown; `ListImages`,
`Lsof`, `StillNotDead` and `Tar` the archive; `Restart` another process's start on it.
The emulator is external: it makes a data partition if it has none, opens and closes
files in its own time. `linked` holds what the session merely links to (the kernel,
`init/system.img`, the system image, `ram.bin`), and every action that writes to the
session says what it writes (`Writes`): debugfs in `StageSystem`, `InitializeRamdisk`,
`resize2fs` in `Unpack`, `StageRest`, the emulator in `EmulatorRuns`, `TakeSnapshot`. A
snapshot may come to nothing, and a data partition may not be there to be measured. That
the system image is one of ext4, which debugfs can read, is assumed.

## 3. Runs

| Run | Shows | Instance |
|---|---|---|
| `pool_waits` | `NeverRecursive`, `NoLeftoverBarrierTasks`, `TripIsTrueIdle`, `RunningWorkIsSeen`, `ImplementsIdleNotifier` | 2 workers, 2 tasks, 2 waits, 1 interrupt, the main thread may give up |
| `pool_live` | `IdleIsNotified` | the same without interrupt and giving up |
| `pool_overflow` | violates `TripIsTrueIdle` | core size 1, 2 workers, queue of 1, 3 tasks |
| `registry_timeouts` | `TimersMatchCallback`, `NeverRegisteredTwice`, `DeclaredIdleIsTrue`, `ImplementsIdleNotifier` | a counting resource and one that calls back first, 2 increments, 2 requests, 2 waits, all timeouts |
| `registry_live` | `WaitEnds` | 2 counting resources, 3 increments, counters to 2, 2 waits, no timeouts |
| `registry_master` | violates `MasterTimeoutIsReported` | one counting resource |
| `ui_waits` | `SignaledTaskIsDone`, `NoLeftoverSignal`, `NeverRecursive`, `ReturnedMeansIdle`, `CallEnds` | 1 pool, the registry, 2 calls, 1 turn busy, 2 timeouts, 1 interrupt |
| `launcher_retries` | `KilledBeforeRetry`, `FilesStay`, `SuccessMeansAlive`, `HelpersStop`, `LauncherEnds`, `AttemptEnds`, `HelpersRevived` | 2 attempts, 2 pipe services, a forwarder, 4 command lines, 1 poll, 2 faults |
| `launcher_wiped` | violates `WipedBeforeRetry` | the same with 1 pipe service and 1 fault |
| `boot_and_install` | `ReadyMeansUp`, `SystemApksServed`, `EveryApkInstalled`, `KillsOnlyHungApps`, `HungMeansIdle`, `LaunchEnds` | 8 command lines, one of them for a device of two cores, 4 apks (two of one content), 1 app, 11 attempts, 2 tries, 1 fault |
| `images_survive` | `ArgsNameStagedFiles`, `DensityAgrees`, `BootStateSurvives`, `InputsUntouched`, `StoredMeansClean` | 167 sets of flags and system images, 2 calls of `lsof` |
| `images_quiet` | violates `TarIsQuiet` | the same |

Each passing run checks its module's `TypeOK` too. Eight more configurations are kept
for statements the code does not satisfy; they are run by hand (section 8) and end in
a counterexample: `PoolClaim.cfg`, `PoolCancel.cfg`, `RegistryFollower.cfg`,
`UiMaster.cfg`, `LauncherHangs.cfg`, `LauncherHelpers.cfg`, `BootKills.cfg`,
`BootIdle.cfg`.

Why the bounds are enough. Two waits (or calls) are what it takes for something of
the first to meet the second: its barrier tasks, timers, signals, callbacks. Two
workers are a barrier with someone to wait for; a third adds workers in the same
places. Two tasks let one run while another waits behind the barrier. One interrupt
breaks a barrier, one timeout cuts a wait short. A restart's reset can break the await
of a task that came back early, which restarts in its turn: `MaxRestarts` cuts such a
chain after four (`pool_waits` reaches the bound). Two resources are one that ends the
wait and one that is still busy. `MaxCached = 0` makes the first generation a boxed
integer found by identity and the second one not (`ui_waits`).

Two attempts of the launcher are what it takes for processes and files of one to meet
the other. Two faults let a restart of the pipe services fail and another helper die
after it, or the X server die and a command fail; two pipe services make a restart stop
one that still ran. Eleven attempts are few enough to run out anywhere in the poll and
enough for the five of the DPI check and for the 20% of the storage check; one fault is
one crash in an otherwise good boot, at every place. Two tries of an install, and two
commands in each, reach both counts' ends. Idle for three units with two units of load on each core
makes windows that begin before, in and after the load. The flags of `images_survive`
are all that meet in a condition of the code, and the densities those at the borders of
buckets.

Every property is violated in its
run by a mutant of the code (`PROJECT.json`, `mutants`).

`CHECK_DEADLOCK FALSE` is said where the system may really stop: in
`registry_timeouts` because a race message throws on the main thread and ends the
process; in `ui_waits` because the bound on calls is reached; in the
emulator's runs because the launcher ends.

### Fairness

* `AsyncTaskPoolMonitor!FairSpec`: every thread is scheduled, and so the
  application's tasks end; interrupts, submissions and keep-alives are not fair.
* `IdlingResourceRegistry!FairSpec`: the main thread runs, every increment has its
  decrement, and a resource's thread goes on to its callback.
* `UiControllerImpl!FairSpec`: the main thread runs, an idle pool finds that it is
  and calls back (`IdleIsNotified` above), the injecting thread runs, delays pass.
  `QuietSpec` adds that sources become idle. No timeout or interrupt is ever fair,
  so no liveness property holds because a timer rescues a wait.
* `EmulatorLauncher!Spec`: launcher and each watchdog go on when they can; what they
  start need not boot, answer, or stay alive. A command returns or fails only if it
  does not hang: `ExecHangs` may be taken at any command, and nothing brings it back
  but the death of the emulator, which is not fair. `LauncherEnds` names that one way of
  not ending.
* `EmulatorBoot!Spec`: the launcher goes on, and an install that has not hung ends. The
  device need not boot; that the time of a poll runs out is not fair, so `LaunchEnds`
  holds by the counts of attempts. A device that is never idle would keep an ART
  install waiting without a limit; `MaxBusy` leaves that out.

## 4. What the violations show

* `pool_overflow`: the barrier has `getCorePoolSize()` parties, while the comment
  speaks of the maximum the pool will take. On a pool that has grown above its core
  size the callback runs over a running task. On fixed pools it never does: that is
  the theorem `TripIsIdle`.
* `registry_master`: `getBusyResources` answers null when it sees a race, and the
  report of the master timeout joins that list.
* `launcher_wiped`: `_TransientDeath` signals the pid it finds in the pid file, removes
  the directory and raises. The watchdog of that attempt then still stops its helpers
  and X server beside the next attempt; if the failure came before the pid file was
  written, the emulator too runs on.
* `images_quiet`: `lsof` exits with 1 as soon as one of the files it was given is not
  open, which the code takes for none being open. `tar` then reads images the emulator
  has open.

By hand:

* `PoolClaim.cfg` (`IdleNowMeansIdle`; "Checks if the pool is idle at this moment",
  `base/AsyncTaskPoolMonitor.java:66`): a task just taken from the queue is neither in
  it nor active, so `isIdleNow` can answer true over it. The loop polls more than once,
  which makes it rare.
* `PoolCancel.cfg` (`CancelFreesWorkers`; "we will stop/cancel any blockign tasks",
  `:110`): a barrier task between its look at `poisoned` and its `await` misses the
  reset of the cancel and blocks its thread until somebody else interrupts it.
* `RegistryFollower.cfg` (`FollowersAreNotAccused`; `IdlingResource.java:66`): a
  resource that does what the javadoc asks is marked busy by a poll between its
  callback and its change of state, with no message left, and is later accused of the
  race the javadoc says this order avoids.
* `UiMaster.cfg` (`OverdueWaitEnds`; `IdlingPolicies.java:56`): the master timeout is
  looked at only when there is a message. A wait for a busy pool with an empty queue
  blocks past its time without a limit; waits for the registry are saved by its timer.

* `LauncherHangs.cfg` (`PollReturns`; "Raises: Exception: if the emulator dies or doesn't
  become lively in a reasonable timeframe", `emulator/emulated_device.py:2334`): the
  time of the poll is looked at between commands, and a command waits without a timeout
  (`:2262`).
* `LauncherHelpers.cfg` (`HelpersAllRevived`; "This watchdog monitors and restarts them
  if they die", `:1886-1889`): the telnet service is never restarted, and a helper whose
  restart failed (`:2049`, `:2059`) is not tried again. `HelpersRevived`, which holds,
  is about pipe services and forwarders, until a restart of theirs fails.
* `BootKills.cfg` (`KillsOnlyTheHung`; "Kills processes which have crashed or ANR but
  have not fully died", `:2563`): an app dies after the event log was read (`:2568`) and
  its pid is used again before the kill (`:2580`). What `KillsOnlyHungApps` keeps is that
  nothing is killed whose death the log told, but for that race and for apps that went
  down with the framework.
* `BootIdle.cfg` (`WorkingNotKilled`; "if after a period of time the install command has
  not returned and device is idle", `:3641`): the idle time of all cores is divided by
  one (`_CountCpu`, `:4062`, with a TODO), while `--cores` defaults to two (`:72`). An
  install that keeps one of them busy looks idle and is killed. `HungMeansIdle` is what
  is left: one core or more was idle all through the window, which on one core is the
  device.

Seen while modelling, in the modules and not stated as properties. With
`--emulator_tmp_dir` all attempts share a directory, and the clean-up of an old
watchdog removes what the next attempt has staged (`FilesStay` is about directories of
an attempt's own). A restart of the
pipe services that fails half way leaves processes nobody holds (`leaked`). When
errors of apks are ignored, a transient failure among them is ignored as well, and the
launcher goes on without an emulator (hence the guard in `SuccessMeansAlive`). A plain
exception out of the poll leaves emulator and watchdog running. Lockdown with a real
adb cannot end well. Guest rendering at start, a resized data partition, and a data
partition the emulator had made each lose or break an overlay (the exceptions named at
`BootStateSurvives`).

## 5. Proofs

All theorems hold for every value of the constants that satisfies the module's
assumptions (`PoolAssumption`, `JobsAssumption`, `RegistryAssumption`,
`ControllerAssumption`, `LauncherAssumption`, `BootAssumption`, `ImagesAssumption`): any
number of workers, tasks, resources, notifiers, waits, interrupts and timeouts, of
attempts, helpers, apks, apps, command lines and faults; any system images, API levels
and densities. The assumptions say what kind of thing each constant is, and what the
code fixes: a pool has a core thread, the controller asks every notifier once, what
boot installs is among what start installs. TLC evaluates each of them in a run.

**`AsyncTaskPoolMonitorProofs`.** `TypeCorrect` needs more than types: that a worker
inside a barrier task holds the task of a monitor that exists (`JobInv`, `QueueInv`),
and that the main thread in a wait has created one (`MainInv`). `TripIsIdle` adds two
layers. `HeldInv` and `OwedInv`: an unfinished task is in the queue or in a worker's
hands, and what is owed by a barrier (outstanding at its last arrival and not finished
since) is unfinished. `BarrierInv`: while a thread is
in the barrier action, all other workers wait at that same barrier, and past its look
at the empty queue nothing is owed. The argument is the one of the code's comments
made exact: whoever arrives last finds `CorePoolSize - 1` waiting, which in a pool of
`CorePoolSize` workers are all the others (`FixedPool`, an antecedent of the theorem;
`pool_overflow` shows that it is needed), so no worker holds an application's task;
and if then the queue is empty too, by `HeldInv` no task is left anywhere. Cancelled
monitors, broken barriers and restarts are in the proof; they wake workers from the
barrier but never while the action runs, because the action holds its lock.

**`AsyncTaskPoolCallbackProofs`.** `MonitorInv`: the reference holds the newest monitor
or nothing, and nothing whenever the main thread is out of a wait; so `notifyWhenIdle`
finds nothing in its way (`NeverRecursive`), in any pool. The rest counts. `Count(m)` is
the number of barrier tasks of monitor `m` in the queue and in workers' hands, and
`ToCome(m)` those the main thread has not submitted yet. By `CountInv` the two together
never exceed `CorePoolSize` until the barrier trips. For the barrier to trip all of
them have to be at it, so then `ToCome` is zero, no second worker can trip it too
(`Acts(m) = {w}`), and when the callback has run nothing is left
(`NoLeftoverBarrierTasks`). A barrier action that finds the queue filled again submits
`CorePoolSize` more while the last ones still wait, which is the `Room` it has. The
lemmas `PlacesOfTail` and `PlacesOfAppend` do the counting for queues. That a callback
runs once at most is what `IdleNotifier` asks, and `ImplementsIdleNotifier` follows
step by step.

**`AsyncTaskPoolPollProofs`.** `RunningWorkIsSeen` compares two counts that `isIdleNow`
reads at different moments: the active threads, and the barrier tasks among them.
`ChecksInv`: the second is the number of workers between `CountCheck` and
`UncountCheck`. `GoneInv`: when no monitor is in place, the older ones are poisoned or
have called back, and a barrier task of theirs that has yet to begin leaves at its first
check. So the set `Coming` of the barrier tasks that are counted, or may still come to
be, only shrinks once the count of active threads is read; `ActiveInv` says that this
count covers them and the watched task besides. What is subtracted is then too little to
reach zero.

**`IdlingResourceRegistryProofs`.** One invariant of six parts over the types.
`TimerInv` says where the two delayed messages are: with a callback, each is in exactly
one of the queue, the timers and the main thread's hands (the handler that has taken it
and not yet put it back or dropped the callback); without one, nowhere. With `ArmedInv`
(there is a callback only inside the loop that waits for it) this is
`TimersMatchCallback`, through `PlacedCount`, and gives `NeverRegisteredTwice`.
`StuckInv` is about the last poll: what was busy all along is at or behind the position
it has reached in the list, which is `DeclaredIdleIsTrue`. `CallInv` (a callback that is
registered, or will be, has not been called) is what the steps of `IdleNotifier` need.
`ListInv` keeps the list and the messages within their types. Messages come to the
queue at its end and leave anywhere in `cancelIdleMonitor`; the lemmas on sequences say
what that does to the number of messages of each kind.

**`UiControllerImplProofs`.** One inductive invariant, `IInv`, gives five theorems.
Its heart is `Current(task)`: a SignalingTask under way, in a source, an executor, a
delay or a message, belongs to a generation that is over, or to the current one and
then to a condition of the current wait (`TasksInv`). Hence what is signaled is
signaled by a task of this wait that has run (`SetInv`; theorem `SignalsAreDone`), and
resetting the wait's conditions resets all there are (`NothingLeftOver`). `PollInv`
says which notifiers may hold a registration while polls are under way, which gives
`RegistrationsAreSingle`. `LeaveKeeps` is where every end of `loopUntil` has to
advance the generation, reset and cancel. `ReturnedMeansIdle` has a small invariant of
its own: while the last polls of an idle wait run, a source that was busy ever since
they began is not among those already asked (`StuckInv`), so one of them finds it.

**`EmulatorLauncherProofs`.** `TypeCorrect` splits `TypeOK` in two halves, as a step of
a watchdog leaves the launcher's variables alone. The inductive invariant `IInv` then
answers one question: when the launcher gives an attempt up, why is its emulator dead?
Either it never ran: `FreshInv` (attempts to come have no watchdog), `SpawnInv` (an
emulator is there only after its watchdog has spawned it) and `ServedInv` (the launcher
gets past the poll, or sends a command at all, only with an emulator that has served).
Or `_StopAllProcesses` found its pid: `PidInv` says that while the emulator of the
attempt runs, its watchdog is either about to write the pid, with the directory in
place, or has written it and nobody has removed it; whoever removes the file has killed
the emulator first, or is the watchdog that saw it dead (`ReadyInv`). The attempts whose
failure fell between spawn and pid file are the exception, and are named (`late`).
`PastInv` carries the fact over to all earlier attempts, whose emulators are down for
good; it is `KilledBeforeRetry` made inductive. `KilledInv` says that a killed emulator
is on the launcher's way to a failure, which is `SuccessMeansAlive`. The proof has a
lemma for the launcher's steps that touch neither files nor watchdogs (`InvMove`), one
for exceptions that reach `main` (`InvMainCatches`), and one for steps that concern one
attempt only (`InvLocal`), which covers the watchdogs and the processes. Two properties
stand beside it. `FilesStay` needs the types alone. `HelpersStop` rests on
`HelperInv`: in the hands of a watchdog that runs, a helper is in `killable`, or it is
down and nothing will start it; a watchdog that has ended left none up. `FinishCorrect`
(only a start action gets to its last commands) lets the other lemmas know what a command
that fails there throws away.

**`EmulatorBootProofs`.** The checks of a poll run in a fixed order, so the proof needs
to know at each of them what is behind: `PassInv` says that nothing behind still has to
be done but the two checks that every pass repeats. From it come the bounds of
`AttemptInv`, which `TypeOK` needs, and `UpInv`: what each check has seen holds still
unless the framework went down meanwhile (`SeenInv`), so behind the poll the device is
as far up as the last needed check asks (`ReadyMeansUp`). `SystemInv` follows a restart
of Android: the framework that the second poll has found started after the push, and
scanned it (`SystemApksServed`). `InstallInv` and `TodoInv` follow the apks through the
batches: what is asked for is installed, under its own name or another with that
content, or is still to do, or was given up (`EveryApkInstalled`). `HungInv` is for
`KillsOnlyHungApps`: an app whose crash was logged and its death was not, and one that is
about to be killed, hangs or has died unseen; it has to hold across the two commands, the
deaths between them and every restart of the framework. `LoadInv` keeps the samples of
the load, at uneven times, together with the time that a core has really been quiet; a
window that shows no load lies inside it, for any number of cores (`HungMeansIdle`).

**`EmulatorImagesProofs`.** `BootStateSurvives` spans two processes, so the invariant
follows the images from one session through the archive to the other. `BootInv` says
what each image is at each point of the boot action, up to `RunBase`: what the emulator
had when it made its overlays. `ArchiveInv`: the archive holds overlays over `RunBase`
and no image but, since API 28, the data partition. `StartInv`: what start stages around
it is that same image (`Fits`), unless one of the three exceptions is met. `StagedInv`
gives `ArgsNameStagedFiles`. `CleanInv` goes through the mount points in order: those
passed without a complaint are unmounted, and nothing is damaged. `LinkInv`, for
`InputsUntouched`, says which files can be links at all and under which flags: never one
that the staging, `resize2fs` or a snapshot writes to, and the system image only with
QEMU2 and unmodified, when neither debugfs nor the emulator writes to it. `DensityInv` follows the density through the archive; with
the lemma `Nearest`, that the first bucket whose middle with the next one lies above a
density is the nearest to it, that is `DensityAgrees`. Types need one fact that is not a type: start
resizes an image only under an overlay it has from the archive (`ImageTypes`).

**Only model-checked.** Liveness (`IdleIsNotified`, `WaitEnds`, `CallEnds`,
`LauncherEnds`, `AttemptEnds`, `HelpersRevived`, `LaunchEnds`) and everything that
speaks of ENABLED are beyond the prover and stay with TLC, and so do the statements that
the code refutes (section 4). Every other property of a passing run is a theorem;
`TripIsTrueIdle` has the antecedent `FixedPool`, without which it is false.

## 6. Plan

1. *(done)* Pool monitor, registry, controller, the abstract notifier; launcher and
   watchdog, boot polling and installs, images; their invariants, action
   properties and refinements proved.
2. Sources of idleness that remain, as one family around `IdlingResource`: the URI
   resource, whose transition may run between the steps of `beginLoad` on another
   thread (`UriIdlingResource.java:122`); the idling pools, whose counter misses a task
   that is rejected, dropped or periodic; the looper resource, where a peek of the main
   thread misses the message in the looper's hands and a `release` may come before the
   interrogation has started. Properties: a resource that says idle has no work from
   before the question; a busy one becomes idle.
3. `ActivityScenario` with the lifecycle monitor: the observer against the waiting
   test thread, events of other instances, recreation and `close`. Properties: the
   scenario's stage is one its activity has really reached; `moveToState` ends.
4. `AndroidTestOrchestrator`: collection, one process per test and its death.
   `InstrumentationConnection`: registration and removal between processes, where a
   removal by message unregisters its sender (`InstrumentationConnection.java:418`).
5. Theorems for the modules of 2 to 4, each as its module is written.

## 7. Not modelled, and why

Matching of views, matchers and actions are pure functions of a view tree or calls of
the controller in sequence. Event injection, device control, storage and the shell
service are calls of the platform. The runner's argument parsing and class scanning
keep no state between tests. Of the emulator's tools, the metadata module is generated,
resources and reporting look things up and count, and the device broker runs adb
commands in sequence. Of the modules that are there: the X server's lock files, the
other actions of the launcher (`info`, `doctor`, `ping`), entries of `config.ini` that
no image depends on, and a start action that stores its state again are left out.
Builds, samples and vendored code are not part of the system. Each is listed with its reason in `PROJECT.json`.

## 8. Running

    tlc -workers 2 -config PoolWaits.cfg MCAsyncTaskPoolMonitor
    tlc -workers 2 -config RegistryTimeouts.cfg MCIdlingResourceRegistry
    tlc -workers 2 -config UiWaits.cfg MCUiControllerImpl
    tlc -workers 2 -config LauncherRetries.cfg MCEmulatorLauncher
    tlc -workers 2 -config BootAndInstall.cfg MCEmulatorBoot
    tlc -workers 2 -config ImagesSurvive.cfg MCEmulatorImages
    tlc -workers 2 -config PoolClaim.cfg MCAsyncTaskPoolMonitor    \* a counterexample
    tlc -workers 2 -config PoolCancel.cfg MCAsyncTaskPoolMonitor   \* a counterexample
    tlc -workers 2 -config RegistryFollower.cfg MCIdlingResourceRegistry \* the same
    tlc -workers 2 -config UiMaster.cfg MCUiControllerImpl         \* the same
    tlc -workers 2 -config LauncherHangs.cfg MCEmulatorLauncher    \* the same
    tlc -workers 2 -config LauncherHelpers.cfg MCEmulatorLauncher  \* the same
    tlc -workers 2 -config BootKills.cfg MCEmulatorBoot            \* the same
    tlc -workers 2 -config BootIdle.cfg MCEmulatorBoot             \* the same
    tlapm AsyncTaskPoolMonitorProofs.tla
    tlapm AsyncTaskPoolCallbackProofs.tla
    tlapm AsyncTaskPoolPollProofs.tla
    tlapm EmulatorBootProofs.tla
    tlapm EmulatorImagesProofs.tla
    tlapm EmulatorLauncherProofs.tla
    tlapm IdlingResourceRegistryProofs.tla
    tlapm UiControllerImplProofs.tla
