--------------------------- MODULE EmulatorLauncher ---------------------------
(***************************************************************************)
(* The launcher of the emulator, unified_launcher.py, and the processes it *)
(* leaves behind: main() retries EntryPoint after a transient failure;     *)
(* every attempt stages its files, forks a watchdog, polls the device and  *)
(* installs apks.  The watchdog (EmulatedDevice._WatchdogLoop) starts the  *)
(* helpers, the X server and the emulator, revives helpers, and removes    *)
(* the files when the emulator is gone.  Launcher and watchdogs share only *)
(* the temporary directory, the file with the emulator's pid in it, and    *)
(* the exit status of the watchdog.                                        *)
(***************************************************************************)
EXTENDS Integers

CONSTANTS
  RetryAttempts, \* FLAGS.retry_attempts
  Pipes,         \* the processes of _StartPipeServices
  Forwarders,    \* the processes of waterfall_fns
  FlagSets,      \* the command lines under study
  MaxPolls,      \* bound: _connect_max_attempts
  MaxFaults      \* bound: processes that die, commands that fail or hang

Attempts == 1 .. RetryAttempts
Dirs     == 0 .. RetryAttempts     \* 0: the directory of --emulator_tmp_dir
Helpers  == Pipes \cup Forwarders \cup {"telnet"}
Entries  == {"images", "pid"}
Flags    == [action : {"start", "boot"}, sharedTmp : BOOLEAN, waterfall : BOOLEAN,
             ignoreFailures : BOOLEAN, xvfb : BOOLEAN]

ASSUME LauncherAssumption ==
  /\ RetryAttempts \in Nat \ {0}
  /\ MaxPolls \in Nat
  /\ MaxFaults \in Nat
  /\ FlagSets \subseteq Flags
  /\ Pipes \cap Forwarders = {}
  /\ "telnet" \notin Pipes \cup Forwarders

VARIABLES
  flag,      \* the command line
  attempt,   \* main: attempts
  pc,        \* what the launcher does
  err,       \* the kind of the exception under way
  handler,   \* who catches a transient failure: main, or a loop over apks
  listening, \* _PollEmulatorStatus: adb_listening
  polls,     \* _PollEmulatorStatus: attempts so far
  tmp,       \* the temporary directories: which attempt made each entry
  wpc,       \* what the watchdog of each attempt does
  emu,       \* the emulator of each attempt
  x,         \* its X server
  helper,    \* its helper processes
  killable,  \* _WatchdogLoop: killable, the helpers it terminates in the end
  leaked,    \* attempts with pipe services from a restart that failed half way
  faults,
  late       \* history: attempts whose transient failure came before the pid file

launcherVars == <<flag, attempt, pc, err, handler, listening, polls, late>>
helperVars   == <<x, helper, killable, leaked>>
processVars  == <<emu, helperVars>>
vars == <<launcherVars, tmp, wpc, processVars, faults>>

PollPcs    == {"poll", "step"}
InstallPcs == {"apks", "gms"}
WatchPcs   == {"start", "display", "env", "spawn", "pid", "sit", "cleanup"}
EndPcs     == {"exit0", "exitN", "waited", "lost"}

TypeOK ==
  /\ flag \in FlagSets
  /\ attempt \in Attempts
  /\ pc \in {"stage", "fork", "setup", "finish", "stop", "store", "telnet",
             "waiting", "dying", "wiping", "finally", "ok", "failed"} \cup PollPcs \cup InstallPcs
  /\ err \in {"none", "plain", "transient"}
  /\ handler \in {"main"} \cup InstallPcs
  /\ listening \in BOOLEAN
  /\ polls \in 0 .. MaxPolls
  /\ tmp \in [Dirs -> [Entries -> 0 .. RetryAttempts]]
  /\ wpc \in [Attempts -> {"none"} \cup WatchPcs \cup EndPcs]
  /\ emu \in [Attempts -> {"none", "booting", "ready", "crashed", "killed", "stopped"}]
  /\ x \in [Attempts -> {"none", "up", "zombie", "gone"}]
  /\ helper \in [Attempts -> [Helpers -> {"none", "up", "dead", "gone", "lost"}]]
  /\ killable \in [Attempts -> SUBSET Helpers]
  /\ leaked \subseteq Attempts
  /\ faults \in 0 .. MaxFaults
  /\ late \subseteq Attempts

Empty == [e \in Entries |-> 0]

Init ==
  /\ flag \in FlagSets
  /\ attempt = 1
  /\ pc = "stage"
  /\ err = "none"
  /\ handler = "main"
  /\ listening = FALSE
  /\ polls = 0
  /\ tmp = [d \in Dirs |-> Empty]
  /\ wpc = [g \in Attempts |-> "none"]
  /\ emu = [g \in Attempts |-> "none"]
  /\ x = [g \in Attempts |-> "none"]
  /\ helper = [g \in Attempts |-> [h \in Helpers |-> "none"]]
  /\ killable = [g \in Attempts |-> {}]
  /\ leaked = {}
  /\ faults = 0
  /\ late = {}

-----------------------------------------------------------------------------
(* Helpers                                                                 *)

\* Mutant: every attempt gets the same directory.
GetTmpDirShared(g) == 0

GetTmpDir(g) == IF flag.sharedTmp THEN 0 ELSE g

\* Mutants: one more poll than allowed; polls that are not counted.
AttemptsLeftOffByOne == polls <= MaxPolls
CountPollNever == polls

AttemptsLeft == polls < MaxPolls
CountPoll == polls + 1

Alive(g) == emu[g] \in {"booting", "ready"}

Fault == faults < MaxFaults /\ faults' = faults + 1

\* The helpers a watchdog starts.
Managed == IF flag.waterfall THEN Forwarders ELSE Pipes \cup {"telnet"}

\* delete_temp_on_exit: a boot action removes its files itself.
ChildDeletesTmp == flag.action = "start"

CleanUp(g) == tmp' = [tmp EXCEPT ![GetTmpDir(g)] = Empty]

WGoto(g, p) == wpc' = [wpc EXCEPT ![g] = p]

Goto(p) == pc' = p /\ UNCHANGED <<flag, attempt, err, handler, listening, polls, late>>

\* An exception reaches main: a transient failure starts over while attempts are
\* left, with a new EmulatedDevice.
MainCatches(kind) ==
  /\ IF kind = "transient" /\ attempt < RetryAttempts
       THEN /\ attempt' = attempt + 1
            /\ pc' = "stage"
            /\ polls' = 0
            /\ listening' = FALSE
       ELSE pc' = "failed" /\ UNCHANGED <<attempt, polls, listening>>
  /\ err' = "none"
  /\ handler' = "main"
  /\ UNCHANGED <<flag, late>>

\* The boot action has a finally clause once the device has started.
Throw(kind) ==
  IF flag.action = "boot" /\ pc \notin {"stage", "fork", "setup"} \cup PollPcs
    THEN /\ pc' = "finally"
         /\ err' = kind
         /\ UNCHANGED <<flag, attempt, handler, listening, polls, late>>
    ELSE MainCatches(kind)

\* Mutant: the kill is left out.
TransientDeathNoKill(h) ==
  /\ pc' = "wiping"
  /\ handler' = h
  /\ UNCHANGED <<flag, attempt, err, listening, polls, late>>

\* _TransientDeath begins: kill, wipe, raise.
TransientDeath(h) ==
  /\ pc' = "dying"
  /\ handler' = h
  /\ late' = IF wpc[attempt] = "pid" THEN late \cup {attempt} ELSE late
  /\ UNCHANGED <<flag, attempt, err, listening, polls>>

\* What follows the apks in _Run and in _FirstBootAtBuildTimeOnly.
AfterInstall(p) == IF flag.action = "boot" THEN "stop"
                   ELSE IF p = "apks" THEN "finish" ELSE "ok"

-----------------------------------------------------------------------------
(* The launcher                                                            *)

\* StartDevice up to the fork fills the directory, which is new or has been wiped.
Stage ==
  /\ pc = "stage"
  /\ tmp' = [tmp EXCEPT ![GetTmpDir(attempt)]["images"] = attempt]
  /\ Goto("fork")
  /\ UNCHANGED <<wpc, processVars, faults>>

\* _ForkWatchdog asserts that the files are there.
ForkWatchdog ==
  LET staged == tmp[GetTmpDir(attempt)]["images"] = attempt IN
  /\ pc = "fork"
  /\ IF staged THEN WGoto(attempt, "start") /\ Goto("poll")
               ELSE Throw("plain") /\ UNCHANGED wpc
  /\ UNCHANGED <<tmp, processVars, faults>>

\* waitpid gives 0 for a watchdog that runs and for one that exited with 0, which
\* this call reaps: only the next call fails.
EnsureEmuRunning ==
  /\ pc = "poll"
  /\ \/ /\ wpc[attempt] \in {"exitN", "lost", "waited"}
        /\ Throw("plain")
        /\ UNCHANGED wpc
     \/ /\ wpc[attempt] \notin EndPcs
        /\ Goto("step")
        /\ UNCHANGED wpc
     \/ /\ wpc[attempt] = "exit0"
        /\ wpc' = [wpc EXCEPT ![attempt] = "waited"]
        /\ Goto("step")
  /\ UNCHANGED <<tmp, processVars, faults>>

\* A step of the poll is not done yet, or the last one is.
PollStep ==
  /\ pc = "step"
  /\ listening' = (listening \/ emu[attempt] = "ready")
  /\ \/ /\ AttemptsLeft
        /\ listening => emu[attempt] = "ready"
        /\ polls' = CountPoll
        /\ pc' = "poll"
     \/ /\ emu[attempt] = "ready"
        /\ pc' = "setup"
        /\ UNCHANGED polls
  /\ UNCHANGED <<flag, attempt, err, handler, late, tmp, wpc, processVars, faults>>

\* "Haven't been able to connect": the emulator and its watchdog stay.
PollTimeout ==
  /\ pc = "step"
  /\ ~AttemptsLeft
  /\ Throw("plain")
  /\ UNCHANGED <<tmp, wpc, processVars, faults>>

\* The commands of _StartEmulator, _Run and _StopDeviceAndOutputState.
DeviceCommands ==
  /\ emu[attempt] = "ready"
  /\ \/ pc = "setup" /\ Goto("apks")
     \/ pc = "finish" /\ Goto("gms")
  /\ UNCHANGED <<tmp, wpc, processVars, faults>>

\* Nothing to send to the device after the apks.
NoCommands ==
  /\ pc = "finish"
  /\ Goto("gms")
  /\ UNCHANGED <<tmp, wpc, processVars, faults>>

\* ExecOnDevice: adb exits with an error, as it does once the emulator is gone.
ExecFails ==
  /\ pc \in {"setup", "finish", "stop"} \cup InstallPcs \/ (pc = "step" /\ listening)
  /\ IF emu[attempt] = "ready" THEN Fault ELSE UNCHANGED faults
  /\ TransientDeath(IF pc \in InstallPcs THEN pc ELSE "main")
  /\ UNCHANGED <<tmp, wpc, processVars>>

\* ExecOnDevice: communicate() has no timeout, and a device may take a command and
\* never answer.
ExecHangs ==
  /\ pc \in {"setup", "finish", "stop"} \cup InstallPcs \/ (pc = "step" /\ listening)
  /\ emu[attempt] = "ready"
  /\ Fault
  /\ pc' = "waiting"
  /\ handler' = IF pc \in InstallPcs THEN pc ELSE "main"
  /\ UNCHANGED <<flag, attempt, err, listening, polls, late, tmp, wpc, processVars>>

\* adb loses its connection with the emulator.
HungCommandFails ==
  /\ pc = "waiting"
  /\ ~Alive(attempt)
  /\ TransientDeath(handler)
  /\ UNCHANGED <<tmp, wpc, processVars, faults>>

\* _Push, the metadata, and an install that fails for good.
CommandFails ==
  /\ pc \in {"setup", "finish", "store"} \cup InstallPcs
  /\ IF emu[attempt] = "ready" THEN Fault ELSE UNCHANGED faults
  /\ IF pc \notin InstallPcs
       THEN Throw("plain")
       ELSE IF flag.action = "start" /\ flag.ignoreFailures
         THEN Goto(AfterInstall(pc))
         ELSE /\ pc' = "telnet"
              /\ err' = "plain"
              /\ UNCHANGED <<flag, attempt, handler, listening, polls, late>>
  /\ UNCHANGED <<tmp, wpc, processVars>>

\* InstallApk for every apk.
Install ==
  /\ pc \in InstallPcs
  /\ emu[attempt] = "ready"
  /\ Goto(AfterInstall(pc))
  /\ UNCHANGED <<tmp, wpc, processVars, faults>>

\* No apks of this kind.
NothingToInstall ==
  /\ pc \in InstallPcs
  /\ Goto(AfterInstall(pc))
  /\ UNCHANGED <<tmp, wpc, processVars, faults>>

\* Mutant: the error is not raised again.
KillEmulatorSwallows ==
  /\ pc = "telnet"
  /\ \/ /\ emu[attempt] = "ready"
        /\ emu' = [emu EXCEPT ![attempt] = "killed"]
        /\ Goto("ok")
     \/ emu[attempt] # "ready" /\ TransientDeath("main") /\ UNCHANGED emu
  /\ UNCHANGED <<tmp, wpc, helperVars, faults>>

\* KillEmulator over the console after an install failed, then raise error.
KillEmulator ==
  /\ pc = "telnet"
  /\ \/ /\ emu[attempt] = "ready"
        /\ emu' = [emu EXCEPT ![attempt] = "killed"]
        /\ Throw(err)
     \/ /\ emu[attempt] # "ready"
        /\ TransientDeath("main")
        /\ UNCHANGED emu
  /\ UNCHANGED <<tmp, wpc, helperVars, faults>>

\* KillEmulator(politely): the emulator is stopped; what was not unmounted cleanly
\* is a transient failure that has nothing to kill.
KillEmulatorPolitely ==
  /\ pc = "stop"
  /\ emu[attempt] = "ready"
  /\ emu' = [emu EXCEPT ![attempt] = "stopped"]
  /\ \/ Goto("store") /\ UNCHANGED faults
     \/ Fault /\ Goto("wiping")
  /\ UNCHANGED <<tmp, wpc, helperVars>>

Store ==
  /\ pc = "store"
  /\ pc' = "finally"
  /\ UNCHANGED <<flag, attempt, err, handler, listening, polls, late, tmp, wpc,
                 processVars, faults>>

\* _StopAllProcesses: the pid file is in the images directory.
StopAllProcesses ==
  LET victim == tmp[GetTmpDir(attempt)]["pid"] IN
  /\ pc = "dying"
  /\ emu' = IF victim # 0 /\ Alive(victim) THEN [emu EXCEPT ![victim] = "killed"] ELSE emu
  /\ Goto("wiping")
  /\ UNCHANGED <<tmp, wpc, helperVars, faults>>

\* CleanUp, then TransientEmulatorFailure goes to main or to the loop over apks.
Wipe ==
  /\ pc = "wiping"
  /\ CleanUp(attempt)
  /\ IF handler = "main" THEN Throw("transient")
     ELSE IF flag.action = "start" /\ flag.ignoreFailures
       THEN /\ pc' = AfterInstall(handler)
            /\ handler' = "main"
            /\ UNCHANGED <<flag, attempt, err, listening, polls, late>>
       ELSE /\ pc' = "telnet"
            /\ err' = "transient"
            /\ UNCHANGED <<flag, attempt, handler, listening, polls, late>>
  /\ UNCHANGED <<wpc, processVars, faults>>

Finally ==
  /\ pc = "finally"
  /\ CleanUp(attempt)
  /\ IF err = "none" THEN Goto("ok") ELSE MainCatches(err)
  /\ UNCHANGED <<wpc, processVars, faults>>

\* The kill action of a later command line, over the console.
Kill ==
  /\ pc = "ok"
  /\ emu[attempt] = "ready"
  /\ emu' = [emu EXCEPT ![attempt] = "stopped"]
  /\ UNCHANGED <<launcherVars, tmp, wpc, helperVars, faults>>

-----------------------------------------------------------------------------
(* The watchdog of attempt g                                               *)

\* An exception nobody catches unwinds the stack the fork has copied.
Escape(g) == WGoto(g, "lost") /\ UNCHANGED <<tmp, processVars>>

\* _WatchdogLoop up to the display: logs and helpers.
StartHelpers(g) ==
  LET staged == tmp[GetTmpDir(g)]["images"] # 0 IN
  /\ wpc[g] = "start"
  /\ \/ /\ staged
        /\ helper' = [helper EXCEPT ![g] = [h \in Helpers |->
                        IF h \in Managed THEN "up" ELSE "none"]]
        /\ killable' = [killable EXCEPT ![g] = Managed]
        /\ WGoto(g, IF flag.xvfb THEN "display" ELSE "spawn")
        /\ UNCHANGED <<tmp, emu, x, leaked, faults>>
     \/ /\ IF staged THEN Fault ELSE UNCHANGED faults
        /\ Escape(g)
  /\ UNCHANGED launcherVars

\* Display.Start: X11Server.Start and WaitUntilRunning.  A server that crashed or was
\* too slow is gone when they raise; after three of them there is no display.
StartX(g) ==
  /\ wpc[g] = "display"
  /\ \/ x' = [x EXCEPT ![g] = "up"] /\ WGoto(g, "env")
     \/ WGoto(g, "spawn") /\ UNCHANGED x
  /\ UNCHANGED <<launcherVars, tmp, emu, helper, killable, leaked, faults>>

\* emu_env.update(display.environment) asserts that the server still runs.
TakeDisplay(g) ==
  /\ wpc[g] = "env"
  /\ IF x[g] = "up" THEN WGoto(g, "spawn") /\ UNCHANGED <<tmp, processVars>>
                    ELSE Escape(g)
  /\ UNCHANGED <<launcherVars, faults>>

SpawnEmulator(g) ==
  /\ wpc[g] = "spawn"
  /\ \/ /\ tmp[GetTmpDir(g)]["images"] = g
        /\ emu' = [emu EXCEPT ![g] = "booting"]
        /\ WGoto(g, "pid")
        /\ UNCHANGED faults
     \/ /\ IF tmp[GetTmpDir(g)]["images"] = g THEN Fault ELSE UNCHANGED faults
        /\ WGoto(g, "cleanup")
        /\ UNCHANGED emu
  /\ UNCHANGED <<launcherVars, tmp, helperVars>>

WritePid(g) ==
  LET d == GetTmpDir(g) IN
  /\ wpc[g] = "pid"
  /\ IF tmp[d]["images"] # 0
       THEN tmp' = [tmp EXCEPT ![d]["pid"] = g] /\ WGoto(g, "sit") /\ UNCHANGED processVars
       ELSE Escape(g)
  /\ UNCHANGED <<launcherVars, faults>>

\* os.wait returns the X server or the emulator.
XServerDied(g) ==
  /\ wpc[g] = "sit"
  /\ x[g] = "zombie"
  /\ x' = [x EXCEPT ![g] = "gone"]
  /\ WGoto(g, "cleanup")
  /\ UNCHANGED <<launcherVars, tmp, emu, helper, killable, leaked, faults>>

\* Mutant: an emulator that was killed is not noticed.
EmulatorDiedByCrash(g) ==
  /\ wpc[g] = "sit"
  /\ emu[g] = "crashed"
  /\ WGoto(g, "cleanup")
  /\ UNCHANGED <<launcherVars, tmp, processVars, faults>>

EmulatorDied(g) ==
  /\ wpc[g] = "sit"
  /\ ~Alive(g)
  /\ WGoto(g, "cleanup")
  /\ UNCHANGED <<launcherVars, tmp, processVars, faults>>

\* Mutant: the new processes are not put into killable.
RestartedForgotten(g) == killable[g] \ Pipes

Restarted(g) == killable[g] \cup Pipes

\* A pipe service died: all of them are stopped and started again.  After a restart
\* that failed the old ones are still in the list, but no longer in killable.  An
\* OSError is caught; that the log cannot be opened is an IOError, and is not.
PipeDied(g, p) ==
  /\ wpc[g] = "sit"
  /\ helper[g][p] = "dead"
  /\ \/ /\ p \notin killable[g]
        /\ Escape(g)
        /\ UNCHANGED faults
     \/ /\ p \in killable[g]
        /\ helper' = [helper EXCEPT ![g] = [h \in Helpers |->
                        IF h \in Pipes THEN "up" ELSE @[h]]]
        /\ killable' = [killable EXCEPT ![g] = Restarted(g)]
        /\ UNCHANGED <<tmp, wpc, emu, x, leaked, faults>>
     \/ /\ p \in killable[g]
        /\ Fault
        /\ helper' = [helper EXCEPT ![g] = [h \in Helpers |->
                        IF h = p THEN "lost" ELSE IF h \in Pipes THEN "dead" ELSE @[h]]]
        /\ killable' = [killable EXCEPT ![g] = @ \ Pipes]
        /\ leaked' \in {leaked, leaked \cup {g}}
        /\ WGoto(g, "sit") \/ WGoto(g, "lost")
        /\ UNCHANGED <<tmp, emu, x>>
  /\ UNCHANGED launcherVars

\* Mutant: the process is dropped, and not started again.
ForwarderDiedForgets(g, f) ==
  /\ wpc[g] = "sit"
  /\ helper[g][f] = "dead"
  /\ killable' = [killable EXCEPT ![g] = @ \ {f}]
  /\ UNCHANGED <<launcherVars, tmp, wpc, emu, x, helper, leaked, faults>>

ForwarderDied(g, f) ==
  /\ wpc[g] = "sit"
  /\ helper[g][f] = "dead"
  /\ \/ /\ helper' = [helper EXCEPT ![g][f] = "up"]
        /\ UNCHANGED <<killable, faults>>
        /\ UNCHANGED wpc
     \/ /\ Fault
        /\ helper' = [helper EXCEPT ![g][f] = "lost"]
        /\ killable' = [killable EXCEPT ![g] = @ \ {f}]
        /\ WGoto(g, "sit") \/ WGoto(g, "lost")
  /\ UNCHANGED <<launcherVars, tmp, emu, x, leaked>>

\* Nobody starts the telnet service again.
TelnetDied(g) ==
  /\ wpc[g] = "sit"
  /\ helper[g]["telnet"] = "dead"
  /\ helper' = [helper EXCEPT ![g]["telnet"] = "gone"]
  /\ UNCHANGED <<launcherVars, tmp, wpc, emu, x, killable, leaked, faults>>

\* The status of a process that was killed is not 0 in its low byte; os._exit keeps
\* no more than that.
WatchdogCleanup(g) ==
  /\ wpc[g] = "cleanup"
  /\ helper' = [helper EXCEPT ![g] = [h \in Helpers |->
                  IF h \in killable[g] THEN "gone" ELSE @[h]]]
  /\ x' = [x EXCEPT ![g] = "gone"]
  /\ IF ChildDeletesTmp THEN CleanUp(g) ELSE UNCHANGED tmp
  /\ \/ emu[g] # "none" /\ WGoto(g, "exit0")
     \/ WGoto(g, "exitN")
  /\ UNCHANGED <<launcherVars, emu, killable, leaked, faults>>

-----------------------------------------------------------------------------
(* The processes themselves                                                *)

\* It needs the display it was given; without one it may do.
EmulatorBoots(g) ==
  /\ emu[g] = "booting"
  /\ x[g] \in {"none", "up"}
  /\ emu' = [emu EXCEPT ![g] = "ready"]
  /\ UNCHANGED <<launcherVars, tmp, wpc, helperVars, faults>>

EmulatorCrashes(g) ==
  /\ Alive(g)
  /\ Fault
  /\ emu' = [emu EXCEPT ![g] = "crashed"]
  /\ UNCHANGED <<launcherVars, tmp, wpc, helperVars>>

\* Assumed of the emulator: it does not survive its display.  The watchdog, which stops
\* babysitting then, relies on it.
XDies(g) ==
  /\ x[g] = "up"
  /\ Fault
  /\ x' = [x EXCEPT ![g] = "zombie"]
  /\ emu' = IF Alive(g) THEN [emu EXCEPT ![g] = "crashed"] ELSE emu
  /\ UNCHANGED <<launcherVars, tmp, wpc, helper, killable, leaked>>

\* Nobody looks at a helper before the watchdog waits for its children.
HelperDies(g, h) ==
  /\ wpc[g] = "sit"
  /\ helper[g][h] = "up"
  /\ Fault
  /\ helper' = [helper EXCEPT ![g][h] = "dead"]
  /\ UNCHANGED <<launcherVars, tmp, wpc, emu, x, killable, leaked>>

-----------------------------------------------------------------------------
Launcher ==
  \/ Stage \/ ForkWatchdog \/ EnsureEmuRunning \/ PollStep \/ PollTimeout
  \/ DeviceCommands \/ NoCommands \/ ExecFails \/ ExecHangs \/ HungCommandFails
  \/ CommandFails \/ Install \/ NothingToInstall \/ KillEmulator \/ KillEmulatorPolitely \/ Store
  \/ StopAllProcesses \/ Wipe \/ Finally

Watchdog(g) ==
  \/ StartHelpers(g) \/ StartX(g) \/ TakeDisplay(g) \/ SpawnEmulator(g) \/ WritePid(g)
  \/ XServerDied(g) \/ EmulatorDied(g) \/ TelnetDied(g) \/ WatchdogCleanup(g)
  \/ \E p \in Pipes : PipeDied(g, p)
  \/ \E f \in Forwarders : ForwarderDied(g, f)

Processes(g) ==
  \/ EmulatorBoots(g) \/ EmulatorCrashes(g) \/ XDies(g)
  \/ \E h \in Helpers : HelperDies(g, h)

Next == Launcher \/ Kill \/ \E g \in Attempts : Watchdog(g) \/ Processes(g)

\* The launcher and the watchdogs keep running, a command that fails or ends included;
\* one that hangs need not end, and what they start may do nothing.
Spec == Init /\ [][Next]_vars /\ WF_vars(Launcher)
             /\ \A g \in Attempts : WF_vars(Watchdog(g))

-----------------------------------------------------------------------------
(* Properties                                                              *)

\* _TransientDeath kills the emulator before it raises: when main starts over, no
\* emulator of an earlier attempt with files of its own runs, but for one whose
\* failure came before the watchdog had written its pid.
KilledBeforeRetry ==
  ~flag.sharedTmp => \A g \in Attempts : g < attempt /\ g \notin late => ~Alive(g)

\* While the launcher brings the device up, no watchdog or launcher of another
\* attempt takes its files away: only the attempt's own watchdog may.
FilesStay ==
  /\ ~flag.sharedTmp
  /\ pc \in {"fork", "setup"} \cup PollPcs
  /\ wpc[attempt] \notin {"exit0", "exitN", "waited"}
  => tmp[GetTmpDir(attempt)]["images"] = attempt

\* A start that main takes for a success has not killed its emulator, unless errors
\* of apks are ignored.
SuccessMeansAlive ==
  pc = "ok" /\ flag.action = "start" /\ ~flag.ignoreFailures => emu[attempt] # "killed"

\* A watchdog that ends by itself leaves no helper behind, but for the pipe services
\* of a restart that failed half way.
HelpersStop ==
  \A g \in Attempts : wpc[g] \in {"exit0", "exitN", "waited"} =>
    \A h \in Helpers : helper[g][h] # "up"

\* main returns or raises, whatever dies or fails on the way: but for a command sent
\* to an emulator that neither answers nor dies, for which it waits without a timeout.
LauncherEnds == <>(pc \in {"ok", "failed"}) \/ <>[](pc = "waiting" /\ Alive(attempt))

\* _PollEmulatorStatus: "Raises: Exception: if the emulator dies or doesn't become
\* lively in a reasonable timeframe": the poll returns or raises.
PollReturns == pc \in PollPcs ~> pc \notin {"waiting"} \cup PollPcs

Gone(g) == wpc[g] \in {"exit0", "exitN", "waited"} /\ ~Alive(g)

\* The watchdog of an attempt main has given up cleans up and exits, unless it was
\* itself lost or the pid file came too late.
AttemptEnds ==
  \A g \in Attempts : g < attempt /\ g \notin late ~> Gone(g) \/ wpc[g] = "lost"

Dead(g) == {h \in Pipes \cup Forwarders : helper[g][h] = "dead"}

\* A watchdog that keeps sitting by its emulator tries to start a pipe service or a
\* forwarder again once it is dead.  Left out: the telnet service, which nobody starts
\* again, and a helper whose restart failed, which nobody tries a second time.
HelpersRevived ==
  \A g \in Attempts : wpc[g] = "sit" /\ Dead(g) # {} ~> wpc[g] # "sit" \/ Dead(g) = {}

Missing(g) == {h \in Managed : helper[g][h] \in {"dead", "gone", "lost"}}

\* _ForkWatchdog: "Also the emulator has several helper binaries which run along side
\* it [...]. This watchdog monitors and restarts them if they die": all of them.
HelpersAllRevived ==
  \A g \in Attempts : wpc[g] = "sit" /\ Missing(g) # {} ~> wpc[g] # "sit" \/ Missing(g) = {}

\* TransientEmulatorFailure: "All state associated with this emulator should be
\* wiped out before this exception is thrown."
WipedBeforeRetry == pc = "stage" => \A g \in Attempts : g < attempt => Gone(g)
=============================================================================
