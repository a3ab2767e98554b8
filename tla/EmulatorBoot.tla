----------------------------- MODULE EmulatorBoot -----------------------------
(***************************************************************************)
(* What the launcher does with an emulator that runs: it polls the device  *)
(* until it is booted (EmulatedDevice._PollEmulatorStatus), restarts       *)
(* Android when apks went to the system partition or are to be verified,   *)
(* polls again, installs apks, and locks the device.  The device boots at  *)
(* its own pace, or never; its framework and its apps may crash at any     *)
(* time.  Emulators that die and adb commands that fail are the business   *)
(* of EmulatorLauncher.                                                    *)
(***************************************************************************)
EXTENDS Integers, Sequences

CONSTANTS
  Configs,      \* the command lines and system images under study
  Apks,         \* the files of --apks and --platform_apks
  Hash,         \* the content of each
  BootApks,     \* those installed by the boot action
  GmsApks,      \* those with gmscore in their name
  Pids,         \* the apps of the device that crash
  MaxAttempts,  \* _connect_max_attempts
  MaxTries,     \* InstallApk: max_tries
  IdleTime,     \* INSTALL_IDLE_TIMEOUT_SECONDS, in units of 16 polls of the install
  MaxFaults,    \* bound: crashes, failures of the device or of adb
  MaxBusy       \* bound: the units of time a device is busy during one install

Config == [action : {"boot", "start"}, api : Nat, mini : BOOLEAN, direct : BOOLEAN,
           realAdb : BOOLEAN, waterfall : BOOLEAN, snapshot : BOOLEAN, rightDpi : BOOLEAN,
           preverify : BOOLEAN, systemApks : BOOLEAN, lockdown : BOOLEAN, ignore : BOOLEAN,
           cores : Nat \ {0}]

ASSUME BootAssumption ==
  /\ Configs \subseteq Config
  /\ BootApks \subseteq Apks
  /\ GmsApks \subseteq Apks \ BootApks
  /\ "bootstrap" \notin Apks
  /\ MaxAttempts \in Nat /\ MaxFaults \in Nat /\ MaxBusy \in Nat
  /\ MaxTries \in Nat \ {0} /\ IdleTime \in Nat \ {0}

VARIABLES
  cfg,
  pc,        \* the launcher: the check of the poll it is at, or what comes after
  phase,     \* which poll: the first one, or the one after a restart of Android
  seen,      \* _PollEmulatorStatus: the booleans that are True
  total,     \* Attempter.total_attempts
  step,      \* Attempter.step_attempts
  kicked,    \* _kicked_launcher
  todo,      \* apks still to install
  gaveUp,    \* apks whose installation raised and was ignored
  cur,       \* InstallApk: apk_path
  back,      \* where InstallApk was called
  tries,     \* InstallApk: attempts
  spawns,    \* SpawnAndWaitWithRetry: attempts
  loads,     \* IdleStatus.loads: time of a sample, idle time of all cores then
  level,     \* the device: how far it has booted
  storage,   \* its external storage is mounted
  bootProp,  \* its property sys.boot_completed, which outlives a restart
  event,     \* its event log tells that the launcher was started
  ro,        \* its data partition was remounted read-only
  stopped,   \* its framework was told to stop
  pending,   \* am restart has returned; the framework has yet to go down
  pushed,    \* the system apks are on the system partition
  scanned,   \* the framework that runs found them there when it started
  installed, \* the contents installed
  dev,       \* what became of the install command under way
  proc, crashed, died, \* the apps, and the events logged for them
  targets,   \* _KillCrashedProcesses: procs_to_kill
  faults,
  fell,      \* history: the framework went down since the poll began
  missed,    \* history: apps that hung and died, and the event log read did not tell
  quiet      \* history: for how long a core or more has been idle

pollVars    == <<seen, total, step, kicked, fell>>
installVars == <<todo, gaveUp, cur, back, tries, spawns, loads, quiet>>
deviceVars  == <<level, storage, bootProp, event, ro, stopped, pending, pushed, scanned>>
appVars     == <<proc, crashed, died, targets, missed>>
vars == <<cfg, pc, phase, pollVars, installVars, deviceVars, installed, dev, appVars, faults>>

\* Levels of the device.
Off          == 0
Listening    == 1   \* its adb port accepts connections
ServerUp     == 2   \* system_server is in its process list
PmUp         == 3   \* the package manager answers
BootComplete == 4
LauncherUp   == 5

\* The checks of the poll, in order; "ready" is what follows the loop.
Checks == <<"adb", "connect", "pipe", "waterfall", "logcat", "stop", "fs", "server",
            "crashes", "pm", "storage", "boot", "dpi", "launcher", "ready">>
CheckNames == {Checks[i] : i \in DOMAIN Checks}
Ends == {"running", "plain", "transient"}
Contents == {Hash[a] : a \in Apks} \cup {"bootstrap"}

TypeOK ==
  /\ cfg \in Configs
  /\ pc \in CheckNames \cup Ends
            \cup {"poll", "preverify", "push", "restart", "apks", "lockdown", "gms", "install"}
  /\ phase \in {"first", "preverify", "system"}
  /\ seen \subseteq CheckNames
  /\ total \in 0 .. MaxAttempts + Len(Checks)
  /\ step \in 0 .. MaxAttempts + 1
  /\ todo \subseteq Apks /\ gaveUp \subseteq Apks
  /\ cur \in Apks \cup {"bootstrap", "none"}
  /\ back \in {"dpi", "apks", "gms"}
  /\ tries \in 0 .. MaxTries - 1 /\ spawns \in 0 .. 1
  /\ \A i \in 1 .. Len(loads) : loads[i] \in [time : Nat, idle : Nat]
  /\ quiet \in Nat
  /\ level \in Off .. LauncherUp
  /\ {kicked, storage, bootProp, event, ro, stopped, pending, pushed, scanned, fell}
       \subseteq BOOLEAN
  /\ installed \subseteq Contents
  /\ dev \in {"none", "working", "hung", "done", "failed", "permanent"}
  /\ proc \in [Pids -> {"live", "hung", "dead"}]
  /\ {crashed, died, targets, missed} \subseteq SUBSET Pids
  /\ faults \in 0 .. MaxFaults

-----------------------------------------------------------------------------
(* Helpers                                                                 *)

Files(hashes, files) == {CHOOSE f \in files : Hash[f] = h : h \in hashes}
Hashes(files) == {Hash[f] : f \in files}

\* Files with the same content count once, when anything was installed at boot.
RemoveBootTimeApks(boot, other) ==
  IF boot = {} THEN other ELSE Files(Hashes(other) \ Hashes(boot), other)

Fault == faults < MaxFaults /\ faults' = faults + 1

\* Checks this poll makes; what it has seen it does not check again.
Needed(c) ==
  /\ c \notin seen
  /\ c = "connect"   => cfg.realAdb
  /\ c = "waterfall" => cfg.waterfall
  /\ c = "stop"      => cfg.mini
  /\ c = "dpi"       => ~(cfg.snapshot /\ phase = "first")
  /\ c = "launcher"  => ~cfg.direct

Following(c) ==
  LET i == CHOOSE k \in DOMAIN Checks : Checks[k] = c
      later == {k \in DOMAIN Checks : k > i /\ Needed(Checks[k])}
  IN Checks[CHOOSE k \in later : \A j \in later : k <= j]

\* Mutant: the launcher check is not repeated when it fails.
AttemptStepFallsThrough(c, ok) ==
  /\ total' = total + 1
  /\ IF ok \/ c = "launcher"
       THEN seen' = seen \cup {c} /\ step' = 0 /\ pc' = Following(c)
       ELSE step' = step + 1 /\ pc' = "poll" /\ UNCHANGED seen
  /\ UNCHANGED <<kicked, fell>>

\* Attempter.AttemptStep, and the continue when the step fails.
AttemptStep(c, ok) ==
  /\ total' = total + 1
  /\ IF ok THEN seen' = seen \cup {c} /\ step' = 0 /\ pc' = Following(c)
           ELSE step' = step + 1 /\ pc' = "poll" /\ UNCHANGED seen
  /\ UNCHANGED <<kicked, fell>>

BeginPoll(p) ==
  /\ pc' = "poll"
  /\ phase' = p
  /\ seen' = {} /\ total' = 0 /\ step' = 0 /\ fell' = FALSE
  /\ UNCHANGED kicked

Pass(c) == seen' = seen \cup {c} /\ pc' = Following(c) /\ UNCHANGED <<total, step, kicked, fell>>

\* Mutant: processes that died are killed once more.
FindProcsToKillAll == crashed

\* Crashed or not responding, and not known to have died.
FindProcsToKill == crashed \ died

\* The time between two samples less the idle time of all cores, as of one core
\* (_CountCpu returns 1), and no less than 0 (max_load starts there).
Busy(samples, i) ==
  LET b == (samples[i + 1].time - samples[i].time) - (samples[i + 1].idle - samples[i].idle)
  IN IF b > 0 THEN b ELSE 0

\* Mutant: the window starts when the install does, whatever the load was in it.
RecentMaxLoadOfLast(samples) ==
  LET n == Len(samples)
  IN IF samples[n].time - samples[1].time >= IdleTime THEN Busy(samples, n - 1) ELSE 1

\* The largest load between two samples of the last IdleTime: here the time busy
\* rather than its share, as only "idle" and "not idle" matter; 1 if the samples
\* do not reach back far enough.
RecentMaxLoad(samples) ==
  LET n == Len(samples)
      old == {i \in 1 .. n - 1 : samples[n].time - samples[i].time >= IdleTime}
  IN IF old = {} THEN 1
     ELSE LET first == CHOOSE i \in old : \A j \in old : j <= i
              busies == {Busy(samples, i) : i \in first .. n - 1}
          IN CHOOSE b \in busies : \A a \in busies : a <= b

Art == cfg.api > 20

-----------------------------------------------------------------------------
Init ==
  /\ cfg \in Configs
  /\ pc = "poll" /\ phase = "first"
  /\ seen = {} /\ total = 0 /\ step = 0 /\ kicked = FALSE /\ fell = FALSE
  /\ todo = IF cfg.action = "boot" THEN BootApks
            ELSE RemoveBootTimeApks(BootApks, Apks \ BootApks)
  /\ installed = IF cfg.action = "boot" THEN {} ELSE Hashes(BootApks)
  /\ gaveUp = {} /\ cur = "none" /\ back = "apks" /\ tries = 0 /\ spawns = 0
  /\ loads = <<>> /\ quiet = 0
  /\ level = Off /\ storage = FALSE /\ bootProp = FALSE /\ event = FALSE
  /\ ro = FALSE /\ stopped = FALSE /\ pending = FALSE /\ pushed = FALSE /\ scanned = FALSE
  /\ dev = "none"
  /\ proc = [p \in Pids |-> "live"] /\ crashed = {} /\ died = {}
  /\ targets = {} /\ missed = {}
  /\ faults = 0

deviceSame == UNCHANGED <<cfg, deviceVars, appVars>>
othersSame == deviceSame /\ UNCHANGED <<installVars, installed, dev>>

-----------------------------------------------------------------------------
(* The poll                                                                *)

\* Mutant: the bound is compared for equality, and several attempts a pass may
\* step over it.
OutOfAttemptsExactly == total = MaxAttempts

OutOfAttempts == total > MaxAttempts

\* The top of the loop: out of attempts, or out of time (which may happen at any
\* pass); else the first check that is still to do.
NextPass ==
  /\ pc = "poll"
  /\ IF OutOfAttempts THEN pc' = "plain"
     ELSE \/ Needed("adb") /\ pc' = "adb"
          \/ ~Needed("adb") /\ pc' = Following("adb")
  /\ UNCHANGED <<phase, pollVars, faults>> /\ othersSame

TimeIsUp ==
  /\ pc = "poll"
  /\ pc' = "plain"
  /\ Fault
  /\ UNCHANGED <<phase, pollVars>> /\ othersSame

\* Checks that only look.  In API 21 and later the launcher is looked up in the
\* process list, before in the event log.
Answer(c) ==
  CASE c = "adb"       -> level >= Listening
    [] c = "pipe"      -> TRUE
    [] c = "waterfall" -> level >= Listening
    [] c = "server"    -> level >= ServerUp
    [] c = "pm"        -> level >= PmUp
    [] c = "boot"      -> bootProp

Look ==
  /\ pc \in {"adb", "pipe", "waterfall", "server", "pm", "boot"}
  /\ AttemptStep(pc, Answer(pc))
  /\ UNCHANGED <<phase, faults>> /\ othersSame

\* ConnectDevice, wait-for-device and EnableLogcat do it or raise.
ConnectOrEnableLogcat ==
  /\ pc \in {"connect", "logcat"}
  /\ \/ Pass(pc) /\ UNCHANGED faults
     \/ Fault /\ pc' = "plain" /\ UNCHANGED pollVars
  /\ UNCHANGED phase /\ othersSame

\* What comes after a poll.
AfterPoll ==
  CASE phase = "first"     -> IF cfg.action = "boot" THEN "apks"
                              ELSE IF cfg.mini THEN "running" ELSE "preverify"
    [] phase = "preverify" -> "push"
    [] phase = "system"    -> "apks"

\* Apps that hang go down with the framework, and nobody is left to log it; those that
\* are well do so too, which makes no difference here.
AppsDie ==
  /\ proc' = [p \in Pids |-> IF proc[p] = "hung" THEN "dead" ELSE proc[p]]
  /\ missed' = missed \cup {p \in Pids : proc[p] = "hung"}
  /\ UNCHANGED <<crashed, died, targets>>

\* mini_boot: the framework is stopped again and the poll returns.
StopFramework ==
  /\ pc = "stop"
  /\ stopped' = TRUE
  /\ level' = Listening
  /\ scanned' = FALSE
  /\ AppsDie
  /\ pc' = AfterPoll
  /\ UNCHANGED <<cfg, phase, pollVars, installVars, installed, dev, faults,
                 storage, bootProp, event, ro, pending, pushed>>

DetectFSErrors ==
  /\ pc = "fs"
  /\ pc' = IF ro THEN "transient" ELSE Following("fs")
  /\ UNCHANGED <<phase, pollVars, faults>> /\ othersSame

\* _KillCrashedProcesses, in every pass once there is a system server, and when the
\* loop is left: one command reads the event log, ...
AfterKill == IF pc = "crashes" THEN Following("crashes") ELSE AfterPoll

ReadEventLog ==
  /\ pc \in {"crashes", "ready"} /\ targets = {}
  /\ targets' = FindProcsToKill
  /\ pc' = IF FindProcsToKill = {} THEN AfterKill ELSE pc
  /\ UNCHANGED <<cfg, phase, pollVars, installVars, deviceVars, installed, dev, faults,
                 proc, crashed, died, missed>>

\* ... and another kills, whatever has these pids by then.
KillCrashedProcesses ==
  /\ pc \in {"crashes", "ready"} /\ targets # {}
  /\ proc' = [p \in Pids |-> IF p \in targets THEN "dead" ELSE proc[p]]
  /\ died' = died \cup {p \in targets : proc[p] = "hung"}
  /\ targets' = {}
  /\ pc' = AfterKill
  /\ UNCHANGED <<cfg, phase, pollVars, installVars, deviceVars, installed, dev, faults,
                 crashed, missed>>

\* More than 20% of the attempts spent on the storage are a transient failure.
CheckStorage ==
  /\ pc = "storage"
  /\ IF ~storage /\ 100 * (step + 1) > 20 * MaxAttempts
       THEN pc' = "transient" /\ UNCHANGED pollVars
       ELSE AttemptStep("storage", storage)
  /\ UNCHANGED <<phase, faults>> /\ othersSame

Spawn == dev' = "working" /\ loads' = <<[time |-> 0, idle |-> 0]>> /\ quiet' = 0

StartInstall(a, from) ==
  /\ pc' = "install"
  /\ cur' = a /\ back' = from /\ tries' = 0 /\ spawns' = 0
  /\ Spawn
  /\ UNCHANGED gaveUp

IsInstalled(a) == level >= PmUp /\ a \in installed

\* The app that checks the density is installed at the first attempt.
InstallBootstrap ==
  /\ pc = "dpi" /\ step = 0 /\ ~IsInstalled("bootstrap")
  /\ StartInstall("bootstrap", "dpi")
  /\ UNCHANGED <<phase, pollVars, todo, installed, faults>> /\ deviceSame

CheckDpi ==
  LET ok == \/ level >= ServerUp /\ cfg.rightDpi /\ "bootstrap" \in installed
            \/ cfg.api <= 10
  IN
  /\ pc = "dpi" /\ (step > 0 \/ IsInstalled("bootstrap"))
  /\ IF ~ok /\ step + 1 > 4 THEN pc' = "transient" /\ UNCHANGED pollVars
                            ELSE AttemptStep("dpi", ok)
  /\ UNCHANGED <<phase, faults>> /\ othersSame

\* A launcher that does not show up is kicked, once in the life of the launcher.
KickLauncher ==
  /\ pc = "launcher" /\ step > 2 /\ ~kicked
  /\ kicked' = TRUE
  /\ UNCHANGED <<pc, phase, seen, total, step, fell, faults>> /\ othersSame

CheckLauncherStarted ==
  /\ pc = "launcher" /\ (step <= 2 \/ kicked)
  /\ AttemptStep("launcher", IF cfg.api < 21 THEN event ELSE level >= LauncherUp)
  /\ UNCHANGED <<phase, faults>> /\ othersSame

-----------------------------------------------------------------------------
(* Installing an apk                                                       *)

\* InstallApk raises: out of the poll, or out of a loop over apks.
Raise ==
  /\ dev' = "none" /\ cur' = "none" /\ loads' = <<>> /\ quiet' = 0
  /\ UNCHANGED <<back, tries, spawns>>
  /\ IF back # "dpi" /\ cfg.action = "start" /\ cfg.ignore
       THEN pc' = back /\ todo' = todo \ {cur} /\ gaveUp' = gaveUp \cup {cur}
       ELSE pc' = "plain" /\ UNCHANGED <<todo, gaveUp>>

\* Mutant: the attempts are not counted.
TryAgainForever ==
  /\ spawns' = 0
  /\ Spawn
  /\ UNCHANGED <<pc, todo, gaveUp, cur, back, tries>>

TryAgain ==
  IF tries + 1 < MaxTries
    THEN /\ tries' = tries + 1 /\ spawns' = 0
         /\ Spawn
         /\ UNCHANGED <<pc, todo, gaveUp, cur, back>>
    ELSE Raise

\* The command did not end well: an ART device gets no second command in the same
\* try, others one.
CommandFailed ==
  IF ~Art /\ spawns = 0
    THEN /\ spawns' = 1
         /\ Spawn
         /\ UNCHANGED <<pc, todo, gaveUp, cur, back, tries>>
    ELSE TryAgain

installSame == UNCHANGED <<phase, pollVars, installed, faults>> /\ deviceSame

InstallReturns ==
  /\ pc = "install" /\ dev = "done"
  /\ pc' = back /\ todo' = todo \ {cur} /\ cur' = "none"
  /\ dev' = "none" /\ loads' = <<>> /\ quiet' = 0
  /\ UNCHANGED <<gaveUp, back, tries, spawns>>
  /\ installSame

\* A failure that may go away, in the output or in the exit status.
InstallFails ==
  /\ pc = "install" /\ dev = "failed"
  /\ CommandFailed \/ TryAgain
  /\ installSame

\* An error that is permanent raises at once, if adb ended with 0 or the device is
\* an ART one: otherwise its output is not read.
InstallRefused ==
  /\ pc = "install" /\ dev = "permanent"
  /\ Raise \/ (~Art /\ CommandFailed)
  /\ installSame

\* The timer of SpawnAndWaitWithRetry kills the command of a device without ART.
TimerFires ==
  /\ pc = "install" /\ ~Art /\ dev \in {"working", "hung", "done"}
  /\ CommandFailed
  /\ installSame

\* _Dex2OatCheckingInstall, the 16th poll: d units of time have passed, the cores were
\* busy for b of theirs, and an install that works keeps one of them busy.
CheckIdle ==
  /\ pc = "install" /\ Art /\ dev \in {"working", "hung"} /\ RecentMaxLoad(loads) > 0
  /\ \E d \in 1 .. 2 : \E b \in 0 .. cfg.cores * d :
       LET last == loads[Len(loads)] IN
       /\ dev = "working" => b >= d
       /\ cfg.cores * last.time - last.idle + b <= cfg.cores * MaxBusy
       /\ loads' = Append(loads, [time |-> last.time + d, idle |-> last.idle + cfg.cores * d - b])
       /\ quiet' = IF b <= (cfg.cores - 1) * d THEN quiet + d ELSE 0
  /\ UNCHANGED <<pc, todo, gaveUp, cur, back, tries, spawns, dev>>
  /\ installSame

\* A device without load for IdleTime has its install killed, even if it ends now.
KillHungInstall ==
  /\ pc = "install" /\ Art /\ dev \in {"working", "hung", "done"} /\ RecentMaxLoad(loads) = 0
  /\ TryAgain
  /\ installSame

-----------------------------------------------------------------------------
(* The rest of _Run and of _FirstBootAtBuildTimeOnly                        *)

\* Mutant: the restart forgets that the framework has to go down first.
RestartAndroidStartOnly(p) ==
  /\ BeginPoll(p)
  /\ pending' = FALSE
  /\ UNCHANGED <<level, storage, bootProp, event, ro, stopped, pushed, scanned, appVars>>

\* stop and start before API 19; am restart, which returns at once, since.
RestartAndroid(p) ==
  /\ BeginPoll(p)
  /\ IF cfg.api < 19
       THEN level' = Listening /\ scanned' = FALSE /\ AppsDie /\ UNCHANGED pending
       ELSE pending' = TRUE /\ UNCHANGED <<level, scanned, appVars>>
  /\ UNCHANGED <<storage, bootProp, event, ro, stopped, pushed>>

PreverifyApks ==
  /\ pc = "preverify"
  /\ IF cfg.preverify /\ ~Art THEN RestartAndroid("preverify")
     ELSE pc' = "push" /\ UNCHANGED <<phase, pollVars, deviceVars, appVars>>
  /\ UNCHANGED <<cfg, installVars, installed, dev, faults>>

\* InstallSystemApks.
PushSystemApks ==
  /\ pc = "push" /\ cfg.systemApks
  /\ \/ pushed' = TRUE /\ pc' = "restart" /\ UNCHANGED faults
     \/ Fault /\ pc' = "plain" /\ UNCHANGED pushed
  /\ UNCHANGED <<cfg, phase, pollVars, installVars, installed, dev, appVars,
                 level, storage, bootProp, event, ro, stopped, pending, scanned>>

NoSystemApks ==
  /\ pc = "push" /\ ~cfg.systemApks
  /\ pc' = "apks"
  /\ UNCHANGED <<phase, pollVars, faults>> /\ othersSame

RestartForSystemApks ==
  /\ pc = "restart"
  /\ RestartAndroid("system")
  /\ UNCHANGED <<cfg, installVars, installed, dev, faults>>

\* The loops over boot_time_apks, over the other apks, and over those of gmscore.
Batch == IF pc = "gms" THEN todo \cap GmsApks ELSE todo \ GmsApks

InstallApk ==
  /\ pc \in {"apks", "gms"}
  /\ \E a \in Batch : StartInstall(a, pc) /\ UNCHANGED todo
  /\ UNCHANGED <<phase, pollVars, installed, faults>> /\ deviceSame

\* Mutant: the apks of gmscore are left for later, and forgotten.
BatchDoneForgetsGms ==
  /\ pc \in {"apks", "gms"} /\ Batch = {}
  /\ pc' = IF cfg.action = "boot" \/ pc = "gms" \/ ~cfg.lockdown THEN "running" ELSE "lockdown"
  /\ UNCHANGED <<phase, pollVars, faults>> /\ othersSame

BatchDone ==
  /\ pc \in {"apks", "gms"} /\ Batch = {}
  /\ pc' = IF cfg.action = "boot" \/ pc = "gms" THEN "running" ELSE "lockdown"
  /\ UNCHANGED <<phase, pollVars, faults>> /\ othersSame

\* _RemoveAdbd stops adbd and then remounts the root with one more command, which
\* cannot reach a device that is connected to through adbd.
Lockdown ==
  /\ pc = "lockdown"
  /\ pc' = IF cfg.lockdown /\ cfg.realAdb THEN "transient" ELSE "gms"
  /\ UNCHANGED <<phase, pollVars, faults>> /\ othersSame

Poll == \/ NextPass \/ TimeIsUp \/ Look \/ ConnectOrEnableLogcat \/ StopFramework
        \/ DetectFSErrors \/ ReadEventLog \/ KillCrashedProcesses \/ CheckStorage
        \/ InstallBootstrap \/ CheckDpi \/ KickLauncher \/ CheckLauncherStarted

Install == InstallReturns \/ InstallFails \/ InstallRefused \/ TimerFires
           \/ CheckIdle \/ KillHungInstall

Rest == \/ PreverifyApks \/ PushSystemApks \/ NoSystemApks \/ RestartForSystemApks
        \/ InstallApk \/ BatchDone \/ Lockdown

Launcher == Poll \/ Install \/ Rest

-----------------------------------------------------------------------------
(* The device                                                              *)

launcherSame == UNCHANGED <<cfg, pc, phase, seen, total, step, kicked, todo, gaveUp, cur,
                            back, tries, spawns, loads, quiet>>

\* One level up.  The framework finds the system apks as it starts; booting sets the
\* property, and the start of the launcher is logged.
DeviceBoots ==
  /\ level < LauncherUp /\ (stopped => level < Listening)
  /\ level' = level + 1
  /\ scanned' = IF level' = ServerUp THEN pushed ELSE scanned
  /\ bootProp' = (bootProp \/ level' = BootComplete)
  /\ event' = (event \/ level' = LauncherUp)
  /\ launcherSame
  /\ UNCHANGED <<fell, storage, ro, stopped, pending, pushed, installed, dev, appVars, faults>>

StorageMounts ==
  /\ ~storage /\ level >= ServerUp
  /\ storage' = TRUE
  /\ launcherSame
  /\ UNCHANGED <<fell, level, bootProp, event, ro, stopped, pending, pushed, scanned,
                 installed, dev, appVars, faults>>

\* The framework crashes, or goes down as am restart told it.
FrameworkDies ==
  /\ level > Listening
  /\ \/ pending /\ pending' = FALSE /\ UNCHANGED faults
     \/ Fault /\ UNCHANGED pending
  /\ level' = Listening /\ scanned' = FALSE /\ fell' = TRUE
  /\ AppsDie
  /\ launcherSame
  /\ UNCHANGED <<storage, bootProp, event, ro, stopped, pushed, installed, dev>>

RemountedReadOnly ==
  /\ ~ro /\ level > Off
  /\ Fault
  /\ ro' = TRUE
  /\ launcherSame
  /\ UNCHANGED <<fell, level, storage, bootProp, event, stopped, pending, pushed, scanned,
                 installed, dev, appVars>>

\* An app crashes or does not respond; it dies; its pid is used again.
AppEvent ==
  /\ \E p \in Pids :
       \/ /\ proc[p] = "live" /\ level >= ServerUp /\ Fault
          /\ proc' = [proc EXCEPT ![p] = "hung"]
          /\ crashed' = crashed \cup {p}
          /\ UNCHANGED <<died, missed>>
       \/ /\ proc[p] = "hung"
          /\ proc' = [proc EXCEPT ![p] = "dead"]
          /\ died' = died \cup {p}
          /\ missed' = missed \cup ({p} \cap targets)
          /\ UNCHANGED <<crashed, faults>>
       \/ /\ proc[p] = "dead"
          /\ proc' = [proc EXCEPT ![p] = "live"]
          /\ UNCHANGED <<crashed, died, missed, faults>>
  /\ launcherSame
  /\ UNCHANGED <<fell, deviceVars, installed, dev, targets>>

\* The device ends the install, well or badly, or never.
InstallEnds ==
  /\ dev = "working"
  /\ \/ /\ level >= PmUp
        /\ dev' = "done"
        /\ installed' = installed \cup {IF cur = "bootstrap" THEN cur ELSE Hash[cur]}
        /\ UNCHANGED faults
     \/ level < PmUp /\ dev' = "failed" /\ UNCHANGED <<installed, faults>>
     \/ Fault /\ dev' \in {"failed", "permanent", "hung"} /\ UNCHANGED installed
  /\ launcherSame
  /\ UNCHANGED <<fell, deviceVars, appVars>>

Device == \/ DeviceBoots \/ StorageMounts \/ FrameworkDies \/ RemountedReadOnly
          \/ AppEvent \/ InstallEnds

Next == Launcher \/ Device

\* The launcher keeps running.  A device need not boot, but ends an install it has
\* not hung on.
Spec == Init /\ [][Next]_vars /\ WF_vars(Launcher) /\ WF_vars(InstallEnds)

-----------------------------------------------------------------------------
(* Properties                                                              *)

Polled == pc \in {"preverify", "push", "apks", "running"}

\* When a poll returns and the framework has not gone down meanwhile, the device is
\* booted up to the launcher (or to the lock screen with direct boot) with its
\* storage mounted, although every sign was read at a different time.  After a
\* restart the signs of the boot and, before API 21, of the launcher are those of
\* the life before: then only the package manager is known to be up.
ReadyMeansUp ==
  Polled /\ ~fell /\ ~cfg.mini =>
    /\ storage
    /\ level >= IF phase # "first" THEN PmUp
                ELSE IF cfg.direct THEN BootComplete ELSE LauncherUp

\* Once the apks are being installed, the framework that runs has found the system
\* apks; am restart may not have taken place yet.
SystemApksServed ==
  pc \in {"apks", "lockdown", "gms", "running"} /\ cfg.systemApks /\ cfg.action = "start"
    /\ ~cfg.mini /\ ~pending /\ level >= ServerUp => scanned

\* When the launcher is done, what is in each apk of the command line is installed,
\* now or by the boot action, except for those whose failure it was told to ignore.
EveryApkInstalled ==
  pc = "running" /\ ~(cfg.action = "start" /\ cfg.mini) =>
    \A a \in IF cfg.action = "boot" THEN BootApks ELSE Apks :
      Hash[a] \in installed \/ \E b \in gaveUp : Hash[b] = Hash[a]

\* What the launcher kills is an app that crashed and still hangs: an app that has died
\* since is left alone, and so is what has its pid now.  Except when it died unseen:
\* after the launcher had read the event log, or together with the framework.
KillsOnlyHungApps ==
  [][KillCrashedProcesses =>
       \A p \in Pids : proc'[p] # proc[p] => proc[p] = "hung" \/ p \in missed]_vars

\* "Kills processes which have crashed or ANR but have not fully died."
\* (_KillCrashedProcesses), without exception.  Violated.
KillsOnlyTheHung ==
  [][KillCrashedProcesses => \A p \in Pids : proc'[p] # proc[p] => proc[p] = "hung"]_vars

\* An install is given up as hung only when a core or more was idle for all of the last
\* IdleTime.  Where the device has one core, as _CountCpu takes it to have, that is an
\* idle device; where it has more, an install may be at work on another.
HungMeansIdle == [][KillHungInstall => quiet >= IdleTime]_vars

\* "We determine if the install failed / froze if after a period of time the install
\* command has not returned and device is idle." (_Dex2OatCheckingInstall): an install
\* that works is not killed.  Violated on two cores, the default of --cores.
WorkingNotKilled == [][KillHungInstall => dev # "working"]_vars

\* The launcher ends, even if the device stops booting anywhere, or its framework
\* goes down while it is polled, or an install hangs: the attempts of polls and
\* installs are counted.  That the time of a poll runs out is not relied upon.
LaunchEnds == <>(pc \in Ends)
=============================================================================
