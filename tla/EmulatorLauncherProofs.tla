------------------------ MODULE EmulatorLauncherProofs ------------------------
(***************************************************************************)
(* What holds of the launcher and its watchdogs for every number of        *)
(* attempts, polls, faults and helpers, and for every command line.        *)
(***************************************************************************)
EXTENDS EmulatorLauncher, TLAPS

USE LauncherAssumption

\* TypeOK at the start of main.
THEOREM TypeInit == Init => TypeOK
<1> SUFFICES ASSUME Init PROVE TypeOK
  OBVIOUS
<1>1. 1 \in Attempts /\ 0 \in 0 .. RetryAttempts /\ 0 \in 0 .. MaxFaults /\ 0 \in 0 .. MaxPolls
  BY DEF Attempts
<1>2. Empty \in [Entries -> 0 .. RetryAttempts]
  BY <1>1 DEF Empty
<1>3. tmp \in [Dirs -> [Entries -> 0 .. RetryAttempts]]
  BY <1>2 DEF Init
<1>4. helper \in [Attempts -> [Helpers -> {"none", "up", "dead", "gone", "lost"}]]
  BY DEF Init
<1>5. /\ killable \in [Attempts -> SUBSET Helpers]
      /\ wpc \in [Attempts -> {"none"} \cup WatchPcs \cup EndPcs]
      /\ emu \in [Attempts -> {"none", "booting", "ready", "crashed", "killed", "stopped"}]
      /\ x \in [Attempts -> {"none", "up", "zombie", "gone"}]
  BY DEF Init
<1> QED
  BY <1>1, <1>3, <1>4, <1>5 DEF Init, TypeOK

\* The two halves of TypeOK: an action of a watchdog leaves the first one alone.
LauncherType ==
  /\ flag \in FlagSets /\ attempt \in Attempts
  /\ pc \in {"stage", "fork", "setup", "finish", "stop", "store", "telnet",
             "waiting", "dying", "wiping", "finally", "ok", "failed"} \cup PollPcs \cup InstallPcs
  /\ err \in {"none", "plain", "transient"}
  /\ handler \in {"main"} \cup InstallPcs
  /\ listening \in BOOLEAN /\ polls \in 0 .. MaxPolls
  /\ late \subseteq Attempts

ProcessType ==
  /\ tmp \in [Dirs -> [Entries -> 0 .. RetryAttempts]]
  /\ wpc \in [Attempts -> {"none"} \cup WatchPcs \cup EndPcs]
  /\ emu \in [Attempts -> {"none", "booting", "ready", "crashed", "killed", "stopped"}]
  /\ x \in [Attempts -> {"none", "up", "zombie", "gone"}]
  /\ helper \in [Attempts -> [Helpers -> {"none", "up", "dead", "gone", "lost"}]]
  /\ killable \in [Attempts -> SUBSET Helpers]
  /\ leaked \subseteq Attempts
  /\ faults \in 0 .. MaxFaults

\* The two halves make up TypeOK.
LEMMA TypeSplit == TypeOK <=> LauncherType /\ ProcessType
  BY DEF TypeOK, LauncherType, ProcessType

\* main counts its attempts up to RetryAttempts.
LEMMA TypeMainCatches ==
  ASSUME LauncherType, NEW kind, MainCatches(kind) PROVE LauncherType'
<1>1. CASE kind = "transient" /\ attempt < RetryAttempts
  <2>1. attempt' \in Attempts
    BY <1>1 DEF LauncherType, MainCatches, Attempts
  <2>2. polls' \in 0 .. MaxPolls
    BY <1>1 DEF MainCatches
  <2> QED
    BY <1>1, <2>1, <2>2 DEF MainCatches, LauncherType
<1>2. CASE ~(kind = "transient" /\ attempt < RetryAttempts)
  BY <1>2 DEF MainCatches, LauncherType
<1> QED
  BY <1>1, <1>2

\* An exception, caught by main or by the finally clause of the boot action.
LEMMA TypeThrow ==
  ASSUME LauncherType, NEW kind \in {"plain", "transient"}, Throw(kind) PROVE LauncherType'
<1>1. CASE MainCatches(kind)
  BY <1>1, TypeMainCatches
<1>2. CASE /\ pc' = "finally"
           /\ err' = kind
           /\ UNCHANGED <<flag, attempt, handler, listening, polls, late>>
  BY <1>2 DEF LauncherType
<1> QED
  BY <1>1, <1>2 DEF Throw

\* _TransientDeath keeps the launcher's variables in their types.
LEMMA TypeTransientDeath ==
  ASSUME LauncherType, NEW h \in {"main"} \cup InstallPcs, TransientDeath(h)
  PROVE  LauncherType'
  BY DEF LauncherType, TransientDeath

\* Faults stay within their bound.
LEMMA TypeFault == ASSUME ProcessType, Fault PROVE faults' \in 0 .. MaxFaults
  BY DEF ProcessType, Fault

\* _GetTmpDir gives a directory.
LEMMA TypeGetTmpDir == ASSUME NEW g \in Attempts PROVE GetTmpDir(g) \in Dirs
  BY DEF GetTmpDir, Attempts, Dirs

\* CleanUp leaves directories.
LEMMA TypeCleanUp ==
  ASSUME ProcessType, NEW g \in Attempts, CleanUp(g)
  PROVE  tmp' \in [Dirs -> [Entries -> 0 .. RetryAttempts]]
<1>1. Empty \in [Entries -> 0 .. RetryAttempts]
  BY DEF Empty
<1> QED
  BY <1>1, TypeGetTmpDir DEF ProcessType, CleanUp

\* TypeOK over every step of the launcher.
LEMMA TypeLauncher == ASSUME TypeOK, Launcher PROVE TypeOK'
<1> SUFFICES LauncherType' /\ ProcessType'
  BY DEF TypeOK, LauncherType, ProcessType
<1> USE DEF processVars, helperVars
<1>1. LauncherType /\ ProcessType
  BY TypeSplit
<1>2. CASE Stage
  <2>1. LauncherType'
    BY <1>1, <1>2 DEF Stage, Goto, LauncherType
  <2>2. tmp' \in [Dirs -> [Entries -> 0 .. RetryAttempts]]
    <3>1. attempt \in 0 .. RetryAttempts
      BY <1>1 DEF LauncherType, Attempts
    <3> QED
      BY <1>1, <1>2, <3>1, TypeGetTmpDir DEF Stage, LauncherType, ProcessType, Entries
  <2> QED
    BY <1>1, <1>2, <2>1, <2>2 DEF Stage, ProcessType
<1>3. CASE ForkWatchdog
  <2>1. LauncherType'
    BY <1>1, <1>3, TypeThrow DEF ForkWatchdog, Goto, LauncherType, PollPcs
  <2> QED
    BY <1>1, <1>3, <2>1 DEF ForkWatchdog, WGoto, ProcessType, LauncherType, WatchPcs
<1>4. CASE EnsureEmuRunning
  <2>1. LauncherType'
    BY <1>1, <1>4, TypeThrow DEF EnsureEmuRunning, Goto, LauncherType, PollPcs
  <2> QED
    BY <1>1, <1>4, <2>1 DEF EnsureEmuRunning, ProcessType, LauncherType, EndPcs
<1>5. CASE PollStep
  BY <1>1, <1>5 DEF PollStep, LauncherType, ProcessType, AttemptsLeft, CountPoll, PollPcs
<1>6. CASE PollTimeout
  <2>1. LauncherType'
    BY <1>1, <1>6, TypeThrow DEF PollTimeout
  <2> QED
    BY <1>1, <1>6, <2>1 DEF PollTimeout, ProcessType
<1>7. CASE DeviceCommands \/ NoCommands
  BY <1>1, <1>7 DEF DeviceCommands, NoCommands, Goto, LauncherType, ProcessType, InstallPcs
<1>8. CASE ExecFails
  <2>1. LauncherType'
    BY <1>1, <1>8, TypeTransientDeath DEF ExecFails
  <2> QED
    BY <1>1, <1>8, <2>1, TypeFault DEF ExecFails, ProcessType
<1>9. CASE CommandFails
  <2>1. LauncherType'
    BY <1>1, <1>9, TypeThrow
    DEF CommandFails, Goto, AfterInstall, LauncherType
  <2> QED
    BY <1>1, <1>9, <2>1, TypeFault DEF CommandFails, ProcessType
<1>10. CASE Install \/ NothingToInstall
  BY <1>1, <1>10 DEF Install, NothingToInstall, Goto, AfterInstall, LauncherType, ProcessType
<1>11. CASE KillEmulator
  <2>1. LauncherType'
    <3>1. CASE Throw(err) /\ err \in {"plain", "transient"}
      BY <1>1, <3>1, TypeThrow
    <3>2. CASE TransientDeath("main")
      BY <1>1, <3>2, TypeTransientDeath
    <3>3. CASE Throw(err) /\ err = "none"
      <4>1. CASE MainCatches(err)
        BY <1>1, <4>1, TypeMainCatches
      <4>2. CASE /\ pc' = "finally"
                 /\ err' = err
                 /\ UNCHANGED <<flag, attempt, handler, listening, polls, late>>
        BY <1>1, <4>2 DEF LauncherType
      <4> QED
        BY <3>3, <4>1, <4>2 DEF Throw
    <3> QED
      BY <1>1, <1>11, <3>1, <3>2, <3>3 DEF KillEmulator, LauncherType
  <2> QED
    BY <1>1, <1>11, <2>1 DEF KillEmulator, ProcessType, LauncherType
<1>12. CASE KillEmulatorPolitely
  <2>1. LauncherType'
    BY <1>1, <1>12 DEF KillEmulatorPolitely, Goto, LauncherType
  <2> QED
    BY <1>1, <1>12, <2>1, TypeFault DEF KillEmulatorPolitely, ProcessType, LauncherType
<1>13. CASE Store
  BY <1>1, <1>13 DEF Store, LauncherType, ProcessType
<1>14. CASE StopAllProcesses
  <2>1. LauncherType'
    BY <1>1, <1>14 DEF StopAllProcesses, Goto, LauncherType
  <2> QED
    BY <1>1, <1>14, <2>1 DEF StopAllProcesses, ProcessType, LauncherType
<1>15. CASE Wipe
  <2>1. LauncherType'
    <3>1. CASE Throw("transient")
      BY <1>1, <3>1, TypeThrow
    <3>2. CASE ~Throw("transient")
      BY <1>1, <1>15, <3>2 DEF Wipe, AfterInstall, LauncherType
    <3> QED
      BY <3>1, <3>2
  <2>2. tmp' \in [Dirs -> [Entries -> 0 .. RetryAttempts]]
    BY <1>1, <1>15, TypeCleanUp DEF Wipe, LauncherType
  <2> QED
    BY <1>1, <1>15, <2>1, <2>2 DEF Wipe, ProcessType
<1>16. CASE Finally
  <2>1. LauncherType'
    BY <1>1, <1>16, TypeMainCatches DEF Finally, Goto, LauncherType
  <2>2. tmp' \in [Dirs -> [Entries -> 0 .. RetryAttempts]]
    BY <1>1, <1>16, TypeCleanUp DEF Finally, LauncherType
  <2> QED
    BY <1>1, <1>16, <2>1, <2>2 DEF Finally, ProcessType
<1>17. CASE ExecHangs
  <2>1. LauncherType'
    BY <1>1, <1>17 DEF ExecHangs, LauncherType
  <2> QED
    BY <1>1, <1>17, <2>1, TypeFault DEF ExecHangs, ProcessType
<1>18. CASE HungCommandFails
  <2>1. LauncherType'
    BY <1>1, <1>18, TypeTransientDeath DEF HungCommandFails, LauncherType
  <2> QED
    BY <1>1, <1>18, <2>1 DEF HungCommandFails, ProcessType
<1> QED
  BY <1>2, <1>3, <1>4, <1>5, <1>6, <1>7, <1>8, <1>9, <1>10, <1>11, <1>12, <1>13, <1>14,
     <1>15, <1>16, <1>17, <1>18 DEF Launcher

\* TypeOK over every step of a watchdog.
LEMMA TypeWatchdog == ASSUME TypeOK, NEW g \in Attempts, Watchdog(g) PROVE TypeOK'
<1> SUFFICES LauncherType' /\ ProcessType'
  BY DEF TypeOK, LauncherType, ProcessType
<1> USE DEF processVars, helperVars, launcherVars
<1>1. LauncherType /\ ProcessType
  BY TypeSplit
<1>2. UNCHANGED launcherVars => LauncherType'
  BY <1>1 DEF LauncherType
<1>3. Escape(g) /\ UNCHANGED launcherVars /\ faults' \in 0 .. MaxFaults
      => LauncherType' /\ ProcessType'
  BY <1>1, <1>2 DEF Escape, WGoto, ProcessType, EndPcs
<1>4. CASE StartHelpers(g)
  <2>1. Managed \subseteq Helpers
    BY DEF Managed, Helpers
  <2>2. CASE Escape(g)
    BY <1>1, <1>3, <1>4, <2>2, TypeFault DEF StartHelpers, ProcessType
  <2>3. CASE ~Escape(g)
    <3>1. helper' \in [Attempts -> [Helpers -> {"none", "up", "dead", "gone", "lost"}]]
      <4>1. [h \in Helpers |-> IF h \in Managed THEN "up" ELSE "none"]
            \in [Helpers -> {"none", "up", "dead", "gone", "lost"}]
        OBVIOUS
      <4>2. helper' = [helper EXCEPT ![g] =
                        [h \in Helpers |-> IF h \in Managed THEN "up" ELSE "none"]]
        BY <1>4, <2>3 DEF StartHelpers
      <4> QED
        BY <1>1, <4>1, <4>2 DEF ProcessType
    <3>2. killable' \in [Attempts -> SUBSET Helpers]
      BY <1>1, <1>4, <2>1, <2>3 DEF StartHelpers, ProcessType
    <3>3. wpc' \in [Attempts -> {"none"} \cup WatchPcs \cup EndPcs]
      BY <1>1, <1>4, <2>3 DEF StartHelpers, WGoto, ProcessType, WatchPcs
    <3> QED
      BY <1>1, <1>2, <1>4, <2>3, <3>1, <3>2, <3>3 DEF StartHelpers, ProcessType
  <2> QED
    BY <2>2, <2>3
<1>5. CASE StartX(g)
  BY <1>1, <1>2, <1>5 DEF StartX, WGoto, ProcessType, WatchPcs
<1>6. CASE TakeDisplay(g)
  <2>1. CASE x[g] = "up"
    BY <1>1, <1>2, <1>6, <2>1 DEF TakeDisplay, WGoto, ProcessType, WatchPcs
  <2>2. CASE x[g] # "up"
    BY <1>1, <1>3, <1>6, <2>2 DEF TakeDisplay, ProcessType
  <2> QED
    BY <2>1, <2>2
<1>7. CASE SpawnEmulator(g)
  BY <1>1, <1>2, <1>7, TypeFault DEF SpawnEmulator, WGoto, ProcessType, WatchPcs
<1>8. CASE WritePid(g)
  <2>1. CASE tmp[GetTmpDir(g)]["images"] = 0
    BY <1>1, <1>3, <1>8, <2>1 DEF WritePid, ProcessType
  <2>2. CASE tmp[GetTmpDir(g)]["images"] # 0
    <3>1. g \in 0 .. RetryAttempts
      BY DEF Attempts
    <3>2. tmp' \in [Dirs -> [Entries -> 0 .. RetryAttempts]]
      BY <1>1, <1>8, <2>2, <3>1, TypeGetTmpDir DEF WritePid, ProcessType, Entries
    <3> QED
      BY <1>1, <1>2, <1>8, <2>2, <3>2 DEF WritePid, WGoto, ProcessType, WatchPcs
  <2> QED
    BY <2>1, <2>2
<1>9. CASE XServerDied(g) \/ EmulatorDied(g)
  BY <1>1, <1>2, <1>9 DEF XServerDied, EmulatorDied, WGoto, ProcessType, WatchPcs
<1>10. CASE TelnetDied(g)
  <2>1. "telnet" \in Helpers
    BY DEF Helpers
  <2> QED
    BY <1>1, <1>2, <1>10, <2>1 DEF TelnetDied, ProcessType
<1>11. CASE WatchdogCleanup(g)
  <2>1. tmp' \in [Dirs -> [Entries -> 0 .. RetryAttempts]]
    BY <1>1, <1>11, TypeCleanUp DEF WatchdogCleanup, ProcessType
  <2>2. helper' \in [Attempts -> [Helpers -> {"none", "up", "dead", "gone", "lost"}]]
    BY <1>1, <1>11 DEF WatchdogCleanup, ProcessType
  <2> QED
    BY <1>1, <1>2, <1>11, <2>1, <2>2 DEF WatchdogCleanup, WGoto, ProcessType, EndPcs
<1>12. CASE \E p \in Pipes : PipeDied(g, p)
  <2> PICK p \in Pipes : PipeDied(g, p)
    BY <1>12
  <2>1. CASE Escape(g)
    BY <1>1, <1>3, <2>1, TypeFault DEF PipeDied, ProcessType
  <2>2. CASE ~Escape(g)
    <3>1. helper' \in [Attempts -> [Helpers -> {"none", "up", "dead", "gone", "lost"}]]
      BY <1>1, <2>2 DEF PipeDied, ProcessType
    <3>2. Pipes \subseteq Helpers
      BY DEF Helpers
    <3>3. killable' \in [Attempts -> SUBSET Helpers]
      BY <1>1, <2>2, <3>2 DEF PipeDied, Restarted, ProcessType
    <3>4. leaked' \subseteq Attempts /\ faults' \in 0 .. MaxFaults
      BY <1>1, <2>2, TypeFault DEF PipeDied, ProcessType
    <3>5. wpc' \in [Attempts -> {"none"} \cup WatchPcs \cup EndPcs]
      BY <1>1, <2>2 DEF PipeDied, WGoto, ProcessType, WatchPcs, EndPcs
    <3> QED
      BY <1>1, <1>2, <2>2, <3>1, <3>3, <3>4, <3>5 DEF PipeDied, ProcessType
  <2> QED
    BY <2>1, <2>2
<1>13. CASE \E f \in Forwarders : ForwarderDied(g, f)
  <2> PICK f \in Forwarders : ForwarderDied(g, f)
    BY <1>13
  <2>1. f \in Helpers
    BY DEF Helpers
  <2> QED
    <3>1. helper' \in [Attempts -> [Helpers -> {"none", "up", "dead", "gone", "lost"}]]
      <4>1. PICK v \in {"up", "lost"} : helper' = [helper EXCEPT ![g][f] = v]
        BY DEF ForwarderDied
      <4> QED
        BY <1>1, <2>1, <4>1 DEF ProcessType
    <3>2. killable' \in [Attempts -> SUBSET Helpers] /\ faults' \in 0 .. MaxFaults
      BY <1>1, TypeFault DEF ForwarderDied, ProcessType
    <3>3. wpc' \in [Attempts -> {"none"} \cup WatchPcs \cup EndPcs]
      BY <1>1 DEF ForwarderDied, WGoto, ProcessType, WatchPcs, EndPcs
    <3> QED
      BY <1>1, <1>2, <3>1, <3>2, <3>3 DEF ForwarderDied, ProcessType
<1> QED
  BY <1>4, <1>5, <1>6, <1>7, <1>8, <1>9, <1>10, <1>11, <1>12, <1>13 DEF Watchdog

\* TypeOK over what the processes do by themselves.
LEMMA TypeProcesses ==
  ASSUME TypeOK, Kill \/ \E g \in Attempts : Processes(g) PROVE TypeOK'
<1> SUFFICES LauncherType' /\ ProcessType'
  BY DEF TypeOK, LauncherType, ProcessType
<1> USE DEF processVars, helperVars, launcherVars
<1>1. LauncherType /\ ProcessType
  BY TypeSplit
<1>2. CASE Kill
  BY <1>1, <1>2 DEF Kill, LauncherType, ProcessType
<1>3. ASSUME NEW g \in Attempts, Processes(g) PROVE LauncherType' /\ ProcessType'
  <2>1. CASE EmulatorBoots(g) \/ EmulatorCrashes(g)
    BY <1>1, <2>1, TypeFault DEF EmulatorBoots, EmulatorCrashes, LauncherType, ProcessType
  <2>2. CASE XDies(g)
    BY <1>1, <2>2, TypeFault DEF XDies, LauncherType, ProcessType
  <2>3. ASSUME NEW h \in Helpers, HelperDies(g, h) PROVE LauncherType' /\ ProcessType'
    BY <1>1, <2>3, TypeFault DEF HelperDies, LauncherType, ProcessType
  <2> QED
    BY <1>3, <2>1, <2>2, <2>3 DEF Processes
<1> QED
  BY <1>2, <1>3

\* TypeOK, for every number of attempts and every command line.
THEOREM TypeCorrect == Spec => []TypeOK
<1>1. TypeOK /\ UNCHANGED vars => TypeOK'
  BY DEF TypeOK, vars, launcherVars, processVars, helperVars
<1>2. TypeOK /\ [Next]_vars => TypeOK'
  BY <1>1, TypeLauncher, TypeWatchdog, TypeProcesses DEF Next
<1> QED
  BY <1>2, TypeInit, PTL DEF Spec

-----------------------------------------------------------------------------
(* The strengthening of KilledBeforeRetry and SuccessMeansAlive            *)

Down   == {"crashed", "killed", "stopped"}
Before == {"none", "start", "display", "env", "spawn"}
Served == {"setup", "finish", "stop", "store", "telnet", "waiting", "dying", "wiping", "finally"}
          \cup InstallPcs

\* A watchdog has an emulator only after it has spawned one.
SpawnInv == \A g \in Attempts : emu[g] # "none" => wpc[g] \notin Before

\* Attempts to come have no watchdog.
FreshInv ==
  /\ \A g \in Attempts : g > attempt => wpc[g] = "none"
  /\ pc \in {"stage", "fork"} => wpc[attempt] = "none"

\* A watchdog that cleans up has no emulator that serves, or that can still come to.
ReadyInv ==
  \A g \in Attempts :
    /\ emu[g] = "ready" => wpc[g] \in {"pid", "sit", "lost"} /\ x[g] \in {"none", "up"}
    /\ emu[g] = "booting" => wpc[g] \in {"pid", "sit", "lost"} \/ x[g] = "gone"

\* The launcher gets past the poll only with an emulator that has served.
ServedInv == listening \/ pc \in Served => emu[attempt] \notin {"none", "booting"}

\* While the emulator of the attempt runs, its pid is in the file or will be, and
\* whoever removes the file has killed it.
PidInv ==
  ~flag.sharedTmp /\ attempt \notin late /\ Alive(attempt) =>
    /\ pc \notin {"wiping", "finally", "store"}
    /\ wpc[attempt] = "pid" => pc # "dying" /\ tmp[attempt]["images"] = attempt
    /\ wpc[attempt] \in {"sit", "lost"} => tmp[attempt]["pid"] = attempt

\* The emulators of earlier attempts are down for good.
PastInv ==
  ~flag.sharedTmp => \A g \in Attempts : g < attempt /\ g \notin late => emu[g] \in Down

\* A killed emulator is on its way to a failure.
KilledInv ==
  flag.action = "start" /\ ~flag.ignoreFailures /\ emu[attempt] = "killed"
    => pc \in {"telnet", "dying", "wiping", "failed"}

IInv == /\ TypeOK /\ SpawnInv /\ FreshInv /\ ReadyInv
        /\ ServedInv /\ PidInv /\ PastInv /\ KilledInv

\* Everything of IInv but TypeOK.
Rest == SpawnInv /\ FreshInv /\ ReadyInv /\ ServedInv /\ PidInv /\ PastInv /\ KilledInv

\* The only thing a launcher does to emulators is to bring running ones down.
BringsDown == \A g \in Attempts : emu'[g] # emu[g] => Alive(g) /\ emu'[g] \in {"killed", "stopped"}

\* At the start of main there is no watchdog and no emulator.
THEOREM InvInit == Init => Rest
  BY DEF Init, Rest, SpawnInv, FreshInv, ReadyInv, ServedInv, PidInv, PastInv, KilledInv,
         Before, Down, Served, InstallPcs, Alive, Attempts

\* main catches an exception after the emulator of the attempt is down, or gives up.
LEMMA InvMainCatches ==
  ASSUME IInv, NEW kind, MainCatches(kind), UNCHANGED <<wpc, x>>, BringsDown,
         \/ tmp' = tmp /\ kind = "plain"
         \/ /\ ~flag.sharedTmp /\ attempt \notin late => emu'[attempt] \in Down
  PROVE  Rest'
<1> USE DEF IInv
<1>1. attempt \in Nat /\ attempt \in 1 .. RetryAttempts /\ attempt \in Attempts
  BY DEF TypeOK, Attempts
<1>2. flag' = flag /\ late' = late
  BY DEF MainCatches
<1>3. SpawnInv'
  BY DEF SpawnInv, BringsDown, Alive, Before
<1>4. ReadyInv'
  BY DEF ReadyInv, BringsDown, Alive
<1>5. CASE kind = "transient" /\ attempt < RetryAttempts
  <2>1. /\ attempt' = attempt + 1 /\ pc' = "stage" /\ listening' = FALSE
        /\ attempt' \in Attempts
    BY <1>1, <1>5 DEF MainCatches, Attempts
  <2>2. \A g \in Attempts : g > attempt => wpc[g] = "none" /\ emu[g] = "none"
    BY DEF FreshInv, SpawnInv, Before
  <2>3. wpc'[attempt'] = "none" /\ emu'[attempt'] = "none"
    BY <1>1, <2>1, <2>2 DEF BringsDown, Alive
  <2>4. FreshInv'
    BY <1>1, <2>1, <2>2, <2>3 DEF FreshInv, Attempts
  <2>5. ServedInv'
    BY <2>1 DEF ServedInv, Served, InstallPcs
  <2>6. PidInv' /\ KilledInv'
    BY <2>3 DEF PidInv, KilledInv, Alive
  <2>7. PastInv'
    <3>1. \A g \in Attempts : g < attempt' => g < attempt \/ g = attempt
      BY <1>1, <2>1 DEF Attempts
    <3> QED
      BY <1>2, <1>5, <3>1 DEF PastInv, BringsDown, Alive, Down
  <2> QED
    BY <1>3, <1>4, <2>4, <2>5, <2>6, <2>7 DEF Rest
<1>6. CASE ~(kind = "transient" /\ attempt < RetryAttempts)
  <2>1. attempt' = attempt /\ pc' = "failed" /\ listening' = listening
    BY <1>6 DEF MainCatches
  <2>2. FreshInv' /\ KilledInv'
    BY <2>1 DEF FreshInv, KilledInv
  <2>3. ServedInv'
    BY <1>1, <2>1 DEF ServedInv, Served, InstallPcs, BringsDown, Alive
  <2>4. PidInv'
    BY <1>1, <1>2, <2>1 DEF PidInv, BringsDown, Alive, Down
  <2>5. PastInv'
    BY <1>2, <2>1 DEF PastInv, BringsDown, Alive, Down
  <2> QED
    BY <1>3, <1>4, <2>2, <2>3, <2>4, <2>5 DEF Rest
<1> QED
  BY <1>5, <1>6

\* An exception of an attempt whose emulator is down keeps the invariant.
LEMMA InvThrow ==
  ASSUME IInv, NEW kind, Throw(kind), UNCHANGED <<wpc, x>>, BringsDown, pc \in Served,
         ~flag.sharedTmp /\ attempt \notin late => emu'[attempt] \in Down
  PROVE  Rest'
<1> USE DEF IInv
<1>1. CASE MainCatches(kind)
  BY <1>1, InvMainCatches
<1>2. CASE /\ flag.action = "boot"
           /\ pc' = "finally"
           /\ UNCHANGED <<flag, attempt, handler, listening, polls, late>>
  <2>1. attempt \in Attempts
    BY DEF TypeOK
  <2>2. SpawnInv' /\ ReadyInv'
    BY DEF SpawnInv, ReadyInv, BringsDown, Alive, Before
  <2>3. FreshInv' /\ KilledInv'
    BY <1>2 DEF FreshInv, KilledInv
  <2>4. ServedInv'
    BY <1>2, <2>1 DEF ServedInv, BringsDown, Alive
  <2>5. PidInv'
    BY <1>2 DEF PidInv, Alive, Down
  <2>6. PastInv'
    BY <1>2 DEF PastInv, BringsDown, Alive, Down
  <2> QED
    BY <2>2, <2>3, <2>4, <2>5, <2>6 DEF Rest
<1> QED
  BY <1>1, <1>2 DEF Throw

\* A step of the launcher that neither throws nor touches files and watchdogs.
LEMMA InvMove ==
  ASSUME IInv, UNCHANGED <<flag, attempt, wpc, x, tmp>>, late \subseteq late', BringsDown,
         pc' # "stage", pc' = "fork" => pc = "stage",
         listening' \/ pc' \in Served => emu[attempt] \notin {"none", "booting"},
         /\ ~flag.sharedTmp /\ attempt \notin late'
         /\ pc' \in {"wiping", "finally", "store"}
         => emu'[attempt] \notin {"booting", "ready"},
         pc' = "dying" => wpc[attempt] # "pid" \/ attempt \in late',
         flag.action = "start" /\ ~flag.ignoreFailures /\ emu'[attempt] = "killed"
         => pc' \in {"telnet", "dying", "wiping", "failed"}
  PROVE  Rest'
<1> USE DEF IInv
<1>1. attempt \in Attempts
  BY DEF TypeOK
<1>2. SpawnInv' /\ ReadyInv'
  BY DEF SpawnInv, ReadyInv, BringsDown, Alive, Before
<1>3. FreshInv' /\ KilledInv'
  BY DEF FreshInv, KilledInv
<1>4. ServedInv'
  BY <1>1 DEF ServedInv, BringsDown, Alive
<1>5. PidInv'
  BY <1>1 DEF PidInv, BringsDown, Alive
<1>6. PastInv'
  BY DEF PastInv, BringsDown, Alive, Down
<1> QED
  BY <1>2, <1>3, <1>4, <1>5, <1>6 DEF Rest

\* Only a start has commands to send after the apks: a boot stops the device instead.
FinishInv == pc = "finish" => flag.action = "start"

\* The launcher gets to the commands after the apks in a start action only.
THEOREM FinishCorrect == Spec => []FinishInv
<1> USE DEF processVars, helperVars, launcherVars
<1>1. Init => FinishInv
  BY DEF Init, FinishInv
<1>2. TypeOK /\ FinishInv /\ UNCHANGED vars => FinishInv'
  BY DEF FinishInv, vars
<1>3. ASSUME TypeOK, FinishInv, Launcher PROVE FinishInv'
  <2>1. TypeOK => flag.action \in {"start", "boot"}
    BY DEF TypeOK, Flags
  <2>2. flag' = flag
    BY <1>3
    DEF Launcher, Stage, ForkWatchdog, EnsureEmuRunning, PollStep, PollTimeout, DeviceCommands, NoCommands,
        ExecFails, ExecHangs, HungCommandFails, CommandFails, Install, NothingToInstall, KillEmulator,
        KillEmulatorPolitely, Store, StopAllProcesses, Wipe, Finally, Goto, Throw, MainCatches, TransientDeath
  <2>3. pc' = "finish" => flag.action # "boot"
    BY <1>3
    DEF Launcher, Stage, ForkWatchdog, EnsureEmuRunning, PollStep, PollTimeout, DeviceCommands, NoCommands,
        ExecFails, ExecHangs, HungCommandFails, CommandFails, Install, NothingToInstall, KillEmulator,
        KillEmulatorPolitely, Store, StopAllProcesses, Wipe, Finally, Goto, Throw, MainCatches, TransientDeath,
        AfterInstall
  <2> QED
    BY <1>3, <2>1, <2>2, <2>3 DEF FinishInv
<1>4. ASSUME FinishInv, NEW g \in Attempts, Watchdog(g) PROVE FinishInv'
  BY <1>4 DEF Watchdog, StartHelpers, StartX, TakeDisplay, SpawnEmulator, WritePid, XServerDied, EmulatorDied,
              TelnetDied, WatchdogCleanup, PipeDied, ForwarderDied, FinishInv
<1>5. ASSUME FinishInv, Kill \/ \E g \in Attempts : Processes(g) PROVE FinishInv'
  BY <1>5 DEF Kill, Processes, EmulatorBoots, EmulatorCrashes, XDies, HelperDies, FinishInv
<1>6. TypeOK /\ FinishInv /\ [Next]_vars => FinishInv'
  BY <1>2, <1>3, <1>4, <1>5 DEF Next
<1> QED
  BY <1>1, <1>6, TypeCorrect, PTL DEF Spec

\* The invariant over every step of the launcher.
LEMMA InvLauncher == ASSUME IInv, FinishInv, Launcher PROVE Rest'
<1> USE DEF IInv, processVars, helperVars
<1>1. attempt \in Attempts /\ attempt \in Nat
  BY DEF TypeOK, Attempts
<1>2. emu' = emu => BringsDown
  BY DEF BringsDown
<1>3. \A g \in Attempts : emu[g] \in Down \cup {"none", "booting", "ready"}
  BY DEF TypeOK, Down
<1>4. CASE Stage
  <2>1. /\ UNCHANGED <<flag, attempt, wpc, x, emu, late, listening>>
        /\ pc' = "fork" /\ pc = "stage" /\ emu[attempt] = "none"
    BY <1>1, <1>4 DEF Stage, Goto, FreshInv, SpawnInv, Before
  <2> QED
    BY <1>1, <2>1 DEF Rest, SpawnInv, FreshInv, ReadyInv, ServedInv, PidInv, PastInv,
                      KilledInv, Served, InstallPcs, Alive
<1>5. CASE ForkWatchdog
  <2>1. CASE Throw("plain") /\ UNCHANGED wpc
    <3>1. MainCatches("plain")
      BY <1>5, <2>1 DEF ForkWatchdog, Throw, PollPcs
    <3>2. UNCHANGED <<wpc, x, emu, tmp>>
      BY <1>5, <2>1 DEF ForkWatchdog
    <3> QED
      BY <1>2, <3>1, <3>2, InvMainCatches
  <2>2. CASE ~(Throw("plain") /\ UNCHANGED wpc)
    <3>1. /\ UNCHANGED <<flag, attempt, x, emu, late, listening, tmp>>
          /\ pc' = "poll" /\ wpc' = [wpc EXCEPT ![attempt] = "start"]
          /\ emu[attempt] = "none"
      BY <1>1, <1>5, <2>2 DEF ForkWatchdog, Goto, WGoto, FreshInv, SpawnInv, Before
    <3>2. wpc \in [Attempts -> {"none"} \cup WatchPcs \cup EndPcs]
      BY DEF TypeOK
    <3>3. SpawnInv' /\ ReadyInv'
      BY <1>1, <3>1, <3>2 DEF SpawnInv, ReadyInv
    <3>4. FreshInv'
      BY <1>1, <3>1, <3>2 DEF FreshInv, Attempts
    <3>5. ServedInv' /\ PidInv' /\ PastInv' /\ KilledInv'
      BY <1>1, <3>1 DEF ServedInv, PidInv, PastInv, KilledInv, Served, InstallPcs, Alive
    <3> QED
      BY <3>3, <3>4, <3>5 DEF Rest
  <2> QED
    BY <2>1, <2>2
<1>6. CASE EnsureEmuRunning
  <2>1. CASE Throw("plain") /\ UNCHANGED wpc
    <3>1. MainCatches("plain")
      BY <1>6, <2>1 DEF EnsureEmuRunning, Throw, PollPcs
    <3>2. UNCHANGED <<wpc, x, emu, tmp>>
      BY <1>6, <2>1 DEF EnsureEmuRunning
    <3> QED
      BY <1>2, <3>1, <3>2, InvMainCatches
  <2>2. CASE ~(Throw("plain") /\ UNCHANGED wpc)
    <3>1. /\ UNCHANGED <<flag, attempt, x, emu, late, listening, tmp>>
          /\ pc' = "step" /\ pc = "poll"
          /\ wpc' = wpc \/ (wpc[attempt] = "exit0" /\ wpc' = [wpc EXCEPT ![attempt] = "waited"])
      BY <1>6, <2>2 DEF EnsureEmuRunning, Goto
    <3>2. wpc \in [Attempts -> {"none"} \cup WatchPcs \cup EndPcs]
      BY DEF TypeOK
    <3>3. SpawnInv' /\ ReadyInv' /\ FreshInv'
      BY <1>1, <3>1, <3>2 DEF SpawnInv, ReadyInv, FreshInv, Before
    <3>4. ServedInv' /\ PidInv' /\ PastInv' /\ KilledInv'
      BY <1>1, <3>1, <3>2
      DEF ServedInv, PidInv, PastInv, KilledInv, Served, InstallPcs, Alive
    <3> QED
      BY <3>3, <3>4 DEF Rest
  <2> QED
    BY <2>1, <2>2
<1>7. CASE PollStep
  <2>1. /\ UNCHANGED <<flag, attempt, wpc, x, emu, late, tmp>>
        /\ pc = "step" /\ pc' \in {"poll", "setup"}
        /\ listening' = (listening \/ emu[attempt] = "ready")
        /\ pc' = "setup" => emu[attempt] = "ready"
    BY <1>7 DEF PollStep
  <2> QED
    BY <1>2, <2>1, InvMove DEF ServedInv, KilledInv, Served, InstallPcs
<1>8. CASE PollTimeout
  BY <1>2, <1>8, InvMainCatches DEF PollTimeout, Throw, PollPcs
<1>9. CASE DeviceCommands \/ NoCommands
  <2>1. /\ UNCHANGED <<flag, attempt, wpc, x, emu, late, tmp, listening>>
        /\ pc \in {"setup", "finish"} /\ pc' \in {"apks", "gms"}
    BY <1>9 DEF DeviceCommands, NoCommands, Goto
  <2> QED
    BY <1>2, <2>1, InvMove DEF ServedInv, KilledInv, Served, InstallPcs
<1>10. CASE ExecFails
  <2>1. /\ UNCHANGED <<flag, attempt, wpc, x, emu, tmp, listening>>
        /\ pc \in Served \/ listening
        /\ pc' = "dying"
        /\ late \subseteq late' /\ (wpc[attempt] = "pid" => attempt \in late')
    BY <1>1, <1>10 DEF ExecFails, TransientDeath, Served
  <2> QED
    BY <1>2, <2>1, InvMove DEF ServedInv, Served
<1>11. CASE CommandFails
  <2>1. CASE pc \in {"setup", "finish", "store"}
    <3>1. Throw("plain") /\ UNCHANGED <<tmp, wpc, x, emu>>
      BY <1>11, <2>1 DEF CommandFails, InstallPcs
    <3>2. CASE pc = "setup"
      BY <1>2, <3>1, <3>2, InvMainCatches DEF Throw
    <3>3. CASE pc = "store"
      BY <1>1, <1>2, <1>3, <3>1, <3>3, InvThrow DEF Served, PidInv, ServedInv, Alive
    <3>4. CASE pc = "finish"
      <4>1. CASE MainCatches("plain")
        BY <1>2, <3>1, <4>1, InvMainCatches
      <4>2. CASE ~MainCatches("plain")
        <5>1. flag.action = "boot"
          BY <3>1, <4>2 DEF Throw
        <5> QED
          BY <3>4, <5>1 DEF FinishInv
      <4> QED
        BY <4>1, <4>2
    <3> QED
      BY <2>1, <3>2, <3>3, <3>4
  <2>2. CASE pc \in InstallPcs
    <3>1. /\ UNCHANGED <<flag, attempt, wpc, x, emu, late, tmp, listening>>
          /\ pc' \in {"telnet", "finish", "ok"}
      BY <1>11, <2>2 DEF CommandFails, Goto, AfterInstall, InstallPcs
    <3>2. pc \notin {"telnet", "dying", "wiping", "failed"}
      BY <2>2 DEF InstallPcs
    <3> QED
      BY <1>2, <2>2, <3>1, <3>2, InvMove DEF ServedInv, KilledInv, Served
  <2> QED
    BY <1>11, <2>1, <2>2 DEF CommandFails
<1>12. CASE Install \/ NothingToInstall
  <2>1. /\ UNCHANGED <<flag, attempt, wpc, x, emu, late, tmp, listening>>
        /\ pc \in InstallPcs /\ pc' \in {"stop", "finish", "ok"}
    BY <1>12 DEF Install, NothingToInstall, Goto, AfterInstall
  <2>2. pc \notin {"telnet", "dying", "wiping", "failed"}
    BY <2>1 DEF InstallPcs
  <2> QED
    BY <1>2, <2>1, <2>2, InvMove DEF ServedInv, KilledInv, Served
<1>13. CASE KillEmulator
  <2>1. CASE TransientDeath("main") /\ emu' = emu
    <3>1. /\ UNCHANGED <<flag, attempt, wpc, x, emu, tmp, listening>>
          /\ pc = "telnet" /\ pc' = "dying"
          /\ late \subseteq late' /\ (wpc[attempt] = "pid" => attempt \in late')
      BY <1>1, <1>13, <2>1 DEF KillEmulator, TransientDeath
    <3> QED
      BY <1>2, <3>1, InvMove DEF ServedInv, Served
  <2>2. CASE emu[attempt] = "ready" /\ emu' = [emu EXCEPT ![attempt] = "killed"] /\ Throw(err)
    <3>1. BringsDown
      BY <1>1, <2>2 DEF BringsDown, Alive, TypeOK
    <3>2. emu'[attempt] \in Down
      BY <1>1, <2>2 DEF Down, TypeOK
    <3> QED
      BY <1>13, <2>2, <3>1, <3>2, InvThrow DEF KillEmulator, Served
  <2> QED
    BY <1>13, <2>1, <2>2 DEF KillEmulator
<1>14. CASE KillEmulatorPolitely
  <2>1. BringsDown /\ emu'[attempt] = "stopped"
    BY <1>1, <1>14 DEF KillEmulatorPolitely, BringsDown, Alive, TypeOK
  <2>2. /\ UNCHANGED <<flag, attempt, wpc, x, late, tmp, listening>>
        /\ pc = "stop" /\ pc' \in {"store", "wiping"} /\ emu[attempt] = "ready"
    BY <1>14 DEF KillEmulatorPolitely, Goto
  <2> QED
    BY <2>1, <2>2, InvMove
<1>15. CASE Store
  <2>1. /\ UNCHANGED <<flag, attempt, wpc, x, emu, late, tmp, listening>>
        /\ pc = "store" /\ pc' = "finally"
    BY <1>15 DEF Store
  <2> QED
    BY <1>2, <2>1, InvMove DEF ServedInv, KilledInv, PidInv, Served, Alive
<1>16. CASE StopAllProcesses
  <2>1. /\ UNCHANGED <<flag, attempt, wpc, x, late, tmp, listening>>
        /\ pc = "dying" /\ pc' = "wiping"
    BY <1>16 DEF StopAllProcesses, Goto
  <2>2. BringsDown
    BY <1>16 DEF StopAllProcesses, BringsDown, Alive, TypeOK
  <2>3. ASSUME ~flag.sharedTmp, attempt \notin late PROVE emu'[attempt] \notin {"booting", "ready"}
    <3>1. CASE Alive(attempt)
      <4>1. emu[attempt] = "ready"
        BY <2>1, <3>1 DEF ServedInv, Served, Alive
      <4>2. tmp[attempt]["pid"] = attempt
        BY <1>1, <2>1, <2>3, <3>1, <4>1 DEF ReadyInv, PidInv
      <4>3. attempt # 0
        BY <1>1 DEF Attempts
      <4> QED
        BY <1>1, <1>16, <2>3, <3>1, <4>2, <4>3 DEF StopAllProcesses, GetTmpDir, TypeOK
    <3>2. CASE ~Alive(attempt)
      BY <1>1, <2>2, <3>2 DEF BringsDown, Alive
    <3> QED
      BY <3>1, <3>2
  <2> QED
    BY <2>1, <2>2, <2>3, InvMove DEF ServedInv, Served
<1>17. CASE Wipe
  <2>1. /\ UNCHANGED <<wpc, x, emu>> /\ pc = "wiping" /\ CleanUp(attempt)
    BY <1>17 DEF Wipe
  <2>2. ~flag.sharedTmp /\ attempt \notin late => emu'[attempt] \in Down
    BY <1>1, <1>3, <2>1 DEF PidInv, ServedInv, Served, Alive
  <2>3. CASE Throw("transient")
    BY <1>2, <2>1, <2>2, <2>3, InvThrow DEF Served
  <2>4. CASE ~Throw("transient")
    <3>1. /\ UNCHANGED <<flag, attempt, late, listening>>
          /\ pc' \in {"telnet", "finish", "ok"}
          /\ pc' = "telnet" \/ flag.ignoreFailures
      BY <1>17, <2>4 DEF Wipe, AfterInstall
    <3>2. SpawnInv' /\ ReadyInv' /\ FreshInv' /\ PastInv'
      BY <2>1, <3>1 DEF SpawnInv, ReadyInv, FreshInv, PastInv
    <3>3. ServedInv' /\ KilledInv' /\ PidInv'
      BY <1>1, <2>1, <2>2, <3>1 DEF ServedInv, KilledInv, PidInv, Served, Alive, Down
    <3> QED
      BY <3>2, <3>3 DEF Rest
  <2> QED
    BY <2>3, <2>4
<1>18. CASE Finally
  <2>1. /\ UNCHANGED <<wpc, x, emu>> /\ pc = "finally" /\ CleanUp(attempt)
    BY <1>18 DEF Finally
  <2>2. ~flag.sharedTmp /\ attempt \notin late => emu'[attempt] \in Down
    BY <1>1, <1>3, <2>1 DEF PidInv, ServedInv, Served, Alive
  <2>3. CASE MainCatches(err)
    BY <1>2, <2>1, <2>2, <2>3, InvMainCatches
  <2>4. CASE ~MainCatches(err)
    <3>1. UNCHANGED <<flag, attempt, late, listening>> /\ pc' = "ok"
      BY <1>18, <2>4 DEF Finally, Goto
    <3>2. SpawnInv' /\ ReadyInv' /\ FreshInv' /\ PastInv'
      BY <2>1, <3>1 DEF SpawnInv, ReadyInv, FreshInv, PastInv
    <3>3. ServedInv' /\ KilledInv' /\ PidInv'
      BY <1>1, <2>1, <2>2, <3>1
      DEF ServedInv, KilledInv, PidInv, Served, Alive, Down
    <3> QED
      BY <3>2, <3>3 DEF Rest
  <2> QED
    BY <2>3, <2>4
<1>19. CASE ExecHangs
  <2>1. /\ UNCHANGED <<flag, attempt, wpc, x, emu, late, tmp, listening>>
        /\ pc \in Served \/ listening
        /\ pc' = "waiting" /\ emu[attempt] = "ready"
    BY <1>19 DEF ExecHangs, Served
  <2> QED
    BY <1>2, <2>1, InvMove
<1>20. CASE HungCommandFails
  <2>1. /\ UNCHANGED <<flag, attempt, wpc, x, emu, tmp, listening>>
        /\ pc = "waiting" /\ pc' = "dying"
        /\ late \subseteq late' /\ (wpc[attempt] = "pid" => attempt \in late')
    BY <1>1, <1>20 DEF HungCommandFails, TransientDeath
  <2> QED
    BY <1>2, <2>1, InvMove DEF ServedInv, Served
<1> QED
  BY <1>4, <1>5, <1>6, <1>7, <1>8, <1>9, <1>10, <1>11, <1>12, <1>13, <1>14,
     <1>15, <1>16, <1>17, <1>18, <1>19, <1>20 DEF Launcher

\* A step of the watchdog of g, or of its processes, in terms of what it does to g.
LEMMA InvLocal ==
  ASSUME IInv, NEW g \in Attempts, UNCHANGED launcherVars, wpc[g] # "none",
         \A a \in Attempts \ {g} : emu'[a] = emu[a] /\ wpc'[a] = wpc[a] /\ x'[a] = x[a],
         ~flag.sharedTmp => \A a \in Attempts \ {g} : tmp'[a] = tmp[a],
         emu'[g] # "none" => wpc'[g] \notin Before,
         emu'[g] = "ready" => wpc'[g] \in {"pid", "sit", "lost"} /\ x'[g] \in {"none", "up"},
         emu'[g] = "booting" => wpc'[g] \in {"pid", "sit", "lost"} \/ x'[g] = "gone",
         emu[g] \notin {"none", "booting"} => emu'[g] \notin {"none", "booting"},
         emu[g] \in Down => emu'[g] = emu[g],
         emu'[g] = "killed" => emu[g] = "killed",
         ~flag.sharedTmp /\ g = attempt /\ attempt \notin late /\ emu'[g] \in {"booting", "ready"} =>
           /\ pc \notin {"wiping", "finally", "store"}
           /\ wpc'[g] = "pid" => pc # "dying" /\ tmp'[g]["images"] = g
           /\ wpc'[g] \in {"sit", "lost"} => tmp'[g]["pid"] = g
  PROVE  Rest'
<1> USE DEF IInv, launcherVars
<1>1. attempt \in Attempts
  BY DEF TypeOK
<1>2. SpawnInv' /\ ReadyInv'
  BY DEF SpawnInv, ReadyInv
<1>3. FreshInv'
  BY <1>1 DEF FreshInv
<1>4. ServedInv'
  BY <1>1 DEF ServedInv
<1>5. PidInv'
  BY <1>1 DEF PidInv, Alive
<1>6. PastInv'
  BY DEF PastInv
<1>7. KilledInv'
  BY <1>1 DEF KilledInv
<1> QED
  BY <1>2, <1>3, <1>4, <1>5, <1>6, <1>7 DEF Rest

\* Only the helpers, or nothing, changes.
LEMMA InvFrame ==
  ASSUME IInv, UNCHANGED <<launcherVars, tmp, wpc, emu, x>> PROVE Rest'
  BY DEF IInv, launcherVars, Rest, SpawnInv, FreshInv, ReadyInv, ServedInv, PidInv, PastInv,
         KilledInv, Alive

\* CleanUp of g leaves the files of the other attempts alone.
LEMMA CleanUpLocal ==
  ASSUME TypeOK, NEW g \in Attempts, CleanUp(g)
  PROVE  ~flag.sharedTmp => \A a \in Attempts \ {g} : tmp'[a] = tmp[a]
  BY DEF CleanUp, GetTmpDir, TypeOK, Attempts, Dirs

\* The invariant over every step of a watchdog.
LEMMA InvWatchdog == ASSUME IInv, NEW g \in Attempts, Watchdog(g) PROVE Rest'
<1> USE DEF IInv, processVars, helperVars
<1>1. /\ attempt \in Attempts
      /\ wpc \in [Attempts -> {"none"} \cup WatchPcs \cup EndPcs]
      /\ emu \in [Attempts -> {"none", "booting", "ready", "crashed", "killed", "stopped"}]
      /\ x \in [Attempts -> {"none", "up", "zombie", "gone"}]
  BY DEF TypeOK
<1>2. /\ emu[g] # "none" => wpc[g] \notin Before
      /\ emu[g] = "ready" => wpc[g] \in {"pid", "sit", "lost"} /\ x[g] \in {"none", "up"}
      /\ emu[g] = "booting" => wpc[g] \in {"pid", "sit", "lost"} \/ x[g] = "gone"
  BY DEF SpawnInv, ReadyInv
<1>3. ~flag.sharedTmp /\ g = attempt /\ attempt \notin late /\ emu[g] \in {"booting", "ready"} =>
        /\ pc \notin {"wiping", "finally", "store"}
        /\ wpc[g] = "pid" => pc # "dying" /\ tmp[g]["images"] = g
        /\ wpc[g] \in {"sit", "lost"} => tmp[g]["pid"] = g
  BY DEF PidInv, Alive
\* An exception before the emulator, or with its pid written.
<1>4. ASSUME Escape(g), UNCHANGED launcherVars, wpc[g] \in {"start", "env", "sit"} PROVE Rest'
  <2>1. UNCHANGED <<emu, x, tmp>> /\ wpc' = [wpc EXCEPT ![g] = "lost"]
    BY <1>4 DEF Escape, WGoto
  <2> QED
    BY <1>1, <1>2, <1>3, <1>4, <2>1, InvLocal DEF Before
\* An exception while it sits, after it has changed its helpers.
<1>4a. ASSUME UNCHANGED <<launcherVars, tmp, emu, x>>, wpc[g] = "sit", wpc' = [wpc EXCEPT ![g] = "lost"]
       PROVE  Rest'
  BY <1>1, <1>2, <1>3, <1>4a, InvLocal DEF Before
<1>5. CASE StartHelpers(g)
  <2>1. CASE Escape(g)
    BY <1>4, <1>5, <2>1 DEF StartHelpers
  <2>2. CASE ~Escape(g)
    <3>1. /\ UNCHANGED <<emu, x, tmp, launcherVars>> /\ wpc[g] = "start"
          /\ wpc' = [wpc EXCEPT ![g] = IF flag.xvfb THEN "display" ELSE "spawn"]
      BY <1>5, <2>2 DEF StartHelpers, WGoto
    <3> QED
      BY <1>1, <1>2, <3>1, InvLocal DEF Before
  <2> QED
    BY <2>1, <2>2
<1>6. CASE StartX(g)
  <2>1. /\ UNCHANGED <<emu, tmp, launcherVars>> /\ wpc[g] = "display"
        /\ \/ wpc' = [wpc EXCEPT ![g] = "env"] /\ x' = [x EXCEPT ![g] = "up"]
           \/ wpc' = [wpc EXCEPT ![g] = "spawn"] /\ x' = x
    BY <1>6 DEF StartX, WGoto
  <2> QED
    BY <1>1, <1>2, <2>1, InvLocal DEF Before
<1>7. CASE TakeDisplay(g)
  <2>1. CASE x[g] # "up"
    BY <1>4, <1>7, <2>1 DEF TakeDisplay
  <2>2. CASE x[g] = "up"
    <3>1. /\ UNCHANGED <<emu, x, tmp, launcherVars>> /\ wpc[g] = "env"
          /\ wpc' = [wpc EXCEPT ![g] = "spawn"]
      BY <1>7, <2>2 DEF TakeDisplay, WGoto
    <3> QED
      BY <1>1, <1>2, <3>1, InvLocal DEF Before
  <2> QED
    BY <2>1, <2>2
<1>8. CASE SpawnEmulator(g)
  <2>1. /\ UNCHANGED <<x, tmp, launcherVars>> /\ wpc[g] = "spawn" /\ emu[g] = "none"
    BY <1>2, <1>8 DEF SpawnEmulator, Before
  <2>2. CASE wpc' = [wpc EXCEPT ![g] = "cleanup"] /\ emu' = emu
    BY <1>1, <1>2, <2>1, <2>2, InvLocal DEF Before, Down
  <2>3. CASE /\ wpc' = [wpc EXCEPT ![g] = "pid"] /\ emu' = [emu EXCEPT ![g] = "booting"]
             /\ tmp[GetTmpDir(g)]["images"] = g
    <3>1. g = attempt => pc \notin Served
      BY <2>1 DEF ServedInv
    <3> QED
      BY <1>1, <1>2, <2>1, <2>3, <3>1, InvLocal DEF Before, Down, Served, GetTmpDir
  <2> QED
    BY <1>8, <2>2, <2>3 DEF SpawnEmulator, WGoto
<1>9. CASE WritePid(g)
  <2>1. UNCHANGED <<emu, x, launcherVars>> /\ wpc[g] = "pid"
    BY <1>9 DEF WritePid, Escape
  <2>2. g \in Dirs /\ g # 0 /\ tmp \in [Dirs -> [Entries -> 0 .. RetryAttempts]]
    BY DEF Attempts, Dirs, TypeOK
  <2>3. CASE tmp[GetTmpDir(g)]["images"] = 0
    <3>1. tmp' = tmp /\ wpc' = [wpc EXCEPT ![g] = "lost"]
      BY <1>9, <2>3 DEF WritePid, Escape, WGoto
    <3> QED
      BY <1>1, <1>2, <1>3, <2>1, <2>2, <2>3, <3>1, InvLocal DEF Before, GetTmpDir
  <2>4. CASE tmp[GetTmpDir(g)]["images"] # 0
    <3>1. /\ tmp' = [tmp EXCEPT ![GetTmpDir(g)]["pid"] = g]
          /\ wpc' = [wpc EXCEPT ![g] = "sit"]
      BY <1>9, <2>4 DEF WritePid, WGoto
    <3>2. ~flag.sharedTmp => /\ tmp'[g]["pid"] = g
                             /\ \A a \in Attempts \ {g} : tmp'[a] = tmp[a]
      BY <2>2, <3>1 DEF GetTmpDir, Entries, Attempts, Dirs
    <3> QED
      BY <1>1, <1>2, <1>3, <2>1, <3>1, <3>2, InvLocal DEF Before
  <2> QED
    BY <2>3, <2>4
<1>10. CASE XServerDied(g)
  <2>1. /\ UNCHANGED <<emu, tmp, launcherVars>> /\ wpc[g] = "sit" /\ x[g] = "zombie"
        /\ wpc' = [wpc EXCEPT ![g] = "cleanup"] /\ x' = [x EXCEPT ![g] = "gone"]
    BY <1>10 DEF XServerDied, WGoto
  <2> QED
    BY <1>1, <1>2, <1>3, <2>1, InvLocal DEF Before
<1>11. CASE EmulatorDied(g)
  <2>1. /\ UNCHANGED <<emu, x, tmp, launcherVars>> /\ wpc[g] = "sit" /\ ~Alive(g)
        /\ wpc' = [wpc EXCEPT ![g] = "cleanup"]
    BY <1>11 DEF EmulatorDied, WGoto
  <2> QED
    BY <1>1, <1>2, <2>1, InvLocal DEF Before, Alive
<1>12. CASE \E p \in Pipes : PipeDied(g, p)
  <2> PICK p \in Pipes : PipeDied(g, p)
    BY <1>12
  <2>1. /\ UNCHANGED <<launcherVars, tmp, emu, x>> /\ wpc[g] = "sit"
        /\ wpc' = wpc \/ wpc' = [wpc EXCEPT ![g] = "lost"]
    BY <1>1 DEF PipeDied, Escape, WGoto
  <2> QED
    BY <1>4a, <2>1, InvFrame
<1>13. CASE TelnetDied(g) \/ \E f \in Forwarders : ForwarderDied(g, f)
  <2>1. /\ UNCHANGED <<launcherVars, tmp, emu, x>> /\ wpc[g] = "sit"
        /\ wpc' = wpc \/ wpc' = [wpc EXCEPT ![g] = "lost"]
    BY <1>1, <1>13 DEF TelnetDied, ForwarderDied, WGoto
  <2> QED
    BY <1>4a, <2>1, InvFrame
<1>14. CASE WatchdogCleanup(g)
  <2>1. /\ UNCHANGED <<emu, launcherVars>> /\ wpc[g] = "cleanup" /\ x' = [x EXCEPT ![g] = "gone"]
        /\ wpc' = [wpc EXCEPT ![g] = "exit0"] \/ wpc' = [wpc EXCEPT ![g] = "exitN"]
        /\ CleanUp(g) \/ tmp' = tmp
    BY <1>14 DEF WatchdogCleanup, WGoto
  <2>2. ~flag.sharedTmp => \A a \in Attempts \ {g} : tmp'[a] = tmp[a]
    BY <2>1, CleanUpLocal
  <2> QED
    BY <1>1, <1>2, <1>3, <2>1, <2>2, InvLocal DEF Before
<1> QED
  BY <1>5, <1>6, <1>7, <1>8, <1>9, <1>10, <1>11, <1>12, <1>13, <1>14 DEF Watchdog

\* The invariant over what the processes do by themselves.
LEMMA InvProcesses ==
  ASSUME IInv, Kill \/ \E g \in Attempts : Processes(g) PROVE Rest'
<1> USE DEF IInv, processVars, helperVars
<1>1. /\ attempt \in Attempts
      /\ emu \in [Attempts -> {"none", "booting", "ready", "crashed", "killed", "stopped"}]
      /\ x \in [Attempts -> {"none", "up", "zombie", "gone"}]
  BY DEF TypeOK
<1>2. CASE Kill
  <2>1. /\ UNCHANGED <<launcherVars, tmp, wpc, x>> /\ pc = "ok" /\ emu[attempt] = "ready"
        /\ emu' = [emu EXCEPT ![attempt] = "stopped"]
    BY <1>2 DEF Kill
  <2>2. BringsDown
    BY <1>1, <2>1 DEF BringsDown, Alive
  <2>3. UNCHANGED <<flag, attempt, pc, late, listening>>
    BY <2>1 DEF launcherVars
  <2> QED
    BY <1>1, <2>1, <2>2, <2>3, InvMove DEF Served, InstallPcs
<1>3. ASSUME NEW g \in Attempts, Processes(g) PROVE Rest'
  <2>1. /\ emu[g] # "none" => wpc[g] \notin Before
        /\ emu[g] = "ready" => wpc[g] \in {"pid", "sit", "lost"} /\ x[g] \in {"none", "up"}
        /\ emu[g] = "booting" => wpc[g] \in {"pid", "sit", "lost"} \/ x[g] = "gone"
    BY DEF SpawnInv, ReadyInv
  <2>2. ~flag.sharedTmp /\ g = attempt /\ attempt \notin late /\ emu[g] \in {"booting", "ready"} =>
          /\ pc \notin {"wiping", "finally", "store"}
          /\ wpc[g] = "pid" => pc # "dying" /\ tmp[g]["images"] = g
          /\ wpc[g] \in {"sit", "lost"} => tmp[g]["pid"] = g
    BY DEF PidInv, Alive
  <2>3. CASE EmulatorBoots(g)
    <3>1. /\ UNCHANGED <<launcherVars, tmp, wpc, x>> /\ emu[g] = "booting"
          /\ emu' = [emu EXCEPT ![g] = "ready"] /\ x[g] \in {"none", "up"}
      BY <2>3 DEF EmulatorBoots
    <3>2. wpc[g] # "none"
      BY <2>1, <3>1
    <3> QED
      BY <1>1, <2>1, <2>2, <3>1, <3>2, InvLocal DEF Before, Down
  <2>4. CASE EmulatorCrashes(g)
    <3>1. /\ UNCHANGED <<launcherVars, tmp, wpc, x>> /\ emu[g] \in {"booting", "ready"}
          /\ emu' = [emu EXCEPT ![g] = "crashed"]
      BY <2>4 DEF EmulatorCrashes, Alive
    <3>2. wpc[g] # "none"
      BY <2>1, <3>1 DEF Before
    <3> QED
      BY <1>1, <2>1, <2>2, <3>1, <3>2, InvLocal DEF Before, Down
  <2>5. CASE XDies(g)
    <3>1. /\ UNCHANGED <<launcherVars, tmp, wpc>> /\ x[g] = "up"
          /\ x' = [x EXCEPT ![g] = "zombie"]
          /\ emu' = IF Alive(g) THEN [emu EXCEPT ![g] = "crashed"] ELSE emu
      BY <2>5 DEF XDies
    <3>2. CASE wpc[g] # "none"
      <4>1. emu'[g] \notin {"booting", "ready"}
        BY <1>1, <3>1 DEF Alive
      <4> QED
        BY <1>1, <2>1, <2>2, <3>1, <3>2, <4>1, InvLocal DEF Before, Down, Alive
    <3>3. CASE wpc[g] = "none"
      <4>1. emu[g] = "none" /\ emu' = emu
        BY <2>1, <3>1, <3>3 DEF Before, Alive
      <4> QED
        BY <1>1, <3>1, <4>1
        DEF launcherVars, Rest, SpawnInv, FreshInv, ReadyInv, ServedInv, PidInv, PastInv,
            KilledInv, Alive
    <3> QED
      BY <3>2, <3>3
  <2>6. CASE \E h \in Helpers : HelperDies(g, h)
    BY <2>6, InvFrame DEF HelperDies
  <2> QED
    BY <1>3, <2>3, <2>4, <2>5, <2>6 DEF Processes
<1> QED
  BY <1>2, <1>3

\* The inductive invariant, for every number of attempts and every command line.
THEOREM InvCorrect == Spec => []IInv
<1>1. Init => IInv
  BY TypeInit, InvInit DEF IInv, Rest
<1>2. IInv /\ UNCHANGED vars => Rest'
  BY InvFrame DEF vars, processVars, helperVars
<1>3. IInv /\ FinishInv /\ [Next]_vars => Rest'
  BY <1>2, InvLauncher, InvWatchdog, InvProcesses DEF Next
<1>4. IInv /\ TypeOK' /\ Rest' => IInv'
  BY DEF IInv, Rest
<1>5. IInv /\ FinishInv /\ [Next]_vars /\ TypeOK' => IInv'
  BY <1>3, <1>4
<1> QED
  BY <1>1, <1>5, TypeCorrect, FinishCorrect, PTL DEF Spec

\* No emulator of an attempt that main has given up still runs, unless its watchdog had
\* not yet written the pid: _TransientDeath, for every number of retries.
THEOREM KilledBeforeRetryCorrect == Spec => []KilledBeforeRetry
<1>1. IInv => KilledBeforeRetry
  BY DEF IInv, PastInv, KilledBeforeRetry, Alive, Down
<1> QED
  BY <1>1, InvCorrect, PTL

\* A start that ends well has not killed its emulator.
THEOREM SuccessMeansAliveCorrect == Spec => []SuccessMeansAlive
<1>1. IInv => SuccessMeansAlive
  BY DEF IInv, KilledInv, SuccessMeansAlive
<1> QED
  BY <1>1, InvCorrect, PTL

-----------------------------------------------------------------------------
(* The files of the attempt, and the helpers of a watchdog                 *)

Exited      == {"exit0", "exitN", "waited"}
BringsUpPcs == {"fork", "setup"} \cup PollPcs

\* An exception leaves the states in which main brings the device up.
LEMMA ThrowLeaves == ASSUME NEW kind, Throw(kind) PROVE pc' \notin BringsUpPcs
  BY DEF Throw, MainCatches, BringsUpPcs, PollPcs

\* What keeps the files: they, the attempt and its watchdog stay, or main brings nothing up.
LEMMA FilesFrame ==
  ASSUME TypeOK, FilesStay, UNCHANGED <<flag, tmp>>,
         \/ pc' \notin BringsUpPcs
         \/ UNCHANGED attempt /\ pc \in BringsUpPcs
              /\ (wpc[attempt] \in Exited => wpc'[attempt] \in Exited)
  PROVE  FilesStay'
  BY DEF FilesStay, GetTmpDir, BringsUpPcs, Exited

\* The launcher keeps the files of the attempt it brings up.
LEMMA FilesLauncher == ASSUME TypeOK, FilesStay, Launcher PROVE FilesStay'
<1> USE DEF processVars, helperVars
<1>1. attempt \in Attempts /\ tmp \in [Dirs -> [Entries -> 0 .. RetryAttempts]]
      /\ wpc \in [Attempts -> {"none"} \cup WatchPcs \cup EndPcs]
  BY DEF TypeOK
<1>2. CASE Stage
  <2>1. attempt \in Dirs /\ GetTmpDir(attempt) \in Dirs
    BY <1>1, TypeGetTmpDir DEF Attempts, Dirs
  <2>2. tmp'[GetTmpDir(attempt)]["images"] = attempt
    BY <1>1, <1>2, <2>1 DEF Stage, Entries
  <2>3. UNCHANGED <<flag, attempt>>
    BY <1>2 DEF Stage, Goto
  <2> QED
    BY <2>2, <2>3 DEF FilesStay, GetTmpDir
<1>3. CASE ForkWatchdog
  <2>1. UNCHANGED tmp
    BY <1>3 DEF ForkWatchdog
  <2>2. CASE tmp[GetTmpDir(attempt)]["images"] = attempt
    <3>1. UNCHANGED <<flag, attempt>>
      BY <1>3, <2>2 DEF ForkWatchdog, Goto
    <3> QED
      BY <2>1, <2>2, <3>1 DEF FilesStay, GetTmpDir
  <2>3. CASE Throw("plain")
    <3>1. UNCHANGED flag
      BY <2>3 DEF Throw, MainCatches
    <3> QED
      BY <2>1, <2>3, <3>1, ThrowLeaves, FilesFrame
  <2> QED
    BY <1>3, <2>2, <2>3 DEF ForkWatchdog
<1>4. CASE EnsureEmuRunning
  <2>1. UNCHANGED tmp /\ pc \in BringsUpPcs
    BY <1>4 DEF EnsureEmuRunning, BringsUpPcs, PollPcs
  <2>2. CASE Throw("plain")
    <3>1. UNCHANGED flag
      BY <2>2 DEF Throw, MainCatches
    <3> QED
      BY <2>1, <2>2, <3>1, ThrowLeaves, FilesFrame
  <2>3. CASE Goto("step") /\ (wpc[attempt] \in Exited => wpc'[attempt] \in Exited)
    <3>1. UNCHANGED <<flag, attempt>>
      BY <2>3 DEF Goto
    <3> QED
      BY <2>1, <2>3, <3>1, FilesFrame
  <2> QED
    BY <1>1, <1>4, <2>2, <2>3 DEF EnsureEmuRunning, Exited
<1>5. CASE PollStep
  BY <1>5, FilesFrame DEF PollStep, BringsUpPcs, PollPcs
<1>6. CASE PollTimeout \/ KillEmulator \/ CommandFails
  <2>1. UNCHANGED <<flag, tmp>>
    BY <1>6 DEF PollTimeout, KillEmulator, CommandFails, Throw, MainCatches, TransientDeath, Goto
  <2>2. pc' \notin BringsUpPcs
    <3>1. CASE \E kind : Throw(kind)
      BY <3>1, ThrowLeaves
    <3>2. CASE ~\E kind : Throw(kind)
      BY <1>6, <3>2
      DEF PollTimeout, KillEmulator, CommandFails, TransientDeath, Goto, AfterInstall, BringsUpPcs, PollPcs
    <3> QED
      BY <3>1, <3>2
  <2> QED
    BY <2>1, <2>2, FilesFrame
<1>7. CASE DeviceCommands \/ NoCommands \/ Install \/ NothingToInstall \/ Store
  <2>1. UNCHANGED <<flag, tmp>> /\ pc' \notin BringsUpPcs
    BY <1>7 DEF DeviceCommands, NoCommands, Install, NothingToInstall, Store, Goto, AfterInstall,
                BringsUpPcs, PollPcs
  <2> QED
    BY <2>1, FilesFrame
<1>8. CASE ExecFails \/ ExecHangs \/ HungCommandFails \/ KillEmulatorPolitely \/ StopAllProcesses
  <2>1. UNCHANGED <<flag, tmp>> /\ pc' \notin BringsUpPcs
    BY <1>8 DEF ExecFails, ExecHangs, HungCommandFails, KillEmulatorPolitely, StopAllProcesses, TransientDeath, Goto, BringsUpPcs, PollPcs
  <2> QED
    BY <2>1, FilesFrame
<1>9. CASE Wipe \/ Finally
  <2>1. pc' \notin BringsUpPcs
    <3>1. CASE \E kind : Throw(kind)
      BY <3>1, ThrowLeaves
    <3>2. CASE ~\E kind : Throw(kind)
      BY <1>9, <3>2 DEF Wipe, Finally, MainCatches, Goto, AfterInstall, BringsUpPcs, PollPcs
    <3> QED
      BY <3>1, <3>2
  <2> QED
    BY <2>1 DEF FilesStay, BringsUpPcs
<1> QED
  BY <1>2, <1>3, <1>4, <1>5, <1>6, <1>7, <1>8, <1>9 DEF Launcher

\* A watchdog takes away the files of its own attempt only, and is gone then.
LEMMA FilesWatchdog ==
  ASSUME TypeOK, FilesStay, NEW g \in Attempts, Watchdog(g) PROVE FilesStay'
<1> USE DEF processVars, helperVars, launcherVars
<1>1. /\ attempt \in Attempts /\ tmp \in [Dirs -> [Entries -> 0 .. RetryAttempts]]
      /\ wpc \in [Attempts -> {"none"} \cup WatchPcs \cup EndPcs]
      /\ g \in Dirs /\ g # 0 /\ attempt \in Dirs
  BY DEF TypeOK, Attempts, Dirs
<1>2. UNCHANGED <<flag, attempt, pc>>
  BY DEF Watchdog, StartHelpers, StartX, TakeDisplay, SpawnEmulator, WritePid, XServerDied, EmulatorDied,
         TelnetDied, WatchdogCleanup, PipeDied, ForwarderDied
<1>3. wpc[g] \notin Exited /\ \A a \in Attempts \ {g} : wpc'[a] = wpc[a]
  BY <1>1 DEF Watchdog, StartHelpers, StartX, TakeDisplay, SpawnEmulator, WritePid, XServerDied,
         EmulatorDied, TelnetDied, WatchdogCleanup, PipeDied, ForwarderDied, WGoto, Escape, Exited
<1>4. CASE WatchdogCleanup(g)
  <2>1. wpc'[g] \in Exited /\ (CleanUp(g) \/ tmp' = tmp)
    BY <1>1, <1>4 DEF WatchdogCleanup, WGoto, Exited
  <2>2. ~flag.sharedTmp => \A a \in Attempts \ {g} : tmp'[a] = tmp[a]
    BY <2>1, CleanUpLocal
  <2> QED
    BY <1>1, <1>2, <1>3, <2>1, <2>2 DEF FilesStay, GetTmpDir, Exited
<1>5. CASE WritePid(g)
  <2>1. \A d \in Dirs : tmp'[d]["images"] = tmp[d]["images"]
    BY <1>1, <1>5, TypeGetTmpDir DEF WritePid, Escape, Entries
  <2> QED
    BY <1>1, <1>2, <1>3, <1>5, <2>1 DEF FilesStay, GetTmpDir, Exited, WritePid
<1>6. CASE ~WatchdogCleanup(g) /\ ~WritePid(g)
  <2>1. UNCHANGED tmp
    BY <1>6 DEF Watchdog, StartHelpers, StartX, TakeDisplay, SpawnEmulator, XServerDied, EmulatorDied,
                TelnetDied, PipeDied, ForwarderDied, Escape
  <2>2. \A a \in Attempts : wpc[a] \in Exited => wpc'[a] \in Exited
    BY <1>3
  <2> QED
    BY <1>1, <1>2, <2>1, <2>2 DEF FilesStay, GetTmpDir, Exited
<1> QED
  BY <1>4, <1>5, <1>6

\* While main brings a device up nobody but the attempt's own watchdog takes its files
\* away: no watchdog left over from an attempt that failed, for every number of retries.
THEOREM FilesStayCorrect == Spec => []FilesStay
<1>1. Init => FilesStay
  BY DEF Init, FilesStay, PollPcs
<1>2. TypeOK /\ FilesStay /\ UNCHANGED vars => FilesStay'
  BY DEF vars, launcherVars, FilesStay, GetTmpDir
<1>3. ASSUME TypeOK, FilesStay, Kill \/ \E g \in Attempts : Processes(g) PROVE FilesStay'
  <2>1. UNCHANGED <<launcherVars, tmp, wpc>>
    BY <1>3 DEF Kill, Processes, EmulatorBoots, EmulatorCrashes, XDies, HelperDies
  <2> QED
    BY <1>3, <2>1 DEF launcherVars, FilesStay, GetTmpDir
<1>4. TypeOK /\ FilesStay /\ [Next]_vars => FilesStay'
  BY <1>2, <1>3, FilesLauncher, FilesWatchdog DEF Next
<1> QED
  BY <1>1, <1>4, TypeCorrect, PTL DEF Spec

\* A watchdog that runs can terminate every helper that runs, and every forwarder it is
\* about to start again; one that has ended by itself has left none.
HelperInv ==
  \A g \in Attempts :
    /\ wpc[g] \notin Exited \cup {"lost"} =>
         \A h \in Helpers : \/ h \in killable[g]
                            \/ helper[g][h] # "up" /\ (h \in Forwarders => helper[g][h] # "dead")
    /\ wpc[g] \in Exited => \A h \in Helpers : helper[g][h] # "up"

\* The watchdog of g moves, and accounts for its helpers.
LEMMA HelperLocal ==
  ASSUME HelperInv, NEW g \in Attempts,
         \A a \in Attempts \ {g} : UNCHANGED <<wpc[a], helper[a], killable[a]>>,
         wpc'[g] \notin Exited \cup {"lost"} =>
           \A h \in Helpers : \/ h \in killable'[g]
                              \/ helper'[g][h] # "up" /\ (h \in Forwarders => helper'[g][h] # "dead"),
         wpc'[g] \in Exited => \A h \in Helpers : helper'[g][h] # "up"
  PROVE  HelperInv'
  BY DEF HelperInv

\* A step of a watchdog keeps its helpers accounted for.
LEMMA HelperWatchdog ==
  ASSUME TypeOK, HelperInv, NEW g \in Attempts, Watchdog(g) PROVE HelperInv'
<1> USE DEF processVars, helperVars
<1>1. /\ wpc \in [Attempts -> {"none"} \cup WatchPcs \cup EndPcs]
      /\ helper \in [Attempts -> [Helpers -> {"none", "up", "dead", "gone", "lost"}]]
      /\ killable \in [Attempts -> SUBSET Helpers]
      /\ Pipes \in SUBSET Helpers /\ Forwarders \in SUBSET Helpers /\ "telnet" \in Helpers
  BY DEF TypeOK, Helpers
<1> DEFINE Kept(h) == \/ h \in killable[g]
                      \/ helper[g][h] # "up" /\ (h \in Forwarders => helper[g][h] # "dead")
<1>2. wpc[g] \notin Exited \cup {"lost"} => \A h \in Helpers : Kept(h)
  BY DEF HelperInv
<1>3. CASE Escape(g)
  BY <1>1, <1>3, HelperLocal DEF Escape, WGoto, Exited
<1>4. CASE StartHelpers(g) /\ ~Escape(g)
  <2>1. /\ helper'[g] = [h \in Helpers |-> IF h \in Managed THEN "up" ELSE "none"]
        /\ killable'[g] = Managed /\ wpc'[g] \in {"display", "spawn"}
        /\ \A a \in Attempts \ {g} : UNCHANGED <<wpc[a], helper[a], killable[a]>>
    BY <1>1, <1>4 DEF StartHelpers, WGoto
  <2> QED
    BY <2>1, HelperLocal DEF Exited
<1>5. CASE \/ StartX(g) \/ SpawnEmulator(g) \/ XServerDied(g) \/ EmulatorDied(g)
           \/ (TakeDisplay(g) \/ WritePid(g)) /\ ~Escape(g)
  <2>1. /\ UNCHANGED <<helper, killable>> /\ wpc[g] \notin Exited \cup {"lost"}
        /\ wpc'[g] \notin Exited \cup {"lost"} /\ \A a \in Attempts \ {g} : wpc'[a] = wpc[a]
    BY <1>1, <1>5 DEF StartX, SpawnEmulator, XServerDied, EmulatorDied, TakeDisplay, WritePid, WGoto, Exited
  <2> QED
    BY <1>2, <2>1, HelperLocal
<1>6. CASE TelnetDied(g)
  <2>1. UNCHANGED <<wpc, killable>> /\ wpc[g] = "sit" /\ helper' = [helper EXCEPT ![g]["telnet"] = "gone"]
    BY <1>6 DEF TelnetDied
  <2>2. /\ helper'[g]["telnet"] = "gone" /\ \A h \in Helpers \ {"telnet"} : helper'[g][h] = helper[g][h]
        /\ \A a \in Attempts \ {g} : helper'[a] = helper[a]
    BY <1>1, <2>1
  <2> QED
    BY <1>2, <2>1, <2>2, HelperLocal DEF Exited
<1>7. CASE WatchdogCleanup(g)
  <2>1. /\ helper'[g] = [h \in Helpers |-> IF h \in killable[g] THEN "gone" ELSE helper[g][h]]
        /\ UNCHANGED killable /\ wpc[g] = "cleanup" /\ wpc'[g] \in {"exit0", "exitN"}
        /\ \A a \in Attempts \ {g} : UNCHANGED <<wpc[a], helper[a]>>
    BY <1>1, <1>7 DEF WatchdogCleanup, WGoto
  <2>2. \A h \in Helpers : helper'[g][h] # "up"
    BY <1>1, <1>2, <2>1 DEF Exited
  <2> QED
    BY <2>1, <2>2, HelperLocal DEF Exited
<1>8. ASSUME NEW p \in Pipes, PipeDied(g, p), ~Escape(g) PROVE HelperInv'
  <2>1. /\ wpc[g] = "sit" /\ wpc'[g] \in {"sit", "lost"}
        /\ \A a \in Attempts \ {g} : wpc'[a] = wpc[a]
    BY <1>1, <1>8 DEF PipeDied, WGoto
  <2>2. \A f \in Forwarders : f \notin Pipes
    OBVIOUS
  <2>3. CASE /\ helper' = [helper EXCEPT ![g] = [h \in Helpers |-> IF h \in Pipes THEN "up" ELSE @[h]]]
             /\ killable' = [killable EXCEPT ![g] = Restarted(g)]
    <3>1. /\ helper'[g] = [h \in Helpers |-> IF h \in Pipes THEN "up" ELSE helper[g][h]]
          /\ killable'[g] = killable[g] \cup Pipes
          /\ \A a \in Attempts \ {g} : UNCHANGED <<helper[a], killable[a]>>
      BY <1>1, <2>3 DEF Restarted
    <3> QED
      BY <1>1, <1>2, <2>1, <3>1, HelperLocal DEF Exited
  <2>4. CASE /\ helper' = [helper EXCEPT ![g] = [h \in Helpers |->
                             IF h = p THEN "lost" ELSE IF h \in Pipes THEN "dead" ELSE @[h]]]
             /\ killable' = [killable EXCEPT ![g] = @ \ Pipes]
    <3>1. /\ helper'[g] = [h \in Helpers |->
                             IF h = p THEN "lost" ELSE IF h \in Pipes THEN "dead" ELSE helper[g][h]]
          /\ killable'[g] = killable[g] \ Pipes
          /\ \A a \in Attempts \ {g} : UNCHANGED <<helper[a], killable[a]>>
      BY <1>1, <2>4
    <3>2. \A h \in Helpers : \/ h \in killable'[g]
                             \/ helper'[g][h] # "up" /\ (h \in Forwarders => helper'[g][h] # "dead")
      BY <1>2, <2>1, <2>2, <3>1 DEF Exited
    <3> QED
      BY <2>1, <3>1, <3>2, HelperLocal DEF Exited
  <2> QED
    BY <1>8, <2>3, <2>4 DEF PipeDied
<1>9. ASSUME NEW f \in Forwarders, ForwarderDied(g, f) PROVE HelperInv'
  <2>1. /\ wpc[g] = "sit" /\ wpc'[g] \in {"sit", "lost"} /\ helper[g][f] = "dead"
        /\ \A a \in Attempts \ {g} : wpc'[a] = wpc[a]
    BY <1>1, <1>9 DEF ForwarderDied, WGoto
  <2>2. f \in killable[g]
    BY <1>1, <1>2, <2>1 DEF Exited
  <2>3. /\ \A h \in Helpers \ {f} : helper'[g][h] = helper[g][h] /\ (h \in killable[g] => h \in killable'[g])
        /\ f \in killable'[g] \/ helper'[g][f] = "lost"
        /\ \A a \in Attempts \ {g} : UNCHANGED <<helper[a], killable[a]>>
    BY <1>1, <1>9, <2>2 DEF ForwarderDied
  <2> QED
    BY <1>1, <1>2, <2>1, <2>3, HelperLocal DEF Exited
<1> QED
  BY <1>3, <1>4, <1>5, <1>6, <1>7, <1>8, <1>9 DEF Watchdog

\* A step of the launcher, or of the processes, keeps the helpers accounted for.
LEMMA HelperOthers ==
  ASSUME IInv, HelperInv, Launcher \/ Kill \/ \E g \in Attempts : Processes(g) PROVE HelperInv'
<1> USE DEF processVars, helperVars
<1>1. /\ wpc \in [Attempts -> {"none"} \cup WatchPcs \cup EndPcs]
      /\ helper \in [Attempts -> [Helpers -> {"none", "up", "dead", "gone", "lost"}]]
      /\ attempt \in Attempts
  BY DEF IInv, TypeOK
<1>2. CASE UNCHANGED <<wpc, helper, killable>>
  BY <1>2 DEF HelperInv
<1>3. CASE ForkWatchdog /\ wpc' # wpc
  <2>1. wpc[attempt] = "none" /\ wpc'[attempt] = "start" /\ UNCHANGED <<helper, killable>>
        /\ \A a \in Attempts \ {attempt} : wpc'[a] = wpc[a]
    BY <1>1, <1>3 DEF ForkWatchdog, WGoto, IInv, FreshInv
  <2> QED
    BY <1>1, <2>1, HelperLocal DEF HelperInv, Exited
<1>4. CASE EnsureEmuRunning /\ wpc' # wpc
  <2>1. wpc[attempt] = "exit0" /\ wpc'[attempt] = "waited" /\ UNCHANGED <<helper, killable>>
        /\ \A a \in Attempts \ {attempt} : wpc'[a] = wpc[a]
    BY <1>1, <1>4 DEF EnsureEmuRunning
  <2> QED
    BY <1>1, <2>1, HelperLocal DEF HelperInv, Exited
<1>5. ASSUME NEW g \in Attempts, NEW h \in Helpers, HelperDies(g, h) PROVE HelperInv'
  <2>1. /\ UNCHANGED <<wpc, killable>> /\ wpc[g] = "sit" /\ helper[g][h] = "up" /\ helper'[g][h] = "dead"
        /\ \A k \in Helpers \ {h} : helper'[g][k] = helper[g][k]
        /\ \A a \in Attempts \ {g} : helper'[a] = helper[a]
    BY <1>1, <1>5 DEF HelperDies
  <2>2. \A k \in Helpers : \/ k \in killable[g]
                           \/ helper[g][k] # "up" /\ (k \in Forwarders => helper[g][k] # "dead")
    BY <2>1 DEF HelperInv, Exited
  <2> QED
    BY <2>1, <2>2, HelperLocal DEF Exited
<1>6. CASE (ForkWatchdog \/ EnsureEmuRunning) /\ wpc' = wpc
  BY <1>2, <1>6 DEF ForkWatchdog, EnsureEmuRunning
<1>7. CASE \/ Stage \/ PollStep \/ PollTimeout \/ DeviceCommands \/ NoCommands \/ ExecFails \/ ExecHangs
           \/ HungCommandFails \/ CommandFails \/ Install \/ NothingToInstall \/ KillEmulator \/ KillEmulatorPolitely \/ Store
           \/ StopAllProcesses \/ Wipe \/ Finally \/ Kill
  <2>1. UNCHANGED <<wpc, helper, killable>>
    BY <1>7 DEF Stage, PollStep, PollTimeout, DeviceCommands, NoCommands, ExecFails, ExecHangs,
                HungCommandFails, CommandFails, Install, NothingToInstall, KillEmulator, KillEmulatorPolitely, Store, StopAllProcesses, Wipe, Finally, Kill
  <2> QED
    BY <1>2, <2>1
<1>8. ASSUME NEW g \in Attempts, EmulatorBoots(g) \/ EmulatorCrashes(g) \/ XDies(g) PROVE HelperInv'
  BY <1>2, <1>8 DEF EmulatorBoots, EmulatorCrashes, XDies
<1> QED
  BY <1>3, <1>4, <1>5, <1>6, <1>7, <1>8 DEF Launcher, Processes

\* A watchdog that ends by itself leaves no helper behind, for every number of helpers,
\* restarts and attempts: what runs is in the list of what it terminates.
THEOREM HelpersStopCorrect == Spec => []HelpersStop
<1>1. Init => HelperInv
  BY DEF Init, HelperInv, Exited
<1>2. HelperInv /\ UNCHANGED vars => HelperInv'
  BY DEF vars, processVars, helperVars, HelperInv
<1>3. IInv /\ HelperInv /\ [Next]_vars => HelperInv'
  BY <1>2, HelperWatchdog, HelperOthers DEF Next, IInv
<1>4. HelperInv => HelpersStop
  BY DEF HelperInv, HelpersStop, Exited
<1> QED
  BY <1>1, <1>3, <1>4, InvCorrect, PTL DEF Spec
=============================================================================
