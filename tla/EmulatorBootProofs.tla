--------------------------- MODULE EmulatorBootProofs ---------------------------
(***************************************************************************)
(* What holds of booting and installing for every command line, every set  *)
(* of apks and apps, and any number of attempts, tries and faults.         *)
(***************************************************************************)
EXTENDS EmulatorBoot, SequenceTheorems, WellFoundedInduction, TLAPS

USE BootAssumption

\* Where in the pass a check is, and where the poll is: an install that the check of the
\* density started is part of it.
Index(c) == CHOOSE i \in DOMAIN Checks : Checks[i] = c
At == IF pc = "install" /\ back = "dpi" THEN "dpi" ELSE pc

\* What lies behind in this pass need not be done again, but for the two checks that
\* every pass makes.
PassInv ==
  /\ "ready" \notin seen
  /\ At \in CheckNames =>
       \A i \in DOMAIN Checks : i < Index(At) /\ Checks[i] \notin {"fs", "crashes"} => ~Needed(Checks[i])

\* A pass adds one attempt for each check, and begins within the bound; the attempts of a
\* step are counted over passes that make no other.
AttemptInv ==
  /\ step <= total
  /\ At \in CheckNames => total < MaxAttempts + Index(At)
  /\ At \in CheckNames /\ step > 0 => total <= MaxAttempts

\* The framework is stopped only for a mini boot.
StopInv == pc = "stop" => cfg.mini

\* What the checks have seen is still so, unless the framework went down.
SeenInv ==
  /\ "storage" \in seen => storage
  /\ ~fell /\ ~cfg.mini /\ "pm" \in seen => level >= PmUp
  /\ ~fell /\ ~cfg.mini /\ phase = "first" =>
       /\ bootProp => level >= BootComplete
       /\ event => level >= LauncherUp
       /\ "boot" \in seen => bootProp
       /\ "launcher" \in seen => level >= LauncherUp

\* After the poll; then, the apks.
Installing == pc \in {"apks", "lockdown", "gms", "running"} \/ (pc = "install" /\ back # "dpi")
After == pc \in {"preverify", "push", "restart"} \/ Installing

UpInv ==
  After /\ ~fell /\ ~cfg.mini =>
    /\ storage
    /\ level >= IF phase # "first" THEN PmUp
                ELSE IF cfg.direct THEN BootComplete ELSE LauncherUp

\* The framework of the last poll has started after the push, or is still to go down.
SystemInv ==
  /\ pc = "restart" \/ phase = "system" => pushed
  /\ phase = "system" /\ ~cfg.mini /\ ~pending /\ level >= ServerUp => scanned
  /\ Installing /\ cfg.systemApks /\ cfg.action = "start" /\ ~cfg.mini => phase = "system"

\* The install under way; what is left to do, and in which batch.
InstallInv ==
  /\ dev # "none" <=> pc = "install"
  /\ pc = "install" => cur \in Apks \cup {"bootstrap"} /\ (back # "dpi" => cur \in Apks)
  /\ dev = "done" /\ cur \in Apks => Hash[cur] \in installed

TodoInv ==
  /\ \A a \in IF cfg.action = "boot" THEN BootApks ELSE Apks :
       Hash[a] \in installed \/ \E b \in gaveUp \cup todo : Hash[b] = Hash[a]
  /\ cfg.action = "boot" => todo \subseteq BootApks
  /\ pc \in {"lockdown", "gms"} \/ (pc = "install" /\ back = "gms") => todo \subseteq GmsApks
  /\ pc = "running" => todo = {} \/ (cfg.action = "start" /\ cfg.mini)

\* The samples of the load, and since which of them a core is idle.
Sample == [time : Nat, idle : Nat]
Sampled(s) ==
  /\ s \in Seq(Sample)
  /\ \A i \in 1 .. Len(s) - 1 : Busy(s, i) \in 0 .. 2
  /\ \A i, j \in 1 .. Len(s) : i <= j => s[i].time <= s[j].time
QuietSince(s, q, m) ==
  /\ q = s[Len(s)].time - s[m].time
  /\ \A i \in m .. Len(s) - 1 : Busy(s, i) = 0
  /\ m = 1 \/ Busy(s, m - 1) > 0
LoadInv ==
  /\ Sampled(loads)
  /\ pc = "install" => \E m \in 1 .. Len(loads) : QuietSince(loads, quiet, m)

\* An app whose crash was logged, and its death was not, hangs or has died unseen; so has
\* an app that is to be killed.
HungInv == \A p \in (crashed \ died) \cup targets : proc[p] = "hung" \/ p \in missed

IInv == /\ TypeOK /\ PassInv /\ AttemptInv /\ StopInv /\ SeenInv /\ UpInv /\ SystemInv
        /\ InstallInv /\ TodoInv /\ LoadInv /\ HungInv

-----------------------------------------------------------------------------
(* Numbers, and the checks of a pass.                                      *)

\* A set of numbers has a least element; ...
LEMMA LeastElement ==
  ASSUME NEW T \in SUBSET Nat, T # {}
  PROVE  \E m \in T : \A k \in T : m <= k
<1>1. PICK m \in T : \A k \in T : ~(<<k, m>> \in OpToRel(<, Nat))
  BY NatLessThanWellFounded, WFMin
<1>2. ASSUME NEW k \in T PROVE m <= k
  <2>1. k \in Nat /\ m \in Nat
    OBVIOUS
  <2>2. ~(k < m)
    <3> DEFINE L == {p \in Nat \X Nat : p[1] < p[2]}
    <3>1. <<k, m>> \notin L
      <4>1. ~(<<k, m>> \in OpToRel(<, Nat))
        BY <1>1
      <4> QED
        BY <4>1, Zenon DEF OpToRel
    <3>2. k < m => <<k, m>> \in L
      BY <2>1
    <3> QED
      BY <3>1, <3>2
  <2> QED
    BY <2>1, <2>2
<1> QED
  BY <1>2

\* ... and if it is bounded a largest one.
LEMMA LargestElement ==
  ASSUME NEW n \in Nat, NEW T \in SUBSET (0 .. n), T # {}
  PROVE  \E m \in T : \A k \in T : k <= m
<1> DEFINE D == {n - t : t \in T}
<1>1. D \in SUBSET Nat /\ D # {}
  <2>1. \A t \in T : n - t \in Nat
    OBVIOUS
  <2>2. \A d \in D : d \in Nat
    BY <2>1
  <2> QED
    BY <2>2
<1>2. PICK d \in D : \A k \in D : d <= k
  BY <1>1, LeastElement
<1>3. PICK m \in T : d = n - m
  OBVIOUS
<1>4. \A k \in T : n - k \in D
  OBVIOUS
<1> HIDE DEF D
<1>5. ASSUME NEW k \in T PROVE k <= m
  <2>1. d <= n - k
    BY <1>2, <1>4
  <2>2. k \in Int /\ m \in Int
    OBVIOUS
  <2> QED
    BY <1>3, <2>1, <2>2
<1> QED
  BY <1>5

\* The checks are fifteen, "ready" is the last, and each has its place.
LEMMA ChecksProperties ==
  /\ DOMAIN Checks = 1 .. 15 /\ Len(Checks) = 15 /\ Checks[15] = "ready"
  /\ \A i \in 1 .. 14 : Checks[i] # "ready"
  /\ \A i, j \in 1 .. 15 : Checks[i] = Checks[j] => i = j
  /\ CheckNames = {"adb", "connect", "pipe", "waterfall", "logcat", "stop", "fs", "server",
                   "crashes", "pm", "storage", "boot", "dpi", "launcher", "ready"}
<1>1. DOMAIN Checks = 1 .. 15 /\ Len(Checks) = 15 /\ Checks[15] = "ready"
  BY DEF Checks
<1>2. \A i \in 1 .. 14 : Checks[i] # "ready"
  BY DEF Checks
<1>3. \A i, j \in 1 .. 15 : Checks[i] = Checks[j] => i = j
  BY DEF Checks
<1>4. CheckNames = {"adb", "connect", "pipe", "waterfall", "logcat", "stop", "fs", "server",
                   "crashes", "pm", "storage", "boot", "dpi", "launcher", "ready"}
  BY <1>1 DEF Checks, CheckNames
<1> QED
  BY <1>1, <1>2, <1>3, <1>4

\* The place of a check.
LEMMA IndexProperties ==
  ASSUME NEW c \in CheckNames
  PROVE  /\ Index(c) \in 1 .. 15 /\ Checks[Index(c)] = c
         /\ \A i \in 1 .. 15 : Checks[i] = c => i = Index(c)
         /\ c # "ready" => Index(c) < 15
<1>1. \E i \in DOMAIN Checks : Checks[i] = c
  BY DEF CheckNames
<1>2. Index(c) \in DOMAIN Checks /\ Checks[Index(c)] = c
  BY <1>1 DEF Index
<1>3. Index(c) \in 1 .. 15
  BY <1>2, ChecksProperties
<1>4. \A i \in 1 .. 15 : Checks[i] = c => i = Index(c)
  BY <1>2, <1>3, ChecksProperties
<1>5. c # "ready" => Index(c) # 15
  BY <1>2, ChecksProperties
<1> QED
  BY <1>2, <1>3, <1>4, <1>5

\* The check that follows c in a pass: nothing between the two needs to be done.
LEMMA FollowingProperties ==
  ASSUME NEW c \in CheckNames, c # "ready", "ready" \notin seen
  PROVE  /\ Following(c) \in CheckNames /\ Index(Following(c)) > Index(c) /\ Needed(Following(c))
         /\ \A i \in DOMAIN Checks :
              Index(c) < i /\ i < Index(Following(c)) => ~Needed(Checks[i])
<1> DEFINE i0 == CHOOSE k \in DOMAIN Checks : Checks[k] = c
           later == {k \in DOMAIN Checks : k > i0 /\ Needed(Checks[k])}
           n == CHOOSE k \in later : \A j \in later : k <= j
<1>1. i0 = Index(c) /\ i0 \in 1 .. 15 /\ i0 < 15 /\ DOMAIN Checks = 1 .. 15
  BY IndexProperties, ChecksProperties DEF Index
<1>2. Following(c) = Checks[n]
  BY DEF Following
<1> HIDE DEF i0
<1>3. Needed("ready")
  BY DEF Needed
<1>4. 15 \in later
  BY <1>1, <1>3, ChecksProperties
<1>5. later \in SUBSET Nat /\ later # {}
  BY <1>1, <1>4
<1>6. \E k \in later : \A j \in later : k <= j
  BY <1>5, LeastElement
<1>7. n \in later /\ \A j \in later : n <= j
  BY <1>6
<1>8. n \in 1 .. 15 /\ n > i0 /\ Needed(Checks[n])
  BY <1>1, <1>7
<1> HIDE DEF n
<1>9. \A i \in 1 .. 15 : i0 < i /\ i < n => ~Needed(Checks[i])
  <2> SUFFICES ASSUME NEW i \in 1 .. 15, i0 < i, i < n, Needed(Checks[i]) PROVE FALSE
    OBVIOUS
  <2>1. i \in later
    BY <1>1
  <2>2. n <= i
    BY <1>7, <2>1
  <2> QED
    BY <1>8, <2>2
<1>10. Checks[n] \in CheckNames
  BY <1>1, <1>8 DEF CheckNames
<1>11. Index(Checks[n]) = n
  BY <1>8, <1>10, IndexProperties
<1> QED
  BY <1>1, <1>2, <1>8, <1>9, <1>10, <1>11

\* Where a poll leads to.
LEMMA AfterPollProperties ==
  ASSUME TypeOK
  PROVE  /\ AfterPoll \in {"apks", "running", "preverify", "push"}
         /\ phase = "first" /\ cfg.action = "boot" => AfterPoll = "apks"
         /\ phase = "first" /\ cfg.action # "boot" /\ cfg.mini => AfterPoll = "running"
         /\ phase = "first" /\ cfg.action # "boot" /\ ~cfg.mini => AfterPoll = "preverify"
         /\ phase = "preverify" => AfterPoll = "push"
         /\ phase = "system" => AfterPoll = "apks"
BY DEF TypeOK, AfterPoll

\* A check has been made: the pass goes on, or the next one begins.
Checked ==
  /\ pc \in CheckNames \ {"ready"}
  /\ total' = total + 1
  /\ \/ seen' = seen \cup {pc} /\ step' = 0 /\ pc' = Following(pc)
     \/ seen' = seen /\ step' = step + 1 /\ pc' = "poll"
  /\ UNCHANGED <<cfg, phase, kicked, fell>>

PollInv ==
  /\ PassInv /\ AttemptInv /\ seen \subseteq CheckNames
  /\ total \in 0 .. MaxAttempts + Len(Checks) /\ step \in 0 .. MaxAttempts + 1

\* The pass goes on to the next check: what is behind stays behind.
LEMMA PassGoesOn ==
  ASSUME TypeOK, PassInv, pc \in CheckNames \ {"ready"}, pc' = Following(pc), UNCHANGED <<cfg, phase>>,
         seen' = seen \cup {pc} \/ (seen' = seen /\ (pc \in {"fs", "crashes"} \/ ~Needed(pc)))
  PROVE  PassInv' /\ pc' \in CheckNames /\ Index(pc') > Index(pc) /\ At' = pc'
<1>1. At = pc
  BY ChecksProperties DEF At
<1>2. /\ pc' \in CheckNames /\ Index(pc') > Index(pc)
      /\ \A i \in DOMAIN Checks : Index(pc) < i /\ i < Index(pc') => ~Needed(Checks[i])
  BY FollowingProperties DEF PassInv
<1>3. At' = pc'
  BY <1>2, ChecksProperties DEF At
<1>4. ASSUME NEW c PROVE Needed(c)' => Needed(c)
  BY DEF Needed
<1>5. /\ Index(pc) \in 1 .. 15 /\ Index(pc') \in 1 .. 15 /\ Checks[Index(pc)] = pc
      /\ DOMAIN Checks = 1 .. 15
  BY <1>2, IndexProperties, ChecksProperties
<1>6. ASSUME NEW i \in DOMAIN Checks, i < Index(pc'), Checks[i] \notin {"fs", "crashes"}
      PROVE  ~Needed(Checks[i])'
  <2>1. CASE i < Index(pc)
    BY <1>1, <1>4, <1>6, <2>1 DEF PassInv
  <2>2. CASE i = Index(pc)
    <3>1. seen' = seen \cup {pc} \/ ~Needed(pc)
      BY <1>5, <1>6, <2>2
    <3>2. CASE seen' = seen \cup {pc}
      BY <1>5, <2>2, <3>2 DEF Needed
    <3>3. CASE ~Needed(pc)
      BY <1>4, <1>5, <2>2, <3>3
    <3> QED
      BY <3>1, <3>2, <3>3
  <2>3. CASE Index(pc) < i
    BY <1>2, <1>4, <1>6, <2>3
  <2> QED
    BY <1>5, <2>1, <2>2, <2>3
<1>7. "ready" \notin seen'
  BY DEF PassInv
<1> QED
  BY <1>2, <1>3, <1>6, <1>7 DEF PassInv

\* A check keeps the order of the pass and the bound of the attempts.
LEMMA CheckedPoll == ASSUME TypeOK, PassInv, AttemptInv, Checked PROVE PollInv' /\ pc' \in CheckNames \cup {"poll"}
<1>1. At = pc /\ Index(pc) \in 1 .. 14 /\ Len(Checks) = 15
  BY ChecksProperties, IndexProperties DEF At, Checked
<1>2. total \in Nat /\ step \in Nat /\ MaxAttempts \in Nat /\ seen \subseteq CheckNames
  BY DEF TypeOK
<1>3. total < MaxAttempts + Index(pc) /\ step <= total /\ (step > 0 => total <= MaxAttempts)
  BY <1>1 DEF AttemptInv, Checked
<1>4. total' = total + 1 /\ total' \in 0 .. MaxAttempts + Len(Checks)
  BY <1>1, <1>2, <1>3 DEF Checked
<1>5. CASE seen' = seen \cup {pc} /\ step' = 0 /\ pc' = Following(pc)
  <2>1. PassInv' /\ pc' \in CheckNames /\ Index(pc') > Index(pc) /\ At' = pc'
    BY <1>5, PassGoesOn DEF Checked
  <2>2. Index(pc') \in 1 .. 15
    BY <2>1, IndexProperties
  <2>3. AttemptInv'
    BY <1>1, <1>2, <1>3, <1>4, <1>5, <2>1, <2>2 DEF AttemptInv
  <2> QED
    BY <1>2, <1>4, <1>5, <2>1, <2>3 DEF PollInv, Checked
<1>6. CASE seen' = seen /\ step' = step + 1 /\ pc' = "poll"
  <2>1. At' = "poll" /\ At' \notin CheckNames
    BY <1>6, ChecksProperties DEF At
  <2>2. PassInv' /\ AttemptInv'
    BY <1>2, <1>3, <1>4, <1>6, <2>1 DEF PassInv, AttemptInv
  <2>3. step' \in 0 .. MaxAttempts + 1
    BY <1>2, <1>3, <1>6
  <2> QED
    BY <1>2, <1>4, <1>6, <2>2, <2>3 DEF PollInv
<1> QED
  BY <1>5, <1>6 DEF Checked

\* The poll is left, or somebody else is at work: nothing of it changes.
LEMMA OtherPoll ==
  ASSUME TypeOK, PassInv, AttemptInv, UNCHANGED <<cfg, phase, seen, total, step>>, At' = At \/ At' \notin CheckNames
  PROVE  PollInv'
<1>1. ASSUME NEW c PROVE Needed(c)' <=> Needed(c)
  BY DEF Needed
<1> QED
  BY <1>1 DEF TypeOK, PassInv, AttemptInv, PollInv

\* A check that costs no attempt.
LEMMA FreeCheck ==
  ASSUME TypeOK, PassInv, AttemptInv, pc \in CheckNames \ {"ready"}, pc' = Following(pc),
         UNCHANGED <<cfg, phase, total, step>>,
         seen' = seen \cup {pc} \/ (seen' = seen /\ (pc \in {"fs", "crashes"} \/ ~Needed(pc)))
  PROVE  PollInv' /\ pc' \in CheckNames
<1>1. PassInv' /\ pc' \in CheckNames /\ Index(pc') > Index(pc) /\ At' = pc'
  BY PassGoesOn
<1>2. At = pc /\ Index(pc) \in 1 .. 15 /\ Index(pc') \in 1 .. 15
  BY <1>1, ChecksProperties, IndexProperties DEF At
<1>3. total \in Nat /\ step \in Nat /\ MaxAttempts \in Nat
  BY DEF TypeOK
<1>4. AttemptInv'
  BY <1>1, <1>2, <1>3 DEF AttemptInv
<1> QED
  BY <1>1, <1>4 DEF PollInv, TypeOK

\* The steps that are checks.
LEMMA StepsThatCheck ==
  ASSUME TypeOK, Look \/ CheckStorage \/ CheckDpi \/ CheckLauncherStarted
  PROVE  Checked \/ (pc' = "transient" /\ UNCHANGED <<cfg, phase, pollVars>>)
<1> USE ChecksProperties DEF AttemptStep, Checked, othersSame, deviceSame
<1>1. CASE Look
  BY <1>1 DEF Look
<1>2. CASE CheckStorage
  BY <1>2 DEF CheckStorage
<1>3. CASE CheckDpi
  BY <1>3 DEF CheckDpi
<1>4. CASE CheckLauncherStarted
  BY <1>4 DEF CheckLauncherStarted
<1> QED
  BY <1>1, <1>2, <1>3, <1>4

\* Where a step of the poll leads to.
LEMMA PollLeadsTo ==
  ASSUME TypeOK, PassInv, Poll, ~InstallBootstrap
  PROVE  /\ pc \in CheckNames \cup {"poll"}
         /\ pc' \in CheckNames \cup {"poll", "plain", "transient", "apks", "running", "preverify", "push"}
<1>1. \A c \in CheckNames \ {"ready"} : Following(c) \in CheckNames
  BY FollowingProperties DEF PassInv
<1>2. "adb" \in CheckNames \ {"ready"}
  BY ChecksProperties
<1>3. CASE Look \/ CheckStorage \/ CheckDpi \/ CheckLauncherStarted
  <2>1. Checked \/ pc' = "transient"
    BY <1>3, StepsThatCheck
  <2>2. pc \in CheckNames
    BY <1>3, ChecksProperties DEF Look, CheckStorage, CheckDpi, CheckLauncherStarted
  <2> QED
    BY <1>1, <2>1, <2>2 DEF Checked
<1>4. CASE NextPass \/ TimeIsUp
  BY <1>1, <1>2, <1>4 DEF NextPass, TimeIsUp
<1>5. CASE ConnectOrEnableLogcat
  <2>1. pc \in CheckNames \ {"ready"} /\ pc' \in {Following(pc), "plain"}
    BY <1>5, ChecksProperties DEF ConnectOrEnableLogcat, Pass
  <2> QED
    BY <1>1, <2>1
<1>6. CASE StopFramework \/ DetectFSErrors \/ ReadEventLog \/ KillCrashedProcesses
  <2>1. /\ pc \in CheckNames
        /\ \/ pc # "ready" /\ pc' = Following(pc)
           \/ pc' \in {pc, AfterPoll, "transient"}
    BY <1>6, ChecksProperties DEF StopFramework, DetectFSErrors, ReadEventLog, KillCrashedProcesses, AfterKill
  <2> QED
    BY <1>1, <2>1, AfterPollProperties
<1>7. CASE KickLauncher
  BY <1>7, ChecksProperties DEF KickLauncher
<1> QED
  BY <1>3, <1>4, <1>5, <1>6, <1>7 DEF Poll

\* An install, as the poll sees it.
LEMMA InstallSteps ==
  ASSUME Install
  PROVE  /\ pc = "install" /\ pc' \in {"install", back, "plain"}
         /\ UNCHANGED <<cfg, phase, pollVars, back, faults, deviceVars, appVars, installed>>
<1> USE DEF installSame, deviceSame, TryAgain, CommandFailed, Raise
<1>1. CASE InstallReturns \/ InstallFails \/ InstallRefused
  BY <1>1 DEF InstallReturns, InstallFails, InstallRefused
<1>2. CASE TimerFires \/ CheckIdle \/ KillHungInstall
  BY <1>2 DEF TimerFires, CheckIdle, KillHungInstall
<1> QED
  BY <1>1, <1>2 DEF Install

\* The device and its apps, as the launcher sees them.
LEMMA DeviceSteps == ASSUME Device PROVE (launcherSame /\ UNCHANGED <<pushed, bootProp, event>>) \/ DeviceBoots
BY DEF Device, DeviceBoots, StorageMounts, FrameworkDies, RemountedReadOnly, AppEvent, InstallEnds, deviceVars

\* Every step keeps the order of the pass and the bounds of the attempts.
LEMMA PollInductive == TypeOK /\ PassInv /\ AttemptInv /\ [Next]_vars => PollInv'
<1> SUFFICES ASSUME TypeOK, PassInv, AttemptInv, [Next]_vars PROVE PollInv'
  OBVIOUS
<1> DEFINE Same == UNCHANGED <<cfg, phase, seen, total, step>>
<1> USE DEF pollVars, othersSame, deviceSame
<1>1. CASE UNCHANGED vars
  <2>1. Same /\ At' = At
    BY <1>1 DEF vars, installVars, At
  <2> QED
    BY <2>1, OtherPoll
<1>2. CASE Device
  <2>1. launcherSame
    BY <1>2, DeviceSteps DEF DeviceBoots
  <2>2. Same /\ At' = At
    BY <2>1 DEF launcherSame, At
  <2> QED
    BY <2>2, OtherPoll
<1>3. CASE Install
  <2>1. Same /\ pc = "install" /\ pc' \in {"install", back, "plain"} /\ back' = back
    BY <1>3, InstallSteps
  <2>2. At' = At \/ At' \notin CheckNames
    BY <2>1, ChecksProperties DEF At, TypeOK
  <2> QED
    BY <2>1, <2>2, OtherPoll
<1>4. CASE Look \/ CheckStorage \/ CheckDpi \/ CheckLauncherStarted
  <2>1. CASE Checked
    BY <2>1, CheckedPoll
  <2>2. CASE pc' = "transient" /\ UNCHANGED <<cfg, phase, pollVars>>
    <3>1. Same /\ At' \notin CheckNames
      BY <2>2, ChecksProperties DEF At
    <3> QED
      BY <3>1, OtherPoll
  <2> QED
    BY <1>4, <2>1, <2>2, StepsThatCheck
<1>5. CASE NextPass
  <2>1. Same /\ pc = "poll"
    BY <1>5 DEF NextPass
  <2>2. CASE pc' = "plain"
    <3>1. At' \notin CheckNames
      BY <2>2, ChecksProperties DEF At
    <3> QED
      BY <2>1, <3>1, OtherPoll
  <2>3. CASE ~OutOfAttempts /\ (pc' = "adb" \/ (pc' = Following("adb") /\ ~Needed("adb")))
    <3>1. /\ total <= MaxAttempts /\ total \in Nat /\ step \in Nat /\ step <= total
          /\ MaxAttempts \in Nat
      BY <2>3 DEF OutOfAttempts, TypeOK, AttemptInv
    <3>2. Index("adb") = 1 /\ "adb" \in CheckNames /\ "adb" # "ready"
      <4>1. "adb" \in CheckNames /\ Checks[1] = "adb"
        BY ChecksProperties DEF Checks
      <4> QED
        BY <4>1, IndexProperties
    <3>3. /\ pc' \in CheckNames
          /\ \A i \in DOMAIN Checks : i < Index(pc') => ~Needed(Checks[i])
      <4>1. CASE pc' = "adb"
        BY <3>2, <4>1, ChecksProperties
      <4>2. CASE pc' = Following("adb") /\ ~Needed("adb")
        <5>1. /\ pc' \in CheckNames
              /\ \A i \in DOMAIN Checks : 1 < i /\ i < Index(pc') => ~Needed(Checks[i])
          BY <3>2, <4>2, FollowingProperties DEF PassInv
        <5>2. ~Needed(Checks[1])
          BY <4>2 DEF Checks
        <5>3. \A i \in DOMAIN Checks : i = 1 \/ 1 < i
          BY ChecksProperties
        <5> QED
          BY <5>1, <5>2, <5>3
      <4> QED
        BY <2>3, <4>1, <4>2
    <3>4. At' = pc' /\ Index(pc') \in 1 .. 15
      BY <3>3, ChecksProperties, IndexProperties DEF At
    <3>5. ASSUME NEW c PROVE Needed(c)' <=> Needed(c)
      BY <2>1 DEF Needed
    <3>6. PassInv'
      BY <2>1, <3>3, <3>4, <3>5 DEF PassInv
    <3>7. AttemptInv'
      BY <2>1, <3>1, <3>4 DEF AttemptInv
    <3> QED
      BY <2>1, <3>6, <3>7 DEF PollInv, TypeOK
  <2> QED
    BY <1>5, <2>2, <2>3 DEF NextPass
<1>6. CASE ConnectOrEnableLogcat
  <2>1. CASE Pass(pc)
    <3>1. /\ pc \in CheckNames \ {"ready"} /\ pc' = Following(pc) /\ seen' = seen \cup {pc}
          /\ UNCHANGED <<cfg, phase, total, step>>
      BY <1>6, <2>1, ChecksProperties DEF ConnectOrEnableLogcat, Pass
    <3> QED
      BY <3>1, FreeCheck
  <2>2. CASE pc' = "plain" /\ UNCHANGED pollVars
    <3>1. Same /\ At' \notin CheckNames
      BY <1>6, <2>2, ChecksProperties DEF At, ConnectOrEnableLogcat
    <3> QED
      BY <3>1, OtherPoll
  <2> QED
    BY <1>6, <2>1, <2>2 DEF ConnectOrEnableLogcat
<1>7. CASE DetectFSErrors \/ ReadEventLog \/ KillCrashedProcesses
  <2>1. Same /\ pc \in {"fs", "crashes", "ready"}
    BY <1>7 DEF DetectFSErrors, ReadEventLog, KillCrashedProcesses
  <2>2. CASE pc \in {"fs", "crashes"} /\ pc' = Following(pc)
    <3>1. pc \in CheckNames \ {"ready"}
      BY <2>2, ChecksProperties
    <3> QED
      BY <2>1, <2>2, <3>1, FreeCheck
  <2>3. CASE pc' \in {"transient", AfterPoll}
    <3>1. At' \notin CheckNames
      BY <2>3, ChecksProperties, AfterPollProperties DEF At
    <3> QED
      BY <2>1, <3>1, OtherPoll
  <2>4. CASE pc' = pc
    <3>1. At' = At
      BY <2>1, <2>4 DEF At
    <3> QED
      BY <2>1, <3>1, OtherPoll
  <2> QED
    BY <1>7, <2>2, <2>3, <2>4 DEF DetectFSErrors, ReadEventLog, KillCrashedProcesses, AfterKill
<1>8. CASE StopFramework \/ TimeIsUp
  <2>1. Same /\ pc' \in {"plain", AfterPoll}
    BY <1>8 DEF StopFramework, TimeIsUp
  <2>2. At' \notin CheckNames
    BY <2>1, ChecksProperties, AfterPollProperties DEF At
  <2> QED
    BY <2>1, <2>2, OtherPoll
<1>9. CASE InstallBootstrap \/ KickLauncher
  <2>1. Same /\ At' = At
    BY <1>9, ChecksProperties DEF InstallBootstrap, KickLauncher, StartInstall, installVars, At
  <2> QED
    BY <2>1, OtherPoll
<1>10. CASE Rest
  <2>1. CASE \E p : BeginPoll(p)
    <3>1. /\ seen' = {} /\ total' = 0 /\ step' = 0 /\ pc' = "poll"
      BY <2>1 DEF BeginPoll
    <3>2. At' \notin CheckNames
      BY <3>1, ChecksProperties DEF At
    <3> QED
      BY <3>1, <3>2, ChecksProperties DEF PollInv, PassInv, AttemptInv
  <2>2. CASE Same /\ (pc' \in {"plain", "push", "restart", "apks", "running", "lockdown", "transient", "gms"})
    <3>1. At' \notin CheckNames
      BY <2>2, ChecksProperties DEF At
    <3> QED
      BY <2>2, <3>1, OtherPoll
  <2>3. CASE InstallApk
    <3>1. Same /\ pc' = "install" /\ back' \in {"apks", "gms"}
      BY <2>3 DEF InstallApk, StartInstall
    <3>2. At' \notin CheckNames
      BY <3>1, ChecksProperties DEF At
    <3> QED
      BY <3>1, <3>2, OtherPoll
  <2>4. CASE PreverifyApks \/ PushSystemApks \/ NoSystemApks \/ RestartForSystemApks \/ BatchDone \/ Lockdown
    BY <2>1, <2>2, <2>4 DEF PreverifyApks, PushSystemApks, NoSystemApks, RestartForSystemApks, BatchDone,
                            Lockdown, RestartAndroid
  <2> QED
    BY <1>10, <2>3, <2>4 DEF Rest
<1> QED
  BY <1>1, <1>2, <1>3, <1>4, <1>5, <1>6, <1>7, <1>8, <1>9, <1>10 DEF Next, Launcher, Poll

-----------------------------------------------------------------------------
(* The samples of the load.                                                *)

\* A command is spawned: one sample; it has ended: none; or the samples stay.
LEMMA LoadsStep ==
  ASSUME TypeOK, PassInv, [Next]_vars, ~CheckIdle
  PROVE  \/ UNCHANGED <<loads, quiet>> /\ (pc' = "install" => pc = "install")
         \/ loads' = <<[time |-> 0, idle |-> 0]>> /\ quiet' = 0
         \/ loads' = <<>> /\ quiet' = 0 /\ pc' # "install"
<1> USE DEF TypeOK, installVars, othersSame, deviceSame, installSame
<1>1. CASE UNCHANGED vars \/ Device
  BY <1>1 DEF vars, Device, DeviceBoots, StorageMounts, FrameworkDies, RemountedReadOnly, AppEvent,
              InstallEnds, launcherSame
<1>2. CASE Poll
  <2>1. CASE InstallBootstrap
    BY <2>1 DEF InstallBootstrap, StartInstall, Spawn
  <2>2. CASE ~InstallBootstrap
    <3>1. UNCHANGED <<loads, quiet>> /\ pc # "install"
      BY <1>2, <2>2 DEF Poll, NextPass, TimeIsUp, Look, ConnectOrEnableLogcat, StopFramework, DetectFSErrors,
         ReadEventLog, KillCrashedProcesses, CheckStorage, CheckDpi, KickLauncher, CheckLauncherStarted
    <3>2. pc' # "install"
      BY <1>2, <2>2, PollLeadsTo, ChecksProperties
    <3> QED
      BY <3>1, <3>2
  <2> QED
    BY <2>1, <2>2
<1>3. CASE Install
  <2>1. CASE InstallReturns
    BY <2>1 DEF InstallReturns
  <2>2. CASE Raise
    BY <2>2 DEF Raise
  <2>3. CASE Spawn
    BY <2>3 DEF Spawn
  <2> QED
    BY <1>3, <2>1, <2>2, <2>3 DEF Install, InstallFails, InstallRefused, TimerFires, KillHungInstall,
       CommandFailed, TryAgain
<1>4. CASE Rest
  <2>1. CASE InstallApk
    BY <2>1 DEF InstallApk, StartInstall, Spawn
  <2>2. CASE ~InstallApk
    BY <1>4, <2>2 DEF Rest, PreverifyApks, PushSystemApks, NoSystemApks, RestartForSystemApks, BatchDone,
       Lockdown, RestartAndroid, BeginPoll
  <2> QED
    BY <2>1, <2>2
<1> QED
  BY <1>1, <1>2, <1>3, <1>4 DEF Next, Launcher

\* One more sample, x units of idle time later: a core is idle since the same one, or since
\* this one.
LEMMA OneMoreSample ==
  ASSUME NEW s, Sampled(s), NEW q \in Nat, NEW m \in 1 .. Len(s), QuietSince(s, q, m),
         NEW d \in 1 .. 2, NEW x \in Nat,
         NEW e, e = [time |-> s[Len(s)].time + d, idle |-> s[Len(s)].idle + x],
         NEW t, t = Append(s, e)
  PROVE  /\ Sampled(t)
         /\ \E k \in 1 .. Len(t) : QuietSince(t, IF x >= d THEN q + d ELSE 0, k)
<1> DEFINE n == Len(s)
<1>1. /\ s \in Seq(Sample) /\ n \in Nat /\ n >= 1 /\ \A i \in 1 .. n : s[i] \in Sample
  <2>1. s \in Seq(Sample) /\ n \in Nat
    BY LenProperties DEF Sampled
  <2>2. \A i \in 1 .. n : s[i] \in Sample
    BY <2>1, ElementOfSeq
  <2> QED
    BY <2>1, <2>2
<1>2. \A i \in 1 .. n : s[i].time \in Nat /\ s[i].idle \in Nat
  BY <1>1 DEF Sample
<1>3. s[n].time \in Nat /\ s[n].idle \in Nat
  BY <1>1, <1>2
<1>4. /\ e \in Sample /\ e.time = s[n].time + d /\ e.idle = s[n].idle + x
  BY <1>3 DEF Sample
<1>5. /\ t \in Seq(Sample) /\ Len(t) = n + 1 /\ t[n + 1] = e /\ \A i \in 1 .. n : t[i] = s[i]
  BY <1>1, <1>4, AppendProperties
<1> HIDE DEF n
<1>6. Busy(t, n) \in 0 .. 2 /\ (Busy(t, n) = 0 <=> x >= d)
  <2>1. t[n + 1].time - t[n].time = d /\ t[n + 1].idle - t[n].idle = x
    BY <1>1, <1>3, <1>4, <1>5
  <2>2. Busy(t, n) = IF d - x > 0 THEN d - x ELSE 0
    BY <2>1, Zenon DEF Busy
  <2> QED
    BY <2>2
<1>7. \A i \in 1 .. n - 1 : Busy(t, i) = Busy(s, i)
  <2>1. \A i \in 1 .. n - 1 : t[i] = s[i] /\ t[i + 1] = s[i + 1]
    BY <1>1, <1>5
  <2> QED
    BY <2>1 DEF Busy
<1>8. Sampled(t)
  <2>1. \A i \in 1 .. n + 1 : i \in 1 .. n \/ i = n + 1
    BY <1>1
  <2>3. \A i \in 1 .. n : Busy(t, i) \in 0 .. 2
    <3>1. \A i \in 1 .. n : i \in 1 .. n - 1 \/ i = n
      BY <1>1
    <3>2. \A i \in 1 .. n - 1 : Busy(s, i) \in 0 .. 2
      BY DEF Sampled, n
    <3> QED
      BY <1>6, <1>7, <3>1, <3>2
  <2>4. ASSUME NEW i \in 1 .. n + 1, NEW j \in 1 .. n + 1, i <= j PROVE t[i].time <= t[j].time
    <3>1. \A h \in 1 .. n : s[h].time <= s[n].time
      BY <1>1 DEF Sampled, n
    <3>2. CASE j \in 1 .. n
      <4>1. i \in 1 .. n
        BY <1>1, <2>4, <3>2
      <4> QED
        BY <1>5, <2>4, <3>2, <4>1 DEF Sampled, n
    <3>3. CASE i \in 1 .. n /\ j = n + 1
      <4>1. s[i].time \in Nat /\ s[i].time <= s[n].time /\ t[i] = s[i]
        BY <1>2, <1>5, <3>1, <3>3
      <4>2. t[j].time = s[n].time + d
        BY <1>4, <1>5, <3>3
      <4>3. \A u, v \in Nat : u <= v => u <= v + d
        OBVIOUS
      <4>4. s[i].time <= s[n].time + d
        BY <1>3, <4>1, <4>3
      <4> QED
        BY <4>1, <4>2, <4>4, Zenon
    <3>4. CASE i = n + 1
      <4>1. j = n + 1
        BY <1>1, <2>4, <3>4
      <4> QED
        BY <1>3, <1>4, <1>5, <3>4, <4>1
    <3> QED
      BY <2>1, <3>2, <3>3, <3>4
  <2> QED
    BY <1>1, <1>5, <2>3, <2>4 DEF Sampled
<1>9. CASE x >= d
  <2>1. m \in 1 .. n /\ q = s[n].time - s[m].time /\ t[m] = s[m] /\ s[m].time \in Nat
    BY <1>2, <1>5 DEF QuietSince, n
  <2>2. q + d = t[n + 1].time - t[m].time
    <3>1. t[n + 1].time = s[n].time + d
      BY <1>4, <1>5
    <3>2. \A u, v \in Nat : (u - v) + d = (u + d) - v
      OBVIOUS
    <3>3. (s[n].time - s[m].time) + d = (s[n].time + d) - s[m].time
      BY <1>3, <2>1, <3>2
    <3> QED
      BY <2>1, <3>1, <3>3, Zenon
  <2>3. ASSUME NEW i \in m .. n PROVE Busy(t, i) = 0
    <3>1. CASE i = n
      BY <1>6, <1>9, <3>1
    <3>2. CASE i # n
      <4>1. i \in 1 .. n - 1 /\ i \in m .. n - 1
        BY <1>1, <2>1, <3>2
      <4> QED
        BY <1>7, <4>1 DEF QuietSince, n
    <3> QED
      BY <3>1, <3>2
  <2>4. m = 1 \/ Busy(t, m - 1) > 0
    <3>1. m # 1 => m - 1 \in 1 .. n - 1
      BY <1>1, <2>1
    <3> QED
      BY <1>7, <3>1 DEF QuietSince
  <2>5. m \in 1 .. n + 1
    BY <1>1, <2>1
  <2>6. QuietSince(t, q + d, m)
    BY <1>1, <1>5, <2>2, <2>3, <2>4 DEF QuietSince
  <2> QED
    BY <1>5, <1>8, <1>9, <2>5, <2>6
<1>10. CASE ~(x >= d)
  <2>1. 0 = t[n + 1].time - t[n + 1].time /\ n + 1 \in 1 .. n + 1 /\ Busy(t, n) > 0
    BY <1>1, <1>3, <1>4, <1>5, <1>6, <1>10
  <2>2. (n + 1) .. n = {} /\ (n + 1) - 1 = n
    BY <1>1
  <2>3. QuietSince(t, 0, n + 1)
    BY <1>1, <1>5, <1>6, <2>1, <2>2 DEF QuietSince
  <2> QED
    BY <1>5, <1>8, <1>10, <2>1, <2>3
<1> QED
  BY <1>9, <1>10

\* The samples are in order, and tell for how long a core has been idle.
LEMMA LoadInductive == TypeOK /\ PassInv /\ LoadInv /\ [Next]_vars => LoadInv' /\ quiet' \in Nat
<1> SUFFICES ASSUME TypeOK, PassInv, LoadInv, [Next]_vars PROVE LoadInv' /\ quiet' \in Nat
  OBVIOUS
<1>0. quiet \in Nat
  BY DEF TypeOK
<1>1. CASE CheckIdle
  <2>1. PICK m \in 1 .. Len(loads) : QuietSince(loads, quiet, m)
    BY <1>1 DEF CheckIdle, LoadInv
  <2> DEFINE Sees(d, b) ==
               /\ loads' = Append(loads, [time |-> loads[Len(loads)].time + d,
                                           idle |-> loads[Len(loads)].idle + cfg.cores * d - b])
               /\ quiet' = IF b <= (cfg.cores - 1) * d THEN quiet + d ELSE 0
  <2>2. PICK d \in 1 .. 2 : \E b \in 0 .. cfg.cores * d : Sees(d, b)
    BY <1>1 DEF CheckIdle
  <2>3. PICK b \in 0 .. cfg.cores * d : Sees(d, b)
    BY <2>2
  <2> DEFINE x == cfg.cores * d - b
  <2>4. x \in Nat /\ (x >= d <=> b <= (cfg.cores - 1) * d)
    <3>1. cfg.cores \in Nat
      BY DEF TypeOK, Config
    <3>2. CASE d = 1
      BY <3>1, <3>2
    <3>3. CASE d = 2
      BY <3>1, <3>3
    <3> QED
      BY <3>2, <3>3
  <2>5. loads[Len(loads)].idle \in Nat
    <3>1. loads \in Seq(Sample) /\ Len(loads) \in 1 .. Len(loads)
      BY <2>1, LenProperties DEF LoadInv, Sampled
    <3>2. loads[Len(loads)] \in Sample
      BY <3>1, ElementOfSeq
    <3> QED
      BY <3>2 DEF Sample
  <2>6. loads[Len(loads)].idle + cfg.cores * d - b = loads[Len(loads)].idle + x
    <3>1. cfg.cores * d \in Nat
      BY DEF TypeOK, Config
    <3> QED
      BY <2>5, <3>1
  <2> HIDE DEF x
  <2>7. /\ loads' = Append(loads, [time |-> loads[Len(loads)].time + d, idle |-> loads[Len(loads)].idle + x])
        /\ quiet' = IF x >= d THEN quiet + d ELSE 0
    BY <2>3, <2>4, <2>6
  <2>8. /\ Sampled(loads')
        /\ \E k \in 1 .. Len(loads') : QuietSince(loads', quiet', k)
    <3>1. Sampled(loads) /\ d \in 1 .. 2 /\ x \in Nat /\ m \in 1 .. Len(loads) /\ QuietSince(loads, quiet, m)
      BY <2>1, <2>4 DEF LoadInv
    <3> DEFINE e == [time |-> loads[Len(loads)].time + d, idle |-> loads[Len(loads)].idle + x]
               t == Append(loads, e)
    <3>2. Sampled(t) /\ \E k \in 1 .. Len(t) : QuietSince(t, IF x >= d THEN quiet + d ELSE 0, k)
      BY <1>0, <3>1, OneMoreSample, Zenon
    <3>3. loads' = t /\ quiet' = IF x >= d THEN quiet + d ELSE 0
      BY <2>7
    <3> QED
      BY <3>2, <3>3, Zenon
  <2> QED
    BY <1>0, <2>7, <2>8 DEF LoadInv
<1>2. CASE UNCHANGED <<loads, quiet>> /\ (pc' = "install" => pc = "install")
  BY <1>0, <1>2 DEF LoadInv
<1>3. CASE loads' = <<[time |-> 0, idle |-> 0]>> /\ quiet' = 0
  <2>1. /\ loads' \in Seq(Sample) /\ Len(loads') = 1 /\ loads'[1].time = 0 /\ loads'[1].idle = 0
    BY <1>3 DEF Sample
  <2>2. Sampled(loads')
    BY <2>1 DEF Sampled
  <2>3. QuietSince(loads', 0, 1)
    BY <2>1 DEF QuietSince
  <2> QED
    BY <1>3, <2>1, <2>2, <2>3 DEF LoadInv
<1>4. CASE loads' = <<>> /\ quiet' = 0 /\ pc' # "install"
  <2>1. Sampled(loads')
    BY <1>4 DEF Sampled
  <2> QED
    BY <1>4, <2>1 DEF LoadInv
<1> QED
  BY <1>1, <1>2, <1>3, <1>4, LoadsStep

\* A load of zero is that of a whole window: a core was idle all through it.
LEMMA IdleWindow ==
  ASSUME NEW s, Sampled(s), NEW q \in Nat, NEW m \in 1 .. Len(s), QuietSince(s, q, m),
         RecentMaxLoad(s) = 0
  PROVE  q >= IdleTime
<1> DEFINE n == Len(s)
           old == {i \in 1 .. n - 1 : s[n].time - s[i].time >= IdleTime}
           first == CHOOSE i \in old : \A j \in old : j <= i
           busies == {Busy(s, i) : i \in first .. n - 1}
<1>1. /\ n \in Nat /\ \A i \in 1 .. n : s[i].time \in Nat
  <2>1. s \in Seq(Sample) /\ n \in Nat
    BY LenProperties DEF Sampled
  <2>2. \A i \in 1 .. n : s[i] \in Sample
    BY <2>1, ElementOfSeq
  <2> QED
    BY <2>1, <2>2 DEF Sample
<1>2. /\ old # {}
      /\ 0 = CHOOSE b \in busies : \A a \in busies : a <= b
  <2>1. RecentMaxLoad(s) = IF old = {} THEN 1 ELSE CHOOSE b \in busies : \A a \in busies : a <= b
    BY Zenon DEF RecentMaxLoad, Busy
  <2> HIDE DEF busies, old
  <2> QED
    BY <2>1
<1>3. old \in SUBSET (0 .. n)
  BY <1>1
<1>4. \E i \in old : \A j \in old : j <= i
  BY <1>1, <1>2, <1>3, LargestElement
<1>5. first \in old
  BY <1>4
<1>6. first \in 1 .. n - 1 /\ s[n].time - s[first].time >= IdleTime
  BY <1>5
<1> HIDE DEF first
<1>7. \A i \in first .. n - 1 : Busy(s, i) \in 0 .. 2
  BY <1>1, <1>6 DEF Sampled
<1>8. busies \in SUBSET (0 .. 2) /\ busies # {}
  <2>1. \A b \in busies : b \in 0 .. 2
    BY <1>7
  <2>2. Busy(s, first) \in busies
    BY <1>1, <1>6
  <2> QED
    BY <2>1, <2>2
<1> HIDE DEF n
<1>9. \A i \in first .. n - 1 : Busy(s, i) \in busies
  OBVIOUS
<1> HIDE DEF busies
<1>10. \E b \in busies : \A a \in busies : a <= b
  BY <1>8, LargestElement
<1>11. \A a \in busies : a <= 0
  BY <1>2, <1>10
<1>12. \A i \in first .. n - 1 : Busy(s, i) = 0
  BY <1>7, <1>9, <1>11
<1>13. m \in 1 .. n /\ m <= first
  <2> SUFFICES ASSUME m > first, m \in 1 .. n PROVE FALSE
    BY <1>1, <1>6 DEF n
  <2>1. m # 1 /\ m - 1 \in first .. n - 1
    BY <1>1, <1>6
  <2>2. Busy(s, m - 1) > 0
    BY <2>1 DEF QuietSince
  <2> QED
    BY <1>12, <2>1, <2>2
<1>14. s[m].time <= s[first].time
  BY <1>1, <1>6, <1>13 DEF Sampled, n
<1>15. q = s[n].time - s[m].time
  BY DEF QuietSince, n
<1>16. s[m].time \in Nat /\ s[first].time \in Nat /\ s[n].time \in Nat /\ IdleTime \in Nat
  BY <1>1, <1>6, <1>13
<1> QED
  BY <1>6, <1>14, <1>15, <1>16

-----------------------------------------------------------------------------
(* Installs.                                                               *)

installState == <<todo, gaveUp, cur, back, tries, spawns, installed, dev>>

\* Outside of installs their state stays, and no install begins.
LEMMA NotInstalling ==
  ASSUME TypeOK, PassInv, [Next]_vars, ~Install, ~InstallBootstrap, ~InstallApk, ~InstallEnds
  PROVE  UNCHANGED installState /\ UNCHANGED cfg /\ (pc' = "install" <=> pc = "install")
<1> USE DEF installVars, othersSame, deviceSame, installState
<1>1. CASE UNCHANGED vars
  BY <1>1 DEF vars
<1>2. CASE Device
  BY <1>2 DEF Device, DeviceBoots, StorageMounts, FrameworkDies, RemountedReadOnly, AppEvent, launcherSame
<1>3. CASE Poll
  <2>1. UNCHANGED installState /\ UNCHANGED cfg
    BY <1>3 DEF Poll, NextPass, TimeIsUp, Look, ConnectOrEnableLogcat, StopFramework, DetectFSErrors,
       ReadEventLog, KillCrashedProcesses, CheckStorage, CheckDpi, KickLauncher, CheckLauncherStarted
  <2> QED
    BY <1>3, <2>1, PollLeadsTo, ChecksProperties
<1>4. CASE Rest
  BY <1>4 DEF Rest, PreverifyApks, PushSystemApks, NoSystemApks, RestartForSystemApks, BatchDone,
     Lockdown, RestartAndroid, BeginPoll
<1> QED
  BY <1>1, <1>2, <1>3, <1>4 DEF Next, Launcher

\* An install returns, raises or goes on with a new command; or it polls.
LEMMA InstallCases ==
  ASSUME TypeOK, Install
  PROVE  /\ UNCHANGED <<cfg, installed, back>> /\ pc = "install"
         /\ \/ /\ dev = "done" /\ dev' = "none" /\ pc' = back /\ todo' = todo \ {cur}
               /\ cur' = "none" /\ UNCHANGED <<gaveUp, tries, spawns>>
            \/ /\ dev' = "none" /\ cur' = "none" /\ UNCHANGED <<tries, spawns>>
               /\ \/ /\ back # "dpi" /\ pc' = back /\ cfg.action = "start"
                     /\ todo' = todo \ {cur} /\ gaveUp' = gaveUp \cup {cur}
                  \/ pc' = "plain" /\ UNCHANGED <<todo, gaveUp>>
            \/ /\ dev' = "working" /\ pc' = "install" /\ UNCHANGED <<todo, gaveUp, cur>>
               /\ tries' \in 0 .. MaxTries - 1 /\ spawns' \in 0 .. 1
            \/ UNCHANGED <<pc, todo, gaveUp, cur, tries, spawns, dev>>
<1> USE DEF installSame, deviceSame
<1>1. CASE InstallReturns
  BY <1>1 DEF InstallReturns
<1>2. CASE CheckIdle
  BY <1>2 DEF CheckIdle
<1>3. CASE Raise \/ TryAgain \/ CommandFailed
  BY <1>3, InstallSteps DEF Raise, TryAgain, CommandFailed, Spawn, TypeOK
<1> QED
  BY <1>1, <1>2, <1>3 DEF Install, InstallFails, InstallRefused, TimerFires, KillHungInstall

\* The files that are left to install after the boot action, in content.
LEMMA FilesProperties ==
  ASSUME NEW H, NEW F, \A h \in H : \E f \in F : Hash[f] = h
  PROVE  Files(H, F) \subseteq F /\ \A h \in H : \E f \in Files(H, F) : Hash[f] = h
<1>1. \A h \in H : /\ (CHOOSE f \in F : Hash[f] = h) \in F
                   /\ Hash[CHOOSE f \in F : Hash[f] = h] = h
  OBVIOUS
<1> QED
  BY <1>1 DEF Files

\* What the launcher begins with covers every apk.
LEMMA RemoveBootTimeApksProperties ==
  ASSUME NEW A, NEW B
  PROVE  /\ RemoveBootTimeApks(A, B) \subseteq B
         /\ \A b \in B : Hash[b] \in Hashes(A) \/ \E f \in RemoveBootTimeApks(A, B) : Hash[f] = Hash[b]
<1>1. CASE A = {}
  BY <1>1 DEF RemoveBootTimeApks
<1>2. CASE A # {}
  <2> DEFINE H == Hashes(B) \ Hashes(A)
  <2>1. RemoveBootTimeApks(A, B) = Files(H, B)
    BY <1>2 DEF RemoveBootTimeApks
  <2>2. \A h \in H : \E f \in B : Hash[f] = h
    BY DEF Hashes
  <2>3. Files(H, B) \subseteq B /\ \A h \in H : \E f \in Files(H, B) : Hash[f] = h
    BY <2>2, FilesProperties
  <2>4. \A b \in B : Hash[b] \in Hashes(A) \/ Hash[b] \in H
    BY DEF Hashes
  <2> QED
    BY <2>1, <2>3, <2>4
<1> QED
  BY <1>1, <1>2

\* The command that is under way is for an apk, and has installed it when it is done.
LEMMA InstallInductive == TypeOK /\ PassInv /\ InstallInv /\ [Next]_vars => InstallInv'
<1> SUFFICES ASSUME TypeOK, PassInv, InstallInv, [Next]_vars PROVE InstallInv'
  OBVIOUS
<1> USE DEF InstallInv
<1>1. CASE Install
  <2>1. back \in {"dpi", "apks", "gms"} /\ pc = "install" /\ UNCHANGED <<installed, back>>
    BY <1>1, InstallCases DEF TypeOK
  <2> QED
    BY <1>1, <2>1, InstallCases
<1>2. CASE InstallBootstrap
  BY <1>2 DEF InstallBootstrap, StartInstall, Spawn
<1>3. CASE InstallApk
  <2>1. PICK a \in Batch : StartInstall(a, pc)
    BY <1>3 DEF InstallApk
  <2>2. a \in Apks
    BY <2>1 DEF Batch, TypeOK
  <2> QED
    BY <2>1, <2>2 DEF StartInstall, Spawn
<1>4. CASE InstallEnds
  <2>1. /\ dev = "working" /\ dev' \in {"done", "failed", "permanent", "hung"} /\ UNCHANGED <<pc, cur, back>>
        /\ dev' = "done" /\ cur # "bootstrap" => Hash[cur] \in installed'
    BY <1>4 DEF InstallEnds, launcherSame
  <2> QED
    BY <2>1
<1>5. CASE ~Install /\ ~InstallBootstrap /\ ~InstallApk /\ ~InstallEnds
  BY <1>5, NotInstalling DEF installState
<1> QED
  BY <1>1, <1>2, <1>3, <1>4, <1>5

\* No apk is lost between those that are installed, given up and left to do.
LEMMA TodoInductive == TypeOK /\ PassInv /\ InstallInv /\ TodoInv /\ [Next]_vars => TodoInv'
<1> SUFFICES ASSUME TypeOK, PassInv, InstallInv, TodoInv, [Next]_vars PROVE TodoInv'
  OBVIOUS
<1> DEFINE Wanted == IF cfg.action = "boot" THEN BootApks ELSE Apks
           Covered == \A a \in Wanted : Hash[a] \in installed \/ \E b \in gaveUp \cup todo : Hash[b] = Hash[a]
           Batched == /\ cfg.action = "boot" => todo \subseteq BootApks
                      /\ pc \in {"lockdown", "gms"} \/ (pc = "install" /\ back = "gms") => todo \subseteq GmsApks
                      /\ pc = "running" => todo = {} \/ (cfg.action = "start" /\ cfg.mini)
<1>0. Covered /\ Batched
  BY DEF TodoInv
<1>1. ASSUME UNCHANGED cfg, installed \subseteq installed', gaveUp \subseteq gaveUp', todo \subseteq todo'
      PROVE  Covered'
  BY <1>0, <1>1
<1>2. ASSUME Covered', Batched' PROVE TodoInv'
  BY <1>2 DEF TodoInv
<1>3. ASSUME UNCHANGED <<installed, gaveUp, todo, cfg>>, Batched' PROVE TodoInv'
  BY <1>1, <1>2, <1>3
<1> HIDE DEF Covered
<1>4. CASE Install
  <2>1. /\ UNCHANGED <<cfg, installed, back>> /\ pc = "install" /\ back \in {"dpi", "apks", "gms"}
    BY <1>4, InstallCases DEF TypeOK
  <2>2. CASE pc' \in {"install", "plain"} /\ UNCHANGED <<todo, gaveUp>>
    BY <1>0, <1>3, <2>1, <2>2
  <2>3. CASE dev = "done" /\ pc' = back /\ todo' = todo \ {cur} /\ UNCHANGED gaveUp
    <3>1. Batched'
      BY <1>0, <2>1, <2>3
    <3>2. cur \in Apks => Hash[cur] \in installed
      BY <2>3 DEF InstallInv
    <3>3. todo \subseteq Apks
      BY DEF TypeOK
    <3>4. Covered'
      BY <1>0, <2>1, <2>3, <3>2, <3>3 DEF Covered
    <3> QED
      BY <1>2, <3>1, <3>4
  <2>4. CASE pc' = back /\ back # "dpi" /\ todo' = todo \ {cur} /\ gaveUp' = gaveUp \cup {cur}
    <3>1. Batched'
      BY <1>0, <2>1, <2>4
    <3>2. Covered'
      BY <1>0, <2>1, <2>4 DEF Covered
    <3> QED
      BY <1>2, <3>1, <3>2
  <2> QED
    BY <1>4, <2>1, <2>2, <2>3, <2>4, InstallCases
<1>5. CASE InstallBootstrap
  <2>1. pc' = "install" /\ back' = "dpi" /\ UNCHANGED <<installed, gaveUp, todo, cfg>>
    BY <1>5 DEF InstallBootstrap, StartInstall, deviceSame
  <2> QED
    BY <1>0, <1>3, <2>1
<1>6. CASE InstallApk
  <2>1. pc' = "install" /\ back' = pc /\ UNCHANGED <<installed, gaveUp, todo, cfg>>
    BY <1>6 DEF InstallApk, StartInstall, deviceSame
  <2> QED
    BY <1>0, <1>3, <2>1
<1>7. CASE InstallEnds
  <2>1. UNCHANGED <<pc, back, gaveUp, todo, cfg>> /\ installed \subseteq installed'
    BY <1>7 DEF InstallEnds, launcherSame
  <2> QED
    BY <1>0, <1>1, <1>2, <2>1
<1>8. CASE ~Install /\ ~InstallBootstrap /\ ~InstallApk /\ ~InstallEnds
  <2>1. UNCHANGED <<installed, gaveUp, todo, cfg, back>> /\ (pc' = "install" <=> pc = "install")
    BY <1>8, NotInstalling DEF installState
  <2>2. CASE UNCHANGED vars \/ Device
    <3>1. UNCHANGED pc
      BY <2>2 DEF vars, Device, DeviceBoots, StorageMounts, FrameworkDies, RemountedReadOnly, AppEvent,
                  InstallEnds, launcherSame
    <3> QED
      BY <1>0, <1>3, <2>1, <3>1
  <2>3. CASE Poll
    <3>1. pc # "install" /\ pc' \notin {"install", "lockdown", "gms"}
      BY <1>8, <2>3, PollLeadsTo, ChecksProperties
    <3>2. pc' = "running" => cfg.action = "start" /\ cfg.mini
      <4> SUFFICES ASSUME pc' = "running" PROVE cfg.action = "start" /\ cfg.mini
        OBVIOUS
      <4>1. pc' = AfterPoll
        <5>1. \A c \in CheckNames \ {"ready"} : Following(c) # "running"
          BY FollowingProperties, ChecksProperties DEF PassInv
        <5>2. "adb" \in CheckNames \ {"ready"}
          BY ChecksProperties
        <5>3. CASE Look \/ CheckStorage \/ CheckDpi \/ CheckLauncherStarted
          BY <5>1, <5>3, StepsThatCheck DEF Checked
        <5>4. CASE NextPass \/ TimeIsUp \/ KickLauncher
          BY <5>1, <5>2, <5>4 DEF NextPass, TimeIsUp, KickLauncher
        <5>5. CASE ConnectOrEnableLogcat \/ DetectFSErrors
          BY <5>1, <5>5, ChecksProperties DEF ConnectOrEnableLogcat, DetectFSErrors, Pass
        <5>6. CASE ReadEventLog \/ KillCrashedProcesses \/ StopFramework
          BY <5>1, <5>6, ChecksProperties DEF ReadEventLog, KillCrashedProcesses, AfterKill, StopFramework
        <5> QED
          BY <1>8, <2>3, <5>3, <5>4, <5>5, <5>6 DEF Poll
      <4>2. cfg.action \in {"boot", "start"} /\ phase \in {"first", "preverify", "system"}
        BY DEF TypeOK, Config
      <4> QED
        BY <4>1, <4>2, AfterPollProperties
    <3> QED
      BY <1>0, <1>3, <2>1, <3>1, <3>2
  <2>4. CASE BatchDone
    <3>1. /\ pc \in {"apks", "gms"} /\ Batch = {}
          /\ pc' = IF cfg.action = "boot" \/ pc = "gms" THEN "running" ELSE "lockdown"
      BY <2>4 DEF BatchDone
    <3>2. CASE pc = "gms"
      <4>1. todo \subseteq GmsApks /\ todo \cap GmsApks = {}
        BY <1>0, <3>1, <3>2 DEF Batch
      <4> QED
        BY <1>0, <1>3, <2>1, <3>1, <3>2, <4>1
    <3>3. CASE pc = "apks"
      <4>1. todo \ GmsApks = {} /\ GmsApks \subseteq Apks \ BootApks
        BY <3>1, <3>3 DEF Batch
      <4>2. cfg.action = "boot" => todo = {}
        BY <1>0, <4>1
      <4> QED
        BY <1>0, <1>3, <2>1, <3>1, <3>3, <4>1, <4>2
    <3> QED
      BY <3>1, <3>2, <3>3
  <2>5. CASE Lockdown
    BY <1>0, <1>3, <2>1, <2>5 DEF Lockdown
  <2>6. CASE PreverifyApks \/ PushSystemApks \/ NoSystemApks \/ RestartForSystemApks
    <3>1. pc' \in {"poll", "push", "restart", "plain", "apks"}
      BY <2>6 DEF PreverifyApks, PushSystemApks, NoSystemApks, RestartForSystemApks, RestartAndroid, BeginPoll
    <3> QED
      BY <1>0, <1>3, <2>1, <3>1
  <2> QED
    BY <1>8, <2>2, <2>3, <2>4, <2>5, <2>6 DEF Next, Launcher, Rest
<1> QED
  BY <1>4, <1>5, <1>6, <1>7, <1>8

-----------------------------------------------------------------------------
(* Types.                                                                  *)

\* What the launcher does with the device is one of four things.
LEMMA LauncherDeviceSteps ==
  ASSUME Launcher
  PROVE  /\ UNCHANGED <<cfg, storage, bootProp, event, ro, crashed>>
         /\ \/ UNCHANGED deviceVars
            \/ /\ pc = "stop" /\ stopped' = TRUE /\ level' = Listening /\ scanned' = FALSE
               /\ UNCHANGED <<pending, pushed>>
            \/ /\ phase' \in {"preverify", "system"} /\ pc' = "poll"
               /\ \/ level' = Listening /\ scanned' = FALSE /\ UNCHANGED pending
                  \/ pending' = TRUE /\ UNCHANGED <<level, scanned>>
               /\ UNCHANGED <<stopped, pushed>>
            \/ pc = "push" /\ pushed' \in {TRUE, pushed} /\ UNCHANGED <<level, stopped, pending, scanned>>
<1> USE DEF deviceVars, appVars, othersSame, deviceSame, installSame
<1>1. CASE Install
  BY <1>1, InstallSteps
<1>2. CASE StopFramework
  BY <1>2 DEF StopFramework, AppsDie
<1>3. CASE Poll /\ ~StopFramework
  BY <1>3 DEF Poll, NextPass, TimeIsUp, Look, ConnectOrEnableLogcat, DetectFSErrors,
     ReadEventLog, KillCrashedProcesses, CheckStorage, InstallBootstrap, CheckDpi, KickLauncher, CheckLauncherStarted
<1>4. CASE PreverifyApks \/ RestartForSystemApks
  BY <1>4 DEF PreverifyApks, RestartForSystemApks, RestartAndroid, BeginPoll, AppsDie
<1>5. CASE PushSystemApks
  BY <1>5 DEF PushSystemApks
<1>6. CASE NoSystemApks \/ InstallApk \/ BatchDone \/ Lockdown
  BY <1>6 DEF NoSystemApks, InstallApk, BatchDone, Lockdown
<1> QED
  BY <1>1, <1>2, <1>3, <1>4, <1>5, <1>6 DEF Launcher, Rest

\* The truth values.
Truths == {kicked, storage, bootProp, event, ro, stopped, pending, pushed, scanned, fell}
LEMMA TruthInductive == TypeOK /\ [Next]_vars => Truths' \subseteq BOOLEAN
<1> SUFFICES ASSUME TypeOK, [Next]_vars PROVE Truths' \subseteq BOOLEAN
  OBVIOUS
<1>0. /\ kicked \in BOOLEAN /\ storage \in BOOLEAN /\ bootProp \in BOOLEAN /\ event \in BOOLEAN
      /\ ro \in BOOLEAN /\ stopped \in BOOLEAN /\ pending \in BOOLEAN /\ pushed \in BOOLEAN
      /\ scanned \in BOOLEAN /\ fell \in BOOLEAN
  BY Zenon DEF TypeOK
<1>1. CASE UNCHANGED vars
  <2>1. Truths' = Truths
    BY <1>1 DEF vars, deviceVars, pollVars, Truths
  <2> QED
    BY <2>1, Zenon DEF TypeOK, Truths
<1>2. CASE Launcher
  <2>1. storage' = storage /\ bootProp' = bootProp /\ event' = event /\ ro' = ro
    BY <1>2, LauncherDeviceSteps
  <2>2. stopped' \in {stopped, TRUE} /\ pending' \in {pending, TRUE} /\ pushed' \in {pushed, TRUE}
        /\ scanned' \in {scanned, FALSE}
    BY <1>2, LauncherDeviceSteps DEF deviceVars
  <2>3. kicked' \in {kicked, TRUE} /\ fell' \in {fell, FALSE}
    <3> USE DEF pollVars
    <3>1. CASE Install
      BY <3>1, InstallSteps
    <3>2. CASE Poll
      BY <3>2 DEF Poll, NextPass, TimeIsUp, Look, ConnectOrEnableLogcat, StopFramework, DetectFSErrors,
         ReadEventLog, KillCrashedProcesses, CheckStorage, InstallBootstrap, CheckDpi, KickLauncher,
         CheckLauncherStarted, AttemptStep, Pass
    <3>3. CASE Rest
      BY <3>3 DEF Rest, PreverifyApks, PushSystemApks, NoSystemApks, RestartForSystemApks, InstallApk,
         BatchDone, Lockdown, RestartAndroid, BeginPoll
    <3> QED
      BY <1>2, <3>1, <3>2, <3>3 DEF Launcher
  <2> QED
    BY <1>0, <2>1, <2>2, <2>3 DEF Truths
<1>3. CASE Device
  <2>1. kicked' = kicked
    BY <1>3, DeviceSteps DEF launcherSame, DeviceBoots
  <2>2. /\ storage' \in {storage, TRUE} /\ ro' \in {ro, TRUE} /\ stopped' = stopped
        /\ pending' \in {pending, FALSE} /\ pushed' = pushed
        /\ scanned' \in {scanned, FALSE, pushed} /\ fell' \in {fell, TRUE}
    BY <1>3 DEF Device, DeviceBoots, StorageMounts, FrameworkDies, RemountedReadOnly, AppEvent, InstallEnds,
       deviceVars
  <2>3. bootProp' \in BOOLEAN /\ event' \in BOOLEAN
    <3>1. CASE DeviceBoots
      <4>1. /\ bootProp' = (bootProp \/ level' = BootComplete)
            /\ event' = (event \/ level' = LauncherUp)
        BY <3>1 DEF DeviceBoots
      <4> QED
        BY <4>1
    <3>2. CASE UNCHANGED <<bootProp, event>>
      BY <1>0, <3>2
    <3> QED
      BY <1>3, <3>1, <3>2, DeviceSteps
  <2> QED
    BY <1>0, <2>1, <2>2, <2>3 DEF Truths
<1> QED
  BY <1>1, <1>2, <1>3 DEF Next

\* The launcher's place.
LEMMA ControlTypes ==
  ASSUME TypeOK, PassInv, [Next]_vars
  PROVE  /\ cfg' = cfg /\ phase' \in {"first", "preverify", "system"}
         /\ pc' \in CheckNames \cup Ends
              \cup {"poll", "preverify", "push", "restart", "apks", "lockdown", "gms", "install"}
<1> USE DEF othersSame, deviceSame, TypeOK, Ends
<1>1. CASE UNCHANGED vars
  BY <1>1 DEF vars
<1>2. CASE Device
  BY <1>2, DeviceSteps DEF DeviceBoots, launcherSame
<1>3. CASE Install
  <2>1. "dpi" \in CheckNames
    BY ChecksProperties
  <2> QED
    BY <1>3, <2>1, InstallSteps
<1>4. CASE Poll
  <2>1. cfg' = cfg /\ phase' = phase
    BY <1>4 DEF Poll, NextPass, TimeIsUp, Look, ConnectOrEnableLogcat, StopFramework, DetectFSErrors,
       ReadEventLog, KillCrashedProcesses, CheckStorage, InstallBootstrap, CheckDpi, KickLauncher, CheckLauncherStarted
  <2>2. CASE InstallBootstrap
    BY <2>1, <2>2 DEF InstallBootstrap, StartInstall
  <2> QED
    BY <1>4, <2>1, <2>2, PollLeadsTo
<1>5. CASE Rest
  BY <1>5 DEF Rest, PreverifyApks, PushSystemApks, NoSystemApks, RestartForSystemApks, InstallApk,
     StartInstall, BatchDone, Lockdown, RestartAndroid, BeginPoll
<1> QED
  BY <1>1, <1>2, <1>3, <1>4, <1>5 DEF Next, Launcher

\* What is installed and what is left to.
LEMMA InstallTypes ==
  ASSUME TypeOK, PassInv, InstallInv, [Next]_vars
  PROVE  /\ todo' \subseteq Apks /\ gaveUp' \subseteq Apks /\ cur' \in Apks \cup {"bootstrap", "none"}
         /\ back' \in {"dpi", "apks", "gms"} /\ tries' \in 0 .. MaxTries - 1 /\ spawns' \in 0 .. 1
         /\ installed' \subseteq Contents
         /\ dev' \in {"none", "working", "hung", "done", "failed", "permanent"}
<1> USE DEF TypeOK
<1>1. CASE Install
  BY <1>1, InstallCases DEF InstallInv
<1>2. CASE InstallBootstrap
  BY <1>2 DEF InstallBootstrap, StartInstall, Spawn
<1>3. CASE InstallApk
  <2>1. PICK a \in Batch : StartInstall(a, pc)
    BY <1>3 DEF InstallApk
  <2>2. a \in Apks /\ pc \in {"apks", "gms"} /\ UNCHANGED <<todo, installed>>
    BY <1>3, <2>1 DEF Batch, InstallApk
  <2> QED
    BY <2>1, <2>2 DEF StartInstall, Spawn
<1>4. CASE InstallEnds
  <2>1. /\ UNCHANGED <<todo, gaveUp, cur, back, tries, spawns>> /\ pc = "install"
        /\ dev' \in {"done", "failed", "permanent", "hung"}
        /\ \/ installed' = installed \cup {IF cur = "bootstrap" THEN cur ELSE Hash[cur]}
           \/ installed' = installed
    BY <1>4 DEF InstallEnds, launcherSame, InstallInv
  <2>2. cur \in Apks \cup {"bootstrap"}
    BY <2>1 DEF InstallInv
  <2>3. (IF cur = "bootstrap" THEN cur ELSE Hash[cur]) \in Contents
    BY <2>2 DEF Contents
  <2> QED
    BY <2>1, <2>3
<1>5. CASE ~Install /\ ~InstallBootstrap /\ ~InstallApk /\ ~InstallEnds
  BY <1>5, NotInstalling DEF installState
<1> QED
  BY <1>1, <1>2, <1>3, <1>4, <1>5

\* What a step does to the apps.
LEMMA AppSteps ==
  ASSUME [Next]_vars
  PROVE  UNCHANGED appVars \/ AppsDie \/ ReadEventLog \/ KillCrashedProcesses \/ AppEvent
<1> USE DEF othersSame, deviceSame
<1>1. CASE UNCHANGED vars
  BY <1>1 DEF vars
<1>2. CASE Install
  BY <1>2, InstallSteps
<1>3. CASE Poll
  BY <1>3 DEF Poll, NextPass, TimeIsUp, Look, ConnectOrEnableLogcat, StopFramework, DetectFSErrors,
     CheckStorage, InstallBootstrap, CheckDpi, KickLauncher, CheckLauncherStarted
<1>4. CASE Rest
  BY <1>4 DEF Rest, PreverifyApks, PushSystemApks, NoSystemApks, RestartForSystemApks, RestartAndroid,
     InstallApk, BatchDone, Lockdown
<1>5. CASE Device
  BY <1>5 DEF Device, DeviceBoots, StorageMounts, FrameworkDies, RemountedReadOnly, InstallEnds
<1> QED
  BY <1>1, <1>2, <1>3, <1>4, <1>5 DEF Next, Launcher

\* The device, its apps and what went wrong.
LEMMA DeviceTypes ==
  ASSUME TypeOK, [Next]_vars
  PROVE  /\ level' \in Off .. LauncherUp /\ proc' \in [Pids -> {"live", "hung", "dead"}]
         /\ {crashed, died, targets, missed}' \subseteq SUBSET Pids /\ faults' \in 0 .. MaxFaults
<1>1. level' \in Off .. LauncherUp
  <2> USE DEF TypeOK, Off, Listening, LauncherUp
  <2>1. CASE UNCHANGED vars
    BY <2>1 DEF vars, deviceVars
  <2>2. CASE Launcher
    <3>1. level' \in {level, Listening}
      BY <2>2, LauncherDeviceSteps DEF deviceVars
    <3> QED
      BY <3>1
  <2>3. CASE Device
    BY <2>3 DEF Device, DeviceBoots, StorageMounts, FrameworkDies, RemountedReadOnly, AppEvent, InstallEnds,
                deviceVars
  <2> QED
    BY <2>1, <2>2, <2>3 DEF Next
<1>2. faults' \in 0 .. MaxFaults
  <2>1. UNCHANGED faults \/ Fault
    <3> USE DEF othersSame, deviceSame
    <3>1. CASE UNCHANGED vars \/ Install
      BY <3>1, InstallSteps DEF vars
    <3>2. CASE Poll
      BY <3>2 DEF Poll, NextPass, TimeIsUp, Look, ConnectOrEnableLogcat, StopFramework, DetectFSErrors,
         ReadEventLog, KillCrashedProcesses, CheckStorage, InstallBootstrap, CheckDpi, KickLauncher,
         CheckLauncherStarted
    <3>3. CASE Rest
      BY <3>3 DEF Rest, PreverifyApks, PushSystemApks, NoSystemApks, RestartForSystemApks, InstallApk,
         BatchDone, Lockdown
    <3>4. CASE Device
      BY <3>4 DEF Device, DeviceBoots, StorageMounts, FrameworkDies, RemountedReadOnly, AppEvent, InstallEnds
    <3> QED
      BY <3>1, <3>2, <3>3, <3>4 DEF Next, Launcher
  <2> QED
    BY <2>1 DEF TypeOK, Fault
<1>3. /\ proc' \in [Pids -> {"live", "hung", "dead"}]
      /\ {crashed, died, targets, missed}' \subseteq SUBSET Pids
  <2>0. /\ proc \in [Pids -> {"live", "hung", "dead"}] /\ crashed \subseteq Pids /\ died \subseteq Pids
        /\ targets \subseteq Pids /\ missed \subseteq Pids
    BY DEF TypeOK
  <2>1. CASE UNCHANGED appVars
    BY <2>0, <2>1 DEF appVars
  <2>2. CASE AppsDie
    BY <2>0, <2>2 DEF AppsDie
  <2>3. CASE ReadEventLog
    BY <2>0, <2>3 DEF ReadEventLog, FindProcsToKill
  <2>4. CASE KillCrashedProcesses
    BY <2>0, <2>4 DEF KillCrashedProcesses
  <2>5. CASE AppEvent
    <3>1. PICK p \in Pids :
            /\ proc' \in {[proc EXCEPT ![p] = "hung"], [proc EXCEPT ![p] = "dead"], [proc EXCEPT ![p] = "live"]}
            /\ crashed' \in {crashed, crashed \cup {p}} /\ died' \in {died, died \cup {p}}
            /\ missed' \in {missed, missed \cup ({p} \cap targets)} /\ targets' = targets
      BY <2>5 DEF AppEvent
    <3> QED
      BY <2>0, <3>1
  <2> QED
    BY <2>1, <2>2, <2>3, <2>4, <2>5, AppSteps
<1> QED
  BY <1>1, <1>2, <1>3

\* Every step keeps the types.
LEMMA TypeInductive == TypeOK /\ PassInv /\ AttemptInv /\ InstallInv /\ LoadInv /\ [Next]_vars => TypeOK'
<1> SUFFICES ASSUME TypeOK, PassInv, AttemptInv, InstallInv, LoadInv, [Next]_vars PROVE TypeOK'
  OBVIOUS
<1>1. /\ seen' \subseteq CheckNames /\ total' \in 0 .. MaxAttempts + Len(Checks)
      /\ step' \in 0 .. MaxAttempts + 1
  BY PollInductive DEF PollInv
<1>2. quiet' \in Nat /\ \A i \in 1 .. Len(loads') : loads'[i] \in [time : Nat, idle : Nat]
  <2>1. quiet' \in Nat /\ loads' \in Seq(Sample)
    BY LoadInductive DEF LoadInv, Sampled
  <2>2. \A i \in 1 .. Len(loads') : loads'[i] \in Sample
    BY <2>1, ElementOfSeq
  <2> QED
    BY <2>1, <2>2 DEF Sample
<1>3. {kicked, storage, bootProp, event, ro, stopped, pending, pushed, scanned, fell}' \subseteq BOOLEAN
  BY TruthInductive DEF Truths
<1>4. cfg' \in Configs
  BY ControlTypes DEF TypeOK
<1> QED
  BY <1>1, <1>2, <1>3, <1>4, ControlTypes, InstallTypes, DeviceTypes, Zenon DEF TypeOK

-----------------------------------------------------------------------------
(* What the poll has seen.                                                 *)

\* The framework is told to stop only if that is to be done.
LEMMA StopInductive == TypeOK /\ PassInv /\ StopInv /\ [Next]_vars => StopInv'
<1> SUFFICES ASSUME TypeOK, PassInv, StopInv, [Next]_vars, pc' = "stop" PROVE cfg'.mini
  BY DEF StopInv
<1>1. cfg' = cfg
  BY ControlTypes
<1>2. ASSUME NEW c \in CheckNames \ {"ready"}, Following(c) = "stop" PROVE cfg.mini
  BY <1>2, FollowingProperties DEF PassInv, Needed
<1>3. "adb" \in CheckNames \ {"ready"}
  BY ChecksProperties
<1>4. CASE UNCHANGED vars \/ Device
  <2>1. pc = "stop"
    BY <1>4, DeviceSteps DEF vars, DeviceBoots, launcherSame
  <2> QED
    BY <1>1, <2>1 DEF StopInv
<1>5. CASE Install
  BY <1>5, InstallSteps DEF TypeOK
<1>6. CASE Rest
  BY <1>6 DEF Rest, PreverifyApks, PushSystemApks, NoSystemApks, RestartForSystemApks, InstallApk,
     StartInstall, BatchDone, Lockdown, RestartAndroid, BeginPoll
<1>7. CASE Poll
  <2>1. CASE Look \/ CheckStorage \/ CheckDpi \/ CheckLauncherStarted
    <3>1. Checked
      BY <2>1, StepsThatCheck
    <3> QED
      BY <1>1, <1>2, <3>1 DEF Checked
  <2>2. CASE NextPass
    BY <1>1, <1>2, <1>3, <2>2 DEF NextPass
  <2>3. CASE ConnectOrEnableLogcat
    <3>1. pc \in CheckNames \ {"ready"} /\ Following(pc) = "stop"
      BY <2>3, ChecksProperties DEF ConnectOrEnableLogcat, Pass
    <3> QED
      BY <1>1, <1>2, <3>1
  <2>4. CASE DetectFSErrors \/ ReadEventLog \/ KillCrashedProcesses \/ StopFramework
    <3>1. AfterPoll # "stop"
      BY AfterPollProperties
    <3>2. pc \in CheckNames \ {"ready"} /\ Following(pc) = "stop"
      BY <2>4, <3>1, ChecksProperties DEF DetectFSErrors, ReadEventLog, KillCrashedProcesses, AfterKill,
         StopFramework
    <3> QED
      BY <1>1, <1>2, <3>2
  <2>5. CASE TimeIsUp \/ InstallBootstrap \/ KickLauncher
    BY <2>5 DEF TimeIsUp, InstallBootstrap, StartInstall, KickLauncher
  <2> QED
    BY <1>7, <2>1, <2>2, <2>3, <2>4, <2>5 DEF Poll
<1> QED
  BY <1>4, <1>5, <1>6, <1>7 DEF Next, Launcher

\* A check is seen only when it was answered so by the device of that moment.
LEMMA SeenStep ==
  ASSUME TypeOK, [Next]_vars
  PROVE  \/ seen' \in {{}, seen}
         \/ /\ seen' = seen \cup {pc} /\ UNCHANGED <<cfg, phase, fell, deviceVars>>
            /\ pc = "storage" => storage
            /\ pc = "pm" => level >= PmUp
            /\ pc = "boot" => bootProp
            /\ pc = "launcher" => event \/ level >= LauncherUp
<1> USE DEF pollVars, othersSame, deviceSame, AttemptStep
<1>1. CASE UNCHANGED vars
  BY <1>1 DEF vars
<1>2. CASE Device
  BY <1>2, DeviceSteps DEF DeviceBoots, launcherSame
<1>3. CASE Install
  BY <1>3, InstallSteps
<1>4. CASE Rest
  BY <1>4 DEF Rest, PreverifyApks, PushSystemApks, NoSystemApks, RestartForSystemApks, InstallApk,
     BatchDone, Lockdown, RestartAndroid, BeginPoll
<1>5. CASE Look
  BY <1>5 DEF Look, Answer
<1>6. CASE CheckStorage
  BY <1>6 DEF CheckStorage
<1>7. CASE CheckDpi
  BY <1>7 DEF CheckDpi
<1>8. CASE CheckLauncherStarted
  BY <1>8 DEF CheckLauncherStarted
<1>9. CASE ConnectOrEnableLogcat
  BY <1>9 DEF ConnectOrEnableLogcat, Pass
<1>10. CASE NextPass \/ TimeIsUp \/ StopFramework \/ DetectFSErrors \/ ReadEventLog
            \/ KillCrashedProcesses \/ InstallBootstrap \/ KickLauncher
  BY <1>10 DEF NextPass, TimeIsUp, StopFramework, DetectFSErrors, ReadEventLog, KillCrashedProcesses, InstallBootstrap,
     KickLauncher
<1> QED
  BY <1>1, <1>2, <1>3, <1>4, <1>5, <1>6, <1>7, <1>8, <1>9, <1>10 DEF Next, Launcher, Poll

\* The history of the framework: a poll begins, or it goes down, or nothing happened to it.
LEMMA FellStep ==
  ASSUME TypeOK, [Next]_vars
  PROVE  \/ fell' = fell /\ phase' = phase /\ ~FrameworkDies
         \/ fell' = TRUE /\ FrameworkDies
         \/ phase' \in {"preverify", "system"} /\ seen' = {} /\ pc' = "poll"
<1> USE DEF pollVars, othersSame, deviceSame, AttemptStep
<1>1. CASE UNCHANGED vars
  BY <1>1 DEF vars, FrameworkDies, deviceVars
<1>2. CASE Device
  BY <1>2 DEF Device, DeviceBoots, StorageMounts, FrameworkDies, RemountedReadOnly, AppEvent, InstallEnds,
              launcherSame, deviceVars
<1>3. CASE Launcher
  <2>1. \/ fell' = fell /\ phase' = phase
        \/ phase' \in {"preverify", "system"} /\ seen' = {} /\ pc' = "poll"
    <3>1. CASE Install
      BY <3>1, InstallSteps
    <3>2. CASE Rest
      BY <3>2 DEF Rest, PreverifyApks, PushSystemApks, NoSystemApks, RestartForSystemApks, InstallApk,
         BatchDone, Lockdown, RestartAndroid, BeginPoll
    <3>3. CASE Poll
      BY <3>3 DEF Poll, NextPass, TimeIsUp, Look, ConnectOrEnableLogcat, Pass, StopFramework, DetectFSErrors,
         ReadEventLog, KillCrashedProcesses, CheckStorage, InstallBootstrap, CheckDpi, KickLauncher, CheckLauncherStarted
    <3> QED
      BY <1>3, <3>1, <3>2, <3>3 DEF Launcher
  <2>2. fell' = fell /\ FrameworkDies => fell' = TRUE
    BY DEF FrameworkDies
  <2> QED
    BY <2>1, <2>2
<1> QED
  BY <1>1, <1>2, <1>3 DEF Next

\* Unless the framework went down in this poll, the signs of the device stay as they are,
\* or the device boots on.
LEMMA SignsStep ==
  ASSUME TypeOK, StopInv, [Next]_vars, ~cfg.mini, ~fell'
  PROVE  \/ phase' # "first" /\ seen' = {} /\ pc' = "poll"
         \/ /\ ~fell /\ phase' = phase
            /\ UNCHANGED <<level, bootProp, event>> \/ (DeviceBoots /\ level' = level + 1)
<1> SUFFICES ASSUME ~(phase' # "first" /\ seen' = {} /\ pc' = "poll")
             PROVE  /\ ~fell /\ phase' = phase
                    /\ UNCHANGED <<level, bootProp, event>> \/ (DeviceBoots /\ level' = level + 1)
  OBVIOUS
<1>1. fell' = fell /\ phase' = phase /\ ~FrameworkDies
  BY FellStep
<1>2. CASE UNCHANGED vars
  BY <1>1, <1>2 DEF vars, deviceVars
<1>3. CASE Launcher
  <2>1. UNCHANGED <<bootProp, event>>
    BY <1>3, LauncherDeviceSteps
  <2>2. level' = level
    <3>1. pc # "stop"
      BY DEF StopInv
    <3>2. ~(phase' \in {"preverify", "system"} /\ pc' = "poll" /\ seen' = {})
      OBVIOUS
    <3>3. \/ level' = level
          \/ phase' \in {"preverify", "system"} /\ pc' = "poll"
      BY <1>3, <3>1, LauncherDeviceSteps DEF deviceVars
    <3>4. CASE phase' \in {"preverify", "system"} /\ pc' = "poll"
      <4>1. seen' # {}
        BY <3>2, <3>4
      <4>2. CASE PreverifyApks \/ RestartForSystemApks
        BY <3>4, <4>1, <4>2 DEF PreverifyApks, RestartForSystemApks, RestartAndroid, BeginPoll
      <4>3. CASE ~PreverifyApks /\ ~RestartForSystemApks
        <5> USE DEF othersSame, deviceSame, deviceVars
        <5>1. CASE Install
          BY <5>1, InstallSteps
        <5>2. CASE Rest
          BY <4>3, <5>2 DEF Rest, PushSystemApks, NoSystemApks, InstallApk, BatchDone, Lockdown
        <5>3. CASE Poll
          BY <3>1, <5>3 DEF Poll, NextPass, TimeIsUp, Look, ConnectOrEnableLogcat, StopFramework,
             DetectFSErrors, ReadEventLog, KillCrashedProcesses, CheckStorage, InstallBootstrap, CheckDpi, KickLauncher,
             CheckLauncherStarted
        <5> QED
          BY <1>3, <5>1, <5>2, <5>3 DEF Launcher
      <4> QED
        BY <4>2, <4>3
    <3> QED
      BY <3>3, <3>4
  <2> QED
    BY <1>1, <2>1, <2>2
<1>4. CASE Device
  BY <1>1, <1>4 DEF Device, DeviceBoots, StorageMounts, RemountedReadOnly, AppEvent, InstallEnds, deviceVars
<1> QED
  BY <1>1, <1>2, <1>3, <1>4 DEF Next

\* Storage stays mounted.
LEMMA StorageStays == ASSUME [Next]_vars, storage PROVE storage'
<1>1. CASE Launcher
  BY <1>1, LauncherDeviceSteps
<1>2. CASE Device
  BY <1>2 DEF Device, DeviceBoots, StorageMounts, FrameworkDies, RemountedReadOnly, AppEvent, InstallEnds,
              deviceVars
<1>3. CASE UNCHANGED vars
  BY <1>3 DEF vars, deviceVars
<1> QED
  BY <1>1, <1>2, <1>3 DEF Next

\* What the checks have seen stays so.
LEMMA SeenInductive == TypeOK /\ PassInv /\ StopInv /\ SeenInv /\ [Next]_vars => SeenInv'
<1> SUFFICES ASSUME TypeOK, PassInv, StopInv, SeenInv, [Next]_vars PROVE SeenInv'
  OBVIOUS
<1>1. cfg' = cfg
  BY ControlTypes
<1>2. "storage" \in seen' => storage'
  <2>1. "storage" \in seen' => storage
    BY SeenStep DEF SeenInv
  <2> QED
    BY <2>1, StorageStays
<1>3. ASSUME ~fell', ~cfg.mini
      PROVE  /\ "pm" \in seen' => level' >= PmUp
             /\ phase' = "first" => /\ bootProp' => level' >= BootComplete
                                    /\ event' => level' >= LauncherUp
                                    /\ "boot" \in seen' => bootProp'
                                    /\ "launcher" \in seen' => level' >= LauncherUp
  <2>1. CASE phase' # "first" /\ seen' = {} /\ pc' = "poll"
    BY <2>1
  <2>2. CASE /\ ~fell /\ phase' = phase
             /\ UNCHANGED <<level, bootProp, event>>
    <3>1. "pm" \in seen' => level >= PmUp
      BY <1>3, <2>2, SeenStep DEF SeenInv
    <3>2. ASSUME phase = "first"
          PROVE  /\ "boot" \in seen' => bootProp
                 /\ "launcher" \in seen' => level >= LauncherUp
      BY <1>3, <2>2, <3>2, SeenStep DEF SeenInv
    <3> QED
      BY <1>3, <2>2, <3>1, <3>2 DEF SeenInv
  <2>3. CASE ~fell /\ phase' = phase /\ DeviceBoots /\ level' = level + 1
    <3>1. /\ seen' = seen /\ level' = level + 1 /\ level \in Int
          /\ bootProp' = (bootProp \/ level' = BootComplete)
          /\ event' = (event \/ level' = LauncherUp)
      BY <2>3 DEF DeviceBoots, launcherSame, TypeOK
    <3>2. "pm" \in seen' => level' >= PmUp
      BY <1>3, <2>3, <3>1 DEF SeenInv, PmUp
    <3>3. ASSUME phase' = "first"
          PROVE  /\ bootProp' => level' >= BootComplete
                 /\ event' => level' >= LauncherUp
                 /\ "boot" \in seen' => bootProp'
                 /\ "launcher" \in seen' => level' >= LauncherUp
      <4>1. /\ bootProp => level >= BootComplete
            /\ event => level >= LauncherUp
            /\ "boot" \in seen => bootProp
            /\ "launcher" \in seen => level >= LauncherUp
        BY <1>3, <2>3, <3>3 DEF SeenInv
      <4>2. bootProp' => level' >= BootComplete
        <5>1. bootProp' => bootProp \/ level' = BootComplete
          BY <3>1, Zenon
        <5> QED
          BY <3>1, <4>1, <5>1 DEF BootComplete
      <4>3. event' => level' >= LauncherUp
        <5>1. event' => event \/ level' = LauncherUp
          BY <3>1, Zenon
        <5> QED
          BY <3>1, <4>1, <5>1 DEF LauncherUp
      <4>4. "boot" \in seen' => bootProp'
        BY <3>1, <4>1, Zenon
      <4>5. "launcher" \in seen' => level' >= LauncherUp
        BY <3>1, <4>1 DEF LauncherUp
      <4> QED
        BY <4>2, <4>3, <4>4, <4>5
    <3> QED
      BY <3>2, <3>3
  <2> QED
    BY <1>3, <2>1, <2>2, <2>3, SignsStep
<1> QED
  BY <1>1, <1>2, <1>3 DEF SeenInv

-----------------------------------------------------------------------------
(* After the poll.                                                         *)

\* The poll is left with the device booted, with the framework stopped, or by an error.
LEMMA PollLeft ==
  ASSUME TypeOK, PassInv, StopInv, Poll, After'
  PROVE  pc' = AfterPoll /\ UNCHANGED <<cfg, phase>> /\ (pc = "ready" \/ cfg.mini)
<1> USE DEF After, Installing
<1>1. \A c \in CheckNames \ {"ready"} : Following(c) \in CheckNames
  BY FollowingProperties DEF PassInv
<1>2. \A c \in CheckNames : ~(c \in {"preverify", "push", "restart", "apks", "lockdown", "gms", "running",
                                    "install"})
  BY ChecksProperties
<1>3. "adb" \in CheckNames \ {"ready"}
  BY ChecksProperties
<1>4. CASE Look \/ CheckStorage \/ CheckDpi \/ CheckLauncherStarted
  BY <1>1, <1>2, <1>4, StepsThatCheck DEF Checked
<1>5. CASE NextPass \/ TimeIsUp \/ KickLauncher
  BY <1>1, <1>2, <1>3, <1>5 DEF NextPass, TimeIsUp, KickLauncher
<1>6. CASE ConnectOrEnableLogcat \/ DetectFSErrors
  BY <1>1, <1>2, <1>6, ChecksProperties DEF ConnectOrEnableLogcat, DetectFSErrors, Pass
<1>7. CASE ReadEventLog \/ KillCrashedProcesses
  <2>1. pc = "ready" /\ pc' = AfterPoll
    BY <1>1, <1>2, <1>7, ChecksProperties DEF ReadEventLog, KillCrashedProcesses, AfterKill
  <2> QED
    BY <1>7, <2>1 DEF ReadEventLog, KillCrashedProcesses
<1>8. CASE StopFramework
  BY <1>8 DEF StopFramework, StopInv
<1>9. CASE InstallBootstrap
  BY <1>9 DEF InstallBootstrap, StartInstall
<1> QED
  BY <1>4, <1>5, <1>6, <1>7, <1>8, <1>9 DEF Poll

\* At the end of a pass every check that counts has been seen.
LEMMA ReadyHasSeen ==
  ASSUME TypeOK, PassInv, pc = "ready"
  PROVE  /\ "storage" \in seen /\ "pm" \in seen /\ "boot" \in seen
         /\ ~cfg.direct => "launcher" \in seen
<1>1. At = "ready" /\ Index("ready") = 15 /\ "ready" \in CheckNames
  <2>1. "ready" \in CheckNames /\ At = "ready"
    BY ChecksProperties DEF At
  <2> QED
    BY <2>1, IndexProperties, ChecksProperties
<1>2. \A i \in 1 .. 14 : Checks[i] \notin {"fs", "crashes"} => ~Needed(Checks[i])
  BY <1>1, ChecksProperties DEF PassInv
<1>3. Checks[10] = "pm" /\ Checks[11] = "storage" /\ Checks[12] = "boot" /\ Checks[14] = "launcher"
  BY DEF Checks
<1>4. ~Needed("pm") /\ ~Needed("storage") /\ ~Needed("boot") /\ ~Needed("launcher")
  BY <1>2, <1>3
<1> QED
  BY <1>4 DEF Needed

\* Nothing but a poll leads to what comes after it.
LEMMA AfterStep ==
  ASSUME TypeOK, PassInv, InstallInv, [Next]_vars, After', ~After
  PROVE  Poll
<1> USE DEF After, Installing
<1>1. CASE UNCHANGED vars
  BY <1>1 DEF vars, installVars
<1>2. CASE Device
  BY <1>2, DeviceSteps DEF DeviceBoots, launcherSame
<1>3. CASE Install
  BY <1>3, InstallSteps, ChecksProperties DEF TypeOK
<1>4. CASE Rest
  BY <1>4 DEF Rest, PreverifyApks, PushSystemApks, NoSystemApks, RestartForSystemApks, InstallApk,
     BatchDone, Lockdown
<1> QED
  BY <1>1, <1>2, <1>3, <1>4 DEF Next, Launcher

\* After a poll the device stays up unless its framework goes down.
LEMMA UpInductive ==
  TypeOK /\ PassInv /\ StopInv /\ SeenInv /\ InstallInv /\ UpInv /\ [Next]_vars => UpInv'
<1> DEFINE Least == IF phase # "first" THEN PmUp ELSE IF cfg.direct THEN BootComplete ELSE LauncherUp
<1> SUFFICES ASSUME TypeOK, PassInv, StopInv, SeenInv, InstallInv, UpInv, [Next]_vars,
                    After', ~fell', ~cfg'.mini
             PROVE  storage' /\ level' >= Least'
  BY DEF UpInv
<1>1. cfg' = cfg
  BY ControlTypes
<1>2. ~fell /\ phase' = phase /\ (level' = level \/ level' = level + 1)
  <2>1. pc' # "poll"
    BY DEF After, Installing
  <2> QED
    BY <1>1, <2>1, SignsStep
<1>3. storage /\ level >= Least
  <2>1. CASE After
    BY <1>1, <1>2, <2>1 DEF UpInv
  <2>2. CASE ~After
    <3>1. Poll
      BY <2>2, AfterStep
    <3>2. pc = "ready"
      BY <1>1, <3>1, PollLeft
    <3>3. /\ "storage" \in seen /\ "pm" \in seen /\ "boot" \in seen
          /\ ~cfg.direct => "launcher" \in seen
      BY <3>2, ReadyHasSeen
    <3>4. storage /\ level >= PmUp
      BY <1>1, <1>2, <3>3 DEF SeenInv
    <3>5. phase = "first" => level >= BootComplete /\ (~cfg.direct => level >= LauncherUp)
      BY <1>1, <1>2, <3>3 DEF SeenInv
    <3> QED
      BY <3>4, <3>5
  <2> QED
    BY <2>1, <2>2
<1>4. storage'
  BY <1>3, StorageStays
<1>5. Least' = Least /\ Least \in Int /\ level \in Int
  BY <1>1, <1>2 DEF TypeOK, PmUp, BootComplete, LauncherUp
<1>6. level' >= Least
  <2> HIDE DEF Least
  <2> QED
    BY <1>2, <1>3, <1>5
<1> QED
  BY <1>4, <1>5, <1>6

\* The last poll is the one after the push.
LEMMA PushInductive ==
  TypeOK /\ PassInv /\ SystemInv /\ [Next]_vars => (pc = "restart" \/ phase = "system" => pushed)'
<1> SUFFICES ASSUME TypeOK, PassInv, SystemInv, [Next]_vars, pc' = "restart" \/ phase' = "system" PROVE pushed'
  OBVIOUS
<1> USE DEF SystemInv, deviceVars
<1>1. CASE UNCHANGED vars
  BY <1>1 DEF vars
<1>2. CASE Device
  <2>1. UNCHANGED <<pc, phase, pushed>>
    BY <1>2, DeviceSteps DEF DeviceBoots, launcherSame
  <2> QED
    BY <2>1
<1>3. CASE Install
  BY <1>3, InstallSteps DEF TypeOK
<1>4. CASE Poll
  <2>1. phase' = phase /\ pushed' = pushed
    BY <1>4 DEF Poll, NextPass, TimeIsUp, Look, ConnectOrEnableLogcat, StopFramework, DetectFSErrors,
       ReadEventLog, KillCrashedProcesses, CheckStorage, InstallBootstrap, CheckDpi, KickLauncher, CheckLauncherStarted,
       othersSame, deviceSame
  <2>2. pc' # "restart"
    <3>1. CASE InstallBootstrap
      BY <3>1 DEF InstallBootstrap, StartInstall
    <3> QED
      BY <1>4, <3>1, PollLeadsTo, ChecksProperties
  <2> QED
    BY <2>1, <2>2
<1>5. CASE Rest
  BY <1>5 DEF Rest, PreverifyApks, PushSystemApks, NoSystemApks, RestartForSystemApks, InstallApk,
     StartInstall, BatchDone, Lockdown, RestartAndroid, BeginPoll, othersSame, deviceSame
<1> QED
  BY <1>1, <1>2, <1>3, <1>4, <1>5 DEF Next, Launcher

\* The framework of the last poll, once it is a new one, has found the system apks.
LEMMA ScanInductive ==
  TypeOK /\ PassInv /\ StopInv /\ SystemInv /\ [Next]_vars
    => (phase = "system" /\ ~cfg.mini /\ ~pending /\ level >= ServerUp => scanned)'
<1> SUFFICES ASSUME TypeOK, PassInv, StopInv, SystemInv, [Next]_vars,
                    phase' = "system", ~cfg'.mini, ~pending', level' >= ServerUp
             PROVE  scanned'
  OBVIOUS
<1> USE DEF deviceVars
<1>1. cfg' = cfg /\ level \in Int /\ ~(Listening >= ServerUp)
  BY ControlTypes DEF TypeOK, Off, LauncherUp, Listening, ServerUp
<1>2. CASE UNCHANGED vars
  BY <1>2 DEF vars, SystemInv
<1>3. CASE RestartForSystemApks
  BY <1>1, <1>3 DEF RestartForSystemApks, RestartAndroid
<1>4. CASE Launcher /\ ~RestartForSystemApks
  <2>1. phase = "system"
    <3> USE DEF othersSame, deviceSame
    <3>1. CASE Install
      BY <3>1, InstallSteps
    <3>2. CASE Rest
      BY <1>4, <3>2 DEF Rest, PreverifyApks, PushSystemApks, NoSystemApks, InstallApk,
         BatchDone, Lockdown, RestartAndroid, BeginPoll
    <3>3. CASE Poll
      BY <3>3 DEF Poll, NextPass, TimeIsUp, Look, ConnectOrEnableLogcat, StopFramework, DetectFSErrors,
         ReadEventLog, KillCrashedProcesses, CheckStorage, InstallBootstrap, CheckDpi, KickLauncher, CheckLauncherStarted
    <3> QED
      BY <1>4, <3>1, <3>2, <3>3 DEF Launcher
  <2>2. level' = level /\ pending' = pending /\ scanned' = scanned
    <3>1. pc # "stop"
      BY <1>1 DEF StopInv
    <3>2. level' # Listening
      BY <1>1
    <3> QED
      BY <1>4, <3>1, <3>2, LauncherDeviceSteps
  <2> QED
    BY <1>1, <2>1, <2>2 DEF SystemInv
<1>5. CASE Device
  <2>1. phase = "system" /\ pushed
    BY <1>5, DeviceSteps DEF DeviceBoots, launcherSame, SystemInv
  <2>2. CASE DeviceBoots
    <3>1. CASE level' = ServerUp
      BY <2>1, <2>2, <3>1 DEF DeviceBoots
    <3>2. CASE level' # ServerUp
      <4>1. level' = level + 1 /\ scanned' = scanned /\ pending' = pending
        BY <2>2, <3>2 DEF DeviceBoots
      <4>2. level >= ServerUp
        BY <1>1, <3>2, <4>1 DEF ServerUp
      <4> QED
        BY <1>1, <2>1, <4>1, <4>2 DEF SystemInv
    <3> QED
      BY <3>1, <3>2
  <2>3. CASE FrameworkDies
    BY <1>1, <2>3 DEF FrameworkDies
  <2>4. CASE ~DeviceBoots /\ ~FrameworkDies
    <3>1. level' = level /\ pending' = pending /\ scanned' = scanned
      BY <1>5, <2>4 DEF Device, StorageMounts, RemountedReadOnly, AppEvent, InstallEnds
    <3> QED
      BY <1>1, <2>1, <3>1 DEF SystemInv
  <2> QED
    BY <2>2, <2>3, <2>4
<1> QED
  BY <1>2, <1>3, <1>4, <1>5 DEF Next

\* With system apks, the apks are installed after the last poll only.
LEMMA LastPhaseInductive ==
  TypeOK /\ PassInv /\ StopInv /\ InstallInv /\ SystemInv /\ [Next]_vars
    => (Installing /\ cfg.systemApks /\ cfg.action = "start" /\ ~cfg.mini => phase = "system")'
<1> SUFFICES ASSUME TypeOK, PassInv, StopInv, InstallInv, SystemInv, [Next]_vars,
                    Installing', cfg'.systemApks, cfg'.action = "start", ~cfg'.mini
             PROVE  phase' = "system"
  OBVIOUS
<1> USE DEF Installing
<1>1. cfg' = cfg
  BY ControlTypes
<1>2. CASE UNCHANGED vars
  BY <1>2 DEF vars, installVars, SystemInv
<1>3. CASE Device
  BY <1>1, <1>3, DeviceSteps DEF DeviceBoots, launcherSame, SystemInv
<1>4. CASE Install
  <2>1. pc = "install" /\ pc' \in {"install", back, "plain"} /\ UNCHANGED <<phase, back>>
    BY <1>4, InstallSteps
  <2>2. back # "dpi"
    BY <2>1, ChecksProperties
  <2> QED
    BY <1>1, <2>1, <2>2 DEF SystemInv
<1>5. CASE Poll
  <2>1. pc' = AfterPoll /\ phase' = phase
    BY <1>1, <1>5, PollLeft DEF After
  <2>2. phase # "first" /\ phase # "preverify"
    BY <1>1, <2>1, AfterPollProperties
  <2> QED
    BY <2>1, <2>2 DEF TypeOK
<1>6. CASE Rest
  <2>1. CASE InstallApk \/ BatchDone \/ Lockdown
    <3>1. Installing /\ phase' = phase
      BY <2>1 DEF InstallApk, BatchDone, Lockdown
    <3> QED
      BY <1>1, <3>1 DEF SystemInv
  <2>2. CASE PreverifyApks \/ PushSystemApks \/ NoSystemApks \/ RestartForSystemApks
    BY <1>1, <2>2 DEF PreverifyApks, PushSystemApks, NoSystemApks, RestartForSystemApks, RestartAndroid, BeginPoll
  <2> QED
    BY <1>6, <2>1, <2>2 DEF Rest
<1> QED
  BY <1>2, <1>3, <1>4, <1>5, <1>6 DEF Next, Launcher

\* Every step keeps the way from the push to the framework that serves what was pushed.
LEMMA SystemInductive ==
  TypeOK /\ PassInv /\ StopInv /\ InstallInv /\ SystemInv /\ [Next]_vars => SystemInv'
<1> SUFFICES ASSUME TypeOK /\ PassInv /\ StopInv /\ InstallInv /\ SystemInv /\ [Next]_vars PROVE SystemInv'
  OBVIOUS
<1>1. (pc = "restart" \/ phase = "system" => pushed)'
  BY PushInductive
<1>2. (phase = "system" /\ ~cfg.mini /\ ~pending /\ level >= ServerUp => scanned)'
  BY ScanInductive
<1>3. (Installing /\ cfg.systemApks /\ cfg.action = "start" /\ ~cfg.mini => phase = "system")'
  BY LastPhaseInductive
<1> QED
  BY <1>1, <1>2, <1>3 DEF SystemInv

-----------------------------------------------------------------------------
(* The apps.                                                               *)

\* The apps that are to be killed hang, or died unseen.
LEMMA HungInductive == TypeOK /\ HungInv /\ [Next]_vars => HungInv'
<1> SUFFICES ASSUME TypeOK, HungInv, [Next]_vars, NEW q \in (crashed' \ died') \cup targets'
             PROVE  proc'[q] = "hung" \/ q \in missed'
  BY DEF HungInv
<1>1. /\ proc \in [Pids -> {"live", "hung", "dead"}] /\ crashed \subseteq Pids /\ targets \subseteq Pids
  BY DEF TypeOK
<1>2. CASE UNCHANGED appVars
  BY <1>2 DEF appVars, HungInv
<1>3. CASE AppsDie
  BY <1>1, <1>3 DEF AppsDie, HungInv
<1>4. CASE ReadEventLog
  BY <1>4 DEF ReadEventLog, FindProcsToKill, HungInv
<1>5. CASE KillCrashedProcesses
  \* A target that does not hang died unseen; another one is now logged as dead.
  <2>1. /\ q \in crashed \ died /\ missed' = missed
        /\ ~(q \in targets /\ proc[q] = "hung")
    BY <1>5 DEF KillCrashedProcesses
  <2>2. CASE q \in targets
    BY <2>1, <2>2 DEF HungInv
  <2>3. CASE q \notin targets
    BY <1>1, <1>5, <2>1, <2>3 DEF KillCrashedProcesses, HungInv
  <2> QED
    BY <2>2, <2>3
<1>6. CASE AppEvent
  <2>1. PICK p \in Pids :
          \/ /\ proc' = [proc EXCEPT ![p] = "hung"] /\ crashed' = crashed \cup {p}
             /\ UNCHANGED <<died, missed>>
          \/ /\ proc' = [proc EXCEPT ![p] = "dead"] /\ died' = died \cup {p} /\ crashed' = crashed
             /\ missed' = missed \cup ({p} \cap targets)
          \/ /\ proc[p] = "dead" /\ proc' = [proc EXCEPT ![p] = "live"]
             /\ UNCHANGED <<crashed, died, missed>>
    BY <1>6 DEF AppEvent
  <2>2. targets' = targets
    BY <1>6 DEF AppEvent
  <2>3. CASE q = p
    BY <1>1, <2>1, <2>2, <2>3 DEF HungInv
  <2>4. CASE q # p
    BY <1>1, <2>1, <2>2, <2>4 DEF HungInv
  <2> QED
    BY <2>3, <2>4
<1> QED
  BY <1>2, <1>3, <1>4, <1>5, <1>6, AppSteps

-----------------------------------------------------------------------------
(* The invariant and what follows.                                         *)

\* The launcher starts with no poll and no install behind it.
LEMMA InitInvariant == Init => IInv
<1> SUFFICES ASSUME Init PROVE IInv
  OBVIOUS
<1> USE DEF Init
<1>1. TypeOK
  <2>1. cfg \in Configs /\ phase \in {"first", "preverify", "system"} /\ seen \subseteq CheckNames
        /\ pc \in CheckNames \cup Ends
            \cup {"poll", "preverify", "push", "restart", "apks", "lockdown", "gms", "install"}
    OBVIOUS
  <2>2. total \in 0 .. MaxAttempts + Len(Checks) /\ step \in 0 .. MaxAttempts + 1 /\ faults \in 0 .. MaxFaults
    BY ChecksProperties
  <2>3. todo \subseteq Apks /\ gaveUp \subseteq Apks
    BY RemoveBootTimeApksProperties
  <2>4. /\ cur \in Apks \cup {"bootstrap", "none"} /\ back \in {"dpi", "apks", "gms"}
        /\ tries \in 0 .. MaxTries - 1 /\ spawns \in 0 .. 1 /\ quiet \in Nat
        /\ level \in Off .. LauncherUp
    BY DEF Off, LauncherUp
  <2>5. \A i \in 1 .. Len(loads) : loads[i] \in [time : Nat, idle : Nat]
    <3>1. 1 .. Len(loads) = {}
      BY EmptySeq
    <3> QED
      BY <3>1
  <2>6. {kicked, storage, bootProp, event, ro, stopped, pending, pushed, scanned, fell} \subseteq BOOLEAN
    OBVIOUS
  <2>7. installed \subseteq Contents
    BY DEF Hashes, Contents
  <2>8. /\ dev \in {"none", "working", "hung", "done", "failed", "permanent"}
        /\ proc \in [Pids -> {"live", "hung", "dead"}]
        /\ {crashed, died, targets, missed} \subseteq SUBSET Pids
    OBVIOUS
  <2> QED
    BY <2>1, <2>2, <2>3, <2>4, <2>5, <2>6, <2>7, <2>8, Zenon DEF TypeOK
<1>2. PassInv /\ AttemptInv /\ StopInv
  BY ChecksProperties DEF PassInv, AttemptInv, StopInv, At
<1>3. SeenInv /\ UpInv /\ SystemInv
  BY DEF SeenInv, UpInv, SystemInv, After, Installing
<1>4. InstallInv /\ HungInv
  BY DEF InstallInv, HungInv
<1>5. TodoInv
  <2>1. ASSUME cfg.action = "boot" PROVE todo = BootApks
    BY <2>1
  <2>2. ASSUME cfg.action # "boot", NEW a \in Apks
        PROVE  Hash[a] \in installed \/ \E b \in todo : Hash[b] = Hash[a]
    <3>1. installed = Hashes(BootApks) /\ todo = RemoveBootTimeApks(BootApks, Apks \ BootApks)
      BY <2>2
    <3>2. CASE a \in BootApks
      BY <3>1, <3>2 DEF Hashes
    <3>3. CASE a \in Apks \ BootApks
      BY <3>1, <3>3, RemoveBootTimeApksProperties
    <3> QED
      BY <3>2, <3>3
  <2> QED
    BY <2>1, <2>2 DEF TodoInv
<1>6. LoadInv
  <2>1. loads \in Seq(Sample) /\ Len(loads) = 0
    BY EmptySeq
  <2> QED
    BY <2>1 DEF LoadInv, Sampled
<1> QED
  BY <1>1, <1>2, <1>3, <1>4, <1>5, <1>6 DEF IInv

\* Every step keeps the invariant.
LEMMA StepInvariant == IInv /\ [Next]_vars => IInv'
<1> SUFFICES ASSUME IInv, [Next]_vars PROVE IInv'
  OBVIOUS
<1> USE DEF IInv
<1>1. PassInv' /\ AttemptInv'
  BY PollInductive DEF PollInv
<1> QED
  BY <1>1, TypeInductive, StopInductive, SeenInductive, UpInductive, SystemInductive, InstallInductive,
     TodoInductive, LoadInductive, HungInductive

\* The invariant holds in every reachable state.
LEMMA AlwaysInvariant == Spec => []IInv
BY InitInvariant, StepInvariant, PTL DEF Spec

\* The values of the variables are what they are taken for: above all the attempts of a
\* poll stay within its bound and one pass of checks, and the tries within MaxTries.
THEOREM TypeCorrect == Spec => []TypeOK
<1>1. IInv => TypeOK
  BY DEF IInv
<1> QED
  BY <1>1, AlwaysInvariant, PTL

\* When a poll returns and the framework has not gone down meanwhile, the device is up
\* although each sign of it was read at another time.
THEOREM PolledDeviceIsUp == Spec => []ReadyMeansUp
<1>1. IInv => ReadyMeansUp
  <2>1. Polled => After
    BY DEF Polled, After, Installing
  <2> QED
    BY <2>1 DEF IInv, UpInv, ReadyMeansUp
<1> QED
  BY <1>1, AlwaysInvariant, PTL

\* A framework that is up when the apks are installed has found the system apks.
THEOREM SystemApksFound == Spec => []SystemApksServed
<1>1. IInv => SystemApksServed
  <2>1. pc \in {"apks", "lockdown", "gms", "running"} => Installing
    BY DEF Installing
  <2> QED
    BY <2>1 DEF IInv, SystemInv, SystemApksServed
<1> QED
  BY <1>1, AlwaysInvariant, PTL

\* No apk is forgotten between the batches, whichever were installed at boot, have the
\* content of another or failed.
THEOREM NoApkForgotten == Spec => []EveryApkInstalled
<1>1. IInv => EveryApkInstalled
  BY DEF IInv, TodoInv, EveryApkInstalled
<1> QED
  BY <1>1, AlwaysInvariant, PTL

\* Between the command that reads the event log and the one that kills, and through every
\* restart of the framework, a process that is killed but does not hang has the pid of an
\* app that died when nobody told the launcher.
THEOREM OnlyHungAppsKilled == Spec => KillsOnlyHungApps
<1>1. ASSUME IInv, KillCrashedProcesses, NEW p \in Pids, proc'[p] # proc[p]
      PROVE  proc[p] = "hung" \/ p \in missed
  <2>1. p \in targets
    BY <1>1 DEF KillCrashedProcesses, IInv, TypeOK
  <2> QED
    BY <1>1, <2>1 DEF IInv, HungInv
<1>2. IInv /\ [Next]_vars
        => [KillCrashedProcesses =>
              \A p \in Pids : proc'[p] # proc[p] => proc[p] = "hung" \/ p \in missed]_vars
  BY <1>1
<1> QED
  BY <1>2, AlwaysInvariant, PTL DEF Spec, KillsOnlyHungApps

\* The window of samples that shows no load spans IdleTime, and all through it a core or
\* more was idle, however many there are.
THEOREM IdleBeforeKill == Spec => HungMeansIdle
<1>1. ASSUME IInv, KillHungInstall PROVE quiet >= IdleTime
  <2>1. pc = "install" /\ RecentMaxLoad(loads) = 0
    BY <1>1 DEF KillHungInstall
  <2>2. Sampled(loads) /\ quiet \in Nat
    BY <1>1 DEF IInv, LoadInv, TypeOK
  <2>3. PICK m \in 1 .. Len(loads) : QuietSince(loads, quiet, m)
    BY <1>1, <2>1 DEF IInv, LoadInv
  <2> QED
    BY <2>1, <2>2, <2>3, IdleWindow
<1>2. IInv /\ [Next]_vars => [KillHungInstall => quiet >= IdleTime]_vars
  BY <1>1
<1> QED
  BY <1>2, AlwaysInvariant, PTL DEF Spec, HungMeansIdle

=============================================================================
