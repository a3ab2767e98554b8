---------------------------- MODULE MCEmulatorBoot ----------------------------
EXTENDS EmulatorBoot

\* The same content under two names, one of them installed at boot; an apk that is
\* new; one of gmscore.
MCHash == [old |-> "o", same |-> "o", app |-> "a", gmscore |-> "g"]
MCApks == DOMAIN MCHash

Plain == [action |-> "start", api |-> 18, mini |-> FALSE, direct |-> FALSE,
          realAdb |-> FALSE, waterfall |-> FALSE, snapshot |-> FALSE, rightDpi |-> TRUE,
          preverify |-> FALSE, systemApks |-> FALSE, lockdown |-> FALSE, ignore |-> FALSE,
          cores |-> 1]

MCConfigs ==
  {[Plain EXCEPT !.action = "boot", !.api = 10, !.rightDpi = FALSE],
   [Plain EXCEPT !.action = "boot", !.api = 23, !.mini = TRUE],
   [Plain EXCEPT !.api = 23, !.mini = TRUE],
   [Plain EXCEPT !.systemApks = TRUE, !.ignore = TRUE],
   [Plain EXCEPT !.api = 19, !.preverify = TRUE, !.systemApks = TRUE, !.direct = TRUE],
   [Plain EXCEPT !.api = 23, !.rightDpi = FALSE, !.waterfall = TRUE, !.cores = 2],
   [Plain EXCEPT !.api = 23, !.realAdb = TRUE, !.snapshot = TRUE, !.lockdown = TRUE],
   [Plain EXCEPT !.api = 23, !.snapshot = TRUE, !.lockdown = TRUE, !.ignore = TRUE]}

MCTwoCores == {[Plain EXCEPT !.api = 23, !.cores = 2]}

MCPlain == {Plain}
=============================================================================
