------------------------- MODULE MCEmulatorLauncher -------------------------
(* Command lines of the launcher for TLC. *)
EXTENDS EmulatorLauncher

Cmd(a, s, w, i, v) ==
  [action |-> a, sharedTmp |-> s, waterfall |-> w, ignoreFailures |-> i, xvfb |-> v]

\* Attempts with files of their own.
MCPrivate == {Cmd("start", FALSE, TRUE, FALSE, TRUE), Cmd("start", FALSE, TRUE, TRUE, FALSE),
              Cmd("boot", FALSE, FALSE, FALSE, FALSE)}

\* And --emulator_tmp_dir: all attempts in one directory.
MCFlags == MCPrivate \cup {Cmd("start", TRUE, TRUE, FALSE, FALSE)}
=============================================================================
