----------------------- MODULE MCAsyncTaskPoolMonitor -----------------------
(* Instances of AsyncTaskPoolMonitor for TLC.                              *)
EXTENDS AsyncTaskPoolMonitor, TLC

CONSTANTS w1, w2, w3, t1, t2, t3

TwoWorkers   == {w1, w2}
ThreeWorkers == {w1, w2, w3}
OneTask      == {t1}
TwoTasks     == {t1, t2}
ThreeTasks   == {t1, t2, t3}

Symmetry1 == Permutations(TwoWorkers)
Symmetry2 == Permutations(TwoWorkers) \cup Permutations(TwoTasks)
=============================================================================
