----------------------- MODULE AsyncTaskPoolPollProofs -----------------------
(***************************************************************************)
(* isIdleNow of AsyncTaskPoolMonitor: what its four reads, none of them    *)
(* atomic with another, say of the tasks that run; in every pool.          *)
(***************************************************************************)
EXTENDS AsyncTaskPoolCallbackProofs

USE DEF None, monitorVars, barrierVars, historyVars, poolVars

-----------------------------------------------------------------------------
(* The inductive invariant, on top of CallInv.                             *)

\* The barrier tasks that activeBarrierChecks counts, and those it may yet count without
\* a new one being locked.
Counted == {w \in Workers : pc[w] \in CountedStates}
Coming  == {w \in Workers : \/ pc[w] \in CountedStates \cup {"count"}
                            \/ pc[w] = "check" /\ job[w] \notin poisoned}

\* No task of m can get past its check any more, or be in the pool unchecked.
Gone(m) == \/ m \in poisoned
           \/ fired[m] > 0
           \/ \E w \in Acts(m) : pc[w] = "m.fire"

\* The main thread still has m in place, or is about to report or poison it.
Pending(m) == \/ monitor = m
              \/ current = m /\ pc[Main] \in {"m.fire", "poison"}

GoneInv    == \A m \in Monitors : m <= current => Gone(m) \/ Pending(m)
ChecksInv  == checks = Cardinality(Counted)
WatchedInv == /\ watched \subseteq Running
              /\ pc[Main] \notin IdleStates => watched = {}

\* The count that isIdleNow has read covers the watched task and all those barrier tasks.
ActiveInv ==
  pc[Main] \in {"idle.monitor", "idle.checks"} /\ watched # {}
    => active[Main] >= Cardinality(Coming) + 1

SeenInv == GoneInv /\ ChecksInv /\ WatchedInv /\ ActiveInv

-----------------------------------------------------------------------------
(* What a step does to the workers.                                        *)

\* Workers that hold no running task and no barrier task that has begun.
Outside == {"none", "parked", "claimed", "done"}

\* Workers move among these places, or within what is counted.
Steady ==
  \A x \in Workers :
    \/ pc'[x] = pc[x] /\ job'[x] = job[x]
    \/ pc[x] \in Outside /\ pc'[x] \in Outside
    \/ /\ pc[x] \in CountedStates /\ pc'[x] \in CountedStates /\ job'[x] = job[x]
       /\ pc[x] # "m.fire" \/ OnIdle(x)

\* Worker w alone moves, and keeps its task.
Moves(w, from, to) ==
  /\ pc[w] = from /\ pc'[w] = to /\ UNCHANGED job
  /\ \A x \in Threads \ {w} : pc'[x] = pc[x]

\* A submitted task starts an idle worker, or none.
LEMMA ExecuteSteady ==
  ASSUME BaseInv, NEW j, Execute(j, pc)
  PROVE  Steady
  <1>1. \A x \in Workers : \/ pc'[x] = pc[x] /\ job'[x] = job[x]
                           \/ pc[x] = "none" /\ pc'[x] = "claimed"
    <2>1. CASE pc' = pc /\ job' = job
      BY <2>1
    <2>2. CASE \E w \in Workers : /\ pc[w] = "none" /\ pc' = [pc EXCEPT ![w] = "claimed"]
                                  /\ job' = [job EXCEPT ![w] = j]
      BY <2>2, WorkersAreThreads DEF BaseInv, TypeOK, DataOK
    <2>. QED  BY <2>1, <2>2 DEF Execute
  <1>. QED  BY <1>1 DEF Steady, Outside

\* The pool's own loop.
LEMMA PoolSteady ==
  ASSUME BaseInv, NEW w \in Workers, Take(w) \/ Unlock(w) \/ KeepAliveEnds(w)
  PROVE  Steady
  <1>1. /\ pc[w] \in Outside /\ pc'[w] \in Outside
        /\ \A x \in Workers \ {w} : pc'[x] = pc[x] /\ job'[x] = job[x]
    BY WorkersAreThreads
       DEF BaseInv, TypeOK, DataOK, Take, Unlock, KeepAliveEnds, Goto, Outside
  <1>. QED  BY <1>1 DEF Steady

\* A barrier task between its two counts, and an interrupt.
LEMMA BarrierTaskSteady ==
  ASSUME BaseInv, NEW w \in Workers,
         \/ ReadGeneration(w) \/ Await(w) \/ BarrierTripped(w) \/ Restart(w)
         \/ RestartReset(w) \/ Interrupt(w)
  PROVE  Steady
  <1>1. pc \in [Threads -> States] /\ w \in Threads
    BY WorkersAreThreads DEF BaseInv, TypeOK
  <1>2. CASE Interrupt(w)
    <2>1. /\ UNCHANGED job
          /\ \A x \in Workers : pc'[x] = pc[x] \/ (pc[x] = "waiting" /\ pc'[x] = "caught")
      BY <1>1, <1>2, InterruptMoves
    <2>. QED  BY <2>1 DEF Steady, CountedStates
  <1>3. CASE ~Interrupt(w)
    <2>1. BarrierTask(w)
      BY <1>3 DEF BarrierTask
    <2>2. /\ UNCHANGED job
          /\ \A x \in Workers \ {w} :
               pc'[x] = pc[x] \/ (pc[x] = "waiting" /\ pc'[x] = "caught")
      BY <1>1, <2>1, BarrierTaskMoves
    <2>3. pc[w] \in {"generation", "await", "tripped", "caught", "restart"}
      BY <1>3 DEF ReadGeneration, Await, BarrierTripped, Restart, RestartReset, Goto
    <2>4. pc'[w] \in CountedStates
      <3>1. \/ \E from \in States, to \in {"await", "caught", "waiting", "tripped", "m.clear",
                                          "m.poisoned", "restart", "decrement"} :
                 Goto(w, from, to)
            \/ Wake(job[w], w, "caught", "caught")
            \/ Wake(job[w], w, "decrement", "caught")
        BY <1>1, <1>3
           DEF ReadGeneration, Await, BarrierTripped, Restart, RestartReset, ResetBarrier, Goto
      <3>2. pc'[w] \in {"await", "caught", "waiting", "tripped", "m.clear",
                        "m.poisoned", "restart", "decrement"}
        BY <1>1, <3>1 DEF Goto, Wake
      <3>. QED  BY <3>2 DEF CountedStates, ActionStates, ForIdleStates
    <2>5. "waiting" \in CountedStates /\ "caught" \in CountedStates
      BY DEF CountedStates
    <2>6. pc[w] \in CountedStates /\ pc[w] # "m.fire"
      BY <2>3 DEF CountedStates, ActionStates
    <2>. QED  BY <2>2, <2>4, <2>5, <2>6 DEF Steady
  <1>. QED  BY <1>2, <1>3

\* monitorForIdle, by whichever thread.
LEMMA ForIdleSteady ==
  ASSUME BaseInv, PlaceInv, PlaceInv', NEW t \in Threads, ForIdle(t)
  PROVE  Steady
  <1>1. pc \in [Threads -> States]
    BY DEF BaseInv, TypeOK
  <1>2. CASE ExecuteBarrierTask(t) /\ left[t] # 0
    BY <1>2, ExecuteSteady DEF ExecuteBarrierTask
  <1>3. CASE ~(ExecuteBarrierTask(t) /\ left[t] # 0)
    <2>1. /\ UNCHANGED job
          /\ pc[t] \in IdleStates \cup ForIdleStates
          /\ \/ /\ pc'[t] \in IdleStates \cup ForIdleStates \cup {"free", "notify"}
                /\ \A x \in Workers \ {t} : pc'[x] = pc[x]
             \/ Return(t)
      BY <1>1, <1>3, ForIdleMoves
    <2>2. /\ \A x \in Workers \ {t} :
               pc'[x] = pc[x] \/ (pc[x] = "waiting" /\ pc'[x] = "released")
          /\ t \in Workers => pc'[t] \in IdleStates \cup ForIdleStates
                                           \cup {"free", "notify", "released"}
      BY <1>1, <2>1, ReturnStep, WorkersAreThreads
    <2>3. "waiting" \in CountedStates /\ "released" \in CountedStates
          /\ ForIdleStates \subseteq CountedStates
      BY DEF CountedStates, ActionStates
    <2>4. \A x \in Workers : /\ pc[x] \in WorkerStates /\ pc'[x] \in WorkerStates
      BY DEF PlaceInv
    <2>5. (IdleStates \cup {"free", "notify"}) \cap WorkerStates = {}
      BY DEF IdleStates, WorkerStates, BusyStates, BarrierStates, CountedStates,
             ActionStates, ForIdleStates
    <2>6. t \in Workers => pc[t] \in CountedStates /\ pc'[t] \in CountedStates
      BY <2>1, <2>2, <2>3, <2>4, <2>5
    <2>7. ASSUME pc[t] = "m.fire" PROVE OnIdle(t)
      <3>1. ~IsIdleNow(t)
        BY <2>7, IsIdleNowMoves DEF IdleStates
      <3>. QED  BY <2>7, <3>1
                DEF ForIdle, MonitorForIdle, ClearMonitor, ExecuteBarrierTask, Goto
    <2>. QED  BY <2>1, <2>2, <2>3, <2>6, <2>7 DEF Steady
  <1>. QED  BY <1>2, <1>3

\* The main thread moves no worker, or those that a reset barrier wakes.
LEMMA MainSteady ==
  ASSUME BaseInv, PlaceInv, PlaceInv', MainStep
  PROVE  Steady
  <1>1. CASE ForIdle(Main)
    BY <1>1, ForIdleSteady, WorkersAreThreads
  <1>2. CASE MainOwn
    <2>1. /\ UNCHANGED job
          /\ \A x \in Workers : pc'[x] = pc[x] \/ (pc[x] = "waiting" /\ pc'[x] = "caught")
      BY <1>2, MainMoves DEF BaseInv, TypeOK
    <2>. QED  BY <2>1 DEF Steady, CountedStates
  <1>. QED  BY <1>1, <1>2 DEF MainStep, MainOwn

\* The five steps of a worker that are not steady.
Begins(w) == \/ Lock(w) \/ FinishTask(w) \/ CheckPoisoned(w) \/ CountCheck(w)
             \/ UncountCheck(w)

\* Every step is steady, and then counts no check, or one of the five.
LEMMA StepKinds ==
  ASSUME CallInv, CallInv', Next
  PROVE  \/ Steady /\ checks' = checks
         \/ \E w \in Workers : Begins(w)
  <1>0. BaseInv /\ PlaceInv /\ PlaceInv'
    BY DEF CallInv
  <1>1. CASE MainStep
    <2>1. checks' = checks
      BY <1>1 DEF MainStep, CallIsIdleNow, NotifyWhenIdle, NoMoreMonitors, StopWaiting,
                  CancelIdleMonitor, Poison, PoisonReset, ResetBarrier, ForIdle, IsIdleNow,
                  MonitorForIdle, ClearMonitor, OnIdle, ExecuteBarrierTask
    <2>. QED  BY <1>0, <1>1, <2>1, MainSteady
  <1>2. ASSUME NEW t \in Tasks, Submit(t) PROVE Steady /\ checks' = checks
    BY <1>0, <1>2, ExecuteSteady DEF Submit
  <1>3. ASSUME NEW w \in Workers, WorkerStep(w) \/ KeepAliveEnds(w) \/ Interrupt(w), ~Begins(w)
        PROVE  Steady /\ checks' = checks
    <2>1. CASE Take(w) \/ Unlock(w) \/ KeepAliveEnds(w)
      BY <1>0, <2>1, PoolSteady DEF Take, Unlock, KeepAliveEnds
    <2>2. CASE \/ ReadGeneration(w) \/ Await(w) \/ BarrierTripped(w) \/ Restart(w)
               \/ RestartReset(w) \/ Interrupt(w)
      BY <1>0, <2>2, BarrierTaskSteady
         DEF ReadGeneration, Await, BarrierTripped, Restart, RestartReset, ResetBarrier, Interrupt
    <2>3. CASE ForIdle(w)
      <3>1. checks' = checks
        BY <2>3 DEF ForIdle, IsIdleNow, MonitorForIdle, ClearMonitor, OnIdle, ExecuteBarrierTask
      <3>. QED  BY <1>0, <2>3, <3>1, ForIdleSteady, WorkersAreThreads
    <2>. QED  BY <1>3, <2>1, <2>2, <2>3 DEF WorkerStep, PoolWorker, BarrierTask, Begins
  <1>. QED  BY <1>1, <1>2, <1>3 DEF Next, Environment

\* What the five do.
LEMMA BeginsMoves ==
  ASSUME BaseInv, NEW w \in Workers, Begins(w)
  PROVE  /\ UNCHANGED <<job, poisoned, fired, monitor, current>>
         /\ \A x \in Workers \ {w} : pc'[x] = pc[x]
         /\ \/ /\ Lock(w) /\ pc[w] = "claimed" /\ checks' = checks
               /\ pc'[w] = IF job[w] \in Tasks THEN "run" ELSE "check"
            \/ FinishTask(w) /\ pc[w] = "run" /\ pc'[w] = "done" /\ checks' = checks
            \/ /\ pc[w] = "check" /\ checks' = checks
               /\ pc'[w] = IF job[w] \in poisoned THEN "done" ELSE "count"
            \/ pc[w] = "count" /\ pc'[w] = "generation" /\ checks' = checks + 1
            \/ pc[w] = "decrement" /\ pc'[w] = "check" /\ checks' = checks - 1
            \/ pc[w] = "released" /\ pc'[w] = "done" /\ checks' = checks - 1
  <1>1. /\ UNCHANGED <<job, poisoned, fired, monitor, current>>
    BY DEF Begins, Lock, FinishTask, CheckPoisoned, CountCheck, UncountCheck
  <1>2. w \in Threads /\ Workers \subseteq Threads /\ pc \in [Threads -> States]
    BY WorkersAreThreads DEF BaseInv, TypeOK
  <1>3. CASE Lock(w)
    BY <1>1, <1>2, <1>3 DEF Lock, Goto
  <1>4. CASE FinishTask(w)
    BY <1>1, <1>2, <1>4 DEF FinishTask, Goto
  <1>5. CASE CheckPoisoned(w) \/ CountCheck(w)
    BY <1>1, <1>2, <1>5 DEF CheckPoisoned, CountCheck, Goto
  <1>6. CASE UncountCheck(w)
    BY <1>1, <1>2, <1>6 DEF UncountCheck, Goto
  <1>. QED  BY <1>3, <1>4, <1>5, <1>6 DEF Begins

\* What the steps of the workers and of the application leave to the main thread.
LEMMA MainAside ==
  ASSUME BaseInv, Next, ~MainStep
  PROVE  /\ pc'[Main] = pc[Main] /\ active'[Main] = active[Main]
         /\ UNCHANGED <<current, poisoned>>
         /\ watched' = watched \/ \E w \in Workers : FinishTask(w)
  <1>1. ASSUME NEW t \in Tasks, Submit(t)
        PROVE  pc'[Main] = pc[Main] /\ UNCHANGED <<current, poisoned, active, watched>>
    BY <1>1, ExecuteLeavesMain DEF Submit
  <1>2. ASSUME NEW w \in Workers, WorkerStep(w) \/ KeepAliveEnds(w) \/ Interrupt(w)
        PROVE  /\ pc'[Main] = pc[Main] /\ active'[Main] = active[Main]
               /\ UNCHANGED <<current, poisoned>>
               /\ watched' = watched \/ FinishTask(w)
    <2>1. pc'[Main] = pc[Main] /\ UNCHANGED current
      BY <1>2, WorkerLeavesMain
    <2>2. CASE IsIdleNow(w)
      <3>1. w # Main /\ active \in [Threads -> Int]
        BY WorkersAreThreads DEF BaseInv, TypeOK, DataOK
      <3>2. active' = active \/ \E v : active' = [active EXCEPT ![w] = v]
        BY <2>2 DEF IsIdleNow, ReadQueue, ReadActive, ReadMonitor, ReadChecks
      <3>. QED  BY <2>1, <2>2, <3>1, <3>2, WorkersAreThreads DEF IsIdleNow
    <2>3. CASE ~IsIdleNow(w)
      <3>1. CASE PoolWorker(w) \/ KeepAliveEnds(w) \/ Interrupt(w)
        BY <2>1, <3>1 DEF PoolWorker, Take, Lock, FinishTask, Unlock, KeepAliveEnds, Interrupt
      <3>2. CASE BarrierTask(w)
        BY <2>1, <3>2
           DEF BarrierTask, CheckPoisoned, CountCheck, ReadGeneration, Await, BarrierTripped,
               Restart, RestartReset, ResetBarrier, UncountCheck
      <3>3. CASE ForIdle(w)
        BY <2>1, <2>3, <3>3
           DEF ForIdle, MonitorForIdle, ClearMonitor, OnIdle, ExecuteBarrierTask
      <3>. QED  BY <1>2, <3>1, <3>2, <3>3 DEF WorkerStep
    <2>. QED  BY <2>2, <2>3
  <1>. QED  BY <1>1, <1>2 DEF Next, Environment

-----------------------------------------------------------------------------
(* activeBarrierChecks counts the barrier tasks at the barrier.            *)

\* A step within a step of the workers moves none in or out of what is counted.
LEMMA SteadyCounted ==
  ASSUME Steady
  PROVE  Counted' = Counted /\ \A x \in Workers : pc[x] = "run" => pc'[x] = "run" /\ job'[x] = job[x]
  BY DEF Steady, Counted, Outside, CountedStates, ActionStates, ForIdleStates

\* The workers can be counted.
LEMMA WorkersFinite ==
  \A S : S \subseteq Workers => IsFiniteSet(S) /\ Cardinality(S) \in Nat
  BY PoolAssumption, FS_Subset, FS_CardinalityType

\* activeBarrierChecks stays the number of the barrier tasks between its two updates.
LEMMA ChecksNext ==
  ASSUME CallInv, CallInv', Next, ChecksInv
  PROVE  ChecksInv'
  <1>1. CASE Steady /\ checks' = checks
    BY <1>1, SteadyCounted DEF ChecksInv
  <1>2. ASSUME NEW w \in Workers, Begins(w) PROVE ChecksInv'
    <2>1. Counted \subseteq Workers /\ IsFiniteSet(Counted) /\ Cardinality(Counted) \in Nat
      <3>1. Counted \subseteq Workers
        BY DEF Counted
      <3>. QED  BY <3>1, WorkersFinite
    <2>2. \A x \in Workers \ {w} : pc'[x] = pc[x]
      BY <1>2, BeginsMoves DEF CallInv
    <2>3. \/ w \notin Counted /\ Counted' = Counted /\ checks' = checks
          \/ w \notin Counted /\ Counted' = Counted \cup {w} /\ checks' = checks + 1
          \/ w \in Counted /\ Counted' = Counted \ {w} /\ checks' = checks - 1
      <3>. DEFINE C == CountedStates
      <3>1. /\ \A p \in {"claimed", "run", "check", "count", "done"} : p \notin C
            /\ \A p \in {"generation", "decrement", "released"} : p \in C
        BY DEF CountedStates, ActionStates, ForIdleStates
      <3>2. Counted = {x \in Workers : pc[x] \in C} /\ Counted' = {x \in Workers : pc'[x] \in C}
        BY DEF Counted
      <3>. HIDE DEF C
      <3>3. \/ pc[w] \notin C /\ pc'[w] \notin C /\ checks' = checks
            \/ pc[w] \notin C /\ pc'[w] \in C /\ checks' = checks + 1
            \/ pc[w] \in C /\ pc'[w] \notin C /\ checks' = checks - 1
        BY <1>2, <3>1, BeginsMoves DEF CallInv
      <3>. QED  BY <2>2, <3>2, <3>3
    <2>4. /\ w \notin Counted => Cardinality(Counted \cup {w}) = Cardinality(Counted) + 1
          /\ w \in Counted => Cardinality(Counted \ {w}) = Cardinality(Counted) - 1
      BY <2>1, FS_AddElement, FS_RemoveElement
    <2>. QED  BY <2>3, <2>4 DEF ChecksInv
  <1>. QED  BY <1>1, <1>2, StepKinds

-----------------------------------------------------------------------------
(* A monitor that is over stays over, and the main thread poisons every    *)
(* one that is not.                                                        *)

\* The steps that touch what tells whether a monitor is over.
LEMMA MonitorMoves ==
  ASSUME CallInv, CallInv', Next
  PROVE  /\ poisoned \subseteq poisoned'
         /\ UNCHANGED fired \/ \E t \in Threads : OnIdle(t)
         /\ UNCHANGED current \/ NotifyWhenIdle
         /\ UNCHANGED monitor \/ NotifyWhenIdle \/ CancelIdleMonitor
              \/ \E t \in Threads : ClearMonitor(t)
  <1>1. CASE MainStep
    BY <1>1, WorkersAreThreads
       DEF MainStep, CallIsIdleNow, NotifyWhenIdle, NoMoreMonitors, StopWaiting,
           CancelIdleMonitor, Poison, PoisonReset, ResetBarrier, ForIdle, IsIdleNow,
           MonitorForIdle, OnIdle, ClearMonitor, ExecuteBarrierTask
  <1>2. ASSUME NEW t \in Tasks, Submit(t) PROVE UNCHANGED <<monitor, poisoned, fired, current>>
    BY <1>2 DEF Submit
  <1>3. ASSUME NEW w \in Workers, WorkerStep(w) \/ KeepAliveEnds(w) \/ Interrupt(w),
               ~OnIdle(w), ~ClearMonitor(w)
        PROVE  UNCHANGED <<monitor, poisoned, fired, current>>
    <2>1. CASE PoolWorker(w) \/ KeepAliveEnds(w) \/ Interrupt(w)
      BY <2>1 DEF PoolWorker, Take, Lock, FinishTask, Unlock, KeepAliveEnds, Interrupt
    <2>2. CASE BarrierTask(w)
      BY <2>2
         DEF BarrierTask, CheckPoisoned, CountCheck, ReadGeneration, Await, BarrierTripped,
             Restart, RestartReset, ResetBarrier, UncountCheck
    <2>3. CASE ForIdle(w)
      BY <1>3, <2>3 DEF ForIdle, IsIdleNow, MonitorForIdle, ExecuteBarrierTask
    <2>. QED  BY <1>3, <2>1, <2>2, <2>3 DEF WorkerStep
  <1>4. ASSUME NEW w \in Workers, OnIdle(w) \/ ClearMonitor(w)
        PROVE  /\ UNCHANGED <<poisoned, current>>
               /\ UNCHANGED fired \/ OnIdle(w)
               /\ UNCHANGED monitor \/ ClearMonitor(w)
    BY <1>4 DEF OnIdle, ClearMonitor
  <1>. QED  BY <1>1, <1>2, <1>3, <1>4, WorkersAreThreads DEF Next, Environment

\* A callback makes its monitor over.
LEMMA Fires ==
  ASSUME CallInv, NEW t \in Threads, OnIdle(t)
  PROVE  /\ MonitorOf(t) \in Monitors /\ fired'[MonitorOf(t)] > 0
         /\ \A m \in Monitors : fired[m] > 0 => fired'[m] > 0
  <1>1. MonitorOf(t) \in Monitors
    BY MonitorKnown DEF CallInv, OnIdle, ForIdleStates
  <1>2. fired \in [Monitors -> Nat]
    BY DEF CallInv, BaseInv, TypeOK, DataOK
  <1>3. fired' = [fired EXCEPT ![MonitorOf(t)] = @ + 1]
    BY DEF OnIdle
  <1>. QED  BY <1>1, <1>2, <1>3

\* Once over, a monitor stays so.
LEMMA GoneStays ==
  ASSUME CallInv, CallInv', Next, NEW m \in Monitors, Gone(m)
  PROVE  Gone(m)'
  <1>1. CASE m \in poisoned
    BY <1>1, MonitorMoves DEF Gone
  <1>2. CASE fired[m] > 0
    BY <1>2, MonitorMoves, Fires DEF Gone
  <1>3. ASSUME NEW w \in Acts(m), pc[w] = "m.fire" PROVE Gone(m)'
    <2>1. w \in Workers /\ job[w] = m /\ w \in Threads /\ w # Main
      BY WorkersAreThreads DEF Acts
    <2>2. CASE OnIdle(w)
      BY <2>1, <2>2, Fires DEF MonitorOf, Gone
    <2>3. CASE ~OnIdle(w)
      <3>1. pc'[w] = pc[w] /\ job'[w] = job[w]
        <4>1. CASE Steady
          BY <1>3, <2>1, <2>3, <4>1 DEF Steady, Outside
        <4>2. ASSUME NEW v \in Workers, Begins(v) PROVE pc'[w] = pc[w] /\ job'[w] = job[w]
          <5>1. v # w
            BY <1>3, <4>2, BeginsMoves DEF CallInv
          <5>. QED  BY <2>1, <4>2, <5>1, BeginsMoves DEF CallInv
        <4>. QED  BY <4>1, <4>2, StepKinds
      <3>. QED  BY <1>3, <2>1, <3>1 DEF Acts, ActionStates, ForIdleStates, Gone
    <2>. QED  BY <2>2, <2>3
  <1>. QED  BY <1>1, <1>2, <1>3 DEF Gone

\* A monitor in place is over when it is taken away, or the main thread still has it.
LEMMA PendingStays ==
  ASSUME CallInv, CallInv', Next, NEW m \in Monitors, Pending(m)
  PROVE  Gone(m)' \/ Pending(m)'
  <1>0. /\ monitor \in {None, current} /\ m # 0
        /\ pc[Main] \notin ForIdleStates \cup {"wait", "cancel"} => monitor = None
        /\ Main \in Threads /\ Main \notin Workers /\ pc \in [Threads -> States]
    BY WorkersAreThreads DEF CallInv, MonitorInv, Monitors, BaseInv, TypeOK
  <1>1. ~NotifyWhenIdle
    BY <1>0 DEF Pending, NotifyWhenIdle, Goto, ForIdleStates
  <1>2. current' = current /\ current = m
    BY <1>0, <1>1, MonitorMoves DEF Pending
  <1>3. CASE monitor = m
    <2>1. CASE UNCHANGED monitor
      BY <1>3, <2>1 DEF Pending
    <2>2. CASE CancelIdleMonitor
      BY <1>0, <1>2, <1>3, <2>2 DEF CancelIdleMonitor, Goto, Pending
    <2>3. ASSUME NEW t \in Threads, ClearMonitor(t) PROVE Gone(m)' \/ Pending(m)'
      <3>1. CASE t = Main
        BY <1>0, <1>2, <2>3, <3>1 DEF ClearMonitor, Goto, Pending
      <3>2. CASE t # Main /\ job[t] = m
        <4>1. t \in Workers /\ pc'[t] = "m.fire" /\ job'[t] = m
          BY <1>0, <2>3, <3>2 DEF ClearMonitor, Goto, Threads
        <4>. QED  BY <4>1 DEF Gone, Acts, ActionStates, ForIdleStates
      <3>3. CASE t # Main /\ job[t] # m
        BY <1>3, <2>3, <3>3 DEF ClearMonitor, MonitorOf, Pending
      <3>. QED  BY <3>1, <3>2, <3>3
    <2>. QED  BY <1>1, <2>1, <2>2, <2>3, MonitorMoves
  <1>4. CASE pc[Main] = "m.fire"
    <2>1. CASE MainStep
      <3>1. ~IsIdleNow(Main)
        BY <1>0, <1>4, IsIdleNowMoves DEF CallInv, IdleStates
      <3>2. OnIdle(Main)
        BY <1>4, <2>1, <3>1
           DEF MainStep, ForIdle, MonitorForIdle, ClearMonitor, ExecuteBarrierTask, Goto,
               CallIsIdleNow, NotifyWhenIdle, NoMoreMonitors, StopWaiting, CancelIdleMonitor,
               Poison, PoisonReset
      <3>. QED  BY <1>0, <1>2, <3>2, Fires DEF MonitorOf, Gone
    <2>2. CASE ~MainStep
      BY <1>2, <1>4, <2>2, MainAside DEF CallInv, Pending
    <2>. QED  BY <2>1, <2>2
  <1>5. CASE pc[Main] = "poison"
    <2>1. CASE MainStep
      <3>1. ~IsIdleNow(Main)
        BY <1>0, <1>5, IsIdleNowMoves DEF CallInv, IdleStates
      <3>2. Poison
        BY <1>5, <2>1, <3>1
           DEF MainStep, ForIdle, MonitorForIdle, ClearMonitor, ExecuteBarrierTask, OnIdle, Goto,
               CallIsIdleNow, NotifyWhenIdle, NoMoreMonitors, StopWaiting, CancelIdleMonitor,
               PoisonReset
      <3>. QED  BY <1>2, <3>2 DEF Poison, Gone
    <2>2. CASE ~MainStep
      BY <1>2, <1>5, <2>2, MainAside DEF CallInv, Pending
    <2>. QED  BY <2>1, <2>2
  <1>. QED  BY <1>3, <1>4, <1>5 DEF Pending

\* Every monitor is over, or in the hands of the main thread.
LEMMA GoneNext ==
  ASSUME CallInv, CallInv', Next, GoneInv
  PROVE  GoneInv'
  <1>. SUFFICES ASSUME NEW m \in Monitors, m <= current' PROVE Gone(m)' \/ Pending(m)'
    BY DEF GoneInv
  <1>1. CASE m <= current
    BY <1>1, GoneStays, PendingStays DEF GoneInv
  <1>2. CASE ~(m <= current)
    <2>1. NotifyWhenIdle
      BY <1>2, MonitorMoves
    <2>2. current \in Nat /\ m \in Nat
      BY PoolAssumption DEF CallInv, BaseInv, TypeOK, DataOK, Monitors
    <2>3. m = current'
      BY <1>2, <2>1, <2>2 DEF NotifyWhenIdle
    <2>4. monitor = None
      BY <2>1 DEF CallInv, MonitorInv, NotifyWhenIdle, Goto, ForIdleStates
    <2>. QED  BY <2>1, <2>3, <2>4 DEF NotifyWhenIdle, Pending
  <1>. QED  BY <1>1, <1>2

-----------------------------------------------------------------------------
(* The tasks that ran when isIdleNow was called.                           *)

\* The main thread is inside isIdleNow before or after a step of CallIsIdleNow and
\* IsIdleNow alone.
LEMMA MainOutside ==
  ASSUME BaseInv, MainStep, ~CallIsIdleNow, ~IsIdleNow(Main)
  PROVE  pc[Main] \notin IdleStates /\ pc'[Main] \notin IdleStates /\ watched' = watched
  <1>1. /\ pc \in [Threads -> States] /\ Main \in Threads
        /\ left \in [Threads -> Nat]
    BY WorkersAreThreads DEF BaseInv, TypeOK, DataOK
  <1>2. watched' = watched
    BY DEF MainStep, CallIsIdleNow, NotifyWhenIdle, NoMoreMonitors, StopWaiting,
           CancelIdleMonitor, Poison, PoisonReset, ResetBarrier, ForIdle,
           MonitorForIdle, ClearMonitor, OnIdle, ExecuteBarrierTask
  <1>3. CASE PoisonReset
    <2>1. pc[Main] = "reset" /\ Wake(current, Main, "free", "caught")
      BY <1>3 DEF PoisonReset, ResetBarrier
    <2>2. pc'[Main] = "free"
      BY <1>1, <2>1, WakeMoves
    <2>. QED  BY <1>2, <2>1, <2>2 DEF IdleStates
  <1>4. CASE \/ NotifyWhenIdle \/ NoMoreMonitors \/ StopWaiting \/ CancelIdleMonitor \/ Poison
             \/ ClearMonitor(Main)
    BY <1>1, <1>2, <1>4
       DEF NotifyWhenIdle, NoMoreMonitors, StopWaiting, CancelIdleMonitor, Poison,
           ClearMonitor, Goto, IdleStates
  <1>5. CASE MonitorForIdle(Main) \/ OnIdle(Main)
    BY <1>1, <1>2, <1>5 DEF MonitorForIdle, OnIdle, Return, Goto, IdleStates
  <1>6. CASE ExecuteBarrierTask(Main)
    <2>1. CASE left[Main] = 0
      BY <1>1, <1>2, <1>6, <2>1 DEF ExecuteBarrierTask, Return, IdleStates
    <2>2. CASE left[Main] # 0
      <3>1. pc[Main] = "m.execute" /\ pc'[Main] = pc[Main]
        BY <1>6, <2>2, ExecuteLeavesMain DEF ExecuteBarrierTask
      <3>. QED  BY <1>2, <3>1 DEF IdleStates
    <2>. QED  BY <2>1, <2>2
  <1>. QED  BY <1>3, <1>4, <1>5, <1>6 DEF MainStep, ForIdle

\* The tasks watched are running.
LEMMA WatchedNext ==
  ASSUME CallInv, CallInv', Next, WatchedInv
  PROVE  WatchedInv'
  <1>0. /\ BaseInv /\ Main \in Threads /\ Main \notin Workers /\ Workers \subseteq Threads
        /\ pc \in [Threads -> States]
    BY WorkersAreThreads DEF CallInv, BaseInv, TypeOK
  <1>1. CASE CallIsIdleNow
    <2>1. /\ watched' = Running /\ UNCHANGED job /\ pc'[Main] = "idle.queue"
          /\ \A x \in Workers : pc'[x] = pc[x]
      BY <1>0, <1>1 DEF CallIsIdleNow, Goto
    <2>2. Running' = Running
      BY <2>1 DEF Running
    <2>. QED  BY <2>1, <2>2 DEF WatchedInv, IdleStates
  <1>2. CASE IsIdleNow(Main)
    <2>1. UNCHANGED job /\ \A x \in Workers : pc'[x] = pc[x]
      BY <1>0, <1>2, IsIdleNowMoves
    <2>2. Running' = Running
      BY <2>1 DEF Running
    <2>3. IF pc'[Main] \notin IdleStates THEN watched' = {} ELSE watched' = watched
      BY <1>2 DEF IsIdleNow
    <2>. QED  BY <2>2, <2>3 DEF WatchedInv
  <1>3. CASE MainStep /\ ~CallIsIdleNow /\ ~IsIdleNow(Main)
    BY <1>0, <1>3, MainOutside DEF WatchedInv
  <1>4. CASE ~MainStep
    <2>1. pc'[Main] = pc[Main]
      BY <1>0, <1>4, MainAside
    <2>2. ASSUME NEW t \in watched'
          PROVE  t \in watched /\ t \in Running'
      <3>1. t \in watched
        BY <1>0, <1>4, MainAside DEF FinishTask
      <3>2. PICK v \in Workers : pc[v] = "run" /\ job[v] = t
        BY <3>1 DEF WatchedInv, Running
      <3>3. pc'[v] = "run" /\ job'[v] = job[v]
        <4>1. CASE Steady
          BY <3>2, <4>1, SteadyCounted
        <4>2. ASSUME NEW w \in Workers, Begins(w) PROVE pc'[v] = "run" /\ job'[v] = job[v]
          <5>1. CASE FinishTask(w)
            <6>1. watched' = watched \ {job[w]}
              BY <5>1 DEF FinishTask
            <6>2. v # w
              BY <3>2, <6>1
            <6>. QED  BY <1>0, <3>2, <4>2, <6>2, BeginsMoves
          <5>2. CASE ~FinishTask(w)
            <6>1. v # w
              BY <1>0, <3>2, <4>2, <5>2, BeginsMoves
            <6>. QED  BY <1>0, <3>2, <4>2, <6>1, BeginsMoves
          <5>. QED  BY <5>1, <5>2
        <4>. QED  BY <4>1, <4>2, StepKinds
      <3>. QED  BY <3>1, <3>2, <3>3 DEF Running
    <2>. QED  BY <2>1, <2>2 DEF WatchedInv
  <1>. QED  BY <1>1, <1>2, <1>3, <1>4 DEF MainStep, ForIdle

-----------------------------------------------------------------------------
(* What isIdleNow has counted.                                             *)

\* A barrier task that a worker takes up when its monitor is over finds it poisoned: a
\* callback leaves no task behind, and all tasks of a barrier that has tripped are at it.
LEMMA GoneIsPoisoned ==
  ASSUME CallInv, NEW w \in Workers, NEW m \in Monitors, job[w] = m, pc[w] = "claimed", Gone(m)
  PROVE  m \in poisoned
  <1>1. Counts(m) /\ CountInv(m) /\ CorePoolSize \in Nat \ {0}
    BY CountIsNat, PoolSizes DEF CallInv
  <1>2. w \in Live(m)
    BY DEF Live
  <1>3. Count(m) >= Cardinality(Live(m))
    BY <1>1 DEF Counts, Count
  <1>4. ~(fired[m] > 0)
    <2>1. Cardinality(Live(m)) # 0
      BY <1>1, <1>2, FS_EmptySet DEF Counts
    <2>2. Count(m) >= 1
      BY <1>1, <1>3, <2>1 DEF Counts
    <2>3. fired[m] \in Nat
      BY DEF CallInv, BaseInv, TypeOK, DataOK
    <2>. QED  BY <1>1, <2>2, <2>3 DEF CountInv, Counts
  <1>5. ASSUME NEW x \in Acts(m), pc[x] = "m.fire" PROVE FALSE
    <2>1. Cardinality(Waiting(m)) = CorePoolSize - 1 /\ Count(m) <= CorePoolSize
      BY <1>1, <1>5 DEF CountInv, Room
    <2>2. x \notin Waiting(m) /\ w \notin Waiting(m) \cup {x}
          /\ (Waiting(m) \cup {x}) \cup {w} \subseteq Live(m)
      BY <1>2, <1>5 DEF Waiting, Live, Acts
    <2>3. /\ IsFiniteSet(Waiting(m) \cup {x})
          /\ Cardinality(Waiting(m) \cup {x}) = Cardinality(Waiting(m)) + 1
      BY <1>1, <2>2, FS_AddElement DEF Counts
    <2>4. Cardinality((Waiting(m) \cup {x}) \cup {w}) = Cardinality(Waiting(m) \cup {x}) + 1
      BY <2>2, <2>3, FS_AddElement
    <2>5. Cardinality((Waiting(m) \cup {x}) \cup {w}) <= Cardinality(Live(m))
      BY <1>1, <2>2, FS_Subset DEF Counts
    <2>. QED  BY <1>1, <1>3, <2>1, <2>3, <2>4, <2>5 DEF Counts
  <1>. QED  BY <1>4, <1>5 DEF Gone

\* While the main thread is inside isIdleNow no barrier task is added to those it has
\* counted.
LEMMA ComingShrinks ==
  ASSUME CallInv, CallInv', Next, ~MainStep, GoneInv, pc[Main] \in IdleStates
  PROVE  Coming' \subseteq Coming
  <1>0. BaseInv /\ poisoned' = poisoned
    BY MainAside DEF CallInv
  <1>1. \A m \in Monitors : m <= current => Gone(m)
    <2>1. monitor = None /\ 0 \notin Monitors /\ pc[Main] \notin {"m.fire", "poison"}
      BY DEF CallInv, MonitorInv, IdleStates, ForIdleStates, Monitors
    <2>. QED  BY <2>1 DEF GoneInv, Pending
  <1>2. CASE Steady
    BY <1>0, <1>2 DEF Steady, Coming, Outside, CountedStates, ActionStates, ForIdleStates
  <1>3. ASSUME NEW w \in Workers, Begins(w) PROVE Coming' \subseteq Coming
    <2>1. UNCHANGED job /\ \A x \in Workers \ {w} : pc'[x] = pc[x]
      BY <1>0, <1>3, BeginsMoves
    <2>2. w \in Coming' => w \in Coming
      <3>1. CASE pc[w] = "claimed" /\ pc'[w] = IF job[w] \in Tasks THEN "run" ELSE "check"
        <4>1. job[w] \in Tasks \/ (job[w] \in Monitors /\ job[w] <= current)
          BY <1>0, <3>1 DEF BaseInv, JobInv, Jobs
        <4>2. job[w] \in Tasks \/ job[w] \in poisoned
          BY <1>1, <3>1, <4>1, GoneIsPoisoned
        <4>. QED  BY <1>0, <2>1, <3>1, <4>2
                  DEF Coming, CountedStates, ActionStates, ForIdleStates
      <3>2. CASE pc[w] = "run" /\ pc'[w] = "done"
        BY <3>2 DEF Coming, CountedStates, ActionStates, ForIdleStates
      <3>3. CASE pc[w] = "check" /\ pc'[w] = IF job[w] \in poisoned THEN "done" ELSE "count"
        BY <3>3 DEF Coming, CountedStates, ActionStates, ForIdleStates
      <3>4. CASE pc[w] \in {"count", "decrement", "released"}
        BY <3>4 DEF Coming, CountedStates
      <3>. QED  BY <1>0, <1>3, <3>1, <3>2, <3>3, <3>4, BeginsMoves
    <2>. QED  BY <1>0, <2>1, <2>2 DEF Coming
  <1>. QED  BY <1>2, <1>3, StepKinds

\* The count of isIdleNow stays above that of the barrier tasks.
LEMMA ActiveNext ==
  ASSUME CallInv, CallInv', Next, GoneInv, WatchedInv, ActiveInv
  PROVE  ActiveInv'
  <1>. SUFFICES ASSUME pc'[Main] \in {"idle.monitor", "idle.checks"}, watched' # {}
                PROVE  active'[Main] >= Cardinality(Coming)' + 1
    BY DEF ActiveInv
  <1>0. /\ BaseInv /\ Main \in Threads /\ Main \notin Workers /\ Workers \subseteq Threads
        /\ pc \in [Threads -> States] /\ active \in [Threads -> Int]
    BY WorkersAreThreads DEF CallInv, BaseInv, TypeOK, DataOK
  <1>1. CASE MainStep
    <2>1. ~CallIsIdleNow
      BY <1>0 DEF CallIsIdleNow, Goto
    <2>2. IsIdleNow(Main)
      BY <1>0, <1>1, <2>1, MainOutside DEF IdleStates
    <2>3. UNCHANGED <<job, poisoned>> /\ \A x \in Workers : pc'[x] = pc[x]
      BY <1>0, <2>2, IsIdleNowMoves
    <2>4. Coming' = Coming
      BY <2>3 DEF Coming
    <2>5. watched' = watched
      BY <2>2 DEF IsIdleNow
    <2>6. \/ ReadActive(Main, Poll)
          \/ ReadMonitor(Main, Poll)
      <3>1. PICK c \in Calls : ReadQueue(Main, c) \/ ReadActive(Main, c) \/ ReadMonitor(Main, c)
                                 \/ ReadChecks(Main, c)
        BY <2>2 DEF IsIdleNow
      <3>2. c = Poll \/ c = Repoll
        BY DEF Calls
      <3>3. CASE c = Repoll
        BY <1>0, <3>1, <3>3
           DEF Repoll, ReadQueue, ReadActive, ReadMonitor, ReadChecks, Goto
      <3>4. CASE c = Poll
        BY <1>0, <3>1, <3>4 DEF Poll, ReadQueue, ReadChecks, Goto
      <3>. QED  BY <3>2, <3>3, <3>4
    <2>7. CASE ReadActive(Main, Poll)
      <3>. DEFINE Busy == {x \in Workers : pc[x] \in BusyStates}
      <3>1. active'[Main] = Cardinality(Busy)
        BY <1>0, <2>7 DEF ReadActive, ActiveCount
      <3>2. PICK v \in Workers : pc[v] = "run"
        BY <2>5 DEF WatchedInv, Running
      <3>3. v \notin Coming /\ Coming \cup {v} \subseteq Busy /\ Busy \subseteq Workers
        BY <3>2 DEF Coming, BusyStates, BarrierStates, CountedStates, ActionStates, ForIdleStates
      <3>4. IsFiniteSet(Busy) /\ IsFiniteSet(Coming) /\ Cardinality(Busy) \in Nat
        <4>1. Coming \subseteq Workers
          BY <3>3
        <4>. QED  BY <3>3, <4>1, WorkersFinite
      <3>5. Cardinality(Coming \cup {v}) = Cardinality(Coming) + 1
        BY <3>3, <3>4, FS_AddElement
      <3>6. Cardinality(Coming \cup {v}) <= Cardinality(Busy)
        BY <3>3, <3>4, FS_Subset
      <3>. HIDE DEF Busy
      <3>. QED  BY <2>4, <3>1, <3>4, <3>5, <3>6
    <2>8. CASE ReadMonitor(Main, Poll)
      <3>1. pc[Main] = "idle.monitor" /\ active'[Main] = active[Main]
        BY <1>0, <2>8 DEF ReadMonitor, Goto, Poll
      <3>. QED  BY <2>4, <2>5, <3>1 DEF ActiveInv
    <2>. QED  BY <2>6, <2>7, <2>8
  <1>2. CASE ~MainStep
    <2>1. /\ pc'[Main] = pc[Main] /\ active'[Main] = active[Main] /\ watched # {}
      BY <1>0, <1>2, MainAside DEF FinishTask
    <2>2. active[Main] >= Cardinality(Coming) + 1
      BY <2>1 DEF ActiveInv
    <2>3. Coming' \subseteq Coming
      BY <1>2, <2>1, ComingShrinks DEF IdleStates
    <2>4. /\ Cardinality(Coming') <= Cardinality(Coming)
          /\ Cardinality(Coming') \in Nat /\ Cardinality(Coming) \in Nat
      <3>1. Coming \subseteq Workers
        BY DEF Coming
      <3>2. IsFiniteSet(Coming) /\ Cardinality(Coming) \in Nat /\ Cardinality(Coming') \in Nat
        BY <2>3, <3>1, WorkersFinite
      <3>. QED  BY <2>3, <3>2, FS_Subset
    <2>. QED  BY <1>0, <2>1, <2>2, <2>4
  <1>. QED  BY <1>1, <1>2

-----------------------------------------------------------------------------
\* The program starts in the invariant.
LEMMA InitSeen == Init => SeenInv
  <1>. SUFFICES ASSUME Init PROVE SeenInv
    OBVIOUS
  <1>1. pc[Main] = "free" /\ \A w \in Workers : pc[w] = "none"
    BY WorkersAreThreads DEF Init
  <1>2. Counted = {}
    BY <1>1 DEF Counted, CountedStates, ActionStates, ForIdleStates
  <1>3. ChecksInv
    BY <1>2, FS_EmptySet DEF Init, ChecksInv
  <1>4. GoneInv
    BY DEF Init, GoneInv, Monitors
  <1>5. WatchedInv /\ ActiveInv
    BY <1>1 DEF Init, WatchedInv, ActiveInv
  <1>. QED  BY <1>3, <1>4, <1>5 DEF SeenInv

\* Every step keeps it.
LEMMA NextSeen == CallInv /\ CallInv' /\ SeenInv /\ [Next]_vars => SeenInv'
  <1>1. ASSUME CallInv, CallInv', SeenInv, Next PROVE SeenInv'
    BY <1>1, GoneNext, ChecksNext, WatchedNext, ActiveNext DEF SeenInv
  <1>2. ASSUME SeenInv, UNCHANGED vars PROVE SeenInv'
    BY <1>2 DEF vars, SeenInv, GoneInv, Gone, Acts, Pending, ChecksInv, Counted, WatchedInv,
                Running, ActiveInv, Coming
  <1>. QED  BY <1>1, <1>2

\* isIdleNow does not answer true over a task that ran when it was called and runs still,
\* in any pool: what it subtracts from the count of active threads are barrier tasks it has
\* counted there, for a barrier task that starts after the count finds itself poisoned.
THEOREM WorkIsSeen == Spec => RunningWorkIsSeen
  <1>1. ASSUME CallInv, SeenInv, Next, pc[Main] \in IdleStates, pc'[Main] = "free"
        PROVE  watched = {}
    <2>0. /\ BaseInv /\ Main \in Threads /\ pc \in [Threads -> States]
          /\ active \in [Threads -> Int]
      BY <1>1, WorkersAreThreads DEF CallInv, BaseInv, TypeOK, DataOK
    <2>1. IsIdleNow(Main)
      <3>1. MainStep
        BY <1>1, <2>0, MainAside DEF IdleStates
      <3>2. ~CallIsIdleNow
        BY <1>1 DEF CallIsIdleNow, Goto, IdleStates
      <3>. QED  BY <1>1, <2>0, <3>1, <3>2, MainOutside
    <2>2. \/ ReadActive(Main, Poll) /\ ActiveCount = 0
          \/ /\ ReadChecks(Main, Poll) /\ active[Main] - checks = 0
             /\ pc[Main] = "idle.checks"
      <3>1. PICK c \in Calls : ReadQueue(Main, c) \/ ReadActive(Main, c) \/ ReadMonitor(Main, c)
                                 \/ ReadChecks(Main, c)
        BY <2>1 DEF IsIdleNow
      <3>2. c = Poll \/ c = Repoll
        BY DEF Calls
      <3>3. CASE c = Repoll
        BY <1>1, <2>0, <3>1, <3>3
           DEF Repoll, ReadQueue, ReadActive, ReadMonitor, ReadChecks, Goto, IdleStates
      <3>4. CASE c = Poll
        BY <1>1, <2>0, <3>1, <3>4
           DEF Poll, ReadQueue, ReadActive, ReadMonitor, ReadChecks, Goto
      <3>. QED  BY <3>2, <3>3, <3>4
    <2>3. CASE ActiveCount = 0
      <3>. DEFINE Busy == {w \in Workers : pc[w] \in BusyStates}
      <3>1. Busy \subseteq Workers /\ Cardinality(Busy) = 0
        BY <2>3 DEF ActiveCount
      <3>2. Busy = {}
        BY <3>1, WorkersFinite, FS_EmptySet
      <3>3. Running = {}
        BY <3>2 DEF Running, BusyStates
      <3>. QED  BY <1>1, <3>3 DEF SeenInv, WatchedInv
    <2>4. CASE active[Main] - checks = 0 /\ pc[Main] = "idle.checks"
      <3>1. Counted \subseteq Coming /\ Coming \subseteq Workers
        BY DEF Counted, Coming
      <3>2. /\ Cardinality(Counted) <= Cardinality(Coming)
            /\ Cardinality(Counted) \in Nat /\ Cardinality(Coming) \in Nat
        <4>1. Counted \subseteq Workers
          BY <3>1
        <4>. QED  BY <3>1, <4>1, WorkersFinite, FS_Subset
      <3>3. checks = Cardinality(Counted)
        BY <1>1 DEF SeenInv, ChecksInv
      <3>4. watched # {} => active[Main] >= Cardinality(Coming) + 1
        BY <1>1, <2>4 DEF SeenInv, ActiveInv
      <3>. QED  BY <2>0, <2>4, <3>2, <3>3, <3>4
    <2>. QED  BY <2>2, <2>3, <2>4
  <1>2. ASSUME CallInv, SeenInv, [Next]_vars
        PROVE  [pc[Main] \in IdleStates /\ pc'[Main] = "free" => watched = {}]_vars
    BY <1>1, <1>2
  <1>. QED
    BY InitCall, NextCall, InitSeen, NextSeen, <1>2, PTL DEF Spec, RunningWorkIsSeen
=============================================================================
