------------------------ MODULE AsyncTaskPoolMonitor ------------------------
(***************************************************************************)
(* espresso/base/AsyncTaskPoolMonitor.java: how the main thread learns     *)
(* that a java.util.concurrent.ThreadPoolExecutor has no work left.        *)
(*                                                                         *)
(* The main thread polls isIdleNow; when the pool is busy it calls         *)
(* notifyWhenIdle, which fills the pool with CorePoolSize tasks that meet  *)
(* at a CyclicBarrier, waits, and calls cancelIdleMonitor, the order in    *)
(* which UiControllerImpl.loopMainThreadUntilIdle calls them.  One action  *)
(* is one shared-memory step of the code (an atomic read, a                *)
(* compare-and-set, one CyclicBarrier call, one execute).                  *)
(*                                                                         *)
(* The executor and the barrier are the JDK's: they are modelled from the  *)
(* way this class uses them.  Two approximations: getActiveCount counts    *)
(* the busy workers in one step, and a saturated pool (full queue and no   *)
(* thread left) makes the submitter wait instead of rejecting the task.    *)
(***************************************************************************)
EXTENDS Integers, Sequences, FiniteSets

CONSTANTS Workers,        \* the threads the pool may start (maximumPoolSize)
          Main,           \* the main thread, which runs the Espresso loop
          CorePoolSize,   \* ThreadPoolExecutor.getCorePoolSize()
          QueueCapacity,  \* capacity of the pool's work queue
          Tasks,          \* the application's tasks
          MaxMonitors,    \* bound: calls of notifyWhenIdle
          MaxInterrupts,  \* bound: interrupts that hit a barrier task
          MaxRestarts,    \* bound: restarts of one barrier
          MayGiveUp       \* TRUE: the main thread may cancel before the callback

ASSUME PoolAssumption ==
  /\ IsFiniteSet(Workers)
  /\ Main \notin Workers
  /\ CorePoolSize \in 1 .. Cardinality(Workers)
  /\ QueueCapacity \in Nat \ {0}
  /\ MaxMonitors \in Nat
  /\ MaxInterrupts \in Nat
  /\ MaxRestarts \in Nat
  /\ MayGiveUp \in BOOLEAN

None     == 0
Monitors == 1 .. MaxMonitors
Jobs     == Tasks \cup Monitors    \* a barrier task is named by its IdleMonitor
Threads  == Workers \cup {Main}

ASSUME JobsAssumption == Tasks \cap (Monitors \cup {None}) = {}

VARIABLES
  pc,            \* where each thread is
  queue,         \* pool.getQueue()
  job,           \* the task a worker holds
  monitor,       \* the AtomicReference monitor
  checks,        \* activeBarrierChecks
  poisoned,      \* the monitors with poisoned = true
  broken,        \* the monitors whose barrier is broken
  generation,    \* barrierGeneration of each monitor
  myGeneration,  \* the local of a barrier task
  interrupted,   \* workers whose interrupt flag is set
  interrupts,    \* interrupts so far
  active,        \* the local activeCount of isIdleNow
  left,          \* executes still to do in the loop of monitorForIdle
  current,       \* the last monitor notifyWhenIdle created
  fired,         \* how often onIdle ran, per monitor
  outstanding,   \* application tasks submitted and not finished
  finished,      \* application tasks that have finished
  watched,       \* history: of the tasks running when isIdleNow was called, and
  awaited,       \*   of those outstanding, the ones that have not finished
  owed           \* history: the same of each barrier's last arrival

poolVars    == <<queue, job, outstanding, finished>>
barrierVars == <<broken, generation, myGeneration, interrupted>>
monitorVars == <<monitor, checks, poisoned, fired, current>>
historyVars == <<watched, awaited, owed>>
vars == <<pc, queue, job, monitor, checks, poisoned, broken, generation,
          myGeneration, interrupted, interrupts, active, left, current, fired,
          outstanding, finished, watched, awaited, owed>>

-----------------------------------------------------------------------------
(* isIdleNow is called with no monitor ("idle.*" of Main before "notify")  *)
(* and from monitorForIdle ("m.*"), by Main or by the barrier action.      *)

IdleStates    == {"idle.queue", "idle.active", "idle.monitor", "idle.checks"}
ForIdleStates == {"m.poisoned", "m.queue", "m.active", "m.monitor", "m.checks",
                  "m.clear", "m.fire", "m.execute"}
MainStates    == {"free", "notify", "recursive", "wait", "cancel", "poison", "reset"}
                   \cup IdleStates \cup ForIdleStates
ActionStates  == {"tripped"} \cup ForIdleStates
CountedStates == {"generation", "await", "waiting", "released", "caught",
                  "restart", "decrement"} \cup ActionStates
BarrierStates == {"check", "count"} \cup CountedStates
BusyStates    == {"run", "done"} \cup BarrierStates
WorkerStates  == {"none", "parked", "claimed"} \cup BusyStates
States        == MainStates \cup WorkerStates

DataOK ==
  /\ queue \in Seq(Jobs)
  /\ job \in [Workers -> Jobs \cup {None}]
  /\ monitor \in Monitors \cup {None}
  /\ checks \in Int
  /\ poisoned \subseteq Monitors
  /\ broken \subseteq Monitors
  /\ generation \in [Monitors -> Nat]
  /\ myGeneration \in [Workers -> Nat]
  /\ interrupted \subseteq Workers
  /\ interrupts \in 0 .. MaxInterrupts
  /\ active \in [Threads -> Int]
  /\ left \in [Threads -> Nat]
  /\ current \in Monitors \cup {None}
  /\ fired \in [Monitors -> Nat]
  /\ outstanding \subseteq Tasks
  /\ finished \subseteq Tasks
  /\ watched \subseteq Tasks
  /\ awaited \subseteq Tasks
  /\ owed \in [Monitors -> SUBSET Tasks]

TypeOK == pc \in [Threads -> States] /\ DataOK

Init ==
  /\ pc = [t \in Threads |-> IF t = Main THEN "free" ELSE "none"]
  /\ queue = <<>>
  /\ job = [w \in Workers |-> None]
  /\ monitor = None
  /\ checks = 0
  /\ poisoned = {}
  /\ broken = {}
  /\ generation = [m \in Monitors |-> 0]
  /\ myGeneration = [w \in Workers |-> 0]
  /\ interrupted = {}
  /\ interrupts = 0
  /\ active = [t \in Threads |-> 0]
  /\ left = [t \in Threads |-> 0]
  /\ current = None
  /\ fired = [m \in Monitors |-> 0]
  /\ outstanding = {}
  /\ finished = {}
  /\ watched = {}
  /\ awaited = {}
  /\ owed = [m \in Monitors |-> {}]

Goto(t, from, to) == pc[t] = from /\ pc' = [pc EXCEPT ![t] = to]

(***************************************************************************)
(* The ThreadPoolExecutor (external).  A worker that has taken a task is   *)
(* "claimed" until it locks itself: only then does getActiveCount see it.  *)
(***************************************************************************)
Started      == {w \in Workers : pc[w] # "none"}
ActiveCount  == Cardinality({w \in Workers : pc[w] \in BusyStates})
Running      == {job[w] : w \in {v \in Workers : pc[v] = "run"}}

\* pool.execute(j), called by thread t which goes on at pcs[t].
Execute(j, pcs) ==
  LET start(w) == /\ pc[w] = "none"
                  /\ pc' = [pcs EXCEPT ![w] = "claimed"]
                  /\ job' = [job EXCEPT ![w] = j]
                  /\ UNCHANGED queue
      room     == Len(queue) < QueueCapacity
  IN  \/ /\ Cardinality(Started) < CorePoolSize
         /\ \E w \in Workers : start(w)
      \/ /\ Cardinality(Started) >= CorePoolSize
         /\ room
         /\ queue' = Append(queue, j)
         /\ pc' = pcs
         /\ UNCHANGED job
      \/ /\ Cardinality(Started) >= CorePoolSize
         /\ ~room
         /\ \E w \in Workers : start(w)

\* The application submits a task, from any thread, at any time.
Submit(t) ==
  /\ t \notin outstanding \cup finished
  /\ outstanding' = outstanding \cup {t}
  /\ Execute(t, pc)
  /\ UNCHANGED <<monitorVars, barrierVars, historyVars, interrupts, active,
                 left, finished>>

\* A parked worker takes the head of the queue; keep-alive may end it instead.
Take(w) ==
  /\ queue # <<>>
  /\ Goto(w, "parked", "claimed")
  /\ job' = [job EXCEPT ![w] = Head(queue)]
  /\ queue' = Tail(queue)
  /\ UNCHANGED <<monitorVars, barrierVars, historyVars, interrupts, active,
                 left, outstanding, finished>>

KeepAliveEnds(w) ==
  /\ queue = <<>>
  /\ Goto(w, "parked", "none")
  /\ UNCHANGED <<monitorVars, barrierVars, poolVars, historyVars, interrupts,
                 active, left>>

\* The worker locks itself and clears its interrupt flag before the task runs.
Lock(w) ==
  /\ Goto(w, "claimed", IF job[w] \in Tasks THEN "run" ELSE "check")
  /\ interrupted' = interrupted \ {w}
  /\ UNCHANGED <<monitorVars, poolVars, historyVars, broken, generation,
                 myGeneration, interrupts, active, left>>

FinishTask(w) ==
  /\ Goto(w, "run", "done")
  /\ outstanding' = outstanding \ {job[w]}
  /\ finished' = finished \cup {job[w]}
  /\ watched' = watched \ {job[w]}
  /\ awaited' = awaited \ {job[w]}
  /\ owed' = [m \in Monitors |-> owed[m] \ {job[w]}]
  /\ UNCHANGED <<monitorVars, barrierVars, interrupts, active, left, queue,
                 job>>

Unlock(w) ==
  /\ Goto(w, "done", "parked")
  /\ job' = [job EXCEPT ![w] = None]
  /\ UNCHANGED <<monitorVars, barrierVars, historyVars, interrupts, active,
                 left, queue, outstanding, finished>>

-----------------------------------------------------------------------------
(***************************************************************************)
(* The CyclicBarrier of a monitor (external).  The thread that trips it    *)
(* runs the barrier action holding the barrier's lock.                     *)
(***************************************************************************)
Waiting(m) == {w \in Workers : pc[w] = "waiting" /\ job[w] = m}
Locked(m)  == \E w \in Workers : pc[w] \in ActionStates /\ job[w] = m

\* Thread t goes to "to", everyone waiting on the barrier of m to "woken".
Wake(m, t, to, woken) ==
  pc' = [x \in Threads |-> IF x = t THEN to
                           ELSE IF x \in Waiting(m) THEN woken ELSE pc[x]]

Await(w) ==
  LET m == job[w] IN
  /\ pc[w] = "await"
  /\ ~Locked(m)
  /\ \/ /\ m \in broken
        /\ Goto(w, "await", "caught")
        /\ UNCHANGED <<broken, interrupted, owed>>
     \/ /\ m \notin broken
        /\ w \in interrupted
        /\ interrupted' = interrupted \ {w}
        /\ broken' = broken \cup {m}
        /\ Wake(m, w, "caught", "caught")
        /\ UNCHANGED owed
     \/ /\ m \notin broken
        /\ w \notin interrupted
        /\ Goto(w, "await",
                IF Cardinality(Waiting(m)) + 1 < CorePoolSize
                THEN "waiting" ELSE "tripped")
        /\ owed' = [owed EXCEPT ![m] = outstanding]
        /\ UNCHANGED <<broken, interrupted>>
  /\ UNCHANGED <<monitorVars, poolVars, watched, awaited, generation,
                 myGeneration, interrupts, active, left>>

\* Somebody interrupts the thread while it runs a barrier task.
Interrupt(w) ==
  LET m == job[w] IN
  /\ pc[w] \in BarrierStates
  /\ interrupts < MaxInterrupts
  /\ interrupts' = interrupts + 1
  /\ IF pc[w] = "waiting" /\ ~Locked(m)
     THEN /\ broken' = broken \cup {m}
          /\ Wake(m, w, "caught", "caught")
          /\ UNCHANGED interrupted
     ELSE /\ interrupted' = interrupted \cup {w}
          /\ UNCHANGED <<pc, broken>>
  /\ UNCHANGED <<monitorVars, poolVars, historyVars, generation, myGeneration,
                 active, left>>

-----------------------------------------------------------------------------
(* One barrier task: the Runnable that monitorForIdle submits.             *)

CheckPoisoned(w) ==
  /\ Goto(w, "check", IF job[w] \in poisoned THEN "done" ELSE "count")
  /\ UNCHANGED <<monitorVars, poolVars, barrierVars, historyVars, interrupts,
                 active, left>>

CountCheck(w) ==
  /\ Goto(w, "count", "generation")
  /\ checks' = checks + 1
  /\ UNCHANGED <<poolVars, barrierVars, historyVars, interrupts, active, left,
                 monitor, poisoned, fired, current>>

ReadGeneration(w) ==
  /\ Goto(w, "generation", "await")
  /\ myGeneration' = [myGeneration EXCEPT ![w] = generation[job[w]]]
  /\ UNCHANGED <<monitorVars, poolVars, historyVars, broken, generation,
                 interrupted, interrupts, active, left>>

\* BarrierRestarter.restart, up to the compare-and-set: it is synchronized, and
\* the tasks that can be in it at one time share one restarter.
Restart(w) ==
  LET m == job[w] IN
  /\ pc[w] = "caught"
  /\ \A v \in Workers : ~(pc[v] = "restart" /\ job[v] = m)
  /\ IF generation[m] = myGeneration[w]
     THEN /\ generation[m] < MaxRestarts
          /\ generation' = [generation EXCEPT ![m] = @ + 1]
          /\ Goto(w, "caught", "restart")
     ELSE /\ Goto(w, "caught", "decrement")
          /\ UNCHANGED generation
  /\ UNCHANGED <<monitorVars, poolVars, historyVars, broken, myGeneration,
                 interrupted, interrupts, active, left>>

\* barrier.reset() by t, which then goes to "to".
ResetBarrier(m, t, to) ==
  /\ ~Locked(m)
  /\ broken' = broken \ {m}
  /\ Wake(m, t, to, "caught")
  /\ UNCHANGED <<monitorVars, poolVars, historyVars, generation, myGeneration,
                 interrupted, interrupts, active, left>>

RestartReset(w) ==
  /\ pc[w] = "restart"
  /\ ResetBarrier(job[w], w, "decrement")

\* Mutant: the barrier task loops after await returned.
UncountCheckNoReturn(w) ==
  /\ Goto(w, "decrement", "check") \/ Goto(w, "released", "check")
  /\ checks' = checks - 1
  /\ myGeneration' = [myGeneration EXCEPT ![w] = 0]
  /\ UNCHANGED <<poolVars, historyVars, broken, generation, interrupted,
                 interrupts, active, left, monitor, poisoned, fired, current>>

\* Mutant: the decrement is outside the finally clause.
UncountCheckNoFinally(w) ==
  /\ \/ Goto(w, "decrement", "check") /\ checks' = checks
     \/ Goto(w, "released", "done") /\ checks' = checks - 1
  /\ myGeneration' = [myGeneration EXCEPT ![w] = 0]
  /\ UNCHANGED <<poolVars, historyVars, broken, generation, interrupted,
                 interrupts, active, left, monitor, poisoned, fired, current>>

\* The finally clause, after a caught exception or after await returned.
UncountCheck(w) ==
  /\ \/ Goto(w, "decrement", "check")
     \/ Goto(w, "released", "done")
  /\ checks' = checks - 1
  /\ myGeneration' = [myGeneration EXCEPT ![w] = 0]
  /\ UNCHANGED <<poolVars, historyVars, broken, generation, interrupted,
                 interrupts, active, left, monitor, poisoned, fired, current>>

-----------------------------------------------------------------------------
(* isIdleNow: four reads.  A call is the record of its program points.     *)

Poll   == [queue |-> "idle.queue", active |-> "idle.active",
           monitor |-> "idle.monitor", checks |-> "idle.checks",
           idle |-> "free", busy |-> "notify"]
Repoll == [queue |-> "m.queue", active |-> "m.active",
           monitor |-> "m.monitor", checks |-> "m.checks",
           idle |-> "m.clear", busy |-> "m.execute"]
Calls  == {Poll, Repoll}

ReadQueue(t, c) ==
  /\ Goto(t, c.queue, IF queue = <<>> THEN c.active ELSE c.busy)
  /\ UNCHANGED active

ReadActive(t, c) ==
  /\ Goto(t, c.active, IF ActiveCount = 0 THEN c.idle ELSE c.monitor)
  /\ active' = [active EXCEPT ![t] = ActiveCount]

ReadMonitor(t, c) ==
  /\ Goto(t, c.monitor, IF monitor = None THEN c.checks ELSE c.busy)
  /\ active' = [active EXCEPT ![t] = IF monitor = None THEN @ ELSE 0]

ReadChecks(t, c) ==
  /\ Goto(t, c.checks, IF active[t] - checks = 0 THEN c.idle ELSE c.busy)
  /\ active' = [active EXCEPT ![t] = 0]

IsIdleNow(t) ==
  /\ \E c \in Calls : ReadQueue(t, c) \/ ReadActive(t, c) \/ ReadMonitor(t, c)
                        \/ ReadChecks(t, c)
  /\ IF t = Main /\ pc'[t] \notin IdleStates
     THEN watched' = {} /\ awaited' = {}
     ELSE UNCHANGED <<watched, awaited>>
  /\ UNCHANGED <<monitorVars, poolVars, barrierVars, owed, interrupts, left>>

-----------------------------------------------------------------------------
(* monitorForIdle, run by the main thread or as part of the barrier action *)

MonitorOf(t) == IF t = Main THEN current ELSE job[t]

\* monitorForIdle returns: to the loop, or out of the barrier action.
Return(t) == IF t = Main THEN pc' = [pc EXCEPT ![t] = "wait"]
             ELSE Wake(job[t], t, "released", "released")

\* Mutant: one barrier task too many.
MonitorForIdleOneMore(t) ==
  /\ pc[t] = "m.poisoned"
  /\ IF MonitorOf(t) \in poisoned
     THEN Return(t) /\ UNCHANGED left
     ELSE /\ Goto(t, "m.poisoned", "m.queue")
          /\ left' = [left EXCEPT ![t] = CorePoolSize + 1]
  /\ UNCHANGED <<monitorVars, poolVars, barrierVars, historyVars, interrupts,
                 active>>

MonitorForIdle(t) ==
  /\ pc[t] = "m.poisoned"
  /\ IF MonitorOf(t) \in poisoned
     THEN Return(t) /\ UNCHANGED left
     ELSE /\ Goto(t, "m.poisoned", "m.queue")
          /\ left' = [left EXCEPT ![t] = CorePoolSize]
  /\ UNCHANGED <<monitorVars, poolVars, barrierVars, historyVars, interrupts,
                 active>>

ClearMonitor(t) ==
  /\ Goto(t, "m.clear", "m.fire")
  /\ monitor' = IF monitor = MonitorOf(t) THEN None ELSE monitor
  /\ UNCHANGED <<poolVars, barrierVars, historyVars, interrupts, active, left,
                 checks, poisoned, fired, current>>

OnIdle(t) ==
  /\ pc[t] = "m.fire"
  /\ Return(t)
  /\ fired' = [fired EXCEPT ![MonitorOf(t)] = @ + 1]
  /\ UNCHANGED <<poolVars, barrierVars, historyVars, interrupts, active, left,
                 monitor, checks, poisoned, current>>

\* Mutant: the loop tests its counter after the decrement.
ExecuteBarrierTaskTooFar(t) ==
  /\ pc[t] = "m.execute"
  /\ IF left[t] < 0
     THEN Return(t) /\ UNCHANGED <<left, queue, job>>
     ELSE /\ Execute(MonitorOf(t), pc)
          /\ left' = [left EXCEPT ![t] = @ - 1]
  /\ UNCHANGED <<monitorVars, barrierVars, historyVars, interrupts, active,
                 outstanding, finished>>

ExecuteBarrierTask(t) ==
  /\ pc[t] = "m.execute"
  /\ IF left[t] = 0
     THEN Return(t) /\ UNCHANGED <<left, queue, job>>
     ELSE /\ Execute(MonitorOf(t), pc)
          /\ left' = [left EXCEPT ![t] = @ - 1]
  /\ UNCHANGED <<monitorVars, barrierVars, historyVars, interrupts, active,
                 outstanding, finished>>

\* Mutant: the barrier action does not look at the work queue.
BarrierTrippedBlind(w) ==
  /\ Goto(w, "tripped", "m.clear")
  /\ UNCHANGED <<monitorVars, poolVars, barrierVars, historyVars, interrupts,
                 active, left>>

\* Mutant: the barrier action does not monitor again when the queue holds work.
BarrierTrippedOnce(w) ==
  /\ pc[w] = "tripped"
  /\ IF queue = <<>> THEN Goto(w, "tripped", "m.clear")
     ELSE Wake(job[w], w, "released", "released")
  /\ UNCHANGED <<monitorVars, poolVars, barrierVars, historyVars, interrupts,
                 active, left>>

\* The barrier action looks at the work queue behind the barrier.
BarrierTripped(w) ==
  /\ Goto(w, "tripped", IF queue = <<>> THEN "m.clear" ELSE "m.poisoned")
  /\ UNCHANGED <<monitorVars, poolVars, barrierVars, historyVars, interrupts,
                 active, left>>

-----------------------------------------------------------------------------
(* The main thread, as UiControllerImpl drives the notifier.               *)

CallIsIdleNow ==
  /\ Goto(Main, "free", "idle.queue")
  /\ watched' = Running
  /\ awaited' = outstanding
  /\ UNCHANGED <<monitorVars, poolVars, barrierVars, interrupts, active, left,
                 owed>>

\* checkState throws when the compare-and-set fails.
NotifyWhenIdle ==
  /\ current < MaxMonitors
  /\ current' = current + 1
  /\ IF monitor = None
     THEN /\ Goto(Main, "notify", "m.poisoned")
          /\ monitor' = current'
     ELSE /\ Goto(Main, "notify", "recursive")
          /\ UNCHANGED monitor
  /\ UNCHANGED <<poolVars, barrierVars, historyVars, interrupts, active, left,
                 checks, poisoned, fired>>

\* Bound: after MaxMonitors registrations the main thread only polls.
NoMoreMonitors ==
  /\ current = MaxMonitors
  /\ Goto(Main, "notify", "free")
  /\ UNCHANGED <<monitorVars, poolVars, barrierVars, historyVars, interrupts,
                 active, left>>

StopWaiting ==
  /\ Goto(Main, "wait", "cancel")
  /\ fired[current] > 0 \/ MayGiveUp
  /\ UNCHANGED <<monitorVars, poolVars, barrierVars, historyVars, interrupts,
                 active, left>>

\* Mutant: get instead of getAndSet(null).
CancelIdleMonitorKept ==
  /\ Goto(Main, "cancel", IF monitor = None THEN "free" ELSE "poison")
  /\ UNCHANGED <<poolVars, barrierVars, historyVars, interrupts, active, left,
                 monitor, checks, poisoned, fired, current>>

\* The monitor that getAndSet returns is the current one.
CancelIdleMonitor ==
  /\ Goto(Main, "cancel", IF monitor = None THEN "free" ELSE "poison")
  /\ monitor' = None
  /\ UNCHANGED <<poolVars, barrierVars, historyVars, interrupts, active, left,
                 checks, poisoned, fired, current>>

Poison ==
  /\ Goto(Main, "poison", "reset")
  /\ poisoned' = poisoned \cup {current}
  /\ UNCHANGED <<poolVars, barrierVars, historyVars, interrupts, active, left,
                 monitor, checks, fired, current>>

PoisonReset ==
  /\ pc[Main] = "reset"
  /\ ResetBarrier(current, Main, "free")

-----------------------------------------------------------------------------
ForIdle(t) == \/ IsIdleNow(t) \/ MonitorForIdle(t) \/ ClearMonitor(t)
              \/ OnIdle(t) \/ ExecuteBarrierTask(t)

BarrierTask(w) == \/ CheckPoisoned(w) \/ CountCheck(w) \/ ReadGeneration(w)
                  \/ Await(w) \/ BarrierTripped(w) \/ Restart(w)
                  \/ RestartReset(w) \/ UncountCheck(w)

PoolWorker(w) == Take(w) \/ Lock(w) \/ FinishTask(w) \/ Unlock(w)

MainStep == \/ CallIsIdleNow \/ NotifyWhenIdle \/ NoMoreMonitors
            \/ StopWaiting \/ CancelIdleMonitor \/ Poison \/ PoisonReset
            \/ ForIdle(Main)

WorkerStep(w) == PoolWorker(w) \/ BarrierTask(w) \/ ForIdle(w)

Environment == \/ \E t \in Tasks : Submit(t)
               \/ \E w \in Workers : KeepAliveEnds(w) \/ Interrupt(w)

Next == MainStep \/ (\E w \in Workers : WorkerStep(w)) \/ Environment

Spec == Init /\ [][Next]_vars

\* The scheduler runs every thread, and the application's tasks end.
FairSpec == /\ Spec
            /\ WF_vars(MainStep)
            /\ \A w \in Workers : WF_vars(WorkerStep(w))

-----------------------------------------------------------------------------
(* Properties                                                              *)

\* notifyWhenIdle never finds an earlier monitor in place: its checkState
\* ("cannot monitor for idle recursively!") never fails in Espresso's loop.
NeverRecursive == pc[Main] # "recursive"

\* Once the callback has run, no barrier task of that monitor is left in the
\* pool, where it would block a thread for ever.
NoLeftoverBarrierTasks ==
  \A m \in Monitors : fired[m] > 0 =>
    /\ \A i \in DOMAIN queue : queue[i] # m
    /\ \A w \in Workers : job[w] = m => pc[w] \in {"released", "done"}

\* isIdleNow does not answer true while a task that was running when it was
\* called still runs: the subtraction of activeBarrierChecks hides barrier
\* tasks only.
RunningWorkIsSeen ==
  [][pc[Main] \in IdleStates /\ pc'[Main] = "free"
       => watched = {}]_vars

\* The javadoc of isIdleNow: "Checks if the pool is idle at this moment."  A
\* task submitted before the call and still unfinished when it answers true
\* contradicts it.
IdleNowMeansIdle ==
  [][pc[Main] \in IdleStates /\ pc'[Main] = "free"
       => awaited = {}]_vars

\* When the barrier action has found the pool idle and the callback is about to
\* run, every task submitted before the barrier filled has finished, the ones
\* behind its tasks in the queue included.
TripIsTrueIdle ==
  \A w \in Workers : pc[w] \in {"m.clear", "m.fire"}
                       => owed[job[w]] = {}

\* The main thread that waits for the pool is told.
IdleIsNotified == \A m \in Monitors : (current = m) ~> (fired[m] > 0)

\* The javadoc of cancelIdleMonitor: "we will stop/cancel any blockign tasks
\* we've placed on the thread pool".
CancelFreesWorkers ==
  \A m \in Monitors, w \in Workers :
    (m \in poisoned /\ job[w] = m) ~> (job[w] # m)

-----------------------------------------------------------------------------
(* The monitor implements IdleNotifier: one callback for each notifyWhenIdle, *)
(* at most once, possibly after it was cancelled.                             *)

Notifier ==
  INSTANCE IdleNotifier
    WITH MaxCallbacks <- MaxMonitors,
         MayCallLate  <- TRUE,
         last         <- current,
         calls        <- fired,
         registered   <- IF /\ pc[Main] \in ForIdleStates \cup {"wait", "cancel"}
                            /\ fired[current] = 0
                         THEN current ELSE None

\* Every step is a step of IdleNotifier, or changes nothing it shows: no second
\* callback, no registration over another.
ImplementsIdleNotifier == Notifier!Spec

-----------------------------------------------------------------------------
(***************************************************************************)
(* The inductive invariant behind TripIsTrueIdle, when the pool starts no  *)
(* thread above its core size (the fixed pools).                           *)
(***************************************************************************)

\* A thread inside a task holds a task of that kind, of a known monitor.
JobInv ==
  \A w \in Workers :
    /\ pc[w] = "claimed" => job[w] \in Jobs
    /\ pc[w] = "run" => job[w] \in Tasks
    /\ pc[w] \in BarrierStates => job[w] \in Monitors
    /\ job[w] \in Monitors => job[w] <= current

QueueInv == \A i \in 1 .. Len(queue) : queue[i] \in Monitors => queue[i] <= current

\* The main thread is inside notifyWhenIdle, or waits, for a monitor it created.
MainInv == pc[Main] \in {"wait", "cancel", "poison", "reset"} \cup ForIdleStates
             => current # None

\* An unfinished task is in the work queue or with a worker.
HeldInv ==
  \A t \in outstanding :
    \/ \E i \in 1 .. Len(queue) : queue[i] = t
    \/ \E w \in Workers : pc[w] \in {"claimed", "run"} /\ job[w] = t

OwedInv == \A m \in Monitors : owed[m] \subseteq outstanding

\* While one thread runs the barrier action all others wait at that barrier;
\* past its look at the empty queue nothing owed is left.
BarrierInv ==
  \A w \in Workers :
    /\ pc[w] \in ActionStates =>
         \A v \in Workers \ {w} : pc[v] = "waiting" /\ job[v] = job[w]
    /\ pc[w] \in {"m.active", "m.monitor", "m.checks", "m.clear", "m.fire"}
         => owed[job[w]] = {}

TripInv == /\ TypeOK /\ JobInv /\ QueueInv /\ MainInv
           /\ HeldInv /\ OwedInv /\ BarrierInv
=============================================================================
