---------------------- MODULE AsyncTaskPoolMonitorProofs ----------------------
(***************************************************************************)
(* Proofs about AsyncTaskPoolMonitor, for every pool and every number of   *)
(* tasks and monitors.                                                     *)
(***************************************************************************)
EXTENDS AsyncTaskPoolMonitor, FiniteSetTheorems, SequenceTheorems, TLAPS

-----------------------------------------------------------------------------
(* What the two ways of moving a program counter do.                       *)

\* A move of one thread's program counter stays within the program points
\* and leaves the other threads where they were.
LEMMA GotoStep ==
  ASSUME pc \in [Threads -> States], NEW t \in Threads, NEW from,
         NEW to \in States, Goto(t, from, to)
  PROVE  /\ pc' \in [Threads -> States]
         /\ pc[t] = from /\ pc'[t] = to
         /\ \A x \in Threads \ {t} : pc'[x] = pc[x]
  BY DEF Goto

\* Waking a barrier moves its waiting workers and the caller, nobody else.
LEMMA WakeStep ==
  ASSUME pc \in [Threads -> States], NEW m, NEW t \in Threads,
         NEW to \in States, NEW woken \in States, Wake(m, t, to, woken)
  PROVE  /\ pc' \in [Threads -> States]
         /\ pc'[t] = to
         /\ \A x \in Threads \ {t} :
              pc'[x] = pc[x] \/ (pc[x] = "waiting" /\ pc'[x] = woken)
  BY DEF Wake, Waiting

\* The pool has at least one core thread and finitely many workers.
LEMMA PoolSizes == CorePoolSize \in Nat \ {0} /\ Cardinality(Workers) \in Nat
  BY PoolAssumption, FS_CardinalityType

\* The program points the module names are program points.
LEMMA InStates ==
  {"free", "wait", "waiting", "caught", "tripped", "decrement", "released"}
    \subseteq States
  BY DEF States, MainStates, WorkerStates, BusyStates, BarrierStates,
         CountedStates, ActionStates

\* Every worker is a thread other than the main one.
LEMMA WorkersAreThreads ==
  Main \in Threads /\ Main \notin Workers /\ Workers \subseteq Threads
  BY PoolAssumption DEF Threads

\* The part of the invariant that needs no assumption on the pool's size.
BaseInv == TypeOK /\ JobInv /\ QueueInv /\ MainInv

USE DEF None, monitorVars, barrierVars, historyVars, poolVars

\* The program starts in the base invariant.
LEMMA InitBase == Init => BaseInv
  <1>. SUFFICES ASSUME Init PROVE BaseInv
    OBVIOUS
  <1>1. pc \in [Threads -> States]
    BY DEF Init, States, MainStates, WorkerStates
  <1>2. DataOK
    BY PoolAssumption DEF Init, DataOK, Monitors
  <1>3. JobInv /\ QueueInv /\ MainInv
    BY WorkersAreThreads
       DEF Init, JobInv, QueueInv, MainInv, Monitors, BarrierStates,
           CountedStates, ActionStates, ForIdleStates
  <1>. QED  BY <1>1, <1>2, <1>3 DEF BaseInv, TypeOK

\* A worker inside a barrier task holds the task of a monitor.
LEMMA BarrierJob ==
  ASSUME BaseInv, NEW w \in Workers, pc[w] \in BarrierStates
  PROVE  job[w] \in Monitors /\ job[w] <= current
  BY DEF BaseInv, JobInv

\* A step of a barrier task keeps the base invariant.
LEMMA BarrierTaskBase ==
  ASSUME BaseInv, NEW w \in Workers, BarrierTask(w) \/ Interrupt(w)
  PROVE  BaseInv'
  <1>1. CASE CheckPoisoned(w)
    <2>1. /\ pc' \in [Threads -> States]
          /\ pc[w] \in {"check"} /\ pc'[w] \in {"done", "count"}
          /\ \A x \in Threads \ {w} : pc'[x] = pc[x]
      BY <1>1, WorkersAreThreads, GotoStep
         DEF CheckPoisoned, BaseInv, TypeOK, States, MainStates, WorkerStates, BusyStates,
             BarrierStates, CountedStates, ActionStates, ForIdleStates,
             IdleStates
    <2>2. DataOK'
      BY <1>1, PoolAssumption DEF CheckPoisoned, BaseInv, TypeOK, DataOK
    <2>3. JobInv' /\ QueueInv' /\ MainInv'
      BY <1>1, <2>1, WorkersAreThreads
         DEF CheckPoisoned, BaseInv, JobInv, QueueInv, MainInv, BarrierStates,
             CountedStates, ActionStates, ForIdleStates
    <2>. QED  BY <2>1, <2>2, <2>3 DEF BaseInv, TypeOK
  <1>2. CASE CountCheck(w)
    <2>1. /\ pc' \in [Threads -> States]
          /\ pc[w] \in {"count"} /\ pc'[w] \in {"generation"}
          /\ \A x \in Threads \ {w} : pc'[x] = pc[x]
      BY <1>2, WorkersAreThreads, GotoStep
         DEF CountCheck, BaseInv, TypeOK, States, MainStates, WorkerStates, BusyStates,
             BarrierStates, CountedStates, ActionStates, ForIdleStates,
             IdleStates
    <2>2. DataOK'
      BY <1>2, PoolAssumption DEF CountCheck, BaseInv, TypeOK, DataOK
    <2>3. JobInv' /\ QueueInv' /\ MainInv'
      BY <1>2, <2>1, WorkersAreThreads
         DEF CountCheck, BaseInv, JobInv, QueueInv, MainInv, BarrierStates,
             CountedStates, ActionStates, ForIdleStates
    <2>. QED  BY <2>1, <2>2, <2>3 DEF BaseInv, TypeOK
  <1>3. CASE ReadGeneration(w)
    <2>0. job[w] \in Monitors
      BY <1>3, BarrierJob DEF ReadGeneration, Goto, BarrierStates, CountedStates, ActionStates
    <2>1. /\ pc' \in [Threads -> States]
          /\ pc[w] \in {"generation"} /\ pc'[w] \in {"await"}
          /\ \A x \in Threads \ {w} : pc'[x] = pc[x]
      BY <1>3, WorkersAreThreads, GotoStep
         DEF ReadGeneration, BaseInv, TypeOK, States, MainStates, WorkerStates, BusyStates,
             BarrierStates, CountedStates, ActionStates, ForIdleStates,
             IdleStates
    <2>2. DataOK'
      BY <1>3, <2>0, PoolAssumption DEF ReadGeneration, BaseInv, TypeOK, DataOK
    <2>3. JobInv' /\ QueueInv' /\ MainInv'
      BY <1>3, <2>0, <2>1, WorkersAreThreads
         DEF ReadGeneration, BaseInv, JobInv, QueueInv, MainInv, BarrierStates,
             CountedStates, ActionStates, ForIdleStates
    <2>. QED  BY <2>1, <2>2, <2>3 DEF BaseInv, TypeOK
  <1>4. CASE Await(w)
    <2>0. job[w] \in Monitors
      BY <1>4, BarrierJob DEF Await, BarrierStates, CountedStates
    <2>1. /\ pc' \in [Threads -> States]
          /\ pc[w] = "await" /\ pc'[w] \in {"caught", "waiting", "tripped"}
          /\ \A x \in Threads \ {w} :
               pc'[x] = pc[x] \/ (pc[x] = "waiting" /\ pc'[x] = "caught")
      <3>1. CASE Wake(job[w], w, "caught", "caught")
        <4>1. pc[w] = "await"
          BY <1>4 DEF Await
        <4>. QED  BY <4>1, <3>1, WorkersAreThreads, WakeStep, InStates
                  DEF BaseInv, TypeOK
      <3>2. CASE \E to \in {"caught", "waiting", "tripped"} : Goto(w, "await", to)
        BY <1>4, <3>2, WorkersAreThreads, GotoStep, InStates
           DEF Await, BaseInv, TypeOK
      <3>. QED  BY <1>4, <3>1, <3>2 DEF Await
    <2>2. DataOK'
      BY <1>4, <2>0, PoolAssumption DEF Await, BaseInv, TypeOK, DataOK
    <2>3. JobInv' /\ QueueInv' /\ MainInv'
      BY <1>4, <2>0, <2>1, WorkersAreThreads
         DEF Await, BaseInv, JobInv, QueueInv, MainInv, BarrierStates,
             CountedStates, ActionStates, ForIdleStates
    <2>. QED  BY <2>1, <2>2, <2>3 DEF BaseInv, TypeOK
  <1>5. CASE BarrierTripped(w)
    <2>1. /\ pc' \in [Threads -> States]
          /\ pc[w] \in {"tripped"} /\ pc'[w] \in {"m.clear", "m.poisoned"}
          /\ \A x \in Threads \ {w} : pc'[x] = pc[x]
      BY <1>5, WorkersAreThreads, GotoStep
         DEF BarrierTripped, BaseInv, TypeOK, States, MainStates, WorkerStates, BusyStates,
             BarrierStates, CountedStates, ActionStates, ForIdleStates,
             IdleStates
    <2>2. DataOK'
      BY <1>5, PoolAssumption DEF BarrierTripped, BaseInv, TypeOK, DataOK
    <2>3. JobInv' /\ QueueInv' /\ MainInv'
      BY <1>5, <2>1, WorkersAreThreads
         DEF BarrierTripped, BaseInv, JobInv, QueueInv, MainInv, BarrierStates,
             CountedStates, ActionStates, ForIdleStates
    <2>. QED  BY <2>1, <2>2, <2>3 DEF BaseInv, TypeOK
  <1>6. CASE Restart(w)
    <2>0. job[w] \in Monitors
      BY <1>6, BarrierJob DEF Restart, Goto, BarrierStates, CountedStates, ActionStates
    <2>1. /\ pc' \in [Threads -> States]
          /\ pc[w] \in {"caught"} /\ pc'[w] \in {"restart", "decrement"}
          /\ \A x \in Threads \ {w} : pc'[x] = pc[x]
      BY <1>6, WorkersAreThreads, GotoStep
         DEF Restart, BaseInv, TypeOK, States, MainStates, WorkerStates, BusyStates,
             BarrierStates, CountedStates, ActionStates, ForIdleStates,
             IdleStates
    <2>2. DataOK'
      <3>1. /\ generation \in [Monitors -> Nat]
            /\ generation' = generation
                 \/ generation' = [generation EXCEPT ![job[w]] = @ + 1]
        BY <1>6 DEF Restart, BaseInv, TypeOK, DataOK
      <3>2. generation' \in [Monitors -> Nat]
        BY <3>1, <2>0
      <3>3. UNCHANGED <<monitorVars, poolVars, historyVars, broken,
                        myGeneration, interrupted, interrupts, active, left>>
        BY <1>6 DEF Restart
      <3>. QED
        BY <3>2, <3>3 DEF BaseInv, TypeOK, DataOK, monitorVars, poolVars,
                          historyVars
    <2>3. JobInv' /\ QueueInv' /\ MainInv'
      BY <1>6, <2>0, <2>1, WorkersAreThreads
         DEF Restart, BaseInv, JobInv, QueueInv, MainInv, BarrierStates,
             CountedStates, ActionStates, ForIdleStates
    <2>. QED  BY <2>1, <2>2, <2>3 DEF BaseInv, TypeOK
  <1>7. CASE RestartReset(w)
    <2>1. /\ pc' \in [Threads -> States]
          /\ pc[w] = "restart" /\ pc'[w] = "decrement"
          /\ \A x \in Threads \ {w} :
               pc'[x] = pc[x] \/ (pc[x] = "waiting" /\ pc'[x] = "caught")
      <3>1. Wake(job[w], w, "decrement", "caught") /\ pc[w] = "restart"
        BY <1>7 DEF RestartReset, ResetBarrier
      <3>. QED  BY <3>1, WorkersAreThreads, WakeStep, InStates DEF BaseInv, TypeOK
    <2>2. DataOK'
      BY <1>7, PoolAssumption DEF RestartReset, ResetBarrier, BaseInv, TypeOK, DataOK
    <2>3. JobInv' /\ QueueInv' /\ MainInv'
      BY <1>7, <2>1, WorkersAreThreads
         DEF RestartReset, ResetBarrier, BaseInv, JobInv, QueueInv, MainInv,
             BarrierStates, CountedStates, ActionStates, ForIdleStates
    <2>. QED  BY <2>1, <2>2, <2>3 DEF BaseInv, TypeOK
  <1>8. CASE UncountCheck(w)
    <2>1. /\ pc' \in [Threads -> States]
          /\ pc[w] \in {"decrement", "released"} /\ pc'[w] \in {"check", "done"}
          /\ \A x \in Threads \ {w} : pc'[x] = pc[x]
      BY <1>8, WorkersAreThreads, GotoStep
         DEF UncountCheck, BaseInv, TypeOK, States, MainStates, WorkerStates, BusyStates,
             BarrierStates, CountedStates, ActionStates, ForIdleStates,
             IdleStates
    <2>2. DataOK'
      BY <1>8, PoolAssumption DEF UncountCheck, BaseInv, TypeOK, DataOK
    <2>3. JobInv' /\ QueueInv' /\ MainInv'
      BY <1>8, <2>1, WorkersAreThreads
         DEF UncountCheck, BaseInv, JobInv, QueueInv, MainInv, BarrierStates,
             CountedStates, ActionStates, ForIdleStates
    <2>. QED  BY <2>1, <2>2, <2>3 DEF BaseInv, TypeOK
  <1>9. CASE Interrupt(w)
    <2>0. job[w] \in Monitors
      BY <1>9, BarrierJob DEF Interrupt
    <2>1. /\ pc' \in [Threads -> States]
          /\ \A x \in Threads :
               pc'[x] = pc[x] \/ (pc[x] = "waiting" /\ pc'[x] = "caught")
      <3>1. CASE pc[w] = "waiting" /\ ~Locked(job[w])
        BY <1>9, <3>1, WorkersAreThreads, WakeStep
           DEF Interrupt, BaseInv, TypeOK, States, WorkerStates, BusyStates,
               BarrierStates, CountedStates, Waiting
      <3>2. CASE ~(pc[w] = "waiting" /\ ~Locked(job[w]))
        BY <1>9, <3>2 DEF Interrupt, BaseInv, TypeOK
      <3>. QED  BY <3>1, <3>2
    <2>2. DataOK'
      BY <1>9, <2>0, PoolAssumption DEF Interrupt, BaseInv, TypeOK, DataOK
    <2>3. JobInv' /\ QueueInv' /\ MainInv'
      BY <1>9, <2>0, <2>1, WorkersAreThreads
         DEF Interrupt, BaseInv, JobInv, QueueInv, MainInv, BarrierStates,
             CountedStates, ActionStates, ForIdleStates
    <2>. QED  BY <2>1, <2>2, <2>3 DEF BaseInv, TypeOK
  <1>. QED  BY <1>1, <1>2, <1>3, <1>4, <1>5, <1>6, <1>7, <1>8, <1>9
            DEF BarrierTask

\* A step of the pool's own loop keeps the base invariant.
LEMMA PoolBase ==
  ASSUME BaseInv, NEW w \in Workers, PoolWorker(w) \/ KeepAliveEnds(w)
  PROVE  BaseInv'
  <1>1. CASE Take(w)
    <2>0. /\ Head(queue) \in Jobs /\ Tail(queue) \in Seq(Jobs)
          /\ \A i \in 1 .. Len(Tail(queue)) : Tail(queue)[i] \in Monitors
                                               => Tail(queue)[i] <= current
          /\ Head(queue) \in Monitors => Head(queue) <= current
      BY <1>1, HeadTailProperties
         DEF Take, BaseInv, TypeOK, DataOK, QueueInv
    <2>1. /\ pc' \in [Threads -> States]
          /\ pc[w] \in {"parked"} /\ pc'[w] \in {"claimed"}
          /\ \A x \in Threads \ {w} : pc'[x] = pc[x]
      BY <1>1, WorkersAreThreads, GotoStep
         DEF Take, BaseInv, TypeOK, States, WorkerStates
    <2>2. DataOK'
      BY <1>1, <2>0 DEF Take, BaseInv, TypeOK, DataOK
    <2>3. JobInv'
      BY <1>1, <2>0, <2>1, WorkersAreThreads
         DEF Take, BaseInv, TypeOK, DataOK, JobInv, BarrierStates,
             CountedStates, ActionStates, ForIdleStates
    <2>4. QueueInv' /\ MainInv'
      BY <1>1, <2>0, <2>1, WorkersAreThreads
         DEF Take, BaseInv, QueueInv, MainInv
    <2>. QED  BY <2>1, <2>2, <2>3, <2>4 DEF BaseInv, TypeOK
  <1>2. CASE Lock(w)
    <2>1. /\ pc' \in [Threads -> States]
          /\ pc[w] \in {"claimed"} /\ pc'[w] \in {"run", "check"}
          /\ \A x \in Threads \ {w} : pc'[x] = pc[x]
      BY <1>2, WorkersAreThreads, GotoStep
         DEF Lock, BaseInv, TypeOK, States, MainStates, WorkerStates, BusyStates,
             BarrierStates, CountedStates, ActionStates, ForIdleStates,
             IdleStates
    <2>2. DataOK'
      BY <1>2, PoolAssumption DEF Lock, BaseInv, TypeOK, DataOK
    <2>3. JobInv' /\ QueueInv' /\ MainInv'
      BY <1>2, <2>1, WorkersAreThreads
         DEF Lock, BaseInv, JobInv, QueueInv, MainInv, BarrierStates,
             CountedStates, ActionStates, ForIdleStates, Jobs,
             Goto, TypeOK, DataOK
    <2>. QED  BY <2>1, <2>2, <2>3 DEF BaseInv, TypeOK
  <1>3. CASE FinishTask(w)
    <2>0. job[w] \in Tasks
      BY <1>3, <1>3 DEF FinishTask, Goto, BaseInv, JobInv
    <2>1. /\ pc' \in [Threads -> States]
          /\ pc[w] \in {"run"} /\ pc'[w] \in {"done"}
          /\ \A x \in Threads \ {w} : pc'[x] = pc[x]
      BY <1>3, WorkersAreThreads, GotoStep
         DEF FinishTask, BaseInv, TypeOK, States, MainStates, WorkerStates, BusyStates,
             BarrierStates, CountedStates, ActionStates, ForIdleStates,
             IdleStates
    <2>2. DataOK'
      BY <1>3, <2>0, PoolAssumption DEF FinishTask, BaseInv, TypeOK, DataOK
    <2>3. JobInv' /\ QueueInv' /\ MainInv'
      BY <1>3, <2>0, <2>1, WorkersAreThreads
         DEF FinishTask, BaseInv, JobInv, QueueInv, MainInv, BarrierStates,
             CountedStates, ActionStates, ForIdleStates
    <2>. QED  BY <2>1, <2>2, <2>3 DEF BaseInv, TypeOK
  <1>4. CASE Unlock(w)
    <2>1. /\ pc' \in [Threads -> States]
          /\ pc[w] \in {"done"} /\ pc'[w] \in {"parked"}
          /\ \A x \in Threads \ {w} : pc'[x] = pc[x]
      BY <1>4, WorkersAreThreads, GotoStep
         DEF Unlock, BaseInv, TypeOK, States, MainStates, WorkerStates, BusyStates,
             BarrierStates, CountedStates, ActionStates, ForIdleStates,
             IdleStates
    <2>2. DataOK'
      BY <1>4, PoolAssumption DEF Unlock, BaseInv, TypeOK, DataOK
    <2>3. JobInv' /\ QueueInv' /\ MainInv'
      BY <1>4, <2>1, WorkersAreThreads
         DEF Unlock, BaseInv, JobInv, QueueInv, MainInv, BarrierStates,
             CountedStates, ActionStates, ForIdleStates,
             TypeOK, DataOK, Monitors
    <2>. QED  BY <2>1, <2>2, <2>3 DEF BaseInv, TypeOK
  <1>5. CASE KeepAliveEnds(w)
    <2>1. /\ pc' \in [Threads -> States]
          /\ pc[w] \in {"parked"} /\ pc'[w] \in {"none"}
          /\ \A x \in Threads \ {w} : pc'[x] = pc[x]
      BY <1>5, WorkersAreThreads, GotoStep
         DEF KeepAliveEnds, BaseInv, TypeOK, States, MainStates, WorkerStates, BusyStates,
             BarrierStates, CountedStates, ActionStates, ForIdleStates,
             IdleStates
    <2>2. DataOK'
      BY <1>5, PoolAssumption DEF KeepAliveEnds, BaseInv, TypeOK, DataOK
    <2>3. JobInv' /\ QueueInv' /\ MainInv'
      BY <1>5, <2>1, WorkersAreThreads
         DEF KeepAliveEnds, BaseInv, JobInv, QueueInv, MainInv, BarrierStates,
             CountedStates, ActionStates, ForIdleStates
    <2>. QED  BY <2>1, <2>2, <2>3 DEF BaseInv, TypeOK
  <1>. QED  BY <1>1, <1>2, <1>3, <1>4, <1>5 DEF PoolWorker

\* What an accepted task does to the pool, whoever submits it.
LEMMA ExecuteBase ==
  ASSUME BaseInv, NEW j \in Jobs, j \in Monitors => j <= current,
         Execute(j, pc), current' = current
  PROVE  /\ pc' \in [Threads -> States] /\ pc'[Main] = pc[Main]
         /\ queue' \in Seq(Jobs)
         /\ job' \in [Workers -> Jobs \cup {None}]
         /\ JobInv' /\ QueueInv'
  <1>1. CASE \E w \in Workers : /\ pc[w] = "none"
                                /\ pc' = [pc EXCEPT ![w] = "claimed"]
                                /\ job' = [job EXCEPT ![w] = j]
                                /\ UNCHANGED queue
    <2>1. PICK w \in Workers : /\ pc[w] = "none"
                               /\ pc' = [pc EXCEPT ![w] = "claimed"]
                               /\ job' = [job EXCEPT ![w] = j]
                               /\ UNCHANGED queue
      BY <1>1
    <2>2. /\ pc' \in [Threads -> States] /\ pc'[w] = "claimed"
          /\ \A x \in Threads \ {w} : pc'[x] = pc[x]
      BY <2>1, WorkersAreThreads DEF BaseInv, TypeOK, States, WorkerStates
    <2>3. /\ job' \in [Workers -> Jobs \cup {None}]
          /\ queue' \in Seq(Jobs)
      BY <2>1 DEF BaseInv, TypeOK, DataOK
    <2>4. JobInv'
      BY <2>1, <2>2, WorkersAreThreads
         DEF BaseInv, TypeOK, DataOK, JobInv, BarrierStates, CountedStates,
             ActionStates, ForIdleStates
    <2>5. QueueInv'
      BY <2>1 DEF BaseInv, QueueInv
    <2>. QED  BY <2>2, <2>3, <2>4, <2>5, WorkersAreThreads
  <1>2. CASE queue' = Append(queue, j) /\ pc' = pc /\ UNCHANGED job
    <2>1. queue' \in Seq(Jobs) /\ QueueInv'
      BY <1>2 DEF BaseInv, TypeOK, DataOK, QueueInv
    <2>2. JobInv'
      BY <1>2 DEF BaseInv, JobInv
    <2>. QED  BY <1>2, <2>1, <2>2 DEF BaseInv, TypeOK, DataOK
  <1>. QED  BY <1>1, <1>2 DEF Execute

\* Returning from monitorForIdle, to the loop or out of the barrier action.
LEMMA ReturnStep ==
  ASSUME pc \in [Threads -> States], NEW t \in Threads, Return(t)
  PROVE  /\ pc' \in [Threads -> States]
         /\ pc'[t] = IF t = Main THEN "wait" ELSE "released"
         /\ \A x \in Threads \ {t} :
              pc'[x] = pc[x] \/ (pc[x] = "waiting" /\ pc'[x] = "released")
  <1>1. CASE t = Main
    BY <1>1, InStates DEF Return
  <1>2. CASE t # Main
    BY <1>2, InStates, WakeStep DEF Return
  <1>. QED  BY <1>1, <1>2

\* A thread in monitorForIdle works for a monitor that exists.
LEMMA MonitorKnown ==
  ASSUME BaseInv, NEW t \in Threads, pc[t] \in ForIdleStates
  PROVE  MonitorOf(t) \in Monitors /\ MonitorOf(t) <= current
  BY WorkersAreThreads
     DEF BaseInv, TypeOK, DataOK, MainInv, JobInv, MonitorOf, Threads, Monitors,
         BarrierStates, CountedStates, ActionStates

\* A step inside monitorForIdle keeps what is known of the tasks and monitors.
LEMMA ReturnKeeps ==
  ASSUME BaseInv, NEW t \in Threads, DataOK',
         pc' \in [Threads -> States],
         pc[t] \in ForIdleStates,
         pc'[t] \in {"m.queue", "m.fire", IF t = Main THEN "wait" ELSE "released"},
         \A x \in Threads \ {t} :
           pc'[x] = pc[x] \/ (pc[x] = "waiting" /\ pc'[x] = "released"),
         UNCHANGED <<queue, job, current>>
  PROVE  BaseInv'
  <1>1. JobInv' /\ QueueInv'
    BY WorkersAreThreads
       DEF BaseInv, JobInv, QueueInv, ForIdleStates, BarrierStates,
           CountedStates, ActionStates
  <1>2. MainInv'
    BY WorkersAreThreads DEF BaseInv, MainInv, ForIdleStates
  <1>. QED  BY <1>1, <1>2 DEF BaseInv, TypeOK

\* A step of monitorForIdle, on the main thread or in the barrier
\* action, keeps the base invariant.
LEMMA ForIdleBase ==
  ASSUME BaseInv, NEW t \in Threads, ForIdle(t)
  PROVE  BaseInv'
  <1>0. pc \in [Threads -> States]
    BY DEF BaseInv, TypeOK
  <1>1. CASE IsIdleNow(t)
    <2>1. PICK c \in Calls : ReadQueue(t, c) \/ ReadActive(t, c)
                               \/ ReadMonitor(t, c) \/ ReadChecks(t, c)
      BY <1>1 DEF IsIdleNow
    <2>2. /\ {c.queue, c.active, c.monitor, c.checks, c.idle, c.busy} \subseteq States
          /\ c.queue \in ForIdleStates => c = Repoll
          /\ c = Repoll => {c.queue, c.active, c.monitor, c.checks, c.idle, c.busy}
                               \subseteq ForIdleStates
          /\ c # Repoll => c = Poll
      BY DEF Calls, Poll, Repoll, States, MainStates, IdleStates, ForIdleStates
    <2>3. PICK from, to \in {c.queue, c.active, c.monitor, c.checks, c.idle, c.busy} :
             Goto(t, from, to)
      BY <2>1 DEF ReadQueue, ReadActive, ReadMonitor, ReadChecks
    <2>4. /\ pc' \in [Threads -> States]
          /\ pc[t] = from /\ pc'[t] = to
          /\ \A x \in Threads \ {t} : pc'[x] = pc[x]
      BY <1>0, <2>2, <2>3, GotoStep
    <2>5. Cardinality({w \in Workers : pc[w] \in BusyStates}) \in Nat
      BY PoolAssumption, FS_Subset, FS_CardinalityType
    <2>6. DataOK'
      BY <1>1, <2>1, <2>5
         DEF IsIdleNow, ReadQueue, ReadActive, ReadMonitor, ReadChecks,
             ActiveCount, BaseInv, TypeOK, DataOK
    <2>7. /\ pc'[t] \in BarrierStates => pc[t] \in BarrierStates
          /\ pc'[t] \in ForIdleStates => pc[t] \in ForIdleStates
          /\ pc'[t] \notin {"claimed", "run", "wait", "cancel", "poison", "reset"}
      <3>1. CASE c = Poll
        BY <3>1, <2>3, <2>4
           DEF Poll, ForIdleStates, BarrierStates, CountedStates, ActionStates
      <3>2. CASE c = Repoll
        BY <3>2, <2>3, <2>4
           DEF Repoll, ForIdleStates, BarrierStates, CountedStates, ActionStates
      <3>. QED  BY <3>1, <3>2, <2>2
    <2>8. UNCHANGED <<queue, job, current>>
      BY <1>1 DEF IsIdleNow
    <2>9. JobInv' /\ QueueInv' /\ MainInv'
      BY <2>4, <2>7, <2>8, WorkersAreThreads
         DEF BaseInv, JobInv, QueueInv, MainInv
    <2>. QED  BY <2>4, <2>6, <2>9 DEF BaseInv, TypeOK
  <1>2. CASE MonitorForIdle(t)
    <2>1. /\ pc' \in [Threads -> States]
          /\ pc[t] \in ForIdleStates
          /\ pc'[t] \in {"m.queue", IF t = Main THEN "wait" ELSE "released"}
          /\ \A x \in Threads \ {t} :
               pc'[x] = pc[x] \/ (pc[x] = "waiting" /\ pc'[x] = "released")
      <3>1. pc[t] \in ForIdleStates
        BY <1>2 DEF MonitorForIdle, ForIdleStates
      <3>2. CASE Return(t)
        BY <1>0, <3>1, <3>2, ReturnStep
      <3>3. CASE Goto(t, "m.poisoned", "m.queue")
        BY <1>0, <3>1, <3>3, GotoStep DEF States, MainStates, ForIdleStates
      <3>. QED  BY <1>2, <3>2, <3>3 DEF MonitorForIdle
    <2>2. DataOK'
      BY <1>2, PoolSizes DEF MonitorForIdle, BaseInv, TypeOK, DataOK
    <2>3. UNCHANGED <<queue, job, current>>
      BY <1>2 DEF MonitorForIdle
    <2>. QED  BY <2>1, <2>2, <2>3, ReturnKeeps
  <1>3. CASE ClearMonitor(t)
    <2>1. /\ pc' \in [Threads -> States]
          /\ pc[t] \in ForIdleStates
          /\ pc'[t] = "m.fire"
          /\ \A x \in Threads \ {t} : pc'[x] = pc[x]
      BY <1>3, <1>0, GotoStep DEF ClearMonitor, States, MainStates, ForIdleStates
    <2>2. DataOK'
      BY <1>3 DEF ClearMonitor, BaseInv, TypeOK, DataOK
    <2>3. UNCHANGED <<queue, job, current>>
      BY <1>3 DEF ClearMonitor
    <2>. QED  BY <2>1, <2>2, <2>3, ReturnKeeps
  <1>4. CASE OnIdle(t)
    <2>1. /\ pc' \in [Threads -> States]
          /\ pc[t] \in ForIdleStates
          /\ pc'[t] = IF t = Main THEN "wait" ELSE "released"
          /\ \A x \in Threads \ {t} :
               pc'[x] = pc[x] \/ (pc[x] = "waiting" /\ pc'[x] = "released")
      BY <1>4, <1>0, ReturnStep DEF OnIdle, ForIdleStates
    <2>2. DataOK'
      <3>1. MonitorOf(t) \in Monitors
        BY <2>1, MonitorKnown
      <3>2. fired[MonitorOf(t)] + 1 \in Nat
        BY <3>1 DEF BaseInv, TypeOK, DataOK
      <3>. QED  BY <1>4, <3>1, <3>2 DEF OnIdle, BaseInv, TypeOK, DataOK
    <2>3. UNCHANGED <<queue, job, current>>
      BY <1>4 DEF OnIdle
    <2>. QED  BY <2>1, <2>2, <2>3, ReturnKeeps
  <1>5. CASE ExecuteBarrierTask(t) /\ left[t] = 0
    <2>1. /\ pc' \in [Threads -> States]
          /\ pc[t] \in ForIdleStates
          /\ pc'[t] = IF t = Main THEN "wait" ELSE "released"
          /\ \A x \in Threads \ {t} :
               pc'[x] = pc[x] \/ (pc[x] = "waiting" /\ pc'[x] = "released")
      BY <1>5, <1>0, ReturnStep DEF ExecuteBarrierTask, ForIdleStates
    <2>2. DataOK'
      BY <1>5 DEF ExecuteBarrierTask, BaseInv, TypeOK, DataOK
    <2>3. UNCHANGED <<queue, job, current>>
      BY <1>5 DEF ExecuteBarrierTask
    <2>. QED  BY <2>1, <2>2, <2>3, ReturnKeeps
  <1>6. CASE ExecuteBarrierTask(t) /\ left[t] # 0
    <2>1. MonitorOf(t) \in Jobs /\ MonitorOf(t) <= current
      BY <1>6, MonitorKnown DEF ExecuteBarrierTask, ForIdleStates, Jobs
    <2>2. Execute(MonitorOf(t), pc) /\ current' = current
      BY <1>6 DEF ExecuteBarrierTask
    <2>3. /\ pc' \in [Threads -> States] /\ pc'[Main] = pc[Main]
          /\ queue' \in Seq(Jobs)
          /\ job' \in [Workers -> Jobs \cup {None}]
          /\ JobInv' /\ QueueInv'
      BY <2>1, <2>2, ExecuteBase
    <2>4. DataOK'
      <3>1. left' = [left EXCEPT ![t] = left[t] - 1] /\ left[t] - 1 \in Nat
        BY <1>6 DEF ExecuteBarrierTask, BaseInv, TypeOK, DataOK
      <3>2. UNCHANGED <<monitorVars, barrierVars, historyVars, interrupts,
                        active, outstanding, finished>>
        BY <1>6 DEF ExecuteBarrierTask
      <3>. QED  BY <2>3, <3>1, <3>2 DEF BaseInv, TypeOK, DataOK
    <2>5. MainInv'
      BY <2>2, <2>3 DEF BaseInv, MainInv
    <2>. QED  BY <2>3, <2>4, <2>5 DEF BaseInv, TypeOK
  <1>. QED  BY <1>1, <1>2, <1>3, <1>4, <1>5, <1>6 DEF ForIdle, ExecuteBarrierTask

\* A step of the main thread between its calls.
LEMMA MainKeeps ==
  ASSUME BaseInv, DataOK', pc' \in [Threads -> States],
         \/ pc[Main] \in {"wait", "cancel", "poison"}
         \/ pc'[Main] = "free",
         \A x \in Threads \ {Main} : pc'[x] = pc[x],
         UNCHANGED <<queue, job, current>>
  PROVE  BaseInv'
  <1>1. JobInv' /\ QueueInv'
    BY WorkersAreThreads DEF BaseInv, JobInv, QueueInv
  <1>2. MainInv'
    BY DEF BaseInv, MainInv, ForIdleStates
  <1>. QED  BY <1>1, <1>2 DEF BaseInv, TypeOK

\* A step of the main thread keeps the base invariant.
LEMMA MainBase ==
  ASSUME BaseInv, MainStep
  PROVE  BaseInv'
  <1>0. pc \in [Threads -> States]
    BY DEF BaseInv, TypeOK
  <1>1. CASE CallIsIdleNow
    <2>1. /\ pc' \in [Threads -> States]
          /\ pc'[Main] = "idle.queue"
          /\ \A x \in Threads \ {Main} : pc'[x] = pc[x]
      BY <1>0, <1>1, WorkersAreThreads, GotoStep
         DEF CallIsIdleNow, States, MainStates, IdleStates
    <2>2. DataOK'
      BY <1>1, JobsAssumption
         DEF CallIsIdleNow, Running, BaseInv, TypeOK, DataOK, JobInv
    <2>3. JobInv' /\ QueueInv' /\ MainInv'
      BY <1>1, <2>1, WorkersAreThreads
         DEF CallIsIdleNow, BaseInv, JobInv, QueueInv, MainInv, ForIdleStates
    <2>. QED  BY <2>1, <2>2, <2>3 DEF BaseInv, TypeOK
  <1>2. CASE NotifyWhenIdle
    <2>1. /\ pc' \in [Threads -> States]
          /\ \A x \in Threads \ {Main} : pc'[x] = pc[x]
      BY <1>0, <1>2, WorkersAreThreads, GotoStep
         DEF NotifyWhenIdle, States, MainStates, ForIdleStates
    <2>2. current' = current + 1 /\ current' \in Monitors
      BY <1>2, PoolAssumption DEF NotifyWhenIdle, BaseInv, TypeOK, DataOK, Monitors
    <2>3. DataOK'
      BY <1>2, <2>2 DEF NotifyWhenIdle, BaseInv, TypeOK, DataOK
    <2>4. current \in Int /\ \A m \in Monitors : m \in Int /\ (m <= current => m <= current')
      BY <2>2 DEF BaseInv, TypeOK, DataOK, Monitors
    <2>5. UNCHANGED <<queue, job>>
      BY <1>2 DEF NotifyWhenIdle
    <2>6. JobInv' /\ QueueInv'
      BY <2>1, <2>4, <2>5, WorkersAreThreads DEF BaseInv, JobInv, QueueInv
    <2>7. MainInv'
      BY <2>2 DEF MainInv, Monitors
    <2>. QED  BY <2>1, <2>3, <2>6, <2>7 DEF BaseInv, TypeOK
  <1>3. CASE NoMoreMonitors
    <2>1. /\ pc' \in [Threads -> States]
          /\ pc'[Main] = "free"
          /\ \A x \in Threads \ {Main} : pc'[x] = pc[x]
      BY <1>0, <1>3, WorkersAreThreads, GotoStep, InStates DEF NoMoreMonitors
    <2>2. DataOK' /\ UNCHANGED <<queue, job, current>>
      BY <1>3 DEF NoMoreMonitors, BaseInv, TypeOK, DataOK
    <2>. QED  BY <2>1, <2>2, MainKeeps
  <1>4. CASE StopWaiting
    <2>1. /\ pc' \in [Threads -> States]
          /\ pc[Main] = "wait"
          /\ \A x \in Threads \ {Main} : pc'[x] = pc[x]
      BY <1>0, <1>4, WorkersAreThreads, GotoStep DEF StopWaiting, States, MainStates
    <2>2. DataOK' /\ UNCHANGED <<queue, job, current>>
      BY <1>4 DEF StopWaiting, BaseInv, TypeOK, DataOK
    <2>. QED  BY <2>1, <2>2, MainKeeps
  <1>5. CASE CancelIdleMonitor
    <2>1. /\ pc' \in [Threads -> States]
          /\ pc[Main] = "cancel"
          /\ \A x \in Threads \ {Main} : pc'[x] = pc[x]
      BY <1>0, <1>5, WorkersAreThreads, GotoStep
         DEF CancelIdleMonitor, States, MainStates
    <2>2. DataOK' /\ UNCHANGED <<queue, job, current>>
      BY <1>5 DEF CancelIdleMonitor, BaseInv, TypeOK, DataOK
    <2>. QED  BY <2>1, <2>2, MainKeeps
  <1>6. CASE Poison
    <2>1. /\ pc' \in [Threads -> States]
          /\ pc[Main] = "poison"
          /\ \A x \in Threads \ {Main} : pc'[x] = pc[x]
      BY <1>0, <1>6, WorkersAreThreads, GotoStep DEF Poison, States, MainStates
    <2>2. current \in Monitors
      BY <2>1 DEF BaseInv, TypeOK, DataOK, MainInv
    <2>3. DataOK' /\ UNCHANGED <<queue, job, current>>
      BY <1>6, <2>2 DEF Poison, BaseInv, TypeOK, DataOK
    <2>. QED  BY <2>1, <2>3, MainKeeps
  <1>7. CASE PoisonReset
    <2>1. /\ pc' \in [Threads -> States]
          /\ pc'[Main] = "free"
          /\ \A x \in Threads \ {Main} :
               pc'[x] = pc[x] \/ (pc[x] = "waiting" /\ pc'[x] = "caught")
      BY <1>0, <1>7, WorkersAreThreads, WakeStep, InStates
         DEF PoisonReset, ResetBarrier
    <2>2. DataOK' /\ UNCHANGED <<queue, job, current>>
      BY <1>7 DEF PoisonReset, ResetBarrier, BaseInv, TypeOK, DataOK
    <2>3. JobInv' /\ QueueInv' /\ MainInv'
      BY <2>1, <2>2, WorkersAreThreads
         DEF BaseInv, JobInv, QueueInv, MainInv, BarrierStates, CountedStates,
             ActionStates, ForIdleStates
    <2>. QED  BY <2>1, <2>2, <2>3 DEF BaseInv, TypeOK
  <1>8. CASE ForIdle(Main)
    BY <1>8, WorkersAreThreads, ForIdleBase
  <1>. QED  BY <1>1, <1>2, <1>3, <1>4, <1>5, <1>6, <1>7, <1>8 DEF MainStep

\* A task the application submits keeps the base invariant.
LEMMA SubmitBase ==
  ASSUME BaseInv, NEW t \in Tasks, Submit(t)
  PROVE  BaseInv'
  <1>1. t \in Jobs /\ t \notin Monitors
    BY JobsAssumption DEF Jobs
  <1>2. Execute(t, pc) /\ current' = current
    BY DEF Submit
  <1>3. /\ pc' \in [Threads -> States] /\ pc'[Main] = pc[Main]
        /\ queue' \in Seq(Jobs)
        /\ job' \in [Workers -> Jobs \cup {None}]
        /\ JobInv' /\ QueueInv'
    BY <1>1, <1>2, ExecuteBase
  <1>4. DataOK'
    <2>1. /\ outstanding' = outstanding \cup {t}
          /\ UNCHANGED <<monitorVars, barrierVars, historyVars, interrupts,
                         active, left, finished>>
      BY DEF Submit
    <2>. QED  BY <1>3, <2>1 DEF BaseInv, TypeOK, DataOK
  <1>5. MainInv'
    BY <1>2, <1>3 DEF BaseInv, MainInv
  <1>. QED  BY <1>3, <1>4, <1>5 DEF BaseInv, TypeOK

\* Every step keeps the base invariant.
LEMMA NextBase == BaseInv /\ [Next]_vars => BaseInv'
  <1>1. BaseInv /\ UNCHANGED vars => BaseInv'
    BY DEF BaseInv, TypeOK, DataOK, JobInv, QueueInv, MainInv, vars
  <1>2. BaseInv /\ Next => BaseInv'
    BY MainBase, PoolBase, BarrierTaskBase, ForIdleBase, SubmitBase,
       WorkersAreThreads
       DEF Next, WorkerStep, Environment
  <1>. QED  BY <1>1, <1>2

\* The variables of the pool, of the monitors and of every thread keep their
\* types: a barrier task holds a monitor's task, a counter stays a number.
THEOREM TypeCorrect == Spec => []TypeOK
  <1>1. BaseInv => TypeOK
    BY DEF BaseInv
  <1>. QED  BY InitBase, NextBase, <1>1, PTL DEF Spec

-----------------------------------------------------------------------------
(***************************************************************************)
(* No unfinished task is ever lost between the queue and the workers.      *)
(***************************************************************************)
WorkInv == BaseInv /\ HeldInv /\ OwedInv

\* At the start no task is held and none is owed.
LEMMA InitWork == Init => HeldInv /\ OwedInv
  BY DEF Init, HeldInv, OwedInv

\* A step that leaves the tasks where they are.
LEMMA WorkKeeps ==
  ASSUME WorkInv, UNCHANGED <<queue, job, outstanding, owed>>,
         \A w \in Workers : pc[w] \in {"claimed", "run"}
                             => pc'[w] \in {"claimed", "run"}
  PROVE  HeldInv' /\ OwedInv'
  BY DEF WorkInv, HeldInv, OwedInv

\* A task the pool accepts is queued or held by a worker.
LEMMA ExecuteHolds ==
  ASSUME BaseInv, HeldInv, NEW j, Execute(j, pc)
  PROVE  \A t \in outstanding \cup {j} :
           \/ \E i \in 1 .. Len(queue') : queue'[i] = t
           \/ \E w \in Workers : pc'[w] \in {"claimed", "run"} /\ job'[w] = t
  <1>1. CASE \E w \in Workers : /\ pc[w] = "none"
                                /\ pc' = [pc EXCEPT ![w] = "claimed"]
                                /\ job' = [job EXCEPT ![w] = j]
                                /\ UNCHANGED queue
    <2>1. PICK v \in Workers : /\ pc[v] = "none"
                               /\ pc' = [pc EXCEPT ![v] = "claimed"]
                               /\ job' = [job EXCEPT ![v] = j]
                               /\ UNCHANGED queue
      BY <1>1
    <2>2. /\ pc'[v] = "claimed" /\ job'[v] = j
          /\ \A w \in Workers \ {v} : pc'[w] = pc[w] /\ job'[w] = job[w]
      BY <2>1, WorkersAreThreads DEF BaseInv, TypeOK, DataOK
    <2>. QED  BY <2>1, <2>2 DEF HeldInv
  <1>2. CASE queue' = Append(queue, j) /\ pc' = pc /\ UNCHANGED job
    <2>1. /\ Len(queue') = Len(queue) + 1 /\ Len(queue) \in Nat
          /\ queue'[Len(queue) + 1] = j
          /\ \A i \in 1 .. Len(queue) : queue'[i] = queue[i]
      BY <1>2 DEF BaseInv, TypeOK, DataOK
    <2>2. \A i \in 1 .. Len(queue) : i \in 1 .. Len(queue')
      BY <2>1
    <2>3. Len(queue) + 1 \in 1 .. Len(queue')
      BY <2>1
    <2>. QED  BY <1>2, <2>1, <2>2, <2>3 DEF HeldInv
  <1>. QED  BY <1>1, <1>2 DEF Execute

\* The pool's loop loses no task.
LEMMA PoolWork ==
  ASSUME WorkInv, NEW w \in Workers, PoolWorker(w) \/ KeepAliveEnds(w)
  PROVE  HeldInv' /\ OwedInv'
  <1>0. pc \in [Threads -> States] /\ job \in [Workers -> Jobs \cup {None}]
    BY DEF WorkInv, BaseInv, TypeOK, DataOK
  <1>1. CASE Take(w)
    <2>1. /\ pc'[w] = "claimed" /\ job'[w] = Head(queue) /\ pc[w] = "parked"
          /\ \A v \in Workers \ {w} : pc'[v] = pc[v] /\ job'[v] = job[v]
      BY <1>0, <1>1, WorkersAreThreads DEF Take, Goto
    <2>2. /\ Head(queue) = queue[1] /\ Len(queue) \in Nat
          /\ Len(queue') = Len(queue) - 1
          /\ \A i \in 1 .. Len(queue') : queue'[i] = queue[i + 1]
      BY <1>1, HeadTailProperties
         DEF Take, WorkInv, BaseInv, TypeOK, DataOK
    <2>3. \A i \in 1 .. Len(queue) :
            \/ i = 1
            \/ i - 1 \in 1 .. Len(queue') /\ queue'[i - 1] = queue[i]
      BY <2>2
    <2>4. outstanding' = outstanding /\ owed' = owed
      BY <1>1 DEF Take
    <2>5. HeldInv'
      <3>. SUFFICES ASSUME NEW t \in outstanding
                    PROVE  \/ \E i \in 1 .. Len(queue') : queue'[i] = t
                           \/ \E v \in Workers : pc'[v] \in {"claimed", "run"}
                                                  /\ job'[v] = t
        BY <2>4 DEF HeldInv
      <3>1. CASE \E i \in 1 .. Len(queue) : queue[i] = t
        BY <3>1, <2>1, <2>2, <2>3
      <3>2. CASE \E v \in Workers : pc[v] \in {"claimed", "run"} /\ job[v] = t
        BY <3>2, <2>1
      <3>. QED  BY <3>1, <3>2 DEF WorkInv, HeldInv
    <2>. QED  BY <2>4, <2>5 DEF WorkInv, OwedInv
  <1>2. CASE Lock(w)
    <2>1. /\ pc'[w] = IF job[w] \in Tasks THEN "run" ELSE "check"
          /\ \A v \in Workers \ {w} : pc'[v] = pc[v]
      BY <1>0, <1>2, WorkersAreThreads DEF Lock, Goto
    <2>2. outstanding \subseteq Tasks
      BY DEF WorkInv, BaseInv, TypeOK, DataOK
    <2>. QED  BY <1>2, <2>1, <2>2 DEF Lock, WorkInv, HeldInv, OwedInv
  <1>3. CASE FinishTask(w)
    <2>1. /\ pc'[w] = "done"
          /\ \A v \in Workers \ {w} : pc'[v] = pc[v]
      BY <1>0, <1>3, WorkersAreThreads DEF FinishTask, Goto
    <2>2. HeldInv'
      BY <1>3, <2>1 DEF FinishTask, WorkInv, HeldInv
    <2>3. OwedInv'
      BY <1>3 DEF FinishTask, WorkInv, OwedInv
    <2>. QED  BY <2>2, <2>3
  <1>4. CASE Unlock(w)
    <2>1. /\ pc[w] = "done" /\ pc'[w] = "parked"
          /\ \A v \in Workers \ {w} : pc'[v] = pc[v] /\ job'[v] = job[v]
      BY <1>0, <1>4, WorkersAreThreads DEF Unlock, Goto
    <2>. QED  BY <1>4, <2>1 DEF Unlock, WorkInv, HeldInv, OwedInv
  <1>5. CASE KeepAliveEnds(w)
    BY <1>0, <1>5, WorkersAreThreads, WorkKeeps DEF KeepAliveEnds, Goto
  <1>. QED  BY <1>1, <1>2, <1>3, <1>4, <1>5 DEF PoolWorker

\* The moves of a barrier task: its own, and waking the others.
LEMMA BarrierTaskMoves ==
  ASSUME pc \in [Threads -> States], NEW w \in Workers, BarrierTask(w)
  PROVE  /\ UNCHANGED <<queue, job, outstanding>>
         /\ owed' = owed \/ owed' = [owed EXCEPT ![job[w]] = outstanding]
         /\ pc[w] \notin {"claimed", "run", "waiting"}
         /\ pc'[w] \notin {"claimed", "run"}
         /\ \A x \in Workers \ {w} :
              pc'[x] = pc[x] \/ (pc[x] = "waiting" /\ pc'[x] = "caught")
  <1>. DEFINE Froms == {"check", "count", "generation", "await", "tripped",
                        "caught", "restart", "decrement", "released"}
              Tos   == {"done", "count", "generation", "await", "caught",
                        "waiting", "tripped", "m.clear", "m.poisoned",
                        "restart", "decrement", "check"}
  <1>1. \/ \E from \in Froms, to \in Tos : Goto(w, from, to)
        \/ \E to \in {"caught", "decrement"} :
             pc[w] \in {"await", "restart"} /\ Wake(job[w], w, to, "caught")
    <2>1. CASE CheckPoisoned(w)
      BY <2>1 DEF CheckPoisoned
    <2>2. CASE CountCheck(w)
      BY <2>2 DEF CountCheck
    <2>3. CASE ReadGeneration(w)
      BY <2>3 DEF ReadGeneration
    <2>4. CASE Await(w)
      <3>1. Goto(w, "await", "caught") \/ Goto(w, "await", "waiting")
              \/ Goto(w, "await", "tripped")
              \/ (pc[w] = "await" /\ Wake(job[w], w, "caught", "caught"))
        BY <2>4 DEF Await
      <3>. QED  BY <3>1
    <2>5. CASE BarrierTripped(w)
      BY <2>5 DEF BarrierTripped
    <2>6. CASE Restart(w)
      BY <2>6 DEF Restart
    <2>7. CASE RestartReset(w)
      BY <2>7 DEF RestartReset, ResetBarrier
    <2>8. CASE UncountCheck(w)
      BY <2>8 DEF UncountCheck
    <2>. QED  BY <2>1, <2>2, <2>3, <2>4, <2>5, <2>6, <2>7, <2>8 DEF BarrierTask
  <1>2. /\ UNCHANGED <<queue, job, outstanding>>
        /\ owed' = owed \/ owed' = [owed EXCEPT ![job[w]] = outstanding]
    BY DEF BarrierTask, CheckPoisoned, CountCheck, ReadGeneration, Await,
           BarrierTripped, Restart, RestartReset, ResetBarrier, UncountCheck
  <1>3. CASE \E from \in Froms, to \in Tos : Goto(w, from, to)
    BY <1>2, <1>3, WorkersAreThreads DEF Goto
  <1>4. CASE \E to \in {"caught", "decrement"} :
               pc[w] \in {"await", "restart"} /\ Wake(job[w], w, to, "caught")
    BY <1>2, <1>4, WorkersAreThreads DEF Wake, Waiting
  <1>. QED  BY <1>1, <1>3, <1>4

\* An interrupt moves the workers of a barrier and no task.
LEMMA InterruptMoves ==
  ASSUME pc \in [Threads -> States], NEW w \in Workers, Interrupt(w)
  PROVE  /\ UNCHANGED <<queue, job, outstanding, owed>>
         /\ \/ pc' = pc
            \/ /\ pc[w] = "waiting" /\ ~Locked(job[w])
               /\ \A x \in Workers :
                    pc'[x] = pc[x] \/ (pc[x] = "waiting" /\ pc'[x] = "caught")
  <1>1. UNCHANGED <<queue, job, outstanding, owed>>
    BY DEF Interrupt
  <1>2. CASE pc[w] = "waiting" /\ ~Locked(job[w])
    BY <1>1, <1>2, WorkersAreThreads DEF Interrupt, Wake, Waiting
  <1>3. CASE ~(pc[w] = "waiting" /\ ~Locked(job[w]))
    BY <1>1, <1>3 DEF Interrupt
  <1>. QED  BY <1>2, <1>3

\* The moves of a thread in isIdleNow or monitorForIdle, execute aside.
LEMMA ForIdleMoves ==
  ASSUME pc \in [Threads -> States], NEW t \in Threads, ForIdle(t),
         ~(ExecuteBarrierTask(t) /\ left[t] # 0)
  PROVE  /\ UNCHANGED <<queue, job, outstanding, owed>>
         /\ pc[t] \in IdleStates \cup ForIdleStates
         /\ \/ /\ pc'[t] \in IdleStates \cup ForIdleStates \cup {"free", "notify"}
               /\ \A x \in Workers \ {t} : pc'[x] = pc[x]
            \/ Return(t)
  <1>1. CASE IsIdleNow(t)
    <2>1. PICK c \in Calls : ReadQueue(t, c) \/ ReadActive(t, c)
                               \/ ReadMonitor(t, c) \/ ReadChecks(t, c)
      BY <1>1 DEF IsIdleNow
    <2>2. PICK from \in {c.queue, c.active, c.monitor, c.checks},
              to \in {c.active, c.monitor, c.checks, c.idle, c.busy} : Goto(t, from, to)
      BY <2>1 DEF ReadQueue, ReadActive, ReadMonitor, ReadChecks
    <2>3. from \in IdleStates \cup ForIdleStates
          /\ to \in IdleStates \cup ForIdleStates \cup {"free", "notify"}
      BY <2>2 DEF Calls, Poll, Repoll, IdleStates, ForIdleStates
    <2>4. /\ pc[t] = from /\ pc'[t] = to
          /\ \A x \in Workers \ {t} : pc'[x] = pc[x]
      BY <2>2, WorkersAreThreads DEF Goto
    <2>5. UNCHANGED <<queue, job, outstanding, owed>>
      BY <1>1 DEF IsIdleNow
    <2>. QED  BY <2>3, <2>4, <2>5
  <1>2. CASE MonitorForIdle(t)
    BY <1>2, WorkersAreThreads DEF MonitorForIdle, Goto, ForIdleStates
  <1>3. CASE ClearMonitor(t)
    BY <1>3, WorkersAreThreads DEF ClearMonitor, Goto, ForIdleStates
  <1>4. CASE OnIdle(t)
    BY <1>4 DEF OnIdle, ForIdleStates
  <1>5. CASE ExecuteBarrierTask(t) /\ left[t] = 0
    BY <1>5 DEF ExecuteBarrierTask, ForIdleStates
  <1>. QED  BY <1>1, <1>2, <1>3, <1>4, <1>5 DEF ForIdle

\* A step of monitorForIdle loses no task.
LEMMA ForIdleWork ==
  ASSUME WorkInv, NEW t \in Threads, ForIdle(t)
  PROVE  HeldInv' /\ OwedInv'
  <1>0. pc \in [Threads -> States]
    BY DEF WorkInv, BaseInv, TypeOK
  <1>1. CASE ExecuteBarrierTask(t) /\ left[t] # 0
    <2>1. Execute(MonitorOf(t), pc) /\ UNCHANGED <<outstanding, owed>>
      BY <1>1 DEF ExecuteBarrierTask
    <2>2. HeldInv'
      BY <2>1, ExecuteHolds DEF WorkInv, HeldInv
    <2>. QED  BY <2>1, <2>2 DEF WorkInv, OwedInv
  <1>2. CASE ~(ExecuteBarrierTask(t) /\ left[t] # 0)
    <2>1. /\ UNCHANGED <<queue, job, outstanding, owed>>
          /\ pc[t] \in IdleStates \cup ForIdleStates
          /\ \/ /\ pc'[t] \in IdleStates \cup ForIdleStates \cup {"free", "notify"}
                /\ \A x \in Workers \ {t} : pc'[x] = pc[x]
             \/ Return(t)
      BY <1>0, <1>2, ForIdleMoves
    <2>2. \A x \in Workers \ {t} : pc'[x] = pc[x] \/ pc[x] = "waiting"
      BY <1>0, <2>1, ReturnStep, WorkersAreThreads
    <2>3. pc[t] \notin {"claimed", "run"}
      BY <2>1 DEF IdleStates, ForIdleStates
    <2>. QED  BY <2>1, <2>2, <2>3, WorkKeeps
  <1>. QED  BY <1>1, <1>2

\* The main thread's own steps, outside isIdleNow and monitorForIdle.
MainOwn == \/ CallIsIdleNow \/ NotifyWhenIdle \/ NoMoreMonitors
           \/ StopWaiting \/ CancelIdleMonitor \/ Poison \/ PoisonReset

\* The main thread's own steps move the workers of a barrier at most.
LEMMA MainMoves ==
  ASSUME pc \in [Threads -> States], MainOwn
  PROVE  /\ UNCHANGED <<queue, job, outstanding, owed>>
         /\ \/ \A x \in Workers : pc'[x] = pc[x]
            \/ /\ ~Locked(current)
               /\ \A x \in Workers :
                    \/ pc'[x] = pc[x]
                    \/ pc[x] = "waiting" /\ pc'[x] = "caught" /\ job[x] = current
  <1>1. CASE PoisonReset
    BY <1>1, WorkersAreThreads DEF PoisonReset, ResetBarrier, Wake, Waiting
  <1>2. CASE ~PoisonReset
    <2>1. \E from, to : Goto(Main, from, to)
      BY <1>2 DEF MainOwn, CallIsIdleNow, NotifyWhenIdle, NoMoreMonitors,
                  StopWaiting, CancelIdleMonitor, Poison
    <2>2. UNCHANGED <<queue, job, outstanding, owed>>
      BY <1>2 DEF MainOwn, CallIsIdleNow, NotifyWhenIdle, NoMoreMonitors,
                  StopWaiting, CancelIdleMonitor, Poison
    <2>. QED  BY <2>1, <2>2, WorkersAreThreads DEF Goto
  <1>. QED  BY <1>1, <1>2

\* The main thread's own steps lose no task.
LEMMA MainOwnWork ==
  ASSUME WorkInv, MainOwn
  PROVE  HeldInv' /\ OwedInv'
  <1>1. /\ UNCHANGED <<queue, job, outstanding, owed>>
        /\ \A x \in Workers : pc[x] \in {"claimed", "run"} => pc'[x] = pc[x]
    BY MainMoves DEF WorkInv, BaseInv, TypeOK
  <1>. QED  BY <1>1 DEF WorkInv, HeldInv, OwedInv

\* Every step keeps the tasks accounted for: submitted, unfinished work
\* is in the queue or in a worker's hands.
LEMMA NextWork == WorkInv /\ [Next]_vars => WorkInv'
  <1>. SUFFICES ASSUME WorkInv, [Next]_vars PROVE WorkInv'
    OBVIOUS
  <1>0. BaseInv' /\ pc \in [Threads -> States]
    BY NextBase DEF WorkInv, BaseInv, TypeOK
  <1>1. CASE UNCHANGED vars
    BY <1>0, <1>1 DEF WorkInv, HeldInv, OwedInv, vars
  <1>2. CASE MainStep
    BY <1>0, <1>2, MainOwnWork, ForIdleWork, WorkersAreThreads
       DEF MainStep, MainOwn, WorkInv
  <1>3. ASSUME NEW w \in Workers, WorkerStep(w)
        PROVE  WorkInv'
    <2>1. CASE PoolWorker(w)
      BY <1>0, <2>1, PoolWork DEF WorkInv
    <2>2. CASE BarrierTask(w)
      <3>1. /\ UNCHANGED <<queue, job, outstanding>>
            /\ owed' = owed \/ owed' = [owed EXCEPT ![job[w]] = outstanding]
            /\ \A v \in Workers : pc[v] \in {"claimed", "run"} => pc'[v] = pc[v]
        BY <1>0, <2>2, BarrierTaskMoves
      <3>2. owed \in [Monitors -> SUBSET Tasks]
        BY DEF WorkInv, BaseInv, TypeOK, DataOK
      <3>3. HeldInv'
        BY <3>1 DEF WorkInv, HeldInv
      <3>4. OwedInv'
        BY <3>1, <3>2 DEF WorkInv, OwedInv
      <3>. QED  BY <1>0, <3>3, <3>4 DEF WorkInv
    <2>3. CASE ForIdle(w)
      BY <1>0, <2>3, ForIdleWork, WorkersAreThreads DEF WorkInv
    <2>. QED  BY <1>3, <2>1, <2>2, <2>3 DEF WorkerStep
  <1>4. ASSUME NEW t \in Tasks, Submit(t)
        PROVE  WorkInv'
    <2>1. /\ Execute(t, pc) /\ outstanding' = outstanding \cup {t}
          /\ owed' = owed
      BY <1>4 DEF Submit
    <2>2. HeldInv'
      BY <2>1, ExecuteHolds DEF WorkInv, HeldInv
    <2>. QED  BY <1>0, <2>1, <2>2 DEF WorkInv, OwedInv
  <1>5. ASSUME NEW w \in Workers, KeepAliveEnds(w) \/ Interrupt(w)
        PROVE  WorkInv'
    <2>1. CASE KeepAliveEnds(w)
      BY <1>0, <2>1, PoolWork DEF WorkInv
    <2>2. CASE Interrupt(w)
      BY <1>0, <2>2, InterruptMoves, WorkKeeps DEF WorkInv
    <2>. QED  BY <1>5, <2>1, <2>2
  <1>. QED  BY <1>1, <1>2, <1>3, <1>4, <1>5 DEF Next, Environment

-----------------------------------------------------------------------------
(***************************************************************************)
(* In a pool that never exceeds its core size the barrier holds every      *)
(* thread, so a trip over an empty queue finds no work.                    *)
(***************************************************************************)
FixedPool == CorePoolSize = Cardinality(Workers)

Acting(w) == pc[w] \in ActionStates

\* The last arrival finds all other workers at the same barrier.
LEMMA TripHoldsAll ==
  ASSUME FixedPool, BaseInv, NEW w \in Workers, Await(w), pc'[w] = "tripped"
  PROVE  /\ \A v \in Workers \ {w} : pc[v] = "waiting" /\ job[v] = job[w]
         /\ \A v \in Workers \ {w} : pc'[v] = pc[v]
         /\ job' = job
  <1>1. /\ pc[w] = "await"
        /\ Cardinality(Waiting(job[w])) + 1 >= CorePoolSize
        /\ \A v \in Workers \ {w} : pc'[v] = pc[v]
        /\ job' = job
    <2>1. CASE Wake(job[w], w, "caught", "caught")
      BY <2>1, WorkersAreThreads DEF Wake
    <2>2. CASE Goto(w, "await", "caught")
      BY <2>2, WorkersAreThreads DEF Goto, BaseInv, TypeOK
    <2>3. CASE Goto(w, "await", IF Cardinality(Waiting(job[w])) + 1 < CorePoolSize
                                THEN "waiting" ELSE "tripped")
      <3>1. ~(Cardinality(Waiting(job[w])) + 1 < CorePoolSize)
        BY <2>3, WorkersAreThreads DEF Goto, BaseInv, TypeOK
      <3>2. Cardinality(Waiting(job[w])) \in Nat
        BY PoolAssumption, FS_Subset, FS_CardinalityType DEF Waiting
      <3>3. \A v \in Workers \ {w} : pc'[v] = pc[v]
        BY <2>3, WorkersAreThreads DEF Goto, BaseInv, TypeOK
      <3>. QED  BY <3>1, <3>2, <3>3, <2>3, PoolSizes DEF Goto, Await
    <2>. QED  BY <2>1, <2>2, <2>3 DEF Await
  <1>2. w \notin Waiting(job[w]) /\ Waiting(job[w]) \subseteq Workers
    BY <1>1 DEF Waiting
  <1>3. IsFiniteSet(Waiting(job[w])) /\ Cardinality(Waiting(job[w])) \in Nat
    BY <1>2, PoolAssumption, FS_Subset, FS_CardinalityType
  <1>4. Cardinality(Waiting(job[w]) \cup {w}) = Cardinality(Waiting(job[w])) + 1
    BY <1>2, <1>3, FS_AddElement
  <1>5. Waiting(job[w]) \cup {w} = Workers
    <2>1. Waiting(job[w]) \cup {w} \in SUBSET Workers
      BY <1>2
    <2>2. Cardinality(Waiting(job[w]) \cup {w}) <= Cardinality(Workers)
      BY <2>1, PoolAssumption, FS_Subset
    <2>3. Cardinality(Waiting(job[w]) \cup {w}) = Cardinality(Workers)
      BY <1>1, <1>3, <1>4, <2>2, PoolSizes DEF FixedPool
    <2>. QED  BY <2>1, <2>3, PoolAssumption, FS_Subset
  <1>. QED  BY <1>1, <1>5 DEF Waiting

Past == {"m.active", "m.monitor", "m.checks", "m.clear", "m.fire"}

\* No thread is in the barrier action.
LEMMA NobodyActs ==
  ASSUME \A w \in Workers : pc'[w] \notin ActionStates
  PROVE  BarrierInv'
  BY DEF BarrierInv, ActionStates, ForIdleStates

\* An acting thread is alone: any other worker waits.
LEMMA ActsAlone ==
  ASSUME BarrierInv, NEW v \in Workers, pc[v] # "waiting", ~Acting(v)
  PROVE  \A w \in Workers : ~Acting(w)
  BY DEF BarrierInv, Acting

\* Nothing but the main thread's and the acting thread's own data changes.
LEMMA BarrierKeeps ==
  ASSUME BarrierInv, job' = job,
         \A w \in Workers : pc'[w] = pc[w],
         \A w \in Workers : Acting(w) => owed'[job[w]] \subseteq owed[job[w]]
  PROVE  BarrierInv'
  <1>. SUFFICES ASSUME NEW w \in Workers, pc'[w] \in ActionStates
                PROVE  /\ \A v \in Workers \ {w} :
                            pc'[v] = "waiting" /\ job'[v] = job'[w]
                       /\ pc'[w] \in Past => owed'[job'[w]] = {}
    BY DEF BarrierInv, Past, ActionStates, ForIdleStates
  <1>1. Acting(w)
    BY DEF Acting
  <1>2. \A v \in Workers \ {w} : pc[v] = "waiting" /\ job[v] = job[w]
    BY <1>1 DEF BarrierInv, Acting
  <1>3. pc[w] \in Past => owed[job[w]] = {}
    BY DEF BarrierInv, Past
  <1>. QED  BY <1>1, <1>2, <1>3

\* Behind the barrier and an empty queue there is no work.
LEMMA NoWorkBehind ==
  ASSUME WorkInv, BarrierInv, NEW w \in Workers, Acting(w), queue = <<>>
  PROVE  owed[job[w]] = {}
  <1>1. \A v \in Workers : pc[v] \notin {"claimed", "run"}
    BY DEF BarrierInv, Acting, ActionStates, ForIdleStates
  <1>2. Len(queue) = 0
    OBVIOUS
  <1>3. outstanding = {}
    BY <1>1, <1>2 DEF WorkInv, HeldInv
  <1>4. job[w] \in Monitors
    BY BarrierJob DEF WorkInv, Acting, BarrierStates, CountedStates
  <1>. QED  BY <1>3, <1>4 DEF WorkInv, OwedInv

\* A step of the acting thread that stays in the barrier action.
LEMMA ActingStep ==
  ASSUME BarrierInv, NEW w \in Workers, Acting(w), UNCHANGED <<job, owed>>,
         \A x \in Workers \ {w} : pc'[x] = pc[x],
         pc'[w] \in Past => pc[w] \in Past \/ owed[job[w]] = {}
  PROVE  BarrierInv'
  <1>1. \A v \in Workers \ {w} : pc[v] = "waiting" /\ job[v] = job[w]
    BY DEF BarrierInv, Acting
  <1>2. \A v \in Workers \ {w} : pc'[v] \notin ActionStates
    BY <1>1 DEF ActionStates, ForIdleStates
  <1>3. pc'[w] \in Past => owed[job[w]] = {}
    BY DEF BarrierInv, Past
  <1>. QED  BY <1>1, <1>2, <1>3 DEF BarrierInv, Past, ActionStates, ForIdleStates

\* Nobody can start a worker while the barrier action runs.
LEMMA ExecuteTrip ==
  ASSUME WorkInv, BarrierInv, NEW j, Execute(j, pc), owed' = owed
  PROVE  BarrierInv'
  <1>1. CASE \E w \in Workers : pc[w] = "none" /\ pc' = [pc EXCEPT ![w] = "claimed"]
    <2>1. PICK w \in Workers : pc[w] = "none" /\ pc' = [pc EXCEPT ![w] = "claimed"]
      BY <1>1
    <2>2. pc'[w] = "claimed" /\ \A x \in Workers \ {w} : pc'[x] = pc[x]
      BY <2>1, WorkersAreThreads DEF WorkInv, BaseInv, TypeOK
    <2>3. \A x \in Workers : ~Acting(x)
      BY <2>1, ActsAlone DEF Acting, ActionStates, ForIdleStates
    <2>. QED  BY <2>2, <2>3, NobodyActs DEF Acting, ActionStates, ForIdleStates
  <1>2. CASE pc' = pc /\ job' = job
    BY <1>2, BarrierKeeps
  <1>. QED  BY <1>1, <1>2 DEF Execute

\* A step of a barrier task keeps the barrier's claim.
LEMMA BarrierTaskTrip ==
  ASSUME FixedPool, WorkInv, BarrierInv, NEW w \in Workers, BarrierTask(w)
  PROVE  BarrierInv'
  <1>0. pc \in [Threads -> States]
    BY DEF WorkInv, BaseInv, TypeOK
  <1>1. /\ UNCHANGED <<queue, job, outstanding>>
        /\ pc[w] # "waiting"
        /\ \A x \in Workers \ {w} :
             pc'[x] = pc[x] \/ (pc[x] = "waiting" /\ pc'[x] = "caught")
    BY <1>0, BarrierTaskMoves
  <1>2. CASE BarrierTripped(w)
    <2>1. /\ Acting(w) /\ pc'[w] = IF queue = <<>> THEN "m.clear" ELSE "m.poisoned"
          /\ owed' = owed
          /\ \A x \in Workers \ {w} : pc'[x] = pc[x]
      BY <1>0, <1>2, WorkersAreThreads DEF BarrierTripped, Goto, Acting, ActionStates
    <2>. QED  BY <2>1, ActingStep, <1>1, NoWorkBehind DEF Past, WorkInv
  <1>3. CASE Await(w) /\ pc'[w] = "tripped"
    <2>1. /\ \A v \in Workers \ {w} : pc'[v] = "waiting" /\ job'[v] = job'[w]
      BY <1>3, TripHoldsAll DEF WorkInv
    <2>. QED  BY <1>3, <2>1 DEF BarrierInv, ActionStates, ForIdleStates
  <1>4. CASE ~BarrierTripped(w) /\ pc'[w] # "tripped"
    <2>1. ~Acting(w) /\ pc'[w] \notin ActionStates
      BY <1>0, <1>4, WorkersAreThreads
         DEF BarrierTask, CheckPoisoned, CountCheck, ReadGeneration, Await,
             Restart, RestartReset, ResetBarrier, UncountCheck, Goto, Wake,
             Acting, ActionStates, ForIdleStates
    <2>2. \A x \in Workers : ~Acting(x)
      BY <1>1, <2>1, ActsAlone
    <2>3. \A x \in Workers : pc'[x] \notin ActionStates
      BY <1>1, <2>1, <2>2 DEF Acting, ActionStates, ForIdleStates
    <2>. QED  BY <2>3, NobodyActs
  <1>. QED
    <2>1. pc'[w] = "tripped" => Await(w)
      BY <1>0, WorkersAreThreads
         DEF BarrierTask, CheckPoisoned, CountCheck, ReadGeneration,
             BarrierTripped, Restart, RestartReset, ResetBarrier, UncountCheck,
             Goto, Wake
    <2>. QED  BY <1>2, <1>3, <1>4, <2>1

\* A step of monitorForIdle keeps the barrier's claim.
LEMMA ForIdleTrip ==
  ASSUME FixedPool, WorkInv, BarrierInv, NEW w \in Workers, ForIdle(w)
  PROVE  BarrierInv'
  <1>0. pc \in [Threads -> States]
    BY DEF WorkInv, BaseInv, TypeOK
  <1>1. CASE ~Acting(w)
    <2>1. /\ ~(ExecuteBarrierTask(w) /\ left[w] # 0) /\ pc[w] # "waiting"
          /\ pc'[w] \notin ActionStates
          /\ \A x \in Workers \ {w} : pc'[x] = pc[x]
      <3>1. pc[w] \notin ForIdleStates
        BY <1>1 DEF Acting, ActionStates
      <3>2. IsIdleNow(w)
        BY <3>1 DEF ForIdle, MonitorForIdle, ClearMonitor, OnIdle,
                    ExecuteBarrierTask, Goto, ForIdleStates
      <3>3. PICK c \in Calls : ReadQueue(w, c) \/ ReadActive(w, c)
                                 \/ ReadMonitor(w, c) \/ ReadChecks(w, c)
        BY <3>2 DEF IsIdleNow
      <3>4. PICK from \in {c.queue, c.active, c.monitor, c.checks},
                to \in {c.active, c.monitor, c.checks, c.idle, c.busy} : Goto(w, from, to)
        BY <3>3 DEF ReadQueue, ReadActive, ReadMonitor, ReadChecks
      <3>5. /\ pc[w] = from /\ pc'[w] = to
            /\ \A x \in Workers \ {w} : pc'[x] = pc[x]
        BY <1>0, <3>4, WorkersAreThreads DEF Goto
      <3>6. c = Poll
        BY <3>1, <3>4, <3>5 DEF Calls, Repoll, ForIdleStates
      <3>7. pc[w] # "waiting" /\ pc'[w] \notin ActionStates
        BY <3>4, <3>5, <3>6 DEF Poll, ActionStates, ForIdleStates
      <3>8. ~ExecuteBarrierTask(w)
        BY <3>1 DEF ExecuteBarrierTask, ForIdleStates
      <3>. QED  BY <3>5, <3>7, <3>8
    <2>2. \A x \in Workers : ~Acting(x)
      BY <1>1, <2>1, ActsAlone
    <2>. QED  BY <2>1, <2>2, NobodyActs DEF Acting
  <1>2. CASE Acting(w) /\ ExecuteBarrierTask(w) /\ left[w] # 0
    <2>1. \A v \in Workers : pc[v] # "none"
      BY <1>2 DEF BarrierInv, Acting, ActionStates, ForIdleStates
    <2>2. pc' = pc /\ job' = job /\ owed' = owed
      BY <1>2, <2>1 DEF ExecuteBarrierTask, Execute
    <2>. QED  BY <2>2, BarrierKeeps
  <1>3. CASE Acting(w) /\ ~(ExecuteBarrierTask(w) /\ left[w] # 0)
    <2>1. /\ UNCHANGED <<queue, job, outstanding, owed>>
          /\ \/ /\ pc'[w] \in IdleStates \cup ForIdleStates \cup {"free", "notify"}
                /\ \A x \in Workers \ {w} : pc'[x] = pc[x]
             \/ Return(w)
      BY <1>0, <1>3, WorkersAreThreads, ForIdleMoves
    <2>2. CASE Return(w)
      <3>1. \A x \in Workers : pc'[x] = "released"
        BY <1>0, <1>3, <2>2, WorkersAreThreads
           DEF Return, Wake, Waiting, BarrierInv, Acting
      <3>. QED  BY <3>1, NobodyActs DEF ActionStates, ForIdleStates
    <2>3. CASE ~Return(w)
      <3>1. pc'[w] \in Past => pc[w] \in Past \/ queue = <<>>
        BY <1>0, <1>3, <2>3, WorkersAreThreads
           DEF ForIdle, IsIdleNow, Calls, Poll, Repoll, ReadQueue, ReadActive,
               ReadMonitor, ReadChecks, MonitorForIdle, ClearMonitor, OnIdle,
               ExecuteBarrierTask, Goto, Past
      <3>. QED  BY <1>3, <2>1, <2>3, <3>1, ActingStep, NoWorkBehind
    <2>. QED  BY <2>2, <2>3
  <1>. QED  BY <1>1, <1>2, <1>3

\* A step of the main thread keeps the barrier's claim.
LEMMA MainTrip ==
  ASSUME FixedPool, WorkInv, BarrierInv, MainStep
  PROVE  BarrierInv'
  <1>0. pc \in [Threads -> States] /\ Main \in Threads
    BY WorkersAreThreads DEF WorkInv, BaseInv, TypeOK
  <1>1. CASE MainOwn
    <2>1. \A w \in Workers : pc'[w] = pc[w] \/ (\A v \in Workers : ~Acting(v))
      <3>1. SUFFICES ASSUME NEW w \in Workers, pc'[w] # pc[w],
                            NEW v \in Workers, Acting(v)
                     PROVE  FALSE
        OBVIOUS
      <3>2. ~Locked(current) /\ pc[w] = "waiting" /\ job[w] = current
        BY <1>0, <1>1, <3>1, MainMoves
      <3>3. job[v] = current
        BY <3>1, <3>2 DEF BarrierInv, Acting
      <3>. QED  BY <3>1, <3>2, <3>3 DEF Locked, Acting
    <2>2. CASE \A v \in Workers : ~Acting(v)
      <3>1. \A w \in Workers : pc'[w] = pc[w] \/ pc'[w] = "caught"
        BY <1>0, <1>1, MainMoves
      <3>. QED  BY <2>2, <3>1, NobodyActs DEF Acting, ActionStates, ForIdleStates
    <2>3. CASE \A w \in Workers : pc'[w] = pc[w]
      <3>1. job' = job /\ owed' = owed
        BY <1>0, <1>1, MainMoves
      <3>. QED  BY <2>3, <3>1, BarrierKeeps
    <2>. QED  BY <2>1, <2>2, <2>3
  <1>2. CASE ForIdle(Main) /\ ~(ExecuteBarrierTask(Main) /\ left[Main] # 0)
    <2>1. /\ UNCHANGED <<job, owed>>
          /\ \/ \A x \in Workers \ {Main} : pc'[x] = pc[x]
             \/ Return(Main)
      BY <1>0, <1>2, ForIdleMoves
    <2>2. \A x \in Workers : pc'[x] = pc[x]
      BY <1>0, <2>1, WorkersAreThreads DEF Return
    <2>. QED  BY <2>1, <2>2, BarrierKeeps
  <1>3. CASE ExecuteBarrierTask(Main) /\ left[Main] # 0
    <2>1. Execute(MonitorOf(Main), pc) /\ owed' = owed
      BY <1>3 DEF ExecuteBarrierTask
    <2>. QED  BY <2>1, ExecuteTrip
  <1>. QED  BY <1>1, <1>2, <1>3 DEF MainStep, MainOwn

\* A step of the pool's loop keeps the barrier's claim.
LEMMA WorkerTrip ==
  ASSUME FixedPool, WorkInv, BarrierInv, NEW w \in Workers,
         PoolWorker(w) \/ KeepAliveEnds(w) \/ Interrupt(w)
  PROVE  BarrierInv'
  <1>0. pc \in [Threads -> States]
    BY DEF WorkInv, BaseInv, TypeOK
  <1>1. CASE PoolWorker(w) \/ KeepAliveEnds(w)
    <2>1. /\ pc[w] # "waiting" /\ ~Acting(w) /\ pc'[w] \notin ActionStates
          /\ \A x \in Workers \ {w} : pc'[x] = pc[x]
      BY <1>0, <1>1, WorkersAreThreads
         DEF PoolWorker, Take, Lock, FinishTask, Unlock, KeepAliveEnds, Goto,
             Acting, ActionStates, ForIdleStates
    <2>2. \A x \in Workers : ~Acting(x)
      BY <2>1, ActsAlone
    <2>. QED  BY <2>1, <2>2, NobodyActs DEF Acting
  <1>2. CASE Interrupt(w) /\ pc' = pc
    <2>1. job' = job /\ owed' = owed
      BY <1>0, <1>2, InterruptMoves
    <2>. QED  BY <1>2, <2>1, BarrierKeeps
  <1>3. CASE Interrupt(w) /\ pc' # pc
    <2>1. /\ pc[w] = "waiting" /\ ~Locked(job[w])
          /\ \A x \in Workers : pc'[x] = pc[x] \/ pc'[x] = "caught"
      BY <1>0, <1>3, InterruptMoves
    <2>2. \A x \in Workers : ~Acting(x)
      BY <2>1 DEF BarrierInv, Acting, Locked, ActionStates, ForIdleStates
    <2>. QED  BY <2>1, <2>2, NobodyActs DEF Acting, ActionStates, ForIdleStates
  <1>. QED  BY <1>1, <1>2, <1>3

\* In a pool that stays at its core size every step keeps the barrier's
\* claim: who acts has all the other workers waiting.
LEMMA NextTrip == FixedPool /\ WorkInv /\ BarrierInv /\ [Next]_vars => BarrierInv'
  <1>. SUFFICES ASSUME FixedPool, WorkInv, BarrierInv, [Next]_vars
                PROVE  BarrierInv'
    OBVIOUS
  <1>1. CASE UNCHANGED vars
    BY <1>1 DEF BarrierInv, vars
  <1>2. CASE MainStep
    BY <1>2, MainTrip
  <1>3. ASSUME NEW w \in Workers, WorkerStep(w) \/ KeepAliveEnds(w) \/ Interrupt(w)
        PROVE  BarrierInv'
    BY <1>3, WorkerTrip, BarrierTaskTrip, ForIdleTrip DEF WorkerStep
  <1>4. ASSUME NEW t \in Tasks, Submit(t)
        PROVE  BarrierInv'
    <2>1. Execute(t, pc) /\ owed' = owed
      BY <1>4 DEF Submit
    <2>. QED  BY <2>1, ExecuteTrip
  <1>. QED  BY <1>1, <1>2, <1>3, <1>4 DEF Next, Environment

\* In a pool that starts no thread above its core size, when the barrier has
\* tripped over an empty queue and the callback is about to run, every task
\* submitted before the barrier filled has finished: AsyncTaskPoolMonitor's
\* barrier really proves the pool idle.
THEOREM TripIsIdle ==
  ASSUME FixedPool
  PROVE  Spec => []TripIsTrueIdle
  <1>1. Init => WorkInv /\ BarrierInv
    <2>1. Init => BarrierInv
      BY WorkersAreThreads DEF Init, BarrierInv, ActionStates, ForIdleStates
    <2>. QED  BY <2>1, InitBase, InitWork DEF WorkInv
  <1>2. BarrierInv => TripIsTrueIdle
    BY DEF BarrierInv, TripIsTrueIdle
  <1>3. WorkInv /\ BarrierInv /\ [Next]_vars => WorkInv' /\ BarrierInv'
    BY NextWork, NextTrip
  <1>. QED  BY <1>1, <1>2, <1>3, PTL DEF Spec

=============================================================================
