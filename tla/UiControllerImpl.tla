--------------------------- MODULE UiControllerImpl ---------------------------
(***************************************************************************)
(* espresso/base/UiControllerImpl.java: the main thread loops its own      *)
(* message queue until every source of idleness has signaled.              *)
(*                                                                         *)
(* A wait has a generation.  What must happen before it ends is a set of   *)
(* conditions; each is raised by a SignalingTask of that generation, run   *)
(* wherever the source pleases, whose signal travels through the main      *)
(* thread's message queue.  The sources follow IdleNotifier: the pools     *)
(* (async and compat, AsyncTaskPoolMonitor) call back from any thread and  *)
(* perhaps after a cancel, the dynamic one (IdlingResourceRegistry) on the *)
(* main thread.  A call of another component is one step here; its inside  *)
(* is the subject of that component's module.                              *)
(***************************************************************************)
EXTENDS Integers, Sequences

CONSTANTS Pools,          \* asyncIdle and compatIdle
          Dynamic,        \* the notifier of the dynamicIdleProvider
          NotifierOrder,  \* the notifiers, in the order they are polled
          MaxOps,         \* bound: calls of the controller
          MaxBusy,        \* bound: how often a source becomes busy
          MaxTimeouts,    \* bound: timeouts, of either policy
          MaxInterrupts,  \* bound: interrupts of the main thread's task
          MaxCached       \* boxed generations up to here are one object

Notifiers  == Pools \cup {Dynamic}
Injections == {"KEY_INJECT_HAS_COMPLETED", "MOTION_INJECTION_HAS_COMPLETED"}
Delay      == "DELAY_HAS_PAST"
Conditions == Notifiers \cup Injections \cup {Delay}
None       == -1

ASSUME ControllerAssumption ==
  /\ Dynamic \notin Pools
  /\ Notifiers \cap (Injections \cup {Delay}) = {}
  /\ NotifierOrder \in Seq(Notifiers)
  /\ \A i, j \in 1 .. Len(NotifierOrder) :
       NotifierOrder[i] = NotifierOrder[j] => i = j
  /\ \A n \in Notifiers :
       \E i \in 1 .. Len(NotifierOrder) : NotifierOrder[i] = n
  /\ {MaxOps, MaxBusy, MaxTimeouts, MaxInterrupts, MaxCached} \subseteq Nat

VARIABLES
  busy,          \* the sources that are busy
  knownBusy,     \* the registry has polled its resource busy, and heard no more
  registered,    \* the generation of the SignalingTask each source holds, or None
  running,       \* the SignalingTasks a pool is about to run
  injections,    \* the tasks of keyEventExecutor, in order
  delayed,       \* the SignalingTasks of DELAY_HAS_PAST whose time is not up
  queue,         \* the message queue of the main looper: the messages that are due
  done,          \* the SignalingTasks that have run
  disabled,      \* the notifiers replaced by one that is always idle
  pc,            \* what the main thread does
  at,            \* the next notifier to poll
  todo,          \* the waits left of the current call
  conditions,    \* the conditions of the current wait
  conditionSet,  \* the conditions signaled
  generation,
  status,        \* of the MainThreadInterrogation
  overdue,       \* its giveUpAtMs has passed
  ops, becameBusy, timeouts, interrupts,   \* counters for the bounds
  stuck          \* history: sources busy ever since the last polls began

sourceVars == <<busy, knownBusy, becameBusy, stuck>>
countVars  == <<ops, timeouts, interrupts>>
loopVars   == <<conditions, conditionSet, generation, status, overdue>>
mainVars   == <<pc, at, todo, disabled>>
taskVars   == <<registered, running, injections, delayed, done>>
vars == <<busy, knownBusy, registered, running, injections, delayed, queue, done,
          disabled, pc, at, todo, conditions, conditionSet, generation, status,
          overdue, ops, becameBusy, timeouts, interrupts, stuck>>

SignalingTasks == Conditions \X Nat
Message(kind, task) == [kind |-> kind, task |-> task]
NoTask   == <<Dynamic, 0>>
Messages == [kind : {"signal", "task", "dynamic", "interrupt"},
             task : SignalingTasks]
Waits    == {"IDLE", Delay} \cup Injections

TypeOK ==
  /\ busy \subseteq Notifiers
  /\ knownBusy \in BOOLEAN
  /\ registered \in [Notifiers -> Nat \cup {None}]
  /\ running \subseteq SignalingTasks
  /\ injections \in Seq(SignalingTasks)
  /\ delayed \subseteq SignalingTasks
  /\ queue \in Seq(Messages)
  /\ done \subseteq SignalingTasks
  /\ disabled \subseteq Notifiers
  /\ pc \in {"free", "next", "poll", "register", "loop", "last"}
  /\ at \in 1 .. Len(NotifierOrder) + 1
  /\ todo \in Seq(Waits)
  /\ conditions \subseteq Conditions
  /\ conditionSet \subseteq Conditions
  /\ generation \in Nat
  /\ status \in {"COMPLETED", "TIMED_OUT", "INTERRUPTED"}
  /\ overdue \in BOOLEAN
  /\ ops \in 0 .. MaxOps
  /\ becameBusy \in 0 .. MaxBusy
  /\ timeouts \in 0 .. MaxTimeouts
  /\ interrupts \in 0 .. MaxInterrupts
  /\ stuck \subseteq Notifiers

Init ==
  /\ busy = {}
  /\ knownBusy = FALSE
  /\ registered = [n \in Notifiers |-> None]
  /\ running = {}
  /\ injections = <<>>
  /\ delayed = {}
  /\ queue = <<>>
  /\ done = {}
  /\ disabled = {}
  /\ pc = "free"
  /\ at = 1
  /\ todo = <<>>
  /\ conditions = {}
  /\ conditionSet = {}
  /\ generation = 0
  /\ status = "COMPLETED"
  /\ overdue = FALSE
  /\ ops = 0
  /\ becameBusy = 0
  /\ timeouts = 0
  /\ interrupts = 0
  /\ stuck = {}

-----------------------------------------------------------------------------
(* SignalingTasks, and the sources and executors that run them.            *)

\* The task runs, and done() sends its signal behind the messages of q.
RunTask(task, q) ==
  /\ done' = done \cup {task}
  /\ queue' = Append(q, Message("signal", task))

GoBusy(n) ==
  /\ n \notin busy
  /\ becameBusy < MaxBusy
  /\ becameBusy' = becameBusy + 1
  /\ busy' = busy \cup {n}
  /\ UNCHANGED <<countVars, loopVars, mainVars, taskVars, queue, knownBusy,
                 stuck>>

\* The registry hears of it by a message, a pool by its barrier (Settle).
GoIdle(n) ==
  /\ n \in busy
  /\ busy' = busy \ {n}
  /\ stuck' = stuck \ {n}
  /\ queue' = IF n = Dynamic THEN Append(queue, Message("dynamic", NoTask))
              ELSE queue
  /\ UNCHANGED <<countVars, loopVars, mainVars, taskVars, knownBusy, becameBusy>>

\* A pool has found itself idle, and then runs the callback.
Settle(n) ==
  /\ n \in Pools \ busy
  /\ registered[n] # None
  /\ running' = running \cup {<<n, registered[n]>>}
  /\ registered' = [registered EXCEPT ![n] = None]
  /\ UNCHANGED <<sourceVars, countVars, loopVars, mainVars, injections, delayed,
                 queue, done>>

CallBack ==
  /\ \E task \in running : /\ running' = running \ {task}
                           /\ RunTask(task, queue)
  /\ UNCHANGED <<sourceVars, countVars, loopVars, mainVars, registered,
                 injections, delayed>>

Inject ==
  /\ injections # <<>>
  /\ injections' = Tail(injections)
  /\ RunTask(Head(injections), queue)
  /\ UNCHANGED <<sourceVars, countVars, loopVars, mainVars, registered,
                 running, delayed>>

\* ViewInteraction posts an interrupt for the interaction it has given up.
InterruptEspressoTasks ==
  /\ interrupts < MaxInterrupts
  /\ interrupts' = interrupts + 1
  /\ queue' = Append(queue, Message("interrupt", NoTask))
  /\ UNCHANGED <<sourceVars, loopVars, mainVars, taskVars, ops, timeouts>>

-----------------------------------------------------------------------------
(* The calls, each a list of waits: loopMainThreadUntilIdle,               *)
(* loopMainThreadForAtLeast, injectKeyEvent, injectMotionEvent(Sequence).  *)

Calls == {<<"IDLE">>, <<Delay, "IDLE">>,
          <<"IDLE", "KEY_INJECT_HAS_COMPLETED">>,
          <<"MOTION_INJECTION_HAS_COMPLETED", "IDLE">>}

\* An interaction makes several calls; one may find an interrupt in the queue.
StartCall ==
  /\ pc = "free"
  /\ ops < MaxOps
  /\ ops' = ops + 1
  /\ todo' \in Calls
  /\ pc' = "next"
  /\ UNCHANGED <<sourceVars, loopVars, taskVars, at, disabled, queue, timeouts,
                 interrupts>>

CallReturns ==
  /\ pc = "next"
  /\ todo = <<>>
  /\ pc' = "free"
  /\ UNCHANGED <<sourceVars, countVars, loopVars, taskVars, at, todo, disabled,
                 queue>>

\* An exception leaves the call.
Throw == pc' = "free" /\ todo' = <<>>

\* loopUntil begins its interrogation.
Interrogate(waitFor) ==
  /\ pc' = "loop"
  /\ conditions' = waitFor
  /\ status' = "COMPLETED"
  /\ overdue' = FALSE

StartInjection ==
  /\ pc = "next"
  /\ \E c \in Injections :
       /\ todo # <<>> /\ Head(todo) = c
       /\ injections' = Append(injections, <<c, generation>>)
       /\ Interrogate({c})
  /\ UNCHANGED <<sourceVars, countVars, at, todo, disabled, conditionSet,
                 generation, registered, running, delayed, done, queue>>

StartDelay ==
  /\ pc = "next"
  /\ todo # <<>> /\ Head(todo) = Delay
  /\ delayed' = delayed \cup {<<Delay, generation>>}
  /\ Interrogate({Delay})
  /\ UNCHANGED <<sourceVars, countVars, at, todo, disabled, conditionSet,
                 generation, registered, running, injections, done, queue>>

-----------------------------------------------------------------------------
(* loopMainThreadUntilIdle: poll the notifiers, register with the busy     *)
(* ones, loop, cancel, and poll them again.                                *)

\* The registry believes a resource it has seen busy until its message comes.
IsIdleNow(n) ==
  n \in disabled \/ (n \notin busy /\ ~(n = Dynamic /\ knownBusy))

LearnBusy(n) ==
  knownBusy' = (knownBusy \/ (n = Dynamic /\ n \in busy \ disabled))

StartPolls ==
  /\ pc' = "poll"
  /\ at' = 1
  /\ conditions' = {}

StartIdleWait ==
  /\ pc = "next"
  /\ todo # <<>> /\ Head(todo) = "IDLE"
  /\ StartPolls
  /\ UNCHANGED <<sourceVars, countVars, taskVars, todo, disabled, conditionSet,
                 generation, status, overdue, queue>>

Poll ==
  LET n == NotifierOrder[at]
  IN  /\ pc = "poll"
      /\ at <= Len(NotifierOrder)
      /\ LearnBusy(n)
      /\ IF IsIdleNow(n) THEN at' = at + 1 /\ UNCHANGED pc
                         ELSE pc' = "register" /\ UNCHANGED at
      /\ UNCHANGED <<busy, becameBusy, stuck, countVars, loopVars, taskVars,
                     todo, disabled, queue>>

\* A pool that meanwhile is idle calls back at once.  The registry cannot be: it
\* was polled on this thread, and hears of idleness by a message.  Both check that
\* no callback is registered (NeverRecursive).
RegisterNotificationCallback ==
  LET n    == NotifierOrder[at]
      task == <<n, generation>>
  IN  /\ pc = "register"
      /\ registered[n] = None
      /\ pc' = "poll"
      /\ at' = at + 1
      /\ conditions' = conditions \cup {n}
      /\ LearnBusy(n)
      /\ \/ /\ ~IsIdleNow(n)
            /\ registered' = [registered EXCEPT ![n] = generation]
            /\ UNCHANGED <<queue, done>>
         \/ /\ IsIdleNow(n)
            /\ RunTask(task, queue)
            /\ UNCHANGED registered
      /\ UNCHANGED <<busy, becameBusy, stuck, countVars, todo, disabled,
                     conditionSet, generation, status, overdue, running,
                     injections, delayed>>

StartLoop ==
  /\ pc = "poll"
  /\ at = Len(NotifierOrder) + 1
  /\ Interrogate(conditions)
  /\ UNCHANGED <<sourceVars, countVars, taskVars, at, todo, disabled,
                 conditionSet, generation, queue>>

\* Mutant: while (!asyncIdle.isIdleNow() && ...).
LastPollAnd ==
  LET n == NotifierOrder[at]
  IN  /\ pc = "last"
      /\ at <= Len(NotifierOrder)
      /\ LearnBusy(n)
      /\ \/ /\ IsIdleNow(n)
            /\ at' = Len(NotifierOrder) + 1
            /\ UNCHANGED <<pc, conditions, stuck>>
         \/ /\ ~IsIdleNow(n)
            /\ at < Len(NotifierOrder)
            /\ at' = at + 1
            /\ UNCHANGED <<pc, conditions, stuck>>
         \/ /\ ~IsIdleNow(n)
            /\ at = Len(NotifierOrder)
            /\ StartPolls
            /\ stuck' = {}
      /\ UNCHANGED <<busy, becameBusy, countVars, taskVars, todo, disabled,
                     conditionSet, generation, status, overdue, queue>>

\* One more poll after the loop; the || of the while stops at the first busy one.
LastPoll ==
  LET n == NotifierOrder[at]
  IN  /\ pc = "last"
      /\ at <= Len(NotifierOrder)
      /\ LearnBusy(n)
      /\ \/ /\ IsIdleNow(n)
            /\ at' = at + 1
            /\ UNCHANGED <<pc, conditions, stuck>>
         \/ /\ ~IsIdleNow(n)
            /\ StartPolls
            /\ stuck' = {}
      /\ UNCHANGED <<busy, becameBusy, countVars, taskVars, todo, disabled,
                     conditionSet, generation, status, overdue, queue>>

IdleWaitReturns ==
  /\ pc = "last"
  /\ at = Len(NotifierOrder) + 1
  /\ pc' = "next"
  /\ todo' = Tail(todo)
  /\ stuck' = {}
  /\ UNCHANGED <<busy, knownBusy, becameBusy, countVars, loopVars, taskVars, at,
                 disabled, queue>>

-----------------------------------------------------------------------------
(* The messages of the queue, dispatched by the plain looper or inside     *)
(* loopUntil, where beforeTaskDispatch looks at the time: the message is   *)
(* executed regardless.                                                    *)

TimeIsUp ==
  /\ pc = "loop"
  /\ ~overdue
  /\ timeouts < MaxTimeouts
  /\ timeouts' = timeouts + 1
  /\ overdue' = TRUE
  /\ UNCHANGED <<sourceVars, mainVars, taskVars, queue, conditions, conditionSet,
                 generation, status, ops, interrupts>>

Dispatching == pc = "free" \/ (pc = "loop" /\ status = "COMPLETED")

DispatchingHead(kind) ==
  /\ Dispatching
  /\ queue # <<>>
  /\ Head(queue).kind = kind

BeforeTaskDispatch ==
  status' = IF pc = "loop" /\ overdue THEN "TIMED_OUT" ELSE status

\* Mutant: the signals of earlier generations are not ignored.
HandleMessageOfAnyGeneration ==
  /\ DispatchingHead("signal")
  /\ BeforeTaskDispatch
  /\ queue' = Tail(queue)
  /\ conditionSet' = conditionSet \cup {Head(queue).task[1]}
  /\ UNCHANGED <<sourceVars, countVars, mainVars, taskVars, conditions,
                 generation, overdue>>

HandleMessage ==
  LET task == Head(queue).task
  IN  /\ DispatchingHead("signal")
      /\ BeforeTaskDispatch
      /\ queue' = Tail(queue)
      /\ conditionSet' = IF task[2] = generation THEN conditionSet \cup {task[1]}
                         ELSE conditionSet
      /\ UNCHANGED <<sourceVars, countVars, mainVars, taskVars, conditions,
                     generation, overdue>>

RunSignalingTask ==
  /\ DispatchingHead("task")
  /\ BeforeTaskDispatch
  /\ RunTask(Head(queue).task, Tail(queue))
  /\ UNCHANGED <<sourceVars, countVars, mainVars, registered, running, injections,
                 delayed, conditions, conditionSet, generation, overdue>>

\* The delay of loopMainThreadForAtLeast is up, and its task due.
DelayHasPast ==
  /\ Dispatching
  /\ BeforeTaskDispatch
  /\ \E task \in delayed : /\ delayed' = delayed \ {task}
                           /\ RunTask(task, queue)
  /\ UNCHANGED <<sourceVars, countVars, mainVars, registered, running, injections,
                 conditions, conditionSet, generation, overdue>>

\* The registry drops its callback, which posts the task.
CallBackFromRegistry(q) ==
  /\ registered' = [registered EXCEPT ![Dynamic] = None]
  /\ queue' = Append(q, Message("task", <<Dynamic, registered[Dynamic]>>))

\* Mutant: the registry calls back without a callback.
HandleResourceIdledUnasked ==
  /\ DispatchingHead("dynamic")
  /\ BeforeTaskDispatch
  /\ knownBusy' = FALSE
  /\ CallBackFromRegistry(Tail(queue))
  /\ UNCHANGED <<busy, becameBusy, stuck, countVars, mainVars, running, injections,
                 delayed, done, conditions, conditionSet, generation, overdue>>

HandleResourceIdled ==
  /\ DispatchingHead("dynamic")
  /\ BeforeTaskDispatch
  /\ knownBusy' = FALSE
  /\ IF registered[Dynamic] = None
     THEN queue' = Tail(queue) /\ UNCHANGED registered
     ELSE CallBackFromRegistry(Tail(queue))
  /\ UNCHANGED <<busy, becameBusy, stuck, countVars, mainVars, running, injections,
                 delayed, done, conditions, conditionSet, generation, overdue>>

\* The error timer of the registry is due; it leaves a resource that meanwhile
\* says it is idle to its message.
DynamicTimesOut ==
  /\ pc = "loop"
  /\ status = "COMPLETED"
  /\ registered[Dynamic] # None
  /\ Dynamic \in busy
  /\ timeouts < MaxTimeouts
  /\ timeouts' = timeouts + 1

\* Mutant: resourcesHaveTimedOut does not post the task.
ResourcesHaveTimedOutSilently ==
  /\ DynamicTimesOut
  /\ BeforeTaskDispatch
  /\ registered' = [registered EXCEPT ![Dynamic] = None]
  /\ UNCHANGED <<sourceVars, ops, interrupts, mainVars, running, injections, queue,
                 delayed, done, conditions, conditionSet, generation, overdue>>

\* The error policy logs.
ResourcesHaveTimedOut ==
  /\ DynamicTimesOut
  /\ BeforeTaskDispatch
  /\ CallBackFromRegistry(queue)
  /\ UNCHANGED <<sourceVars, ops, interrupts, mainVars, running, injections,
                 delayed, done, conditions, conditionSet, generation, overdue>>

\* The delay of the wait is removed by its token, a boxed generation compared
\* by identity.
HandleInterrupt ==
  /\ DispatchingHead("interrupt")
  /\ queue' = Tail(queue)
  /\ \/ pc = "free" /\ UNCHANGED <<status, delayed>>
     \/ /\ pc = "loop"
        /\ status' = "INTERRUPTED"
        /\ delayed' = IF generation > MaxCached THEN delayed
                      ELSE delayed \ {<<Delay, generation>>}
  /\ UNCHANGED <<sourceVars, countVars, mainVars, registered, running, injections,
                 done, conditions, conditionSet, generation, overdue>>

-----------------------------------------------------------------------------
(* The ends of loopUntil, each through its finally block and, in           *)
(* loopMainThreadUntilIdle, through the finally that cancels.              *)

\* Mutant: the conditions are not reset.
ResetLoopKeepsConditions ==
  /\ generation' = generation + 1
  /\ status' = "COMPLETED"
  /\ overdue' = FALSE
  /\ UNCHANGED <<conditions, conditionSet>>

ResetLoop ==
  /\ generation' = generation + 1
  /\ conditionSet' = conditionSet \ conditions
  /\ status' = "COMPLETED"
  /\ overdue' = FALSE
  /\ UNCHANGED conditions

\* Mutant: the pools are not cancelled.
CancelCallbacksOfDynamic ==
  /\ registered' = [registered EXCEPT ![Dynamic] = None]
  /\ UNCHANGED running

\* cancelCallback of all notifiers; a pool may be past stopping.
CancelCallbacks ==
  /\ registered' = [n \in Notifiers |-> None]
  /\ \E late \in SUBSET {n \in Pools : registered[n] # None} :
       running' = running \cup {<<n, registered[n]>> : n \in late}

InIdleWait == Head(todo) = "IDLE"

Cleanup == IF InIdleWait THEN CancelCallbacks ELSE UNCHANGED <<registered, running>>

\* loopUntil returns.  A key that is not done fails its checkState at once, a
\* motion only after the idle wait.
Proceed ==
  \/ /\ InIdleWait
     /\ pc' = "last"
     /\ at' = 1
     /\ stuck' = busy \ disabled'
     /\ UNCHANGED todo
  \/ /\ ~InIdleWait
     /\ IF /\ Head(todo) = "KEY_INJECT_HAS_COMPLETED"
           /\ <<Head(todo), generation>> \notin done
        THEN Throw
        ELSE pc' = "next" /\ todo' = Tail(todo)
     /\ UNCHANGED <<at, stuck>>

Leave ==
  /\ ResetLoop
  /\ Cleanup
  /\ UNCHANGED <<busy, knownBusy, becameBusy, ops, interrupts, injections, delayed,
                 done, queue>>

\* queueEmpty and taskDueLong ask for the conditions and never for the time.
ConditionsMet ==
  /\ pc = "loop"
  /\ status = "COMPLETED"
  /\ queue = <<>>
  /\ conditions \subseteq conditionSet
  /\ UNCHANGED <<timeouts, disabled>>
  /\ Leave
  /\ Proceed

Interrupted ==
  /\ pc = "loop"
  /\ status = "INTERRUPTED"
  /\ Leave
  /\ Throw
  /\ UNCHANGED <<timeouts, at, disabled, stuck>>

\* The error policy of the registry throws out of the dispatch.
DynamicTimeoutThrows ==
  /\ DynamicTimesOut
  /\ Leave
  /\ Throw
  /\ UNCHANGED <<at, disabled, stuck>>

TimedOut ==
  /\ pc = "loop"
  /\ \/ status = "TIMED_OUT"
     \/ status = "COMPLETED" /\ overdue /\ queue # <<>>

\* disableOnTimeout, or a debugger: one decision for the pools, one for Dynamic.
Disable ==
  LET unmet == (conditions \ conditionSet) \cap Notifiers
  IN  \E D \in {{}, Pools, {Dynamic}, Notifiers} :
        disabled' = disabled \cup (unmet \cap D)

MasterTimeoutThrows ==
  /\ TimedOut
  /\ Disable
  /\ UNCHANGED timeouts
  /\ Leave
  /\ Throw
  /\ UNCHANGED <<at, stuck>>

MasterTimeoutLogs ==
  /\ TimedOut
  /\ Disable
  /\ UNCHANGED timeouts
  /\ Leave
  /\ Proceed

-----------------------------------------------------------------------------
Dispatch ==
  \/ HandleMessage
  \/ RunSignalingTask
  \/ HandleResourceIdled
  \/ DelayHasPast
  \/ HandleInterrupt

LoopUntilEnds ==
  \/ ConditionsMet
  \/ Interrupted
  \/ MasterTimeoutThrows
  \/ MasterTimeoutLogs

LoopMainThreadUntilIdle ==
  \/ StartIdleWait
  \/ Poll
  \/ RegisterNotificationCallback
  \/ StartLoop
  \/ LastPoll
  \/ IdleWaitReturns

Main ==
  \/ CallReturns
  \/ StartInjection
  \/ StartDelay
  \/ LoopMainThreadUntilIdle
  \/ Dispatch
  \/ LoopUntilEnds

Others ==
  \/ \E n \in Notifiers : GoBusy(n)
  \/ \E n \in Notifiers : GoIdle(n)
  \/ \E n \in Pools : Settle(n)
  \/ CallBack
  \/ Inject
  \/ InterruptEspressoTasks
  \/ TimeIsUp

DynamicTimeouts == ResourcesHaveTimedOut \/ DynamicTimeoutThrows

Next == StartCall \/ Main \/ DynamicTimeouts \/ Others

Spec == Init /\ [][Next]_vars

\* Threads are scheduled and delays pass; neither timeouts nor idleness are due.
FairSpec ==
  /\ Spec
  /\ WF_vars(Main)
  /\ \A n \in Pools : WF_vars(Settle(n))
  /\ WF_vars(CallBack)
  /\ WF_vars(Inject)
  /\ WF_vars(DelayHasPast)

\* The application besides ends what it has begun.
QuietSpec == FairSpec /\ \A n \in Notifiers : WF_vars(GoIdle(n))

-----------------------------------------------------------------------------
(* Properties.                                                             *)

\* The state checks of the inject methods ("... was signaled - but it wasnt
\* done."), for every condition: a signal in the set is of a task of this
\* generation that has run, however many tasks of given up waits are under way.
SignaledTaskIsDone ==
  \A c \in conditionSet : <<c, generation>> \in done

\* No signal is left over for a wait that has not begun, where loopMainThread-
\* ForAtLeast would take it for a recursion and loopUntil for its own.
NoLeftoverSignal == pc # "loop" => conditionSet = {}

\* No way out of a wait leaves a callback with a notifier, where the next wait
\* would fail its state check.
NeverRecursive ==
  pc = "register" => registered[NotifierOrder[at]] = None

\* loopMainThreadUntilIdle returns only if every notifier still in use has been
\* idle at some moment since the loop ended, whatever became busy meanwhile.
ReturnedMeansIdle == [][pc = "last" /\ pc' = "next" => stuck = {}]_vars

\* A call ends if the application's work does: no signal is lost between the
\* sources, the executors and the queue, nor to a timeout or an interrupt.
CallEnds == pc # "free" ~> pc = "free"

\* The javadoc of setMasterPolicyTimeout: once the time of the master policy is
\* up, loopUntil detects it.  Waits for the registry have another timer.
OverdueWaitEnds == overdue /\ Dynamic \notin conditions ~> ~overdue
=============================================================================
