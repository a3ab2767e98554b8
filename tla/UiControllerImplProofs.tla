------------------------ MODULE UiControllerImplProofs ------------------------
(***************************************************************************)
(* Proofs about UiControllerImpl, for every set of pools, every number of  *)
(* calls and every number of timeouts and interrupts.                      *)
(***************************************************************************)
EXTENDS UiControllerImpl, TLAPS

-----------------------------------------------------------------------------
(* The inductive invariant.  A task belongs to a wait that is over, or to  *)
(* the current one, and then to one of its conditions: a stray signal      *)
(* carries an old generation, whatever cut its wait short.                 *)

Current(task) ==
  \/ task[2] < generation
  \/ /\ task[2] = generation
     /\ pc \in {"poll", "register", "loop"}
     /\ task[1] \in conditions

GoodMessage(m) ==
  /\ m.kind \in {"signal", "task"} => Current(m.task)
  /\ m.kind = "signal" => m.task \in done

TasksInv ==
  /\ \A n \in Notifiers : registered[n] # None => Current(<<n, registered[n]>>)
  /\ \A task \in running \cup delayed : Current(task)
  /\ \A i \in 1 .. Len(injections) : Current(injections[i])
  /\ \A i \in 1 .. Len(queue) : GoodMessage(queue[i])

\* What is signaled, and of which wait.
SetInv ==
  /\ conditionSet \subseteq (IF pc = "loop" THEN conditions ELSE {})
  /\ SignaledTaskIsDone

\* The calls that wait, and how far the polls have come.
FlowInv ==
  /\ pc \in {"poll", "register", "last"} => todo # <<>> /\ Head(todo) = "IDLE"
  /\ pc = "loop" => todo # <<>>
  /\ pc = "register" => at <= Len(NotifierOrder)

\* Only a wait for idleness holds registrations, with notifiers it has polled.
PollInv ==
  /\ pc \in {"free", "next", "last"} => \A n \in Notifiers : registered[n] = None
  /\ pc = "loop" /\ Head(todo) # "IDLE" =>
       \A n \in Notifiers : registered[n] = None
  /\ pc \in {"poll", "register"} =>
       \A i \in at .. Len(NotifierOrder) : registered[NotifierOrder[i]] = None

IInv == TypeOK /\ TasksInv /\ SetInv /\ FlowInv /\ PollInv

USE DEF None, sourceVars, countVars, loopVars, mainVars, taskVars

-----------------------------------------------------------------------------
(* Tasks, messages and their queue.                                        *)

\* What Append, Head and Tail do to the elements of a sequence.
LEMMA SeqFacts ==
  ASSUME NEW S, NEW q \in Seq(S)
  PROVE  /\ Len(q) \in Nat
         /\ \A i \in 1 .. Len(q) : q[i] \in S
         /\ q # <<>> => /\ Head(q) = q[1] /\ 1 \in 1 .. Len(q)
                       /\ Tail(q) \in Seq(S)
                       /\ Len(Tail(q)) = Len(q) - 1
                       /\ \A i \in 1 .. Len(q) - 1 : Tail(q)[i] = q[i + 1]
         /\ \A x \in S : /\ Append(q, x) \in Seq(S)
                         /\ Len(Append(q, x)) = Len(q) + 1
                         /\ \A i \in 1 .. Len(q) : Append(q, x)[i] = q[i]
                         /\ Append(q, x)[Len(q) + 1] = x
  OBVIOUS

\* The bounds are natural numbers.
LEMMA Bounds ==
  /\ MaxOps \in Nat /\ MaxBusy \in Nat /\ MaxTimeouts \in Nat
  /\ MaxInterrupts \in Nat /\ MaxCached \in Nat /\ Len(NotifierOrder) \in Nat
  BY ControllerAssumption

\* Signaling tasks and their messages have the types of the queue.
LEMMA Kinds ==
  /\ \A task \in SignalingTasks : /\ task[1] \in Conditions /\ task[2] \in Nat
                                  /\ task = <<task[1], task[2]>>
  /\ \A task \in SignalingTasks, k \in {"signal", "task", "dynamic", "interrupt"} :
       Message(k, task) \in Messages
  /\ \A m \in Messages : m.task \in SignalingTasks
  /\ NoTask \in SignalingTasks
  /\ Pools \subseteq Notifiers /\ Dynamic \in Notifiers
  /\ \A n \in Notifiers, g \in Nat : <<n, g>> \in SignalingTasks
  /\ \A c \in Injections \cup {Delay}, g \in Nat : <<c, g>> \in SignalingTasks
  BY DEF SignalingTasks, Messages, Message, NoTask, Conditions, Notifiers

\* The tasks of the step before stay current.
LEMMA CurrentKept ==
  ASSUME TypeOK,
         \/ UNCHANGED <<generation, conditions, pc>>
         \/ generation' = generation /\ pc \in {"free", "next", "last"}
         \/ /\ generation' = generation
            /\ conditions \subseteq conditions'
            /\ pc' \in {"poll", "register", "loop"}
         \/ generation' = generation + 1
  PROVE  \A task \in SignalingTasks : Current(task) => Current(task)'
  BY Kinds DEF TypeOK, Current

\* Nor does a message in the queue go bad.
LEMMA MessagesKept ==
  ASSUME \A task \in SignalingTasks : Current(task) => Current(task)',
         done \subseteq done'
  PROVE  \A m \in Messages : GoodMessage(m) => GoodMessage(m)'
  BY Kinds DEF GoodMessage

\* The queue keeps its messages, loses its head or gains a good message.
LEMMA QueueKept ==
  ASSUME IInv,
         \A task \in SignalingTasks : Current(task) => Current(task)',
         done \subseteq done',
         \/ queue' = queue
         \/ queue # <<>> /\ queue' = Tail(queue)
         \/ \E m \in Messages :
              /\ GoodMessage(m)'
              /\ \/ queue' = Append(queue, m)
                 \/ queue # <<>> /\ queue' = Append(Tail(queue), m)
  PROVE  /\ queue' \in Seq(Messages)
         /\ (\A i \in 1 .. Len(queue) : GoodMessage(queue[i]))'
  <1>0. /\ queue \in Seq(Messages)
        /\ \A i \in 1 .. Len(queue) : GoodMessage(queue[i])
        /\ \A m \in Messages : GoodMessage(m) => GoodMessage(m)'
    BY MessagesKept DEF IInv, TypeOK, TasksInv
  <1>1. CASE queue' = queue
    BY <1>0, <1>1, SeqFacts
  <1>2. CASE queue # <<>> /\ queue' = Tail(queue)
    BY <1>0, <1>2, SeqFacts
  <1>3. ASSUME NEW m \in Messages, GoodMessage(m)', queue' = Append(queue, m)
        PROVE  /\ queue' \in Seq(Messages)
               /\ (\A i \in 1 .. Len(queue) : GoodMessage(queue[i]))'
    BY <1>0, <1>3, SeqFacts
  <1>4. ASSUME NEW m \in Messages, GoodMessage(m)', queue # <<>>,
               queue' = Append(Tail(queue), m)
        PROVE  /\ queue' \in Seq(Messages)
               /\ (\A i \in 1 .. Len(queue) : GoodMessage(queue[i]))'
    BY <1>0, <1>4, SeqFacts
  <1>. QED  BY <1>1, <1>2, <1>3, <1>4

\* No place gets a task that is not current.
LEMMA TasksKept ==
  ASSUME IInv,
         \A task \in SignalingTasks : Current(task) => Current(task)',
         (\A i \in 1 .. Len(queue) : GoodMessage(queue[i]))',
         \A n \in Notifiers : \/ registered'[n] \in {registered[n], None}
                              \/ Current(<<n, registered[n]>>)',
         \A task \in running' \cup delayed' :
           task \in running \cup delayed \/ Current(task)',
         \/ injections' = injections
         \/ injections # <<>> /\ injections' = Tail(injections)
         \/ \E task \in SignalingTasks :
              Current(task)' /\ injections' = Append(injections, task)
  PROVE  TasksInv'
  <1>1. (\A n \in Notifiers : registered[n] # None => Current(<<n, registered[n]>>))'
    <2>1. SUFFICES ASSUME NEW n \in Notifiers, registered'[n] = registered[n],
                          registered[n] # None
                   PROVE  Current(<<n, registered[n]>>)'
      OBVIOUS
    <2>2. <<n, registered[n]>> \in SignalingTasks /\ Current(<<n, registered[n]>>)
      BY <2>1, Kinds DEF IInv, TypeOK, TasksInv
    <2>3. Current(<<n, registered[n]>>) => Current(<<n, registered[n]>>)'
      BY <2>1, <2>2 DEF Current
    <2>. QED  BY <2>2, <2>3
  <1>2. (\A task \in running \cup delayed : Current(task))'
    BY DEF IInv, TypeOK, TasksInv
  <1>3. (\A i \in 1 .. Len(injections) : Current(injections[i]))'
    <2>a. /\ injections \in Seq(SignalingTasks)
          /\ \A i \in 1 .. Len(injections) : Current(injections[i])
      BY DEF IInv, TypeOK, TasksInv
    <2>0. /\ injections \in Seq(SignalingTasks)
          /\ \A i \in 1 .. Len(injections) :
               \A task \in SignalingTasks : task = injections[i] => Current(task)'
      BY <2>a
    <2>1. CASE injections' = injections
      BY <2>0, <2>1
    <2>2. CASE injections # <<>> /\ injections' = Tail(injections)
      BY <2>0, <2>2, SeqFacts
    <2>3. ASSUME NEW task \in SignalingTasks, Current(task)',
                 injections' = Append(injections, task)
          PROVE  (\A i \in 1 .. Len(injections) : Current(injections[i]))'
      BY <2>0, <2>3, SeqFacts
    <2>. QED  BY <2>1, <2>2, <2>3
  <1>. QED  BY <1>1, <1>2, <1>3 DEF TasksInv

-----------------------------------------------------------------------------
(* The sources, the executors, the clock: the main thread does not move.   *)

\* A step that leaves the main thread alone keeps what is said of it.
LEMMA Undisturbed ==
  ASSUME IInv, UNCHANGED <<pc, at, todo, conditions, conditionSet, generation>>,
         done \subseteq done',
         \A n \in Notifiers : registered'[n] \in {registered[n], None}
  PROVE  SetInv' /\ FlowInv' /\ PollInv'
  <1>1. SetInv' /\ FlowInv'
    BY DEF IInv, SetInv, FlowInv, SignaledTaskIsDone
  <1>2. \A i \in 1 .. Len(NotifierOrder) : NotifierOrder[i] \in Notifiers
    BY ControllerAssumption
  <1>3. PollInv'
    BY <1>2 DEF IInv, PollInv, TypeOK
  <1>. QED  BY <1>1, <1>3

\* A task that runs sends a good message.
LEMMA RunTaskGood ==
  ASSUME NEW task \in SignalingTasks, NEW q, RunTask(task, q), Current(task)'
  PROVE  /\ done' = done \cup {task}
         /\ \E m \in Messages : GoodMessage(m)' /\ queue' = Append(q, m)
  <1>1. Message("signal", task) \in Messages
    BY Kinds
  <1>2. GoodMessage(Message("signal", task))'
    BY DEF RunTask, GoodMessage, Message
  <1>. QED  BY <1>1, <1>2 DEF RunTask

\* Sources, executors, interrupts and the clock keep the invariant.
LEMMA OthersKeep == IInv /\ Others => IInv'
  <1>. SUFFICES ASSUME IInv, Others PROVE IInv'
    OBVIOUS
  <1>. USE DEF IInv
  <1>0. \A task \in SignalingTasks : Current(task) => Current(task)'
    BY CurrentKept DEF Others, GoBusy, GoIdle, Settle, CallBack, Inject,
       InterruptEspressoTasks, TimeIsUp
  <1>1. ASSUME NEW n \in Notifiers, GoBusy(n) \/ GoIdle(n)
        PROVE  IInv'
    <2>0. GoodMessage(Message("dynamic", NoTask))' /\ Message("dynamic", NoTask) \in Messages
      BY Kinds DEF GoodMessage, Message
    <2>1. queue' \in Seq(Messages) /\ (\A i \in 1 .. Len(queue) : GoodMessage(queue[i]))'
      BY <1>0, <1>1, <2>0, QueueKept DEF GoBusy, GoIdle
    <2>2. TypeOK'
      <3>1. CASE GoBusy(n)
        <4>1. becameBusy' \in 0 .. MaxBusy
          BY <3>1, Bounds DEF TypeOK, GoBusy
        <4>. QED  BY <1>1, <2>1, <3>1, <4>1 DEF TypeOK, GoBusy
      <3>2. CASE GoIdle(n)
        BY <1>1, <2>1, <3>2 DEF TypeOK, GoIdle
      <3>. QED  BY <1>1, <3>1, <3>2
    <2>3. TasksInv'
      BY <1>0, <1>1, <2>1, Kinds, TasksKept DEF TypeOK, GoBusy, GoIdle
    <2>4. SetInv' /\ FlowInv' /\ PollInv'
      BY <1>1, Undisturbed DEF GoBusy, GoIdle
    <2>. QED  BY <2>2, <2>3, <2>4
  <1>2. ASSUME NEW n \in Pools, Settle(n)
        PROVE  IInv'
    <2>1. queue' \in Seq(Messages) /\ (\A i \in 1 .. Len(queue) : GoodMessage(queue[i]))'
      BY <1>0, <1>2, QueueKept DEF Settle
    <2>2. /\ n \in Notifiers /\ registered[n] \in Nat
          /\ <<n, registered[n]>> \in SignalingTasks
          /\ Current(<<n, registered[n]>>)
      BY <1>2, Kinds DEF Settle, TypeOK, TasksInv
    <2>3. TypeOK'
      BY <1>2, <2>1, <2>2 DEF TypeOK, Settle
    <2>4. TasksInv'
      BY <1>0, <1>2, <2>1, <2>2, Kinds, TasksKept DEF TypeOK, Settle
    <2>5. SetInv' /\ FlowInv' /\ PollInv'
      BY <1>2, Undisturbed DEF Settle, TypeOK
    <2>. QED  BY <2>3, <2>4, <2>5
  <1>3. CASE CallBack
    <2>1. PICK task \in running : running' = running \ {task} /\ RunTask(task, queue)
      BY <1>3 DEF CallBack
    <2>2. task \in SignalingTasks /\ Current(task)'
      BY <1>0, <2>1 DEF TypeOK, TasksInv
    <2>3. queue' \in Seq(Messages) /\ (\A i \in 1 .. Len(queue) : GoodMessage(queue[i]))'
      BY <1>0, <2>1, <2>2, RunTaskGood, QueueKept
    <2>4. TypeOK'
      BY <1>3, <2>1, <2>2, <2>3 DEF TypeOK, CallBack, RunTask
    <2>5. TasksInv'
      BY <1>0, <1>3, <2>1, <2>3, Kinds, TasksKept DEF TypeOK, CallBack, RunTask
    <2>6. SetInv' /\ FlowInv' /\ PollInv'
      BY <1>3, Undisturbed DEF CallBack, RunTask
    <2>. QED  BY <2>4, <2>5, <2>6
  <1>4. CASE Inject
    <2>a. /\ injections \in Seq(SignalingTasks) /\ injections # <<>>
          /\ \A i \in 1 .. Len(injections) : Current(injections[i])
          /\ RunTask(Head(injections), queue)
      BY <1>4 DEF TypeOK, TasksInv, Inject
    <2>1. PICK task \in SignalingTasks : Current(task)' /\ RunTask(task, queue)
      <3>1. Head(injections) \in SignalingTasks /\ Current(Head(injections))
        BY <2>a, SeqFacts
      <3>. QED  BY <1>0, <2>a, <3>1
    <2>2. queue' \in Seq(Messages) /\ (\A i \in 1 .. Len(queue) : GoodMessage(queue[i]))'
      BY <1>0, <2>1, RunTaskGood, QueueKept
    <2>3. TypeOK'
      BY <1>4, <2>1, <2>2 DEF TypeOK, Inject, RunTask
    <2>4. TasksInv'
      BY <1>0, <1>4, <2>2, Kinds, TasksKept DEF TypeOK, Inject, RunTask
    <2>5. SetInv' /\ FlowInv' /\ PollInv'
      BY <1>4, Undisturbed DEF Inject, RunTask
    <2>. QED  BY <2>3, <2>4, <2>5
  <1>5. CASE InterruptEspressoTasks \/ TimeIsUp
    <2>0. GoodMessage(Message("interrupt", NoTask))' /\ Message("interrupt", NoTask) \in Messages
      BY Kinds DEF GoodMessage, Message
    <2>1. queue' \in Seq(Messages) /\ (\A i \in 1 .. Len(queue) : GoodMessage(queue[i]))'
      BY <1>0, <1>5, <2>0, QueueKept DEF InterruptEspressoTasks, TimeIsUp
    <2>2. TypeOK'
      <3>1. CASE InterruptEspressoTasks
        <4>1. interrupts' \in 0 .. MaxInterrupts
          BY <3>1, Bounds DEF TypeOK, InterruptEspressoTasks
        <4>. QED  BY <2>1, <3>1, <4>1 DEF TypeOK, InterruptEspressoTasks
      <3>2. CASE TimeIsUp
        <4>1. timeouts' \in 0 .. MaxTimeouts
          BY <3>2, Bounds DEF TypeOK, TimeIsUp
        <4>. QED  BY <2>1, <3>2, <4>1 DEF TypeOK, TimeIsUp
      <3>. QED  BY <1>5, <3>1, <3>2
    <2>3. TasksInv'
      BY <1>0, <1>5, <2>1, Kinds, TasksKept DEF TypeOK, InterruptEspressoTasks, TimeIsUp
    <2>4. SetInv' /\ FlowInv' /\ PollInv'
      BY <1>5, Undisturbed DEF InterruptEspressoTasks, TimeIsUp
    <2>. QED  BY <2>2, <2>3, <2>4
  <1>. QED  BY <1>1, <1>2, <1>3, <1>4, <1>5 DEF Others

-----------------------------------------------------------------------------
(* Calls, and the waits that begin: no task of the current generation is   *)
(* under way, and none is signaled.                                        *)

\* Every place of the poll order is a notifier's.
LEMMA NotifierAt ==
  \A i \in 1 .. Len(NotifierOrder) : NotifierOrder[i] \in Notifiers
  BY ControllerAssumption

\* A call that starts, returns, injects or delays keeps the invariant:
\* its new task carries the generation of the wait it begins.
LEMMA CallsKeep ==
  ASSUME IInv, StartCall \/ CallReturns \/ StartInjection \/ StartDelay
  PROVE  IInv'
  <1>. USE DEF IInv
  <1>0. \A task \in SignalingTasks : Current(task) => Current(task)'
    BY CurrentKept DEF StartCall, CallReturns, StartInjection, StartDelay,
       Interrogate
  <1>1. queue' \in Seq(Messages) /\ (\A i \in 1 .. Len(queue) : GoodMessage(queue[i]))'
    BY <1>0, QueueKept DEF StartCall, CallReturns, StartInjection, StartDelay
  <1>2. CASE StartCall
    <2>1. todo' \in Seq(Waits)
      <3>1. /\ <<"IDLE">> \in Seq(Waits) /\ <<Delay, "IDLE">> \in Seq(Waits)
            /\ <<"IDLE", "KEY_INJECT_HAS_COMPLETED">> \in Seq(Waits)
            /\ <<"MOTION_INJECTION_HAS_COMPLETED", "IDLE">> \in Seq(Waits)
        BY DEF Waits, Injections
      <3>. QED  BY <1>2, <3>1 DEF StartCall, Calls
    <2>2. ops' \in 0 .. MaxOps
      BY <1>2, Bounds DEF TypeOK, StartCall
    <2>3. TypeOK'
      BY <1>1, <1>2, <2>1, <2>2 DEF TypeOK, StartCall
    <2>4. TasksInv'
      BY <1>0, <1>1, <1>2, TasksKept DEF StartCall
    <2>5. SetInv' /\ FlowInv' /\ PollInv'
      BY <1>2 DEF StartCall, SetInv, FlowInv, PollInv, SignaledTaskIsDone
    <2>. QED  BY <2>3, <2>4, <2>5
  <1>3. CASE CallReturns
    <2>1. TypeOK'
      BY <1>1, <1>3 DEF TypeOK, CallReturns
    <2>2. TasksInv'
      BY <1>0, <1>1, <1>3, TasksKept DEF CallReturns
    <2>3. SetInv' /\ FlowInv' /\ PollInv'
      BY <1>3 DEF CallReturns, SetInv, FlowInv, PollInv, SignaledTaskIsDone
    <2>. QED  BY <2>1, <2>2, <2>3
  <1>4. CASE StartInjection
    <2>1. PICK c \in Injections :
            /\ pc = "next" /\ todo # <<>> /\ Head(todo) = c
            /\ injections' = Append(injections, <<c, generation>>)
            /\ Interrogate({c})
      BY <1>4 DEF StartInjection
    <2>2. <<c, generation>> \in SignalingTasks /\ {c} \subseteq Conditions
      BY Kinds DEF TypeOK, Conditions
    <2>3. PICK task \in SignalingTasks :
            Current(task)' /\ injections' = Append(injections, task)
      BY <1>4, <2>1, <2>2 DEF StartInjection, Interrogate, Current
    <2>4. injections' \in Seq(SignalingTasks)
      BY <2>3, SeqFacts DEF TypeOK
    <2>5. TypeOK'
      BY <1>1, <1>4, <2>1, <2>2, <2>4 DEF TypeOK, StartInjection, Interrogate
    <2>6. TasksInv'
      BY <1>0, <1>1, <1>4, <2>3, TasksKept DEF StartInjection
    <2>7. SetInv' /\ FlowInv' /\ PollInv'
      BY <1>4, <2>1
         DEF StartInjection, Interrogate, SetInv, FlowInv, PollInv,
             SignaledTaskIsDone
    <2>. QED  BY <2>5, <2>6, <2>7
  <1>5. CASE StartDelay
    <2>1. <<Delay, generation>> \in SignalingTasks /\ {Delay} \subseteq Conditions
      BY Kinds DEF TypeOK, Conditions
    <2>2. (\A task \in {<<Delay, generation>>} : Current(task))'
      BY <1>5 DEF StartDelay, Interrogate, Current
    <2>3. TypeOK'
      BY <1>1, <1>5, <2>1 DEF TypeOK, StartDelay, Interrogate
    <2>4. TasksInv'
      <3>1. \A task \in running' \cup delayed' :
              task \in running \cup delayed \/ Current(task)'
        BY <1>5, <2>2 DEF StartDelay
      <3>. QED  BY <1>0, <1>1, <1>5, <3>1, TasksKept DEF StartDelay
    <2>5. SetInv' /\ FlowInv' /\ PollInv'
      BY <1>5 DEF StartDelay, Interrogate, SetInv, FlowInv, PollInv,
                  SignaledTaskIsDone, Delay
    <2>. QED  BY <2>3, <2>4, <2>5
  <1>. QED  BY <1>2, <1>3, <1>4, <1>5

-----------------------------------------------------------------------------
(* loopMainThreadUntilIdle.                                                *)

\* The polls and registrations of loopMainThreadUntilIdle keep the
\* invariant: what they register belongs to the wait about to begin.
LEMMA IdleWaitKeeps == IInv /\ LoopMainThreadUntilIdle => IInv'
  <1>. SUFFICES ASSUME IInv, LoopMainThreadUntilIdle PROVE IInv'
    OBVIOUS
  <1>. USE DEF IInv, LearnBusy, StartPolls
  <1>0. \A task \in SignalingTasks : Current(task) => Current(task)'
    BY CurrentKept DEF LoopMainThreadUntilIdle, StartIdleWait, Poll,
       RegisterNotificationCallback, StartLoop, Interrogate, LastPoll,
       IdleWaitReturns
  <1>1. CASE StartIdleWait
    <2>1. queue' \in Seq(Messages) /\ (\A i \in 1 .. Len(queue) : GoodMessage(queue[i]))'
      BY <1>0, <1>1, QueueKept DEF StartIdleWait
    <2>2. TypeOK'
      BY <1>1, <2>1, Bounds DEF TypeOK, StartIdleWait
    <2>3. TasksInv'
      BY <1>0, <1>1, <2>1, TasksKept DEF StartIdleWait
    <2>4. SetInv' /\ FlowInv' /\ PollInv'
      BY <1>1, NotifierAt
         DEF StartIdleWait, SetInv, FlowInv, PollInv, SignaledTaskIsDone
    <2>. QED  BY <2>2, <2>3, <2>4
  <1>2. CASE Poll
    <2>1. queue' \in Seq(Messages) /\ (\A i \in 1 .. Len(queue) : GoodMessage(queue[i]))'
      BY <1>0, <1>2, QueueKept DEF Poll
    <2>2. TypeOK'
      BY <1>2, <2>1, Bounds DEF TypeOK, Poll
    <2>3. TasksInv'
      BY <1>0, <1>2, <2>1, TasksKept DEF Poll
    <2>4. SetInv' /\ FlowInv' /\ PollInv'
      BY <1>2, Bounds DEF Poll, TypeOK, SetInv, FlowInv, PollInv, SignaledTaskIsDone
    <2>. QED  BY <2>2, <2>3, <2>4
  <1>3. CASE RegisterNotificationCallback
    <2>. DEFINE n == NotifierOrder[at]
    <2>1. /\ n \in Notifiers /\ at \in 1 .. Len(NotifierOrder)
          /\ \A i \in at + 1 .. Len(NotifierOrder) : NotifierOrder[i] # n
          /\ generation \in Nat /\ pc = "register"
      BY <1>3, NotifierAt, Bounds, ControllerAssumption
         DEF RegisterNotificationCallback, TypeOK, FlowInv
    <2>2. <<n, generation>> \in SignalingTasks
      BY <2>1, Kinds
    <2>3. PICK task \in SignalingTasks : task = <<n, generation>> /\ Current(task)'
      BY <1>3, <2>1, <2>2 DEF RegisterNotificationCallback, Current
    <2>4. \/ registered' = [registered EXCEPT ![n] = generation]
             /\ queue' = queue /\ done' = done
          \/ registered' = registered /\ RunTask(task, queue)
      BY <1>3, <2>3 DEF RegisterNotificationCallback
    <2>5. queue' \in Seq(Messages) /\ (\A i \in 1 .. Len(queue) : GoodMessage(queue[i]))'
      BY <1>0, <2>3, <2>4, RunTaskGood, QueueKept
    <2>6. TypeOK'
      <3>1. at' \in 1 .. Len(NotifierOrder) + 1 /\ conditions' \subseteq Conditions
        BY <1>3, <2>1, Bounds DEF TypeOK, RegisterNotificationCallback, Conditions
      <3>2. registered' \in [Notifiers -> Nat \cup {None}] /\ done' \subseteq SignalingTasks
        BY <2>1, <2>3, <2>4 DEF TypeOK, RunTask
      <3>. QED  BY <1>3, <2>5, <3>1, <3>2 DEF TypeOK, RegisterNotificationCallback
    <2>7. TasksInv'
      <3>1. \A m \in Notifiers : \/ registered'[m] \in {registered[m], None}
                                 \/ Current(<<m, registered[m]>>)'
        BY <2>1, <2>3, <2>4 DEF TypeOK
      <3>. QED  BY <1>0, <1>3, <2>5, <3>1, TasksKept DEF RegisterNotificationCallback
    <2>8. SetInv' /\ FlowInv'
      BY <1>3 DEF RegisterNotificationCallback, SetInv, FlowInv, SignaledTaskIsDone
    <2>9. PollInv'
      <3>1. \A i \in at + 1 .. Len(NotifierOrder) : registered'[NotifierOrder[i]] = None
        BY <2>1, <2>4, NotifierAt, Bounds DEF TypeOK, PollInv
      <3>. QED  BY <1>3, <3>1 DEF RegisterNotificationCallback, PollInv
    <2>. QED  BY <2>6, <2>7, <2>8, <2>9
  <1>4. CASE StartLoop
    <2>1. queue' \in Seq(Messages) /\ (\A i \in 1 .. Len(queue) : GoodMessage(queue[i]))'
      BY <1>0, <1>4, QueueKept DEF StartLoop
    <2>2. TypeOK'
      BY <1>4, <2>1 DEF TypeOK, StartLoop, Interrogate
    <2>3. TasksInv'
      BY <1>0, <1>4, <2>1, TasksKept DEF StartLoop
    <2>4. SetInv' /\ FlowInv' /\ PollInv'
      BY <1>4
         DEF StartLoop, Interrogate, SetInv, FlowInv, PollInv, SignaledTaskIsDone
    <2>. QED  BY <2>2, <2>3, <2>4
  <1>5. CASE LastPoll
    <2>1. queue' \in Seq(Messages) /\ (\A i \in 1 .. Len(queue) : GoodMessage(queue[i]))'
      BY <1>0, <1>5, QueueKept DEF LastPoll
    <2>2. TypeOK'
      BY <1>5, <2>1, Bounds DEF TypeOK, LastPoll
    <2>3. TasksInv'
      BY <1>0, <1>5, <2>1, TasksKept DEF LastPoll
    <2>4. SetInv' /\ FlowInv' /\ PollInv'
      BY <1>5, NotifierAt, Bounds
         DEF LastPoll, TypeOK, SetInv, FlowInv, PollInv, SignaledTaskIsDone
    <2>. QED  BY <2>2, <2>3, <2>4
  <1>6. CASE IdleWaitReturns
    <2>1. queue' \in Seq(Messages) /\ (\A i \in 1 .. Len(queue) : GoodMessage(queue[i]))'
      BY <1>0, <1>6, QueueKept DEF IdleWaitReturns
    <2>2. TypeOK'
      <3>1. todo' \in Seq(Waits)
        BY <1>6, SeqFacts DEF TypeOK, FlowInv, IdleWaitReturns
      <3>. QED  BY <1>6, <2>1, <3>1 DEF TypeOK, IdleWaitReturns
    <2>3. TasksInv'
      BY <1>0, <1>6, <2>1, TasksKept DEF IdleWaitReturns
    <2>4. SetInv' /\ FlowInv' /\ PollInv'
      BY <1>6 DEF IdleWaitReturns, SetInv, FlowInv, PollInv, SignaledTaskIsDone
    <2>. QED  BY <2>2, <2>3, <2>4
  <1>. QED  BY <1>1, <1>2, <1>3, <1>4, <1>5, <1>6 DEF LoopMainThreadUntilIdle

-----------------------------------------------------------------------------
(* The messages that the main thread dispatches.                           *)

\* The message about to be dispatched is a good one.
LEMMA HeadMessage ==
  ASSUME IInv, NEW kind, DispatchingHead(kind)
  PROVE  /\ queue # <<>> /\ Head(queue) \in Messages
         /\ Head(queue).kind = kind /\ Head(queue).task \in SignalingTasks
         /\ GoodMessage(Head(queue))
  <1>1. /\ queue \in Seq(Messages) /\ queue # <<>>
        /\ \A i \in 1 .. Len(queue) : GoodMessage(queue[i])
    BY DEF IInv, TypeOK, TasksInv, DispatchingHead
  <1>2. Head(queue) \in Messages /\ GoodMessage(Head(queue))
    BY <1>1, SeqFacts
  <1>. QED  BY <1>1, <1>2, Kinds DEF DispatchingHead

\* Looking at the time leaves a status.
LEMMA StatusKept ==
  ASSUME TypeOK, BeforeTaskDispatch
  PROVE  status' \in {"COMPLETED", "TIMED_OUT", "INTERRUPTED"}
  BY DEF TypeOK, BeforeTaskDispatch

\* The registry posts the task it was given and forgets it.
LEMMA RegistryCallsBack ==
  ASSUME IInv, NEW q, CallBackFromRegistry(q), registered[Dynamic] # None,
         UNCHANGED <<generation, conditions, pc>>
  PROVE  /\ \E m \in Messages : GoodMessage(m)' /\ queue' = Append(q, m)
         /\ registered' \in [Notifiers -> Nat \cup {None}]
         /\ \A n \in Notifiers : registered'[n] \in {registered[n], None}
  <1>1. /\ Dynamic \in Notifiers
        /\ <<Dynamic, registered[Dynamic]>> \in SignalingTasks
        /\ Current(<<Dynamic, registered[Dynamic]>>)
    BY Kinds DEF IInv, TypeOK, TasksInv
  <1>2. PICK task \in SignalingTasks :
          task = <<Dynamic, registered[Dynamic]>> /\ Current(task)'
    BY <1>1, CurrentKept DEF IInv
  <1>3. Message("task", task) \in Messages
    BY Kinds
  <1>4. GoodMessage(Message("task", task))'
    BY <1>2 DEF GoodMessage, Message
  <1>5. registered \in [Notifiers -> Nat \cup {None}]
    BY DEF IInv, TypeOK
  <1>6. queue' = Append(q, Message("task", task))
    BY <1>2 DEF CallBackFromRegistry
  <1>7. registered' = [registered EXCEPT ![Dynamic] = None]
    BY DEF CallBackFromRegistry
  <1>. QED  BY <1>1, <1>3, <1>4, <1>5, <1>6, <1>7

\* Every dispatched message, and a timeout that logs, keeps the invariant.
LEMMA DispatchKeeps == IInv /\ (Dispatch \/ ResourcesHaveTimedOut) => IInv'
  <1>. SUFFICES ASSUME IInv, Dispatch \/ ResourcesHaveTimedOut PROVE IInv'
    OBVIOUS
  <1>. USE DEF IInv
  <1>0. \A task \in SignalingTasks : Current(task) => Current(task)'
    BY CurrentKept DEF Dispatch, HandleMessage, RunSignalingTask,
       HandleResourceIdled, DelayHasPast, HandleInterrupt, ResourcesHaveTimedOut
  <1>1. CASE HandleMessage
    <2>1. queue' \in Seq(Messages) /\ (\A i \in 1 .. Len(queue) : GoodMessage(queue[i]))'
      BY <1>0, <1>1, HeadMessage, QueueKept DEF HandleMessage
    <2>2. PICK task \in SignalingTasks :
            /\ Current(task) /\ task \in done
            /\ conditionSet' = IF task[2] = generation
                               THEN conditionSet \cup {task[1]} ELSE conditionSet
      BY <1>1, HeadMessage DEF HandleMessage, GoodMessage
    <2>3. pc \in {"free", "loop"} /\ status' \in {"COMPLETED", "TIMED_OUT", "INTERRUPTED"}
      BY <1>1, StatusKept DEF HandleMessage, DispatchingHead, Dispatching
    <2>4. TypeOK'
      BY <1>1, <2>1, <2>2, <2>3, Kinds DEF TypeOK, HandleMessage
    <2>5. TasksInv'
      BY <1>0, <1>1, <2>1, TasksKept DEF HandleMessage
    <2>6. SetInv'
      BY <1>1, <2>2, <2>3, Kinds
         DEF HandleMessage, SetInv, SignaledTaskIsDone, Current
    <2>7. FlowInv' /\ PollInv'
      BY <1>1 DEF HandleMessage, FlowInv, PollInv
    <2>. QED  BY <2>4, <2>5, <2>6, <2>7
  <1>2. CASE RunSignalingTask
    <2>1. PICK task \in SignalingTasks : Current(task)' /\ RunTask(task, Tail(queue))
      BY <1>0, <1>2, HeadMessage DEF RunSignalingTask, GoodMessage
    <2>2. queue' \in Seq(Messages) /\ (\A i \in 1 .. Len(queue) : GoodMessage(queue[i]))'
      BY <1>0, <1>2, <2>1, RunTaskGood, HeadMessage, QueueKept DEF RunSignalingTask
    <2>3. TypeOK'
      BY <1>2, <2>1, <2>2, StatusKept DEF TypeOK, RunSignalingTask, RunTask
    <2>4. TasksInv'
      BY <1>0, <1>2, <2>2, TasksKept DEF RunSignalingTask
    <2>5. SetInv' /\ FlowInv' /\ PollInv'
      BY <1>2, <2>1, Undisturbed DEF RunSignalingTask, RunTask
    <2>. QED  BY <2>3, <2>4, <2>5
  <1>3. CASE HandleResourceIdled
    <2>1. CASE registered[Dynamic] = None
      <3>1. queue' \in Seq(Messages) /\ (\A i \in 1 .. Len(queue) : GoodMessage(queue[i]))'
        BY <1>0, <1>3, <2>1, HeadMessage, QueueKept DEF HandleResourceIdled
      <3>2. TypeOK'
        BY <1>3, <2>1, <3>1, StatusKept DEF TypeOK, HandleResourceIdled
      <3>3. TasksInv'
        BY <1>0, <1>3, <2>1, <3>1, TasksKept DEF HandleResourceIdled
      <3>4. SetInv' /\ FlowInv' /\ PollInv'
        BY <1>3, <2>1, Undisturbed DEF HandleResourceIdled
      <3>. QED  BY <3>2, <3>3, <3>4
    <2>2. CASE registered[Dynamic] # None
      <3>0. CallBackFromRegistry(Tail(queue)) /\ UNCHANGED <<generation, conditions, pc>>
        BY <1>3, <2>2 DEF HandleResourceIdled
      <3>1. queue' \in Seq(Messages) /\ (\A i \in 1 .. Len(queue) : GoodMessage(queue[i]))'
        BY <1>0, <1>3, <2>2, <3>0, RegistryCallsBack, HeadMessage, QueueKept
           DEF HandleResourceIdled
      <3>2. TypeOK'
        BY <1>3, <2>2, <3>0, <3>1, RegistryCallsBack, StatusKept
           DEF TypeOK, HandleResourceIdled
      <3>3. TasksInv'
        BY <1>0, <1>3, <2>2, <3>0, <3>1, RegistryCallsBack, TasksKept
           DEF HandleResourceIdled
      <3>4. SetInv' /\ FlowInv' /\ PollInv'
        BY <1>3, <2>2, <3>0, RegistryCallsBack, Undisturbed DEF HandleResourceIdled
      <3>. QED  BY <3>2, <3>3, <3>4
    <2>. QED  BY <2>1, <2>2
  <1>4. CASE DelayHasPast
    <2>1. PICK task \in delayed : delayed' = delayed \ {task} /\ RunTask(task, queue)
      BY <1>4 DEF DelayHasPast
    <2>2. task \in SignalingTasks /\ Current(task)'
      BY <1>0, <2>1 DEF TypeOK, TasksInv
    <2>3. queue' \in Seq(Messages) /\ (\A i \in 1 .. Len(queue) : GoodMessage(queue[i]))'
      BY <1>0, <2>1, <2>2, RunTaskGood, QueueKept
    <2>4. TypeOK'
      BY <1>4, <2>1, <2>2, <2>3, StatusKept DEF TypeOK, DelayHasPast, RunTask
    <2>5. TasksInv'
      BY <1>0, <1>4, <2>1, <2>3, TasksKept DEF DelayHasPast
    <2>6. SetInv' /\ FlowInv' /\ PollInv'
      BY <1>4, <2>1, Undisturbed DEF DelayHasPast, RunTask
    <2>. QED  BY <2>4, <2>5, <2>6
  <1>5. CASE HandleInterrupt
    <2>1. queue' \in Seq(Messages) /\ (\A i \in 1 .. Len(queue) : GoodMessage(queue[i]))'
      BY <1>0, <1>5, HeadMessage, QueueKept DEF HandleInterrupt
    <2>2. delayed' \subseteq delayed
      BY <1>5 DEF HandleInterrupt
    <2>3. TypeOK'
      BY <1>5, <2>1, <2>2 DEF TypeOK, HandleInterrupt
    <2>4. TasksInv'
      BY <1>0, <1>5, <2>1, <2>2, TasksKept DEF HandleInterrupt
    <2>5. SetInv' /\ FlowInv' /\ PollInv'
      BY <1>5, Undisturbed DEF HandleInterrupt
    <2>. QED  BY <2>3, <2>4, <2>5
  <1>6. CASE ResourcesHaveTimedOut
    <2>0. /\ CallBackFromRegistry(queue) /\ registered[Dynamic] # None
          /\ UNCHANGED <<generation, conditions, pc>>
      BY <1>6 DEF ResourcesHaveTimedOut, DynamicTimesOut
    <2>1. queue' \in Seq(Messages) /\ (\A i \in 1 .. Len(queue) : GoodMessage(queue[i]))'
      BY <1>0, <1>6, <2>0, RegistryCallsBack, QueueKept DEF ResourcesHaveTimedOut
    <2>2. timeouts' \in 0 .. MaxTimeouts
      BY <1>6, Bounds DEF TypeOK, ResourcesHaveTimedOut, DynamicTimesOut
    <2>3. TypeOK'
      BY <1>6, <2>0, <2>1, <2>2, RegistryCallsBack, StatusKept
         DEF TypeOK, ResourcesHaveTimedOut
    <2>4. TasksInv'
      BY <1>0, <1>6, <2>0, <2>1, RegistryCallsBack, TasksKept
         DEF ResourcesHaveTimedOut
    <2>5. SetInv' /\ FlowInv' /\ PollInv'
      BY <1>6, <2>0, RegistryCallsBack, Undisturbed DEF ResourcesHaveTimedOut
    <2>. QED  BY <2>3, <2>4, <2>5
  <1>. QED  BY <1>1, <1>2, <1>3, <1>4, <1>5, <1>6 DEF Dispatch

-----------------------------------------------------------------------------
(* The ends of loopUntil.                                                  *)

\* Leaving a wait clears the registrations; what a pool runs late is of
\* this wait.
LEMMA CleanupStep ==
  ASSUME IInv, Cleanup, pc = "loop"
  PROVE  /\ registered' = [n \in Notifiers |-> None]
         /\ running' \subseteq SignalingTasks
         /\ \A task \in running' : Current(task)
  <1>1. CASE InIdleWait
    <2>1. PICK late \in SUBSET {n \in Pools : registered[n] # None} :
            running' = running \cup {<<n, registered[n]>> : n \in late}
      BY <1>1 DEF Cleanup, CancelCallbacks
    <2>2. ASSUME NEW n \in late
          PROVE  /\ <<n, registered[n]>> \in SignalingTasks
                 /\ Current(<<n, registered[n]>>)
      <3>1. n \in Notifiers /\ registered[n] # None
        BY Kinds
      <3>2. registered[n] \in Nat /\ Current(<<n, registered[n]>>)
        BY <3>1 DEF IInv, TypeOK, TasksInv
      <3>. QED  BY <3>1, <3>2, Kinds
    <2>3. \A task \in running : task \in SignalingTasks /\ Current(task)
      BY DEF IInv, TypeOK, TasksInv
    <2>4. \A task \in running' : task \in SignalingTasks /\ Current(task)
      BY <2>1, <2>2, <2>3
    <2>. QED  BY <1>1, <2>4 DEF Cleanup, CancelCallbacks
  <1>2. CASE ~InIdleWait
    <2>1. registered \in [Notifiers -> Nat \cup {None}]
          /\ \A n \in Notifiers : registered[n] = None
      BY <1>2 DEF IInv, TypeOK, PollInv, InIdleWait
    <2>. QED  BY <1>2, <2>1 DEF Cleanup, IInv, TypeOK, TasksInv
  <1>. QED  BY <1>1, <1>2

\* After loopUntil the call polls again, goes on or throws.
LEMMA ProceedStep ==
  ASSUME IInv, pc = "loop", disabled' \subseteq Notifiers, busy' = busy,
         Proceed \/ (Throw /\ UNCHANGED <<at, stuck>>)
  PROVE  /\ pc' \in {"free", "next", "last"}
         /\ pc' = "last" => todo' # <<>> /\ Head(todo') = "IDLE"
         /\ todo' \in Seq(Waits)
         /\ at' \in 1 .. Len(NotifierOrder) + 1
         /\ stuck' \subseteq Notifiers
  <1>1. /\ todo # <<>> /\ todo \in Seq(Waits) /\ Tail(todo) \in Seq(Waits)
        /\ <<>> \in Seq(Waits)
    BY SeqFacts DEF IInv, TypeOK, FlowInv
  <1>2. /\ at \in 1 .. Len(NotifierOrder) + 1 /\ 1 \in 1 .. Len(NotifierOrder) + 1
        /\ stuck \subseteq Notifiers /\ busy \subseteq Notifiers
    BY Bounds DEF IInv, TypeOK
  <1>3. CASE Throw /\ UNCHANGED <<at, stuck>>
    BY <1>1, <1>2, <1>3 DEF Throw
  <1>4. CASE Proceed /\ InIdleWait
    BY <1>1, <1>2, <1>4 DEF Proceed, InIdleWait
  <1>5. CASE Proceed /\ ~InIdleWait
    BY <1>1, <1>2, <1>5 DEF Proceed, Throw
  <1>. QED  BY <1>3, <1>4, <1>5

\* Each end of loopUntil keeps the invariant: the generation moves on, so
\* whatever is under way is old.
LEMMA LeaveKeeps == IInv /\ (LoopUntilEnds \/ DynamicTimeoutThrows) => IInv'
  <1>. SUFFICES ASSUME IInv, LoopUntilEnds \/ DynamicTimeoutThrows PROVE IInv'
    OBVIOUS
  <1>. USE DEF IInv
  <1>1. /\ pc = "loop" /\ Leave
        /\ Proceed \/ (Throw /\ UNCHANGED <<at, stuck>>)
    BY DEF LoopUntilEnds, ConditionsMet, Interrupted, MasterTimeoutThrows,
       MasterTimeoutLogs, DynamicTimeoutThrows, TimedOut, DynamicTimesOut
  <1>2. disabled' \subseteq Notifiers
    BY DEF LoopUntilEnds, ConditionsMet, Interrupted, MasterTimeoutThrows,
       MasterTimeoutLogs, DynamicTimeoutThrows, Disable, TypeOK
  <1>3. timeouts' \in 0 .. MaxTimeouts
    BY Bounds DEF LoopUntilEnds, ConditionsMet, Interrupted, MasterTimeoutThrows,
       MasterTimeoutLogs, DynamicTimeoutThrows, DynamicTimesOut, TypeOK
  <1>4. /\ generation' = generation + 1 /\ conditionSet' = {}
        /\ conditions' = conditions /\ status' = "COMPLETED" /\ overdue' = FALSE
    BY <1>1 DEF Leave, ResetLoop, SetInv
  <1>5. \A task \in SignalingTasks : Current(task) => Current(task)'
    BY <1>4, CurrentKept
  <1>6. queue' \in Seq(Messages) /\ (\A i \in 1 .. Len(queue) : GoodMessage(queue[i]))'
    BY <1>1, <1>5, QueueKept DEF Leave
  <1>7. /\ registered' = [n \in Notifiers |-> None]
        /\ running' \subseteq SignalingTasks
        /\ \A task \in running' : Current(task)'
    BY <1>1, <1>5, CleanupStep DEF Leave
  <1>8. /\ pc' \in {"free", "next", "last"}
        /\ pc' = "last" => todo' # <<>> /\ Head(todo') = "IDLE"
        /\ todo' \in Seq(Waits)
        /\ at' \in 1 .. Len(NotifierOrder) + 1
        /\ stuck' \subseteq Notifiers
    <2>1. busy' = busy
      BY <1>1 DEF Leave
    <2>. QED  BY <1>1, <1>2, <2>1, ProceedStep
  <1>9. TypeOK'
    <2>1. UNCHANGED <<busy, knownBusy, becameBusy, ops, interrupts, injections,
                      delayed, done>>
      BY <1>1 DEF Leave
    <2>2. registered' \in [Notifiers -> Nat \cup {None}]
      BY <1>7
    <2>3. pc' \in {"free", "next", "poll", "register", "loop", "last"}
      BY <1>8
    <2>4. generation' \in Nat
      BY <1>4 DEF TypeOK
    <2>. QED  BY <1>2, <1>3, <1>4, <1>6, <1>7, <1>8, <2>1, <2>2, <2>3, <2>4 DEF TypeOK
  <1>10. TasksInv'
    BY <1>1, <1>5, <1>6, <1>7, TasksKept DEF Leave
  <1>11. SetInv' /\ FlowInv' /\ PollInv'
    BY <1>4, <1>7, <1>8 DEF SetInv, SignaledTaskIsDone, FlowInv, PollInv
  <1>. QED  BY <1>9, <1>10, <1>11

-----------------------------------------------------------------------------
\* The program starts in the invariant.
LEMMA InitInv == Init => IInv
  <1>. SUFFICES ASSUME Init PROVE IInv
    OBVIOUS
  <1>1. TypeOK
    <2>1. /\ at \in 1 .. Len(NotifierOrder) + 1
          /\ ops \in 0 .. MaxOps /\ becameBusy \in 0 .. MaxBusy
          /\ timeouts \in 0 .. MaxTimeouts /\ interrupts \in 0 .. MaxInterrupts
      BY Bounds DEF Init
    <2>2. registered \in [Notifiers -> Nat \cup {None}]
      BY DEF Init
    <2>3. injections \in Seq(SignalingTasks) /\ queue \in Seq(Messages) /\ todo \in Seq(Waits)
      BY DEF Init
    <2>. QED  BY <2>1, <2>2, <2>3 DEF Init, TypeOK
  <1>2. TasksInv /\ SetInv /\ FlowInv /\ PollInv
    BY DEF Init, TasksInv, SetInv, SignaledTaskIsDone, FlowInv, PollInv
  <1>. QED  BY <1>1, <1>2 DEF IInv

\* Every step keeps the invariant.
LEMMA NextInv == IInv /\ [Next]_vars => IInv'
  <1>. SUFFICES ASSUME IInv, [Next]_vars PROVE IInv'
    OBVIOUS
  <1>1. CASE UNCHANGED vars
    BY <1>1 DEF vars, IInv, TypeOK, TasksInv, GoodMessage, Current, SetInv,
                SignaledTaskIsDone, FlowInv, PollInv
  <1>2. CASE Next
    BY <1>2, CallsKeep, IdleWaitKeeps, DispatchKeeps, LeaveKeeps, OthersKeep
       DEF Next, Main, DynamicTimeouts
  <1>. QED  BY <1>1, <1>2

\* The invariant holds throughout.
THEOREM Invariance == Spec => []IInv
  BY InitInv, NextInv, PTL DEF Spec

\* Every variable stays in its range, in every instance.
THEOREM TypeCorrect == Spec => []TypeOK
  BY Invariance, PTL DEF IInv

\* The state checks of the inject methods hold: a condition that is signaled is
\* signaled by a task of this generation that has run.  What is left of waits
\* that timed out, were interrupted or threw carries an older generation.
THEOREM SignalsAreDone == Spec => []SignaledTaskIsDone
  BY Invariance, PTL DEF IInv, SetInv

\* Between two waits no condition is signaled: every way out of loopUntil resets
\* the conditions it waited for, and no other was ever signaled.
THEOREM NothingLeftOver == Spec => []NoLeftoverSignal
  <1>1. IInv => NoLeftoverSignal
    BY DEF IInv, SetInv, NoLeftoverSignal
  <1>. QED  BY <1>1, Invariance, PTL

\* No notifier is given a callback while it holds one: every way out of a wait
\* for idleness cancels, and the polls ask each notifier once.
THEOREM RegistrationsAreSingle == Spec => []NeverRecursive
  <1>1. IInv => NeverRecursive
    BY Bounds DEF IInv, TypeOK, FlowInv, PollInv, NeverRecursive
  <1>. QED  BY <1>1, Invariance, PTL

-----------------------------------------------------------------------------
(* The second polls.  Sources come and go while they run; a source that    *)
(* was never idle since they began is found by one of them.                *)

\* While the second polls run, a source busy ever since they began is still
\* busy and in use, and is none of those already asked.
StuckInv ==
  pc = "last" => /\ stuck \subseteq busy \ disabled
                 /\ \A i \in 1 .. at - 1 : NotifierOrder[i] \notin stuck

\* A step outside the second polls that does not begin them says nothing.
LEMMA StuckElsewhere ==
  ASSUME IInv, pc # "last", [Next]_vars, ~LoopUntilEnds
  PROVE  pc' # "last"
  BY DEF vars, Next, Main, Others, DynamicTimeouts, StartCall, CallReturns,
         StartInjection, StartDelay, Interrogate, LoopMainThreadUntilIdle,
         StartIdleWait, StartPolls, Poll, RegisterNotificationCallback, StartLoop,
         LastPoll, IdleWaitReturns, Dispatch, HandleMessage, RunSignalingTask,
         HandleResourceIdled, DelayHasPast, HandleInterrupt, ResourcesHaveTimedOut,
         DynamicTimeoutThrows, Throw, GoBusy, GoIdle, Settle, CallBack, Inject,
         InterruptEspressoTasks, TimeIsUp

\* The loop that ends begins them with the sources that are busy.
LEMMA StuckBegins ==
  ASSUME IInv, LoopUntilEnds
  PROVE  StuckInv'
  <1>1. /\ pc = "loop" /\ busy' = busy
        /\ Proceed \/ Throw
    BY DEF LoopUntilEnds, ConditionsMet, Interrupted, MasterTimeoutThrows,
       MasterTimeoutLogs, TimedOut, Leave
  <1>2. pc' = "last" => at' = 1 /\ stuck' = busy \ disabled'
    BY <1>1 DEF Proceed, Throw
  <1>. QED  BY <1>1, <1>2 DEF StuckInv

\* A source that is polled idle has been idle since, or is no longer asked.
LEMMA StuckPolled ==
  ASSUME IInv, StuckInv, LastPoll
  PROVE  StuckInv'
  <1>. DEFINE n == NotifierOrder[at]
  <1>1. /\ pc = "last" /\ at \in 1 .. Len(NotifierOrder) + 1
        /\ busy' = busy /\ disabled' = disabled
    BY DEF LastPoll, IInv, TypeOK
  <1>2. CASE IsIdleNow(n) /\ at' = at + 1 /\ UNCHANGED <<pc, conditions, stuck>>
    <2>1. n \notin stuck
      BY <1>1, <1>2 DEF StuckInv, IsIdleNow
    <2>2. \A i \in 1 .. at' - 1 : i \in 1 .. at - 1 \/ i = at
      BY <1>1, <1>2, Bounds
    <2>. QED  BY <1>1, <1>2, <2>1, <2>2 DEF StuckInv
  <1>3. CASE pc' = "poll"
    BY <1>3 DEF StuckInv
  <1>. QED  BY <1>2, <1>3 DEF LastPoll, StartPolls

\* Meanwhile the sources go on.
LEMMA StuckKept ==
  ASSUME IInv, StuckInv, pc = "last", [Next]_vars, ~LastPoll
  PROVE  StuckInv'
  <1>1. CASE IdleWaitReturns
    BY <1>1 DEF IdleWaitReturns, StuckInv
  <1>2. ASSUME NEW n \in Notifiers, GoBusy(n) \/ GoIdle(n)
        PROVE  StuckInv'
    <2>1. /\ UNCHANGED <<pc, at, disabled>>
          /\ stuck' \subseteq stuck
          /\ stuck' \subseteq busy' \/ ~(stuck \subseteq busy)
      BY <1>2 DEF GoBusy, GoIdle
    <2>. QED  BY <2>1 DEF StuckInv
  <1>3. CASE UNCHANGED <<pc, at, disabled, busy, stuck>>
    BY <1>3 DEF StuckInv
  <1>4. \/ IdleWaitReturns
        \/ \E n \in Notifiers : GoBusy(n) \/ GoIdle(n)
        \/ UNCHANGED <<pc, at, disabled, busy, stuck>>
    BY DEF vars, Next, Main, Others, DynamicTimeouts, StartCall, CallReturns,
         StartInjection, StartDelay, LoopMainThreadUntilIdle,
         StartIdleWait, Poll, RegisterNotificationCallback, StartLoop,
         Dispatch, DispatchingHead, Dispatching, HandleMessage, RunSignalingTask,
         HandleResourceIdled, DelayHasPast, HandleInterrupt, ResourcesHaveTimedOut,
         LoopUntilEnds, ConditionsMet, Interrupted, MasterTimeoutThrows,
         MasterTimeoutLogs, TimedOut,
         DynamicTimeoutThrows, DynamicTimesOut, Settle, CallBack, Inject,
         InterruptEspressoTasks, TimeIsUp
  <1>. QED  BY <1>1, <1>2, <1>3, <1>4

\* Every step keeps what is said of the second polls.
LEMMA StuckNext == IInv /\ StuckInv /\ [Next]_vars => StuckInv'
  <1>1. ASSUME IInv, [Next]_vars, pc # "last", ~LoopUntilEnds
        PROVE  StuckInv'
    BY <1>1, StuckElsewhere DEF StuckInv
  <1>. QED  BY <1>1, StuckBegins, StuckPolled, StuckKept

\* loopMainThreadUntilIdle returns only if every notifier still in use was idle
\* at some moment since the loop ended: the order of the polls names them all,
\* and the first that is found busy sends the thread back to the loop.
THEOREM ReturnsWhenIdle == Spec => ReturnedMeansIdle
  <1>1. Init => StuckInv
    BY DEF Init, StuckInv
  <1>2. ASSUME IInv, StuckInv, [Next]_vars
        PROVE  [pc = "last" /\ pc' = "next" => stuck = {}]_vars
    <2>. SUFFICES ASSUME pc = "last", pc' = "next"
                  PROVE  stuck = {}
      OBVIOUS
    <2>1. IdleWaitReturns
      BY <1>2
         DEF vars, Next, Main, Others, DynamicTimeouts, StartCall, CallReturns,
         StartInjection, StartDelay, LoopMainThreadUntilIdle,
         StartIdleWait, StartPolls, Poll, RegisterNotificationCallback, StartLoop,
         LastPoll, Dispatch, DispatchingHead, Dispatching, HandleMessage,
         RunSignalingTask, HandleResourceIdled, DelayHasPast, HandleInterrupt,
         ResourcesHaveTimedOut, LoopUntilEnds, ConditionsMet, Interrupted,
         MasterTimeoutThrows, MasterTimeoutLogs, TimedOut, DynamicTimeoutThrows,
         DynamicTimesOut, GoBusy, GoIdle, Settle, CallBack, Inject,
         InterruptEspressoTasks, TimeIsUp
    <2>2. /\ at = Len(NotifierOrder) + 1
          /\ \A i \in 1 .. Len(NotifierOrder) : NotifierOrder[i] \notin stuck
      BY <1>2, <2>1, Bounds DEF IdleWaitReturns, StuckInv
    <2>3. stuck \subseteq Notifiers
      BY <1>2 DEF IInv, TypeOK
    <2>4. \A n \in Notifiers :
            \E i \in 1 .. Len(NotifierOrder) : NotifierOrder[i] = n
      BY ControllerAssumption
    <2>. QED  BY <2>2, <2>3, <2>4
  <1>. QED  BY <1>1, <1>2, StuckNext, Invariance, PTL DEF Spec, ReturnedMeansIdle
=============================================================================
