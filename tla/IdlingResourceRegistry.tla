------------------------ MODULE IdlingResourceRegistry ------------------------
(***************************************************************************)
(* espresso/base/IdlingResourceRegistry.java together with the resources   *)
(* it listens to and the main thread that waits for them in                *)
(* UiControllerImpl.loopMainThreadUntilIdle.                               *)
(*                                                                         *)
(* The registry runs on the main thread only; the application changes the  *)
(* resources and calls onTransitionToIdle from any thread.  What the two   *)
(* share is the state of each resource, its callback field and the main    *)
(* thread's message queue, so one action is one access to these: one       *)
(* isIdleNow(), one increment, one message posted or one dispatched.       *)
(*                                                                         *)
(* A resource outside CallbackFirst is a CountingIdlingResource, which     *)
(* changes its state and then calls back.  One in CallbackFirst does what  *)
(* the javadoc of IdlingResource.ResourceCallback asks for: it calls back  *)
(* and then changes its state.                                             *)
(***************************************************************************)
EXTENDS Integers, Sequences, FiniteSets

CONSTANTS Resources,
          CallbackFirst,     \* the resources that follow the javadoc
          MaxCount,          \* bound: counter of a resource
          MaxIncrements,     \* bound: increments of all resources
          MaxRequests,       \* bound: registrations asked for, and the reverse
          MaxWaits,          \* bound: callbacks registered by the main thread
          MayUnregister,     \* TRUE: the test may unregister resources
          MayTimeOut         \* TRUE: timers and the master policy may fire

ASSUME RegistryAssumption ==
  /\ CallbackFirst \subseteq Resources
  /\ MaxCount \in Nat \ {0}
  /\ MaxIncrements \in Nat
  /\ MaxRequests \in Nat
  /\ MaxWaits \in Nat
  /\ MayUnregister \in BOOLEAN
  /\ MayTimeOut \in BOOLEAN

None   == 0
States == 1 .. MaxRequests       \* an IdlingState, named by the request it is for
Waits  == 1 .. MaxWaits          \* IdleNotificationCallback objects, likewise

VARIABLES
  counter,     \* how busy each resource is
  due,         \* decrements to 0 that have not yet called back
  callback,    \* the IdlingState a resource calls back
  increments,  \* increments so far
  requests,    \* requests so far
  queue,       \* the message queue of the main looper: the messages that are due
  timers,      \* the delayed messages that are not due yet
  states,      \* idlingStates
  resource,    \* the resource of each IdlingState
  idle,        \* IdlingState.idle
  armed,       \* idleNotificationCallback, None for NO_OP_CALLBACK
  pc,          \* what the main thread does
  pos,         \* index of its loop over idlingStates
  racy,        \* locals of getBusyResources: racyResources,
  named,       \*   busyResourceNames
  waiting,     \* the main thread is inside loopUntil,
  waitFor,     \*   for the signal of this callback (None: for an empty queue)
  overdue,     \* a message was due in this loop, so its time may be looked at
  waits,       \* callbacks registered so far
  posted,      \* how often the signal of each callback was posted
  signaled,    \* the callbacks whose signal has been dispatched
  accused,     \* the IdlingStates handleRaceCondition has thrown for
  stuck        \* history: resources busy since the last poll of the wait began

resourceVars == <<counter, due, callback, increments, stuck>>
registryVars == <<requests, states, resource, idle, accused>>
localVars    == <<pos, racy, named>>
waitVars     == <<waiting, waitFor, overdue, waits, posted, signaled>>
vars == <<counter, due, callback, increments, requests, queue, timers, states, resource,
          idle, armed, pc, pos, racy, named, waiting, waitFor, overdue, waits, posted,
          signaled, accused, stuck>>

Polls == {"first", "register", "last"}    \* where allResourcesAreIdle is called
Scans == {"warning", "timeout", "master"} \* where getBusyResources is called

Message(kind, of) == [kind |-> kind, of |-> of]
Messages ==
  [kind : {"idled", "race"}, of : SUBSET States]
    \cup [kind : {"signal"}, of : SUBSET Waits]
    \cup [kind : {"register", "unregister"}, of : SUBSET Resources]
    \cup [kind : {"warning", "timeout"}, of : {{}}]

TypeOK ==
  /\ counter \in [Resources -> 0 .. MaxCount]
  /\ due \in [Resources -> Nat]
  /\ callback \in [Resources -> States \cup {None}]
  /\ increments \in 0 .. MaxIncrements
  /\ requests \in 0 .. MaxRequests
  /\ queue \in Seq(Messages)
  /\ timers \subseteq {"warning", "timeout"}
  /\ states \in Seq(States)
  /\ resource \in [States -> Resources \cup {None}]
  /\ idle \in [States -> BOOLEAN]
  /\ armed \in Waits \cup {None}
  /\ pc \in {"looper", "registerSelf", "report", "twice", "dead"} \cup Polls \cup Scans
  /\ pos \in Nat
  /\ racy \subseteq States
  /\ named \subseteq Resources
  /\ waiting \in BOOLEAN
  /\ waitFor \in Waits \cup {None}
  /\ overdue \in BOOLEAN
  /\ waits \in Waits \cup {None}
  /\ posted \in [Waits -> Nat]
  /\ signaled \subseteq Waits
  /\ accused \subseteq States
  /\ stuck \subseteq Resources

Init ==
  /\ counter = [r \in Resources |-> 0]
  /\ due = [r \in Resources |-> 0]
  /\ callback = [r \in Resources |-> None]
  /\ increments = 0
  /\ requests = 0
  /\ queue = <<>>
  /\ timers = {}
  /\ states = <<>>
  /\ resource = [s \in States |-> None]
  /\ idle = [s \in States |-> FALSE]
  /\ armed = None
  /\ pc = "looper"
  /\ pos = 1
  /\ racy = {}
  /\ named = {}
  /\ waiting = FALSE
  /\ waitFor = None
  /\ overdue = FALSE
  /\ waits = 0
  /\ posted = [n \in Waits |-> 0]
  /\ signaled = {}
  /\ accused = {}
  /\ stuck = {}

-----------------------------------------------------------------------------
(* The resources, from any thread.                                         *)

IsIdleNow(r) == counter[r] = 0

\* onTransitionToIdle of the registered IdlingState, if there is one.
OnTransitionToIdle(r) ==
  queue' = IF callback[r] = None THEN queue
           ELSE Append(queue, Message("idled", {callback[r]}))

Increment(r) ==
  /\ counter[r] < (IF r \in CallbackFirst THEN 1 ELSE MaxCount)
  /\ increments < MaxIncrements
  /\ counter' = [counter EXCEPT ![r] = @ + 1]
  /\ increments' = increments + 1
  /\ UNCHANGED <<registryVars, localVars, waitVars, due, callback, stuck,
                 queue, timers, armed, pc>>

\* The state becomes idle; nothing is owed to Espresso until Notify.
Decrement(r) ==
  /\ r \notin CallbackFirst
  /\ counter[r] > 0
  /\ counter' = [counter EXCEPT ![r] = @ - 1]
  /\ due' = [due EXCEPT ![r] = IF counter[r] = 1 THEN @ + 1 ELSE @]
  /\ stuck' = IF counter[r] = 1 THEN stuck \ {r} ELSE stuck
  /\ UNCHANGED <<registryVars, localVars, waitVars, callback, increments,
                 queue, timers, armed, pc>>

Notify(r) ==
  /\ r \notin CallbackFirst
  /\ due[r] > 0
  /\ due' = [due EXCEPT ![r] = @ - 1]
  /\ OnTransitionToIdle(r)
  /\ UNCHANGED <<registryVars, localVars, waitVars, counter, callback,
                 increments, stuck, timers, armed, pc>>

\* The order the javadoc of ResourceCallback asks for.
NotifyFirst(r) ==
  /\ r \in CallbackFirst
  /\ counter[r] = 1
  /\ due[r] = 0
  /\ due' = [due EXCEPT ![r] = 1]
  /\ OnTransitionToIdle(r)
  /\ UNCHANGED <<registryVars, localVars, waitVars, counter, callback,
                 increments, stuck, timers, armed, pc>>

ThenIdle(r) ==
  /\ r \in CallbackFirst
  /\ due[r] = 1
  /\ due' = [due EXCEPT ![r] = 0]
  /\ counter' = [counter EXCEPT ![r] = 0]
  /\ stuck' = stuck \ {r}
  /\ UNCHANGED <<registryVars, localVars, waitVars, callback, increments,
                 queue, timers, armed, pc>>

-----------------------------------------------------------------------------
(* The message queue of the main looper.                                   *)

\* A message the main looper dispatches, at rest or inside loopUntil.
Dispatching(kind) == /\ pc = "looper"
                     /\ queue # <<>>
                     /\ Head(queue).kind = kind

\* s without its element at i.
Without(s, i) == SubSeq(s, 1, i - 1) \o SubSeq(s, i + 1, Len(s))

\* There is never more than one message of kind k here: see TimersMatchCallback.
Removed(q, k) ==
  IF \A i \in DOMAIN q : q[i].kind # k THEN q
  ELSE Without(q, CHOOSE i \in DOMAIN q : q[i].kind = k)

\* handler.removeCallbacksAndMessages(TIMEOUT_MESSAGE_TAG): a race message has
\* lost the tag to its own obj.
Untagged(q) == Removed(Removed(q, "warning"), "timeout")

\* Mutant: the delayed messages that are due already stay in the queue.
DeregisterTimersOnly(q) ==
  /\ queue' = q
  /\ timers' = {}
  /\ armed' = None

\* deregister, after the messages that leave q in the queue.
Deregister(q) ==
  /\ queue' = Untagged(q)
  /\ timers' = {}
  /\ armed' = None

\* A delayed message reaches its time.
TimerDue(k) ==
  /\ MayTimeOut
  /\ k \in timers
  /\ timers' = timers \ {k}
  /\ queue' = Append(queue, Message(k, {}))
  /\ UNCHANGED <<resourceVars, registryVars, localVars, waitVars, armed, pc>>

\* Another thread asks for a registration or the reverse and waits for it
\* (runSynchronouslyOnMainThread): one request is in the queue at a time.
Request(kind, r) ==
  /\ requests < MaxRequests
  /\ requests' = requests + 1
  /\ \A i \in DOMAIN queue : queue[i].kind \notin {"register", "unregister"}
  /\ kind = "unregister" => MayUnregister
  /\ queue' = Append(queue, Message(kind, {r}))
  /\ UNCHANGED <<resourceVars, localVars, waitVars, states, resource, idle,
                 accused, timers, armed, pc>>

-----------------------------------------------------------------------------
(* Registration, on the main thread.                                       *)

Registered   == {states[i] : i \in DOMAIN states}
StateOf(r)   == {s \in Registered : resource[s] = r}

\* A resource registered under a known name is ignored.
RegisterResources ==
  /\ Dispatching("register")
  /\ \E r \in Resources :
       /\ Head(queue).of = {r}
       /\ IF StateOf(r) # {}
          THEN UNCHANGED <<states, resource, callback, pc>>
          ELSE /\ states' = Append(states, requests)
               /\ resource' = [resource EXCEPT ![requests] = r]
               /\ callback' = [callback EXCEPT ![r] = requests]
               /\ pc' = "registerSelf"
  /\ queue' = Tail(queue)
  /\ UNCHANGED <<localVars, waitVars, counter, due, increments, stuck,
                 requests, idle, accused, timers, armed>>

\* Mutant: registerSelf does not poll the resource.
RegisterSelfUnasked ==
  /\ pc = "registerSelf"
  /\ pc' = "looper"
  /\ UNCHANGED <<resourceVars, localVars, waitVars, requests, states, idle,
                 resource, accused, queue, timers, armed>>

\* registerSelf polls the resource after it has given it the callback.
RegisterSelf ==
  LET s == states[Len(states)] IN
  /\ pc = "registerSelf"
  /\ idle' = [idle EXCEPT ![s] = IsIdleNow(resource[s])]
  /\ pc' = "looper"
  /\ UNCHANGED <<resourceVars, localVars, waitVars, requests, states,
                 resource, accused, queue, timers, armed>>

\* The state of the resource is removed from the list, if there is one.
UnregisterResources ==
  /\ Dispatching("unregister")
  /\ \/ /\ \A i \in DOMAIN states : {resource[states[i]]} # Head(queue).of
        /\ UNCHANGED states
     \/ \E i \in DOMAIN states :
          /\ {resource[states[i]]} = Head(queue).of
          /\ \A j \in 1 .. i - 1 : {resource[states[j]]} # Head(queue).of
          /\ states' = Without(states, i)
  /\ queue' = Tail(queue)
  /\ UNCHANGED <<resourceVars, localVars, waitVars, requests, resource, idle,
                 accused, timers, armed, pc>>

-----------------------------------------------------------------------------
(* allResourcesAreIdle, one isIdleNow() at a time: a state that is not     *)
(* idle is believed, an idle one is asked again.                           *)

\* Mutant: an idle state is believed.
IdleAfterTrusting(s) == idle[s]

IdleAfter(s) == idle[s] /\ IsIdleNow(resource[s])

AskNext ==
  /\ pc \in Polls
  /\ pos \in DOMAIN states
  /\ IdleAfter(states[pos])
  /\ pos' = pos + 1
  /\ UNCHANGED <<resourceVars, registryVars, waitVars, racy, named, queue,
                 timers, armed, pc>>

\* allResourcesAreIdle returns false, or true, at p.
SaysBusy(p) ==
  /\ pc = p
  /\ pos \in DOMAIN states
  /\ ~IdleAfter(states[pos])
  /\ idle' = [idle EXCEPT ![states[pos]] = FALSE]
  /\ pos' = 1

SaysIdle(p) ==
  /\ pc = p
  /\ pos \notin DOMAIN states
  /\ pos' = 1
  /\ UNCHANGED idle

-----------------------------------------------------------------------------
(* The wait: loopMainThreadUntilIdle, as far as this notifier goes.        *)

EnterLoop(n) ==
  /\ pc' = "looper"
  /\ waiting' = TRUE
  /\ waitFor' = n
  /\ overdue' = FALSE

StartWait ==
  /\ pc = "looper"
  /\ ~waiting
  /\ pc' = "first"
  /\ UNCHANGED <<resourceVars, registryVars, localVars, waitVars, queue,
                 timers, armed>>

FirstPoll ==
  /\ \/ SaysBusy("first") /\ pc' = "register" /\ UNCHANGED <<waiting, waitFor, overdue>>
     \/ SaysIdle("first") /\ EnterLoop(None)
  /\ UNCHANGED <<resourceVars, requests, states, resource, accused, racy,
                 named, waits, posted, signaled, queue, timers, armed>>

\* Mutant: a cancelled callback posts its signal all the same.
SignalAlways(n) == <<Message("signal", {n})>>

\* allResourcesIdle() of the callback posts its signal, a NO_OP_CALLBACK none.
Signal(n)    == IF n = None THEN <<>> ELSE <<Message("signal", {n})>>
CountSignal(n) == posted' = [m \in Waits |-> posted[m] + IF m = n THEN 1 ELSE 0]

\* notifyWhenAllResourcesAreIdle; checkState throws over a registered callback.
NotifyWhenAllResourcesAreIdle ==
  /\ waits < MaxWaits
  /\ waits' = waits + 1
  /\ IF armed # None
     THEN /\ pc = "register"
          /\ pc' = "twice"
          /\ UNCHANGED <<idle, pos, waiting, waitFor, overdue, posted, queue, timers,
                         armed>>
     ELSE /\ EnterLoop(waits')
          /\ \/ /\ SaysIdle("register")
                /\ queue' = queue \o Signal(waits')
                /\ CountSignal(waits')
                /\ UNCHANGED <<timers, armed>>
             \/ /\ SaysBusy("register")
                /\ armed' = waits'
                /\ timers' = {"warning", "timeout"}
                /\ UNCHANGED <<queue, posted>>
  /\ UNCHANGED <<resourceVars, requests, states, resource, accused, racy,
                 named, signaled>>

\* Bound: after MaxWaits callbacks the main thread only polls.
NoMoreWaits ==
  /\ waits = MaxWaits
  /\ \/ SaysBusy("register")
     \/ SaysIdle("register")
  /\ pc' = "looper"
  /\ UNCHANGED <<resourceVars, requests, states, resource, accused, racy,
                 named, waitVars, queue, timers, armed>>

HandleSignal ==
  /\ Dispatching("signal")
  /\ signaled' = signaled \cup Head(queue).of
  /\ queue' = Tail(queue)
  /\ UNCHANGED <<resourceVars, registryVars, localVars, waiting, waitFor, overdue,
                 waits, posted, timers, armed, pc>>

\* Mutant: an exception leaves the callback registered.
UnwindWithoutCancel(q) ==
  /\ waiting' = FALSE
  /\ pc' = "looper"
  /\ queue' = q
  /\ UNCHANGED <<timers, armed>>

\* The finally clauses cancel the callback: after an exception, or on the way
\* to the last poll.
Unwind(q) ==
  /\ waiting' = FALSE
  /\ pc' = "looper"
  /\ Deregister(q)

EndLoop ==
  /\ waiting' = FALSE
  /\ pc' = "last"
  /\ Deregister(queue)
  /\ stuck' = {r \in Resources : StateOf(r) # {} /\ ~IsIdleNow(r)}

\* loopUntil is content over an empty queue.
LeaveLoop ==
  /\ pc = "looper"
  /\ waiting
  /\ queue = <<>>
  /\ waitFor \in signaled \cup {None}
  /\ EndLoop
  /\ UNCHANGED <<registryVars, localVars, counter, due, callback, increments,
                 waitFor, overdue, waits, posted, signaled>>

LastPoll ==
  /\ \/ SaysBusy("last") /\ pc' = "first"
     \/ SaysIdle("last") /\ pc' = "looper"
  /\ stuck' = {}
  /\ UNCHANGED <<counter, due, callback, increments, requests, states,
                 resource, accused, racy, named, waitVars, queue, timers,
                 armed>>

-----------------------------------------------------------------------------
(* The Dispatcher, on the main thread.                                     *)

HandleResourceIdled ==
  /\ Dispatching("idled")
  /\ \E s \in States :
       /\ Head(queue).of = {s}
       /\ idle' = [idle EXCEPT ![s] = TRUE]
       /\ IF s \in Registered /\ \A x \in Registered : idle'[x]
          THEN /\ Deregister(Tail(queue) \o Signal(armed))
               /\ CountSignal(armed)
          ELSE /\ queue' = Tail(queue)
               /\ UNCHANGED <<timers, armed, posted>>
  /\ UNCHANGED <<resourceVars, localVars, requests, states, resource, accused,
                 waiting, waitFor, overdue, waits, signaled, pc>>

\* handleTimeoutWarning and handleTimeout begin with getBusyResources, which
\* the master policy asks as well.
StartScan(k) ==
  /\ Dispatching(k)
  /\ queue' = Tail(queue)
  /\ pc' = k
  /\ UNCHANGED <<resourceVars, registryVars, localVars, waitVars, timers,
                 armed>>

\* The loop looks at its time when a message is due, and after dispatching one.
MessageIsDue ==
  /\ MayTimeOut
  /\ pc = "looper"
  /\ waiting
  /\ queue # <<>>
  /\ overdue' = TRUE
  /\ UNCHANGED <<resourceVars, registryVars, localVars, waiting, waitFor,
                 waits, posted, signaled, queue, timers, armed, pc>>

MasterTimeout ==
  /\ pc = "looper"
  /\ waiting
  /\ overdue
  /\ pc' = IF waitFor \in signaled \cup {None} THEN "report" ELSE "master"
  /\ UNCHANGED <<resourceVars, registryVars, localVars, waitVars, queue,
                 timers, armed>>

GetBusyResources ==
  LET s == states[pos]
      r == resource[s]
  IN  /\ pc \in Scans
      /\ pos \in DOMAIN states
      /\ pos' = pos + 1
      /\ racy' = IF ~idle[s] /\ IsIdleNow(r) THEN racy \cup {s} ELSE racy
      /\ named' = IF ~idle[s] /\ ~IsIdleNow(r) THEN named \cup {r} ELSE named
      /\ UNCHANGED <<resourceVars, registryVars, waitVars, queue, timers,
                     armed, pc>>

\* getBusyResources returns at k: null and a race message, or the names.
Returns(k, isNull) ==
  /\ pc = k
  /\ pos \notin DOMAIN states
  /\ isNull <=> racy # {}
  /\ pos' = 1
  /\ racy' = {}
  /\ named' = {}

HandleTimeoutWarning ==
  /\ \/ /\ Returns("warning", TRUE)
        /\ queue' = queue \o <<Message("race", racy), Message("warning", {})>>
        /\ UNCHANGED timers
     \/ /\ Returns("warning", FALSE)
        /\ timers' = timers \cup {"warning"}
        /\ UNCHANGED queue
  /\ pc' = "looper"
  /\ UNCHANGED <<resourceVars, registryVars, waitVars, armed>>

\* Mutant: no deregister after the timeout.
HandleTimeoutKept ==
  /\ \/ /\ Returns("timeout", TRUE)
        /\ queue' = queue \o <<Message("race", racy), Message("timeout", {})>>
        /\ UNCHANGED posted
     \/ /\ Returns("timeout", FALSE)
        /\ queue' = queue \o Signal(armed)
        /\ CountSignal(armed)
  /\ pc' = "looper"
  /\ UNCHANGED <<resourceVars, registryVars, waitFor, overdue, waits, signaled,
                 timers, armed, waiting>>

\* The error policy throws, out of the wait, or logs and posts the signal.
HandleTimeout ==
  /\ \/ /\ Returns("timeout", TRUE)
        /\ queue' = queue \o <<Message("race", racy), Message("timeout", {})>>
        /\ pc' = "looper"
        /\ UNCHANGED <<timers, armed, posted, waiting>>
     \/ /\ Returns("timeout", FALSE)
        /\ armed # None
        /\ Unwind(queue)
        /\ UNCHANGED posted
     \/ /\ Returns("timeout", FALSE)
        /\ pc' = "looper"
        /\ Deregister(queue \o Signal(armed))
        /\ CountSignal(armed)
        /\ UNCHANGED waiting
  /\ UNCHANGED <<resourceVars, registryVars, waitFor, overdue, waits, signaled>>

\* joinToString throws over null.
JoinBusyResources ==
  /\ \/ /\ Returns("master", TRUE)
        /\ Unwind(Append(queue, Message("race", racy)))
     \/ /\ Returns("master", FALSE)
        /\ pc' = "report"
        /\ UNCHANGED <<queue, timers, armed, waiting>>
  /\ UNCHANGED <<resourceVars, registryVars, waitFor, overdue, waits, posted,
                 signaled>>

\* The master policy throws AppNotIdleException, or logs and the wait goes on.
ReportTimeout ==
  /\ pc = "report"
  /\ \/ Unwind(queue) /\ UNCHANGED stuck
     \/ EndLoop
  /\ UNCHANGED <<registryVars, localVars, counter, due, callback, increments,
                 waitFor, overdue, waits, posted, signaled>>

\* The throw ends the wait, or the process when there is none.
HandleRaceCondition ==
  LET guilty == {s \in Head(queue).of : ~idle[s]} IN
  /\ Dispatching("race")
  /\ accused' = accused \cup guilty
  /\ \/ /\ guilty = {}
        /\ queue' = Tail(queue)
        /\ UNCHANGED <<timers, armed, waiting, pc>>
     \/ /\ guilty # {} /\ waiting
        /\ Unwind(Tail(queue))
     \/ /\ guilty # {} /\ ~waiting
        /\ pc' = "dead"
        /\ queue' = Tail(queue)
        /\ UNCHANGED <<timers, armed, waiting>>
  /\ UNCHANGED <<resourceVars, localVars, requests, states, resource, idle,
                 waitFor, overdue, waits, posted, signaled>>

-----------------------------------------------------------------------------
Application ==
  \E r \in Resources : \/ Increment(r) \/ Decrement(r) \/ Notify(r)
                       \/ NotifyFirst(r) \/ ThenIdle(r)

Requests == \E r \in Resources, kind \in {"register", "unregister"} :
              Request(kind, r)

Timers == MessageIsDue \/ \E k \in {"warning", "timeout"} : TimerDue(k)

Dispatch == \/ HandleResourceIdled \/ HandleRaceCondition \/ HandleSignal
            \/ RegisterResources \/ UnregisterResources
            \/ StartScan("warning") \/ StartScan("timeout")

MainStep == \/ Dispatch \/ RegisterSelf \/ AskNext \/ FirstPoll
            \/ NotifyWhenAllResourcesAreIdle \/ NoMoreWaits \/ LeaveLoop
            \/ LastPoll \/ GetBusyResources \/ HandleTimeoutWarning
            \/ HandleTimeout \/ MasterTimeout \/ JoinBusyResources
            \/ ReportTimeout

Next == Application \/ Requests \/ Timers \/ StartWait \/ MainStep

Spec == Init /\ [][Next]_vars

\* The main thread runs, what a resource waits for ends, and the threads that
\* end it run on to the callback.
FairSpec ==
  /\ Spec
  /\ WF_vars(MainStep)
  /\ \A r \in Resources : /\ WF_vars(Decrement(r)) /\ WF_vars(Notify(r))
                          /\ WF_vars(NotifyFirst(r)) /\ WF_vars(ThenIdle(r))
-----------------------------------------------------------------------------
(* Properties                                                              *)

\* The wait ends as idle only when no registered resource was busy through all
\* of the last poll: a stale message can make the registry believe a busy
\* resource idle, but not the poll.
DeclaredIdleIsTrue ==
  [][pc = "last" /\ pc' = "looper" => stuck = {}]_vars

\* The delayed messages are there, once each, exactly while a callback is
\* registered (one of them may be in the main thread's hands).
Pending(k) == Cardinality({i \in DOMAIN queue : queue[i].kind = k})
                + (IF k \in timers THEN 1 ELSE 0) + (IF pc = k THEN 1 ELSE 0)
TimersMatchCallback ==
  \A k \in {"warning", "timeout"} : Pending(k) = IF armed = None THEN 0 ELSE 1

Notifier ==
  INSTANCE IdleNotifier
    WITH MaxCallbacks <- MaxWaits,
         MayCallLate  <- FALSE,
         last         <- waits,
         registered   <- armed,
         calls        <- posted

\* The registry implements IdleNotifier, and never calls back late: of the last
\* idle message, the poll, the timeout and the cancel the first one settles it.
ImplementsIdleNotifier == Notifier!Spec

\* checkState("Callback has already been registered.") never fails.
NeverRegisteredTwice == pc # "twice"

\* What IdlingResource.ResourceCallback promises a resource that calls back
\* before it updates its state: no consistency error.
FollowersAreNotAccused == \A s \in accused : resource[s] \notin CallbackFirst

\* The master timeout is reported by its policy.
MasterTimeoutIsReported ==
  pc = "master" /\ pos \notin DOMAIN states => racy = {}

\* The main thread does not wait for ever.
WaitEnds == waiting ~> ~waiting
=============================================================================
