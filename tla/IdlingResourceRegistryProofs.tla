-------------------- MODULE IdlingResourceRegistryProofs --------------------
(***************************************************************************)
(* What holds of the registry for every set of resources and every number  *)
(* of increments, requests and waits.                                      *)
(***************************************************************************)
EXTENDS IdlingResourceRegistry, SequenceTheorems, FiniteSetTheorems, TLAPS

USE RegistryAssumption

TimerKinds == {"warning", "timeout"}

\* No message of kind k is in q; one is.
Zero(q, k) == \A i \in DOMAIN q : q[i].kind # k
One(q, k) == \E i \in DOMAIN q : q[i].kind = k /\ \A j \in DOMAIN q : q[j].kind = k => j = i

-----------------------------------------------------------------------------
(* Sequences without one of their elements.                                *)

\* An element is left out and the rest moves up.
LEMMA WithoutProperties ==
  ASSUME NEW S, NEW s \in Seq(S), NEW i \in DOMAIN s
  PROVE  /\ Without(s, i) \in Seq(S)
         /\ DOMAIN Without(s, i) = 1 .. Len(s) - 1
         /\ \A j \in 1 .. Len(s) - 1 : Without(s, i)[j] = IF j < i THEN s[j] ELSE s[j + 1]
<1> DEFINE a == SubSeq(s, 1, i - 1)
           b == SubSeq(s, i + 1, Len(s))
<1>1. Len(s) \in Nat /\ i \in 1 .. Len(s) /\ \A j \in 1 .. Len(s) : s[j] \in S
  BY LenProperties
<1>2. /\ a \in Seq(S) /\ Len(a) = i - 1 /\ \A j \in 1 .. i - 1 : a[j] = s[j]
  <2>1. \A j \in 1 .. i - 1 : s[j] \in S
    BY <1>1
  <2> QED
    BY <1>1, <2>1, SubSeqProperties
<1>3. /\ b \in Seq(S) /\ Len(b) = Len(s) - i /\ \A j \in 1 .. Len(s) - i : b[j] = s[i + j]
  <2>1. \A j \in i + 1 .. Len(s) : s[j] \in S
    BY <1>1
  <2>2. /\ b \in Seq(S) /\ Len(b) = (IF i + 1 <= Len(s) THEN Len(s) - (i + 1) + 1 ELSE 0)
        /\ \A j \in 1 .. Len(s) - (i + 1) + 1 : b[j] = s[(i + 1) + j - 1]
    BY <1>1, <2>1, SubSeqProperties
  <2> QED
    BY <1>1, <2>2
<1> HIDE DEF a, b
<1>4. /\ a \o b \in Seq(S) /\ Len(a \o b) = Len(s) - 1
      /\ \A j \in 1 .. Len(s) - 1 : (a \o b)[j] = IF j <= i - 1 THEN a[j] ELSE b[j - (i - 1)]
  <2>1. /\ a \o b \in Seq(S) /\ Len(a \o b) = Len(a) + Len(b)
        /\ \A j \in 1 .. Len(a) + Len(b) : (a \o b)[j] = IF j <= Len(a) THEN a[j] ELSE b[j - Len(a)]
    BY <1>2, <1>3, ConcatProperties
  <2>2. Len(a) + Len(b) = Len(s) - 1
    BY <1>1, <1>2, <1>3
  <2> QED
    BY <1>2, <2>1, <2>2
<1>5. ASSUME NEW j \in 1 .. Len(s) - 1 PROVE (a \o b)[j] = IF j < i THEN s[j] ELSE s[j + 1]
  <2>1. CASE j < i
    <3>1. j \in 1 .. i - 1 /\ j <= i - 1
      BY <1>1, <2>1
    <3> QED
      BY <1>2, <1>4, <2>1, <3>1
  <2>2. CASE ~(j < i)
    <3>1. ~(j <= i - 1) /\ j - (i - 1) \in 1 .. Len(s) - i /\ i + (j - (i - 1)) = j + 1
      BY <1>1, <2>2
    <3> QED
      BY <1>3, <1>4, <2>2, <3>1
  <2> QED
    BY <2>1, <2>2
<1>6. DOMAIN (a \o b) = 1 .. Len(s) - 1
  BY <1>1, <1>4, LenProperties
<1> QED
  BY <1>4, <1>5, <1>6 DEF Without, a, b

\* Removing the messages of one kind, of which there is one at most.
LEMMA RemovedProperties ==
  ASSUME NEW q \in Seq(Messages), NEW k, Zero(q, k) \/ One(q, k)
  PROVE  /\ Removed(q, k) \in Seq(Messages)
         /\ Zero(Removed(q, k), k)
         /\ \A l : Zero(q, l) => Zero(Removed(q, k), l)
         /\ \A l : l # k /\ One(q, l) => One(Removed(q, k), l)
         /\ \A l, S : (\A i \in DOMAIN q : q[i].kind = l => q[i].of \in S)
              => \A i \in DOMAIN Removed(q, k) : Removed(q, k)[i].kind = l => Removed(q, k)[i].of \in S
<1>1. CASE Zero(q, k)
  BY <1>1 DEF Removed, Zero
<1>2. CASE One(q, k)
  <2> DEFINE i == CHOOSE j \in DOMAIN q : q[j].kind = k
             r == Without(q, i)
  <2>1. i \in DOMAIN q /\ q[i].kind = k /\ \A j \in DOMAIN q : q[j].kind = k => j = i
    BY <1>2 DEF One
  <2>2. Removed(q, k) = r
    BY <1>2 DEF Removed, One
  <2>3. DOMAIN q = 1 .. Len(q) /\ Len(q) \in Nat
    BY LenProperties
  <2> HIDE DEF i
  <2>4. /\ r \in Seq(Messages) /\ DOMAIN r = 1 .. Len(q) - 1
        /\ \A j \in 1 .. Len(q) - 1 : r[j] = IF j < i THEN q[j] ELSE q[j + 1]
    BY <2>1, WithoutProperties
  <2> HIDE DEF r
  <2>5. \A j \in DOMAIN r : \E h \in DOMAIN q : h # i /\ r[j] = q[h] /\ h \in {j, j + 1}
    BY <2>1, <2>3, <2>4
  <2>6. Zero(r, k)
    BY <2>1, <2>5 DEF Zero
  <2>7. \A l : Zero(q, l) => Zero(r, l)
    BY <2>5 DEF Zero
  <2>8. ASSUME NEW l, l # k, One(q, l) PROVE One(r, l)
    <3>1. PICK h \in DOMAIN q : q[h].kind = l /\ \A j \in DOMAIN q : q[j].kind = l => j = h
      BY <2>8 DEF One
    <3> DEFINE g == IF h < i THEN h ELSE h - 1
    <3>2. g \in DOMAIN r /\ r[g].kind = l
      BY <2>1, <2>3, <2>4, <2>8, <3>1
    <3>3. ASSUME NEW j \in DOMAIN r, r[j].kind = l PROVE j = g
      <4>1. r[j] = IF j < i THEN q[j] ELSE q[j + 1]
        BY <2>4
      <4>2. (IF j < i THEN j ELSE j + 1) = h
        BY <2>1, <2>3, <2>4, <3>1, <3>3, <4>1
      <4> QED
        BY <2>1, <2>3, <2>4, <4>2
    <3> QED
      BY <3>2, <3>3 DEF One
  <2>9. \A l, S : (\A j \in DOMAIN q : q[j].kind = l => q[j].of \in S)
              => \A j \in DOMAIN r : r[j].kind = l => r[j].of \in S
    BY <2>5
  <2> QED
    BY <2>2, <2>4, <2>6, <2>7, <2>8, <2>9
<1> QED
  BY <1>1, <1>2

\* deregister leaves no delayed message in the queue.
LEMMA UntaggedProperties ==
  ASSUME NEW q \in Seq(Messages), \A k \in TimerKinds : Zero(q, k) \/ One(q, k)
  PROVE  /\ Untagged(q) \in Seq(Messages)
         /\ \A k \in TimerKinds : Zero(Untagged(q), k)
         /\ \A l : Zero(q, l) => Zero(Untagged(q), l)
<1> DEFINE p == Removed(q, "warning")
<1>1. /\ p \in Seq(Messages) /\ Zero(p, "warning") /\ \A l : Zero(q, l) => Zero(p, l)
      /\ Zero(p, "timeout") \/ One(p, "timeout")
  BY RemovedProperties DEF TimerKinds
<1> HIDE DEF p
<1>2. /\ Removed(p, "timeout") \in Seq(Messages) /\ Zero(Removed(p, "timeout"), "timeout")
      /\ \A l : Zero(p, l) => Zero(Removed(p, "timeout"), l)
  BY <1>1, RemovedProperties
<1> QED
  BY <1>1, <1>2 DEF Untagged, TimerKinds, p

\* A message of another kind comes or goes; one of this kind does.
LEMMA AppendCount ==
  ASSUME NEW q \in Seq(Messages), NEW m \in Messages
  PROVE  /\ Append(q, m) \in Seq(Messages)
         /\ \A k : m.kind # k => /\ Zero(q, k) => Zero(Append(q, m), k)
                                 /\ One(q, k) => One(Append(q, m), k)
         /\ \A k : m.kind = k /\ Zero(q, k) => One(Append(q, m), k)
<1>1. /\ Append(q, m) \in Seq(Messages) /\ Len(q) \in Nat /\ DOMAIN q = 1 .. Len(q)
      /\ DOMAIN Append(q, m) = 1 .. Len(q) + 1
      /\ \A i \in 1 .. Len(q) : Append(q, m)[i] = q[i]
      /\ Append(q, m)[Len(q) + 1] = m
  BY AppendProperties, LenProperties
<1>2. \A i \in 1 .. Len(q) + 1 : i \in 1 .. Len(q) \/ i = Len(q) + 1
  BY <1>1
<1> QED
  BY <1>1, <1>2 DEF Zero, One

\* The first message is gone: there is one less of its kind and as many of the others.
LEMMA TailCount ==
  ASSUME NEW q \in Seq(Messages), q # <<>>
  PROVE  /\ Tail(q) \in Seq(Messages) /\ Head(q) \in Messages
         /\ \A k : Head(q).kind # k => /\ Zero(q, k) => Zero(Tail(q), k)
                                       /\ One(q, k) => One(Tail(q), k)
         /\ \A k : Head(q).kind = k => ~Zero(q, k) /\ (One(q, k) => Zero(Tail(q), k))
<1>1. /\ Tail(q) \in Seq(Messages) /\ Len(q) \in Nat \ {0} /\ DOMAIN q = 1 .. Len(q)
      /\ DOMAIN Tail(q) = 1 .. Len(q) - 1 /\ Head(q) = q[1] /\ q[1] \in Messages
      /\ \A i \in 1 .. Len(q) - 1 : Tail(q)[i] = q[i + 1]
  BY HeadTailProperties, LenProperties
<1>2. ASSUME NEW k, Head(q).kind # k
      PROVE  (Zero(q, k) => Zero(Tail(q), k)) /\ (One(q, k) => One(Tail(q), k))
  <2>1. Zero(q, k) => Zero(Tail(q), k)
    BY <1>1 DEF Zero
  <2>2. ASSUME One(q, k) PROVE One(Tail(q), k)
    <3>1. PICK i \in 1 .. Len(q) : q[i].kind = k /\ \A j \in 1 .. Len(q) : q[j].kind = k => j = i
      BY <1>1, <2>2 DEF One
    <3>2. i - 1 \in 1 .. Len(q) - 1 /\ Tail(q)[i - 1].kind = k
      BY <1>1, <1>2, <3>1
    <3>3. \A j \in 1 .. Len(q) - 1 : Tail(q)[j].kind = k => j = i - 1
      BY <1>1, <3>1
    <3> QED
      BY <1>1, <3>2, <3>3 DEF One
  <2> QED
    BY <2>1, <2>2
<1>3. ASSUME NEW k, Head(q).kind = k PROVE ~Zero(q, k) /\ (One(q, k) => Zero(Tail(q), k))
  BY <1>1, <1>3 DEF Zero, One
<1> QED
  BY <1>1, <1>2, <1>3

-----------------------------------------------------------------------------
(* The inductive invariant.                                                *)

\* What the types rest on: a request that is in the queue has been counted, and
\* what is in the list of states belongs to a resource.
ListInv ==
  /\ ~Zero(queue, "register") => requests > 0
  /\ \A i \in DOMAIN states : resource[states[i]] \in Resources
  /\ pc = "registerSelf" => states # <<>>
  /\ pos >= 1
  /\ pc \notin Polls \cup Scans => pos = 1

\* Where the delayed message of kind k is: nowhere without a callback, and else in the
\* queue, among the timers or in the main thread's hands.
Placed(q, t, a, p, k) ==
  IF a = None THEN Zero(q, k) /\ k \notin t /\ p # k
  ELSE \/ One(q, k) /\ k \notin t /\ p # k
       \/ Zero(q, k) /\ k \in t /\ p # k
       \/ Zero(q, k) /\ k \notin t /\ p = k
TimerInv == \A k \in TimerKinds : Placed(queue, timers, armed, pc, k)

\* A callback is registered only inside the loop that waits for it.
ArmedInv == armed # None => waiting /\ pc \notin Polls \cup {"twice", "dead"}

\* A callback that is registered, or is still to be, has not been called.
CallInv ==
  /\ armed <= waits
  /\ \A n \in Waits : n = armed \/ n > waits => posted[n] = 0

\* What was busy all along is still to be asked by the last poll.
StuckInv ==
  pc = "last" => \A r \in stuck :
    /\ counter[r] > 0
    /\ \E j \in DOMAIN states : j >= pos /\ resource[states[j]] = r

IInv == TypeOK /\ ListInv /\ TimerInv /\ ArmedInv /\ CallInv /\ StuckInv /\ NeverRegisteredTwice

-----------------------------------------------------------------------------
(* The queue and the delayed messages.                                     *)

\* What a message of each kind is of.
LEMMA MessageTypes ==
  /\ \A s \in States : Message("idled", {s}) \in Messages
  /\ \A S \in SUBSET States : Message("race", S) \in Messages
  /\ \A n \in Waits : Message("signal", {n}) \in Messages
  /\ \A r \in Resources, k \in {"register", "unregister"} : Message(k, {r}) \in Messages
  /\ \A k \in TimerKinds : Message(k, {}) \in Messages
  /\ \A k, S : Message(k, S).kind = k /\ Message(k, S).of = S
  /\ \A m \in Messages : /\ m.kind \in {"idled", "race"} => m.of \subseteq States
                         /\ m.kind = "signal" => m.of \subseteq Waits
BY DEF Message, Messages, TimerKinds

\* Another message is added, and the main thread goes on elsewhere.
LEMMA PlacedAppend ==
  ASSUME NEW q \in Seq(Messages), NEW m \in Messages, NEW t, NEW a, NEW p, NEW p2,
         NEW k, m.kind # k, Placed(q, t, a, p, k), p2 = k <=> p = k
  PROVE  Placed(Append(q, m), t, a, p2, k)
BY AppendCount DEF Placed

\* The first message of the queue, of another kind, is gone.
LEMMA PlacedTail ==
  ASSUME NEW q \in Seq(Messages), q # <<>>, NEW t, NEW a, NEW p, NEW p2,
         NEW k, Head(q).kind # k, Placed(q, t, a, p, k), p2 = k <=> p = k
  PROVE  Placed(Tail(q), t, a, p2, k)
BY TailCount DEF Placed

\* deregister: nothing delayed is left.
LEMMA PlacedNowhere ==
  ASSUME NEW q \in Seq(Messages), \A k \in TimerKinds : Zero(q, k) \/ One(q, k),
         NEW p, p \notin TimerKinds
  PROVE  /\ Untagged(q) \in Seq(Messages)
         /\ \A k \in TimerKinds : Placed(Untagged(q), {}, None, p, k)
         /\ \A l : Zero(q, l) => Zero(Untagged(q), l)
BY UntaggedProperties DEF Placed

\* The signal of a callback, or of none.
LEMMA SignalAppended ==
  ASSUME NEW q \in Seq(Messages), NEW n \in Waits \cup {None}
  PROVE  q \o Signal(n) = IF n = None THEN q ELSE Append(q, Message("signal", {n}))
<1>1. CASE n = None
  BY <1>1, ConcatEmptySeq DEF Signal
<1>2. CASE n # None
  <2>1. n \in Waits /\ Message("signal", {n}) \in Messages
    BY <1>2, MessageTypes
  <2> QED
    BY <1>2, <2>1, AppendIsConcat DEF Signal
<1> QED
  BY <1>1, <1>2

\* Two messages at once.
LEMMA TwoAppended ==
  ASSUME NEW q \in Seq(Messages), NEW m \in Messages, NEW n \in Messages
  PROVE  q \o <<m, n>> = Append(Append(q, m), n)
<1>1. <<m, n>> = Append(<<m>>, n) /\ <<m>> \in Seq(Messages)
  OBVIOUS
<1>2. Append(q, m) \in Seq(Messages) /\ Append(q, m) = q \o <<m>>
  BY AppendProperties, AppendIsConcat
<1>3. Append(Append(q, m), n) = (q \o <<m>>) \o <<n>>
  BY <1>2, AppendIsConcat
<1>4. <<m, n>> = <<m>> \o <<n>>
  BY <1>1, AppendIsConcat
<1>5. <<n>> \in Seq(Messages)
  OBVIOUS
<1>6. (q \o <<m>>) \o <<n>> = q \o (<<m>> \o <<n>>)
  BY <1>1, <1>5, ConcatAssociative
<1> QED
  BY <1>3, <1>4, <1>6

\* What a step does to queue, delayed messages and callback: nothing, ...
Kept ==
  /\ UNCHANGED <<queue, timers, armed>>
  /\ \A k \in TimerKinds : pc' = k <=> pc = k
\* ... it adds a message, ...
Added(m) ==
  /\ m \in Messages /\ m.kind \notin TimerKinds
  /\ queue' = Append(queue, m)
  /\ UNCHANGED <<timers, armed>>
  /\ \A k \in TimerKinds : pc' = k <=> pc = k
\* ... takes one, ...
Taken ==
  /\ queue # <<>> /\ Head(queue).kind \notin TimerKinds
  /\ queue' = Tail(queue)
  /\ UNCHANGED <<timers, armed>>
  /\ \A k \in TimerKinds : pc' = k <=> pc = k
\* ... or cancels what is left in q.
Sound(q) ==
  /\ q \in Seq(Messages)
  /\ \A k \in TimerKinds : Zero(q, k) \/ One(q, k)
  /\ Zero(queue, "register") => Zero(q, "register")
Freed(q) == Sound(q) /\ Deregister(q) /\ pc' \notin TimerKinds

\* The types of queue and delayed messages, their place, and requests in the queue.
Queued ==
  /\ queue' \in Seq(Messages) /\ timers' \subseteq TimerKinds /\ TimerInv'
  /\ Zero(queue, "register") => Zero(queue', "register") \/ requests' > 0

\* Each of these keeps the delayed messages where they belong: nothing happens, ...
LEMMA KeptQueued == TypeOK /\ TimerInv /\ Kept => Queued
BY DEF TypeOK, TimerInv, Kept, Queued, Placed, TimerKinds

\* ... a message is added, ...
LEMMA AddedQueued ==
  ASSUME TypeOK, TimerInv, NEW m, Added(m), m.kind # "register" \/ requests' > 0
  PROVE  Queued
<1>1. /\ queue \in Seq(Messages) /\ m \in Messages /\ queue' = Append(queue, m)
      /\ timers' = timers /\ armed' = armed /\ timers \subseteq TimerKinds
  BY DEF TypeOK, Added, TimerKinds
<1>2. TimerInv'
  BY <1>1, PlacedAppend DEF TimerInv, Added
<1> QED
  BY <1>1, <1>2, AppendCount DEF Queued

\* ... one is taken, ...
LEMMA TakenQueued == ASSUME TypeOK, TimerInv, Taken PROVE Queued
<1>1. /\ queue \in Seq(Messages) /\ queue # <<>> /\ queue' = Tail(queue)
      /\ timers' = timers /\ armed' = armed /\ timers \subseteq TimerKinds
  BY DEF TypeOK, Taken, TimerKinds
<1>2. TimerInv'
  BY <1>1, PlacedTail DEF TimerInv, Taken
<1> QED
  BY <1>1, <1>2, TailCount DEF Queued

\* ... or all of them go.
LEMMA FreedQueued == ASSUME NEW q, Freed(q) PROVE Queued
<1>1. /\ q \in Seq(Messages) /\ \A k \in TimerKinds : Zero(q, k) \/ One(q, k)
      /\ queue' = Untagged(q) /\ timers' = {} /\ armed' = None /\ pc' \notin TimerKinds
      /\ Zero(queue, "register") => Zero(q, "register")
  BY DEF Freed, Sound, Deregister
<1>2. /\ Untagged(q) \in Seq(Messages)
      /\ \A k \in TimerKinds : Placed(Untagged(q), {}, None, pc', k)
      /\ \A l : Zero(q, l) => Zero(Untagged(q), l)
  BY <1>1, PlacedNowhere
<1> QED
  BY <1>1, <1>2 DEF Queued, TimerInv

\* There is one of each at most in the queue, ...
LEMMA SoundHere == ASSUME TypeOK, TimerInv PROVE Sound(queue)
BY DEF TypeOK, TimerInv, Placed, Sound

\* ... with its first message gone, ...
LEMMA SoundTail ==
  ASSUME TypeOK, TimerInv, queue # <<>>, Head(queue).kind \notin TimerKinds
  PROVE  Sound(Tail(queue))
<1>1. Sound(queue)
  BY SoundHere
<1> QED
  BY <1>1, TailCount DEF Sound

\* ... or with another message behind it.
LEMMA SoundAppend ==
  ASSUME NEW q, Sound(q), NEW m \in Messages, m.kind \notin TimerKinds \cup {"register"}
  PROVE  Sound(Append(q, m))
BY AppendCount DEF Sound

\* The signal of a callback is such a message.
LEMMA SoundSignal ==
  ASSUME NEW q, Sound(q), NEW n \in Waits \cup {None}
  PROVE  Sound(q \o Signal(n))
<1>1. q \in Seq(Messages)
  BY DEF Sound
<1>2. CASE n = None
  BY <1>1, <1>2, SignalAppended
<1>3. CASE n # None
  <2>1. Message("signal", {n}) \in Messages /\ Message("signal", {n}).kind = "signal"
    BY <1>3, MessageTypes
  <2> HIDE DEF None
  <2>2. q \o Signal(n) = Append(q, Message("signal", {n}))
    BY <1>1, <1>3, SignalAppended
  <2> QED
    BY <2>1, <2>2, SoundAppend DEF TimerKinds
<1> QED
  BY <1>2, <1>3

-----------------------------------------------------------------------------
(* What each action does to the queue.                                     *)

\* The steps of the application: a callback adds a message if it finds a state.
LEMMA ApplicationQueued == ASSUME TypeOK, TimerInv, Application PROVE Queued
<1>1. PICK r \in Resources : \/ Increment(r) \/ Decrement(r) \/ ThenIdle(r)
                             \/ Notify(r) \/ NotifyFirst(r)
  BY DEF Application
<1>2. CASE Increment(r) \/ Decrement(r) \/ ThenIdle(r)
  <2>1. Kept
    BY <1>2 DEF Increment, Decrement, ThenIdle, Kept
  <2> QED
    BY <2>1, KeptQueued
<1>3. CASE Notify(r) \/ NotifyFirst(r)
  <2>1. OnTransitionToIdle(r) /\ UNCHANGED <<timers, armed, pc>>
    BY <1>3 DEF Notify, NotifyFirst
  <2>2. CASE callback[r] = None
    <3>1. Kept
      BY <2>1, <2>2 DEF OnTransitionToIdle, Kept
    <3> QED
      BY <3>1, KeptQueued
  <2>3. CASE callback[r] # None
    <3> DEFINE m == Message("idled", {callback[r]})
    <3>1. m \in Messages /\ m.kind = "idled"
      BY <2>3, MessageTypes DEF TypeOK
    <3>2. Added(m)
      BY <2>1, <2>3, <3>1 DEF OnTransitionToIdle, Added, TimerKinds
    <3> QED
      BY <3>1, <3>2, AddedQueued
  <2> QED
    BY <2>2, <2>3
<1> QED
  BY <1>1, <1>2, <1>3

\* A request counts itself before its message is there.
LEMMA RequestQueued == ASSUME TypeOK, TimerInv, Requests PROVE Queued
<1>1. PICK r \in Resources, kind \in {"register", "unregister"} : Request(kind, r)
  BY DEF Requests
<1> DEFINE m == Message(kind, {r})
<1>2. m \in Messages /\ m.kind = kind
  BY MessageTypes
<1> HIDE DEF m
<1>3. /\ queue' = Append(queue, m) /\ UNCHANGED <<timers, armed, pc>>
      /\ requests' = requests + 1
  BY <1>1 DEF Request, m
<1>4. Added(m) /\ requests' > 0
  BY <1>2, <1>3 DEF Added, TypeOK, TimerKinds
<1> QED
  BY <1>4, AddedQueued

\* A delayed message moves from the timers to the queue.
LEMMA TimersQueued == ASSUME TypeOK, TimerInv, Timers PROVE Queued
<1>1. CASE MessageIsDue
  <2>1. Kept
    BY <1>1 DEF MessageIsDue, Kept
  <2> QED
    BY <2>1, KeptQueued
<1>2. CASE \E k \in TimerKinds : TimerDue(k)
  <2>1. PICK k \in TimerKinds : TimerDue(k)
    BY <1>2
  <2> DEFINE m == Message(k, {})
  <2>2. m \in Messages /\ m.kind = k
    BY MessageTypes
  <2> HIDE DEF m
  <2>3. /\ queue \in Seq(Messages) /\ queue' = Append(queue, m) /\ k \in timers
        /\ timers' = timers \ {k} /\ UNCHANGED <<armed, pc>> /\ timers \subseteq TimerKinds
    BY <2>1 DEF TimerDue, TypeOK, TimerKinds, m
  <2>4. Zero(queue, k) /\ armed # None /\ pc # k
    BY <2>3 DEF TimerInv, Placed
  <2>5. One(queue', k) /\ queue' \in Seq(Messages)
    BY <2>2, <2>3, <2>4, AppendCount
  <2>6. Placed(queue', timers', armed', pc', k)
    BY <2>3, <2>4, <2>5 DEF Placed
  <2>7. ASSUME NEW l \in TimerKinds, l # k PROVE Placed(queue', timers', armed', pc', l)
    <3>1. Placed(queue', timers, armed, pc, l)
      BY <2>2, <2>3, <2>7, PlacedAppend DEF TimerInv
    <3> QED
      BY <2>3, <2>7, <3>1 DEF Placed
  <2>8. TimerInv'
    BY <2>6, <2>7 DEF TimerInv
  <2>9. Zero(queue, "register") => Zero(queue', "register")
    BY <2>2, <2>3, AppendCount DEF TimerKinds
  <2> QED
    BY <2>3, <2>5, <2>8, <2>9 DEF Queued
<1> QED
  BY <1>1, <1>2 DEF Timers, TimerKinds

\* A delayed message comes into the main thread's hands.
LEMMA StartScanQueued ==
  ASSUME TypeOK, ListInv, TimerInv, NEW k \in TimerKinds, StartScan(k)
  PROVE  Queued
<1>1. /\ queue \in Seq(Messages) /\ queue # <<>> /\ Head(queue).kind = k
      /\ queue' = Tail(queue) /\ pc = "looper" /\ pc' = k /\ UNCHANGED <<timers, armed>>
      /\ timers \subseteq TimerKinds
  BY DEF StartScan, Dispatching, TypeOK, TimerKinds
<1>2. ~Zero(queue, k) /\ queue' \in Seq(Messages) /\ (One(queue, k) => Zero(queue', k))
  BY <1>1, TailCount
<1>3. armed # None /\ One(queue, k) /\ k \notin timers
  BY <1>2 DEF TimerInv, Placed
<1>4. Placed(queue', timers', armed', pc', k)
  BY <1>1, <1>2, <1>3 DEF Placed
<1>5. ASSUME NEW l \in TimerKinds, l # k PROVE Placed(queue', timers', armed', pc', l)
  <2>1. Placed(queue, timers, armed, pc, l) /\ pc # l
    BY <1>1 DEF TimerInv, TimerKinds
  <2> QED
    BY <1>1, <1>5, <2>1, PlacedTail
<1>6. TimerInv'
  BY <1>4, <1>5 DEF TimerInv
<1>7. Zero(queue, "register") => Zero(queue', "register")
  BY <1>1, TailCount DEF TimerKinds
<1> QED
  BY <1>1, <1>2, <1>6, <1>7 DEF Queued

\* The messages for the Dispatcher that are no timers, each taken.
LEMMA DispatchQueued == ASSUME TypeOK, ListInv, TimerInv, Dispatch PROVE Queued
<1>1. CASE HandleResourceIdled
  <2>1. /\ queue # <<>> /\ Head(queue).kind = "idled" /\ pc = "looper" /\ pc' = pc
        /\ \/ Deregister(Tail(queue) \o Signal(armed))
           \/ queue' = Tail(queue) /\ UNCHANGED <<timers, armed>>
    BY <1>1 DEF HandleResourceIdled, Dispatching
  <2>2. CASE Deregister(Tail(queue) \o Signal(armed))
    <3>1. Sound(Tail(queue) \o Signal(armed))
      BY <2>1, SoundTail, SoundSignal DEF TypeOK, TimerKinds
    <3>2. Freed(Tail(queue) \o Signal(armed))
      BY <2>1, <2>2, <3>1 DEF Freed, TimerKinds
    <3> QED
      BY <3>2, FreedQueued
  <2>3. CASE queue' = Tail(queue) /\ UNCHANGED <<timers, armed>>
    <3>1. Taken
      BY <2>1, <2>3 DEF Taken, TimerKinds
    <3> QED
      BY <3>1, TakenQueued
  <2> QED
    BY <2>1, <2>2, <2>3
<1>2. CASE HandleRaceCondition
  <2>1. /\ queue # <<>> /\ Head(queue).kind = "race" /\ pc = "looper"
        /\ \/ queue' = Tail(queue) /\ pc' \in {"looper", "dead"} /\ UNCHANGED <<timers, armed>>
           \/ Unwind(Tail(queue))
    BY <1>2 DEF HandleRaceCondition, Dispatching
  <2>2. CASE queue' = Tail(queue) /\ pc' \in {"looper", "dead"} /\ UNCHANGED <<timers, armed>>
    <3>1. Taken
      BY <2>1, <2>2 DEF Taken, TimerKinds
    <3> QED
      BY <3>1, TakenQueued
  <2>3. CASE Unwind(Tail(queue))
    <3>1. Sound(Tail(queue))
      BY <2>1, SoundTail DEF TimerKinds
    <3>2. Freed(Tail(queue))
      BY <2>3, <3>1 DEF Freed, Unwind, TimerKinds
    <3> QED
      BY <3>2, FreedQueued
  <2> QED
    BY <2>1, <2>2, <2>3
<1>3. CASE HandleSignal \/ RegisterResources \/ UnregisterResources
  <2>1. Taken
    <3>1. /\ queue # <<>> /\ Head(queue).kind \in {"signal", "register", "unregister"}
          /\ pc = "looper" /\ queue' = Tail(queue) /\ UNCHANGED <<timers, armed>>
          /\ pc' \in {"looper", "registerSelf"}
      BY <1>3 DEF HandleSignal, RegisterResources, UnregisterResources, Dispatching
    <3> QED
      BY <3>1 DEF Taken, TimerKinds
  <2> QED
    BY <2>1, TakenQueued
<1>4. CASE StartScan("warning") \/ StartScan("timeout")
  BY <1>4, StartScanQueued DEF TimerKinds
<1> QED
  BY <1>1, <1>2, <1>3, <1>4 DEF Dispatch

\* A step of the main thread that leaves the queue alone.
LEMMA QuietStepKept ==
  ASSUME RegisterSelf \/ AskNext \/ FirstPoll \/ NoMoreWaits \/ LastPoll \/ GetBusyResources
           \/ MasterTimeout \/ StartWait
  PROVE  Kept
<1>1. CASE RegisterSelf \/ StartWait \/ MasterTimeout
  BY <1>1 DEF RegisterSelf, StartWait, MasterTimeout, Kept, TimerKinds
<1>2. CASE AskNext \/ GetBusyResources
  BY <1>2 DEF AskNext, GetBusyResources, Kept
<1>3. CASE FirstPoll \/ NoMoreWaits \/ LastPoll
  BY <1>3 DEF FirstPoll, NoMoreWaits, LastPoll, SaysBusy, SaysIdle, EnterLoop, Kept, TimerKinds
<1> QED
  BY <1>1, <1>2, <1>3

\* A new callback comes with both delayed messages, or has been called at once.
LEMMA NotifyQueued ==
  ASSUME TypeOK, TimerInv, NotifyWhenAllResourcesAreIdle
  PROVE  Queued
<1>0. /\ waits' = waits + 1 /\ waits' \in Waits /\ pc = "register" /\ queue \in Seq(Messages)
      /\ pc' \in {"looper", "twice"}
  BY DEF NotifyWhenAllResourcesAreIdle, TypeOK, Waits, None, SaysIdle, SaysBusy, EnterLoop
<1>1. CASE armed # None
  <2>1. Kept
    BY <1>0, <1>1 DEF NotifyWhenAllResourcesAreIdle, Kept, TimerKinds
  <2> QED
    BY <2>1, KeptQueued
<1>2. CASE armed = None /\ queue' = queue \o Signal(waits') /\ UNCHANGED <<timers, armed>>
  <2> DEFINE m == Message("signal", {waits'})
  <2>1. m \in Messages /\ m.kind = "signal" /\ waits' # None
    BY <1>0, MessageTypes DEF Waits, None
  <2>2. queue' = Append(queue, m)
    <3> HIDE DEF None
    <3> QED
      BY <1>0, <1>2, <2>1, SignalAppended
  <2> HIDE DEF m
  <2>3. Added(m)
    BY <1>0, <1>2, <2>1, <2>2 DEF Added, TimerKinds
  <2> QED
    BY <2>1, <2>3, AddedQueued
<1>3. CASE armed = None /\ armed' = waits' /\ timers' = TimerKinds /\ UNCHANGED queue
  <2>1. \A k \in TimerKinds : Zero(queue, k)
    BY <1>3 DEF TimerInv, Placed
  <2>2. armed' # None
    BY <1>0, <1>3 DEF Waits, None
  <2>3. TimerInv'
    BY <1>0, <1>3, <2>1, <2>2 DEF TimerInv, Placed, TimerKinds
  <2> QED
    BY <1>0, <1>3, <2>3 DEF Queued
<1>4. \/ armed # None
      \/ queue' = queue \o Signal(waits') /\ UNCHANGED <<timers, armed>>
      \/ armed' = waits' /\ timers' = TimerKinds /\ UNCHANGED queue
  BY DEF NotifyWhenAllResourcesAreIdle, TimerKinds
<1> QED
  BY <1>1, <1>2, <1>3, <1>4

\* The handler of a warning puts the message back behind the race it found, or among
\* the timers.
LEMMA WarningQueued == ASSUME TypeOK, TimerInv, HandleTimeoutWarning PROVE Queued
<1>1. /\ pc = "warning" /\ pc' = "looper" /\ armed' = armed /\ queue \in Seq(Messages)
      /\ timers \subseteq TimerKinds
  BY DEF HandleTimeoutWarning, Returns, TypeOK, TimerKinds
<1>2. armed # None /\ Zero(queue, "warning") /\ "warning" \notin timers
  BY <1>1 DEF TimerInv, Placed, TimerKinds
<1>3. Placed(queue, timers, armed, "looper", "timeout")
  BY <1>1 DEF TimerInv, Placed, TimerKinds
<1>4. CASE queue' = queue \o <<Message("race", racy), Message("warning", {})>> /\ timers' = timers
  <2> DEFINE m == Message("race", racy)
             n == Message("warning", {})
             q == Append(queue, m)
  <2>1. m \in Messages /\ n \in Messages /\ m.kind = "race" /\ n.kind = "warning"
    BY MessageTypes DEF TypeOK, TimerKinds
  <2>2. queue' = Append(q, n)
    BY <1>1, <1>4, <2>1, TwoAppended
  <2> HIDE DEF m, n
  <2>3. /\ q \in Seq(Messages) /\ Zero(q, "warning")
        /\ Zero(queue, "register") => Zero(q, "register")
        /\ Placed(q, timers, armed, "looper", "timeout")
    BY <1>1, <1>2, <1>3, <2>1, AppendCount, PlacedAppend
  <2> HIDE DEF q
  <2>4. /\ queue' \in Seq(Messages) /\ One(queue', "warning")
        /\ Zero(q, "register") => Zero(queue', "register")
        /\ Placed(queue', timers, armed, "looper", "timeout")
    BY <2>1, <2>2, <2>3, AppendCount, PlacedAppend
  <2>5. TimerInv'
    BY <1>1, <1>2, <1>4, <2>4 DEF TimerInv, Placed, TimerKinds
  <2> QED
    BY <1>1, <1>4, <2>3, <2>4, <2>5 DEF Queued
<1>5. CASE timers' = timers \cup {"warning"} /\ queue' = queue
  <2>1. TimerInv'
    BY <1>1, <1>2, <1>3, <1>5 DEF TimerInv, Placed, TimerKinds
  <2> QED
    BY <1>1, <1>5, <2>1 DEF Queued, TimerKinds
<1> QED
  BY <1>4, <1>5 DEF HandleTimeoutWarning

\* The handler of the timeout puts the message back behind the race, or ends the wait.
LEMMA TimeoutQueued == ASSUME TypeOK, TimerInv, HandleTimeout PROVE Queued
<1>1. /\ pc = "timeout" /\ pc' = "looper" /\ queue \in Seq(Messages) /\ timers \subseteq TimerKinds
  BY DEF HandleTimeout, Returns, Unwind, TypeOK, TimerKinds
<1>2. armed # None /\ Zero(queue, "timeout") /\ "timeout" \notin timers
  BY <1>1 DEF TimerInv, Placed, TimerKinds
<1>3. Placed(queue, timers, armed, "looper", "warning")
  BY <1>1 DEF TimerInv, Placed, TimerKinds
<1>4. CASE queue' = queue \o <<Message("race", racy), Message("timeout", {})>>
             /\ UNCHANGED <<timers, armed>>
  <2> DEFINE m == Message("race", racy)
             n == Message("timeout", {})
             q == Append(queue, m)
  <2>1. m \in Messages /\ n \in Messages /\ m.kind = "race" /\ n.kind = "timeout"
    BY MessageTypes DEF TypeOK, TimerKinds
  <2>2. queue' = Append(q, n)
    BY <1>1, <1>4, <2>1, TwoAppended
  <2> HIDE DEF m, n
  <2>3. /\ q \in Seq(Messages) /\ Zero(q, "timeout")
        /\ Zero(queue, "register") => Zero(q, "register")
        /\ Placed(q, timers, armed, "looper", "warning")
    BY <1>1, <1>2, <1>3, <2>1, AppendCount, PlacedAppend
  <2> HIDE DEF q
  <2>4. /\ queue' \in Seq(Messages) /\ One(queue', "timeout")
        /\ Zero(q, "register") => Zero(queue', "register")
        /\ Placed(queue', timers, armed, "looper", "warning")
    BY <2>1, <2>2, <2>3, AppendCount, PlacedAppend
  <2>5. TimerInv'
    BY <1>1, <1>2, <1>4, <2>4 DEF TimerInv, Placed, TimerKinds
  <2> QED
    BY <1>1, <1>4, <2>3, <2>4, <2>5 DEF Queued
<1>5. CASE Deregister(queue) \/ Deregister(queue \o Signal(armed))
  <2>1. Sound(queue) /\ Sound(queue \o Signal(armed))
    BY SoundHere, SoundSignal DEF TypeOK
  <2>2. Freed(queue) \/ Freed(queue \o Signal(armed))
    BY <1>1, <1>5, <2>1 DEF Freed, TimerKinds
  <2> QED
    BY <2>2, FreedQueued
<1> QED
  BY <1>4, <1>5 DEF HandleTimeout, Unwind

\* The ways out of the wait cancel the callback.
LEMMA LeaveQueued ==
  ASSUME TypeOK, TimerInv, LeaveLoop \/ JoinBusyResources \/ ReportTimeout
  PROVE  Queued
<1>1. CASE LeaveLoop \/ ReportTimeout
  <2>1. Freed(queue)
    BY <1>1, SoundHere DEF LeaveLoop, ReportTimeout, Unwind, EndLoop, Freed, TimerKinds
  <2> QED
    BY <2>1, FreedQueued
<1>2. CASE JoinBusyResources
  <2> DEFINE m == Message("race", racy)
  <2>1. m \in Messages /\ m.kind = "race"
    BY MessageTypes DEF TypeOK
  <2>2. Sound(Append(queue, m))
    BY <2>1, SoundHere, SoundAppend DEF TimerKinds
  <2>3. CASE Unwind(Append(queue, m))
    <3>1. Freed(Append(queue, m))
      BY <2>2, <2>3 DEF Unwind, Freed, TimerKinds
    <3> QED
      BY <3>1, FreedQueued
  <2>4. CASE pc = "master" /\ pc' = "report" /\ UNCHANGED <<queue, timers, armed>>
    <3>1. Kept
      BY <2>4 DEF Kept, TimerKinds
    <3> QED
      BY <3>1, KeptQueued
  <2> QED
    BY <1>2, <2>3, <2>4 DEF JoinBusyResources, Returns
<1> QED
  BY <1>1, <1>2

\* No step loses or doubles a delayed message.
LEMMA QueuedInductive == TypeOK /\ ListInv /\ TimerInv /\ [Next]_vars => Queued
<1> SUFFICES ASSUME TypeOK, ListInv, TimerInv, [Next]_vars PROVE Queued
  OBVIOUS
<1>1. CASE UNCHANGED vars
  <2>1. Kept
    BY <1>1 DEF vars, Kept
  <2> QED
    BY <2>1, KeptQueued
<1>2. CASE Application \/ Requests \/ Timers
  BY <1>2, ApplicationQueued, RequestQueued, TimersQueued
<1>3. CASE StartWait
  BY <1>3, QuietStepKept, KeptQueued
<1>4. CASE MainStep
  <2>1. CASE RegisterSelf \/ AskNext \/ FirstPoll \/ NoMoreWaits \/ LastPoll \/ GetBusyResources
              \/ MasterTimeout
    BY <2>1, QuietStepKept, KeptQueued
  <2>2. CASE Dispatch
    BY <2>2, DispatchQueued
  <2>3. CASE NotifyWhenAllResourcesAreIdle
    BY <2>3, NotifyQueued
  <2>4. CASE HandleTimeoutWarning \/ HandleTimeout
    BY <2>4, WarningQueued, TimeoutQueued
  <2>5. CASE LeaveLoop \/ JoinBusyResources \/ ReportTimeout
    BY <2>5, LeaveQueued
  <2> QED
    BY <1>4, <2>1, <2>2, <2>3, <2>4, <2>5 DEF MainStep
<1> QED
  BY <1>1, <1>2, <1>3, <1>4 DEF Next

-----------------------------------------------------------------------------
(* Types and the list of states.                                           *)

\* The first message of the queue is one of Messages, a counted one if it registers.
LEMMA HeadProperties ==
  ASSUME TypeOK, ListInv, queue # <<>>
  PROVE  /\ Head(queue) \in Messages
         /\ Head(queue).kind = "register" => requests \in States
<1>1. Head(queue) \in Messages /\ (Head(queue).kind = "register" => ~Zero(queue, "register"))
  BY TailCount DEF TypeOK
<1> QED
  BY <1>1 DEF TypeOK, ListInv, States

\* What unregistering leaves of the list.
LEMMA UnregisteredList ==
  ASSUME TypeOK, UnregisterResources
  PROVE  /\ states' \in Seq(States)
         /\ \A i \in DOMAIN states' : \E j \in DOMAIN states : states'[i] = states[j]
<1>1. CASE UNCHANGED states
  BY <1>1 DEF TypeOK
<1>2. CASE \E i \in DOMAIN states : states' = Without(states, i)
  <2>1. PICK i \in DOMAIN states : states' = Without(states, i)
    BY <1>2
  <2>2. /\ states' \in Seq(States) /\ DOMAIN states' = 1 .. Len(states) - 1
        /\ \A j \in 1 .. Len(states) - 1 : states'[j] = IF j < i THEN states[j] ELSE states[j + 1]
        /\ DOMAIN states = 1 .. Len(states) /\ Len(states) \in Nat
    BY <2>1, WithoutProperties, LenProperties DEF TypeOK
  <2>3. ASSUME NEW j \in 1 .. Len(states) - 1
        PROVE  \E h \in DOMAIN states : states'[j] = states[h]
    <3>1. j \in DOMAIN states /\ j + 1 \in DOMAIN states
      BY <2>2
    <3> QED
      BY <2>2, <3>1
  <2> QED
    BY <2>2, <2>3
<1> QED
  BY <1>1, <1>2 DEF UnregisterResources

\* A poll, answered.
LEMMA PollTypes ==
  ASSUME TypeOK, NEW p, SaysBusy(p) \/ SaysIdle(p)
  PROVE  idle' \in [States -> BOOLEAN] /\ pos' = 1 /\ pc = p
<1>1. CASE SaysBusy(p)
  <2>1. pc = p /\ pos' = 1 /\ idle' = [idle EXCEPT ![states[pos]] = FALSE] /\ idle \in [States -> BOOLEAN]
    BY <1>1 DEF SaysBusy, TypeOK
  <2>2. [idle EXCEPT ![states[pos]] = FALSE] \in [States -> BOOLEAN]
    BY <2>1
  <2> QED
    BY <2>1, <2>2
<1>2. CASE SaysIdle(p)
  BY <1>2 DEF SaysIdle, TypeOK
<1> QED
  BY <1>1, <1>2

\* A signal, counted.
LEMMA CountTypes ==
  ASSUME TypeOK, NEW n, CountSignal(n)
  PROVE  /\ posted' \in [Waits -> Nat]
         /\ \A m \in Waits : m # n => posted'[m] = posted[m]
         /\ n \in Waits => posted' = [posted EXCEPT ![n] = posted[n] + 1]
         /\ n \notin Waits => posted' = posted
<1>1. /\ posted \in [Waits -> Nat]
      /\ posted' = [m \in Waits |-> posted[m] + IF m = n THEN 1 ELSE 0]
  BY DEF TypeOK, CountSignal
<1>2. posted' \in [Waits -> Nat]
  BY <1>1
<1>3. \A m \in Waits : posted'[m] = posted[m] + IF m = n THEN 1 ELSE 0
  BY <1>1
<1>4. \A m \in Waits : m # n => posted'[m] = posted[m]
  BY <1>1, <1>3
<1>5. ASSUME n \in Waits PROVE posted' = [posted EXCEPT ![n] = posted[n] + 1]
  <2>1. [posted EXCEPT ![n] = posted[n] + 1] \in [Waits -> Nat]
    BY <1>1, <1>5
  <2>2. \A m \in Waits : posted'[m] = [posted EXCEPT ![n] = posted[n] + 1][m]
    BY <1>1, <1>3, <1>4, <1>5
  <2> QED
    BY <1>2, <2>1, <2>2
<1>6. ASSUME n \notin Waits PROVE posted' = posted
  <2>1. \A m \in Waits : posted'[m] = posted[m]
    BY <1>4, <1>6
  <2> QED
    BY <1>1, <1>2, <2>1
<1> QED
  BY <1>2, <1>4, <1>5, <1>6

\* Every step keeps the types.
LEMMA TypeInductive == TypeOK /\ ListInv /\ TimerInv /\ [Next]_vars => TypeOK'
<1> SUFFICES ASSUME TypeOK, ListInv, TimerInv, [Next]_vars PROVE TypeOK'
  OBVIOUS
<1>0. queue' \in Seq(Messages) /\ timers' \subseteq {"warning", "timeout"}
  BY QueuedInductive DEF Queued, TimerKinds
<1> USE <1>0 DEF TypeOK, resourceVars, registryVars, localVars, waitVars, Polls, Scans
<1>1. CASE UNCHANGED vars
  BY <1>1 DEF vars
<1>2. CASE Application
  <2>1. PICK r \in Resources : \/ Increment(r) \/ Decrement(r) \/ Notify(r)
                               \/ NotifyFirst(r) \/ ThenIdle(r)
    BY <1>2 DEF Application
  <2>2. CASE Increment(r)
    BY <2>2 DEF Increment
  <2>3. CASE Decrement(r)
    BY <2>3 DEF Decrement
  <2>4. CASE Notify(r)
    BY <2>4 DEF Notify
  <2>5. CASE NotifyFirst(r)
    BY <2>5 DEF NotifyFirst
  <2>6. CASE ThenIdle(r)
    BY <2>6 DEF ThenIdle
  <2> QED
    BY <2>1, <2>2, <2>3, <2>4, <2>5, <2>6
<1>3. CASE Requests \/ Timers \/ StartWait
  <2>1. CASE Requests
    BY <2>1 DEF Requests, Request
  <2>2. CASE Timers
    BY <2>2 DEF Timers, MessageIsDue, TimerDue
  <2>3. CASE StartWait
    BY <2>3 DEF StartWait
  <2> QED
    BY <1>3, <2>1, <2>2, <2>3
<1>4. CASE HandleResourceIdled
  <2>1. PICK s \in States : idle' = [idle EXCEPT ![s] = TRUE]
    BY <1>4 DEF HandleResourceIdled
  <2>2. idle' \in [States -> BOOLEAN]
    BY <2>1
  <2>3. posted' \in [Waits -> Nat] /\ armed' \in Waits \cup {None}
    BY <1>4, CountTypes DEF HandleResourceIdled, Deregister
  <2> QED
    BY <1>4, <2>2, <2>3 DEF HandleResourceIdled
<1>5. CASE HandleRaceCondition
  <2>1. Head(queue).of \subseteq States
    BY <1>5, HeadProperties, MessageTypes DEF HandleRaceCondition, Dispatching
  <2> QED
    BY <1>5, <2>1 DEF HandleRaceCondition, Unwind, Deregister
<1>6. CASE HandleSignal
  <2>1. Head(queue).of \subseteq Waits
    BY <1>6, HeadProperties, MessageTypes DEF HandleSignal, Dispatching
  <2> QED
    BY <1>6, <2>1 DEF HandleSignal
<1>7. CASE RegisterResources
  <2>1. requests \in States
    BY <1>7, HeadProperties DEF RegisterResources, Dispatching
  <2>2. PICK r \in Resources :
          \/ UNCHANGED <<states, resource, callback, pc>>
          \/ /\ states' = Append(states, requests)
             /\ resource' = [resource EXCEPT ![requests] = r]
             /\ callback' = [callback EXCEPT ![r] = requests]
             /\ pc' = "registerSelf"
    BY <1>7 DEF RegisterResources
  <2>3. /\ states' \in Seq(States) /\ resource' \in [States -> Resources \cup {None}]
        /\ callback' \in [Resources -> States \cup {None}]
    <3>1. Append(states, requests) \in Seq(States)
      BY <2>1, AppendProperties
    <3>2. [resource EXCEPT ![requests] = r] \in [States -> Resources \cup {None}]
      BY <2>1
    <3>3. [callback EXCEPT ![r] = requests] \in [Resources -> States \cup {None}]
      BY <2>1
    <3> QED
      BY <2>2, <3>1, <3>2, <3>3
  <2> QED
    BY <1>7, <2>2, <2>3 DEF RegisterResources
<1>8. CASE UnregisterResources
  BY <1>8, UnregisteredList DEF UnregisterResources
<1>9. CASE StartScan("warning") \/ StartScan("timeout") \/ MasterTimeout
  BY <1>9 DEF StartScan, MasterTimeout
<1>10. CASE RegisterSelf
  BY <1>10 DEF RegisterSelf, IsIdleNow
<1>11. CASE AskNext
  BY <1>11 DEF AskNext
<1>12. CASE FirstPoll
  <2>1. idle' \in [States -> BOOLEAN] /\ pos' = 1
    BY <1>12, PollTypes DEF FirstPoll
  <2> QED
    BY <1>12, <2>1 DEF FirstPoll, EnterLoop
<1>13. CASE NotifyWhenAllResourcesAreIdle
  <2>1. waits' \in Waits
    BY <1>13 DEF NotifyWhenAllResourcesAreIdle, Waits, None
  <2>2. idle' \in [States -> BOOLEAN] /\ pos' \in Nat
    <3>1. UNCHANGED <<idle, pos>> \/ SaysIdle("register") \/ SaysBusy("register")
      BY <1>13 DEF NotifyWhenAllResourcesAreIdle
    <3> QED
      BY <3>1, PollTypes
  <2>3. posted' \in [Waits -> Nat]
    <3>1. UNCHANGED posted \/ CountSignal(waits')
      BY <1>13 DEF NotifyWhenAllResourcesAreIdle
    <3> QED
      BY <3>1, CountTypes
  <2>4. armed' \in Waits \cup {None}
    BY <1>13, <2>1 DEF NotifyWhenAllResourcesAreIdle
  <2> QED
    BY <1>13, <2>1, <2>2, <2>3, <2>4 DEF NotifyWhenAllResourcesAreIdle, EnterLoop
<1>14. CASE NoMoreWaits \/ LastPoll
  <2>1. idle' \in [States -> BOOLEAN] /\ pos' = 1
    BY <1>14, PollTypes DEF NoMoreWaits, LastPoll
  <2> QED
    BY <1>14, <2>1 DEF NoMoreWaits, LastPoll
<1>15. CASE LeaveLoop \/ ReportTimeout
  BY <1>15 DEF LeaveLoop, ReportTimeout, EndLoop, Unwind, Deregister
<1>16. CASE GetBusyResources
  <2>1. states[pos] \in States
    BY <1>16 DEF GetBusyResources
  <2>2. resource[states[pos]] \in Resources
    BY <1>16 DEF GetBusyResources, ListInv
  <2> QED
    BY <1>16, <2>1, <2>2 DEF GetBusyResources
<1>17. CASE HandleTimeoutWarning
  BY <1>17 DEF HandleTimeoutWarning, Returns
<1>18. CASE HandleTimeout
  <2>1. posted' \in [Waits -> Nat] /\ armed' \in Waits \cup {None} /\ pc' = "looper"
        /\ waiting' \in BOOLEAN
    BY <1>18, CountTypes DEF HandleTimeout, Unwind, Deregister
  <2>2. pos' = 1 /\ racy' = {} /\ named' = {}
    BY <1>18 DEF HandleTimeout, Returns
  <2> QED
    BY <1>18, <2>1, <2>2 DEF HandleTimeout
<1>19. CASE JoinBusyResources
  <2>1. armed' \in Waits \cup {None} /\ pc' \in {"looper", "report"} /\ waiting' \in BOOLEAN
    BY <1>19 DEF JoinBusyResources, Unwind, Deregister
  <2>2. pos' = 1 /\ racy' = {} /\ named' = {}
    BY <1>19 DEF JoinBusyResources, Returns
  <2> QED
    BY <1>19, <2>1, <2>2 DEF JoinBusyResources
<1> QED
  BY <1>1, <1>2, <1>3, <1>4, <1>5, <1>6, <1>7, <1>8, <1>9, <1>10, <1>11, <1>12, <1>13, <1>14,
     <1>15, <1>16, <1>17, <1>18, <1>19 DEF Next, MainStep, Dispatch

\* What unregistering leaves still belongs to resources.
LEMMA ListInductive == TypeOK /\ ListInv /\ TimerInv /\ ArmedInv /\ [Next]_vars => ListInv'
<1> SUFFICES ASSUME TypeOK, ListInv, TimerInv, ArmedInv, [Next]_vars PROVE ListInv'
  OBVIOUS
<1> DEFINE Same == UNCHANGED <<states, resource>> /\ requests' \in {requests, requests + 1}
           Loop == /\ pos' >= 1
                   /\ pc' \notin Polls \cup Scans => pos' = 1
                   /\ pc' # "registerSelf"
<1>0. Zero(queue, "register") => Zero(queue', "register") \/ requests' > 0
  BY QueuedInductive DEF Queued
<1>2. requests \in Nat /\ pos \in Nat /\ pos >= 1
  BY DEF TypeOK, ListInv
<1>13. ASSUME Same PROVE ~Zero(queue', "register") => requests' > 0
  BY <1>0, <1>2, <1>13 DEF ListInv
<1>1. ASSUME Same, Loop PROVE ListInv'
  <2>1. \A i \in DOMAIN states' : resource'[states'[i]] \in Resources
    BY <1>1 DEF ListInv
  <2> QED
    BY <1>1, <1>13, <2>1 DEF ListInv
<1> USE <1>2 DEF resourceVars, registryVars, localVars, waitVars, Polls, Scans
<1>3. CASE UNCHANGED vars
  BY <1>0, <1>3 DEF vars, ListInv
<1>4. CASE Application \/ Requests \/ Timers \/ StartWait
  <2>1. Same
    <3>1. CASE Application
      BY <3>1 DEF Application, Increment, Decrement, Notify, NotifyFirst, ThenIdle
    <3>2. CASE Requests
      BY <3>2 DEF Requests, Request
    <3>3. CASE Timers \/ StartWait
      BY <3>3 DEF Timers, MessageIsDue, TimerDue, StartWait
    <3> QED
      BY <1>4, <3>1, <3>2, <3>3
  <2>2. CASE StartWait
    <3>1. Loop
      BY <2>2 DEF StartWait, ListInv
    <3> QED
      BY <1>1, <2>1, <3>1
  <2>3. CASE Application \/ Requests \/ Timers
    <3>1. UNCHANGED <<pc, pos>>
      BY <2>3 DEF Application, Increment, Decrement, Notify, NotifyFirst, ThenIdle, Requests, Request,
                  Timers, MessageIsDue, TimerDue
    <3>2. \A i \in DOMAIN states' : resource'[states'[i]] \in Resources
      BY <2>1 DEF ListInv
    <3> QED
      BY <1>13, <2>1, <3>1, <3>2 DEF ListInv
  <2> QED
    BY <1>4, <2>2, <2>3
<1>5. CASE RegisterResources
  <2>1. Head(queue).kind = "register" /\ queue # <<>> /\ pc = "looper" /\ UNCHANGED <<pos, requests>>
    BY <1>5 DEF RegisterResources, Dispatching
  <2>2. requests \in States
    BY <2>1, HeadProperties
  <2>3. PICK r \in Resources :
          \/ UNCHANGED <<states, resource, pc>>
          \/ /\ states' = Append(states, requests)
             /\ resource' = [resource EXCEPT ![requests] = r]
             /\ pc' = "registerSelf"
    BY <1>5 DEF RegisterResources
  <2>4. CASE UNCHANGED <<states, resource, pc>>
    <3>1. Same /\ Loop
      BY <2>1, <2>4 DEF ListInv
    <3> QED
      BY <1>1, <3>1
  <2>5. CASE /\ states' = Append(states, requests)
             /\ resource' = [resource EXCEPT ![requests] = r]
             /\ pc' = "registerSelf"
    <3>1. /\ states \in Seq(States) /\ resource \in [States -> Resources \cup {None}]
          /\ Len(states) \in Nat /\ DOMAIN states = 1 .. Len(states)
      BY LenProperties DEF TypeOK
    <3>2. /\ DOMAIN states' = 1 .. Len(states) + 1
          /\ \A i \in 1 .. Len(states) : states'[i] = states[i]
          /\ states'[Len(states) + 1] = requests /\ states' # <<>>
      BY <2>2, <2>5, <3>1, AppendProperties, LenProperties
    <3>3. ASSUME NEW i \in DOMAIN states' PROVE resource'[states'[i]] \in Resources
      <4>1. CASE i = Len(states) + 1
        BY <2>2, <2>5, <3>1, <3>2, <4>1
      <4>2. CASE i \in 1 .. Len(states)
        <5>1. states[i] \in States /\ resource[states[i]] \in Resources /\ states'[i] = states[i]
          BY <3>1, <3>2, <4>2 DEF ListInv
        <5> QED
          BY <2>2, <2>5, <3>1, <5>1
      <4> QED
        BY <3>1, <3>2, <3>3, <4>1, <4>2
    <3> QED
      BY <1>0, <2>1, <2>5, <3>2, <3>3 DEF ListInv
  <2> QED
    BY <2>3, <2>4, <2>5
<1>6. CASE UnregisterResources
  <2>1. pc = "looper" /\ UNCHANGED <<pc, pos, requests, resource>>
    BY <1>6 DEF UnregisterResources, Dispatching
  <2>2. \A i \in DOMAIN states' : resource'[states'[i]] \in Resources
    BY <1>6, <2>1, UnregisteredList DEF ListInv
  <2> QED
    BY <1>0, <2>1, <2>2 DEF ListInv
<1>7. CASE HandleResourceIdled \/ HandleRaceCondition \/ HandleSignal
  <2>1. Same /\ Loop
    BY <1>7 DEF HandleResourceIdled, HandleRaceCondition, HandleSignal, Dispatching, Unwind, ListInv
  <2> QED
    BY <1>1, <2>1
<1>8. CASE StartScan("warning") \/ StartScan("timeout") \/ MasterTimeout \/ RegisterSelf
  <2>1. Same /\ Loop
    BY <1>8 DEF StartScan, Dispatching, MasterTimeout, RegisterSelf, ListInv
  <2> QED
    BY <1>1, <2>1
<1>9. CASE AskNext \/ GetBusyResources
  <2>1. Same /\ Loop
    BY <1>9 DEF AskNext, GetBusyResources
  <2> QED
    BY <1>1, <2>1
<1>10. CASE FirstPoll \/ NotifyWhenAllResourcesAreIdle \/ NoMoreWaits \/ LastPoll
  <2>1. Same
    BY <1>10 DEF FirstPoll, NotifyWhenAllResourcesAreIdle, NoMoreWaits, LastPoll
  <2>2. pc' # "registerSelf"
    BY <1>10 DEF FirstPoll, NotifyWhenAllResourcesAreIdle, NoMoreWaits, LastPoll, EnterLoop
  <2>3. pos' = 1
    BY <1>10 DEF FirstPoll, NotifyWhenAllResourcesAreIdle, NoMoreWaits, LastPoll, SaysBusy, SaysIdle,
                 ArmedInv
  <2> QED
    BY <1>1, <2>1, <2>2, <2>3
<1>11. CASE LeaveLoop \/ ReportTimeout
  <2>1. Same /\ Loop
    BY <1>11 DEF LeaveLoop, ReportTimeout, EndLoop, Unwind, ListInv
  <2> QED
    BY <1>1, <2>1
<1>12. CASE HandleTimeoutWarning \/ HandleTimeout \/ JoinBusyResources
  <2>1. Same /\ Loop
    BY <1>12 DEF HandleTimeoutWarning, HandleTimeout, JoinBusyResources, Returns, Unwind
  <2> QED
    BY <1>1, <2>1
<1> QED
  BY <1>3, <1>4, <1>5, <1>6, <1>7, <1>8, <1>9, <1>10, <1>11, <1>12 DEF Next, MainStep, Dispatch

-----------------------------------------------------------------------------
(* The callback and the last poll.                                         *)

\* Outside the wait no callback is registered.
LEMMA ArmedInductive == TypeOK /\ ArmedInv /\ [Next]_vars => ArmedInv'
<1> SUFFICES ASSUME TypeOK, ArmedInv, [Next]_vars PROVE ArmedInv'
  OBVIOUS
<1> USE DEF ArmedInv, waitVars, Polls
<1>1. CASE UNCHANGED vars
  BY <1>1 DEF vars
<1>2. CASE Application \/ Requests \/ Timers
  <2>1. UNCHANGED <<armed, waiting, pc>>
    BY <1>2 DEF Application, Increment, Decrement, Notify, NotifyFirst, ThenIdle, Requests, Request,
                Timers, MessageIsDue, TimerDue
  <2> QED
    BY <2>1
<1>3. CASE StartWait \/ FirstPoll \/ LastPoll \/ NoMoreWaits \/ AskNext \/ RegisterSelf
  BY <1>3 DEF StartWait, FirstPoll, LastPoll, NoMoreWaits, AskNext, RegisterSelf, SaysBusy, SaysIdle
<1>4. CASE NotifyWhenAllResourcesAreIdle
  BY <1>4 DEF NotifyWhenAllResourcesAreIdle, EnterLoop, SaysBusy, SaysIdle
<1>5. CASE LeaveLoop \/ ReportTimeout
  BY <1>5 DEF LeaveLoop, ReportTimeout, EndLoop, Unwind, Deregister
<1>6. CASE HandleResourceIdled
  BY <1>6 DEF HandleResourceIdled, Dispatching, Deregister
<1>7. CASE HandleRaceCondition
  BY <1>7 DEF HandleRaceCondition, Dispatching, Unwind, Deregister
<1>8. CASE HandleSignal \/ UnregisterResources \/ StartScan("warning") \/ StartScan("timeout") \/ MasterTimeout
  BY <1>8 DEF HandleSignal, UnregisterResources, StartScan, Dispatching, MasterTimeout
<1>9. CASE RegisterResources
  <2>1. UNCHANGED <<armed, waiting>> /\ pc' \in {"looper", "registerSelf"}
    BY <1>9 DEF RegisterResources, Dispatching
  <2> QED
    BY <1>9, <2>1 DEF RegisterResources, Dispatching
<1>10. CASE GetBusyResources \/ HandleTimeoutWarning
  BY <1>10 DEF GetBusyResources, HandleTimeoutWarning, Returns
<1>11. CASE HandleTimeout \/ JoinBusyResources
  BY <1>11 DEF HandleTimeout, JoinBusyResources, Returns, Unwind, Deregister
<1> QED
  BY <1>1, <1>2, <1>3, <1>4, <1>5, <1>6, <1>7, <1>8, <1>9, <1>10, <1>11 DEF Next, MainStep, Dispatch

\* Only the callback that is given up, or that is registered here, is called.
LEMMA CallInductive == TypeOK /\ TypeOK' /\ ArmedInv /\ CallInv /\ [Next]_vars => CallInv'
<1> SUFFICES ASSUME TypeOK, TypeOK', ArmedInv, CallInv, [Next]_vars PROVE CallInv'
  OBVIOUS
<1>0. armed \in Nat /\ waits \in Nat /\ Waits \subseteq Nat \ {0} /\ None = 0
  BY DEF TypeOK, Waits, None
<1>1. ASSUME UNCHANGED <<waits, posted>>, armed' = armed \/ armed' = None PROVE CallInv'
  BY <1>0, <1>1 DEF CallInv
<1>2. ASSUME UNCHANGED waits, armed' = None, CountSignal(armed) PROVE CallInv'
  BY <1>0, <1>2, CountTypes DEF CallInv
<1> USE DEF waitVars
<1>3. CASE UNCHANGED vars
  BY <1>1, <1>3 DEF vars
<1>4. CASE Application \/ Requests \/ Timers \/ StartWait
  <2>1. UNCHANGED <<armed, waits, posted>>
    BY <1>4 DEF Application, Increment, Decrement, Notify, NotifyFirst, ThenIdle, Requests, Request,
                Timers, MessageIsDue, TimerDue, StartWait
  <2> QED
    BY <1>1, <2>1
<1>5. CASE \/ FirstPoll \/ LastPoll \/ NoMoreWaits \/ AskNext \/ RegisterSelf \/ GetBusyResources
           \/ HandleTimeoutWarning \/ MasterTimeout \/ HandleSignal \/ RegisterResources
           \/ UnregisterResources \/ StartScan("warning") \/ StartScan("timeout")
  <2>1. UNCHANGED <<armed, waits, posted>>
    BY <1>5 DEF FirstPoll, LastPoll, NoMoreWaits, AskNext, RegisterSelf, GetBusyResources,
                HandleTimeoutWarning, MasterTimeout, HandleSignal, RegisterResources,
                UnregisterResources, StartScan
  <2> QED
    BY <1>1, <2>1
<1>6. CASE NotifyWhenAllResourcesAreIdle
  <2>1. waits' = waits + 1 /\ armed = None
    BY <1>6 DEF NotifyWhenAllResourcesAreIdle, ArmedInv, Polls
  <2>2. CASE CountSignal(waits') /\ armed' = armed
    BY <1>0, <2>1, <2>2, CountTypes DEF CallInv
  <2>3. CASE armed' = waits' /\ UNCHANGED posted
    BY <1>0, <2>1, <2>3 DEF CallInv
  <2> QED
    BY <1>6, <2>1, <2>2, <2>3 DEF NotifyWhenAllResourcesAreIdle
<1>7. CASE HandleResourceIdled \/ HandleTimeout
  <2>1. /\ UNCHANGED waits
        /\ \/ UNCHANGED <<armed, posted>>
           \/ armed' = None /\ UNCHANGED posted
           \/ armed' = None /\ CountSignal(armed)
    BY <1>7 DEF HandleResourceIdled, HandleTimeout, Unwind, Deregister
  <2> QED
    BY <1>1, <1>2, <2>1
<1>8. CASE LeaveLoop \/ ReportTimeout \/ HandleRaceCondition \/ JoinBusyResources
  <2>1. UNCHANGED <<waits, posted>> /\ (armed' = None \/ armed' = armed)
    BY <1>8 DEF LeaveLoop, ReportTimeout, HandleRaceCondition, JoinBusyResources, EndLoop, Unwind, Deregister
  <2> QED
    BY <1>1, <2>1
<1> QED
  BY <1>3, <1>4, <1>5, <1>6, <1>7, <1>8 DEF Next, MainStep, Dispatch

\* The last poll has still to ask what has been busy since it began.
LEMMA StuckInductive == TypeOK /\ ListInv /\ StuckInv /\ [Next]_vars => StuckInv'
<1> SUFFICES ASSUME TypeOK, ListInv, StuckInv, [Next]_vars, pc' = "last"
             PROVE  \A r \in stuck' : /\ counter'[r] > 0
                                      /\ \E j \in DOMAIN states' : j >= pos' /\ resource'[states'[j]] = r
  BY DEF StuckInv
<1> USE DEF resourceVars, registryVars, localVars, waitVars, Polls, Scans
<1>1. pos \in Nat /\ counter \in [Resources -> Nat]
  BY DEF TypeOK
<1>2. CASE UNCHANGED vars
  BY <1>2 DEF vars, StuckInv
<1>3. CASE Application
  <2>1. PICK r \in Resources : \/ Increment(r) \/ Decrement(r) \/ Notify(r)
                               \/ NotifyFirst(r) \/ ThenIdle(r)
    BY <1>3 DEF Application
  <2>2. counter \in [Resources -> Nat] /\ stuck \subseteq Resources
    BY DEF TypeOK
  <2>3. pc = "last" /\ UNCHANGED <<pos, states, resource>>
    BY <2>1 DEF Increment, Decrement, Notify, NotifyFirst, ThenIdle
  <2>4. ASSUME NEW x \in stuck' PROVE x \in stuck /\ counter'[x] > 0
    <3>1. x \in stuck
      BY <2>1, <2>4 DEF Increment, Decrement, Notify, NotifyFirst, ThenIdle
    <3>2. counter[x] > 0 /\ x \in Resources
      BY <2>2, <2>3, <3>1 DEF StuckInv
    <3>3. CASE Increment(r) \/ Notify(r) \/ NotifyFirst(r)
      BY <2>2, <3>1, <3>2, <3>3 DEF Increment, Notify, NotifyFirst
    <3>4. CASE Decrement(r)
      BY <2>2, <2>4, <3>1, <3>2, <3>4 DEF Decrement
    <3>5. CASE ThenIdle(r)
      BY <2>2, <2>4, <3>1, <3>2, <3>5 DEF ThenIdle
    <3> QED
      BY <2>1, <3>1, <3>3, <3>4, <3>5
  <2> QED
    BY <2>3, <2>4 DEF StuckInv
<1>4. CASE Requests \/ Timers
  <2>1. pc = "last" /\ UNCHANGED <<counter, stuck, pos, states, resource>>
    BY <1>4 DEF Requests, Request, Timers, MessageIsDue, TimerDue
  <2> QED
    BY <2>1 DEF StuckInv
<1>5. CASE AskNext
  <2>1. /\ pc = "last" /\ pos \in DOMAIN states /\ IdleAfter(states[pos]) /\ pos' = pos + 1
        /\ UNCHANGED <<counter, stuck, states, resource>>
    BY <1>5 DEF AskNext
  <2>2. counter[resource[states[pos]]] = 0 /\ pos \in Nat
    BY <2>1 DEF IdleAfter, IsIdleNow, TypeOK
  <2>3. ASSUME NEW r \in stuck
        PROVE  counter[r] > 0 /\ \E j \in DOMAIN states : j >= pos + 1 /\ resource[states[j]] = r
    <3>1. PICK j \in DOMAIN states : j >= pos /\ resource[states[j]] = r
      BY <2>1 DEF StuckInv
    <3>2. counter[r] > 0
      BY <2>1 DEF StuckInv
    <3>3. j # pos
      BY <2>2, <3>1, <3>2
    <3>4. j \in Nat
      BY LenProperties DEF TypeOK
    <3> QED
      BY <2>2, <3>1, <3>2, <3>3, <3>4
  <2> QED
    BY <2>1, <2>3
<1>6. CASE LeaveLoop \/ ReportTimeout
  <2>1. EndLoop /\ UNCHANGED <<counter, pos, states, resource>> /\ pos = 1
    BY <1>6 DEF LeaveLoop, ReportTimeout, Unwind, ListInv
  <2>2. stuck' = {r \in Resources : StateOf(r) # {} /\ ~IsIdleNow(r)}
    BY <2>1 DEF EndLoop
  <2>3. ASSUME NEW r \in stuck'
        PROVE  counter[r] > 0 /\ \E j \in DOMAIN states : j >= pos /\ resource[states[j]] = r
    <3>1. r \in Resources /\ StateOf(r) # {} /\ counter[r] # 0
      BY <2>2, <2>3 DEF IsIdleNow
    <3>2. counter[r] > 0
      BY <3>1 DEF TypeOK
    <3>3. PICK j \in DOMAIN states : resource[states[j]] = r
      BY <3>1 DEF StateOf, Registered
    <3>4. j \in Nat /\ j >= 1
      BY LenProperties DEF TypeOK
    <3> QED
      BY <2>1, <3>2, <3>3, <3>4
  <2> QED
    BY <2>1, <2>3
<1>7. CASE StartWait \/ (MainStep /\ ~AskNext /\ ~LeaveLoop /\ ~ReportTimeout)
  <2>1. pc' # "last" \/ pc' = pc
    BY <1>7 DEF StartWait, MainStep, Dispatch, HandleResourceIdled, HandleRaceCondition, HandleSignal,
         RegisterResources, UnregisterResources, StartScan, RegisterSelf, FirstPoll, Unwind,
         NotifyWhenAllResourcesAreIdle, NoMoreWaits, LastPoll, GetBusyResources, EnterLoop,
         HandleTimeoutWarning, HandleTimeout, MasterTimeout, JoinBusyResources
  <2>2. pc # "last" \/ pc' # "last"
    BY <1>7 DEF StartWait, MainStep, Dispatch, HandleResourceIdled, HandleRaceCondition, HandleSignal,
         RegisterResources, UnregisterResources, StartScan, RegisterSelf, FirstPoll, Unwind,
         NotifyWhenAllResourcesAreIdle, NoMoreWaits, LastPoll, GetBusyResources, EnterLoop,
         HandleTimeoutWarning, HandleTimeout, MasterTimeout, JoinBusyResources, Dispatching, Returns
  <2> QED
    BY <2>1, <2>2
<1> QED
  BY <1>2, <1>3, <1>4, <1>5, <1>6, <1>7 DEF Next, MainStep

\* checkState is asked outside the wait only.
LEMMA OnceInductive == ArmedInv /\ NeverRegisteredTwice /\ [Next]_vars => NeverRegisteredTwice'
<1> SUFFICES ASSUME ArmedInv, NeverRegisteredTwice, [Next]_vars PROVE pc' # "twice"
  BY DEF NeverRegisteredTwice
<1>1. CASE NotifyWhenAllResourcesAreIdle
  BY <1>1 DEF NotifyWhenAllResourcesAreIdle, EnterLoop, ArmedInv, Polls
<1>2. CASE UNCHANGED vars \/ Application \/ Requests \/ Timers
  BY <1>2 DEF vars, Application, Increment, Decrement, Notify, NotifyFirst, ThenIdle, Requests, Request,
              Timers, MessageIsDue, TimerDue, NeverRegisteredTwice
<1>3. CASE StartWait \/ (MainStep /\ ~NotifyWhenAllResourcesAreIdle)
  BY <1>3 DEF StartWait, MainStep, Dispatch, HandleResourceIdled, HandleRaceCondition, HandleSignal,
       RegisterResources, UnregisterResources, StartScan, RegisterSelf, AskNext, FirstPoll, NoMoreWaits,
       LeaveLoop, LastPoll, GetBusyResources, EnterLoop, EndLoop, Unwind, HandleTimeoutWarning,
       HandleTimeout, MasterTimeout, JoinBusyResources, ReportTimeout, NeverRegisteredTwice
<1> QED
  BY <1>1, <1>2, <1>3 DEF Next, MainStep

-----------------------------------------------------------------------------
(* The theorems.                                                           *)

\* The invariant holds of the initial state.
LEMMA InitInvariant == Init => IInv
<1> SUFFICES ASSUME Init PROVE IInv
  OBVIOUS
<1> USE DEF Init
<1>1. TypeOK
  <2>1. queue \in Seq(Messages) /\ states \in Seq(States)
    OBVIOUS
  <2>2. idle \in [States -> BOOLEAN]
    OBVIOUS
  <2>3. /\ counter \in [Resources -> 0 .. MaxCount] /\ due \in [Resources -> Nat]
        /\ callback \in [Resources -> States \cup {None}] /\ posted \in [Waits -> Nat]
        /\ resource \in [States -> Resources \cup {None}]
    BY DEF None
  <2>4. /\ increments \in 0 .. MaxIncrements /\ requests \in 0 .. MaxRequests /\ pos \in Nat
        /\ armed \in Waits \cup {None} /\ waitFor \in Waits \cup {None} /\ waits \in Waits \cup {None}
    BY DEF None
  <2>5. /\ timers \subseteq {"warning", "timeout"} /\ pc = "looper" /\ racy \subseteq States
        /\ named \subseteq Resources /\ waiting \in BOOLEAN /\ overdue \in BOOLEAN
        /\ signaled \subseteq Waits /\ accused \subseteq States /\ stuck \subseteq Resources
    OBVIOUS
  <2> QED
    BY <2>1, <2>2, <2>3, <2>4, <2>5, Zenon DEF TypeOK
<1>2. ListInv
  BY DEF ListInv, Zero, Polls, Scans
<1>3. TimerInv
  BY DEF TimerInv, Placed, Zero, TimerKinds
<1> QED
  BY <1>1, <1>2, <1>3 DEF IInv, ArmedInv, CallInv, StuckInv, NeverRegisteredTwice, None, Waits

\* No step breaks it.
LEMMA StepInvariant == IInv /\ [Next]_vars => IInv'
BY TypeInductive, ListInductive, QueuedInductive, ArmedInductive, CallInductive, StuckInductive,
   OnceInductive DEF IInv, Queued

\* It holds of every reachable state.
LEMMA AlwaysInvariant == Spec => []IInv
BY InitInvariant, StepInvariant, PTL DEF Spec

\* Every variable keeps its type: every message in the queue is one that a handler
\* knows, and every state in the list has been asked for.
THEOREM TypeCorrect == Spec => []TypeOK
<1>1. IInv => TypeOK
  BY DEF IInv
<1> QED
  BY <1>1, AlwaysInvariant, PTL

\* Where each delayed message is, counted.
LEMMA PlacedCount ==
  ASSUME TypeOK, NEW k \in TimerKinds, Placed(queue, timers, armed, pc, k)
  PROVE  Pending(k) = IF armed = None THEN 0 ELSE 1
<1> DEFINE S == {i \in DOMAIN queue : queue[i].kind = k}
<1>1. Zero(queue, k) => S = {}
  BY DEF Zero
<1>2. Zero(queue, k) => Cardinality(S) = 0
  BY <1>1, FS_EmptySet
<1>3. ASSUME One(queue, k) PROVE Cardinality(S) = 1
  <2>1. PICK i \in DOMAIN queue : queue[i].kind = k /\ \A j \in DOMAIN queue : queue[j].kind = k => j = i
    BY <1>3 DEF One
  <2>2. S = {i}
    BY <2>1
  <2> QED
    BY <2>2, FS_Singleton
<1> HIDE DEF S
<1>4. Pending(k) = Cardinality(S) + (IF k \in timers THEN 1 ELSE 0) + (IF pc = k THEN 1 ELSE 0)
  BY DEF Pending, S
<1> QED
  BY <1>2, <1>3, <1>4 DEF Placed

\* While a callback is registered there is one warning and one timeout, somewhere
\* between the timers, the queue and their handler; without one there is none.
THEOREM DelayedMessagesMatch == Spec => []TimersMatchCallback
<1>1. IInv => TimersMatchCallback
  BY PlacedCount DEF IInv, TimerInv, TimersMatchCallback, TimerKinds
<1> QED
  BY <1>1, AlwaysInvariant, PTL

\* notifyWhenAllResourcesAreIdle is never called over a registered callback.
THEOREM RegisteredOnce == Spec => []NeverRegisteredTwice
<1>1. IInv => NeverRegisteredTwice
  BY DEF IInv
<1> QED
  BY <1>1, AlwaysInvariant, PTL

\* When the last poll of a wait lets the main thread go, nothing was busy all along.
THEOREM LastPollIsRight == Spec => DeclaredIdleIsTrue
<1>1. ASSUME IInv, [Next]_vars, pc = "last", pc' = "looper" PROVE stuck = {}
  <2>1. LastPoll
    BY <1>1 DEF Next, vars, Application, Increment, Decrement, Notify, NotifyFirst, ThenIdle, Requests,
       Request, Timers, MessageIsDue, TimerDue, StartWait, MainStep, Dispatch, HandleResourceIdled,
       HandleRaceCondition, HandleSignal, RegisterResources, UnregisterResources, StartScan, Dispatching,
       RegisterSelf, AskNext, FirstPoll, NotifyWhenAllResourcesAreIdle, NoMoreWaits, LeaveLoop,
       SaysBusy, SaysIdle, GetBusyResources, HandleTimeoutWarning, HandleTimeout, Returns, MasterTimeout,
       JoinBusyResources, ReportTimeout, Scans
  <2>2. pos \notin DOMAIN states /\ pos \in Nat /\ pos >= 1
    BY <1>1, <2>1 DEF LastPoll, SaysIdle, IInv, TypeOK, ListInv
  <2>3. Len(states) \in Nat /\ DOMAIN states = 1 .. Len(states)
    BY <1>1, LenProperties DEF IInv, TypeOK
  <2>4. ~ \E j \in DOMAIN states : j >= pos
    BY <2>2, <2>3
  <2> QED
    BY <1>1, <2>4 DEF IInv, StuckInv
<1>2. IInv /\ [Next]_vars => [pc = "last" /\ pc' = "looper" => stuck = {}]_vars
  BY <1>1
<1> QED
  BY <1>2, AlwaysInvariant, PTL DEF Spec, DeclaredIdleIsTrue

-----------------------------------------------------------------------------
(* The registry implements IdleNotifier.                                   *)

\* It begins as a notifier without a callback.
LEMMA InitImplements == Init => Notifier!Init
BY DEF Init, Notifier!Init, Notifier!None, None, Waits

\* What a step does to the callback is nothing, a cancel or a call.
LEMMA CallbackStep ==
  ASSUME IInv, UNCHANGED waits,
         \/ UNCHANGED <<armed, posted>>
         \/ armed' = None /\ UNCHANGED posted
         \/ armed' = None /\ CountSignal(armed)
  PROVE  [Notifier!Next]_(Notifier!vars)
<1> USE DEF Notifier!None, None
<1>1. CASE UNCHANGED <<armed, posted>>
  BY <1>1 DEF Notifier!vars
<1>2. CASE armed' = None /\ UNCHANGED posted
  BY <1>2 DEF Notifier!vars, Notifier!Next, Notifier!Cancel
<1>3. CASE armed' = None /\ CountSignal(armed)
  <2>1. CASE armed = None
    <3>1. posted' = posted
      BY <1>3, <2>1, CountTypes DEF IInv, Waits
    <3> QED
      BY <1>3, <2>1, <3>1 DEF Notifier!vars
  <2>2. CASE armed # None
    <3>1. armed \in Waits /\ posted[armed] = 0
      BY <2>2 DEF IInv, TypeOK, CallInv
    <3>2. posted' = [posted EXCEPT ![armed] = 1]
      BY <1>3, <3>1, CountTypes DEF IInv
    <3> QED
      BY <1>3, <2>2, <3>1, <3>2 DEF Notifier!Next, Notifier!Callback, Notifier!Run
  <2> QED
    BY <2>1, <2>2
<1> QED
  BY <1>1, <1>2, <1>3

\* A registration is one: the callback stays, or is called at once.
LEMMA RegisterStep ==
  ASSUME IInv, NotifyWhenAllResourcesAreIdle
  PROVE  Notifier!Next
<1>1. waits' = waits + 1 /\ waits < MaxWaits /\ armed = None /\ waits' \in Waits
  BY DEF NotifyWhenAllResourcesAreIdle, IInv, TypeOK, ArmedInv, Polls, Waits, None
<1>2. posted[waits'] = 0
  BY <1>1 DEF IInv, TypeOK, CallInv, Waits, None
<1> USE DEF Notifier!None, None
<1>3. CASE armed' = waits' /\ UNCHANGED posted
  BY <1>1, <1>3 DEF Notifier!Next, Notifier!Register
<1>4. CASE armed' = armed /\ CountSignal(waits')
  <2>1. posted' = [posted EXCEPT ![waits'] = 1]
    BY <1>1, <1>2, <1>4, CountTypes DEF IInv
  <2> QED
    BY <1>1, <1>2, <1>4, <2>1 DEF Notifier!Next, Notifier!Register, Notifier!Run
<1> QED
  BY <1>1, <1>3, <1>4 DEF NotifyWhenAllResourcesAreIdle

\* Every step of the registry is one of the notifier, or none.
LEMMA StepImplements == IInv /\ [Next]_vars => [Notifier!Next]_(Notifier!vars)
<1> SUFFICES ASSUME IInv, [Next]_vars PROVE [Notifier!Next]_(Notifier!vars)
  OBVIOUS
<1> USE DEF waitVars
<1>1. CASE NotifyWhenAllResourcesAreIdle
  BY <1>1, RegisterStep
<1>2. CASE UNCHANGED vars \/ Application \/ Requests \/ Timers \/ StartWait
  <2>1. UNCHANGED <<armed, waits, posted>>
    BY <1>2 DEF vars, Application, Increment, Decrement, Notify, NotifyFirst, ThenIdle, Requests, Request,
                Timers, MessageIsDue, TimerDue, StartWait
  <2> QED
    BY <2>1, CallbackStep
<1>3. CASE MainStep /\ ~NotifyWhenAllResourcesAreIdle
  <2>1. /\ UNCHANGED waits
        /\ \/ UNCHANGED <<armed, posted>>
           \/ armed' = None /\ UNCHANGED posted
           \/ armed' = None /\ CountSignal(armed)
    BY <1>3 DEF MainStep, Dispatch, HandleResourceIdled, HandleRaceCondition, HandleSignal,
       RegisterResources, UnregisterResources, StartScan, RegisterSelf, AskNext, FirstPoll, NoMoreWaits,
       LeaveLoop, LastPoll, GetBusyResources, EndLoop, Unwind, Deregister, HandleTimeoutWarning,
       HandleTimeout, MasterTimeout, JoinBusyResources, ReportTimeout
  <2> QED
    BY <2>1, CallbackStep
<1> QED
  BY <1>1, <1>2, <1>3 DEF Next

\* A callback is registered over no other, runs once at most, and never after it has
\* been cancelled, whatever handles the messages in between.
THEOREM RegistryImplementsNotifier == Spec => ImplementsIdleNotifier
BY InitImplements, StepImplements, AlwaysInvariant, PTL DEF Spec, ImplementsIdleNotifier, Notifier!Spec

=============================================================================
