--------------------- MODULE AsyncTaskPoolCallbackProofs ---------------------
(***************************************************************************)
(* The callback of AsyncTaskPoolMonitor: notifyWhenIdle never finds a      *)
(* monitor in place, each callback runs at most once, no barrier task is   *)
(* left behind it, and so the monitor implements IdleNotifier; in every    *)
(* pool, whether or not it starts threads above its core size.             *)
(***************************************************************************)
EXTENDS AsyncTaskPoolMonitorProofs

USE DEF None, monitorVars, barrierVars, historyVars, poolVars

\* Each thread is where its kind may be, and an idle worker holds no task.
PlaceInv ==
  /\ pc[Main] \in MainStates \ {"recursive"}
  /\ \A w \in Workers :
       /\ pc[w] \in WorkerStates
       /\ pc[w] \in {"none", "parked"} => job[w] = None

\* The reference holds the current monitor, and only while the main thread waits for it.
MonitorInv ==
  /\ monitor \in {None, current}
  /\ pc[Main] \notin ForIdleStates \cup {"wait", "cancel"} => monitor = None

LeftInv == \A t \in Threads : left[t] <= CorePoolSize

-----------------------------------------------------------------------------
(* How many barrier tasks of a monitor there are.                          *)

Places(q, m) == {i \in 1 .. Len(q) : q[i] = m}
Live(m)      == {w \in Workers : job[w] = m /\ pc[w] \notin {"released", "done"}}
Acts(m)      == {w \in Workers : job[w] = m /\ pc[w] \in ActionStates}
Count(m)     == Cardinality(Places(queue, m)) + Cardinality(Live(m))

\* Those that the main thread has yet to submit, and those there may be while w acts.
ToCome(m) == IF pc[Main] = "m.execute" /\ current = m THEN left[Main] ELSE 0
Room(w)   == IF pc[w] = "m.execute" THEN 2 * CorePoolSize - left[w] ELSE CorePoolSize

\* Unless its barrier has tripped, a monitor has at most CorePoolSize tasks; when it has,
\* all of them are at the barrier, and new ones come only from the acting thread; after
\* the callback there are none.
Unfired == ForIdleStates \ {"m.execute"}
CountInv(m) ==
  /\ Acts(m) = {} => Count(m) + ToCome(m) <= CorePoolSize
  /\ \A w \in Acts(m) :
       /\ Acts(m) = {w}
       /\ Cardinality(Waiting(m)) = CorePoolSize - 1
       /\ ToCome(m) = 0
       /\ Count(m) <= Room(w)
  /\ fired[m] <= 1
  /\ fired[m] = 1 => Count(m) + ToCome(m) = 0
  /\ m > current => fired[m] = 0
  /\ m = current /\ pc[Main] \in Unfired => Count(m) = 0 /\ fired[m] = 0

CallInv == /\ BaseInv /\ PlaceInv /\ MonitorInv /\ LeftInv
           /\ \A m \in Monitors : CountInv(m)

\* The first task of a queue is taken out of it.
LEMMA PlacesOfTail ==
  ASSUME NEW S, NEW q \in Seq(S), q # <<>>, NEW m
  PROVE  /\ IsFiniteSet(Places(q, m)) /\ IsFiniteSet(Places(Tail(q), m))
         /\ Cardinality(Places(Tail(q), m))
              <= Cardinality(Places(q, m)) - (IF Head(q) = m THEN 1 ELSE 0)
  <1>. DEFINE P == Places(q, m)
              T == Places(Tail(q), m)
              f == [i \in P \ {1} |-> i - 1]
  <1>1. /\ Len(q) \in Nat /\ Len(q) >= 1 /\ Len(Tail(q)) = Len(q) - 1 /\ Head(q) = q[1]
        /\ \A i \in 1 .. Len(q) - 1 : Tail(q)[i] = q[i + 1]
    BY HeadTailProperties, LenProperties, EmptySeq
  <1>2. P \in SUBSET (1 .. Len(q)) /\ IsFiniteSet(1 .. Len(q))
    BY <1>1, FS_Interval DEF Places
  <1>3. IsFiniteSet(P) /\ Cardinality(P) \in Nat
    BY <1>2, FS_Subset, FS_CardinalityType
  <1>4. f \in Surjection(P \ {1}, T)
    <2>1. \A i \in P \ {1} : i - 1 \in T
      BY <1>1 DEF Places
    <2>2. \A j \in T : j + 1 \in P \ {1} /\ (j + 1) - 1 = j
      BY <1>1 DEF Places
    <2>3. f \in [P \ {1} -> T]
      BY <2>1
    <2>4. \A j \in T : \E i \in P \ {1} : f[i] = j
      BY <2>2
    <2>. QED  BY <2>3, <2>4, Zenon DEF Surjection
  <1>5. /\ IsFiniteSet(P \ {1})
        /\ Cardinality(P \ {1}) = IF 1 \in P THEN Cardinality(P) - 1 ELSE Cardinality(P)
    BY <1>3, FS_RemoveElement
  <1>6. IsFiniteSet(T) /\ Cardinality(T) <= Cardinality(P \ {1}) /\ Cardinality(T) \in Nat
    BY <1>4, <1>5, FS_Surjection, FS_CardinalityType DEF ExistsSurjection
  <1>7. 1 \in P <=> Head(q) = m
    BY <1>1 DEF Places
  <1>. HIDE DEF P, T, f
  <1>8. Cardinality(T) <= Cardinality(P) - (IF Head(q) = m THEN 1 ELSE 0)
    BY <1>3, <1>5, <1>6, <1>7
  <1>. QED  BY <1>3, <1>6, <1>8 DEF P, T

\* A task is put at the end of a queue.
LEMMA PlacesOfAppend ==
  ASSUME NEW S, NEW q \in Seq(S), NEW j \in S, NEW m
  PROVE  /\ IsFiniteSet(Places(q, m)) /\ IsFiniteSet(Places(Append(q, j), m))
         /\ Cardinality(Places(Append(q, j), m))
              = Cardinality(Places(q, m)) + (IF j = m THEN 1 ELSE 0)
  <1>1. /\ Len(q) \in Nat /\ Len(Append(q, j)) = Len(q) + 1 /\ Append(q, j)[Len(q) + 1] = j
        /\ \A i \in 1 .. Len(q) : Append(q, j)[i] = q[i]
    BY AppendProperties, LenProperties
  <1>2. /\ IsFiniteSet(Places(q, m)) /\ Len(q) + 1 \notin Places(q, m)
        /\ Cardinality(Places(q, m)) \in Nat
    <2>1. Places(q, m) \in SUBSET (1 .. Len(q)) /\ IsFiniteSet(1 .. Len(q))
      BY <1>1, FS_Interval DEF Places
    <2>. QED  BY <1>1, <2>1, FS_Subset, FS_CardinalityType
  <1>3. CASE j = m
    <2>1. Places(Append(q, j), m) = Places(q, m) \cup {Len(q) + 1}
      BY <1>1, <1>3 DEF Places
    <2>. QED  BY <1>2, <1>3, <2>1, FS_AddElement
  <1>4. CASE j # m
    <2>1. Places(Append(q, j), m) = Places(q, m)
      BY <1>1, <1>4 DEF Places
    <2>. QED  BY <1>2, <1>4, <2>1
  <1>. QED  BY <1>3, <1>4

\* The tasks of a monitor can be counted.
Counts(m) ==
  /\ IsFiniteSet(Live(m)) /\ IsFiniteSet(Waiting(m)) /\ IsFiniteSet(Places(queue, m))
  /\ Cardinality(Live(m)) \in Nat /\ Cardinality(Waiting(m)) \in Nat
  /\ Cardinality(Places(queue, m)) \in Nat /\ Count(m) \in Nat
  /\ ToCome(m) \in Nat
  /\ \A w \in Acts(m) : left[w] \in Nat
LEMMA CountIsNat == BaseInv => \A m : Counts(m)
  <1>. SUFFICES ASSUME BaseInv, NEW m PROVE Counts(m)
    OBVIOUS
  <1>1. /\ Live(m) \in SUBSET Workers /\ Waiting(m) \in SUBSET Workers /\ IsFiniteSet(Workers)
    BY PoolAssumption DEF Live, Waiting
  <1>2. queue \in Seq(Jobs) /\ left \in [Threads -> Nat]
    BY DEF BaseInv, TypeOK, DataOK
  <1>3. IsFiniteSet(Places(queue, m))
    <2>1. Len(queue) \in Nat
      BY <1>2, LenProperties
    <2>2. Places(queue, m) \in SUBSET (1 .. Len(queue)) /\ IsFiniteSet(1 .. Len(queue))
      BY <2>1, FS_Interval DEF Places
    <2>. QED  BY <2>2, FS_Subset
  <1>4. /\ IsFiniteSet(Live(m)) /\ IsFiniteSet(Waiting(m))
        /\ Cardinality(Live(m)) \in Nat /\ Cardinality(Waiting(m)) \in Nat
        /\ Cardinality(Places(queue, m)) \in Nat
    BY <1>1, <1>3, FS_Subset, FS_CardinalityType
  <1>5. ToCome(m) \in Nat /\ \A w \in Acts(m) : left[w] \in Nat
    BY <1>2, WorkersAreThreads DEF ToCome, Acts
  <1>. QED  BY <1>3, <1>4, <1>5 DEF Count, Counts

\* They can be after a step.
LEMMA CountIsNatAfter == BaseInv' => (\A m : Counts(m))'
  BY CountIsNat, PTL

-----------------------------------------------------------------------------
(* Steps that add no task of a monitor.                                    *)

\* The main thread stays where it is, or goes where it submits nothing and fires nothing.
MainQuiet == pc'[Main] = pc[Main] \/ pc'[Main] \notin ForIdleStates

\* No task of m is new, and none that acts or waits behind the barrier moves.
LEMMA CountKeeps ==
  ASSUME BaseInv, BaseInv', NEW m \in Monitors, CountInv(m), Count(m)' <= Count(m),
         Acts(m)' = Acts(m), Acts(m) # {} => Waiting(m)' = Waiting(m),
         \A w \in Acts(m) : \/ pc'[w] = pc[w] /\ left'[w] = left[w]
                            \/ pc[w] # "m.execute" /\ left'[w] <= CorePoolSize,
         current' = current, fired'[m] = fired[m], MainQuiet,
         left'[Main] = left[Main] \/ pc'[Main] # "m.execute" \/ m # current
  PROVE  CountInv(m)'
  <1>1. /\ Count(m) \in Nat /\ ToCome(m) \in Nat /\ CorePoolSize \in Nat
        /\ \A w \in Acts(m) : left[w] \in Nat
    BY CountIsNat, PoolSizes DEF Counts
  <1>2. /\ Count(m)' \in Nat /\ ToCome(m)' \in Nat
        /\ \A w \in Acts(m)' : left'[w] \in Nat
    BY CountIsNatAfter DEF Counts
  <1>3. ToCome(m)' <= ToCome(m)
    BY <1>1 DEF ToCome, MainQuiet, ForIdleStates
  <1>4. ASSUME NEW w \in Acts(m) PROVE Count(m)' <= Room(w)'
    <2>1. left[w] \in Nat /\ left'[w] \in Nat
      BY <1>1, <1>2
    <2>2. Count(m) <= Room(w)
      BY DEF CountInv
    <2>3. CASE pc'[w] = pc[w] /\ left'[w] = left[w]
      BY <1>1, <1>2, <2>1, <2>2, <2>3 DEF Room
    <2>4. CASE pc[w] # "m.execute" /\ left'[w] <= CorePoolSize
      BY <1>1, <1>2, <2>1, <2>2, <2>4 DEF Room
    <2>. QED  BY <2>3, <2>4
  <1>5. pc'[Main] \in Unfired => pc[Main] = pc'[Main]
    BY DEF MainQuiet, Unfired
  <1>. HIDE DEF MainQuiet
  <1>6. fired[m]' = fired[m] /\ current' = current
    OBVIOUS
  <1>7. Acts(m)' = {} => Count(m)' + ToCome(m)' <= CorePoolSize
    <2>1. Acts(m) = {} => Count(m) + ToCome(m) <= CorePoolSize
      BY DEF CountInv
    <2>. QED  BY <1>1, <1>2, <1>3, <2>1
  <1>8. ASSUME NEW w \in Acts(m)'
        PROVE  /\ Acts(m)' = {w}
               /\ Cardinality(Waiting(m))' = CorePoolSize - 1
               /\ ToCome(m)' = 0
               /\ Count(m)' <= Room(w)'
    <2>1. w \in Acts(m) /\ Waiting(m)' = Waiting(m)
      OBVIOUS
    <2>2. Acts(m) = {w} /\ Cardinality(Waiting(m)) = CorePoolSize - 1 /\ ToCome(m) = 0
      BY <2>1 DEF CountInv
    <2>. QED  BY <1>2, <1>3, <1>4, <2>1, <2>2
  <1>9. fired[m]' = 1 => Count(m)' + ToCome(m)' = 0
    <2>1. fired[m] = 1 => Count(m) + ToCome(m) = 0
      BY DEF CountInv
    <2>. QED  BY <1>1, <1>2, <1>3, <1>6, <2>1
  <1>10. m = current' /\ pc'[Main] \in Unfired => Count(m)' = 0 /\ fired[m]' = 0
    <2>1. m = current /\ pc[Main] \in Unfired => Count(m) = 0 /\ fired[m] = 0
      BY DEF CountInv
    <2>. QED  BY <1>1, <1>2, <1>5, <1>6, <2>1
  <1>. QED  BY <1>6, <1>7, <1>8, <1>9, <1>10 DEF CountInv

\* Workers move, with the tasks they hold, beside any barrier action.
LEMMA CountMoves ==
  ASSUME BaseInv, BaseInv', NEW m \in Monitors, CountInv(m), UNCHANGED <<queue, job, current, left>>,
         fired'[m] = fired[m], MainQuiet,
         \A x \in Workers : job[x] = m =>
           \/ pc'[x] = pc[x]
           \/ /\ pc[x] \notin ActionStates /\ pc'[x] \notin ActionStates
              /\ pc[x] \in {"released", "done"} => pc'[x] \in {"released", "done"}
              /\ "waiting" \in {pc[x], pc'[x]} => Acts(m) = {}
  PROVE  CountInv(m)'
  <1>1. Live(m)' \in SUBSET Live(m)
    BY DEF Live, ActionStates, ForIdleStates
  <1>2. Acts(m)' = Acts(m)
    BY DEF Acts
  <1>3. Acts(m) # {} => Waiting(m)' = Waiting(m)
    BY DEF Waiting
  <1>4. Count(m)' <= Count(m)
    <2>1. Cardinality(Live(m)') <= Cardinality(Live(m)) /\ Cardinality(Live(m)') \in Nat
      BY <1>1, CountIsNat, FS_Subset, FS_CardinalityType DEF Counts
    <2>2. Places(queue, m)' = Places(queue, m)
      BY DEF Places
    <2>3. Cardinality(Live(m)) \in Nat /\ Cardinality(Places(queue, m)) \in Nat
      BY CountIsNat DEF Counts
    <2>. QED  BY <2>1, <2>2, <2>3 DEF Count
  <1>5. \A w \in Acts(m) : pc'[w] = pc[w] /\ left'[w] = left[w]
    BY DEF Acts
  <1>. QED  BY <1>2, <1>3, <1>4, <1>5, CountKeeps

\* The barrier trips: all tasks of the monitor are at it.
LEMMA CountTrip ==
  ASSUME BaseInv, BaseInv', NEW w \in Workers, NEW m \in Monitors, m = job[w], CountInv(m), Acts(m) = {},
         pc[w] = "await", pc'[w] = "tripped", \A x \in Threads \ {w} : pc'[x] = pc[x],
         Cardinality(Waiting(m)) + 1 >= CorePoolSize,
         UNCHANGED <<queue, job, current, left, fired>>
  PROVE  CountInv(m)'
  <1>1. Counts(m) /\ Counts(m)' /\ CorePoolSize \in Nat \ {0}
    BY CountIsNat, CountIsNatAfter, PoolSizes
  <1>2. pc'[Main] = pc[Main]
    BY WorkersAreThreads
  <1>3. Waiting(m)' = Waiting(m) /\ Live(m)' = Live(m) /\ Acts(m)' = {w}
    BY WorkersAreThreads DEF Waiting, Live, Acts, ActionStates, ForIdleStates
  <1>4. Count(m)' = Count(m) /\ ToCome(m)' = ToCome(m)
    BY <1>2, <1>3 DEF Count, ToCome, Places
  <1>5. Waiting(m) \cup {w} \in SUBSET Live(m) /\ w \notin Waiting(m)
    BY DEF Waiting, Live
  <1>6. /\ Cardinality(Waiting(m) \cup {w}) = Cardinality(Waiting(m)) + 1
        /\ Cardinality(Waiting(m) \cup {w}) <= Cardinality(Live(m))
    BY <1>1, <1>5, FS_AddElement, FS_Subset DEF Counts
  <1>7. Count(m) + ToCome(m) <= CorePoolSize
    BY DEF CountInv
  <1>8. /\ Cardinality(Waiting(m)) = CorePoolSize - 1 /\ ToCome(m) = 0 /\ Count(m) <= CorePoolSize
        /\ Count(m) >= 1
    BY <1>1, <1>6, <1>7 DEF Count, Counts
  <1>9. Room(w)' = CorePoolSize
    BY DEF Room
  <1>. QED  BY <1>2, <1>3, <1>4, <1>8, <1>9 DEF CountInv

\* While a thread runs the barrier action of a monitor, that monitor is not done.
LEMMA ActingCount ==
  ASSUME BaseInv, NEW m \in Monitors, CountInv(m), NEW w \in Acts(m)
  PROVE  /\ Count(m) >= 1 /\ fired[m] = 0 /\ m <= current /\ m \in Nat /\ current \in Nat
         /\ ~(m = current /\ pc[Main] \in Unfired)
  <1>1. Counts(m)
    BY CountIsNat
  <1>2. Count(m) >= 1
    <2>1. w \in Live(m)
      BY DEF Live, Acts, ActionStates, ForIdleStates
    <2>2. Cardinality(Live(m)) # 0
      BY <1>1, <2>1, FS_EmptySet DEF Counts
    <2>. QED  BY <1>1, <2>2 DEF Count, Counts
  <1>3. fired[m] = 0
    <2>1. fired[m] \in Nat
      BY DEF BaseInv, TypeOK, DataOK
    <2>. QED  BY <1>1, <1>2, <2>1 DEF CountInv, Counts
  <1>4. m <= current /\ m \in Nat /\ current \in Nat
    <2>1. w \in Workers /\ job[w] = m
      BY DEF Acts
    <2>2. m <= current
      BY <2>1 DEF BaseInv, JobInv
    <2>3. MaxMonitors \in Nat /\ current \in Monitors \cup {None}
      BY PoolAssumption DEF BaseInv, TypeOK, DataOK
    <2>. QED  BY <2>2, <2>3 DEF Monitors
  <1>5. ~(m = current /\ pc[Main] \in Unfired)
    BY <1>1, <1>2 DEF CountInv, Counts
  <1>. QED  BY <1>2, <1>3, <1>4, <1>5

\* The barrier action ends: the tasks at the barrier are through, those it has submitted
\* are left.
LEMMA CountReturn ==
  ASSUME BaseInv, BaseInv', NEW w \in Workers, NEW m \in Monitors, m = job[w], CountInv(m),
         pc[w] \in ForIdleStates, pc[w] = "m.execute" => left[w] = 0, Return(w),
         UNCHANGED <<queue, job, current, left>>,
         fired'[m] = fired[m] \/ (pc[w] = "m.fire" /\ fired'[m] = fired[m] + 1)
  PROVE  CountInv(m)'
  <1>1. Counts(m) /\ Counts(m)' /\ CorePoolSize \in Nat \ {0}
    BY CountIsNat, CountIsNatAfter, PoolSizes
  <1>2. /\ pc'[Main] = pc[Main] /\ pc'[w] = "released"
        /\ \A x \in Workers \ {w} : pc'[x] = IF x \in Waiting(m) THEN "released" ELSE pc[x]
    BY WorkersAreThreads DEF Return, Wake, Waiting
  <1>3. w \in Acts(m) /\ w \in Live(m) /\ w \notin Waiting(m)
    BY DEF Acts, Live, Waiting, ActionStates, ForIdleStates
  <1>4. Acts(m) = {w} /\ Cardinality(Waiting(m)) = CorePoolSize - 1 /\ ToCome(m) = 0 /\ Count(m) <= Room(w)
    BY <1>3 DEF CountInv
  <1>5. Live(m)' = Live(m) \ (Waiting(m) \cup {w}) /\ Acts(m)' = {}
    BY <1>2, <1>4 DEF Live, Acts, Waiting, ActionStates, ForIdleStates
  <1>6. ToCome(m)' = 0 /\ Places(queue, m)' = Places(queue, m)
    BY <1>2, <1>4 DEF ToCome, Places
  <1>7. Count(m)' = Count(m) - CorePoolSize
    <2>1. Waiting(m) \cup {w} \in SUBSET Live(m)
      BY <1>3 DEF Waiting, Live
    <2>2. Cardinality(Waiting(m) \cup {w}) = CorePoolSize /\ IsFiniteSet(Waiting(m) \cup {w})
      <3>1. IsFiniteSet(Waiting(m))
        BY <1>1 DEF Counts
      <3>2. /\ Cardinality(Waiting(m) \cup {w}) = Cardinality(Waiting(m)) + 1
            /\ IsFiniteSet(Waiting(m) \cup {w})
        BY <1>3, <3>1, FS_AddElement
      <3>3. Cardinality(Waiting(m)) \in Nat /\ Cardinality(Waiting(m)) = CorePoolSize - 1
        BY <1>1, <1>4 DEF Counts
      <3>. QED  BY <1>1, <3>2, <3>3
    <2>3. Live(m) \cap (Waiting(m) \cup {w}) = Waiting(m) \cup {w}
      BY <2>1
    <2>4. Cardinality(Live(m)') = Cardinality(Live(m)) - CorePoolSize
      <3>1. IsFiniteSet(Live(m))
        BY <1>1 DEF Counts
      <3>2. Cardinality(Live(m) \ (Waiting(m) \cup {w}))
              = Cardinality(Live(m)) - Cardinality(Live(m) \cap (Waiting(m) \cup {w}))
        BY <2>2, <3>1, FS_Difference
      <3>. QED  BY <1>5, <2>2, <2>3, <3>2
    <2>. QED  BY <1>1, <1>6, <2>4 DEF Count, Counts
  <1>8. Count(m) >= 1 /\ fired[m] = 0
    BY <1>3, ActingCount
  <1>10. Count(m)' <= CorePoolSize /\ (pc[w] # "m.execute" => Count(m)' = 0)
    BY <1>1, <1>4, <1>7 DEF Room, Counts
  <1>11. m <= current /\ m \in Nat /\ current \in Nat /\ ~(m = current /\ pc[Main] \in Unfired)
    BY <1>3, ActingCount
  <1>. QED
    BY <1>1, <1>2, <1>5, <1>6, <1>8, <1>10, <1>11 DEF CountInv, Counts

\* A task is submitted: it is one more of its monitor, and nobody else moves.
LEMMA CountExecute ==
  ASSUME BaseInv, PlaceInv, NEW j \in Jobs, Execute(j, pc), NEW m \in Monitors
  PROVE  /\ pc'[Main] = pc[Main] /\ Acts(m)' = Acts(m) /\ Waiting(m)' = Waiting(m)
         /\ Count(m)' = Count(m) + (IF j = m THEN 1 ELSE 0)
         /\ \A w \in Workers : pc[w] \in ActionStates => pc'[w] = pc[w] /\ job'[w] = job[w]
  <1>1. CASE \E w \in Workers : /\ pc[w] = "none" /\ pc' = [pc EXCEPT ![w] = "claimed"]
                                /\ job' = [job EXCEPT ![w] = j] /\ UNCHANGED queue
    <2>1. PICK w \in Workers : /\ pc[w] = "none" /\ pc' = [pc EXCEPT ![w] = "claimed"]
                               /\ job' = [job EXCEPT ![w] = j] /\ UNCHANGED queue
      BY <1>1
    <2>2. /\ pc'[w] = "claimed" /\ job'[w] = j /\ job[w] = None
          /\ \A x \in Threads \ {w} : pc'[x] = pc[x]
          /\ \A x \in Workers \ {w} : job'[x] = job[x]
      BY <2>1, WorkersAreThreads DEF BaseInv, TypeOK, DataOK, PlaceInv
    <2>3. m # None
      BY DEF Monitors
    <2>4. /\ pc'[Main] = pc[Main] /\ Acts(m)' = Acts(m) /\ Waiting(m)' = Waiting(m)
          /\ Live(m)' = Live(m) \cup (IF j = m THEN {w} ELSE {}) /\ w \notin Live(m)
      BY <2>1, <2>2, <2>3, WorkersAreThreads DEF Acts, Waiting, Live, ActionStates, ForIdleStates
    <2>5. Count(m)' = Count(m) + (IF j = m THEN 1 ELSE 0)
      <3>1. Counts(m)
        BY CountIsNat
      <3>2. Cardinality(Live(m)') = Cardinality(Live(m)) + (IF j = m THEN 1 ELSE 0)
        <4>1. IsFiniteSet(Live(m)) /\ Cardinality(Live(m)) \in Nat
          BY <3>1 DEF Counts
        <4>2. CASE j = m
          BY <2>4, <4>1, <4>2, FS_AddElement
        <4>3. CASE j # m
          <5>1. Live(m)' = Live(m)
            BY <2>4, <4>3
          <5>. QED  BY <4>1, <4>3, <5>1
        <4>. QED  BY <4>2, <4>3
      <3>3. Places(queue, m)' = Places(queue, m)
        BY <2>1 DEF Places
      <3>. QED  BY <3>1, <3>2, <3>3 DEF Count, Counts
    <2>6. \A x \in Workers : pc[x] \in ActionStates => pc'[x] = pc[x] /\ job'[x] = job[x]
      BY <2>1, <2>2, WorkersAreThreads DEF ActionStates, ForIdleStates
    <2>. QED  BY <2>4, <2>5, <2>6
  <1>2. CASE queue' = Append(queue, j) /\ pc' = pc /\ UNCHANGED job
    <2>1. /\ pc'[Main] = pc[Main] /\ Acts(m)' = Acts(m) /\ Waiting(m)' = Waiting(m) /\ Live(m)' = Live(m)
      BY <1>2 DEF Acts, Waiting, Live
    <2>2. Cardinality(Places(queue', m)) = Cardinality(Places(queue, m)) + (IF j = m THEN 1 ELSE 0)
      BY <1>2, PlacesOfAppend DEF BaseInv, TypeOK, DataOK
    <2>3. Count(m)' = Count(m) + (IF j = m THEN 1 ELSE 0)
      BY <2>1, <2>2, CountIsNat DEF Count, Counts
    <2>. QED  BY <1>2, <2>1, <2>3
  <1>. QED  BY <1>1, <1>2 DEF Execute

-----------------------------------------------------------------------------
(* Each step keeps the count.                                              *)

\* A worker takes, starts, finishes and forgets tasks, but none comes into being.
LEMMA PoolCount ==
  ASSUME BaseInv, BaseInv', PlaceInv, NEW w \in Workers, PoolWorker(w) \/ KeepAliveEnds(w),
         NEW m \in Monitors, CountInv(m)
  PROVE  CountInv(m)'
  <1>1. m # None /\ m \notin Tasks /\ Counts(m) /\ w \in Threads /\ w # Main
    BY JobsAssumption, CountIsNat, WorkersAreThreads DEF Monitors
  <1>2. pc \in [Threads -> States] /\ job \in [Workers -> Jobs \cup {None}] /\ queue \in Seq(Jobs)
    BY DEF BaseInv, TypeOK, DataOK
  <1>3. CASE Take(w)
    <2>1. /\ pc[w] = "parked" /\ pc'[w] = "claimed" /\ \A x \in Threads \ {w} : pc'[x] = pc[x]
          /\ job'[w] = Head(queue) /\ \A x \in Workers \ {w} : job'[x] = job[x]
          /\ queue # <<>> /\ queue' = Tail(queue) /\ UNCHANGED <<current, left, fired>>
      BY <1>1, <1>2, <1>3 DEF Take, Goto
    <2>2. job[w] = None
      BY <2>1 DEF PlaceInv
    <2>3. /\ Live(m)' = IF Head(queue) = m THEN Live(m) \cup {w} ELSE Live(m)
          /\ w \notin Live(m) /\ Acts(m)' = Acts(m) /\ Waiting(m)' = Waiting(m)
      BY <1>1, <2>1, <2>2, WorkersAreThreads DEF Live, Acts, Waiting, ActionStates, ForIdleStates
    <2>4. Cardinality(Live(m)') = Cardinality(Live(m)) + (IF Head(queue) = m THEN 1 ELSE 0)
      <3>1. IsFiniteSet(Live(m)) /\ Cardinality(Live(m)) \in Nat
        BY <1>1 DEF Counts
      <3>2. CASE Head(queue) = m
        BY <2>3, <3>1, <3>2, FS_AddElement
      <3>3. CASE Head(queue) # m
        BY <2>3, <3>1, <3>3
      <3>. QED  BY <3>2, <3>3
    <2>5. /\ Cardinality(Places(Tail(queue), m))
               <= Cardinality(Places(queue, m)) - (IF Head(queue) = m THEN 1 ELSE 0)
          /\ Cardinality(Places(Tail(queue), m)) \in Nat
      BY <1>2, <2>1, PlacesOfTail, FS_CardinalityType
    <2>6. Count(m)' = Cardinality(Places(Tail(queue), m)) + Cardinality(Live(m)')
      BY <2>1 DEF Count
    <2>7. Count(m)' <= Count(m)
      <3>1. /\ Cardinality(Places(queue, m)) \in Nat /\ Cardinality(Live(m)) \in Nat
            /\ Count(m) = Cardinality(Places(queue, m)) + Cardinality(Live(m))
        BY <1>1 DEF Counts, Count
      <3>. QED  BY <2>4, <2>5, <2>6, <3>1
    <2>8. \A x \in Acts(m) : pc'[x] = pc[x] /\ left'[x] = left[x]
      BY <2>1, WorkersAreThreads DEF Acts, ActionStates, ForIdleStates
    <2>9. pc'[Main] = pc[Main]
      BY <1>1, <2>1, WorkersAreThreads
    <2>. QED  BY <2>1, <2>3, <2>7, <2>8, <2>9, CountKeeps DEF MainQuiet
  <1>4. CASE Lock(w) \/ FinishTask(w) \/ KeepAliveEnds(w)
    <2>1. /\ UNCHANGED <<queue, job, current, left, fired>>
          /\ \A x \in Threads \ {w} : pc'[x] = pc[x]
          /\ pc[w] \in {"claimed", "run", "parked"} /\ pc'[w] \in {"run", "check", "done", "none"}
      BY <1>1, <1>2, <1>4 DEF Lock, FinishTask, KeepAliveEnds, Goto
    <2>2. \A x \in Workers \ {w} : pc'[x] = pc[x]
      BY <2>1, WorkersAreThreads
    <2>3. pc'[Main] = pc[Main]
      BY <1>1, <2>1, WorkersAreThreads
    <2>. QED  BY <2>1, <2>2, <2>3, CountMoves DEF MainQuiet, ActionStates, ForIdleStates
  <1>5. CASE Unlock(w)
    <2>1. /\ pc[w] = "done" /\ pc'[w] = "parked" /\ \A x \in Threads \ {w} : pc'[x] = pc[x]
          /\ job'[w] = None /\ \A x \in Workers \ {w} : job'[x] = job[x]
          /\ UNCHANGED <<queue, current, left, fired>>
      BY <1>1, <1>2, <1>5 DEF Unlock, Goto
    <2>2. Live(m)' = Live(m) /\ Acts(m)' = Acts(m) /\ Waiting(m)' = Waiting(m)
      BY <1>1, <2>1, WorkersAreThreads DEF Live, Acts, Waiting, ActionStates, ForIdleStates
    <2>3. Count(m)' = Count(m)
      BY <2>1, <2>2 DEF Count
    <2>4. Count(m)' <= Count(m)
      BY <1>1, <2>3 DEF Counts
    <2>5. \A x \in Acts(m) : pc'[x] = pc[x] /\ left'[x] = left[x]
      BY <2>1, WorkersAreThreads DEF Acts, ActionStates, ForIdleStates
    <2>6. pc'[Main] = pc[Main]
      BY <1>1, <2>1, WorkersAreThreads
    <2>. QED  BY <2>1, <2>2, <2>4, <2>5, <2>6, CountKeeps DEF MainQuiet
  <1>. QED  BY <1>3, <1>4, <1>5 DEF PoolWorker

\* Who wakes a barrier moves the threads that wait at it, and itself.
LEMMA WakeMoves ==
  ASSUME BaseInv, NEW n, NEW t \in Threads, NEW to, NEW woken, Wake(n, t, to, woken)
  PROVE  /\ pc'[t] = to
         /\ \A x \in Threads \ {t} : pc'[x] = IF x \in Waiting(n) THEN woken ELSE pc[x]
         /\ t # Main => pc'[Main] = pc[Main]
  BY WorkersAreThreads DEF Wake, Waiting

\* The thread in the barrier action goes on in it, without submitting a task.
LEMMA CountActs ==
  ASSUME BaseInv, BaseInv', NEW w \in Workers, NEW m \in Monitors, CountInv(m),
         UNCHANGED <<queue, job, current, fired>>, left'[w] <= CorePoolSize,
         pc[w] \in ActionStates \ {"m.execute"}, pc'[w] \in ActionStates,
         \A x \in Threads \ {w} : pc'[x] = pc[x] /\ left'[x] = left[x]
  PROVE  CountInv(m)'
  <1>1. /\ pc'[Main] = pc[Main] /\ left'[Main] = left[Main]
        /\ \A x \in Workers \ {w} : pc'[x] = pc[x] /\ left'[x] = left[x]
    BY WorkersAreThreads
  <1>2. Live(m)' = Live(m) /\ Acts(m)' = Acts(m) /\ Waiting(m)' = Waiting(m)
    BY <1>1 DEF Live, Acts, Waiting, ActionStates, ForIdleStates
  <1>3. Count(m)' = Count(m) /\ Count(m) \in Nat
    BY <1>2, CountIsNat DEF Count, Counts
  <1>4. Count(m)' <= Count(m)
    BY <1>3
  <1>5. \A x \in Acts(m) : \/ pc'[x] = pc[x] /\ left'[x] = left[x]
                           \/ pc[x] # "m.execute" /\ left'[x] <= CorePoolSize
    BY <1>1 DEF Acts
  <1>. QED  BY <1>1, <1>2, <1>4, <1>5, CountKeeps DEF MainQuiet

\* A barrier task that does not act moves no other task's barrier while it is full.
LEMMA BarrierTaskCount ==
  ASSUME BaseInv, BaseInv', LeftInv, NEW w \in Workers, BarrierTask(w) \/ Interrupt(w),
         NEW m \in Monitors, CountInv(m)
  PROVE  CountInv(m)'
  <1>1. Counts(m) /\ w \in Threads /\ w # Main /\ CorePoolSize \in Nat \ {0}
    BY CountIsNat, WorkersAreThreads, PoolSizes
  <1>2. pc \in [Threads -> States]
    BY DEF BaseInv, TypeOK
  <1>3. CASE /\ UNCHANGED <<queue, job, current, left, fired>>
             /\ pc'[w] \notin ActionStates \cup {"waiting"}
             /\ pc[w] \notin ActionStates \cup {"released", "done"}
             /\ pc[w] = "waiting" => Acts(job[w]) = {}
             /\ \A x \in Threads \ {w} : \/ pc'[x] = pc[x]
                                         \/ /\ x \in Waiting(job[w]) /\ pc'[x] = "caught"
                                            /\ Acts(job[w]) = {}
    <2>1. pc'[Main] = pc[Main]
      BY <1>1, <1>3, WorkersAreThreads DEF Waiting
    <2>2. \A x \in Workers \ {w} : \/ pc'[x] = pc[x]
                                   \/ /\ pc[x] = "waiting" /\ job[x] = job[w] /\ pc'[x] = "caught"
                                      /\ Acts(job[w]) = {}
      BY <1>3, WorkersAreThreads DEF Waiting
    <2>. QED  BY <1>3, <2>1, <2>2, CountMoves DEF MainQuiet, ActionStates, ForIdleStates
  <1>4. CASE CheckPoisoned(w) \/ CountCheck(w) \/ ReadGeneration(w) \/ Restart(w)
    <2>1. /\ UNCHANGED <<queue, job, current, left, fired>>
          /\ pc[w] \in {"check", "count", "generation", "caught"}
          /\ pc'[w] \in {"done", "count", "generation", "await", "restart", "decrement"}
          /\ \A x \in Threads \ {w} : pc'[x] = pc[x]
      BY <1>1, <1>2, <1>4 DEF CheckPoisoned, CountCheck, ReadGeneration, Restart, Goto
    <2>. QED  BY <1>3, <2>1 DEF ActionStates, ForIdleStates
  <1>5. CASE UncountCheck(w) /\ pc[w] = "decrement"
    <2>1. /\ UNCHANGED <<queue, job, current, left, fired>> /\ pc'[w] = "check"
          /\ \A x \in Threads \ {w} : pc'[x] = pc[x]
      BY <1>1, <1>2, <1>5 DEF UncountCheck, Goto
    <2>. QED  BY <1>3, <1>5, <2>1 DEF ActionStates, ForIdleStates
  <1>6. CASE UncountCheck(w) /\ pc[w] # "decrement"
    <2>1. /\ UNCHANGED <<queue, job, current, left, fired>> /\ pc[w] = "released" /\ pc'[w] = "done"
          /\ \A x \in Threads \ {w} : pc'[x] = pc[x]
      BY <1>1, <1>2, <1>6 DEF UncountCheck, Goto
    <2>2. pc'[Main] = pc[Main] /\ \A x \in Workers \ {w} : pc'[x] = pc[x]
      BY <1>1, <2>1, WorkersAreThreads
    <2>. QED  BY <2>1, <2>2, CountMoves DEF MainQuiet, ActionStates, ForIdleStates
  <1>7. ~Locked(job[w]) => Acts(job[w]) = {}
    BY DEF Locked, Acts
  <1>8. CASE RestartReset(w)
    <2>1. /\ UNCHANGED <<queue, job, current, left, fired>> /\ pc[w] = "restart" /\ ~Locked(job[w])
          /\ Wake(job[w], w, "decrement", "caught")
      BY <1>8 DEF RestartReset, ResetBarrier
    <2>2. /\ pc'[w] = "decrement"
          /\ \A x \in Threads \ {w} : pc'[x] = IF x \in Waiting(job[w]) THEN "caught" ELSE pc[x]
      BY <1>1, <2>1, WakeMoves
    <2>. QED  BY <1>3, <1>7, <2>1, <2>2 DEF ActionStates, ForIdleStates
  <1>9. CASE Interrupt(w)
    <2>1. UNCHANGED <<queue, job, current, left, fired>>
      BY <1>9 DEF Interrupt
    <2>2. CASE pc' = pc
      <3>1. MainQuiet /\ \A x \in Workers : pc'[x] = pc[x]
        BY <2>2 DEF MainQuiet
      <3>. QED  BY <2>1, <3>1, CountMoves
    <2>3. CASE pc' # pc
      <3>1. pc[w] = "waiting" /\ ~Locked(job[w]) /\ Wake(job[w], w, "caught", "caught")
        BY <1>9, <2>3 DEF Interrupt
      <3>2. /\ pc'[w] = "caught"
            /\ \A x \in Threads \ {w} : pc'[x] = IF x \in Waiting(job[w]) THEN "caught" ELSE pc[x]
        BY <1>1, <3>1, WakeMoves
      <3>. QED  BY <1>3, <1>7, <2>1, <3>1, <3>2 DEF ActionStates, ForIdleStates
    <2>. QED  BY <2>2, <2>3
  <1>10. CASE Await(w)
    <2>1. UNCHANGED <<queue, job, current, left, fired>> /\ pc[w] = "await" /\ Acts(job[w]) = {}
      BY <1>7, <1>10 DEF Await
    <2>2. CASE Goto(w, "await", "caught")
      <3>1. pc'[w] = "caught" /\ \A x \in Threads \ {w} : pc'[x] = pc[x]
        BY <1>1, <1>2, <2>2 DEF Goto
      <3>. QED  BY <1>3, <2>1, <3>1 DEF ActionStates, ForIdleStates
    <2>3. CASE Wake(job[w], w, "caught", "caught")
      <3>1. /\ pc'[w] = "caught"
            /\ \A x \in Threads \ {w} : pc'[x] = IF x \in Waiting(job[w]) THEN "caught" ELSE pc[x]
        BY <1>1, <2>3, WakeMoves
      <3>. QED  BY <1>3, <2>1, <3>1 DEF ActionStates, ForIdleStates
    <2>4. CASE Goto(w, "await", IF Cardinality(Waiting(job[w])) + 1 < CorePoolSize
                                THEN "waiting" ELSE "tripped")
      <3>1. /\ pc'[w] = IF Cardinality(Waiting(job[w])) + 1 < CorePoolSize THEN "waiting" ELSE "tripped"
            /\ \A x \in Threads \ {w} : pc'[x] = pc[x]
        BY <1>1, <1>2, <2>4 DEF Goto
      <3>2. pc'[Main] = pc[Main] /\ \A x \in Workers \ {w} : pc'[x] = pc[x]
        BY <1>1, <3>1, WorkersAreThreads
      <3>3. CASE m # job[w]
        BY <2>1, <3>2, <3>3, CountMoves DEF MainQuiet
      <3>4. CASE m = job[w] /\ pc'[w] = "waiting"
        BY <2>1, <3>2, <3>4, CountMoves DEF MainQuiet, ActionStates, ForIdleStates
      <3>5. CASE m = job[w] /\ pc'[w] # "waiting"
        <4>1. pc'[w] = "tripped" /\ ~(Cardinality(Waiting(m)) + 1 < CorePoolSize)
          BY <3>1, <3>5
        <4>2. Cardinality(Waiting(m)) + 1 >= CorePoolSize
          BY <1>1, <4>1 DEF Counts
        <4>. QED  BY <2>1, <3>1, <3>5, <4>1, <4>2, CountTrip
      <3>. QED  BY <3>3, <3>4, <3>5
    <2>. QED  BY <1>10, <2>2, <2>3, <2>4 DEF Await
  <1>11. CASE BarrierTripped(w)
    <2>1. /\ UNCHANGED <<queue, job, current, left, fired>> /\ pc[w] = "tripped"
          /\ pc'[w] \in {"m.clear", "m.poisoned"} /\ \A x \in Threads \ {w} : pc'[x] = pc[x]
      BY <1>1, <1>2, <1>11 DEF BarrierTripped, Goto
    <2>2. left'[w] <= CorePoolSize /\ \A x \in Threads \ {w} : left'[x] = left[x]
      BY <1>1, <2>1 DEF LeftInv
    <2>. QED  BY <2>1, <2>2, CountActs DEF ActionStates, ForIdleStates
  <1>. QED  BY <1>4, <1>5, <1>6, <1>8, <1>9, <1>10, <1>11 DEF BarrierTask

\* monitorForIdle returns out of the barrier action: nothing changes for the other monitors.
LEMMA ReturnCount ==
  ASSUME BaseInv, BaseInv', NEW w \in Workers, NEW m \in Monitors, CountInv(m),
         pc[w] \in ForIdleStates, pc[w] = "m.execute" => left[w] = 0, Return(w),
         UNCHANGED <<queue, job, current, left>>,
         \/ UNCHANGED fired
         \/ pc[w] = "m.fire" /\ fired' = [fired EXCEPT ![job[w]] = @ + 1]
  PROVE  CountInv(m)'
  <1>1. job[w] \in Monitors /\ fired \in [Monitors -> Nat] /\ w \in Threads /\ w # Main
    BY BarrierJob, WorkersAreThreads
       DEF BarrierStates, CountedStates, ActionStates, BaseInv, TypeOK, DataOK
  <1>2. CASE m = job[w]
    <2>1. fired'[m] = fired[m] \/ (pc[w] = "m.fire" /\ fired'[m] = fired[m] + 1)
      BY <1>1, <1>2
    <2>. QED  BY <1>2, <2>1, CountReturn
  <1>3. CASE m # job[w]
    <2>1. Wake(job[w], w, "released", "released")
      BY <1>1 DEF Return
    <2>2. /\ pc'[Main] = pc[Main]
          /\ \A x \in Threads \ {w} : pc'[x] = IF x \in Waiting(job[w]) THEN "released" ELSE pc[x]
      BY <1>1, <2>1, WakeMoves
    <2>3. \A x \in Workers : job[x] = m => pc'[x] = pc[x]
      BY <1>3, <2>2, WorkersAreThreads DEF Waiting
    <2>4. fired'[m] = fired[m]
      BY <1>1, <1>3
    <2>. QED  BY <2>2, <2>3, <2>4, CountMoves DEF MainQuiet
  <1>. QED  BY <1>2, <1>3

\* A task that is not one of m is submitted.
LEMMA ExecuteOther ==
  ASSUME BaseInv, BaseInv', PlaceInv, NEW j \in Jobs, Execute(j, pc), NEW m \in Monitors, m # j,
         CountInv(m), UNCHANGED <<current, fired>>, left'[Main] = left[Main] \/ m # current,
         \A x \in Workers : job[x] = m => left'[x] = left[x]
  PROVE  CountInv(m)'
  <1>1. /\ pc'[Main] = pc[Main] /\ Acts(m)' = Acts(m) /\ Waiting(m)' = Waiting(m)
        /\ Count(m)' = Count(m) /\ Count(m) \in Nat
        /\ \A w \in Workers : pc[w] \in ActionStates => pc'[w] = pc[w]
    BY CountExecute, CountIsNat DEF Counts
  <1>2. Count(m)' <= Count(m)
    BY <1>1
  <1>3. \A x \in Acts(m) : pc'[x] = pc[x] /\ left'[x] = left[x]
    BY <1>1 DEF Acts
  <1>. QED  BY <1>1, <1>2, <1>3, CountKeeps DEF MainQuiet

\* Within a call of isIdleNow a thread goes from one read to the next or to the answer.
LEMMA IsIdleNowMoves ==
  ASSUME BaseInv, NEW t \in Threads, IsIdleNow(t)
  PROVE  /\ UNCHANGED <<monitorVars, queue, job, left>>
         /\ \A x \in Threads \ {t} : pc'[x] = pc[x]
         /\ \/ pc[t] \in IdleStates /\ pc'[t] \in IdleStates \cup {"free", "notify"}
            \/ /\ pc[t] \in {"m.queue", "m.active", "m.monitor", "m.checks"}
               /\ pc'[t] \in {"m.active", "m.monitor", "m.checks", "m.clear", "m.execute"}
  <1>1. PICK c \in Calls : ReadQueue(t, c) \/ ReadActive(t, c)
                             \/ ReadMonitor(t, c) \/ ReadChecks(t, c)
    BY DEF IsIdleNow
  <1>2. \E from \in {c.queue, c.active, c.monitor, c.checks},
           to \in {c.active, c.monitor, c.checks, c.idle, c.busy} : Goto(t, from, to)
    BY <1>1 DEF ReadQueue, ReadActive, ReadMonitor, ReadChecks
  <1>3. PICK from \in {c.queue, c.active, c.monitor, c.checks},
             to \in {c.active, c.monitor, c.checks, c.idle, c.busy} : Goto(t, from, to)
    BY <1>2
  <1>4. pc[t] = from /\ pc'[t] = to /\ \A x \in Threads \ {t} : pc'[x] = pc[x]
    BY <1>3 DEF Goto, BaseInv, TypeOK
  <1>5. UNCHANGED <<monitorVars, queue, job, left>>
    BY DEF IsIdleNow
  <1>6. CASE c = Poll
    BY <1>4, <1>5, <1>6 DEF Poll, IdleStates
  <1>7. CASE c = Repoll
    BY <1>4, <1>5, <1>7 DEF Repoll
  <1>. QED  BY <1>6, <1>7 DEF Calls

\* A step of monitorForIdle in the barrier action.
LEMMA ActionCount ==
  ASSUME BaseInv, BaseInv', PlaceInv, LeftInv, NEW w \in Workers, ForIdle(w),
         NEW m \in Monitors, CountInv(m)
  PROVE  CountInv(m)'
  <1>1. Counts(m) /\ Counts(m)' /\ w \in Threads /\ w # Main /\ CorePoolSize \in Nat \ {0}
    BY CountIsNat, CountIsNatAfter, WorkersAreThreads, PoolSizes
  <1>2. pc \in [Threads -> States] /\ left \in [Threads -> Nat] /\ left[w] <= CorePoolSize
    BY <1>1 DEF BaseInv, TypeOK, DataOK, LeftInv
  <1>3. CASE IsIdleNow(w)
    <2>1. /\ UNCHANGED <<current, fired, queue, job, left>>
          /\ \A x \in Threads \ {w} : pc'[x] = pc[x]
          /\ \/ pc[w] \in IdleStates
             \/ /\ pc[w] \in {"m.queue", "m.active", "m.monitor", "m.checks"}
                /\ pc'[w] \in {"m.active", "m.monitor", "m.checks", "m.clear", "m.execute"}
      BY <1>1, <1>3, IsIdleNowMoves
    <2>2. pc[w] \notin IdleStates
      BY DEF PlaceInv, WorkerStates, BusyStates, BarrierStates, CountedStates, ActionStates,
             ForIdleStates, IdleStates
    <2>. QED  BY <1>2, <2>1, <2>2, CountActs DEF ActionStates, ForIdleStates
  <1>4. CASE MonitorForIdle(w)
    <2>1. UNCHANGED <<current, fired, queue, job>> /\ pc[w] = "m.poisoned"
      BY <1>4 DEF MonitorForIdle
    <2>2. CASE Return(w) /\ UNCHANGED left
      BY <2>1, <2>2, ReturnCount DEF ForIdleStates
    <2>3. CASE Goto(w, "m.poisoned", "m.queue") /\ left' = [left EXCEPT ![w] = CorePoolSize]
      <3>1. /\ pc'[w] = "m.queue" /\ left'[w] = CorePoolSize
            /\ \A x \in Threads \ {w} : pc'[x] = pc[x] /\ left'[x] = left[x]
        BY <1>1, <1>2, <2>3 DEF Goto
      <3>2. left'[w] <= CorePoolSize
        BY <1>1, <3>1
      <3>. QED  BY <2>1, <3>1, <3>2, CountActs DEF ActionStates, ForIdleStates
    <2>. QED  BY <1>4, <2>2, <2>3 DEF MonitorForIdle
  <1>5. CASE ClearMonitor(w)
    <2>1. /\ UNCHANGED <<current, fired, queue, job, left>> /\ pc[w] = "m.clear" /\ pc'[w] = "m.fire"
          /\ \A x \in Threads \ {w} : pc'[x] = pc[x]
      BY <1>1, <1>2, <1>5 DEF ClearMonitor, Goto
    <2>. QED  BY <1>2, <2>1, CountActs DEF ActionStates, ForIdleStates
  <1>6. CASE OnIdle(w)
    <2>1. /\ UNCHANGED <<current, queue, job, left>> /\ pc[w] = "m.fire" /\ Return(w)
          /\ fired' = [fired EXCEPT ![job[w]] = @ + 1]
      BY <1>1, <1>6 DEF OnIdle, MonitorOf
    <2>. QED  BY <2>1, ReturnCount DEF ForIdleStates
  <1>7. CASE ExecuteBarrierTask(w) /\ left[w] = 0
    <2>1. UNCHANGED <<current, queue, job, left, fired>> /\ pc[w] = "m.execute" /\ Return(w)
      BY <1>7 DEF ExecuteBarrierTask
    <2>. QED  BY <1>7, <2>1, ReturnCount DEF ForIdleStates
  <1>8. CASE ExecuteBarrierTask(w) /\ left[w] # 0
    <2>1. /\ UNCHANGED <<current, fired>> /\ pc[w] = "m.execute" /\ Execute(job[w], pc)
          /\ left' = [left EXCEPT ![w] = @ - 1]
      BY <1>1, <1>8 DEF ExecuteBarrierTask, MonitorOf
    <2>2. job[w] \in Monitors /\ job[w] \in Jobs
      BY <2>1, BarrierJob DEF BarrierStates, CountedStates, ActionStates, ForIdleStates, Jobs
    <2>3. /\ left'[w] = left[w] - 1 /\ left'[Main] = left[Main]
          /\ \A x \in Workers \ {w} : left'[x] = left[x]
      BY <1>1, <1>2, <2>1, WorkersAreThreads
    <2>4. CASE m # job[w]
      BY <2>1, <2>2, <2>3, <2>4, ExecuteOther
    <2>5. CASE m = job[w]
      <3>1. /\ pc'[Main] = pc[Main] /\ pc'[w] = pc[w]
            /\ Acts(m)' = Acts(m) /\ Waiting(m)' = Waiting(m) /\ Count(m)' = Count(m) + 1
        BY <2>1, <2>2, <2>5, CountExecute DEF ActionStates, ForIdleStates
      <3>2. w \in Acts(m)
        BY <2>1, <2>5 DEF Acts, ActionStates, ForIdleStates
      <3>3. /\ Acts(m) = {w} /\ Cardinality(Waiting(m)) = CorePoolSize - 1 /\ ToCome(m) = 0
            /\ Count(m) <= 2 * CorePoolSize - left[w]
        BY <2>1, <3>2 DEF CountInv, Room
      <3>4. fired[m] = 0 /\ m <= current /\ m \in Nat /\ current \in Nat
            /\ ~(m = current /\ pc[Main] \in Unfired)
        BY <3>2, ActingCount
      <3>5. ToCome(m)' = 0
        BY <2>1, <2>3, <3>1, <3>3 DEF ToCome
      <3>6. Count(m)' <= Room(w)'
        <4>1. Room(w)' = 2 * CorePoolSize - (left[w] - 1)
          BY <2>1, <2>3, <3>1 DEF Room
        <4>2. Count(m) \in Nat /\ left[w] \in Nat
          BY <1>1, <1>2 DEF Counts
        <4>. QED  BY <1>1, <3>1, <3>3, <4>1, <4>2
      <3>. QED  BY <2>1, <3>1, <3>3, <3>4, <3>5, <3>6 DEF CountInv
    <2>. QED  BY <2>4, <2>5
  <1>. QED  BY <1>3, <1>4, <1>5, <1>6, <1>7, <1>8 DEF ForIdle

-----------------------------------------------------------------------------
(* The main thread.                                                        *)

\* In monitorForIdle, before it submits a task, the main thread finds none of its monitor.
LEMMA MainCounts ==
  ASSUME BaseInv, BaseInv', NEW m \in Monitors, CountInv(m), UNCHANGED <<queue, job, current, fired>>,
         pc[Main] \in Unfired, pc'[Main] \in ForIdleStates, left'[Main] <= CorePoolSize,
         \A x \in Workers : pc'[x] = pc[x] /\ left'[x] = left[x]
  PROVE  CountInv(m)'
  <1>1. Counts(m) /\ Counts(m)' /\ CorePoolSize \in Nat \ {0}
    BY CountIsNat, CountIsNatAfter, PoolSizes
  <1>2. Live(m)' = Live(m) /\ Acts(m)' = Acts(m) /\ Waiting(m)' = Waiting(m) /\ Acts(m) \in SUBSET Workers
    BY DEF Live, Acts, Waiting
  <1>3. Count(m)' = Count(m) /\ \A x \in Acts(m) : Room(x)' = Room(x)
    BY <1>2 DEF Count, Room
  <1>4. ToCome(m) = 0
    BY DEF ToCome, Unfired
  <1>5. CASE m # current
    <2>1. ToCome(m)' = 0
      BY <1>5 DEF ToCome
    <2>. QED  BY <1>2, <1>3, <1>4, <1>5, <2>1 DEF CountInv
  <1>6. CASE m = current
    <2>1. Count(m) = 0 /\ fired[m] = 0
      BY <1>6 DEF CountInv
    <2>2. Acts(m) = {}
      BY <2>1, ActingCount
    <2>3. ToCome(m)' <= CorePoolSize
      BY <1>1 DEF ToCome
    <2>. QED  BY <1>1, <1>2, <1>3, <1>6, <2>1, <2>2, <2>3 DEF CountInv, Counts
  <1>. QED  BY <1>5, <1>6

\* A new monitor has no task, and has not called back.
LEMMA NotifyCount ==
  ASSUME BaseInv, BaseInv', MonitorInv, NotifyWhenIdle, NEW m \in Monitors, CountInv(m)
  PROVE  CountInv(m)'
  <1>1. Counts(m) /\ Counts(m)' /\ CorePoolSize \in Nat \ {0} /\ MaxMonitors \in Nat
    BY CountIsNat, CountIsNatAfter, PoolSizes, PoolAssumption
  <1>2. pc[Main] = "notify" /\ monitor = None
    BY DEF NotifyWhenIdle, Goto, MonitorInv, ForIdleStates
  <1>3. /\ current' = current + 1 /\ UNCHANGED <<queue, job, left, fired>>
        /\ pc'[Main] = "m.poisoned" /\ \A x \in Workers : pc'[x] = pc[x]
    BY <1>2, WorkersAreThreads DEF NotifyWhenIdle, Goto, BaseInv, TypeOK
  <1>4. current \in Nat /\ m \in Nat
    BY <1>1 DEF BaseInv, TypeOK, DataOK, Monitors
  <1>5. /\ Live(m)' = Live(m) /\ Acts(m)' = Acts(m) /\ Waiting(m)' = Waiting(m)
        /\ Acts(m) \in SUBSET Workers /\ Places(queue, m)' = Places(queue, m)
    BY <1>3 DEF Live, Acts, Waiting, Places
  <1>6. Count(m)' = Count(m) /\ \A x \in Acts(m) : Room(x)' = Room(x)
    BY <1>3, <1>5, WorkersAreThreads DEF Count, Room
  <1>7. ToCome(m) = 0 /\ ToCome(m)' = 0
    BY <1>2, <1>3 DEF ToCome
  <1>8. m > current' => fired'[m] = 0
    BY <1>3, <1>4 DEF CountInv
  <1>9. m = current' => Count(m)' = 0 /\ fired'[m] = 0
    <2>. SUFFICES ASSUME m = current + 1 PROVE Count(m) = 0 /\ fired[m] = 0
      BY <1>3, <1>6
    <2>1. fired[m] = 0
      BY <1>4 DEF CountInv
    <2>2. Places(queue, m) = {}
      BY <1>4 DEF Places, BaseInv, QueueInv
    <2>3. Live(m) = {}
      BY <1>4 DEF Live, BaseInv, JobInv
    <2>4. Count(m) = 0
      BY <2>2, <2>3, FS_EmptySet DEF Count
    <2>. QED  BY <2>1, <2>4
  <1>. QED  BY <1>3, <1>5, <1>6, <1>7, <1>8, <1>9 DEF CountInv

\* A step of the main thread: it submits the tasks of its monitor, or reports.
LEMMA MainCount ==
  ASSUME BaseInv, BaseInv', PlaceInv, MonitorInv, LeftInv, MainStep, NEW m \in Monitors, CountInv(m)
  PROVE  CountInv(m)'
  <1>1. /\ Counts(m) /\ Counts(m)' /\ CorePoolSize \in Nat \ {0}
        /\ Main \in Threads /\ Main \notin Workers /\ Workers \subseteq Threads
    BY CountIsNat, CountIsNatAfter, WorkersAreThreads, PoolSizes
  <1>2. pc \in [Threads -> States] /\ left \in [Threads -> Nat] /\ left[Main] <= CorePoolSize
    BY <1>1 DEF BaseInv, TypeOK, DataOK, LeftInv
  <1>3. CASE /\ UNCHANGED <<queue, job, current, left, fired>> /\ pc'[Main] \notin ForIdleStates
             /\ \A x \in Threads \ {Main} : pc'[x] = pc[x]
    <2>1. MainQuiet /\ \A x \in Workers : pc'[x] = pc[x]
      BY <1>1, <1>3 DEF MainQuiet
    <2>. QED  BY <1>3, <2>1, CountMoves
  <1>4. CASE CallIsIdleNow \/ NoMoreMonitors \/ StopWaiting \/ CancelIdleMonitor \/ Poison
    <2>1. UNCHANGED <<queue, job, current, left, fired>>
      BY <1>4 DEF CallIsIdleNow, NoMoreMonitors, StopWaiting, CancelIdleMonitor, Poison
    <2>2. /\ pc'[Main] \in {"idle.queue", "free", "cancel", "poison", "reset"}
          /\ \A x \in Threads \ {Main} : pc'[x] = pc[x]
      BY <1>1, <1>2, <1>4 DEF Goto, CallIsIdleNow, NoMoreMonitors, StopWaiting, CancelIdleMonitor, Poison
    <2>. QED  BY <1>3, <2>1, <2>2 DEF ForIdleStates
  <1>5. CASE PoisonReset
    <2>1. UNCHANGED <<queue, job, current, left, fired>> /\ ~Locked(current)
          /\ Wake(current, Main, "free", "caught")
      BY <1>5 DEF PoisonReset, ResetBarrier
    <2>2. /\ pc'[Main] = "free"
          /\ \A x \in Threads \ {Main} : pc'[x] = IF x \in Waiting(current) THEN "caught" ELSE pc[x]
      BY <1>1, <2>1, WakeMoves
    <2>3. Acts(current) = {}
      BY <2>1 DEF Acts, Locked
    <2>4. \A x \in Workers : \/ pc'[x] = pc[x]
                             \/ pc[x] = "waiting" /\ job[x] = current /\ pc'[x] = "caught"
      BY <1>1, <2>2 DEF Waiting
    <2>. QED  BY <2>1, <2>2, <2>3, <2>4, CountMoves DEF MainQuiet, ActionStates, ForIdleStates
  <1>6. CASE NotifyWhenIdle
    BY <1>6, NotifyCount
  <1>7. CASE IsIdleNow(Main)
    <2>1. /\ UNCHANGED <<current, fired, queue, job, left>>
          /\ \A x \in Threads \ {Main} : pc'[x] = pc[x]
          /\ \/ pc'[Main] \in IdleStates \cup {"free", "notify"}
             \/ /\ pc[Main] \in {"m.queue", "m.active", "m.monitor", "m.checks"}
                /\ pc'[Main] \in {"m.active", "m.monitor", "m.checks", "m.clear", "m.execute"}
      BY <1>1, <1>7, IsIdleNowMoves
    <2>2. CASE pc'[Main] \in IdleStates \cup {"free", "notify"}
      BY <1>3, <2>1, <2>2 DEF IdleStates, ForIdleStates
    <2>3. CASE pc'[Main] \notin IdleStates \cup {"free", "notify"}
      <3>1. \A x \in Workers : pc'[x] = pc[x] /\ left'[x] = left[x]
        BY <1>1, <2>1
      <3>2. left'[Main] <= CorePoolSize
        BY <1>2, <2>1
      <3>3. pc[Main] \in Unfired /\ pc'[Main] \in ForIdleStates
        BY <2>1, <2>3 DEF Unfired, ForIdleStates
      <3>. QED  BY <2>1, <3>1, <3>2, <3>3, MainCounts
    <2>. QED  BY <2>2, <2>3
  <1>8. CASE MonitorForIdle(Main)
    <2>1. UNCHANGED <<current, fired, queue, job>> /\ pc[Main] = "m.poisoned"
      BY <1>8 DEF MonitorForIdle
    <2>2. CASE Return(Main) /\ UNCHANGED left
      <3>1. pc'[Main] = "wait" /\ \A x \in Threads \ {Main} : pc'[x] = pc[x]
        BY <1>1, <1>2, <2>2 DEF Return
      <3>. QED  BY <1>3, <2>1, <2>2, <3>1 DEF ForIdleStates
    <2>3. CASE Goto(Main, "m.poisoned", "m.queue") /\ left' = [left EXCEPT ![Main] = CorePoolSize]
      <3>1. /\ pc'[Main] = "m.queue" /\ left'[Main] = CorePoolSize
            /\ \A x \in Threads \ {Main} : pc'[x] = pc[x] /\ left'[x] = left[x]
        BY <1>1, <1>2, <2>3 DEF Goto
      <3>2. left'[Main] <= CorePoolSize /\ \A x \in Workers : pc'[x] = pc[x] /\ left'[x] = left[x]
        BY <1>1, <3>1
      <3>3. pc[Main] \in Unfired /\ pc'[Main] \in ForIdleStates
        BY <2>1, <3>1 DEF Unfired, ForIdleStates
      <3>. QED  BY <2>1, <3>2, <3>3, MainCounts
    <2>. QED  BY <1>8, <2>2, <2>3 DEF MonitorForIdle
  <1>9. CASE ClearMonitor(Main)
    <2>1. /\ UNCHANGED <<current, fired, queue, job, left>> /\ pc[Main] = "m.clear" /\ pc'[Main] = "m.fire"
          /\ \A x \in Threads \ {Main} : pc'[x] = pc[x]
      BY <1>1, <1>2, <1>9 DEF ClearMonitor, Goto
    <2>2. left'[Main] <= CorePoolSize /\ \A x \in Workers : pc'[x] = pc[x] /\ left'[x] = left[x]
      BY <1>1, <1>2, <2>1
    <2>3. pc[Main] \in Unfired /\ pc'[Main] \in ForIdleStates
      BY <2>1 DEF Unfired, ForIdleStates
    <2>. QED  BY <2>1, <2>2, <2>3, MainCounts
  <1>10. CASE OnIdle(Main)
    <2>1. /\ UNCHANGED <<current, queue, job, left>> /\ pc[Main] = "m.fire" /\ pc'[Main] = "wait"
          /\ fired' = [fired EXCEPT ![current] = @ + 1] /\ \A x \in Threads \ {Main} : pc'[x] = pc[x]
      BY <1>1, <1>2, <1>10 DEF OnIdle, MonitorOf, Return
    <2>2. MainQuiet /\ \A x \in Workers : pc'[x] = pc[x]
      BY <1>1, <2>1 DEF MainQuiet, ForIdleStates
    <2>3. fired \in [Monitors -> Nat] /\ current \in Nat /\ m \in Nat
      BY PoolAssumption DEF BaseInv, TypeOK, DataOK, Monitors
    <2>4. CASE m # current
      <3>1. fired'[m] = fired[m]
        BY <2>1, <2>3, <2>4
      <3>. QED  BY <2>1, <2>2, <3>1, CountMoves
    <2>5. CASE m = current
      <3>1. Count(m) = 0 /\ fired[m] = 0
        BY <2>1, <2>5 DEF CountInv, Unfired, ForIdleStates
      <3>2. fired'[m] = 1
        BY <2>1, <2>3, <2>5, <3>1
      <3>3. Count(m)' = Count(m) /\ Acts(m)' = Acts(m)
        BY <2>1, <2>2 DEF Count, Places, Live, Acts
      <3>4. Acts(m) = {}
        BY <3>1, ActingCount
      <3>5. ToCome(m)' = 0 /\ pc'[Main] \notin Unfired
        BY <2>1 DEF ToCome, Unfired, ForIdleStates
      <3>6. ~(m > current') /\ CorePoolSize >= 0
        BY <1>1, <2>1, <2>3, <2>5
      <3>. QED  BY <3>1, <3>2, <3>3, <3>4, <3>5, <3>6 DEF CountInv
    <2>. QED  BY <2>4, <2>5
  <1>11. CASE ExecuteBarrierTask(Main) /\ left[Main] = 0
    <2>1. UNCHANGED <<current, queue, job, left, fired>> /\ Return(Main)
      BY <1>11 DEF ExecuteBarrierTask
    <2>2. pc'[Main] = "wait" /\ \A x \in Threads \ {Main} : pc'[x] = pc[x]
      BY <1>1, <1>2, <2>1 DEF Return
    <2>. QED  BY <1>3, <2>1, <2>2 DEF ForIdleStates
  <1>12. CASE ExecuteBarrierTask(Main) /\ left[Main] # 0
    <2>1. /\ UNCHANGED <<current, fired>> /\ pc[Main] = "m.execute" /\ Execute(current, pc)
          /\ left' = [left EXCEPT ![Main] = @ - 1]
      BY <1>12 DEF ExecuteBarrierTask, MonitorOf
    <2>2. current \in Monitors /\ current \in Jobs /\ current \in Nat
      BY <2>1, PoolAssumption
         DEF Jobs, BaseInv, MainInv, ForIdleStates, TypeOK, DataOK, Monitors
    <2>3. left'[Main] = left[Main] - 1 /\ \A x \in Workers : left'[x] = left[x]
      BY <1>1, <1>2, <2>1
    <2>4. CASE m # current
      BY <2>1, <2>2, <2>3, <2>4, ExecuteOther
    <2>5. CASE m = current
      <3>1. /\ pc'[Main] = pc[Main]
            /\ Acts(m)' = Acts(m) /\ Waiting(m)' = Waiting(m) /\ Count(m)' = Count(m) + 1
        BY <2>1, <2>2, <2>5, CountExecute
      <3>2. ToCome(m) = left[Main] /\ ToCome(m)' = left[Main] - 1
        BY <2>1, <2>3, <2>5, <3>1 DEF ToCome
      <3>3. left[Main] \in Nat /\ left[Main] > 0 /\ Count(m) \in Nat
        BY <1>1, <1>2, <1>12 DEF Counts
      <3>4. Acts(m) = {}
        BY <3>2, <3>3 DEF CountInv
      <3>5. Count(m)' + ToCome(m)' <= CorePoolSize
        <4>1. Count(m) + ToCome(m) <= CorePoolSize
          BY <3>4 DEF CountInv
        <4>. QED  BY <1>1, <3>1, <3>2, <3>3, <4>1
      <3>6. fired[m] # 1 /\ fired[m] <= 1
        <4>1. Count(m) + ToCome(m) # 0
          BY <3>2, <3>3
        <4>. QED  BY <4>1 DEF CountInv
      <3>7. ~(m > current') /\ pc'[Main] \notin Unfired
        BY <2>1, <2>2, <2>5, <3>1 DEF Unfired
      <3>. QED  BY <2>1, <3>1, <3>4, <3>5, <3>6, <3>7 DEF CountInv
    <2>. QED  BY <2>4, <2>5
  <1>. QED
    BY <1>4, <1>5, <1>6, <1>7, <1>8, <1>9, <1>10, <1>11, <1>12
       DEF MainStep, ForIdle, ExecuteBarrierTask

-----------------------------------------------------------------------------
(* Where the threads are, and what the reference and the loop counters hold. *)

ThreadInv == PlaceInv /\ MonitorInv /\ LeftInv

\* A worker moves, and may wake those at its barrier; the main thread waits or does not.
LEMMA WorkerKeeps ==
  ASSUME BaseInv, ThreadInv, NEW w \in Workers, pc'[Main] = pc[Main], pc'[w] \in WorkerStates,
         pc'[w] \in {"none", "parked"} => job'[w] = None,
         \A x \in Workers \ {w} :
           job'[x] = job[x] /\ (pc'[x] = pc[x] \/ pc'[x] \in {"caught", "released"}),
         monitor' = monitor \/ monitor' = None, current' = current,
         left' = left \/ (left' = [left EXCEPT ![w] = left'[w]] /\ left'[w] <= CorePoolSize)
  PROVE  ThreadInv'
  <1>1. PlaceInv'
    BY DEF ThreadInv, PlaceInv, WorkerStates, BusyStates, BarrierStates, CountedStates
  <1>2. MonitorInv'
    BY DEF ThreadInv, MonitorInv
  <1>3. LeftInv'
    BY DEF ThreadInv, LeftInv, BaseInv, TypeOK, DataOK
  <1>. QED  BY <1>1, <1>2, <1>3 DEF ThreadInv

\* The main thread moves, and may wake those at its barrier.
LEMMA MainGoes ==
  ASSUME BaseInv, ThreadInv, pc'[Main] \in MainStates \ {"recursive"}, UNCHANGED job,
         \A x \in Workers : pc'[x] = pc[x] \/ pc'[x] = "caught",
         \/ monitor' = None
         \/ UNCHANGED <<monitor, current>> /\ pc[Main] \notin ForIdleStates \cup {"wait", "cancel"}
         \/ monitor' \in {monitor, current'} /\ pc'[Main] \in ForIdleStates \cup {"wait", "cancel"}
              /\ (monitor' = monitor => current' = current),
         left' = left \/ (left' = [left EXCEPT ![Main] = left'[Main]] /\ left'[Main] <= CorePoolSize)
  PROVE  ThreadInv'
  <1>1. PlaceInv'
    BY DEF ThreadInv, PlaceInv, WorkerStates, BusyStates, BarrierStates, CountedStates
  <1>2. MonitorInv'
    BY DEF ThreadInv, MonitorInv
  <1>3. LeftInv'
    BY WorkersAreThreads DEF ThreadInv, LeftInv, BaseInv, TypeOK, DataOK
  <1>. QED  BY <1>1, <1>2, <1>3 DEF ThreadInv

\* The new worker, if any, is claimed and holds the task.
LEMMA ExecuteThreads ==
  ASSUME BaseInv, ThreadInv, NEW j \in Jobs, Execute(j, pc), UNCHANGED <<monitor, current>>
  PROVE  PlaceInv' /\ MonitorInv'
  <1>1. CASE \E w \in Workers : /\ pc[w] = "none" /\ pc' = [pc EXCEPT ![w] = "claimed"]
                                /\ job' = [job EXCEPT ![w] = j] /\ UNCHANGED queue
    <2>1. PICK w \in Workers : pc' = [pc EXCEPT ![w] = "claimed"] /\ job' = [job EXCEPT ![w] = j]
      BY <1>1
    <2>2. /\ pc'[w] = "claimed" /\ pc'[Main] = pc[Main]
          /\ \A x \in Workers \ {w} : pc'[x] = pc[x] /\ job'[x] = job[x]
      BY <2>1, WorkersAreThreads DEF BaseInv, TypeOK, DataOK
    <2>3. PlaceInv'
      BY <2>2 DEF ThreadInv, PlaceInv, WorkerStates
    <2>4. MonitorInv'
      BY <2>2 DEF ThreadInv, MonitorInv
    <2>. QED  BY <2>3, <2>4
  <1>2. CASE pc' = pc /\ UNCHANGED job
    BY <1>2 DEF ThreadInv, PlaceInv, MonitorInv
  <1>. QED  BY <1>1, <1>2 DEF Execute

\* A worker's steps outside the barrier action keep the threads in place.
LEMMA WorkerThreads ==
  ASSUME BaseInv, ThreadInv, NEW w \in Workers,
         PoolWorker(w) \/ KeepAliveEnds(w) \/ BarrierTask(w) \/ Interrupt(w)
  PROVE  ThreadInv'
  <1>1. w \in Threads /\ w # Main
    BY WorkersAreThreads
  <1>2. pc \in [Threads -> States] /\ job \in [Workers -> Jobs \cup {None}]
    BY DEF BaseInv, TypeOK, DataOK
  <1>3. CASE PoolWorker(w) \/ KeepAliveEnds(w)
    <2>1. /\ pc'[w] \in {"claimed", "none", "run", "check", "done", "parked"}
          /\ \A x \in Threads \ {w} : pc'[x] = pc[x]
      BY <1>1, <1>2, <1>3 DEF PoolWorker, KeepAliveEnds, Take, Lock, FinishTask, Unlock, Goto
    <2>2. UNCHANGED <<monitor, current, left>> /\ \A x \in Workers \ {w} : job'[x] = job[x]
      BY <1>2, <1>3 DEF PoolWorker, KeepAliveEnds, Take, Lock, FinishTask, Unlock
    <2>3. pc'[w] \in {"none", "parked"} => job'[w] = None
      BY <1>1, <1>2, <1>3
         DEF PoolWorker, KeepAliveEnds, Take, Lock, FinishTask, Unlock, Goto, ThreadInv, PlaceInv
    <2>4. pc'[w] \in WorkerStates /\ pc'[Main] = pc[Main] /\ \A x \in Workers \ {w} : pc'[x] = pc[x]
      BY <1>1, <2>1, WorkersAreThreads DEF WorkerStates, BusyStates, BarrierStates
    <2>. QED  BY <2>2, <2>3, <2>4, WorkerKeeps
  <1>4. CASE BarrierTask(w)
    <2>1. UNCHANGED <<monitor, current, left, job>>
      BY <1>4 DEF BarrierTask, CheckPoisoned, CountCheck, ReadGeneration, Await, BarrierTripped,
                  Restart, RestartReset, ResetBarrier, UncountCheck
    <2>2. \/ \E from, to : Goto(w, from, to) /\ to \in BarrierStates \cup {"done"}
          \/ \E to \in {"caught", "decrement"} : Wake(job[w], w, to, "caught")
      BY <1>4 DEF BarrierTask, CheckPoisoned, CountCheck, ReadGeneration, Await, BarrierTripped,
                  Restart, RestartReset, ResetBarrier, UncountCheck, BarrierStates, CountedStates,
                  ActionStates, ForIdleStates
    <2>3. CASE \E from, to : Goto(w, from, to) /\ to \in BarrierStates \cup {"done"}
      <3>1. pc'[w] \in BarrierStates \cup {"done"} /\ \A x \in Threads \ {w} : pc'[x] = pc[x]
        BY <1>1, <1>2, <2>3 DEF Goto
      <3>2. pc'[Main] = pc[Main] /\ \A x \in Workers \ {w} : pc'[x] = pc[x]
        BY <1>1, <3>1, WorkersAreThreads
      <3>3. pc'[w] \in WorkerStates /\ pc'[w] \notin {"none", "parked"}
        BY <3>1 DEF WorkerStates, BusyStates, BarrierStates, CountedStates, ActionStates, ForIdleStates
      <3>. QED  BY <2>1, <3>2, <3>3, WorkerKeeps
    <2>4. CASE \E to \in {"caught", "decrement"} : Wake(job[w], w, to, "caught")
      <3>1. PICK to \in {"caught", "decrement"} : Wake(job[w], w, to, "caught")
        BY <2>4
      <3>2. /\ pc'[w] = to /\ pc'[Main] = pc[Main]
            /\ \A x \in Workers \ {w} : pc'[x] = pc[x] \/ pc'[x] = "caught"
        <4>1. /\ pc'[w] = to /\ pc'[Main] = pc[Main]
              /\ \A x \in Threads \ {w} : pc'[x] = IF x \in Waiting(job[w]) THEN "caught" ELSE pc[x]
          BY <1>1, <3>1, WakeMoves
        <4>. QED  BY <4>1, WorkersAreThreads
      <3>3. pc'[w] \in WorkerStates /\ pc'[w] \notin {"none", "parked"}
        BY <3>2 DEF WorkerStates, BusyStates, BarrierStates, CountedStates
      <3>. QED  BY <2>1, <3>2, <3>3, WorkerKeeps
    <2>. QED  BY <2>2, <2>3, <2>4
  <1>5. CASE Interrupt(w)
    <2>1. UNCHANGED <<monitor, current, left, job>> /\ pc[w] \in BarrierStates
      BY <1>5 DEF Interrupt
    <2>2. /\ pc'[w] \in BarrierStates /\ pc'[Main] = pc[Main]
          /\ \A x \in Workers \ {w} : pc'[x] = pc[x] \/ pc'[x] = "caught"
      <3>1. CASE UNCHANGED pc
        BY <2>1, <3>1
      <3>2. CASE Wake(job[w], w, "caught", "caught")
        <4>1. /\ pc'[w] = "caught" /\ pc'[Main] = pc[Main]
              /\ \A x \in Threads \ {w} : pc'[x] = IF x \in Waiting(job[w]) THEN "caught" ELSE pc[x]
          BY <1>1, <3>2, WakeMoves
        <4>. QED  BY <4>1, WorkersAreThreads DEF BarrierStates, CountedStates
      <3>. QED  BY <1>5, <3>1, <3>2 DEF Interrupt
    <2>3. pc'[w] \in WorkerStates /\ pc'[w] \notin {"none", "parked"}
      BY <2>2 DEF WorkerStates, BusyStates, BarrierStates, CountedStates, ActionStates, ForIdleStates
    <2>. QED  BY <2>1, <2>2, <2>3, WorkerKeeps
  <1>. QED  BY <1>3, <1>4, <1>5

\* A step of monitorForIdle on a worker keeps the threads in place.
LEMMA ActionThreads ==
  ASSUME BaseInv, ThreadInv, NEW w \in Workers, ForIdle(w)
  PROVE  ThreadInv'
  <1>1. w \in Threads /\ w # Main /\ CorePoolSize \in Nat
    BY WorkersAreThreads, PoolSizes
  <1>2. /\ pc \in [Threads -> States] /\ job \in [Workers -> Jobs \cup {None}]
        /\ left \in [Threads -> Nat] /\ left[w] <= CorePoolSize
    BY <1>1 DEF BaseInv, TypeOK, DataOK, ThreadInv, LeftInv
  <1>3. CASE /\ pc'[w] \in ForIdleStates /\ \A x \in Threads \ {w} : pc'[x] = pc[x]
             /\ UNCHANGED <<current, job>> /\ monitor' \in {monitor, None}
             /\ left' = left \/ left' = [left EXCEPT ![w] = CorePoolSize]
    <2>1. pc'[w] \in WorkerStates /\ pc'[w] \notin {"none", "parked"}
      BY <1>3 DEF WorkerStates, BusyStates, BarrierStates, CountedStates, ActionStates, ForIdleStates
    <2>2. pc'[Main] = pc[Main] /\ \A x \in Workers \ {w} : pc'[x] = pc[x]
      BY <1>1, <1>3, WorkersAreThreads
    <2>3. left' = left \/ (left' = [left EXCEPT ![w] = left'[w]] /\ left'[w] <= CorePoolSize)
      BY <1>1, <1>2, <1>3
    <2>. QED  BY <1>3, <2>1, <2>2, <2>3, WorkerKeeps
  <1>4. CASE Return(w) /\ UNCHANGED <<monitor, current, left, job>>
    <2>1. Wake(job[w], w, "released", "released")
      BY <1>1, <1>4 DEF Return
    <2>2. /\ pc'[w] = "released" /\ pc'[Main] = pc[Main]
          /\ \A x \in Workers \ {w} : pc'[x] = pc[x] \/ pc'[x] = "released"
      <3>1. /\ pc'[w] = "released" /\ pc'[Main] = pc[Main]
            /\ \A x \in Threads \ {w} : pc'[x] = IF x \in Waiting(job[w]) THEN "released" ELSE pc[x]
        BY <1>1, <2>1, WakeMoves
      <3>. QED  BY <3>1, WorkersAreThreads
    <2>3. pc'[w] \in WorkerStates /\ pc'[w] \notin {"none", "parked"}
      BY <2>2 DEF WorkerStates, BusyStates, BarrierStates, CountedStates
    <2>. QED  BY <1>4, <2>2, <2>3, WorkerKeeps
  <1>5. CASE IsIdleNow(w)
    <2>1. UNCHANGED <<monitor, current, job, left>>
      BY <1>5 DEF IsIdleNow
    <2>2. /\ \A x \in Threads \ {w} : pc'[x] = pc[x]
          /\ \/ pc[w] \in IdleStates
             \/ pc'[w] \in {"m.active", "m.monitor", "m.checks", "m.clear", "m.execute"}
      BY <1>1, <1>5, IsIdleNowMoves
    <2>3. pc[w] \notin IdleStates
      BY DEF ThreadInv, PlaceInv, WorkerStates, BusyStates, BarrierStates, CountedStates, ActionStates,
             ForIdleStates, IdleStates
    <2>. QED  BY <1>3, <2>1, <2>2, <2>3 DEF ForIdleStates
  <1>6. CASE MonitorForIdle(w)
    <2>1. UNCHANGED <<monitor, current, job>>
      BY <1>6 DEF MonitorForIdle
    <2>2. CASE Return(w) /\ UNCHANGED left
      BY <1>4, <2>1, <2>2
    <2>3. CASE Goto(w, "m.poisoned", "m.queue") /\ left' = [left EXCEPT ![w] = CorePoolSize]
      BY <1>1, <1>2, <1>3, <2>1, <2>3 DEF Goto, ForIdleStates
    <2>. QED  BY <1>6, <2>2, <2>3 DEF MonitorForIdle
  <1>7. CASE ClearMonitor(w)
    BY <1>1, <1>2, <1>3, <1>7 DEF ClearMonitor, Goto, ForIdleStates
  <1>8. CASE OnIdle(w)
    BY <1>4, <1>8 DEF OnIdle
  <1>9. CASE ExecuteBarrierTask(w) /\ left[w] = 0
    BY <1>4, <1>9 DEF ExecuteBarrierTask
  <1>10. CASE ExecuteBarrierTask(w) /\ left[w] # 0
    <2>1. /\ UNCHANGED <<monitor, current>> /\ pc[w] = "m.execute" /\ Execute(job[w], pc)
          /\ left' = [left EXCEPT ![w] = @ - 1]
      BY <1>1, <1>10 DEF ExecuteBarrierTask, MonitorOf
    <2>2. job[w] \in Jobs
      BY <2>1, BarrierJob DEF BarrierStates, CountedStates, ActionStates, ForIdleStates, Jobs
    <2>3. LeftInv'
      BY <1>1, <1>2, <2>1 DEF ThreadInv, LeftInv
    <2>. QED  BY <2>1, <2>2, <2>3, ExecuteThreads DEF ThreadInv
  <1>. QED  BY <1>5, <1>6, <1>7, <1>8, <1>9, <1>10 DEF ForIdle

\* A step of the main thread keeps the threads in place: it registers its monitor where
\* none is, and takes it away before it asks again.
LEMMA MainThreads ==
  ASSUME BaseInv, ThreadInv, MainStep
  PROVE  ThreadInv'
  <1>1. Main \in Threads /\ Main \notin Workers /\ Workers \subseteq Threads /\ CorePoolSize \in Nat
    BY WorkersAreThreads, PoolSizes
  <1>2. /\ pc \in [Threads -> States] /\ left \in [Threads -> Nat] /\ left[Main] <= CorePoolSize
        /\ current \in Nat
    BY <1>1, PoolAssumption DEF BaseInv, TypeOK, DataOK, ThreadInv, LeftInv, Monitors
  <1>3. pc[Main] \notin ForIdleStates \cup {"wait", "cancel"} => monitor = None
    BY DEF ThreadInv, MonitorInv
  <1>4. CASE CallIsIdleNow \/ NoMoreMonitors \/ StopWaiting \/ CancelIdleMonitor \/ Poison
    <2>1. UNCHANGED <<job, left, current>>
      BY <1>4 DEF CallIsIdleNow, NoMoreMonitors, StopWaiting, CancelIdleMonitor, Poison
    <2>2. /\ pc'[Main] \in {"idle.queue", "free", "cancel", "poison", "reset"}
          /\ \A x \in Threads \ {Main} : pc'[x] = pc[x]
      BY <1>1, <1>2, <1>4 DEF Goto, CallIsIdleNow, NoMoreMonitors, StopWaiting, CancelIdleMonitor, Poison
    <2>3. monitor' = None \/ (monitor' = monitor /\ pc'[Main] = "cancel")
      <3>1. CASE StopWaiting
        BY <1>1, <1>2, <3>1 DEF StopWaiting, Goto
      <3>2. CASE CancelIdleMonitor
        BY <3>2 DEF CancelIdleMonitor
      <3>3. CASE CallIsIdleNow \/ NoMoreMonitors \/ Poison
        BY <1>3, <3>3 DEF CallIsIdleNow, NoMoreMonitors, Poison, Goto, ForIdleStates
      <3>. QED  BY <1>4, <3>1, <3>2, <3>3
    <2>4. pc'[Main] \in MainStates \ {"recursive"} /\ \A x \in Workers : pc'[x] = pc[x]
      BY <1>1, <2>2 DEF MainStates, IdleStates
    <2>. QED  BY <2>1, <2>3, <2>4, MainGoes
  <1>5. CASE PoisonReset
    <2>1. /\ pc[Main] = "reset" /\ UNCHANGED <<job, left, current, monitor>>
          /\ Wake(current, Main, "free", "caught")
      BY <1>5 DEF PoisonReset, ResetBarrier
    <2>2. /\ pc'[Main] = "free"
          /\ \A x \in Threads \ {Main} : pc'[x] = IF x \in Waiting(current) THEN "caught" ELSE pc[x]
      BY <1>1, <2>1, WakeMoves
    <2>3. \A x \in Workers : pc'[x] = pc[x] \/ pc'[x] = "caught"
      BY <1>1, <2>2
    <2>4. monitor' = None /\ pc'[Main] \in MainStates \ {"recursive"}
      BY <1>3, <2>1, <2>2 DEF ForIdleStates, MainStates
    <2>. QED  BY <2>1, <2>3, <2>4, MainGoes
  <1>6. CASE NotifyWhenIdle
    <2>1. pc[Main] = "notify" /\ monitor = None
      BY <1>3, <1>6 DEF NotifyWhenIdle, Goto, ForIdleStates
    <2>2. /\ current' = current + 1 /\ monitor' = current' /\ UNCHANGED <<job, left>>
          /\ pc'[Main] = "m.poisoned" /\ \A x \in Threads \ {Main} : pc'[x] = pc[x]
      BY <1>1, <1>2, <1>6, <2>1 DEF NotifyWhenIdle, Goto
    <2>3. pc'[Main] \in ForIdleStates /\ pc'[Main] \in MainStates \ {"recursive"}
      BY <2>2 DEF ForIdleStates, MainStates
    <2>4. monitor' # monitor /\ \A x \in Workers : pc'[x] = pc[x]
      BY <1>1, <1>2, <2>1, <2>2
    <2>. QED  BY <2>2, <2>3, <2>4, MainGoes
  <1>7. CASE /\ pc'[Main] \in ForIdleStates \cup {"wait", "cancel"} /\ UNCHANGED <<job, current>>
             /\ monitor' \in {monitor, None} /\ \A x \in Threads \ {Main} : pc'[x] = pc[x]
             /\ left' = left \/ left' = [left EXCEPT ![Main] = CorePoolSize]
    <2>1. pc'[Main] \in MainStates \ {"recursive"} /\ \A x \in Workers : pc'[x] = pc[x]
      BY <1>1, <1>7 DEF MainStates, ForIdleStates
    <2>2. left' = left \/ (left' = [left EXCEPT ![Main] = left'[Main]] /\ left'[Main] <= CorePoolSize)
      BY <1>1, <1>2, <1>7
    <2>. QED  BY <1>7, <2>1, <2>2, MainGoes
  <1>8. CASE IsIdleNow(Main)
    <2>1. UNCHANGED <<monitor, current, job, left>>
      BY <1>8 DEF IsIdleNow
    <2>2. /\ \A x \in Threads \ {Main} : pc'[x] = pc[x]
          /\ \/ pc[Main] \in IdleStates /\ pc'[Main] \in IdleStates \cup {"free", "notify"}
             \/ pc'[Main] \in {"m.active", "m.monitor", "m.checks", "m.clear", "m.execute"}
      BY <1>1, <1>8, IsIdleNowMoves
    <2>3. CASE pc[Main] \in IdleStates /\ pc'[Main] \in IdleStates \cup {"free", "notify"}
      <3>1. monitor' = None
        BY <1>3, <2>1, <2>3 DEF IdleStates, ForIdleStates
      <3>2. pc'[Main] \in MainStates \ {"recursive"} /\ \A x \in Workers : pc'[x] = pc[x]
        BY <1>1, <2>2, <2>3 DEF MainStates, IdleStates
      <3>. QED  BY <2>1, <3>1, <3>2, MainGoes
    <2>. QED  BY <1>7, <2>1, <2>2, <2>3 DEF ForIdleStates
  <1>9. CASE Return(Main) /\ UNCHANGED <<monitor, current, left, job>>
    BY <1>1, <1>2, <1>7, <1>9 DEF Return
  <1>10. CASE MonitorForIdle(Main)
    <2>1. UNCHANGED <<monitor, current, job>>
      BY <1>10 DEF MonitorForIdle
    <2>2. CASE Return(Main) /\ UNCHANGED left
      BY <1>9, <2>1, <2>2
    <2>3. CASE Goto(Main, "m.poisoned", "m.queue") /\ left' = [left EXCEPT ![Main] = CorePoolSize]
      BY <1>1, <1>2, <1>7, <2>1, <2>3 DEF Goto, ForIdleStates
    <2>. QED  BY <1>10, <2>2, <2>3 DEF MonitorForIdle
  <1>11. CASE ClearMonitor(Main)
    BY <1>1, <1>2, <1>7, <1>11 DEF ClearMonitor, Goto, ForIdleStates
  <1>12. CASE OnIdle(Main)
    BY <1>9, <1>12 DEF OnIdle
  <1>13. CASE ExecuteBarrierTask(Main) /\ left[Main] = 0
    BY <1>9, <1>13 DEF ExecuteBarrierTask
  <1>14. CASE ExecuteBarrierTask(Main) /\ left[Main] # 0
    <2>1. /\ UNCHANGED <<monitor, current>> /\ pc[Main] = "m.execute" /\ Execute(current, pc)
          /\ left' = [left EXCEPT ![Main] = @ - 1]
      BY <1>14 DEF ExecuteBarrierTask, MonitorOf
    <2>2. current \in Jobs
      BY <2>1 DEF Jobs, BaseInv, MainInv, ForIdleStates, TypeOK, DataOK
    <2>3. LeftInv'
      BY <1>1, <1>2, <2>1 DEF ThreadInv, LeftInv
    <2>. QED  BY <2>1, <2>2, <2>3, ExecuteThreads DEF ThreadInv
  <1>. QED
    BY <1>4, <1>5, <1>6, <1>8, <1>10, <1>11, <1>12, <1>13, <1>14
       DEF MainStep, ForIdle, ExecuteBarrierTask

\* The program starts with no monitor, and no task of one.
LEMMA InitCall == Init => CallInv
  <1>. SUFFICES ASSUME Init PROVE CallInv
    OBVIOUS
  <1>1. BaseInv /\ CorePoolSize \in Nat \ {0}
    BY InitBase, PoolSizes
  <1>2. PlaceInv
    BY WorkersAreThreads DEF Init, PlaceInv, MainStates, WorkerStates
  <1>3. MonitorInv /\ LeftInv
    BY <1>1 DEF Init, MonitorInv, LeftInv
  <1>4. ASSUME NEW m \in Monitors PROVE CountInv(m)
    <2>1. m # 0
      BY DEF Monitors
    <2>2. Places(queue, m) = {} /\ Live(m) = {} /\ Acts(m) = {}
      BY <2>1 DEF Init, Places, Live, Acts
    <2>3. Count(m) = 0
      BY <2>2, FS_EmptySet DEF Count
    <2>4. ToCome(m) = 0 /\ fired[m] = 0 /\ pc[Main] \notin Unfired
      BY WorkersAreThreads DEF Init, ToCome, Unfired, ForIdleStates
    <2>. QED  BY <1>1, <2>2, <2>3, <2>4 DEF CountInv
  <1>. QED  BY <1>1, <1>2, <1>3, <1>4 DEF CallInv

\* Every step keeps the invariant.
LEMMA NextCall == CallInv /\ [Next]_vars => CallInv'
  <1>. SUFFICES ASSUME CallInv, [Next]_vars PROVE CallInv'
    OBVIOUS
  <1>1. BaseInv' /\ BaseInv /\ ThreadInv /\ PlaceInv /\ MonitorInv /\ LeftInv
    BY NextBase DEF CallInv, ThreadInv
  <1>2. \A m \in Monitors : CountInv(m)
    BY DEF CallInv
  <1>3. ASSUME ThreadInv', \A m \in Monitors : CountInv(m)' PROVE CallInv'
    BY <1>1, <1>3 DEF CallInv, ThreadInv
  <1>4. CASE UNCHANGED vars
    <2>1. PlaceInv' /\ MonitorInv' /\ LeftInv'
      BY <1>1, <1>4 DEF vars, PlaceInv, MonitorInv, LeftInv
    <2>2. ASSUME NEW m \in Monitors PROVE CountInv(m)'
      BY <1>1, <1>2, <1>4, CountMoves DEF vars, MainQuiet
    <2>. QED  BY <1>3, <2>1, <2>2 DEF ThreadInv
  <1>5. CASE MainStep
    BY <1>1, <1>2, <1>3, <1>5, MainThreads, MainCount
  <1>6. ASSUME NEW w \in Workers, WorkerStep(w) \/ KeepAliveEnds(w) \/ Interrupt(w) PROVE CallInv'
    <2>1. CASE ForIdle(w)
      BY <1>1, <1>2, <1>3, <2>1, ActionThreads, ActionCount
    <2>2. CASE PoolWorker(w) \/ KeepAliveEnds(w)
      BY <1>1, <1>2, <1>3, <2>2, WorkerThreads, PoolCount
    <2>3. CASE BarrierTask(w) \/ Interrupt(w)
      BY <1>1, <1>2, <1>3, <2>3, WorkerThreads, BarrierTaskCount
    <2>. QED  BY <1>6, <2>1, <2>2, <2>3 DEF WorkerStep
  <1>7. ASSUME NEW t \in Tasks, Submit(t) PROVE CallInv'
    <2>1. UNCHANGED <<monitor, current, fired, left>> /\ Execute(t, pc) /\ t \in Jobs
      BY <1>7 DEF Submit, Jobs
    <2>2. ThreadInv'
      BY <1>1, <2>1, ExecuteThreads DEF ThreadInv, LeftInv
    <2>3. ASSUME NEW m \in Monitors PROVE CountInv(m)'
      <3>1. m # t
        BY JobsAssumption
      <3>. QED  BY <1>1, <1>2, <2>1, <3>1, ExecuteOther
    <2>. QED  BY <1>3, <2>2, <2>3
  <1>. QED  BY <1>4, <1>5, <1>6, <1>7 DEF Next, Environment

-----------------------------------------------------------------------------
\* notifyWhenIdle finds no monitor in place, in any pool: its checkState ("cannot monitor
\* for idle recursively!") never fails in Espresso's loop.
THEOREM MonitorsOneAtATime == Spec => []NeverRecursive
  <1>1. CallInv => NeverRecursive
    BY DEF CallInv, PlaceInv, NeverRecursive
  <1>. QED  BY InitCall, NextCall, <1>1, PTL DEF Spec

\* When the callback has run, no barrier task of its monitor is left in the pool, in any
\* pool: every task that monitorForIdle submitted has passed the barrier, or was never
\* submitted.
THEOREM CallbackLeavesNoTask == Spec => []NoLeftoverBarrierTasks
  <1>1. ASSUME CallInv PROVE NoLeftoverBarrierTasks
    <2>. SUFFICES ASSUME NEW m \in Monitors, fired[m] > 0
                  PROVE  /\ \A i \in DOMAIN queue : queue[i] # m
                         /\ \A w \in Workers : job[w] = m => pc[w] \in {"released", "done"}
      BY DEF NoLeftoverBarrierTasks
    <2>1. BaseInv /\ CountInv(m) /\ Counts(m)
      BY <1>1, CountIsNat DEF CallInv
    <2>2. fired[m] = 1
      BY <2>1 DEF CountInv, BaseInv, TypeOK, DataOK
    <2>3. Count(m) = 0
      BY <2>1, <2>2 DEF CountInv, Counts
    <2>4. Places(queue, m) = {} /\ Live(m) = {}
      BY <2>1, <2>3, FS_EmptySet DEF Count, Counts
    <2>5. DOMAIN queue = 1 .. Len(queue)
      BY <2>1, LenProperties DEF BaseInv, TypeOK, DataOK
    <2>. QED  BY <2>4, <2>5 DEF Places, Live
  <1>. QED  BY InitCall, NextCall, <1>1, PTL DEF Spec

-----------------------------------------------------------------------------
(* The monitor implements IdleNotifier.                                    *)

\* The main thread has a callback registered from notifyWhenIdle to the cancel, until it runs.
Watching == ForIdleStates \cup {"wait", "cancel"}
Shown    == IF pc[Main] \in Watching /\ fired[current] = 0 THEN current ELSE None

\* This is what the mapping shows of a state.
LEMMA NotifierShows == Notifier!vars = <<current, Shown, fired>>
  BY DEF Notifier!vars, Shown, Watching

\* A state shown as another one needs the same monitor, callbacks and side of the wait.
LEMMA ShownStays ==
  ASSUME UNCHANGED <<current, fired>>, pc'[Main] \in Watching <=> pc[Main] \in Watching
  PROVE  UNCHANGED (Notifier!vars)
  <1>1. Shown' = Shown
    BY DEF Shown
  <1>2. UNCHANGED (Notifier!vars) <=> UNCHANGED <<current, Shown, fired>>
    BY DEF Notifier!vars, Shown, Watching
  <1>. QED  BY <1>1, <1>2

\* A submitted task moves one worker at most.
LEMMA ExecuteLeavesMain ==
  ASSUME BaseInv, NEW j, Execute(j, pc)
  PROVE  pc'[Main] = pc[Main]
  <1>1. pc' = pc \/ \E w \in Workers : pc' = [pc EXCEPT ![w] = "claimed"]
    BY DEF Execute
  <1>. QED  BY <1>1, WorkersAreThreads DEF BaseInv, TypeOK

\* A worker moves workers, and calls back in OnIdle alone.
LEMMA WorkerLeavesMain ==
  ASSUME BaseInv, NEW w \in Workers, WorkerStep(w) \/ KeepAliveEnds(w) \/ Interrupt(w)
  PROVE  pc'[Main] = pc[Main] /\ UNCHANGED current /\ (UNCHANGED fired \/ OnIdle(w))
  <1>1. UNCHANGED current /\ (UNCHANGED fired \/ OnIdle(w))
    <2>1. CASE PoolWorker(w) \/ KeepAliveEnds(w)
      BY <2>1 DEF PoolWorker, Take, Lock, FinishTask, Unlock, KeepAliveEnds
    <2>2. CASE BarrierTask(w) \/ Interrupt(w)
      BY <2>2 DEF BarrierTask, CheckPoisoned, CountCheck, ReadGeneration, Await, BarrierTripped, Restart,
                  RestartReset, ResetBarrier, UncountCheck, Interrupt
    <2>3. CASE ForIdle(w) /\ ~OnIdle(w)
      BY <2>3 DEF ForIdle, IsIdleNow, MonitorForIdle, ClearMonitor, ExecuteBarrierTask
    <2>4. CASE OnIdle(w)
      BY <2>4 DEF OnIdle
    <2>. QED  BY <2>1, <2>2, <2>3, <2>4 DEF WorkerStep
  <1>2. w \in Threads /\ w # Main
    BY WorkersAreThreads
  <1>3. ASSUME \E from, to : Goto(w, from, to) PROVE pc'[Main] = pc[Main]
    BY <1>2, <1>3, WorkersAreThreads DEF Goto, BaseInv, TypeOK
  <1>4. ASSUME \E to, woken : Wake(job[w], w, to, woken) PROVE pc'[Main] = pc[Main]
    BY <1>2, <1>4, WakeMoves
  <1>5. ASSUME Execute(MonitorOf(w), pc) PROVE pc'[Main] = pc[Main]
    BY <1>5, ExecuteLeavesMain
  <1>6. PoolWorker(w) \/ KeepAliveEnds(w) => \E from, to : Goto(w, from, to)
    BY DEF PoolWorker, Take, Lock, FinishTask, Unlock, KeepAliveEnds
  <1>7. \/ ~BarrierTask(w)
        \/ \E from, to : Goto(w, from, to)
        \/ \E to, woken : Wake(job[w], w, to, woken)
    BY DEF BarrierTask, CheckPoisoned, CountCheck, ReadGeneration, Await, BarrierTripped, Restart,
           RestartReset, ResetBarrier, UncountCheck
  <1>8. \/ ~ForIdle(w)
        \/ \A x \in Threads \ {w} : pc'[x] = pc[x]
        \/ \E from, to : Goto(w, from, to)
        \/ \E to, woken : Wake(job[w], w, to, woken)
        \/ Execute(MonitorOf(w), pc)
    BY <1>2, IsIdleNowMoves DEF ForIdle, MonitorForIdle, ClearMonitor, OnIdle, ExecuteBarrierTask, Return
  <1>9. Interrupt(w) => UNCHANGED pc \/ \E to, woken : Wake(job[w], w, to, woken)
    BY DEF Interrupt
  <1>. QED
    BY <1>1, <1>2, <1>3, <1>4, <1>5, <1>6, <1>7, <1>8, <1>9, WorkersAreThreads DEF WorkerStep

\* The callback, run by the main thread or by a worker, in time or late, runs for the first time.
LEMMA CallbackStep ==
  ASSUME CallInv, NEW t \in Threads, OnIdle(t)
  PROVE  Notifier!Next
  <1>. DEFINE m == MonitorOf(t)
  <1>1. /\ m \in Monitors /\ m <= current /\ fired \in [Monitors -> Nat] /\ BaseInv
        /\ pc[t] = "m.fire" /\ UNCHANGED current /\ fired' = [fired EXCEPT ![m] = @ + 1]
    BY MonitorKnown DEF OnIdle, CallInv, BaseInv, TypeOK, DataOK, ForIdleStates
  <1>2. current \in Nat /\ m \in 1 .. current /\ CountInv(m)
    BY <1>1, PoolAssumption DEF CallInv, BaseInv, TypeOK, DataOK, Monitors
  <1>3. fired[m] = 0
    <2>1. CASE t = Main
      BY <1>1, <1>2, <2>1 DEF MonitorOf, CountInv, Unfired, ForIdleStates
    <2>2. CASE t # Main
      <3>1. t \in Acts(m)
        BY <1>1, <2>2 DEF Threads, MonitorOf, Acts, ActionStates, ForIdleStates
      <3>. QED  BY <1>1, <1>2, <3>1, ActingCount
    <2>. QED  BY <2>1, <2>2
  <1>4. fired' = [fired EXCEPT ![m] = 1]
    BY <1>1, <1>3
  <1>5. Notifier!Run(m)
    BY <1>3, <1>4 DEF Notifier!Run
  <1>6. t = Main => pc[Main] \in Watching /\ m = current /\ pc'[Main] \in Watching
    BY <1>1, WorkersAreThreads DEF Watching, ForIdleStates, OnIdle, Return, MonitorOf, BaseInv, TypeOK
  <1>7. t # Main => pc'[Main] = pc[Main]
    BY <1>1, WakeMoves, WorkersAreThreads DEF OnIdle, Return
  <1>8. CASE Shown = m
    <2>1. pc[Main] \in Watching /\ m = current /\ m # None
      BY <1>1, <1>8 DEF Shown, Monitors
    <2>2. Shown' = None
      BY <1>1, <1>4, <2>1 DEF Shown
    <2>. QED  BY <1>1, <1>5, <1>8, <2>1, <2>2
            DEF Notifier!Next, Notifier!Callback, Notifier!None, Shown, Watching
  <1>9. CASE Shown # m
    <2>1. t # Main
      BY <1>3, <1>6, <1>9 DEF Shown
    <2>2. m = current => pc[Main] \notin Watching
      BY <1>3, <1>9 DEF Shown
    <2>3. pc[Main] \in Watching => current \in Monitors
      BY <1>1 DEF BaseInv, MainInv, TypeOK, DataOK, Watching
    <2>4. m # current /\ current \in Monitors => fired'[current] = fired[current]
      BY <1>1, <1>4
    <2>5. Shown' = Shown
      BY <1>1, <1>7, <2>1, <2>2, <2>3, <2>4 DEF Shown
    <2>. QED  BY <1>1, <1>2, <1>5, <1>9, <2>5
            DEF Notifier!Next, Notifier!LateCallback, Shown, Watching
  <1>. QED  BY <1>8, <1>9

\* A step of the main thread is a registration, a callback, a cancel or none of the three.
LEMMA MainImplements ==
  ASSUME CallInv, MainStep
  PROVE  [Notifier!Next]_(Notifier!vars)
  <1>1. /\ BaseInv /\ MonitorInv /\ Main \in Threads
        /\ pc \in [Threads -> States] /\ fired \in [Monitors -> Nat]
    BY WorkersAreThreads DEF CallInv, BaseInv, TypeOK, DataOK
  <1>2. CASE UNCHANGED <<current, fired>> /\ (pc'[Main] \in Watching <=> pc[Main] \in Watching)
    BY <1>2, ShownStays
  <1>3. CASE OnIdle(Main)
    BY <1>1, <1>3, CallbackStep
  <1>4. CASE NotifyWhenIdle
    <2>1. pc[Main] = "notify" /\ monitor = None /\ current < MaxMonitors /\ current' = current + 1
          /\ UNCHANGED fired /\ pc'[Main] = "m.poisoned"
      BY <1>1, <1>4 DEF NotifyWhenIdle, Goto, MonitorInv, ForIdleStates
    <2>2. current \in Nat /\ MaxMonitors \in Nat /\ current' \in Monitors
      BY <1>1, <2>1, PoolAssumption DEF BaseInv, TypeOK, DataOK, Monitors
    <2>3. fired[current'] = 0
      <3>1. CountInv(current')
        BY <2>2 DEF CallInv
      <3>. QED  BY <2>1, <2>2, <3>1 DEF CountInv
    <2>4. Shown = None /\ Shown' = current'
      BY <2>1, <2>3 DEF Shown, Watching, ForIdleStates
    <2>. QED  BY <2>1, <2>4 DEF Notifier!Next, Notifier!Register, Notifier!None, Shown, Watching
  <1>5. CASE CancelIdleMonitor
    <2>1. pc[Main] = "cancel" /\ pc'[Main] \in {"free", "poison"} /\ UNCHANGED <<current, fired>>
      BY <1>1, <1>5 DEF CancelIdleMonitor, Goto
    <2>2. Shown' = None
      BY <2>1 DEF Shown, Watching, ForIdleStates
    <2>3. CASE Shown = None
      BY <2>1, <2>2, <2>3 DEF Notifier!vars, Shown, Watching
    <2>4. CASE Shown # None
      BY <2>1, <2>2, <2>4 DEF Notifier!Next, Notifier!Cancel, Notifier!None, Shown, Watching
    <2>. QED  BY <2>3, <2>4
  <1>6. CASE CallIsIdleNow \/ NoMoreMonitors \/ StopWaiting \/ Poison
    <2>1. UNCHANGED <<current, fired>>
      BY <1>6 DEF CallIsIdleNow, NoMoreMonitors, StopWaiting, Poison
    <2>2. \/ pc[Main] \in {"free", "notify", "poison"} /\ pc'[Main] \in {"idle.queue", "free", "reset"}
          \/ pc[Main] = "wait" /\ pc'[Main] = "cancel"
      BY <1>1, <1>6 DEF CallIsIdleNow, NoMoreMonitors, StopWaiting, Poison, Goto
    <2>. QED  BY <1>2, <2>1, <2>2 DEF Watching, ForIdleStates
  <1>7. CASE PoisonReset
    <2>1. /\ pc[Main] = "reset" /\ UNCHANGED <<current, fired>>
          /\ Wake(current, Main, "free", "caught")
      BY <1>7 DEF PoisonReset, ResetBarrier
    <2>2. pc'[Main] = "free"
      BY <1>1, <2>1, WakeMoves
    <2>. QED  BY <1>2, <2>1, <2>2 DEF Watching, ForIdleStates
  <1>8. CASE IsIdleNow(Main)
    <2>1. /\ UNCHANGED <<current, fired>>
          /\ \/ pc[Main] \in IdleStates /\ pc'[Main] \in IdleStates \cup {"free", "notify"}
             \/ /\ pc[Main] \in {"m.queue", "m.active", "m.monitor", "m.checks"}
                /\ pc'[Main] \in {"m.active", "m.monitor", "m.checks", "m.clear", "m.execute"}
      BY <1>1, <1>8, IsIdleNowMoves
    <2>. QED  BY <1>2, <2>1 DEF Watching, ForIdleStates, IdleStates
  <1>9. CASE MonitorForIdle(Main) \/ ClearMonitor(Main) \/ ExecuteBarrierTask(Main)
    <2>1. UNCHANGED <<current, fired>> /\ pc[Main] \in ForIdleStates
      BY <1>9 DEF MonitorForIdle, ClearMonitor, ExecuteBarrierTask, Goto, ForIdleStates
    <2>2. \/ \E from : Goto(Main, from, "m.queue") \/ Goto(Main, from, "m.fire")
          \/ Return(Main)
          \/ Execute(MonitorOf(Main), pc)
      BY <1>9 DEF MonitorForIdle, ClearMonitor, ExecuteBarrierTask
    <2>3. pc'[Main] \in Watching
      <3>1. CASE Return(Main) \/ \E from : Goto(Main, from, "m.queue") \/ Goto(Main, from, "m.fire")
        BY <1>1, <3>1 DEF Return, Goto, Watching, ForIdleStates
      <3>2. CASE Execute(MonitorOf(Main), pc)
        BY <1>1, <2>1, <3>2, ExecuteLeavesMain DEF Watching
      <3>. QED  BY <2>2, <3>1, <3>2
    <2>. QED  BY <1>2, <2>1, <2>3 DEF Watching
  <1>. QED  BY <1>3, <1>4, <1>5, <1>6, <1>7, <1>8, <1>9 DEF MainStep, ForIdle

\* It begins as a notifier without a callback.
LEMMA InitImplements == Init => Notifier!Init
  BY WorkersAreThreads
     DEF Init, Notifier!Init, Notifier!None, Monitors, ForIdleStates

\* Every step is one of the notifier, or none.
LEMMA StepImplements == CallInv /\ [Next]_vars => [Notifier!Next]_(Notifier!vars)
  <1>. SUFFICES ASSUME CallInv, [Next]_vars PROVE [Notifier!Next]_(Notifier!vars)
    OBVIOUS
  <1>1. CASE UNCHANGED vars
    BY <1>1, ShownStays DEF vars
  <1>2. CASE MainStep
    BY <1>2, MainImplements
  <1>3. ASSUME NEW w \in Workers, WorkerStep(w) \/ KeepAliveEnds(w) \/ Interrupt(w)
        PROVE  [Notifier!Next]_(Notifier!vars)
    <2>1. pc'[Main] = pc[Main] /\ UNCHANGED current /\ (UNCHANGED fired \/ OnIdle(w))
      BY <1>3, WorkerLeavesMain DEF CallInv
    <2>. QED  BY <2>1, ShownStays, CallbackStep, WorkersAreThreads
  <1>4. ASSUME NEW t \in Tasks, Submit(t) PROVE [Notifier!Next]_(Notifier!vars)
    BY <1>4, ExecuteLeavesMain, ShownStays DEF Submit, CallInv
  <1>. QED  BY <1>1, <1>2, <1>3, <1>4 DEF Next, Environment

\* The monitor is an IdleNotifier in any pool: each notifyWhenIdle registers over no other
\* callback, and its callback runs once at most, in time or after the cancel.
THEOREM MonitorImplementsNotifier == Spec => ImplementsIdleNotifier
  BY InitCall, NextCall, InitImplements, StepImplements, PTL
     DEF Spec, ImplementsIdleNotifier, Notifier!Spec

=============================================================================
