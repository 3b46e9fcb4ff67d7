-------------------------- MODULE MapUpdater_proofs --------------------------
(* Theorems about MapUpdater.tla, for any maps, workers and queue capacity.    *)
EXTENDS MapUpdater, FiniteSetTheorems, TLAPS

(* The busy workers can be counted, and counting them tells if there are any.  *)
LEMMA BusyCount ==
    /\ IsFiniteSet(Busy)
    /\ Cardinality(Busy) \in Nat
    /\ Cardinality(Busy) = 0 <=> Busy = {}
<1>1. IsFiniteSet(Busy)
    BY ThreadAssumption, FS_Subset DEF Busy
<1> QED
    BY <1>1, FS_CardinalityType, FS_EmptySet

(* A worker that takes a request makes the count of busy workers one         *)
(* greater.                                                                  *)
LEMMA BusyTakesOne ==
    ASSUME TypeOK, NEW w \in Worker, NEW m \in Map, updating[w] = NoMap,
           updating' = [updating EXCEPT ![w] = m]
    PROVE  Cardinality(Busy') = Cardinality(Busy) + 1
<1>1. Busy' = Busy \union {w} /\ w \notin Busy
    BY MapAssumption DEF Busy, TypeOK, Thread
<1> QED
    BY <1>1, BusyCount, FS_AddElement

(* A worker that ends its update makes that count one smaller.               *)
LEMMA BusyEndsOne ==
    ASSUME TypeOK, NEW w \in Worker, updating[w] # NoMap,
           updating' = [updating EXCEPT ![w] = NoMap]
    PROVE  /\ Cardinality(Busy') = Cardinality(Busy) - 1
           /\ Cardinality(Busy) > 0
<1>1. Busy' = Busy \ {w} /\ w \in Busy
    BY DEF Busy, TypeOK, Thread
<1> QED
    BY <1>1, BusyCount, FS_RemoveElement

(* Steps that change no update in progress leave the busy workers alone.     *)
LEMMA BusySame ==
    ASSUME updating' = updating
    PROVE  Busy' = Busy
BY DEF Busy

(* When no worker updates a map, none is busy.                               *)
LEMMA BusyWithoutWorld ==
    ASSUME TypeOK, NEW m, updating' = [updating EXCEPT ![World] = m]
    PROVE  Busy' = Busy
BY ThreadAssumption DEF Busy, TypeOK, Thread

-----------------------------------------------------------------------------
(* The counter, the mutex and the world thread agree at the beginning.       *)
LEMMA InitBarrier == Init => Barrier
<1> SUFFICES ASSUME Init PROVE Barrier
    OBVIOUS
<1>1. TypeOK
    BY MapAssumption, ThreadAssumption DEF Init, TypeOK
<1>2. Busy = {}
    BY DEF Init, Busy, Thread
<1>3. PendingIsExact
    BY <1>2, FS_EmptySet, ThreadAssumption DEF Init, PendingIsExact, LockFree
<1> QED
    BY <1>1, <1>3, MapAssumption, ThreadAssumption
    DEF Init, Barrier, NoLostWakeup, LockConsistent, LockFree, IdleHasNoInstances, OneMode,
        WaitConsistent, SerialIsQuiet, InlineConsistent, InTick, Thread

-----------------------------------------------------------------------------
(* The counter: what each kind of step does to the queue, the busy workers and *)
(* the mutex, whose sum pending_requests is.                                   *)

(* The steps that touch none of the four. *)
QuietStep ==
    \/ \E m \in BaseMap : CreateBaseMap(m) \/ UpdateBaseMapInline(m)
    \/ \E i \in Instance : CreateInstance(i)
    \/ \E t \in Thread, i \in Instance :
         DestroyInstance(t, i) \/ KeepInstance(t, i) \/ UpdateInstanceInline(t, i)
    \/ \E t \in Thread : InstanceDoneInline(t)
    \/ StartUpdate \/ AllScheduled \/ WaitSleeps \/ WaitReturns \/ SpuriousWakeup
    \/ DelayedUpdate \/ UnloadAll \/ Deactivate \/ BaseMapDoneInline
    \/ UNCHANGED vars

(* A quiet step changes nothing that the counter counts.                     *)
LEMMA QuietStepKeepsCounts ==
    ASSUME TypeOK, QuietStep
    PROVE  /\ Busy' = Busy
           /\ UNCHANGED <<queue, pending_requests, lockVars>>
<1>1. UNCHANGED <<queue, pending_requests, lockVars>>
    BY DEF QuietStep, CreateBaseMap, UpdateBaseMapInline, CreateInstance, DestroyInstance,
           KeepInstance, UpdateInstanceInline, InstanceDoneInline, StartUpdate,
           AllScheduled,
           WaitSleeps, WaitReturns, SpuriousWakeup, DelayedUpdate, UnloadAll, Deactivate,
           BaseMapDoneInline, vars, lockVars, Goes, workVars, loopVars, poolVars
<1>2. updating' = updating \/ \E m \in Map \union {NoMap} : updating' = [updating EXCEPT ![World] = m]
    BY DEF QuietStep, CreateBaseMap, UpdateBaseMapInline, CreateInstance, DestroyInstance,
           KeepInstance, UpdateInstanceInline, InstanceDoneInline, StartUpdate,
           AllScheduled,
           WaitSleeps, WaitReturns, SpuriousWakeup, DelayedUpdate, UnloadAll, Deactivate,
           BaseMapDoneInline, vars, Map, Goes, workVars, loopVars, poolVars
<1> QED
    BY <1>1, <1>2, BusySame, BusyWithoutWorld

(* A thread takes the mutex and counts one more request. *)
CountStep ==
    \/ \E m \in BaseMap : ScheduleBaseMap(m)
    \/ \E t \in Thread, i \in Instance : ScheduleInstance(t, i)

(* Every step is one of the kinds that the proofs below distinguish.         *)
LEMMA NextIsOneOf ==
    ASSUME [Next]_vars
    PROVE  \/ QuietStep
           \/ CountStep
           \/ \E t \in Thread : Enqueue(t) \/ EnqueueFails(t)
           \/ \E w \in Worker : Dequeue(w) \/ UpdateFinished(w)
BY DEF Next, WorldStep, WorkerStep, InstanceStep, ScheduleStep, Outside, Stopped, QuietStep,
       CountStep

(* Every step keeps the types.                                               *)
LEMMA NextType ==
    ASSUME Barrier, [Next]_vars
    PROVE  TypeOK'
<1> USE MapAssumption DEF Barrier, TypeOK, Map, Thread, mapVars, lockVars, tickVars,
        Goes, workVars, loopVars, poolVars
<1>1. ASSUME NEW t \in Thread, Enqueue(t) PROVE TypeOK'
    BY <1>1, ThreadAssumption DEF Enqueue, LockConsistent, LockFree
<1>2. ASSUME NEW t \in Thread, EnqueueFails(t) PROVE TypeOK'
  <2>1. ~LockFree /\ request \in Map
    BY <1>2, ThreadAssumption DEF EnqueueFails, LockConsistent, LockFree
  <2>2. pending_requests - 1 \in Nat
    BY <2>1, BusyCount DEF PendingIsExact
  <2> QED
    BY <1>2, <2>1, <2>2 DEF EnqueueFails
<1>3. CASE CountStep
    BY <1>3 DEF CountStep, ScheduleBaseMap, ScheduleInstance, ScheduleUpdate
<1>4. ASSUME NEW w \in Worker, Dequeue(w) PROVE TypeOK'
    BY <1>4 DEF Dequeue, InstancesOf
<1>5. ASSUME NEW w \in Worker, UpdateFinished(w) PROVE TypeOK'
    BY <1>5 DEF UpdateFinished, Woken
<1>6. CASE QuietStep
  <2>1. CASE \E m \in BaseMap : CreateBaseMap(m) \/ UpdateBaseMapInline(m)
    BY <2>1 DEF CreateBaseMap, UpdateBaseMapInline, InstancesOf
  <2>2. CASE \E t \in Thread, i \in Instance :
               DestroyInstance(t, i) \/ KeepInstance(t, i) \/ UpdateInstanceInline(t, i)
    BY <2>2 DEF DestroyInstance, KeepInstance, UpdateInstanceInline
  <2>3. CASE \/ \E i \in Instance : CreateInstance(i)
             \/ \E t \in Thread : InstanceDoneInline(t)
             \/ BaseMapDoneInline
    BY <2>3 DEF CreateInstance, InstanceDoneInline, BaseMapDoneInline
  <2>4. CASE StartUpdate \/ AllScheduled \/ WaitSleeps \/ WaitReturns \/ SpuriousWakeup
    BY <2>4 DEF StartUpdate, AllScheduled, WaitSleeps, WaitReturns, SpuriousWakeup
  <2>5. CASE DelayedUpdate \/ UnloadAll \/ Deactivate \/ UNCHANGED vars
    BY <2>5 DEF DelayedUpdate, UnloadAll, Deactivate, vars
  <2> QED
    BY <1>6, <2>1, <2>2, <2>3, <2>4, <2>5 DEF QuietStep
<1> QED
    BY <1>1, <1>2, <1>3, <1>4, <1>5, <1>6, NextIsOneOf

(* Every step keeps the counter exact: what it adds or takes away is what    *)
(* the queue, the workers and the holder of the mutex gain or lose.          *)
LEMMA NextPending ==
    ASSUME Barrier, [Next]_vars
    PROVE  PendingIsExact'
<1> USE BusyCount DEF Barrier
<1>1. CASE QuietStep
    BY <1>1, QuietStepKeepsCounts DEF PendingIsExact, LockFree, lockVars, Goes,
           workVars, loopVars, poolVars
<1>2. CASE CountStep
  <2>1. Busy' = Busy /\ queue' = queue
    BY <1>2, BusySame DEF CountStep, ScheduleBaseMap, ScheduleInstance, workVars, loopVars
  <2>2. LockFree /\ ~LockFree' /\ pending_requests' = pending_requests + 1
    BY <1>2, ThreadAssumption
    DEF CountStep, ScheduleBaseMap, ScheduleInstance, ScheduleUpdate, LockFree, Thread
  <2> QED
    BY <2>1, <2>2 DEF PendingIsExact, TypeOK
<1>3. ASSUME NEW t \in Thread, Enqueue(t) \/ EnqueueFails(t) PROVE PendingIsExact'
  <2>1. Busy' = Busy /\ ~LockFree /\ LockFree' /\ request \in Map
    BY <1>3, BusySame, ThreadAssumption
    DEF Enqueue, EnqueueFails, LockFree, LockConsistent, TypeOK, workVars, loopVars
  <2> QED
    BY <1>3, <2>1 DEF Enqueue, EnqueueFails, PendingIsExact, TypeOK
<1>4. ASSUME NEW w \in Worker, Dequeue(w) PROVE PendingIsExact'
  <2>1. Head(queue) \in Map /\ Len(queue') = Len(queue) - 1
    BY <1>4 DEF Dequeue, TypeOK
  <2>2. Cardinality(Busy') = Cardinality(Busy) + 1
    BY <1>4, <2>1, BusyTakesOne DEF Dequeue
  <2> QED
    BY <1>4, <2>1, <2>2 DEF Dequeue, PendingIsExact, TypeOK, LockFree, lockVars, Goes,
           workVars, loopVars, poolVars
<1>5. ASSUME NEW w \in Worker, UpdateFinished(w) PROVE PendingIsExact'
  <2>1. /\ Cardinality(Busy') = Cardinality(Busy) - 1
        /\ Cardinality(Busy) > 0
    BY <1>5, BusyEndsOne DEF UpdateFinished
  <2>2. pending_requests # 0
    BY <2>1 DEF PendingIsExact, TypeOK
  <2> QED
    BY <1>5, <2>1, <2>2 DEF UpdateFinished, PendingIsExact, TypeOK, LockFree, lockVars,
           Goes, workVars, loopVars, poolVars
<1> QED
    BY <1>1, <1>2, <1>3, <1>4, <1>5, NextIsOneOf

-----------------------------------------------------------------------------
(* The rest of Barrier: where the world thread is, and what that says.         *)

Control ==
    /\ NoLostWakeup
    /\ LockConsistent
    /\ IdleHasNoInstances
    /\ OneMode
    /\ WaitConsistent
    /\ SerialIsQuiet
    /\ InlineConsistent

(* Every step keeps the rest of Barrier.                                     *)
LEMMA NextControl ==
    ASSUME Barrier, [Next]_vars
    PROVE  Control'
<1> USE MapAssumption, ThreadAssumption
    DEF Barrier, Control, TypeOK, NoLostWakeup, LockConsistent, IdleHasNoInstances, OneMode,
        WaitConsistent, SerialIsQuiet, InlineConsistent, LockFree, InTick, Map, Thread,
        mapVars, lockVars, tickVars, Goes, workVars, loopVars, poolVars
<1>1. ASSUME NEW t \in Thread, Enqueue(t) PROVE Control'
    BY <1>1 DEF Enqueue
(* EnqueueFails does not wake the world thread: if that is asleep, the mutex   *)
(* is held by a worker, whose own request is still pending.                    *)
<1>2. ASSUME NEW t \in Thread, EnqueueFails(t) PROVE Control'
  <2>1. main = "asleep" => t \in Busy
    BY <1>2 DEF EnqueueFails, Busy
  <2>2. main = "asleep" => pending_requests - 1 > 0
    BY <1>2, <2>1, BusyCount DEF EnqueueFails, PendingIsExact
  <2> QED
    BY <1>2, <2>2 DEF EnqueueFails
<1>3. CASE CountStep
  <2>1. ASSUME NEW m \in BaseMap, ScheduleBaseMap(m) PROVE Control'
    BY <2>1 DEF ScheduleBaseMap, ScheduleUpdate
  <2>2. ASSUME NEW t \in Thread, NEW i \in Instance, ScheduleInstance(t, i) PROVE Control'
    BY <2>2 DEF ScheduleInstance, ScheduleUpdate, Looping
  <2> QED
    BY <1>3, <2>1, <2>2 DEF CountStep
<1>4. ASSUME NEW w \in Worker, Dequeue(w) PROVE Control'
    BY <1>4 DEF Dequeue, InstancesOf
<1>5. ASSUME NEW w \in Worker, UpdateFinished(w) PROVE Control'
    BY <1>5 DEF UpdateFinished, Woken
<1>6. ASSUME NEW m \in BaseMap, CreateBaseMap(m) \/ UpdateBaseMapInline(m) PROVE Control'
    BY <1>6 DEF CreateBaseMap, UpdateBaseMapInline, InstancesOf
<1>7. ASSUME NEW t \in Thread, NEW i \in Instance,
             DestroyInstance(t, i) \/ KeepInstance(t, i) \/ UpdateInstanceInline(t, i)
      PROVE  Control'
    BY <1>7 DEF DestroyInstance, KeepInstance, UpdateInstanceInline, Looping
<1>8. CASE \/ \E i \in Instance : CreateInstance(i)
           \/ \E t \in Thread : InstanceDoneInline(t)
           \/ BaseMapDoneInline
    BY <1>8 DEF CreateInstance, InstanceDoneInline, BaseMapDoneInline, Looping
(* With the counter at zero there is nothing queued and nobody at work.        *)
<1>9. CASE WaitReturns
  <2>1. Len(queue) = 0 /\ Busy = {}
    BY <1>9, BusyCount DEF WaitReturns, PendingIsExact
  <2>2. queue = <<>> /\ \A t \in Thread : updating[t] = NoMap
    BY <1>9, <2>1 DEF WaitReturns, Busy
  <2> QED
    BY <1>9, <2>2 DEF WaitReturns
<1>10. CASE StartUpdate \/ AllScheduled \/ WaitSleeps \/ SpuriousWakeup
    BY <1>10 DEF StartUpdate, AllScheduled, WaitSleeps, SpuriousWakeup
<1>11. CASE DelayedUpdate \/ UnloadAll \/ Deactivate
    BY <1>11 DEF DelayedUpdate, UnloadAll, Deactivate
<1>12. CASE UNCHANGED vars
    BY <1>12 DEF vars
<1> QED
    BY <1>1, <1>2, <1>3, <1>4, <1>5, <1>6, <1>7, <1>8, <1>9, <1>10, <1>11, <1>12,
           NextIsOneOf
    DEF QuietStep

(* The counter, the mutex, the mode and the position of the world thread     *)
(* always agree; in particular the barrier of MapUpdater::wait lets nobody   *)
(* through early.                                                            *)
THEOREM BarrierHolds == Spec => []Barrier
<1>1. Barrier /\ [Next]_vars => Barrier'
    BY NextType, NextPending, NextControl DEF Barrier, Control
<1> QED
    BY <1>1, InitBarrier, PTL DEF Spec

(* Every variable keeps its type.                                              *)
THEOREM TypeCorrect == Spec => []TypeOK
BY BarrierHolds, PTL DEF Barrier

(* update_finished never reports its "BUG": the counter is exact.              *)
THEOREM PendingCorrect == Spec => []PendingIsExact
BY BarrierHolds, PTL DEF Barrier

(* Outside MapManager::Update the world thread is alone.                       *)
THEOREM WorldThreadAlone == Spec => []WorldThreadIsAlone
<1>1. Barrier => WorldThreadIsAlone
    BY DEF Barrier, SerialIsQuiet, WorldThreadIsAlone, Running
<1> QED
    BY <1>1, BarrierHolds, PTL

(* The world thread never sleeps through its wakeup.                           *)
THEOREM NoWakeupIsLost == Spec => []NoLostWakeup
BY BarrierHolds, PTL DEF Barrier

-----------------------------------------------------------------------------
(* Where each map of the tick is. First the queue as a set.                    *)

(* Appending a request adds its map to the queued ones.                      *)
LEMMA AppendQueued ==
    ASSUME TypeOK, NEW m \in Map, queue' = Append(queue, m)
    PROVE  /\ Queued' = Queued \union {m}
           /\ Distinct /\ m \notin Queued => Distinct'
BY DEF TypeOK, Queued, Distinct

(* Taking the first request removes its map, and only its map, from them.    *)
LEMMA TailQueued ==
    ASSUME TypeOK, Distinct, queue # <<>>, queue' = Tail(queue)
    PROVE  /\ Head(queue) \in Queued
           /\ Queued' = Queued \ {Head(queue)}
           /\ Distinct'
<1>1. /\ Len(queue) \in Nat \ {0}
      /\ DOMAIN queue = 1..Len(queue)
      /\ DOMAIN queue' = 1..(Len(queue) - 1)
      /\ \A k \in DOMAIN queue' : queue'[k] = queue[k + 1]
      /\ Head(queue) = queue[1]
    BY DEF TypeOK
<1>2. Head(queue) \in Queued
    BY <1>1 DEF Queued
<1>3. Queued' \subseteq Queued \ {Head(queue)}
    BY <1>1 DEF Queued, Distinct
<1>4. ASSUME NEW m \in Queued \ {Head(queue)} PROVE m \in Queued'
  <2>1. PICK k \in DOMAIN queue : queue[k] = m
    BY DEF Queued
  <2>2. k - 1 \in DOMAIN queue' /\ queue'[k - 1] = m
    BY <1>1, <2>1
  <2> QED
    BY <2>2 DEF Queued
<1>5. Distinct'
    BY <1>1 DEF Distinct
<1> QED
    BY <1>2, <1>3, <1>4, <1>5

(* An empty queue holds no map.                                              *)
LEMMA EmptyQueued ==
    ASSUME queue = <<>>
    PROVE  Queued = {} /\ Distinct
BY DEF Queued, Distinct

(* Then the maps being updated.                                                *)

(* A thread that begins an update adds its map to the running ones.          *)
LEMMA RunningTakesOne ==
    ASSUME TypeOK, NEW t \in Thread, NEW m \in Map, updating[t] = NoMap,
           updating' = [updating EXCEPT ![t] = m], inlineInst' = inlineInst
    PROVE  Running' = Running \union {m}
BY MapAssumption DEF TypeOK, Running

(* A thread that ends its update removes its map from them.                  *)
LEMMA RunningEndsOne ==
    ASSUME TypeOK, InOnePlace, NEW t \in Thread, updating[t] # NoMap,
           updating' = [updating EXCEPT ![t] = NoMap], inlineInst' = inlineInst
    PROVE  /\ updating[t] \in Running
           /\ Running' = Running \ {updating[t]}
<1>1. \A u \in Thread : u # t => updating[u] # updating[t]
    BY DEF InOnePlace
<1>2. inlineInst # updating[t]
    BY DEF InOnePlace
<1> QED
    BY <1>1, <1>2 DEF TypeOK, Running

(* Outside the tick no map is on its way or running.                         *)
LEMMA NoneRunning ==
    ASSUME Barrier, ~InTick
    PROVE  /\ OnTheWay = {}
           /\ Running = {}
           /\ \A t \in Thread : instTodo[t] = {}
BY EmptyQueued DEF Barrier, SerialIsQuiet, IdleHasNoInstances, LockConsistent,
       OnTheWay, Running

-----------------------------------------------------------------------------
(* No map is anywhere at the beginning.                                      *)
LEMMA InitPlaces == Init => Places /\ Covered
<1> SUFFICES ASSUME Init PROVE Places /\ Covered
    OBVIOUS
<1>1. Barrier /\ ~InTick /\ queue = <<>>
    BY InitBarrier DEF Init, InTick
<1>2. OnTheWay = {} /\ Running = {} /\ Queued = {} /\ Distinct
    BY <1>1, NoneRunning, EmptyQueued
<1>3. InOnePlace
    BY <1>1, <1>2 DEF Init, InOnePlace
<1>4. AliveWhileUsed /\ InstancesAfterBase
    BY <1>1, <1>2 DEF Init, AliveWhileUsed, InstancesAfterBase
<1> QED
    BY <1>1, <1>3, <1>4 DEF Places, Covered, Init

(* The steps that move no map.                                                 *)
LEMMA NothingMoves ==
    ASSUME Barrier, Places, Covered,
           UNCHANGED <<i_maps, m_InstancedMaps, todo, updating, instTodo, inlineInst, queue,
                       request, updated, refused>>,
           InTick' => InTick,
           main' = "delayed" => InTick \/ main = "delayed"
    PROVE  Places' /\ Covered'
<1>1. /\ Queued' = Queued
      /\ Running' = Running
      /\ Alive' = Alive
      /\ \A m : InstancesOf(m)' = InstancesOf(m)
    BY DEF Queued, Running, Alive, InstancesOf
<1>2. OnTheWay' = OnTheWay
    BY <1>1 DEF OnTheWay
<1>3. InOnePlace'
    BY <1>1, <1>2 DEF Places, InOnePlace, Distinct
<1>4. AliveWhileUsed' /\ InstancesAfterBase'
    BY <1>1, <1>2 DEF Places, AliveWhileUsed, InstancesAfterBase, Reached
<1>5. Covered'
    BY <1>1, <1>2 DEF Covered
<1> QED
    BY <1>3, <1>4, <1>5 DEF Places

(* Outside the tick no map is anywhere, so maps may come and go.               *)
LEMMA SerialPlaces ==
    ASSUME Barrier, [Next]_vars, ~InTick, ~InTick', main' # "delayed"
    PROVE  Places' /\ Covered'
<1>1. Barrier'
    BY NextType, NextPending, NextControl DEF Barrier, Control
<1>2. /\ todo' = {} /\ queue' = <<>> /\ inlineInst' = NoMap /\ request' = NoMap
      /\ \A t \in Thread : instTodo'[t] = {} /\ updating'[t] = NoMap
    BY <1>1 DEF Barrier, SerialIsQuiet, IdleHasNoInstances, LockConsistent
<1>3. OnTheWay' = {} /\ Running' = {} /\ Queued' = {} /\ Distinct'
    BY <1>2 DEF OnTheWay, Running, Queued, Distinct
<1>4. InOnePlace'
    BY <1>2, <1>3 DEF InOnePlace
<1>5. AliveWhileUsed' /\ InstancesAfterBase'
    BY <1>2, <1>3 DEF AliveWhileUsed, InstancesAfterBase
<1> QED
    BY <1>4, <1>5 DEF Places, Covered

(* The steps of a tick, each with the sets it changes.                         *)

(* The tick begins with every base map still to be scheduled.                *)
LEMMA StartPlaces ==
    ASSUME Barrier, Places, StartUpdate
    PROVE  Places' /\ Covered'
<1>1. /\ ~InTick
      /\ UNCHANGED <<queue, updating, instTodo, inlineInst, request, i_maps,
                     m_InstancedMaps>>
      /\ todo' = i_maps /\ updated' = {}
    BY DEF StartUpdate, InTick, mapVars, lockVars, Goes, workVars, loopVars, poolVars
<1>2. /\ queue = <<>> /\ inlineInst = NoMap /\ request = NoMap
      /\ \A t \in Thread : updating[t] = NoMap /\ instTodo[t] = {}
      /\ i_maps \subseteq BaseMap
    BY <1>1 DEF Barrier, SerialIsQuiet, IdleHasNoInstances, LockConsistent, TypeOK
<1>3. Running' = {} /\ Queued' = {} /\ Distinct' /\ OnTheWay' = i_maps
    BY <1>1, <1>2 DEF Running, Queued, Distinct, OnTheWay
<1>4. InOnePlace'
    BY <1>1, <1>2, <1>3, MapAssumption DEF InOnePlace, Map
<1>5. AliveWhileUsed'
    BY <1>1, <1>2, <1>3 DEF AliveWhileUsed, Alive
<1>6. InstancesAfterBase'
    BY <1>1, <1>2, <1>3, MapAssumption DEF InstancesAfterBase
<1> QED
    BY <1>1, <1>3, <1>4, <1>5, <1>6 DEF Places, Covered

(* A map that is given to schedule_update moves from the loop to the         *)
(* request.                                                                  *)
LEMMA CountPlaces ==
    ASSUME Barrier, Places, Covered, CountStep
    PROVE  Places' /\ Covered'
<1> USE MapAssumption, ThreadAssumption DEF Barrier, TypeOK, Places
<1>1. LockFree /\ request = NoMap
    BY DEF CountStep, ScheduleBaseMap, ScheduleInstance, ScheduleUpdate,
           LockConsistent, LockFree
<1>2. /\ UNCHANGED <<queue, updating, inlineInst, i_maps, m_InstancedMaps, updated,
                     refused, main>>
      /\ Running' = Running /\ Queued' = Queued /\ Alive' = Alive /\ (Distinct => Distinct')
      /\ \A m : InstancesOf(m)' = InstancesOf(m)
      /\ request' \in Map
    BY DEF CountStep, ScheduleBaseMap, ScheduleInstance, ScheduleUpdate, mapVars,
           tickVars, Goes, workVars, loopVars, poolVars, Running,
           Queued, Alive, InstancesOf, Distinct, Map
<1>3. ASSUME NEW m \in BaseMap, ScheduleBaseMap(m) PROVE Places' /\ Covered'
  <2>1. /\ m \in todo /\ todo' = todo \ {m} /\ request' = m /\ instTodo' = instTodo
        /\ OnTheWay' = OnTheWay
    BY <1>1, <1>2, <1>3 DEF ScheduleBaseMap, ScheduleUpdate, OnTheWay, Map, workVars
  <2>2. InOnePlace'
    BY <1>2, <2>1 DEF InOnePlace, OnTheWay, InTick
  <2>3. AliveWhileUsed' /\ InstancesAfterBase'
    BY <1>2, <2>1 DEF AliveWhileUsed, InstancesAfterBase, Reached, InTick
  <2> QED
    BY <1>2, <2>1, <2>2, <2>3 DEF Covered, InTick
<1>4. ASSUME NEW t \in Thread, NEW i \in Instance, ScheduleInstance(t, i)
      PROVE  Places' /\ Covered'
  <2>1. /\ i \in instTodo[t] /\ request' = i /\ todo' = todo
        /\ instTodo' = [instTodo EXCEPT ![t] = @ \ {i}]
        /\ OnTheWay' = OnTheWay \union {i}
    BY <1>1, <1>2, <1>4 DEF ScheduleInstance, ScheduleUpdate, OnTheWay, Map
  <2>2. updating[t] \in Running /\ i \in InstancesOf(updating[t])
    BY <2>1 DEF IdleHasNoInstances, Running, AliveWhileUsed
  <2>3. i \notin OnTheWay \union Running \union {NoMap} /\ (InTick => i \notin updated)
    BY <2>1 DEF InOnePlace, Map
  <2>4. InOnePlace'
    BY <1>2, <2>1, <2>3 DEF InOnePlace, OnTheWay, InTick
  <2>5. AliveWhileUsed'
    BY <1>2, <2>1, <2>2 DEF AliveWhileUsed, Alive, InstancesOf
  <2>6. InstancesAfterBase'
    BY <1>2, <2>1, <2>2 DEF InstancesAfterBase, Reached, InTick, InstancesOf
  <2> QED
    BY <1>2, <2>1, <2>4, <2>5, <2>6 DEF Covered, InTick
<1> QED
    BY <1>3, <1>4 DEF CountStep

(* The request moves into the queue, or is refused.                          *)
LEMMA EnqueuePlaces ==
    ASSUME Barrier, Places, Covered, NEW t \in Thread, Enqueue(t) \/ EnqueueFails(t)
    PROVE  Places' /\ Covered'
<1> USE MapAssumption DEF Barrier, TypeOK, Places
<1>1. request \in Map
    BY ThreadAssumption DEF Enqueue, EnqueueFails, LockConsistent, LockFree
<1>2. /\ UNCHANGED <<todo, instTodo, updating, inlineInst, i_maps, m_InstancedMaps,
                     updated, main>>
      /\ request' = NoMap
      /\ Running' = Running /\ Alive' = Alive
      /\ \A m : InstancesOf(m)' = InstancesOf(m)
    BY DEF Enqueue, EnqueueFails, mapVars, tickVars, Goes, workVars, loopVars,
           poolVars, Running, Alive, InstancesOf
<1>3. NoMap \notin todo \union Queued
    BY DEF Queued, Map
<1>4. CASE Enqueue(t)
  <2>1. Queued' = Queued \union {request} /\ Distinct' /\ refused' = refused
    BY <1>1, <1>4, AppendQueued DEF Enqueue, InOnePlace, tickVars, Goes, workVars,
           loopVars, poolVars
  <2>2. OnTheWay' = OnTheWay
    BY <1>1, <1>2, <2>1 DEF OnTheWay
  <2>3. InOnePlace'
    BY <1>1, <1>2, <1>3, <2>1, <2>2 DEF InOnePlace, InTick
  <2>4. AliveWhileUsed' /\ InstancesAfterBase'
    BY <1>2, <2>2 DEF AliveWhileUsed, InstancesAfterBase, Reached, InTick
  <2> QED
    BY <1>2, <2>1, <2>2, <2>3, <2>4 DEF Covered, InTick
<1>5. CASE EnqueueFails(t)
  <2>1. Queued' = Queued /\ Distinct' /\ refused' = refused \union {request}
    BY <1>5 DEF EnqueueFails, InOnePlace, Queued, Distinct
  <2>2. OnTheWay' = OnTheWay \ {request}
    BY <1>1, <1>2, <2>1 DEF OnTheWay, InOnePlace
  <2>3. InOnePlace'
    BY <1>1, <1>2, <1>3, <2>1, <2>2 DEF InOnePlace, InTick
  <2>4. AliveWhileUsed' /\ InstancesAfterBase'
    BY <1>2, <2>2 DEF AliveWhileUsed, InstancesAfterBase, Reached, InTick
  <2> QED
    BY <1>2, <2>1, <2>2, <2>3, <2>4 DEF Covered, InTick
<1> QED
    BY <1>4, <1>5

(* A thread begins the update of a map that waited, and with it the loop over  *)
(* its instances: none of them is anywhere yet, because their base map had not *)
(* been reached.                                                               *)
LEMMA BeginPlaces ==
    ASSUME Barrier, Places, Covered, InTick,
           NEW t \in Thread, NEW m \in OnTheWay,
           updating[t] = NoMap,
           updating' = [updating EXCEPT ![t] = m],
           instTodo' = [instTodo EXCEPT ![t] = InstancesOf(m)],
           OnTheWay' = OnTheWay \ {m},
           todo' \subseteq todo, Queued' \subseteq Queued, Distinct',
           UNCHANGED <<inlineInst, request, i_maps, m_InstancedMaps, updated, refused,
                       main>>
    PROVE  Places' /\ Covered'
<1> USE MapAssumption DEF Barrier, TypeOK, Places
<1>1. m \in Map /\ m \notin Running \union updated
    BY DEF OnTheWay, Queued, Map, InOnePlace
<1>2. Running' = Running \union {m}
    BY <1>1, RunningTakesOne
<1>3. Alive' = Alive /\ \A x : InstancesOf(x)' = InstancesOf(x)
    BY DEF Alive, InstancesOf
<1>4. ASSUME NEW i \in InstancesOf(m)
      PROVE  /\ i \notin OnTheWay \union Running \union updated \union {m}
             /\ \A u \in Thread : i \notin instTodo[u]
  <2>1. i \in Instance /\ Parent[i] = m
    BY DEF InstancesOf
  <2>2. ~Reached(m)
    BY <1>1 DEF Reached
  <2>3. i \notin OnTheWay \union Running \union updated
    BY <2>1, <2>2 DEF InstancesAfterBase
  <2>4. ASSUME NEW u \in Thread, i \in instTodo[u] PROVE FALSE
    <3>1. updating[u] = m
      BY <2>1, <2>4 DEF AliveWhileUsed, InstancesOf
    <3>2. m \in Running
      BY <1>1, <3>1 DEF Running
    <3> QED
      BY <1>1, <3>2
  <2> QED
    BY <2>1, <2>3, <2>4
<1>5. InOnePlace'
  <2>1. \A u \in Thread : instTodo'[u] = IF u = t THEN InstancesOf(m) ELSE instTodo[u]
    OBVIOUS
  <2>2. \A u \in Thread : updating'[u] = IF u = t THEN m ELSE updating[u]
    OBVIOUS
  <2>3. \A u \in Thread : updating[u] # m
    BY <1>1 DEF Running
  <2>4. inlineInst # m
    BY <1>1 DEF Running
  <2>5. /\ \A u, v \in Thread : updating'[u] = updating'[v] /\ u # v => updating'[u] = NoMap
        /\ inlineInst' # NoMap => \A u \in Thread : updating'[u] # inlineInst'
    BY <2>2, <2>3, <2>4 DEF InOnePlace
  <2>6. \A u, v \in Thread : u # v => instTodo'[u] \intersect instTodo'[v] = {}
    BY <1>4, <2>1 DEF InOnePlace
  <2>7. \A u \in Thread : m \notin instTodo[u]
    BY DEF InOnePlace
  <2>8. /\ \A u \in Thread : instTodo'[u] \intersect (OnTheWay' \union Running') = {}
        /\ InTick' => \A u \in Thread : instTodo'[u] \intersect updated' = {}
    BY <1>2, <1>4, <2>1, <2>7 DEF InOnePlace
  <2>9. /\ request' \notin todo' \union Queued'
        /\ todo' \intersect Queued' = {}
        /\ OnTheWay' \intersect Running' = {}
        /\ InTick' => updated' \intersect (OnTheWay' \union Running') = {}
    BY <1>1, <1>2 DEF InOnePlace
  <2> QED
    BY <2>5, <2>6, <2>8, <2>9 DEF InOnePlace
<1>6. AliveWhileUsed'
    BY <1>2, <1>3 DEF AliveWhileUsed
<1>7. InstancesAfterBase'
    BY <1>2 DEF InstancesAfterBase, Reached, InTick
<1>8. Covered'
    BY <1>2 DEF Covered, InTick
<1> QED
    BY <1>5, <1>6, <1>7, <1>8

(* A map's update ends.                                                        *)
LEMMA EndPlaces ==
    ASSUME Barrier, Places, Covered,
           NEW m \in Map, m \in Running,
           Running' = Running \ {m}, updated' = updated \union {m},
           UNCHANGED <<todo, instTodo, queue, request, i_maps, m_InstancedMaps, refused>>,
           InTick' = InTick, main' = "delayed" => main = "delayed",
           \/ /\ UNCHANGED updating
              /\ inlineInst' = NoMap
           \/ \E t \in Thread : /\ instTodo[t] = {}
                                /\ updating' = [updating EXCEPT ![t] = NoMap]
                                /\ UNCHANGED inlineInst
    PROVE  Places' /\ Covered'
<1> USE MapAssumption DEF Barrier, TypeOK, Places
<1>1. /\ OnTheWay' = OnTheWay /\ Queued' = Queued /\ Alive' = Alive /\ (Distinct => Distinct')
      /\ \A x : InstancesOf(x)' = InstancesOf(x)
    BY DEF OnTheWay, Queued, Alive, Distinct, InstancesOf
<1>2. \A t \in Thread : m \notin instTodo[t]
    BY DEF InOnePlace
<1>3. /\ \A u, v \in Thread : updating'[u] = updating'[v] /\ u # v => updating'[u] = NoMap
      /\ inlineInst' # NoMap => \A u \in Thread : updating'[u] # inlineInst'
    BY DEF InOnePlace
<1>4. InOnePlace'
    BY <1>1, <1>2, <1>3 DEF InOnePlace
<1>5. AliveWhileUsed'
  <2>1. \A t \in Thread : instTodo[t] = {} \/ updating'[t] = updating[t]
    OBVIOUS
  <2> QED
    BY <1>1, <2>1 DEF AliveWhileUsed
<1>6. InstancesAfterBase'
    BY <1>1 DEF InstancesAfterBase, Reached
<1>7. Covered'
    BY <1>1 DEF Covered
<1> QED
    BY <1>4, <1>5, <1>6, <1>7

(* The loop over the instances drops one, or updates it in place.              *)
LEMMA LoopPlaces ==
    ASSUME Barrier, Places, Covered, NEW t \in Thread, NEW i \in Instance,
           DestroyInstance(t, i) \/ KeepInstance(t, i) \/ UpdateInstanceInline(t, i)
    PROVE  Places' /\ Covered'
<1> USE MapAssumption DEF Barrier, TypeOK, Places
<1>1. /\ i \in instTodo[t]
      /\ instTodo' = [instTodo EXCEPT ![t] = @ \ {i}]
      /\ UNCHANGED <<todo, queue, request, updating, i_maps, updated, refused, main>>
      /\ OnTheWay' = OnTheWay /\ Queued' = Queued /\ (Distinct => Distinct')
    BY DEF DestroyInstance, KeepInstance, UpdateInstanceInline, OnTheWay, Queued,
           Distinct, mapVars,
           lockVars, tickVars, Goes, workVars, loopVars, poolVars
<1>2. /\ i \notin OnTheWay \union Running \union {NoMap}
      /\ InTick => i \notin updated
      /\ \A u \in Thread : u # t => i \notin instTodo[u]
    BY <1>1 DEF InOnePlace, Map
<1>3. updating[t] \in Running /\ i \in InstancesOf(updating[t])
    BY <1>1 DEF IdleHasNoInstances, Running, AliveWhileUsed
<1>4. /\ \A u, v \in Thread : u # v => instTodo'[u] \intersect instTodo'[v] = {}
      /\ \A u \in Thread : instTodo'[u] \subseteq instTodo[u] \ {i}
    BY <1>1, <1>2 DEF InOnePlace
<1>5. CASE DestroyInstance(t, i) \/ KeepInstance(t, i)
  <2>1. /\ inlineInst' = inlineInst /\ Running' = Running
        /\ Alive \ {i} \subseteq Alive' \union (i_maps \intersect {i}) /\ i_maps \subseteq Alive'
        /\ \A x : InstancesOf(x) \ {i} \subseteq InstancesOf(x)'
    BY <1>1, <1>5 DEF DestroyInstance, KeepInstance, Running, Alive, InstancesOf,
           mapVars, Goes, workVars, loopVars, poolVars
  <2>2. InOnePlace'
    BY <1>1, <1>4, <2>1 DEF InOnePlace, InTick
  <2>3. AliveWhileUsed'
    BY <1>1, <1>2, <1>4, <2>1 DEF AliveWhileUsed
  <2>4. InstancesAfterBase'
    BY <1>1, <2>1 DEF InstancesAfterBase, Reached, InTick
  <2> QED
    BY <1>1, <2>1, <2>2, <2>3, <2>4 DEF Covered, InTick
<1>6. CASE UpdateInstanceInline(t, i)
  <2>1. /\ inlineInst = NoMap /\ inlineInst' = i
        /\ Running' = Running \union {i}
        /\ Alive' = Alive
        /\ \A x : InstancesOf(x)' = InstancesOf(x)
    BY <1>1, <1>6 DEF UpdateInstanceInline, Looping, Running, Alive, InstancesOf,
           mapVars, Goes, workVars, loopVars, poolVars, Map
  <2>2. \A u \in Thread : updating[u] # i
    BY <1>2 DEF Running
  <2>3. InOnePlace'
    BY <1>1, <1>2, <1>4, <2>1, <2>2 DEF InOnePlace, InTick
  <2>4. AliveWhileUsed'
    BY <1>1, <1>3, <1>4, <2>1 DEF AliveWhileUsed, Alive, InstancesOf
  <2>5. InstancesAfterBase'
    BY <1>1, <1>3, <2>1 DEF InstancesAfterBase, Reached, InTick, InstancesOf
  <2> QED
    BY <1>1, <2>1, <2>3, <2>4, <2>5 DEF Covered, InTick
<1> QED
    BY <1>5, <1>6

(* Every step keeps each map in one place, alive while it is in one.         *)
LEMMA NextPlaces ==
    ASSUME Barrier, Places, Covered, [Next]_vars
    PROVE  Places' /\ Covered'
<1> USE MapAssumption, ThreadAssumption DEF mapVars, lockVars, tickVars, Goes,
        workVars, loopVars, poolVars
<1>1. ASSUME NEW t \in Thread, Enqueue(t) \/ EnqueueFails(t) PROVE Places' /\ Covered'
    BY <1>1, EnqueuePlaces
<1>2. CASE CountStep
    BY <1>2, CountPlaces
<1>3. ASSUME NEW w \in Worker, Dequeue(w) PROVE Places' /\ Covered'
  <2>1. Head(queue) \in Queued /\ Queued' = Queued \ {Head(queue)} /\ Distinct'
    BY <1>3, TailQueued DEF Dequeue, Barrier, Places, InOnePlace
  <2>2. OnTheWay' = OnTheWay \ {Head(queue)} /\ Head(queue) \in OnTheWay
    BY <1>3, <2>1 DEF Dequeue, OnTheWay, Places, InOnePlace
  <2>3. InTick
    BY <1>3 DEF Dequeue, Barrier, SerialIsQuiet
  <2>4. w \in Thread
    BY DEF Thread
  <2> QED
    BY <1>3, <2>1, <2>2, <2>3, <2>4, BeginPlaces DEF Dequeue
<1>4. ASSUME NEW m \in BaseMap, UpdateBaseMapInline(m) PROVE Places' /\ Covered'
  <2>1. m \in OnTheWay /\ Queued' = Queued /\ Distinct' /\ InTick /\ World \in Thread
    BY <1>4 DEF UpdateBaseMapInline, OnTheWay, Queued, Distinct, Places, InOnePlace,
           InTick, Thread
  <2>2. OnTheWay' = OnTheWay \ {m}
    BY <1>4, <2>1 DEF UpdateBaseMapInline, OnTheWay, Places, InOnePlace, Map
  <2> QED
    BY <1>4, <2>1, <2>2, BeginPlaces DEF UpdateBaseMapInline
<1>5. ASSUME NEW w \in Worker, UpdateFinished(w) PROVE Places' /\ Covered'
  <2>1. w \in Thread /\ updating[w] \in Running /\ Running' = Running \ {updating[w]}
    BY <1>5, RunningEndsOne DEF UpdateFinished, Barrier, Places, Thread
  <2>2. updating[w] \in Map /\ InTick /\ InTick' /\ main' # "delayed"
    BY <1>5, <2>1 DEF UpdateFinished, Woken, Barrier, TypeOK, SerialIsQuiet, InTick
  <2> QED
    BY <1>5, <2>1, <2>2, EndPlaces DEF UpdateFinished
<1>6. CASE BaseMapDoneInline
  <2>1. /\ World \in Thread /\ updating[World] \in Running
        /\ Running' = Running \ {updating[World]}
    BY <1>6, RunningEndsOne DEF BaseMapDoneInline, Barrier, Places, Thread
  <2>2. updating[World] \in Map
    BY <1>6, <2>1 DEF BaseMapDoneInline, Barrier, TypeOK
  <2> QED
    BY <1>6, <2>1, <2>2, EndPlaces DEF BaseMapDoneInline, InTick
<1>7. ASSUME NEW t \in Thread, InstanceDoneInline(t) PROVE Places' /\ Covered'
  <2>1. /\ inlineInst \in Map /\ inlineInst \in Running
        /\ \A u \in Thread : updating[u] # inlineInst
    BY <1>7 DEF InstanceDoneInline, Barrier, TypeOK, Running, Places, InOnePlace, Map
  <2>2. Running' = Running \ {inlineInst}
    BY <1>7, <2>1 DEF InstanceDoneInline, Running
  <2> QED
    BY <1>7, <2>1, <2>2, EndPlaces DEF InstanceDoneInline, InTick
<1>8. ASSUME NEW t \in Thread, NEW i \in Instance,
             DestroyInstance(t, i) \/ KeepInstance(t, i) \/ UpdateInstanceInline(t, i)
      PROVE  Places' /\ Covered'
    BY <1>8, LoopPlaces
<1>9. CASE StartUpdate
    BY <1>9, StartPlaces
<1>10. CASE \/ \E m \in BaseMap : CreateBaseMap(m)
            \/ \E i \in Instance : CreateInstance(i)
            \/ DelayedUpdate \/ UnloadAll \/ Deactivate
    BY <1>10, SerialPlaces DEF CreateBaseMap, CreateInstance, DelayedUpdate, UnloadAll,
           Deactivate, InTick
<1>11. CASE AllScheduled \/ WaitSleeps \/ WaitReturns \/ SpuriousWakeup \/ UNCHANGED vars
    BY <1>11, NothingMoves
    DEF AllScheduled, WaitSleeps, WaitReturns, SpuriousWakeup, vars, InTick
<1> QED
    BY <1>1, <1>2, <1>3, <1>4, <1>5, <1>6, <1>7, <1>8, <1>9, <1>10, <1>11, NextIsOneOf
    DEF QuietStep

(* The whole inductive invariant holds: no map is updated twice at a time,   *)
(* or scheduled, queued or running after it was destroyed.                   *)
THEOREM InvariantHolds == Spec => []IInv
<1>1. Init => IInv
    BY InitBarrier, InitPlaces DEF IInv
<1>2. IInv /\ [Next]_vars => IInv'
    BY NextType, NextPending, NextControl, NextPlaces DEF IInv, Barrier, Control
<1> QED
    BY <1>1, <1>2, PTL DEF Spec

(* No base map goes without its update unless the full queue refused it.       *)
THEOREM NoUpdateIsLost == Spec => []NoUpdateLost
<1>1. IInv => NoUpdateLost
  <2> SUFFICES ASSUME IInv, main = "delayed" PROVE i_maps \subseteq updated \union refused
    BY DEF NoUpdateLost
  <2>1. OnTheWay = {} /\ Running = {}
    BY NoneRunning DEF IInv, InTick
  <2> QED
    BY <2>1 DEF IInv, Covered
<1> QED
    BY <1>1, InvariantHolds, PTL

-----------------------------------------------------------------------------
(* The refinement of MapTick.tla.                                              *)

phase == IF InTick THEN "tick" ELSE "serial"

(* Every step is a step of MapTick.tla or leaves its variables unchanged.    *)
LEMMA StepImplementsTick ==
    ASSUME IInv, [Next]_vars
    PROVE  [Tick!TickNext]_<<phase, Alive, Running, updated>>
<1> USE MapAssumption, ThreadAssumption DEF IInv, mapVars, lockVars, tickVars, Goes,
        workVars, loopVars, poolVars
<1>1. CASE \/ \E t \in Thread : Enqueue(t) \/ EnqueueFails(t)
           \/ CountStep
           \/ \E t \in Thread, i \in Instance : KeepInstance(t, i)
           \/ WaitSleeps \/ SpuriousWakeup \/ DelayedUpdate \/ Deactivate \/ UNCHANGED vars
    BY <1>1 DEF Enqueue, EnqueueFails, CountStep, ScheduleBaseMap, ScheduleInstance,
           KeepInstance,
       WaitSleeps, SpuriousWakeup, DelayedUpdate, Deactivate, vars, phase, InTick,
       Alive, Running
<1>2. ASSUME NEW w \in Worker,
Dequeue(w) PROVE Tick!BeginUpdate(Head(queue)) /\ Head(queue) \in Map
  <2>1. InTick /\ w \in Thread
    BY <1>2 DEF Dequeue, Barrier, SerialIsQuiet, Thread
  <2>2. Head(queue) \in OnTheWay /\ Head(queue) \in Map
    BY <1>2, TailQueued DEF Dequeue, Barrier, TypeOK, Places, InOnePlace, OnTheWay
  <2>3. Head(queue) \in Alive \ (Running \union updated)
    BY <2>1, <2>2 DEF Places, InOnePlace, AliveWhileUsed
  <2>4. Running' = Running \union {Head(queue)}
    BY <1>2, <2>1, <2>2, RunningTakesOne DEF Dequeue, Barrier
  <2> QED
    BY <1>2, <2>1, <2>2, <2>3, <2>4 DEF Dequeue, Tick!BeginUpdate, InTick, Alive
<1>3. ASSUME NEW m \in BaseMap,
UpdateBaseMapInline(m) PROVE Tick!BeginUpdate(m) /\ m \in Map
  <2>1. InTick /\ m \in OnTheWay /\ m \in Map /\ World \in Thread
    BY <1>3 DEF UpdateBaseMapInline, InTick, OnTheWay, Map, Thread
  <2>2. m \in Alive \ (Running \union updated)
    BY <2>1 DEF Places, InOnePlace, AliveWhileUsed
  <2>3. Running' = Running \union {m}
    BY <1>3, <2>1, RunningTakesOne DEF UpdateBaseMapInline, Barrier
  <2> QED
    BY <1>3, <2>1, <2>2, <2>3 DEF UpdateBaseMapInline, Tick!BeginUpdate, InTick, Alive
<1>4. ASSUME NEW t \in Thread, NEW i \in Instance, UpdateInstanceInline(t, i)
      PROVE  Tick!BeginUpdate(i) /\ i \in Map
  <2>1. i \in instTodo[t] /\ i \in Map
    BY <1>4 DEF UpdateInstanceInline, Map
  <2>2. InTick /\ i \in Alive
    BY <2>1 DEF Barrier, SerialIsQuiet, IdleHasNoInstances, Places, AliveWhileUsed, Alive,
       InstancesOf
  <2>3. i \notin Running \union updated
    BY <2>1, <2>2 DEF Places, InOnePlace
  <2>4. Running' = Running \union {i}
    BY <1>4, <2>1 DEF UpdateInstanceInline, Looping, Running
  <2> QED
    BY <1>4, <2>1, <2>2, <2>3, <2>4 DEF UpdateInstanceInline, Tick!BeginUpdate, InTick,
           Alive
<1>5. ASSUME NEW w \in Worker, UpdateFinished(w)
      PROVE  Tick!EndUpdate(updating[w]) /\ updating[w] \in Map
  <2>1. w \in Thread /\ updating[w] \in Running /\ Running' = Running \ {updating[w]}
    BY <1>5, RunningEndsOne DEF UpdateFinished, Barrier, Places, Thread
  <2>2. updating[w] \in Map /\ InTick' = InTick
    BY <1>5, <2>1 DEF UpdateFinished, Woken, Barrier, TypeOK, InTick
  <2> QED
    BY <1>5, <2>1, <2>2 DEF UpdateFinished, Tick!EndUpdate, Alive
<1>6. ASSUME BaseMapDoneInline PROVE Tick!EndUpdate(updating[World]) /\ updating[World] \in Map
  <2>1. /\ World \in Thread /\ updating[World] \in Running
        /\ Running' = Running \ {updating[World]}
    BY <1>6, RunningEndsOne DEF BaseMapDoneInline, Barrier, Places, Thread
  <2>2. updating[World] \in Map
    BY <1>6, <2>1 DEF BaseMapDoneInline, Barrier, TypeOK
  <2> QED
    BY <1>6, <2>1, <2>2 DEF BaseMapDoneInline, Tick!EndUpdate, Alive, InTick
<1>7. ASSUME NEW t \in Thread, InstanceDoneInline(t)
      PROVE  Tick!EndUpdate(inlineInst) /\ inlineInst \in Map
  <2>1. /\ inlineInst \in Map /\ inlineInst \in Running
        /\ \A u \in Thread : updating[u] # inlineInst
    BY <1>7 DEF InstanceDoneInline, Barrier, TypeOK, Running, Places, InOnePlace, Map
  <2>2. Running' = Running \ {inlineInst}
    BY <1>7, <2>1 DEF InstanceDoneInline, Running
  <2> QED
    BY <1>7, <2>1, <2>2 DEF InstanceDoneInline, Tick!EndUpdate, Alive, InTick
<1>8. ASSUME NEW t \in Thread, NEW i \in Instance, DestroyInstance(t,
i) PROVE Tick!Destroy(i)
  <2>1. i \in instTodo[t] /\ i \notin i_maps
    BY <1>8 DEF DestroyInstance, Barrier, TypeOK
  <2>2. InTick
    BY <2>1 DEF Barrier, SerialIsQuiet, IdleHasNoInstances
  <2>3. i \notin Running \union updated
    BY <2>1, <2>2 DEF Places, InOnePlace
  <2>4. Alive' = Alive \ {i}
    BY <1>8, <2>1 DEF DestroyInstance, Alive
  <2> QED
    BY <1>8, <2>2, <2>3, <2>4 DEF DestroyInstance, Tick!Destroy, InTick, Running
<1>9. ASSUME NEW m \in BaseMap, CreateBaseMap(m) PROVE Tick!Create(m) /\ m \in Map
    BY <1>9 DEF CreateBaseMap, Tick!Create, InTick, Alive, Running, Map
<1>10. ASSUME NEW i \in Instance, CreateInstance(i) PROVE Tick!Create(i) /\ i \in Map
    BY <1>10 DEF CreateInstance, Tick!Create, InTick, Alive, Running, Map
<1>11. CASE StartUpdate
    BY <1>11 DEF StartUpdate, Tick!TickNext, Tick!StartTick, InTick, Alive, Running
<1>12. CASE UnloadAll
    BY <1>12 DEF UnloadAll, Tick!TickNext, Tick!Unload, InTick, Alive, Running
(* The barrier: when the world thread goes on, nothing is being updated.       *)
<1>13. ASSUME WaitReturns \/ AllScheduled
       PROVE  Tick!EndTick \/ UNCHANGED <<phase, Alive, Running, updated>>
  <2>1. InTick /\ Running' = Running /\ Alive' = Alive /\ updated' = updated
    BY <1>13 DEF WaitReturns, AllScheduled, InTick, Running, Alive
  <2>2. ASSUME ~InTick' PROVE Running = {}
    <3>1. Barrier'
      BY NextType, NextPending, NextControl DEF Barrier, Control
    <3>2. Running' = {}
      BY <2>2, <3>1 DEF Barrier, SerialIsQuiet, Running
    <3> QED
      BY <2>1, <3>2
  <2> QED
    BY <2>1, <2>2 DEF Tick!EndTick, phase
<1> QED
    BY <1>1, <1>2, <1>3, <1>4, <1>5, <1>6, <1>7, <1>8, <1>9, <1>11, <1>12, <1>13, <1>10,
       NextIsOneOf
    DEF QuietStep, Tick!TickNext

(* The machinery of MapUpdater, DelayExecutor and MapInstanced implements the  *)
(* ticks of MapTick.tla.                                                       *)
THEOREM ImplementsMapTick == Spec => ImplementsTick
<1>1. Init => Tick!TickInit
  <2> SUFFICES ASSUME Init PROVE Tick!TickInit
    OBVIOUS
  <2>1. Running = {}
    BY InitBarrier, NoneRunning DEF Init, InTick
  <2> QED
    BY <2>1 DEF Init, Tick!TickInit, InTick, Alive
<1>2. IInv /\ [Next]_vars => [Tick!TickNext]_(Tick!tickVars)
    BY StepImplementsTick DEF Tick!tickVars, phase
<1> QED
    BY <1>1, <1>2, InvariantHolds, PTL DEF Spec, ImplementsTick, Tick!TickSpec
=============================================================================
