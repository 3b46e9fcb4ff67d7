----------------------------- MODULE MapUpdater -----------------------------
(* The parallel update of the game maps: the world thread hands one request    *)
(* per map to a pool of worker threads (MapUpdater over DelayExecutor), a      *)
(* worker that updates the base map of a dungeon hands over one more request   *)
(* per instance of it (MapInstanced::Update), and the world thread waits until *)
(* the counter pending_requests is back to zero before it goes on.             *)
(*                                                                             *)
(* Without workers (MapUpdate.Threads = 0, a choice of the initial state) the  *)
(* world thread updates the maps itself, instances included.                   *)
EXTENDS Naturals, Sequences, FiniteSets

CONSTANTS
    BaseMap,        \* ids of maps held by MapManager::i_maps
    Instance,       \* ids of instance maps held by some MapInstanced
    Parent,         \* the base map an instance belongs to
    Worker,         \* threads of the executor
    World,          \* the world thread
    QueueCapacity,  \* requests that fit under the queue's high water mark
    NoMap,
    NoThread

Map    == BaseMap \union Instance
Thread == Worker \union {World}

ASSUME MapAssumption ==
    /\ BaseMap \intersect Instance = {}
    /\ Parent \in [Instance -> BaseMap]
    /\ NoMap \notin Map
ASSUME ThreadAssumption ==
    /\ IsFiniteSet(Worker)
    /\ World \notin Worker
    /\ NoThread \notin Thread
ASSUME CapacityAssumption == QueueCapacity \in Nat

VARIABLES
    i_maps,             \* base maps that exist
    m_InstancedMaps,    \* instances that exist
    main,               \* where the world thread is
    todo,               \* base maps the loop of MapManager::Update has yet to reach
    updating,           \* the map a thread is updating, or NoMap
    instTodo,           \* instances a thread's MapInstanced::Update has yet to reach
    inlineInst,         \* the instance updated inside its parent's update, without workers
    queue,              \* requests in the executor's queue
    pending_requests,
    m_mutex,            \* the thread that holds MapUpdater::m_mutex inside schedule_update
    request,            \* the map it is scheduling
    activated_,
    updated,            \* history: maps whose update has ended in the current tick
    refused             \* history: maps whose request the full queue refused in the current tick

vars == <<i_maps, m_InstancedMaps, main, todo, updating, instTodo, inlineInst, queue,
          pending_requests, m_mutex, request, activated_, updated, refused>>

mapVars   == <<i_maps, m_InstancedMaps>>
workVars  == <<updating, instTodo, inlineInst>>
loopVars  == <<todo, workVars>>
lockVars  == <<m_mutex, request>>
poolVars  == <<queue, pending_requests, lockVars, activated_>>
tickVars  == <<updated, refused>>

InstancesOf(m) == {i \in m_InstancedMaps : Parent[i] = m}
LockFree  == m_mutex = NoThread

Init ==
    /\ i_maps = {}
    /\ m_InstancedMaps = {}
    /\ main = "serial"
    /\ todo = {}
    /\ updating = [t \in Thread |-> NoMap]
    /\ instTodo = [t \in Thread |-> {}]
    /\ inlineInst = NoMap
    /\ queue = <<>>
    /\ pending_requests = 0
    /\ m_mutex = NoThread
    /\ request = NoMap
    /\ activated_ \in BOOLEAN
    /\ activated_ => Worker # {}
    /\ updated = {}
    /\ refused = {}

-----------------------------------------------------------------------------
(* MapUpdater::schedule_update. The mutex is held from the increment to the    *)
(* outcome of DelayExecutor::execute; workers take requests meanwhile.         *)
(* A faulty variant, for the sensitivity of the checks: the counter is not     *)
(* incremented. The operators named Mutant... below are such variants too.     *)
MutantNoIncrement(t, m) ==
    /\ LockFree
    /\ m_mutex' = t
    /\ request' = m
    /\ UNCHANGED pending_requests

ScheduleUpdate(t, m) ==
    /\ LockFree
    /\ m_mutex' = t
    /\ request' = m
    /\ pending_requests' = pending_requests + 1


Enqueue(t) ==
    /\ m_mutex = t
    /\ Len(queue) < QueueCapacity
    /\ queue' = Append(queue, request)
    /\ m_mutex' = NoThread
    /\ request' = NoMap
    /\ UNCHANGED <<mapVars, main, pending_requests, activated_, loopVars, tickVars>>

(* The zero timeout given to enqueue makes a full queue an error, which the    *)
(* callers ignore: the map loses this tick.                                    *)
EnqueueFails(t) ==
    /\ m_mutex = t
    /\ Len(queue) >= QueueCapacity
    /\ pending_requests' = pending_requests - 1
    /\ refused' = refused \union {request}
    /\ m_mutex' = NoThread
    /\ request' = NoMap
    /\ UNCHANGED <<mapVars, main, queue, activated_, updated, loopVars>>

-----------------------------------------------------------------------------
(* The world thread outside MapManager::Update. Maps are created only here:    *)
(* every caller of CreateMap runs while no map is being updated.               *)

CreateBaseMap(m) ==
    /\ main = "serial"
    /\ m \notin i_maps
    /\ i_maps' = i_maps \union {m}
    /\ UNCHANGED <<m_InstancedMaps, main, poolVars, loopVars, tickVars>>

CreateInstance(i) ==
    /\ main = "serial"
    /\ Parent[i] \in i_maps
    /\ i \notin m_InstancedMaps
    /\ m_InstancedMaps' = m_InstancedMaps \union {i}
    /\ UNCHANGED <<i_maps, main, poolVars, loopVars, tickVars>>

(* A step that only moves the world thread on. *)
Goes(from, to) ==
    /\ main = from
    /\ main' = to
    /\ UNCHANGED <<mapVars, poolVars, loopVars, tickVars>>

(* MapManager::Update, once its timer has passed. *)
StartUpdate ==
    /\ main = "serial"
    /\ main' = "schedule"
    /\ todo' = i_maps
    /\ updated' = {}
    /\ refused' = {}
    /\ UNCHANGED <<mapVars, poolVars, workVars>>

ScheduleBaseMap(m) ==
    /\ main = "schedule"
    /\ activated_
    /\ m_mutex # World
    /\ m \in todo
    /\ todo' = todo \ {m}
    /\ ScheduleUpdate(World, m)
    /\ UNCHANGED <<mapVars, main, queue, activated_, workVars, tickVars>>

UpdateBaseMapInline(m) ==
    /\ main = "schedule"
    /\ ~activated_
    /\ updating[World] = NoMap
    /\ m \in todo
    /\ todo' = todo \ {m}
    /\ updating' = [updating EXCEPT ![World] = m]
    /\ instTodo' = [instTodo EXCEPT ![World] = InstancesOf(m)]
    /\ UNCHANGED <<mapVars, main, inlineInst, poolVars, tickVars>>

(* The loop ends one map early. *)
MutantLastMissing ==
    /\ main = "schedule"
    /\ Cardinality(todo) <= 1
    /\ m_mutex # World
    /\ updating[World] = NoMap
    /\ todo' = {}
    /\ main' = IF activated_ THEN "wait" ELSE "delayed"
    /\ UNCHANGED <<mapVars, poolVars, workVars, tickVars>>

(* The loop is over: wait, unless there are no workers to wait for. *)
AllScheduled ==
    /\ todo = {}
    /\ m_mutex # World
    /\ updating[World] = NoMap
    /\ Goes("schedule", IF activated_ THEN "wait" ELSE "delayed")

(* It sleeps first and tests the counter afterwards. *)
MutantSleepFirst ==
    /\ LockFree
    /\ Goes("wait", "asleep")

(* MapUpdater::wait: the predicate is tested with the mutex held, and          *)
(* m_condition.wait releases the mutex and falls asleep in one step.           *)
WaitSleeps ==
    /\ LockFree
    /\ pending_requests > 0
    /\ Goes("wait", "asleep")

(* It waits for an empty queue only. *)
MutantEmptyQueue ==
    /\ LockFree
    /\ queue = <<>>
    /\ Goes("wait", "delayed")

WaitReturns ==
    /\ LockFree
    /\ pending_requests = 0
    /\ Goes("wait", "delayed")

(* A condition variable may wake its waiter without a broadcast. *)
SpuriousWakeup == Goes("asleep", "wait")

(* DelayedUpdate of every map, the object accessor and the transports. *)
DelayedUpdate == Goes("delayed", "serial")

(* MapManager::UnloadAll at shutdown: every map is deleted first, and only     *)
(* then does deactivate wait for the updater and stop the executor.            *)
UnloadAll ==
    /\ main = "serial"
    /\ i_maps' = {}
    /\ m_InstancedMaps' = {}
    /\ main' = IF activated_ THEN "deactivate" ELSE "stopped"
    /\ UNCHANGED <<poolVars, loopVars, tickVars>>

Deactivate ==
    /\ main = "deactivate"
    /\ LockFree
    /\ pending_requests = 0
    /\ activated_' = FALSE
    /\ main' = "stopped"
    /\ UNCHANGED <<mapVars, queue, pending_requests, lockVars, loopVars, tickVars>>

-----------------------------------------------------------------------------
(* A worker: DelayExecutor::svc, MapUpdateRequest::call, MapInstanced::Update. *)
(* The request stays in the queue. *)
MutantPeek(w) ==
    /\ activated_
    /\ updating[w] = NoMap
    /\ queue # <<>>
    /\ updating' = [updating EXCEPT ![w] = Head(queue)]
    /\ instTodo' = [instTodo EXCEPT ![w] = InstancesOf(Head(queue))]
    /\ UNCHANGED <<mapVars, main, todo, inlineInst, poolVars, tickVars>>

Dequeue(w) ==
    /\ activated_
    /\ updating[w] = NoMap
    /\ queue # <<>>
    /\ updating' = [updating EXCEPT ![w] = Head(queue)]
    /\ instTodo' = [instTodo EXCEPT ![w] = InstancesOf(Head(queue))]
    /\ queue' = Tail(queue)
    /\ UNCHANGED <<mapVars, main, todo, inlineInst, pending_requests, activated_,
                    lockVars, tickVars>>

(* The loop of MapInstanced::Update, in whichever thread runs it. An instance  *)
(* that can be unloaded is destroyed, or kept when it still has players; it is *)
(* updated in neither case.                                                    *)
Looping(t) == m_mutex # t /\ inlineInst = NoMap

DestroyInstance(t, i) ==
    /\ Looping(t)
    /\ i \in instTodo[t]
    /\ instTodo' = [instTodo EXCEPT ![t] = @ \ {i}]
    /\ m_InstancedMaps' = m_InstancedMaps \ {i}
    /\ UNCHANGED <<i_maps, main, todo, updating, inlineInst, poolVars, tickVars>>

KeepInstance(t, i) ==
    /\ Looping(t)
    /\ i \in instTodo[t]
    /\ instTodo' = [instTodo EXCEPT ![t] = @ \ {i}]
    /\ UNCHANGED <<mapVars, main, todo, updating, inlineInst, poolVars, tickVars>>

ScheduleInstance(t, i) ==
    /\ Looping(t)
    /\ activated_
    /\ i \in instTodo[t]
    /\ instTodo' = [instTodo EXCEPT ![t] = @ \ {i}]
    /\ ScheduleUpdate(t, i)
    /\ UNCHANGED <<mapVars, main, todo, updating, inlineInst, queue, activated_,
                    tickVars>>

UpdateInstanceInline(t, i) ==
    /\ Looping(t)
    /\ ~activated_
    /\ i \in instTodo[t]
    /\ instTodo' = [instTodo EXCEPT ![t] = @ \ {i}]
    /\ inlineInst' = i
    /\ UNCHANGED <<mapVars, main, todo, updating, poolVars, tickVars>>

InstanceDoneInline(t) ==
    /\ updating[t] # NoMap
    /\ inlineInst # NoMap
    /\ updated' = updated \union {inlineInst}
    /\ inlineInst' = NoMap
    /\ UNCHANGED <<mapVars, main, todo, updating, instTodo, refused, poolVars>>

BaseMapDoneInline ==
    /\ ~activated_
    /\ Looping(World)
    /\ updating[World] # NoMap
    /\ instTodo[World] = {}
    /\ updated' = updated \union {updating[World]}
    /\ updating' = [updating EXCEPT ![World] = NoMap]
    /\ UNCHANGED <<mapVars, main, todo, instTodo, inlineInst, refused, poolVars>>

(* No broadcast. *)
MutantNoBroadcast == main

(* MapUpdater::update_finished: a broadcast wakes the waiting world thread,    *)
(* whose loop tests the counter again.                                         *)
Woken == IF main = "asleep" THEN "wait" ELSE main

UpdateFinished(w) ==
    /\ updating[w] # NoMap
    /\ instTodo[w] = {}
    /\ LockFree
    /\ updating' = [updating EXCEPT ![w] = NoMap]
    /\ updated' = updated \union {updating[w]}
    /\ IF pending_requests = 0      \* logged as "BUG, report to devs"
       THEN UNCHANGED <<pending_requests, main>>
       ELSE /\ pending_requests' = pending_requests - 1
            /\ main' = Woken
    /\ UNCHANGED <<mapVars, todo, instTodo, inlineInst, queue, activated_, refused,
                    lockVars>>

(* The server has stopped; its workers have left DelayExecutor::svc. *)
Stopped ==
    /\ main = "stopped"
    /\ UNCHANGED vars

-----------------------------------------------------------------------------
WorldStep ==
    \/ \E m \in BaseMap : ScheduleBaseMap(m) \/ UpdateBaseMapInline(m)
    \/ AllScheduled \/ WaitSleeps \/ WaitReturns \/ DelayedUpdate \/ Deactivate
    \/ BaseMapDoneInline

WorkerStep(w) == Dequeue(w) \/ UpdateFinished(w)

InstanceStep(t) ==
    \/ \E i \in Instance :
         DestroyInstance(t, i) \/ KeepInstance(t, i) \/ ScheduleInstance(t, i)
                               \/ UpdateInstanceInline(t, i)
    \/ InstanceDoneInline(t)

ScheduleStep(t) == Enqueue(t) \/ EnqueueFails(t)

(* What the players do to the world decides these. *)
Outside ==
    \/ \E m \in BaseMap : CreateBaseMap(m)
    \/ \E i \in Instance : CreateInstance(i)
    \/ StartUpdate \/ UnloadAll \/ SpuriousWakeup

Next ==
    \/ WorldStep
    \/ \E w \in Worker : WorkerStep(w)
    \/ \E t \in Thread : InstanceStep(t) \/ ScheduleStep(t)
    \/ Outside
    \/ Stopped

Spec == Init /\ [][Next]_vars

(* A thread that can go on does go on; nothing makes a thread start a tick. *)
Fairness ==
    /\ WF_vars(WorldStep)
    /\ \A w \in Worker : WF_vars(WorkerStep(w))
    /\ \A t \in Thread : WF_vars(InstanceStep(t)) /\ WF_vars(ScheduleStep(t))

FairSpec == Spec /\ Fairness

-----------------------------------------------------------------------------
InTick    == main \in {"schedule", "wait", "asleep"}
Queued    == {queue[k] : k \in DOMAIN queue}
Busy      == {w \in Worker : updating[w] # NoMap}
Running   == ({updating[t] : t \in Thread} \union {inlineInst}) \ {NoMap}
Alive     == i_maps \union m_InstancedMaps

(* Every variable has its type. *)
TypeOK ==
    /\ i_maps \subseteq BaseMap
    /\ m_InstancedMaps \subseteq Instance
    /\ main \in {"serial", "schedule", "wait", "asleep", "delayed", "deactivate", "stopped"}
    /\ todo \subseteq BaseMap
    /\ updating \in [Thread -> Map \union {NoMap}]
    /\ instTodo \in [Thread -> SUBSET Instance]
    /\ inlineInst \in Instance \union {NoMap}
    /\ queue \in Seq(Map)
    /\ pending_requests \in Nat
    /\ m_mutex \in Thread \union {NoThread}
    /\ request \in Map \union {NoMap}
    /\ activated_ \in BOOLEAN
    /\ updated \subseteq Map
    /\ refused \subseteq Map

(* pending_requests counts exactly the requests queued, the one being          *)
(* scheduled and the ones a worker has in hand: update_finished never finds it *)
(* at zero, and wait returns when, and only when, nothing is left to do.       *)
PendingIsExact ==
    pending_requests = Len(queue) + Cardinality(Busy) + (IF LockFree THEN 0 ELSE 1)

(* While the world thread runs anything but the update of the maps (sessions,  *)
(* battlegrounds, scripts, DelayedUpdate, UnloadAll), no request is queued and *)
(* no thread is inside Map::Update.                                            *)
WorldThreadIsAlone ==
    ~InTick => /\ queue = <<>>
               /\ LockFree
               /\ Running = {}

(* A sleeping world thread has a wakeup coming: the schedule that fails inside *)
(* a worker takes the counter down without a broadcast, which is harmless only *)
(* because that worker's own request is still pending.                         *)
NoLostWakeup == main = "asleep" => pending_requests > 0

(* When the world thread goes on after the barrier, every base map has had its *)
(* update or was refused by the full queue in this tick: no request is lost.   *)
NoUpdateLost == main = "delayed" => i_maps \subseteq updated \union refused

(* Each map is in at most one of: waiting to be scheduled, being scheduled,    *)
(* queued, running, done. No thread's pointer to it can so outlive it.         *)
Tick == INSTANCE MapTick WITH
          phase   <- IF InTick THEN "tick" ELSE "serial",
          alive   <- Alive,
          running <- Running,
          done    <- updated

(* The whole machinery carries out ticks as MapTick.tla promises them: a map   *)
(* is updated at most once a tick, only while it exists, by one thread, and is *)
(* destroyed only when nobody is about to update it.                           *)
ImplementsTick == Tick!TickSpec

(* MapManager::Update, once begun, ends. *)
UpdateEnds == InTick ~> ~InTick

-----------------------------------------------------------------------------
(* The inductive strengthening behind the properties above, in two layers.     *)
(* Barrier is what the counter, the mutex and the position of the world thread *)
(* say of each other.                                                          *)

LockConsistent ==
    /\ LockFree <=> request = NoMap
    /\ m_mutex = World => main = "schedule"
    /\ \A w \in Worker : m_mutex = w => updating[w] # NoMap

IdleHasNoInstances == \A t \in Thread : updating[t] = NoMap => instTodo[t] = {}

(* Either the workers update the maps or the world thread does. *)
OneMode ==
    IF activated_
    THEN updating[World] = NoMap /\ inlineInst = NoMap
    ELSE queue = <<>> /\ LockFree /\ \A w \in Worker : updating[w] = NoMap

WaitConsistent ==
    /\ main \in {"wait", "asleep"} => activated_ /\ todo = {}
    /\ main = "deactivate" => activated_

SerialIsQuiet ==
    ~InTick => /\ queue = <<>>
               /\ LockFree
               /\ inlineInst = NoMap
               /\ todo = {}
               /\ \A t \in Thread : updating[t] = NoMap

InlineConsistent ==
    /\ updating[World] # NoMap => main = "schedule"
    /\ inlineInst # NoMap => updating[World] # NoMap

Barrier ==
    /\ TypeOK
    /\ PendingIsExact
    /\ NoLostWakeup
    /\ LockConsistent
    /\ IdleHasNoInstances
    /\ OneMode
    /\ WaitConsistent
    /\ SerialIsQuiet
    /\ InlineConsistent

(* Places is where every map of the tick is. A map is in one place only, and   *)
(* it is alive as long as it is in one; an instance is in one only when its    *)
(* base map has been reached.                                                  *)

OnTheWay  == todo \union ({request} \ {NoMap}) \union Queued
Reached(m) == m \in Running \union updated

Distinct == \A j, k \in DOMAIN queue : queue[j] = queue[k] => j = k

InOnePlace ==
    /\ Distinct
    /\ \A t, u \in Thread : updating[t] = updating[u] /\ t # u => updating[t] = NoMap
    /\ \A t, u \in Thread : t # u => instTodo[t] \intersect instTodo[u] = {}
    /\ inlineInst # NoMap => \A t \in Thread : updating[t] # inlineInst
    /\ request \notin todo \union Queued
    /\ todo \intersect Queued = {}
    /\ OnTheWay \intersect Running = {}
    /\ \A t \in Thread : instTodo[t] \intersect (OnTheWay \union Running) = {}
    /\ InTick => updated \intersect (OnTheWay \union Running) = {}
    /\ InTick => \A t \in Thread : instTodo[t] \intersect updated = {}

AliveWhileUsed ==
    /\ OnTheWay \union Running \subseteq Alive
    /\ \A t \in Thread : instTodo[t] \subseteq InstancesOf(updating[t])

InstancesAfterBase ==
    \A i \in Instance :
        InTick /\ (i \in OnTheWay \union Running \union updated) => Reached(Parent[i])

Places ==
    /\ InOnePlace
    /\ AliveWhileUsed
    /\ InstancesAfterBase

Covered == InTick \/ main = "delayed" =>
              i_maps \subseteq OnTheWay \union Running \union updated \union refused

IInv == Barrier /\ Places /\ Covered
=============================================================================
