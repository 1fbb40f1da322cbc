----------------------------- MODULE EngineHost -----------------------------
(***************************************************************************)
(* The engine host of the server                                           *)
(* (src/ExLlamaSharp.Server/Services/EngineHostService.cs and              *)
(* EngineHostService.Watchdog.cs): one engine, which is replaced now and   *)
(* then, the model it is believed to have, and the threads that load,      *)
(* unload, cancel, recycle and restart it.                                 *)
(*                                                                         *)
(* A thread is a background load (TryQueueLoad), an administrator's        *)
(* request, or the watchdog.  Most of the state is guarded by the load     *)
(* lock, but not all: the loading flag is a lock of its own, and three     *)
(* places dispose of the engine while somebody else may hold the load      *)
(* lock.  One action ends at each await; UnloadCoreAsync, whose answer     *)
(* nobody looks at, is one action with the step it belongs to, except in   *)
(* the reset after a failed load.                                          *)
(*                                                                         *)
(* Of an engine instance (see WorkerEngine) only its process, the model    *)
(* _loaded stands for and the model really in the worker are kept.         *)
(***************************************************************************)
EXTENDS Integers

CONSTANTS
  Models,      \* model paths
  Tasks,       \* background loads, each used once
  Admins,      \* administrators' requests, each used once
  Watchdog,    \* the watchdog's thread
  Engines,     \* engine instances; a disposed one may be used again
  None,        \* null
  MaxRestarts, \* EngineHostService.MaxRestarts
  MaxDeaths,   \* bound of the model: deaths of worker processes
  LoadsFail,   \* environment: a load may fail or time out
  Probes,      \* environment: /health and the dashboard call GetMetrics
  InFlight     \* environment: jobs are under way when a worker dies

Threads == Tasks \cup Admins \cup {Watchdog}

ASSUME HostAssumption ==
  /\ Tasks \cap Admins = {} /\ Watchdog \notin Tasks \cup Admins
  /\ None \notin Models \cup Engines \cup Threads
  /\ MaxRestarts \in Nat /\ MaxDeaths \in Nat
  /\ {LoadsFail, Probes, InFlight} \subseteq BOOLEAN

VARIABLES
  engine,    \* _engine
  inst,      \* the engine instances
  path,      \* _loadedModelPath
  attempts,  \* _restartAttempts
  flag,      \* _loadingFlag
  lock,      \* the holder of _loadLock
  current,   \* the task of _loadCts and _loadTask
  cancelled, \* the tasks and requests whose token is cancelled
  at,        \* where each thread is
  want,      \* the path each thread works for
  using,     \* the instance whose LoadAsync, or in a reset UnloadAsync, a
             \* thread awaits
  deaths     \* deaths so far

engineVars == <<engine, inst>>
taskVars == <<flag, current, cancelled>>
vars == <<engineVars, path, attempts, taskVars, lock, at, want, using, deaths>>

Instance == [proc : {"none", "alive", "dead"},
             loaded : Models \cup {None}, weights : Models \cup {None}]

Blank == [proc |-> "none", loaded |-> None, weights |-> None]

Goto(x, place) == at' = [at EXCEPT ![x] = place]

\* EnsureEngine: a new instance when there is none.
Fresh == {e \in Engines : \A x \in Threads : using[x] # e}
EnsureEngine(e) == IF engine # None THEN e = engine ELSE e \in Fresh

\* UnloadCoreAsync on the instance e of the instances i.
Unloaded(e, i) ==
  IF e = None \/ i[e].loaded = None THEN i
  ELSE [i EXCEPT ![e].loaded = None, ![e].weights = None]

\* Dispose() of the current engine: its process is killed.
Disposed(i) == IF engine = None THEN i ELSE [i EXCEPT ![engine] = Blank]

Init ==
  /\ engine = None /\ inst = [e \in Engines |-> Blank]
  /\ path = None /\ attempts = 0
  /\ flag = FALSE /\ current = None /\ cancelled = {}
  /\ lock = None
  /\ at = [x \in Threads |-> IF x = Watchdog THEN "watch" ELSE "new"]
  /\ want = [x \in Threads |-> None]
  /\ using = [x \in Threads |-> None]
  /\ deaths = 0

-----------------------------------------------------------------------------
(* LoadAsync, for any thread *)

\* Where a thread continues after LoadAsync returned or threw.
AfterLoad(x, ok) ==
  CASE x = Watchdog -> "watch"
    [] x \in Admins -> "done"
    [] OTHER -> IF ok THEN "finally" ELSE "reset"

\* Mutation of LoadLock: the load lock is not waited for.
LoadUnlocked(x) ==
  /\ at[x] = "load"
  /\ lock' = x
  /\ Goto(x, "profile")
  /\ UNCHANGED <<engineVars, taskVars, path, attempts, want, using, deaths>>

\* The load lock is taken, and the load profile applied.
LoadLock(x) ==
  /\ at[x] = "load" /\ lock = None
  /\ lock' = x
  /\ Goto(x, "profile")
  /\ UNCHANGED <<engineVars, taskVars, path, attempts, want, using, deaths>>

LoadLockCancelled(x) ==
  /\ at[x] = "load" /\ x \in cancelled
  /\ Goto(x, AfterLoad(x, FALSE))
  /\ UNCHANGED <<engineVars, taskVars, path, attempts, lock, want, using, deaths>>

\* A model that is loaded is unloaded.
LoadUnload(x) ==
  /\ at[x] = "profile"
  /\ \E e \in Engines :
       /\ EnsureEngine(e)
       /\ engine' = e
       /\ inst' = Unloaded(e, inst)
       /\ path' = IF inst[e].loaded # None THEN None ELSE path
  /\ Goto(x, "begin")
  /\ UNCHANGED <<taskVars, attempts, lock, want, using, deaths>>

\* The load profile, or multi-GPU, VRAM or speculative settings, do not fit the
\* model, or the token is cancelled: LoadAsync throws before the unload or after
\* it, and before it asks the engine for anything.
LoadRefused(x) ==
  /\ at[x] \in {"profile", "begin"}
  /\ LoadsFail \/ x \in cancelled
  /\ lock' = None
  /\ Goto(x, AfterLoad(x, FALSE))
  /\ UNCHANGED <<engineVars, taskVars, path, attempts, want, using, deaths>>

\* The engine starts its worker, unless one runs, and asks it to load.
LoadBegin(x) ==
  /\ at[x] = "begin" /\ engine # None
  /\ inst' = [inst EXCEPT ![engine].proc = "alive"]
  /\ using' = [using EXCEPT ![x] = engine]
  /\ Goto(x, "loading")
  /\ UNCHANGED <<taskVars, engine, path, attempts, lock, want, deaths>>

\* The worker has loaded the model.
LoadReply(x) ==
  /\ at[x] = "loading" /\ inst[using[x]].proc = "alive"
  /\ inst' = [inst EXCEPT ![using[x]].loaded = want[x],
                          ![using[x]].weights = want[x]]
  /\ Goto(x, "start")
  /\ UNCHANGED <<taskVars, engine, path, attempts, lock, want, using, deaths>>

\* The catch block: whatever _engine is by now is unloaded.
LoadCatch(x, i) ==
  /\ inst' = Unloaded(engine, i)
  /\ path' = None
  /\ lock' = None
  /\ using' = [using EXCEPT ![x] = None]
  /\ Goto(x, AfterLoad(x, FALSE))
  /\ UNCHANGED <<taskVars, engine, attempts, want, deaths>>

\* The load fails: an error reply, a dead or disposed worker, a cancelled
\* token (the worker may then finish the load that nobody waits for), or an
\* engine that is gone.
LoadError(x) ==
  \/ /\ at[x] = "begin" /\ engine = None
     /\ LoadCatch(x, inst)
  \/ /\ at[x] = "loading" /\ inst[using[x]].proc # "alive"
     /\ LoadCatch(x, inst)
  \/ /\ at[x] = "loading" /\ inst[using[x]].proc = "alive" /\ LoadsFail
     /\ LoadCatch(x, [inst EXCEPT ![using[x]].weights = None])
  \/ /\ at[x] = "loading" /\ inst[using[x]].proc = "alive" /\ x \in cancelled
     /\ LoadCatch(x, [inst EXCEPT ![using[x]].weights = want[x]])

\* _engine.Start(): it throws unless _engine is still the instance that was
\* loaded.
LoadStart(x) ==
  /\ at[x] = "start"
  /\ IF engine # None /\ inst[engine].loaded # None
       THEN /\ Goto(x, "publish")
            /\ UNCHANGED <<engineVars, taskVars, path, attempts, lock, want, using, deaths>>
       ELSE LoadCatch(x, inst)

\* The path is published.
LoadPublish(x) ==
  /\ at[x] = "publish"
  /\ path' = want[x]
  /\ attempts' = 0
  /\ Goto(x, "persist")
  /\ UNCHANGED <<engineVars, taskVars, lock, want, using, deaths>>


\* The settings are saved, or not, and the lock is released.  The message about
\* it needs the engine: if that was disposed of, the load fails after all, with
\* its path published.
LoadPersist(x) ==
  /\ at[x] = "persist"
  /\ lock' = None
  /\ using' = [using EXCEPT ![x] = None]
  /\ Goto(x, AfterLoad(x, engine # None))
  /\ UNCHANGED <<engineVars, taskVars, path, attempts, want, deaths>>

LoadStep(x) ==
  \/ LoadLock(x) \/ LoadLockCancelled(x) \/ LoadUnload(x) \/ LoadRefused(x)
  \/ LoadBegin(x) \/ LoadReply(x) \/ LoadError(x) \/ LoadStart(x)
  \/ LoadPublish(x) \/ LoadPersist(x)

-----------------------------------------------------------------------------
(* TryQueueLoad and its task *)

\* Mutation of QueueTask: the first load cancels a source that is not there.
QueueTaskCancelsNull(t, m) ==
  /\ at[t] = "new"
  /\ flag' = TRUE
  /\ cancelled' = cancelled \cup {current}
  /\ current' = t
  /\ want' = [want EXCEPT ![t] = m]

\* The flag is taken, the previous token source cancelled, a task started.
QueueTask(t, m) ==
  /\ at[t] = "new"
  /\ flag' = TRUE
  /\ cancelled' = (cancelled \cup {current}) \ {None}
  /\ current' = t
  /\ want' = [want EXCEPT ![t] = m]

TryQueueLoad(t, m) ==
  /\ ~flag
  /\ QueueTask(t, m)
  /\ Goto(t, "load")
  /\ UNCHANGED <<engineVars, path, attempts, lock, using, deaths>>

\* The 90 seconds of a task's token source pass, or the client of a request
\* goes away.
TimeOut(x) ==
  /\ LoadsFail
  /\ at[x] \in {"load", "profile", "begin", "loading", "recycleUnload"} /\ x \notin cancelled
  /\ cancelled' = cancelled \cup {x}
  /\ UNCHANGED <<engineVars, flag, current, path, attempts, lock, at, want, using, deaths>>

\* ResetEngineAfterFailedLoadAsync, after a failed load or in CancelLoadAsync.
Resetting(x) == at[x] \in {"reset", "cancelWait"}
AfterReset(x) == IF x \in Tasks THEN "finally" ELSE "cancelClear"

\* The lock is free: it is taken, and the engine asked to unload.
ResetLock(x) ==
  /\ Resetting(x) /\ lock = None
  /\ lock' = x
  /\ using' = [using EXCEPT ![x] = engine]
  /\ Goto(x, "resetUnload")
  /\ UNCHANGED <<engineVars, taskVars, path, attempts, want, deaths>>

\* Then whatever engine there is by now is disposed of.
ResetDispose(x) ==
  /\ at[x] = "resetUnload"
  /\ engine' = None
  /\ inst' = Disposed(Unloaded(using[x], inst))
  /\ path' = None
  /\ lock' = None
  /\ using' = [using EXCEPT ![x] = None]
  /\ Goto(x, AfterReset(x))
  /\ UNCHANGED <<taskVars, attempts, want, deaths>>

\* The lock is not free: the engine is disposed of underneath its holder.
ResetUnderneath(x) ==
  /\ Resetting(x) /\ lock # None
  /\ engine' = None
  /\ inst' = Disposed(inst)
  /\ path' = None
  /\ Goto(x, AfterReset(x))
  /\ UNCHANGED <<taskVars, attempts, lock, want, using, deaths>>

ResetStep(x) == ResetLock(x) \/ ResetDispose(x) \/ ResetUnderneath(x)

\* A task that was cancelled by its successor reads the token of its disposed
\* source, which throws: there is no reset.
ResetSkipped(t) ==
  /\ at[t] = "reset"
  /\ t \in cancelled /\ current # t
  /\ Goto(t, "finally")
  /\ UNCHANGED <<engineVars, taskVars, path, attempts, lock, want, using, deaths>>

\* Mutation of TaskFinally: the flag is left set.
TaskKeepsFlag(t) ==
  /\ at[t] = "finally"
  /\ Goto(t, "done")
  /\ UNCHANGED <<engineVars, taskVars, path, attempts, lock, want, using, deaths>>

TaskFinally(t) ==
  /\ at[t] = "finally"
  /\ flag' = FALSE
  /\ Goto(t, "done")
  /\ UNCHANGED <<engineVars, current, cancelled, path, attempts, lock, want, using, deaths>>

TaskStep(t) == ResetStep(t) \/ ResetSkipped(t) \/ TaskFinally(t)

-----------------------------------------------------------------------------
(* CancelLoadAsync, RecycleWorkerForGpuSettingsAsync, UnloadAsync, LoadAsync *)

Request(a, place) == at[a] = "new" /\ Goto(a, place)

DirectLoad(a, m) ==
  /\ Request(a, "load")
  /\ want' = [want EXCEPT ![a] = m]
  /\ UNCHANGED <<engineVars, taskVars, path, attempts, lock, using, deaths>>

Unload(a) ==
  /\ Request(a, "done") /\ lock = None
  /\ inst' = Unloaded(engine, inst)
  /\ path' = None
  /\ UNCHANGED <<taskVars, engine, attempts, lock, want, using, deaths>>

\* The current task is cancelled and waited for, up to 15 seconds.
CancelLoad(a) ==
  /\ Request(a, "cancelWait")
  /\ cancelled' = (cancelled \cup {current}) \ {None}
  /\ UNCHANGED <<engineVars, flag, current, path, attempts, lock, want, using, deaths>>

CancelClear(a) ==
  /\ at[a] = "cancelClear"
  /\ flag' = FALSE
  /\ Goto(a, "done")
  /\ UNCHANGED <<engineVars, current, cancelled, path, attempts, lock, want, using, deaths>>

\* The path to load again is remembered before the load lock is waited for.
Recycle(a) ==
  /\ Request(a, "recycleUnload")
  /\ want' = [want EXCEPT ![a] = path]
  /\ UNCHANGED <<engineVars, taskVars, path, attempts, lock, using, deaths>>

RecycleUnload(a) ==
  /\ at[a] = "recycleUnload" /\ lock = None
  /\ inst' = Unloaded(engine, inst)
  /\ path' = None
  /\ Goto(a, "recycleDispose")
  /\ UNCHANGED <<taskVars, engine, attempts, lock, want, using, deaths>>

\* The wait for the lock is cancelled, and with it the rest.
RecycleCancelled(a) ==
  /\ at[a] = "recycleUnload" /\ a \in cancelled
  /\ Goto(a, "done")
  /\ UNCHANGED <<engineVars, taskVars, path, attempts, lock, want, using, deaths>>

RecycleDispose(a) ==
  /\ at[a] = "recycleDispose"
  /\ engine' = None
  /\ inst' = Disposed(inst)
  /\ flag' = FALSE
  /\ Goto(a, "recycleQueue")
  /\ UNCHANGED <<current, cancelled, path, attempts, lock, want, using, deaths>>

RecycleQueue(a) ==
  /\ at[a] = "recycleQueue"
  /\ IF want[a] = None \/ flag
       THEN /\ Goto(a, "done")
            /\ UNCHANGED <<taskVars, want>>
       ELSE \E t \in Tasks :
              /\ QueueTask(t, want[a])
              /\ at' = [at EXCEPT ![t] = "load", ![a] = "done"]
  /\ UNCHANGED <<engineVars, path, attempts, lock, using, deaths>>

AdminStep(a) ==
  \/ ResetStep(a) \/ CancelClear(a)
  \/ RecycleUnload(a) \/ RecycleCancelled(a) \/ RecycleDispose(a) \/ RecycleQueue(a)

-----------------------------------------------------------------------------
(* The watchdog *)

WorkerDead == engine # None /\ inst[engine].proc # "alive"
IsLoaded == engine # None /\ inst[engine].loaded # None

\* A turn of the loop that finds nothing wrong with a loaded model.
WatchdogHealthy ==
  /\ at[Watchdog] = "watch"
  /\ IsLoaded /\ ~flag /\ ~WorkerDead
  /\ attempts' = 0
  /\ UNCHANGED <<engineVars, taskVars, path, lock, at, want, using, deaths>>

\* A turn that finds the worker dead, up to the first await of TryRestartAsync.
\* Without a path nothing is done.
WatchdogFailure ==
  /\ at[Watchdog] = "watch"
  /\ WorkerDead /\ (flag \/ IsLoaded)
  /\ path # None
  /\ attempts' = attempts + 1
  /\ want' = [want EXCEPT ![Watchdog] = path]
  /\ Goto(Watchdog, IF attempts + 1 > MaxRestarts THEN "giveUp" ELSE "restartUnload")
  /\ UNCHANGED <<engineVars, taskVars, path, lock, using, deaths>>

\* UnloadAsync, for good or before the restart; it forgets the path.
WatchdogUnload ==
  /\ at[Watchdog] \in {"restartUnload", "giveUp"} /\ lock = None
  /\ inst' = Unloaded(engine, inst)
  /\ path' = None
  /\ Goto(Watchdog, IF at[Watchdog] = "giveUp" THEN "watch" ELSE "restartDispose")
  /\ UNCHANGED <<taskVars, engine, attempts, lock, want, using, deaths>>

\* Five seconds later the engine, whoever loads it by then, is disposed of and
\* the model is loaded again.
WatchdogDispose ==
  /\ at[Watchdog] = "restartDispose"
  /\ engine' = None
  /\ inst' = Disposed(inst)
  /\ Goto(Watchdog, "load")
  /\ UNCHANGED <<taskVars, path, attempts, lock, want, using, deaths>>

WatchdogStep == WatchdogHealthy \/ WatchdogFailure \/ WatchdogUnload \/ WatchdogDispose

-----------------------------------------------------------------------------
(* The worker and the rest of the server *)

Die(e) ==
  /\ inst[e].proc = "alive" /\ deaths < MaxDeaths
  /\ inst' = [inst EXCEPT ![e].proc = "dead", ![e].weights = None]
  /\ deaths' = deaths + 1
  /\ UNCHANGED <<engine, path, attempts, taskVars, lock, at, want, using>>

\* GetMetrics of a health check or of the dashboard finds the worker dead:
\* the engine forgets its model.
Probe ==
  /\ Probes /\ IsLoaded /\ WorkerDead
  /\ inst' = [inst EXCEPT ![engine].loaded = None]
  /\ UNCHANGED <<engine, path, attempts, taskVars, lock, at, want, using, deaths>>

\* A line written after the worker died, the submit of a job that was let in or
\* the cancel of a stream that was open, starts a new worker, without a model.
Respawn ==
  /\ InFlight /\ IsLoaded /\ inst[engine].proc = "dead"
  /\ inst' = [inst EXCEPT ![engine].proc = "alive"]
  /\ UNCHANGED <<engine, path, attempts, taskVars, lock, at, want, using, deaths>>

\* A request reads Engine, which makes an instance when there is none.
GetEngine ==
  /\ Probes /\ engine = None
  /\ engine' \in Fresh
  /\ UNCHANGED <<inst, path, attempts, taskVars, lock, at, want, using, deaths>>

Next ==
  \/ \E x \in Threads : LoadStep(x)
  \/ \E t \in Tasks :
       TaskStep(t) \/ \E m \in Models : TryQueueLoad(t, m)
  \/ \E x \in Tasks \cup Admins : TimeOut(x)
  \/ \E a \in Admins :
       \/ Unload(a) \/ CancelLoad(a) \/ Recycle(a) \/ AdminStep(a)
       \/ \E m \in Models : DirectLoad(a, m)
  \/ WatchdogStep
  \/ \E e \in Engines : Die(e)
  \/ Probe \/ Respawn \/ GetEngine

Spec == Init /\ [][Next]_vars

\* What the server does when nobody asks for anything and no worker dies.
HostStep ==
  \/ \E x \in Threads : LoadStep(x)
  \/ \E t \in Tasks : TaskStep(t)
  \/ \E a \in Admins : AdminStep(a)
  \/ WatchdogFailure \/ WatchdogUnload \/ WatchdogDispose

\* The server does not stop while one of its threads has something to do.  No
\* thread goes on for ever here, so that none is left behind, not even one that
\* waits for the load lock while others take it.
Fairness == WF_vars(HostStep)

FairSpec == Spec /\ Fairness

-----------------------------------------------------------------------------
(* Properties *)

Places == {"new", "done", "load", "profile", "begin", "loading", "start",
           "publish", "persist", "reset", "resetUnload", "finally",
           "cancelWait", "cancelClear", "recycleUnload", "recycleDispose",
           "recycleQueue", "watch", "restartUnload", "restartDispose", "giveUp"}

\* The state of the host is well formed.
HostTypeOK ==
  /\ engine \in Engines \cup {None}
  /\ inst \in [Engines -> Instance]
  /\ path \in Models \cup {None}
  /\ attempts \in Nat
  /\ flag \in BOOLEAN /\ current \in Tasks \cup {None} /\ cancelled \subseteq Tasks \cup Admins
  /\ lock \in Threads \cup {None}
  /\ at \in [Threads -> Places]
  /\ want \in [Threads -> Models \cup {None}]
  /\ using \in [Threads -> Engines \cup {None}]

InLoad(x) == at[x] \in {"profile", "begin", "loading", "start", "publish", "persist"}

Busy(t) == at[t] \notin {"new", "done"}

\* At most one thread is inside the engine's load, and it holds the lock,
\* although tasks, requests and the watchdog may all be loading.
OneLoadInside ==
  \A x \in Threads : InLoad(x) => lock = x /\ \A y \in Threads \ {x} : ~InLoad(y)

\* The loading flag never outlives the load it stands for: otherwise every
\* later load would be refused as "already in progress".
NoStuckFlag == flag => \E t \in Tasks : Busy(t)


=============================================================================
