-------------------------- MODULE EngineHostProofs --------------------------
(***************************************************************************)
(* Proofs about EngineHost, for any models, engines, tasks, requests and   *)
(* any number of deaths: its state is well formed, loads exclude each      *)
(* other although the loading flag does not, and the loading flag is never *)
(* left behind.                                                            *)
(***************************************************************************)
EXTENDS EngineHost, TLAPS

\* A thread inside the engine's load, or in a reset that found the load lock
\* free, is the holder of the lock.
LoaderHoldsLock ==
  \A x \in Threads : InLoad(x) \/ at[x] = "resetUnload" => lock = x

\* The inductive invariant.
HostInv == HostTypeOK /\ LoaderHoldsLock /\ NoStuckFlag

\* Unloading and disposing keep the instances well formed.
LEMMA InstancesKept ==
  ASSUME HostTypeOK, NEW e \in Engines \cup {None}, NEW i \in [Engines -> Instance]
  PROVE  Unloaded(e, i) \in [Engines -> Instance] /\ Disposed(i) \in [Engines -> Instance]
  BY DEF Unloaded, Disposed, Blank, HostTypeOK, Instance

\* A background load that leaves LoadAsync still has its finally block ahead,
\* and a thread that leaves it is outside the load.
LEMMA AfterLoadPlace ==
  ASSUME NEW x \in Threads, NEW ok \in BOOLEAN
  PROVE  /\ AfterLoad(x, ok) \in {"watch", "done", "finally", "reset"}
         /\ x \in Tasks => AfterLoad(x, ok) \in {"finally", "reset"}
  BY HostAssumption DEF AfterLoad, Threads

\* The initial state satisfies the invariant.
LEMMA InitInv == Init => HostInv
<1>. SUFFICES ASSUME Init PROVE HostInv
  OBVIOUS
<1>1. HostTypeOK
  BY DEF Init, HostTypeOK, Blank, Instance, Places, Threads
<1>2. LoaderHoldsLock /\ NoStuckFlag
  BY DEF Init, LoaderHoldsLock, NoStuckFlag, InLoad, Threads
<1>. QED
  BY <1>1, <1>2 DEF HostInv

\* The catch block of LoadAsync preserves the invariant.
LEMMA CatchKeepsInv ==
  ASSUME HostInv, NEW x \in Threads, InLoad(x), NEW i \in [Engines -> Instance],
         LoadCatch(x, i)
  PROVE  HostInv'
<1>1. HostTypeOK'
  BY InstancesKept, AfterLoadPlace
     DEF HostInv, HostTypeOK, LoadCatch, Goto, Places, taskVars
<1>2. LoaderHoldsLock'
  BY AfterLoadPlace DEF HostInv, HostTypeOK, LoaderHoldsLock, InLoad, LoadCatch, Goto
<1>3. NoStuckFlag'
  BY AfterLoadPlace, HostAssumption
     DEF HostInv, HostTypeOK, NoStuckFlag, Busy, LoadCatch, Goto, taskVars, Threads
<1>. QED
  BY <1>1, <1>2, <1>3 DEF HostInv

-----------------------------------------------------------------------------
(* The steps *)

\* The steps of LoadAsync preserve the invariant.
LEMMA LoadStepInv ==
  ASSUME HostInv, NEW x \in Threads, LoadStep(x)
  PROVE  HostInv'
<1>1. CASE LoadLock(x)
  <2>1. HostTypeOK'
    BY <1>1, HostAssumption
       DEF HostInv, HostTypeOK, LoadLock, Goto, Places, Instance, Threads,
       engineVars, taskVars
  <2>2. LoaderHoldsLock'
    BY <1>1, HostAssumption
       DEF HostInv, HostTypeOK, LoaderHoldsLock, InLoad, LoadLock, Goto, Threads
  <2>3. NoStuckFlag'
    BY <1>1, HostAssumption
       DEF HostInv, HostTypeOK, NoStuckFlag, Busy, LoadLock, Goto, Threads, taskVars
  <2>. QED
    BY <2>1, <2>2, <2>3 DEF HostInv
<1>2. CASE LoadLockCancelled(x)
  <2>1. HostTypeOK'
    BY <1>2, AfterLoadPlace, HostAssumption
       DEF HostInv, HostTypeOK, LoadLockCancelled, Goto, Places, Instance, Threads,
       engineVars, taskVars
  <2>2. LoaderHoldsLock'
    BY <1>2, AfterLoadPlace, HostAssumption
       DEF HostInv, HostTypeOK, LoaderHoldsLock, InLoad, LoadLockCancelled, Goto, Threads
  <2>3. NoStuckFlag'
    BY <1>2, AfterLoadPlace, HostAssumption
       DEF HostInv, HostTypeOK, NoStuckFlag, Busy, LoadLockCancelled, Goto, Threads, taskVars
  <2>. QED
    BY <2>1, <2>2, <2>3 DEF HostInv
<1>3. CASE LoadRefused(x)
  <2>1. HostTypeOK'
    BY <1>3, AfterLoadPlace, HostAssumption
       DEF HostInv, HostTypeOK, LoadRefused, Goto, Places, Instance, Threads,
       engineVars, taskVars
  <2>2. LoaderHoldsLock'
    BY <1>3, AfterLoadPlace, HostAssumption
       DEF HostInv, HostTypeOK, LoaderHoldsLock, InLoad, LoadRefused, Goto, Threads
  <2>3. NoStuckFlag'
    BY <1>3, AfterLoadPlace, HostAssumption
       DEF HostInv, HostTypeOK, NoStuckFlag, Busy, LoadRefused, Goto, Threads, taskVars
  <2>. QED
    BY <2>1, <2>2, <2>3 DEF HostInv
<1>4. CASE LoadBegin(x)
  <2>1. HostTypeOK'
    BY <1>4, HostAssumption
       DEF HostInv, HostTypeOK, LoadBegin, Goto, Places, Instance, Threads,
       engineVars, taskVars
  <2>2. LoaderHoldsLock'
    BY <1>4, HostAssumption
       DEF HostInv, HostTypeOK, LoaderHoldsLock, InLoad, LoadBegin, Goto, Threads
  <2>3. NoStuckFlag'
    BY <1>4, HostAssumption
       DEF HostInv, HostTypeOK, NoStuckFlag, Busy, LoadBegin, Goto, Threads, taskVars
  <2>. QED
    BY <2>1, <2>2, <2>3 DEF HostInv
<1>5. CASE LoadReply(x)
  <2>0. inst' \in [Engines -> Instance]
    <3>1. want[x] \in Models \cup {None}
      BY DEF HostInv, HostTypeOK
    <3>2. ASSUME NEW e \in Engines
          PROVE  inst'[e] \in Instance
      BY <1>5, <3>1, <3>2 DEF HostInv, HostTypeOK, LoadReply, Instance
    <3>. QED
      BY <1>5, <3>2 DEF HostInv, HostTypeOK, LoadReply
  <2>1. HostTypeOK'
    BY <1>5, <2>0 DEF HostInv, HostTypeOK, LoadReply, Goto, Places, Threads, taskVars
  <2>2. LoaderHoldsLock'
    BY <1>5, HostAssumption
       DEF HostInv, HostTypeOK, LoaderHoldsLock, InLoad, LoadReply, Goto, Threads
  <2>3. NoStuckFlag'
    BY <1>5, HostAssumption
       DEF HostInv, HostTypeOK, NoStuckFlag, Busy, LoadReply, Goto, Threads, taskVars
  <2>. QED
    BY <2>1, <2>2, <2>3 DEF HostInv
<1>6. CASE LoadPublish(x)
  <2>1. HostTypeOK'
    BY <1>6, AfterLoadPlace, HostAssumption
       DEF HostInv, HostTypeOK, LoadPublish, Goto, Places, Instance, Threads,
       engineVars, taskVars
  <2>2. LoaderHoldsLock'
    BY <1>6, AfterLoadPlace, HostAssumption
       DEF HostInv, HostTypeOK, LoaderHoldsLock, InLoad, LoadPublish, Goto, Threads
  <2>3. NoStuckFlag'
    BY <1>6, AfterLoadPlace, HostAssumption
       DEF HostInv, HostTypeOK, NoStuckFlag, Busy, LoadPublish, Goto, Threads, taskVars
  <2>. QED
    BY <2>1, <2>2, <2>3 DEF HostInv
<1>7. CASE LoadError(x)
  <2>1. InLoad(x) /\ using[x] \in Engines \cup {None}
    BY <1>7 DEF HostInv, HostTypeOK, LoadError, InLoad
  <2>2. PICK i \in [Engines -> Instance] : LoadCatch(x, i)
    <3>1. want[x] \in Models \cup {None}
      BY DEF HostInv, HostTypeOK
    <3>2. \A w \in Models \cup {None} :
            [inst EXCEPT ![using[x]].weights = w] \in [Engines -> Instance]
      BY DEF HostInv, HostTypeOK, Instance
    <3>. QED
      BY <1>7, <3>1, <3>2 DEF HostInv, HostTypeOK, LoadError
  <2>. QED
    BY <2>1, <2>2, CatchKeepsInv
<1>8. CASE LoadStart(x)
  <2>1. CASE LoadCatch(x, inst)
    BY <1>8, <2>1, CatchKeepsInv DEF HostInv, HostTypeOK, LoadStart, InLoad
  <2>2. CASE /\ Goto(x, "publish")
             /\ UNCHANGED <<engineVars, taskVars, path, attempts, lock, want, using, deaths>>
    <3>1. HostTypeOK'
      BY <2>2 DEF HostInv, HostTypeOK, Goto, Places, engineVars, taskVars
    <3>2. LoaderHoldsLock'
      BY <1>8, <2>2 DEF HostInv, HostTypeOK, LoadStart, LoaderHoldsLock, InLoad, Goto
    <3>3. NoStuckFlag'
      BY <1>8, <2>2, HostAssumption
         DEF HostInv, HostTypeOK, LoadStart, NoStuckFlag, Busy, Goto, taskVars, Threads
    <3>. QED
      BY <3>1, <3>2, <3>3 DEF HostInv
  <2>. QED
    BY <1>8, <2>1, <2>2 DEF LoadStart
<1>9. CASE LoadUnload(x)
  <2>1. HostTypeOK'
    BY <1>9, InstancesKept, HostAssumption
       DEF HostInv, HostTypeOK, LoadUnload, EnsureEngine, Fresh, Goto, Places, Instance, Threads,
       engineVars, taskVars
  <2>2. LoaderHoldsLock'
    BY <1>9, InstancesKept, HostAssumption
       DEF HostInv, HostTypeOK, LoaderHoldsLock, InLoad, LoadUnload, EnsureEngine, Fresh, Goto, Threads
  <2>3. NoStuckFlag'
    BY <1>9, InstancesKept, HostAssumption
       DEF HostInv, HostTypeOK, NoStuckFlag, Busy, LoadUnload, EnsureEngine, Fresh, Goto, Threads, taskVars
  <2>. QED
    BY <2>1, <2>2, <2>3 DEF HostInv
<1>10. CASE LoadPersist(x)
  <2>1. HostTypeOK'
    BY <1>10, AfterLoadPlace, HostAssumption
       DEF HostInv, HostTypeOK, LoadPersist, Goto, Places, Instance, Threads,
       engineVars, taskVars
  <2>2. LoaderHoldsLock'
    BY <1>10, AfterLoadPlace, HostAssumption
       DEF HostInv, HostTypeOK, LoaderHoldsLock, InLoad, LoadPersist, Goto, Threads
  <2>3. NoStuckFlag'
    BY <1>10, AfterLoadPlace, HostAssumption
       DEF HostInv, HostTypeOK, NoStuckFlag, Busy, LoadPersist, Goto, Threads, taskVars
  <2>. QED
    BY <2>1, <2>2, <2>3 DEF HostInv
<1>. QED
  BY <1>1, <1>2, <1>3, <1>4, <1>5, <1>6, <1>7, <1>8, <1>9, <1>10 DEF LoadStep

\* The steps of a reset preserve it, for a task or a request that cancels.
LEMMA ResetStepInv ==
  ASSUME HostInv, NEW x \in Tasks \cup Admins, ResetStep(x)
  PROVE  HostInv'
<1>0. Disposed(Unloaded(using[x], inst)) \in [Engines -> Instance]
      /\ Disposed(inst) \in [Engines -> Instance]
  <2>1. using[x] \in Engines \cup {None} /\ inst \in [Engines -> Instance]
    BY DEF HostInv, HostTypeOK, Threads
  <2>2. Unloaded(using[x], inst) \in [Engines -> Instance]
    BY <2>1, InstancesKept DEF HostInv
  <2>. QED
    BY <2>1, <2>2, InstancesKept DEF HostInv
<1>1. CASE ResetLock(x)
  <2>1. HostTypeOK'
    BY <1>1, HostAssumption
       DEF HostInv, HostTypeOK, ResetLock, Resetting, Goto, Places, Instance, Threads,
       engineVars, taskVars
  <2>2. LoaderHoldsLock'
    BY <1>1, HostAssumption
       DEF HostInv, HostTypeOK, LoaderHoldsLock, InLoad, ResetLock, Resetting, Goto, Threads
  <2>3. NoStuckFlag'
    BY <1>1, HostAssumption
       DEF HostInv, HostTypeOK, NoStuckFlag, Busy, ResetLock, Resetting, Goto, Threads, taskVars
  <2>. QED
    BY <2>1, <2>2, <2>3 DEF HostInv
<1>2. CASE ResetDispose(x)
  <2>1. HostTypeOK'
    BY <1>2, <1>0, HostAssumption
       DEF HostInv, HostTypeOK, ResetDispose, AfterReset, Goto, Places, Instance, Threads,
       engineVars, taskVars
  <2>2. LoaderHoldsLock'
    BY <1>2, <1>0, HostAssumption
       DEF HostInv, HostTypeOK, LoaderHoldsLock, InLoad, ResetDispose, AfterReset, Goto, Threads
  <2>3. NoStuckFlag'
    BY <1>2, <1>0, HostAssumption
       DEF HostInv, HostTypeOK, NoStuckFlag, Busy, ResetDispose, AfterReset, Goto, Threads, taskVars
  <2>. QED
    BY <2>1, <2>2, <2>3 DEF HostInv
<1>3. CASE ResetUnderneath(x)
  <2>1. HostTypeOK'
    BY <1>3, <1>0, HostAssumption
       DEF HostInv, HostTypeOK, ResetUnderneath, Resetting, AfterReset, Goto, Places, Instance, Threads,
       engineVars, taskVars
  <2>2. LoaderHoldsLock'
    BY <1>3, <1>0, HostAssumption
       DEF HostInv, HostTypeOK, LoaderHoldsLock, InLoad, ResetUnderneath, Resetting, AfterReset, Goto, Threads
  <2>3. NoStuckFlag'
    BY <1>3, <1>0, HostAssumption
       DEF HostInv, HostTypeOK, NoStuckFlag, Busy, ResetUnderneath, Resetting, AfterReset, Goto, Threads, taskVars
  <2>. QED
    BY <2>1, <2>2, <2>3 DEF HostInv
<1>. QED
  BY <1>1, <1>2, <1>3 DEF ResetStep

\* The steps of a background load outside LoadAsync preserve it.
LEMMA TaskStepInv ==
  ASSUME HostInv, NEW t \in Tasks, NEW m,
         TaskStep(t) \/ (m \in Models /\ TryQueueLoad(t, m))
  PROVE  HostInv'
<1>1. CASE ResetStep(t)
  BY <1>1, ResetStepInv
<1>2. CASE m \in Models /\ TryQueueLoad(t, m)
  <2>1. HostTypeOK'
    BY <1>2, HostAssumption
       DEF HostInv, HostTypeOK, TryQueueLoad, QueueTask, Goto, Places, Instance, Threads,
       engineVars, taskVars
  <2>2. LoaderHoldsLock'
    BY <1>2, HostAssumption
       DEF HostInv, HostTypeOK, LoaderHoldsLock, InLoad, TryQueueLoad, QueueTask, Goto, Threads
  <2>3. NoStuckFlag'
    BY <1>2, HostAssumption
       DEF HostInv, HostTypeOK, NoStuckFlag, Busy, TryQueueLoad, QueueTask, Goto, Threads, taskVars
  <2>. QED
    BY <2>1, <2>2, <2>3 DEF HostInv
<1>3. CASE TaskFinally(t)
  <2>1. HostTypeOK'
    BY <1>3 DEF HostInv, HostTypeOK, TaskFinally, Goto, Places, engineVars
  <2>2. LoaderHoldsLock'
    BY <1>3 DEF HostInv, HostTypeOK, LoaderHoldsLock, InLoad, TaskFinally, Goto, Threads
  <2>3. NoStuckFlag'
    BY <1>3 DEF NoStuckFlag, TaskFinally
  <2>. QED
    BY <2>1, <2>2, <2>3 DEF HostInv
<1>4. CASE ResetSkipped(t)
  <2>1. HostTypeOK'
    BY <1>4, HostAssumption
       DEF HostInv, HostTypeOK, ResetSkipped, Goto, Places, Instance, Threads,
       engineVars, taskVars
  <2>2. LoaderHoldsLock'
    BY <1>4, HostAssumption
       DEF HostInv, HostTypeOK, LoaderHoldsLock, InLoad, ResetSkipped, Goto, Threads
  <2>3. NoStuckFlag'
    BY <1>4, HostAssumption
       DEF HostInv, HostTypeOK, NoStuckFlag, Busy, ResetSkipped, Goto, Threads, taskVars
  <2>. QED
    BY <2>1, <2>2, <2>3 DEF HostInv
<1>. QED
  BY <1>1, <1>2, <1>3, <1>4 DEF TaskStep

\* The steps of a request outside LoadAsync preserve it.
LEMMA AdminStepInv ==
  ASSUME HostInv, NEW a \in Admins, NEW m,
         (m \in Models /\ DirectLoad(a, m)) \/ Unload(a) \/ CancelLoad(a) \/ Recycle(a) \/ AdminStep(a)
  PROVE  HostInv'
<1>1. CASE m \in Models /\ DirectLoad(a, m)
  <2>1. HostTypeOK'
    BY <1>1, HostAssumption
       DEF HostInv, HostTypeOK, DirectLoad, Request, Goto, Places, Instance, Threads,
       engineVars, taskVars
  <2>2. LoaderHoldsLock'
    BY <1>1, HostAssumption
       DEF HostInv, HostTypeOK, LoaderHoldsLock, InLoad, DirectLoad, Request, Goto, Threads
  <2>3. NoStuckFlag'
    BY <1>1, HostAssumption
       DEF HostInv, HostTypeOK, NoStuckFlag, Busy, DirectLoad, Request, Goto, Threads, taskVars
  <2>. QED
    BY <2>1, <2>2, <2>3 DEF HostInv
<1>2. CASE Unload(a)
  <2>1. HostTypeOK'
    BY <1>2, InstancesKept, HostAssumption
       DEF HostInv, HostTypeOK, Unload, Request, Goto, Places, Instance, Threads,
       engineVars, taskVars
  <2>2. LoaderHoldsLock'
    BY <1>2, InstancesKept, HostAssumption
       DEF HostInv, HostTypeOK, LoaderHoldsLock, InLoad, Unload, Request, Goto, Threads
  <2>3. NoStuckFlag'
    BY <1>2, InstancesKept, HostAssumption
       DEF HostInv, HostTypeOK, NoStuckFlag, Busy, Unload, Request, Goto, Threads, taskVars
  <2>. QED
    BY <2>1, <2>2, <2>3 DEF HostInv
<1>3. CASE CancelLoad(a)
  <2>1. HostTypeOK'
    BY <1>3, HostAssumption
       DEF HostInv, HostTypeOK, CancelLoad, Request, Goto, Places, Instance, Threads,
       engineVars, taskVars
  <2>2. LoaderHoldsLock'
    BY <1>3, HostAssumption
       DEF HostInv, HostTypeOK, LoaderHoldsLock, InLoad, CancelLoad, Request, Goto, Threads
  <2>3. NoStuckFlag'
    BY <1>3, HostAssumption
       DEF HostInv, HostTypeOK, NoStuckFlag, Busy, CancelLoad, Request, Goto, Threads, taskVars
  <2>. QED
    BY <2>1, <2>2, <2>3 DEF HostInv
<1>4. CASE ResetStep(a)
  BY <1>4, ResetStepInv
<1>5. CASE CancelClear(a)
  <2>1. HostTypeOK'
    BY <1>5, HostAssumption
       DEF HostInv, HostTypeOK, CancelClear, Goto, Places, Instance, Threads,
       engineVars, taskVars
  <2>2. LoaderHoldsLock'
    BY <1>5, HostAssumption
       DEF HostInv, HostTypeOK, LoaderHoldsLock, InLoad, CancelClear, Goto, Threads
  <2>3. NoStuckFlag'
    BY <1>5, HostAssumption
       DEF HostInv, HostTypeOK, NoStuckFlag, Busy, CancelClear, Goto, Threads, taskVars
  <2>. QED
    BY <2>1, <2>2, <2>3 DEF HostInv
<1>6. CASE Recycle(a)
  <2>1. HostTypeOK'
    BY <1>6, HostAssumption
       DEF HostInv, HostTypeOK, Recycle, Request, Goto, Places, Instance, Threads,
       engineVars, taskVars
  <2>2. LoaderHoldsLock'
    BY <1>6, HostAssumption
       DEF HostInv, HostTypeOK, LoaderHoldsLock, InLoad, Recycle, Request, Goto, Threads
  <2>3. NoStuckFlag'
    BY <1>6, HostAssumption
       DEF HostInv, HostTypeOK, NoStuckFlag, Busy, Recycle, Request, Goto, Threads, taskVars
  <2>. QED
    BY <2>1, <2>2, <2>3 DEF HostInv
<1>7. CASE RecycleUnload(a)
  <2>1. HostTypeOK'
    BY <1>7, InstancesKept, HostAssumption
       DEF HostInv, HostTypeOK, RecycleUnload, Goto, Places, Instance, Threads,
       engineVars, taskVars
  <2>2. LoaderHoldsLock'
    BY <1>7, InstancesKept, HostAssumption
       DEF HostInv, HostTypeOK, LoaderHoldsLock, InLoad, RecycleUnload, Goto, Threads
  <2>3. NoStuckFlag'
    BY <1>7, InstancesKept, HostAssumption
       DEF HostInv, HostTypeOK, NoStuckFlag, Busy, RecycleUnload, Goto, Threads, taskVars
  <2>. QED
    BY <2>1, <2>2, <2>3 DEF HostInv
<1>8. CASE RecycleCancelled(a)
  <2>1. HostTypeOK'
    BY <1>8, HostAssumption
       DEF HostInv, HostTypeOK, RecycleCancelled, Goto, Places, Instance, Threads,
       engineVars, taskVars
  <2>2. LoaderHoldsLock'
    BY <1>8, HostAssumption
       DEF HostInv, HostTypeOK, LoaderHoldsLock, InLoad, RecycleCancelled, Goto, Threads
  <2>3. NoStuckFlag'
    BY <1>8, HostAssumption
       DEF HostInv, HostTypeOK, NoStuckFlag, Busy, RecycleCancelled, Goto, Threads, taskVars
  <2>. QED
    BY <2>1, <2>2, <2>3 DEF HostInv
<1>9. CASE RecycleDispose(a)
  <2>1. HostTypeOK'
    BY <1>9, InstancesKept, HostAssumption
       DEF HostInv, HostTypeOK, RecycleDispose, Goto, Places, Instance, Threads,
       engineVars, taskVars
  <2>2. LoaderHoldsLock'
    BY <1>9, InstancesKept, HostAssumption
       DEF HostInv, HostTypeOK, LoaderHoldsLock, InLoad, RecycleDispose, Goto, Threads
  <2>3. NoStuckFlag'
    BY <1>9, InstancesKept, HostAssumption
       DEF HostInv, HostTypeOK, NoStuckFlag, Busy, RecycleDispose, Goto, Threads, taskVars
  <2>. QED
    BY <2>1, <2>2, <2>3 DEF HostInv
<1>10. CASE RecycleQueue(a)
  <2>1. CASE Goto(a, "done") /\ UNCHANGED <<taskVars, want>>
    <3>1. HostTypeOK'
      BY <1>10, <2>1
         DEF HostInv, HostTypeOK, RecycleQueue, Goto, Places, engineVars, taskVars, Threads
    <3>2. LoaderHoldsLock'
      BY <1>10, <2>1
         DEF HostInv, HostTypeOK, LoaderHoldsLock, InLoad, RecycleQueue, Goto, Threads
    <3>3. NoStuckFlag'
      BY <1>10, <2>1, HostAssumption
         DEF HostInv, HostTypeOK, NoStuckFlag, Busy, RecycleQueue, Goto, taskVars, Threads
    <3>. QED
      BY <3>1, <3>2, <3>3 DEF HostInv
  <2>2. ASSUME NEW t \in Tasks, QueueTask(t, want[a]),
               at' = [at EXCEPT ![t] = "load", ![a] = "done"]
        PROVE  HostInv'
    <3>1. HostTypeOK'
      BY <1>10, <2>2
         DEF HostInv, HostTypeOK, RecycleQueue, QueueTask, Places, engineVars, Threads
    <3>2. LoaderHoldsLock'
      BY <1>10, <2>2
         DEF HostInv, HostTypeOK, LoaderHoldsLock, InLoad, RecycleQueue, QueueTask, Threads
    <3>3. NoStuckFlag'
      <4>1. at'[t] = "load"
        BY <2>2, HostAssumption DEF HostInv, HostTypeOK, Threads
      <4>. QED
        BY <4>1 DEF NoStuckFlag, Busy
    <3>. QED
      BY <3>1, <3>2, <3>3 DEF HostInv
  <2>. QED
    BY <1>10, <2>1, <2>2 DEF RecycleQueue
<1>. QED
  BY <1>1, <1>2, <1>3, <1>4, <1>5, <1>6, <1>7, <1>8, <1>9, <1>10 DEF AdminStep

\* The steps of the watchdog preserve it.
LEMMA WatchdogStepInv ==
  ASSUME HostInv, WatchdogStep
  PROVE  HostInv'
<1>1. CASE WatchdogHealthy
  <2>1. HostTypeOK'
    BY <1>1, HostAssumption
       DEF HostInv, HostTypeOK, WatchdogHealthy, Goto, Places, Instance, Threads,
       engineVars, taskVars
  <2>2. LoaderHoldsLock'
    BY <1>1, HostAssumption
       DEF HostInv, HostTypeOK, LoaderHoldsLock, InLoad, WatchdogHealthy, Goto, Threads
  <2>3. NoStuckFlag'
    BY <1>1, HostAssumption
       DEF HostInv, HostTypeOK, NoStuckFlag, Busy, WatchdogHealthy, Goto, Threads, taskVars
  <2>. QED
    BY <2>1, <2>2, <2>3 DEF HostInv
<1>2. CASE WatchdogFailure
  <2>1. HostTypeOK'
    BY <1>2, HostAssumption
       DEF HostInv, HostTypeOK, WatchdogFailure, Goto, Places, Instance, Threads,
       engineVars, taskVars
  <2>2. LoaderHoldsLock'
    BY <1>2, HostAssumption
       DEF HostInv, HostTypeOK, LoaderHoldsLock, InLoad, WatchdogFailure, Goto, Threads
  <2>3. NoStuckFlag'
    BY <1>2, HostAssumption
       DEF HostInv, HostTypeOK, NoStuckFlag, Busy, WatchdogFailure, Goto, Threads, taskVars
  <2>. QED
    BY <2>1, <2>2, <2>3 DEF HostInv
<1>3. CASE WatchdogUnload
  <2>1. HostTypeOK'
    BY <1>3, InstancesKept, HostAssumption
       DEF HostInv, HostTypeOK, WatchdogUnload, Goto, Places, Instance, Threads,
       engineVars, taskVars
  <2>2. LoaderHoldsLock'
    BY <1>3, InstancesKept, HostAssumption
       DEF HostInv, HostTypeOK, LoaderHoldsLock, InLoad, WatchdogUnload, Goto, Threads
  <2>3. NoStuckFlag'
    BY <1>3, InstancesKept, HostAssumption
       DEF HostInv, HostTypeOK, NoStuckFlag, Busy, WatchdogUnload, Goto, Threads, taskVars
  <2>. QED
    BY <2>1, <2>2, <2>3 DEF HostInv
<1>4. CASE WatchdogDispose
  <2>1. HostTypeOK'
    BY <1>4, InstancesKept, HostAssumption
       DEF HostInv, HostTypeOK, WatchdogDispose, Goto, Places, Instance, Threads,
       engineVars, taskVars
  <2>2. LoaderHoldsLock'
    BY <1>4, InstancesKept, HostAssumption
       DEF HostInv, HostTypeOK, LoaderHoldsLock, InLoad, WatchdogDispose, Goto, Threads
  <2>3. NoStuckFlag'
    BY <1>4, InstancesKept, HostAssumption
       DEF HostInv, HostTypeOK, NoStuckFlag, Busy, WatchdogDispose, Goto, Threads, taskVars
  <2>. QED
    BY <2>1, <2>2, <2>3 DEF HostInv
<1>. QED
  BY <1>1, <1>2, <1>3, <1>4 DEF WatchdogStep

\* The steps of the worker and of the rest of the server preserve it.
LEMMA WorldStepInv ==
  ASSUME HostInv, NEW e, NEW x,
         \/ e \in Engines /\ Die(e)
         \/ Probe \/ Respawn \/ GetEngine
         \/ x \in Tasks \cup Admins /\ TimeOut(x)
  PROVE  HostInv'
<1>1. CASE e \in Engines /\ Die(e)
  <2>0. inst' \in [Engines -> Instance]
    <3>1. ASSUME NEW d \in Engines
          PROVE  inst'[d] \in Instance
      BY <1>1, <3>1 DEF HostInv, HostTypeOK, Die, Instance
    <3>. QED
      BY <1>1, <3>1 DEF HostInv, HostTypeOK, Die
  <2>1. HostTypeOK'
    BY <1>1, <2>0 DEF HostInv, HostTypeOK, Die, Threads, taskVars
  <2>2. LoaderHoldsLock'
    BY <1>1, HostAssumption
       DEF HostInv, HostTypeOK, LoaderHoldsLock, InLoad, Die, Goto, Threads
  <2>3. NoStuckFlag'
    BY <1>1, HostAssumption
       DEF HostInv, HostTypeOK, NoStuckFlag, Busy, Die, Goto, Threads, taskVars
  <2>. QED
    BY <2>1, <2>2, <2>3 DEF HostInv
<1>2. CASE Probe
  <2>1. HostTypeOK'
    BY <1>2, HostAssumption
       DEF HostInv, HostTypeOK, Probe, IsLoaded, Goto, Places, Instance, Threads,
       engineVars, taskVars
  <2>2. LoaderHoldsLock'
    BY <1>2, HostAssumption
       DEF HostInv, HostTypeOK, LoaderHoldsLock, InLoad, Probe, IsLoaded, Goto, Threads
  <2>3. NoStuckFlag'
    BY <1>2, HostAssumption
       DEF HostInv, HostTypeOK, NoStuckFlag, Busy, Probe, IsLoaded, Goto, Threads, taskVars
  <2>. QED
    BY <2>1, <2>2, <2>3 DEF HostInv
<1>3. CASE Respawn
  <2>1. HostTypeOK'
    BY <1>3, HostAssumption
       DEF HostInv, HostTypeOK, Respawn, IsLoaded, Goto, Places, Instance, Threads,
       engineVars, taskVars
  <2>2. LoaderHoldsLock'
    BY <1>3, HostAssumption
       DEF HostInv, HostTypeOK, LoaderHoldsLock, InLoad, Respawn, IsLoaded, Goto, Threads
  <2>3. NoStuckFlag'
    BY <1>3, HostAssumption
       DEF HostInv, HostTypeOK, NoStuckFlag, Busy, Respawn, IsLoaded, Goto, Threads, taskVars
  <2>. QED
    BY <2>1, <2>2, <2>3 DEF HostInv
<1>4. CASE GetEngine
  <2>1. HostTypeOK'
    BY <1>4, HostAssumption
       DEF HostInv, HostTypeOK, GetEngine, Fresh, Goto, Places, Instance, Threads,
       engineVars, taskVars
  <2>2. LoaderHoldsLock'
    BY <1>4, HostAssumption
       DEF HostInv, HostTypeOK, LoaderHoldsLock, InLoad, GetEngine, Fresh, Goto, Threads
  <2>3. NoStuckFlag'
    BY <1>4, HostAssumption
       DEF HostInv, HostTypeOK, NoStuckFlag, Busy, GetEngine, Fresh, Goto, Threads, taskVars
  <2>. QED
    BY <2>1, <2>2, <2>3 DEF HostInv
<1>5. CASE x \in Tasks \cup Admins /\ TimeOut(x)
  <2>1. HostTypeOK'
    BY <1>5, HostAssumption
       DEF HostInv, HostTypeOK, TimeOut, Goto, Places, Instance, Threads,
       engineVars, taskVars
  <2>2. LoaderHoldsLock'
    BY <1>5, HostAssumption
       DEF HostInv, HostTypeOK, LoaderHoldsLock, InLoad, TimeOut, Goto, Threads
  <2>3. NoStuckFlag'
    BY <1>5, HostAssumption
       DEF HostInv, HostTypeOK, NoStuckFlag, Busy, TimeOut, Goto, Threads, taskVars
  <2>. QED
    BY <2>1, <2>2, <2>3 DEF HostInv
<1>. QED
  BY <1>1, <1>2, <1>3, <1>4, <1>5

-----------------------------------------------------------------------------
(* The theorems *)

\* Every step preserves the invariant.
LEMMA StepInv == HostInv /\ [Next]_vars => HostInv'
<1>. SUFFICES ASSUME HostInv, [Next]_vars PROVE HostInv'
  OBVIOUS
<1>1. ASSUME NEW x \in Threads, LoadStep(x) PROVE HostInv'
  BY <1>1, LoadStepInv
<1>2. ASSUME NEW t \in Tasks,
             TaskStep(t) \/ \E m \in Models : TryQueueLoad(t, m)
      PROVE  HostInv'
  BY <1>2, TaskStepInv
<1>3. ASSUME NEW a \in Admins,
             \/ Unload(a) \/ CancelLoad(a) \/ Recycle(a) \/ AdminStep(a)
             \/ \E m \in Models : DirectLoad(a, m)
      PROVE  HostInv'
  BY <1>3, AdminStepInv
<1>4. CASE WatchdogStep
  BY <1>4, WatchdogStepInv
<1>5. ASSUME NEW e \in Engines, Die(e) PROVE HostInv'
  BY <1>5, WorldStepInv
<1>6. ASSUME NEW x \in Tasks \cup Admins, TimeOut(x) PROVE HostInv'
  BY <1>6, WorldStepInv
<1>7. CASE Probe \/ Respawn \/ GetEngine
  BY <1>7, WorldStepInv
<1>8. CASE UNCHANGED vars
  BY <1>8 DEF vars, engineVars, taskVars, HostInv, HostTypeOK, LoaderHoldsLock, NoStuckFlag,
     InLoad, Busy
<1>. QED
  BY <1>1, <1>2, <1>3, <1>4, <1>5, <1>6, <1>7, <1>8 DEF Next

\* The invariant holds in every reachable state.
THEOREM InvHolds == Spec => []HostInv
  BY InitInv, StepInv, PTL DEF Spec

\* The state of the host stays well formed.
THEOREM TypeCorrect == Spec => []HostTypeOK
  BY InvHolds, PTL DEF HostInv

\* Two threads are never inside the engine's load together.
THEOREM LoadsExclude == Spec => []OneLoadInside
<1>1. HostInv => OneLoadInside
  BY DEF HostInv, LoaderHoldsLock, OneLoadInside
<1>. QED
  BY <1>1, InvHolds, PTL

\* The loading flag is set only while a background load runs.
THEOREM FlagIsCleared == Spec => []NoStuckFlag
  BY InvHolds, PTL DEF HostInv

=============================================================================
