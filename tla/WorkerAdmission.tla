--------------------------- MODULE WorkerAdmission ---------------------------
(***************************************************************************)
(* The .NET-side admission queue of the EXL3 worker engine                 *)
(* (src/ExLlamaSharp/Engine/Worker/WorkerAdmissionQueue.cs).               *)
(*                                                                         *)
(* A request takes a slot before its submit is written to the Python       *)
(* worker and gives it back when its stream ends.  Requests that find no   *)
(* slot wait, ordered by priority and then by arrival; a worker statistics *)
(* report or a released slot wakes at most one of them.                    *)
(*                                                                         *)
(* All operations run under _gate and are therefore single actions.  The   *)
(* cancellation of a waiter is not: the token callback cancels the slot    *)
(* first (CancelToken) and the waiter leaves the list later, when its      *)
(* catch block gets the lock (CatchCancelled).  Nor is the setting of      *)
(* MaxNumSeqs under the lock: every load of a model replaces the options   *)
(* that _maxSeqs() reads (SetOptions), with slots taken and requests       *)
(* waiting, and wakes nobody.                                              *)
(*                                                                         *)
(* A request is one call of AdmitAsync, so it is used once.                *)
(***************************************************************************)
EXTENDS Integers, FiniteSets

CONSTANTS
  Requests,    \* the calls of AdmitAsync
  Priorities,  \* the priorities a request may carry
  Settings,    \* the values options give to EngineOptions.MaxNumSeqs
  Pendings,    \* the values of "pending" a worker report may carry
  BatchSizes   \* the values of "max_batch_size" a worker report may carry

ASSUME AdmissionAssumption ==
  /\ IsFiniteSet(Requests)
  /\ Priorities \subseteq Int
  /\ Settings \subseteq Int
  /\ Pendings \subseteq Nat
  /\ BatchSizes \subseteq Nat

VARIABLES
  waiters,   \* _waiters, a set: the list is always sorted by Before
  seq,       \* _seq
  inFlight,  \* _inFlight
  stats,     \* _stats
  maxSeqs,   \* EngineOptions.MaxNumSeqs, what _maxSeqs() returns
  slot,      \* the progress of each request's AdmitAsync, see SlotStates
  ticket     \* Waiter.Priority and Waiter.Seq of each request

admissionVars == <<waiters, seq, inFlight, stats, maxSeqs, slot, ticket>>

\* "cancelled": the slot's task is cancelled and the catch block is still to
\* run; "held": AdmitAsync has returned or is bound to return without throwing.
SlotStates == {"new", "waiting", "cancelled", "held", "gone"}

NoStats == [Seen |-> FALSE, Pending |-> 0, MaxBatchSize |-> 0]
NoTicket == [Priority |-> 0, Seq |-> 0]

WorkerStats == [Seen : {TRUE}, Pending : Pendings, MaxBatchSize : BatchSizes]

-----------------------------------------------------------------------------
(* Derived notions *)

\* Mutation of Before: the comparer's operands swapped for the priority.
BeforeLowestFirst(a, b) ==
  \/ ticket[a].Priority < ticket[b].Priority
  \/ /\ ticket[a].Priority = ticket[b].Priority
     /\ ticket[a].Seq < ticket[b].Seq

\* The order of the sorted list of waiters.
Before(a, b) ==
  \/ ticket[a].Priority > ticket[b].Priority
  \/ /\ ticket[a].Priority = ticket[b].Priority
     /\ ticket[a].Seq < ticket[b].Seq

Holders == {r \in Requests : slot[r] = "held"}

AtLeast(lo, n) == IF n < lo THEN lo ELSE n
AtMost(hi, n) == IF n > hi THEN hi ELSE n

Capacity(st) ==
  IF st.Seen /\ st.MaxBatchSize > 0
    THEN AtMost(st.MaxBatchSize, AtLeast(1, maxSeqs))
    ELSE AtLeast(1, maxSeqs)

\* Mutation of CanAdmit: one request too many.
CanAdmitOffByOne(n, st) ==
  /\ n <= Capacity(st)
  /\ IF st.Seen THEN st.Pending <= 1 ELSE n < 1

CanAdmit(n, st) ==
  /\ n < Capacity(st)
  /\ IF st.Seen THEN st.Pending <= 1 ELSE n < 1

\* Waiters whose slot is not cancelled, in the list q.
Live(q) == {r \in q : slot[r] = "waiting"}

\* The waiter TryAdmitOneLocked ends at: the first one it can wake.
IsNext(r, q) == r \in Live(q) /\ \A o \in Live(q) \ {r} : Before(r, o)

\* Mutation of TryAdmitOne: the slot offered to a cancelled waiter stays taken.
TryAdmitOneKeepsSlot(n, st, sl) ==
  \/ /\ ~CanAdmit(n, st) \/ waiters = {}
     /\ inFlight' = n
     /\ slot' = sl
     /\ UNCHANGED waiters
  \/ /\ CanAdmit(n, st)
     /\ \E r \in waiters :
          /\ \A o \in waiters \ {r} : Before(r, o)
          /\ waiters' = waiters \ {r}
          /\ inFlight' = n + 1
          /\ slot' = IF slot[r] = "waiting" THEN [sl EXCEPT ![r] = "held"] ELSE sl

\* Mutation of TryAdmitOne: it gives up at a cancelled waiter.
TryAdmitOneNoRetry(n, st, sl) ==
  \/ /\ ~CanAdmit(n, st) \/ waiters = {}
     /\ inFlight' = n
     /\ slot' = sl
     /\ UNCHANGED waiters
  \/ /\ CanAdmit(n, st)
     /\ \E r \in waiters :
          /\ \A o \in waiters \ {r} : Before(r, o)
          /\ waiters' = waiters \ {r}
          /\ inFlight' = IF slot[r] = "waiting" THEN n + 1 ELSE n
          /\ slot' = IF slot[r] = "waiting" THEN [sl EXCEPT ![r] = "held"] ELSE sl

\* TryAdmitOneLocked, started with n slots taken, the statistics st and the
\* slots sl.  Cancelled waiters are popped and skipped until one accepts the
\* slot; when none does, the list is drained.
TryAdmitOne(n, st, sl) ==
  \/ /\ ~CanAdmit(n, st)
     /\ inFlight' = n
     /\ slot' = sl
     /\ UNCHANGED waiters
  \/ /\ CanAdmit(n, st)
     /\ Live(waiters) = {}
     /\ waiters' = {}
     /\ inFlight' = n
     /\ slot' = sl
  \/ /\ CanAdmit(n, st)
     /\ \E r \in waiters :
          /\ IsNext(r, waiters)
          /\ waiters' = {o \in waiters : o # r /\ Before(r, o)}
          /\ inFlight' = n + 1
          /\ slot' = [sl EXCEPT ![r] = "held"]

-----------------------------------------------------------------------------
(* Operations *)

AdmissionInit ==
  /\ waiters = {}
  /\ seq = 0
  /\ inFlight = 0
  /\ stats = NoStats
  /\ maxSeqs \in Settings
  /\ slot = [r \in Requests |-> "new"]
  /\ ticket = [r \in Requests |-> NoTicket]

\* Mutation of AdmitAsync: the fast path does not look at the list.
AdmitAsyncJumpsQueue(r, p) ==
  /\ slot[r] = "new"
  /\ UNCHANGED <<stats, maxSeqs>>
  /\ \/ /\ CanAdmit(inFlight, stats)
        /\ inFlight' = inFlight + 1
        /\ slot' = [slot EXCEPT ![r] = "held"]
        /\ UNCHANGED <<waiters, seq, ticket>>
     \/ /\ ~CanAdmit(inFlight, stats)
        /\ seq' = seq + 1
        /\ ticket' = [ticket EXCEPT ![r] = [Priority |-> p, Seq |-> seq + 1]]
        /\ waiters' = waiters \cup {r}
        /\ slot' = [slot EXCEPT ![r] = "waiting"]
        /\ UNCHANGED inFlight

\* AdmitAsync up to its await: the fast path, or a place in the sorted list.
AdmitAsync(r, p) ==
  /\ slot[r] = "new"
  /\ UNCHANGED <<stats, maxSeqs>>
  /\ \/ /\ CanAdmit(inFlight, stats) /\ waiters = {}
        /\ inFlight' = inFlight + 1
        /\ slot' = [slot EXCEPT ![r] = "held"]
        /\ UNCHANGED <<waiters, seq, ticket>>
     \/ /\ ~(CanAdmit(inFlight, stats) /\ waiters = {})
        /\ seq' = seq + 1
        /\ ticket' = [ticket EXCEPT ![r] = [Priority |-> p, Seq |-> seq + 1]]
        /\ waiters' = waiters \cup {r}
        /\ slot' = [slot EXCEPT ![r] = "waiting"]
        /\ UNCHANGED inFlight

\* The token callback: Slot.TrySetCanceled, outside the lock.
CancelToken(r) ==
  /\ slot[r] = "waiting"
  /\ slot' = [slot EXCEPT ![r] = "cancelled"]
  /\ UNCHANGED <<waiters, seq, inFlight, stats, maxSeqs, ticket>>

\* Mutation of CatchCancelled: it gives back a slot it never had.
CatchCancelledReleases(r) ==
  /\ slot[r] = "cancelled"
  /\ slot' = [slot EXCEPT ![r] = "gone"]
  /\ waiters' = waiters \ {r}
  /\ inFlight' = inFlight - 1
  /\ UNCHANGED <<seq, stats, maxSeqs, ticket>>

\* The catch block of AdmitAsync: leave the list and throw.
CatchCancelled(r) ==
  /\ slot[r] = "cancelled"
  /\ slot' = [slot EXCEPT ![r] = "gone"]
  /\ waiters' = waiters \ {r}
  /\ UNCHANGED <<seq, inFlight, stats, maxSeqs, ticket>>

\* Release, called once by a request that was admitted.
Release(r) ==
  /\ slot[r] = "held"
  /\ TryAdmitOne(AtLeast(0, inFlight - 1), stats, [slot EXCEPT ![r] = "gone"])
  /\ UNCHANGED <<seq, stats, maxSeqs, ticket>>

\* OnStats, raised for every statistics record the worker writes.
OnStats(st) ==
  /\ stats' = st
  /\ TryAdmitOne(inFlight, st, slot)
  /\ UNCHANGED <<seq, maxSeqs, ticket>>

\* A load replaces the options of the live engine.  Slots that are held stay
\* held, and nobody is woken.
SetOptions(n) ==
  /\ maxSeqs' = n
  /\ UNCHANGED <<waiters, seq, inFlight, stats, slot, ticket>>

AdmissionNext ==
  \/ \E r \in Requests, p \in Priorities : AdmitAsync(r, p)
  \/ \E r \in Requests : CancelToken(r) \/ CatchCancelled(r) \/ Release(r)
  \/ \E st \in WorkerStats : OnStats(st)
  \/ \E n \in Settings : SetOptions(n)

AdmissionSpec == AdmissionInit /\ [][AdmissionNext]_admissionVars

-----------------------------------------------------------------------------
(* Properties *)

\* The state of the queue is well formed.
AdmissionTypeOK ==
  /\ waiters \subseteq Requests
  /\ seq \in Nat
  /\ inFlight \in Nat
  /\ stats \in WorkerStats \cup {NoStats}
  /\ maxSeqs \in Settings
  /\ slot \in [Requests -> SlotStates]
  /\ ticket \in [Requests -> [Priority : Int, Seq : Nat]]

\* The counter is the number of requests that hold a slot: a slot granted to
\* a waiter that was cancelled in the meantime is taken back, and the clamp at
\* zero in Release never hides a lost or doubled release
\* (WorkerAdmissionQueue.cs:86, 150-154).
SlotAccounting == inFlight = Cardinality(Holders)

\* A slot is granted only within the capacity of that moment, the worker's
\* last batch size included: a setting or a report that shrank it below the slots
\* already held stops every grant until enough of them are back (CapacityLocked).
GrantsFit ==
  [][(\E r \in Requests : slot[r] # "held" /\ slot'[r] = "held")
       => Cardinality(Holders') <= Capacity(stats')]_admissionVars

\* Every request whose slot is still open is in the list, where a later grant
\* finds it, and nobody in the list already has a slot.
WaitersListed ==
  \A r \in Requests :
    /\ slot[r] = "waiting" => r \in waiters
    /\ r \in waiters => slot[r] \in {"waiting", "cancelled"}

\* Nobody waits while a slot is free, unless someone holds one and will wake
\* the list when it is released: there is no lost wake-up although every
\* event wakes one waiter at most and AdmitAsync wakes none.
NoLostWakeup ==
  waiters # {} /\ CanAdmit(inFlight, stats) => inFlight > 0

\* The state of a request as its caller sees it: a cancelled waiter is gone, also
\* while it is still in the list.
CallerState == [r \in Requests |-> IF slot[r] = "cancelled" THEN "gone" ELSE slot[r]]

Semaphore == INSTANCE SlotSemaphore
  WITH slots <- AtLeast(1, maxSeqs), state <- CallerState, order <- ticket

\* The counter, the sorted list, the settings and the reports together are a
\* semaphore whose slots go to the head of the line: nothing a grant, a release or a report does
\* to cancelled waiters and to the counter can be seen from outside
\* (WorkerAdmissionQueue.cs, all of it).
ImplementsSemaphore == Semaphore!SemSpec

\* A request never gets a slot ahead of a request that was waiting with a
\* higher priority, or with the same priority for longer: not by a grant to
\* the wrong waiter, nor by arriving at the moment a slot is free.
NoOvertaking ==
  [][\A a, b \in Requests :
       /\ slot[a] = "waiting" /\ slot'[a] = "waiting"
       /\ slot[b] # "held" /\ slot'[b] = "held"
       => /\ slot[b] = "waiting"
          /\ ticket[b].Priority >= ticket[a].Priority
          /\ ticket[b].Priority = ticket[a].Priority
               => ticket[b].Seq < ticket[a].Seq]_admissionVars

=============================================================================
