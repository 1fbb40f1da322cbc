------------------------ MODULE WorkerAdmissionProofs ------------------------
(***************************************************************************)
(* Proofs about WorkerAdmission, for every finite set of requests, every   *)
(* sequence of worker reports and of settings of MaxNumSeqs: the queue is  *)
(* well formed, the in-flight counter is the number of slot holders, slots *)
(* are granted only within the capacity of the moment, every waiting       *)
(* request can be found by a later grant, no wake-up is lost and nobody is *)
(* overtaken; and the queue implements SlotSemaphore.                      *)
(***************************************************************************)
EXTENDS WorkerAdmission, FiniteSetTheorems, TLAPS

\* The counter never exceeds the highest setting.
Bounded(n) == \A B \in Nat \ {0} : (\A m \in Settings : m <= B) => n <= B
CounterBounded == Bounded(inFlight)

\* The inductive invariant.
AdmissionInv ==
  /\ AdmissionTypeOK
  /\ SlotAccounting
  /\ CounterBounded
  /\ WaitersListed
  /\ NoLostWakeup

-----------------------------------------------------------------------------
(* Lemmas on the set of holders *)

\* A request that takes a slot adds one holder.
LEMMA HoldersGrow ==
  ASSUME NEW H, NEW H2, NEW r, IsFiniteSet(H), r \notin H, H2 = H \cup {r}
  PROVE  IsFiniteSet(H2) /\ Cardinality(H2) = Cardinality(H) + 1
  BY FS_AddElement

\* A request that gives its slot back removes one holder.
LEMMA HoldersShrink ==
  ASSUME NEW H, NEW H2, NEW r, IsFiniteSet(H), r \in H, H2 = H \ {r}
  PROVE  /\ IsFiniteSet(H2)
         /\ Cardinality(H2) = Cardinality(H) - 1
         /\ Cardinality(H) >= 1
<1>1. IsFiniteSet(H2) /\ Cardinality(H2) = Cardinality(H) - 1
  BY FS_RemoveElement
<1>2. Cardinality(H2) \in Nat /\ Cardinality(H) \in Nat
  BY <1>1, FS_CardinalityType
<1>. QED
  BY <1>1, <1>2

\* The set of holders is finite.
LEMMA HoldersFinite == IsFiniteSet(Holders) /\ Cardinality(Holders) \in Nat
  BY FS_Subset, FS_CardinalityType, AdmissionAssumption DEF Holders

\* The capacity never exceeds the configured one.
LEMMA CapacityBound ==
  ASSUME NEW st \in WorkerStats \cup {NoStats}, maxSeqs \in Int
  PROVE  Capacity(st) \in Nat /\ Capacity(st) <= AtLeast(1, maxSeqs)
<1>1. AtLeast(1, maxSeqs) \in Nat
  BY DEF AtLeast
<1>2. st.MaxBatchSize \in Nat
  <2>1. CASE st \in WorkerStats
    BY <2>1, AdmissionAssumption DEF WorkerStats
  <2>2. CASE st = NoStats
    BY <2>2 DEF NoStats
  <2>. QED
    BY <2>1, <2>2
<1>3. CASE st.Seen /\ st.MaxBatchSize > 0
  BY <1>1, <1>2, <1>3 DEF Capacity, AtMost
<1>4. CASE ~(st.Seen /\ st.MaxBatchSize > 0)
  <2>1. Capacity(st) = AtLeast(1, maxSeqs)
    BY <1>4 DEF Capacity
  <2>. QED
    BY <1>1, <2>1
<1>. QED
  BY <1>3, <1>4

\* A setting is a number.
LEMMA SettingType == ASSUME AdmissionTypeOK PROVE maxSeqs \in Int
  BY AdmissionAssumption DEF AdmissionTypeOK

\* An operation that admits with n slots taken leaves no more of them taken than
\* the highest setting.
LEMMA AdmitFits ==
  ASSUME AdmissionTypeOK, NEW n \in Nat, NEW st \in WorkerStats \cup {NoStats},
         CanAdmit(n, st)
  PROVE  Bounded(n + 1)
<1>. SUFFICES ASSUME NEW B \in Nat \ {0}, \A m \in Settings : m <= B
              PROVE  n + 1 <= B
  BY DEF Bounded
<1>1. maxSeqs <= B /\ maxSeqs \in Int
  BY SettingType DEF AdmissionTypeOK
<1>2. AtLeast(1, maxSeqs) <= B /\ AtLeast(1, maxSeqs) \in Nat
  BY <1>1 DEF AtLeast
<1>3. Capacity(st) \in Nat /\ Capacity(st) <= AtLeast(1, maxSeqs)
  BY <1>1, CapacityBound
<1>4. n < Capacity(st)
  BY DEF CanAdmit
<1>. QED
  BY <1>2, <1>3, <1>4

\* With no slot taken the setting does not matter: one request always fits.
LEMMA FirstFits ==
  ASSUME AdmissionTypeOK, maxSeqs' \in Int, stats' = stats
  PROVE  CanAdmit(0, stats)' <=> CanAdmit(0, stats)
<1>1. maxSeqs \in Int /\ stats \in WorkerStats \cup {NoStats}
  BY SettingType DEF AdmissionTypeOK
<1>2. stats.MaxBatchSize \in Nat
  <2>1. CASE stats \in WorkerStats
    BY <2>1, AdmissionAssumption DEF WorkerStats
  <2>2. CASE stats = NoStats
    BY <2>2 DEF NoStats
  <2>. QED
    BY <1>1, <2>1, <2>2
<1>3. 0 < Capacity(stats)
  BY <1>1, <1>2 DEF Capacity, AtMost, AtLeast
<1>4. 0 < Capacity(stats)'
  BY <1>1, <1>2 DEF Capacity, AtMost, AtLeast
<1>. QED
  BY <1>3, <1>4 DEF CanAdmit

-----------------------------------------------------------------------------
(* The invariant is inductive *)

\* What a run of TryAdmitOneLocked does, started from a consistent state in
\* which n slots are taken: h is the set of requests that then hold a slot.
LEMMA TryAdmitOneKeepsInv ==
  ASSUME AdmissionInv,
         NEW n \in Nat, NEW st \in WorkerStats \cup {NoStats},
         NEW sl \in [Requests -> SlotStates],
         \A r \in Requests : slot[r] # "held" => sl[r] = slot[r],
         \A r \in Requests : slot[r] = "held" => sl[r] \in {"held", "gone"},
         n = Cardinality({r \in Requests : sl[r] = "held"}),
         Bounded(n),
         TryAdmitOne(n, st, sl),
         stats' = st, seq' = seq, ticket' = ticket, maxSeqs' = maxSeqs
  PROVE  AdmissionInv'
<1>. DEFINE h == {r \in Requests : sl[r] = "held"}
<1>0. IsFiniteSet(h)
  BY FS_Subset, AdmissionAssumption
<1>. USE DEF AdmissionInv, AdmissionTypeOK
<1>1. CASE ~CanAdmit(n, st) /\ inFlight' = n /\ slot' = sl /\ UNCHANGED waiters
  <2>1. AdmissionTypeOK' /\ CounterBounded'
    BY <1>1 DEF CounterBounded
  <2>2. SlotAccounting'
    BY <1>1 DEF SlotAccounting, Holders
  <2>3. WaitersListed'
    BY <1>1 DEF WaitersListed
  <2>4. NoLostWakeup'
    BY <1>1 DEF NoLostWakeup, CanAdmit, Capacity
  <2>. QED
    BY <2>1, <2>2, <2>3, <2>4
<1>2. CASE /\ CanAdmit(n, st) /\ Live(waiters) = {}
           /\ waiters' = {} /\ inFlight' = n /\ slot' = sl
  <2>1. AdmissionTypeOK' /\ CounterBounded'
    BY <1>2 DEF CounterBounded
  <2>2. SlotAccounting'
    BY <1>2 DEF SlotAccounting, Holders
  <2>3. WaitersListed'
    BY <1>2 DEF WaitersListed, Live
  <2>4. NoLostWakeup'
    BY <1>2 DEF NoLostWakeup
  <2>. QED
    BY <2>1, <2>2, <2>3, <2>4
<1>3. ASSUME CanAdmit(n, st), NEW r \in waiters, IsNext(r, waiters),
             waiters' = {o \in waiters : o # r /\ Before(r, o)},
             inFlight' = n + 1, slot' = [sl EXCEPT ![r] = "held"]
      PROVE  AdmissionInv'
  <2>1. r \in Requests /\ slot[r] = "waiting" /\ sl[r] = "waiting"
    BY <1>3 DEF IsNext, Live
  <2>2. AdmissionTypeOK'
    BY <1>3, <2>1 DEF SlotStates
  <2>3. CounterBounded'
    BY <1>3, AdmitFits DEF CounterBounded
  <2>4. Holders' = h \cup {r} /\ r \notin h
    BY <1>3, <2>1 DEF Holders
  <2>5. SlotAccounting'
    BY <1>0, <1>3, <2>4, HoldersGrow DEF SlotAccounting
  <2>6. WaitersListed'
    <3> SUFFICES ASSUME NEW q \in Requests
                 PROVE  /\ slot'[q] = "waiting" => q \in waiters'
                        /\ q \in waiters' => slot'[q] \in {"waiting", "cancelled"}
      BY DEF WaitersListed
    <3>1. CASE q = r
      BY <1>3, <2>1, <3>1
    <3>2. CASE q # r
      <4>1. slot'[q] = sl[q]
        BY <1>3, <2>1, <3>2
      <4>2. slot'[q] = "waiting" => q \in Live(waiters) \ {r}
        BY <3>2, <4>1 DEF WaitersListed, Live, SlotStates
      <4>3. q \in waiters' => sl[q] = slot[q]
        BY <1>3 DEF WaitersListed
      <4>. QED
        BY <1>3, <3>2, <4>1, <4>2, <4>3 DEF WaitersListed, IsNext, Live
    <3>. QED
      BY <3>1, <3>2
  <2>7. NoLostWakeup'
    BY <1>3 DEF NoLostWakeup
  <2>. QED
    BY <2>2, <2>3, <2>5, <2>6, <2>7
<1>. QED
  BY <1>1, <1>2, <1>3 DEF TryAdmitOne

\* The invariant holds initially.
LEMMA InitInv == AdmissionInit => AdmissionInv
<1>. SUFFICES ASSUME AdmissionInit PROVE AdmissionInv
  OBVIOUS
<1>. USE DEF AdmissionInit
<1>1. AdmissionTypeOK
  BY DEF AdmissionTypeOK, SlotStates, NoTicket
<1>2. SlotAccounting
  <2>1. Holders = {}
    BY DEF Holders
  <2>. QED
    BY <2>1, FS_EmptySet DEF SlotAccounting
<1>3. CounterBounded
  BY DEF CounterBounded, Bounded
<1>4. WaitersListed /\ NoLostWakeup
  BY DEF WaitersListed, NoLostWakeup
<1>. QED
  BY <1>1, <1>2, <1>3, <1>4 DEF AdmissionInv

\* Every operation preserves the invariant.
LEMMA StepInv == AdmissionInv /\ [AdmissionNext]_admissionVars => AdmissionInv'
<1>. SUFFICES ASSUME AdmissionInv, [AdmissionNext]_admissionVars
              PROVE  AdmissionInv'
  OBVIOUS
<1>. USE DEF AdmissionInv, AdmissionTypeOK
<1>0. IsFiniteSet(Holders)
  BY HoldersFinite
<1>1. ASSUME NEW r \in Requests, NEW p \in Priorities, AdmitAsync(r, p)
      PROVE  AdmissionInv'
  <2>. USE <1>1
  <2>1. CASE /\ CanAdmit(inFlight, stats) /\ waiters = {}
             /\ inFlight' = inFlight + 1
             /\ slot' = [slot EXCEPT ![r] = "held"]
             /\ UNCHANGED <<waiters, seq, ticket, stats, maxSeqs>>
    <3>1. AdmissionTypeOK'
      BY <2>1 DEF SlotStates
    <3>2. CounterBounded'
      BY <2>1, AdmitFits DEF CounterBounded
    <3>3. Holders' = Holders \cup {r} /\ r \notin Holders
      BY <2>1 DEF AdmitAsync, Holders
    <3>4. SlotAccounting'
      BY <1>0, <2>1, <3>3, HoldersGrow DEF SlotAccounting
    <3>5. WaitersListed' /\ NoLostWakeup'
      BY <2>1 DEF WaitersListed, NoLostWakeup
    <3>. QED
      BY <3>1, <3>2, <3>4, <3>5
  <2>2. CASE /\ ~(CanAdmit(inFlight, stats) /\ waiters = {})
             /\ seq' = seq + 1
             /\ ticket' = [ticket EXCEPT ![r] = [Priority |-> p, Seq |-> seq + 1]]
             /\ waiters' = waiters \cup {r}
             /\ slot' = [slot EXCEPT ![r] = "waiting"]
             /\ UNCHANGED <<inFlight, stats, maxSeqs>>
    <3>1. AdmissionTypeOK' /\ CounterBounded'
      BY <2>2, AdmissionAssumption DEF SlotStates, CounterBounded
    <3>2. Holders' = Holders
      BY <2>2 DEF AdmitAsync, Holders
    <3>3. SlotAccounting' /\ WaitersListed'
      BY <2>2, <3>2 DEF SlotAccounting, WaitersListed
    <3>4. NoLostWakeup'
      BY <2>2 DEF NoLostWakeup, CanAdmit, Capacity
    <3>. QED
      BY <3>1, <3>3, <3>4
  <2>. QED
    BY <2>1, <2>2 DEF AdmitAsync
<1>2. ASSUME NEW r \in Requests, CancelToken(r)
      PROVE  AdmissionInv'
  <2>1. Holders' = Holders
    BY <1>2 DEF CancelToken, Holders
  <2>2. AdmissionTypeOK' /\ CounterBounded' /\ SlotAccounting'
    BY <1>2, <2>1 DEF CancelToken, SlotStates, CounterBounded, SlotAccounting
  <2>3. WaitersListed' /\ NoLostWakeup'
    BY <1>2 DEF CancelToken, WaitersListed, NoLostWakeup, CanAdmit, Capacity
  <2>. QED
    BY <2>2, <2>3
<1>3. ASSUME NEW r \in Requests, CatchCancelled(r)
      PROVE  AdmissionInv'
  <2>1. Holders' = Holders
    BY <1>3 DEF CatchCancelled, Holders
  <2>2. AdmissionTypeOK' /\ CounterBounded' /\ SlotAccounting'
    BY <1>3, <2>1 DEF CatchCancelled, SlotStates, CounterBounded, SlotAccounting
  <2>3. WaitersListed' /\ NoLostWakeup'
    BY <1>3 DEF CatchCancelled, WaitersListed, NoLostWakeup, CanAdmit, Capacity
  <2>. QED
    BY <2>2, <2>3
<1>4. ASSUME NEW r \in Requests, Release(r)
      PROVE  AdmissionInv'
  <2>. DEFINE sl == [slot EXCEPT ![r] = "gone"]
              n == AtLeast(0, inFlight - 1)
  <2>1. {q \in Requests : sl[q] = "held"} = Holders \ {r} /\ r \in Holders
    BY <1>4 DEF Release, Holders
  <2>2. n = Cardinality({q \in Requests : sl[q] = "held"}) /\ n \in Nat
    BY <1>0, <2>1, HoldersShrink, FS_CardinalityType DEF SlotAccounting, AtLeast
  <2>3. Bounded(n)
    <3>1. n <= inFlight \/ n = 0
      BY DEF AtLeast
    <3>. HIDE DEF n
    <3>. QED
      BY <2>2, <3>1 DEF CounterBounded, Bounded
  <2>4. sl \in [Requests -> SlotStates]
    BY DEF SlotStates
  <2>5. TryAdmitOne(n, stats, sl) /\ UNCHANGED <<seq, stats, maxSeqs, ticket>>
    BY <1>4 DEF Release
  <2>6. /\ \A q \in Requests : slot[q] # "held" => sl[q] = slot[q]
        /\ \A q \in Requests : slot[q] = "held" => sl[q] \in {"held", "gone"}
    BY <2>1 DEF Holders
  <2>. HIDE DEF sl, n
  <2>. QED
    BY <2>2, <2>3, <2>4, <2>5, <2>6, TryAdmitOneKeepsInv
<1>5. ASSUME NEW st \in WorkerStats, OnStats(st)
      PROVE  AdmissionInv'
  BY <1>5, TryAdmitOneKeepsInv DEF OnStats, SlotAccounting, CounterBounded, Holders
<1>6. ASSUME NEW n \in Settings, SetOptions(n)
      PROVE  AdmissionInv'
  <2>1. AdmissionTypeOK' /\ Holders' = Holders /\ n \in Int
    BY <1>6, AdmissionAssumption DEF SetOptions, Holders
  <2>2. SlotAccounting' /\ CounterBounded' /\ WaitersListed'
    BY <1>6, <2>1 DEF SetOptions, SlotAccounting, CounterBounded, WaitersListed
  <2>3. NoLostWakeup'
    <3>1. UNCHANGED <<waiters, inFlight, stats>> /\ maxSeqs' \in Int
      BY <1>6, <2>1 DEF SetOptions
    <3>2. CASE inFlight = 0
      <4>1. CanAdmit(inFlight, stats)' <=> CanAdmit(inFlight, stats)
        BY <3>1, <3>2, FirstFits
      <4>. QED
        BY <3>1, <4>1 DEF NoLostWakeup
    <3>3. CASE inFlight > 0
      BY <3>1, <3>3 DEF NoLostWakeup
    <3>. QED
      BY <3>2, <3>3
  <2>. QED
    BY <2>1, <2>2, <2>3
<1>7. CASE UNCHANGED admissionVars
  BY <1>7 DEF admissionVars, SlotAccounting, CounterBounded, Holders,
              WaitersListed, NoLostWakeup, CanAdmit, Capacity
<1>. QED
  BY <1>1, <1>2, <1>3, <1>4, <1>5, <1>6, <1>7 DEF AdmissionNext

-----------------------------------------------------------------------------
(* Theorems *)

\* The invariant holds in every reachable state.
THEOREM InvHolds == AdmissionSpec => []AdmissionInv
  BY InitInv, StepInv, PTL DEF AdmissionSpec

\* The queue's state stays well formed, whatever the order of requests,
\* cancellations, releases and reports.
THEOREM TypeCorrect == AdmissionSpec => []AdmissionTypeOK
<1>1. AdmissionInv => AdmissionTypeOK
  BY DEF AdmissionInv
<1>. QED
  BY <1>1, InvHolds, PTL

\* The in-flight counter always equals the number of slot holders: no grant to
\* a cancelled waiter and no release is lost or counted twice.
THEOREM AccountingCorrect == AdmissionSpec => []SlotAccounting
<1>1. AdmissionInv => SlotAccounting
  BY DEF AdmissionInv
<1>. QED
  BY <1>1, InvHolds, PTL

\* Slots are granted only within the capacity of the moment.
THEOREM CapacityRespected == AdmissionSpec => GrantsFit
<1>. DEFINE Fits == (\E r \in Requests : slot[r] # "held" /\ slot'[r] = "held")
                      => Cardinality(Holders') <= Capacity(stats')
<1>1. AdmissionInv /\ AdmissionInv' /\ [AdmissionNext]_admissionVars
        => [Fits]_admissionVars
  <2>. SUFFICES ASSUME AdmissionInv, AdmissionInv', AdmissionNext,
                       NEW q \in Requests, slot[q] # "held", slot'[q] = "held"
                PROVE  Cardinality(Holders') <= Capacity(stats')
    OBVIOUS
  <2>. USE DEF AdmissionInv, AdmissionTypeOK
  <2>0. Cardinality(Holders') = inFlight' /\ inFlight \in Nat
    BY DEF SlotAccounting
  <2>1. ASSUME NEW n \in Nat, NEW st \in WorkerStats \cup {NoStats},
               inFlight' = n + 1, CanAdmit(n, st),
               stats' = st, maxSeqs' = maxSeqs
        PROVE  Cardinality(Holders') <= Capacity(stats')
    <3>1. Capacity(stats') = Capacity(st)
      BY <2>1 DEF Capacity
    <3>2. Capacity(st) \in Nat /\ n < Capacity(st)
      BY <2>1, CapacityBound, SettingType DEF CanAdmit
    <3>3. Capacity(stats') \in Nat
      BY <3>1, <3>2
    <3>. QED
      BY <2>0, <2>1, <3>1, <3>2, <3>3
  <2>2. ASSUME NEW n, NEW st, NEW sl \in [Requests -> SlotStates],
               TryAdmitOne(n, st, sl), sl[q] # "held"
        PROVE  inFlight' = n + 1 /\ CanAdmit(n, st)
    BY <2>2 DEF TryAdmitOne
  <2>3. ASSUME NEW r \in Requests, NEW p \in Priorities, AdmitAsync(r, p)
        PROVE  Cardinality(Holders') <= Capacity(stats')
    <3>1. /\ CanAdmit(inFlight, stats) /\ inFlight' = inFlight + 1
          /\ stats' = stats /\ maxSeqs' = maxSeqs
      BY <2>3 DEF AdmitAsync
    <3>. QED
      BY <2>1, <3>1
  <2>4. ASSUME NEW r \in Requests, Release(r)
        PROVE  Cardinality(Holders') <= Capacity(stats')
    <3>. DEFINE sl == [slot EXCEPT ![r] = "gone"]
                n == AtLeast(0, inFlight - 1)
    <3>1. sl \in [Requests -> SlotStates] /\ sl[q] # "held" /\ n \in Nat
      BY DEF SlotStates, AtLeast
    <3>2. TryAdmitOne(n, stats, sl) /\ stats' = stats /\ maxSeqs' = maxSeqs
      BY <2>4 DEF Release
    <3>. HIDE DEF sl, n
    <3>. QED
      BY <2>1, <2>2, <3>1, <3>2
  <2>5. ASSUME NEW st \in WorkerStats, OnStats(st)
        PROVE  Cardinality(Holders') <= Capacity(stats')
    BY <2>0, <2>1, <2>2, <2>5 DEF OnStats
  <2>6. ASSUME NEW r \in Requests, NEW m \in Settings,
               CancelToken(r) \/ CatchCancelled(r) \/ SetOptions(m)
        PROVE  FALSE
    BY <2>6 DEF CancelToken, CatchCancelled, SetOptions
  <2>. QED
    BY <2>3, <2>4, <2>5, <2>6 DEF AdmissionNext
<1>. QED
  BY <1>1, InvHolds, PTL DEF AdmissionSpec, GrantsFit

\* Waiting requests stay in the list and no wake-up is lost.
THEOREM NobodyStranded == AdmissionSpec => [](WaitersListed /\ NoLostWakeup)
<1>1. AdmissionInv => WaitersListed /\ NoLostWakeup
  BY DEF AdmissionInv
<1>. QED
  BY <1>1, InvHolds, PTL

\* A waiter with a better place is never overtaken.
THEOREM NobodyOvertaken == AdmissionSpec => NoOvertaking
<1>. DEFINE Fair(a, b) ==
       /\ slot[a] = "waiting" /\ slot'[a] = "waiting"
       /\ slot[b] # "held" /\ slot'[b] = "held"
       => /\ slot[b] = "waiting"
          /\ ticket[b].Priority >= ticket[a].Priority
          /\ ticket[b].Priority = ticket[a].Priority
               => ticket[b].Seq < ticket[a].Seq
<1>1. AdmissionInv /\ [AdmissionNext]_admissionVars
        => [\A a, b \in Requests : Fair(a, b)]_admissionVars
  <2>. SUFFICES ASSUME AdmissionInv, AdmissionNext,
                       NEW a \in Requests, NEW b \in Requests,
                       slot[a] = "waiting", slot'[a] = "waiting",
                       slot[b] # "held", slot'[b] = "held"
                PROVE  /\ slot[b] = "waiting"
                       /\ ticket[b].Priority >= ticket[a].Priority
                       /\ ticket[b].Priority = ticket[a].Priority
                            => ticket[b].Seq < ticket[a].Seq
    OBVIOUS
  <2>. USE DEF AdmissionInv, AdmissionTypeOK
  <2>0. a # b /\ a \in waiters
    BY DEF WaitersListed
  <2>1. ASSUME NEW n, NEW st, NEW sl \in [Requests -> SlotStates],
               TryAdmitOne(n, st, sl),
               \A q \in Requests : slot[q] # "held" => sl[q] = slot[q]
        PROVE  /\ slot[b] = "waiting"
               /\ Before(b, a)
    <3>1. sl[b] # "held" /\ sl[a] = "waiting"
      BY <2>1
    <3>2. PICK r \in waiters : IsNext(r, waiters) /\ slot' = [sl EXCEPT ![r] = "held"]
      BY <2>1, <3>1 DEF TryAdmitOne
    <3>3. r = b
      BY <2>1, <3>1, <3>2
    <3>. QED
      BY <2>0, <3>2, <3>3 DEF IsNext, Live
  <2>2. Before(b, a) => /\ ticket[b].Priority >= ticket[a].Priority
                        /\ ticket[b].Priority = ticket[a].Priority
                             => ticket[b].Seq < ticket[a].Seq
    <3>1. ticket[a].Priority \in Int /\ ticket[b].Priority \in Int
      OBVIOUS
    <3>. QED
      BY <3>1 DEF Before
  <2>3. ASSUME NEW r \in Requests, NEW p \in Priorities, AdmitAsync(r, p)
        PROVE  FALSE
    BY <2>0, <2>3 DEF AdmitAsync
  <2>4. ASSUME NEW r \in Requests, CancelToken(r) \/ CatchCancelled(r)
        PROVE  FALSE
    BY <2>4 DEF CancelToken, CatchCancelled
  <2>5. ASSUME NEW r \in Requests, Release(r)
        PROVE  slot[b] = "waiting" /\ Before(b, a)
    <3>1. [slot EXCEPT ![r] = "gone"] \in [Requests -> SlotStates]
      BY DEF SlotStates
    <3>2. \A q \in Requests : slot[q] # "held"
            => [slot EXCEPT ![r] = "gone"][q] = slot[q]
      BY <2>5 DEF Release
    <3>. QED
      BY <2>1, <2>5, <3>1, <3>2 DEF Release
  <2>6. ASSUME NEW st \in WorkerStats, OnStats(st)
        PROVE  slot[b] = "waiting" /\ Before(b, a)
    BY <2>1, <2>6 DEF OnStats
  <2>7. ASSUME NEW n \in Settings, SetOptions(n)
        PROVE  FALSE
    BY <2>7 DEF SetOptions
  <2>. QED
    BY <2>2, <2>3, <2>4, <2>5, <2>6, <2>7 DEF AdmissionNext
<1>. QED
  BY <1>1, InvHolds, PTL DEF AdmissionSpec, NoOvertaking

-----------------------------------------------------------------------------
(* The admission queue implements SlotSemaphore: every step of the queue is a   *)
(* step of the semaphore or changes nothing a caller sees.                    *)

\* Nobody holds a ticket that was not drawn yet: a newcomer's is the latest.
TicketsDrawn == \A r \in Requests : ticket[r].Seq <= seq

-----------------------------------------------------------------------------
(* The invariant about tickets *)

LEMMA TicketsInit == AdmissionInit => TicketsDrawn
  BY DEF AdmissionInit, TicketsDrawn, NoTicket

\* Only AdmitAsync draws a ticket, and it draws the next one.
LEMMA TicketsStep ==
  ASSUME AdmissionTypeOK, TicketsDrawn, [AdmissionNext]_admissionVars
  PROVE  TicketsDrawn'
<1>. USE DEF AdmissionTypeOK, TicketsDrawn
<1>1. ASSUME NEW r \in Requests, NEW p \in Priorities, AdmitAsync(r, p)
      PROVE  TicketsDrawn'
  <2>1. CASE UNCHANGED <<seq, ticket>>
    BY <2>1
  <2>2. CASE /\ seq' = seq + 1
             /\ ticket' = [ticket EXCEPT ![r] = [Priority |-> p, Seq |-> seq + 1]]
    BY <2>2
  <2>. QED
    BY <1>1, <2>1, <2>2 DEF AdmitAsync
<1>2. CASE UNCHANGED <<seq, ticket>>
  BY <1>2
<1>. QED
  BY <1>1, <1>2 DEF AdmissionNext, admissionVars, CancelToken, CatchCancelled,
                    Release, OnStats, SetOptions

LEMMA TicketsHold == AdmissionSpec => []TicketsDrawn
<1>1. AdmissionInv => AdmissionTypeOK
  BY DEF AdmissionInv
<1>. QED
  BY <1>1, InvHolds, TicketsInit, TicketsStep, PTL DEF AdmissionSpec

-----------------------------------------------------------------------------
(* What a caller sees of an operation *)

\* The callers' view of who waits and who holds is the queue's own.
LEMMA SameView ==
  ASSUME AdmissionInv
  PROVE  /\ CallerState \in [Requests -> {"new", "waiting", "held", "gone"}]
         /\ Semaphore!Held = Holders
         /\ Semaphore!Waiting = {r \in Requests : slot[r] = "waiting"}
         /\ Semaphore!Waiting \subseteq waiters
<1>. USE DEF AdmissionInv, AdmissionTypeOK, SlotStates
<1>1. \A r \in Requests : /\ CallerState[r] = "waiting" <=> slot[r] = "waiting"
                          /\ CallerState[r] = "held" <=> slot[r] = "held"
  BY DEF CallerState
<1>2. CallerState \in [Requests -> {"new", "waiting", "held", "gone"}]
  BY DEF CallerState
<1>3. Semaphore!Held = Holders
  BY <1>1 DEF Semaphore!Held, Holders
<1>4. Semaphore!Waiting = {r \in Requests : slot[r] = "waiting"}
  BY <1>1 DEF Semaphore!Waiting
<1>. QED
  BY <1>2, <1>3, <1>4 DEF WaitersListed

\* Both modules count with the same operator.
LEMMA SameCount == ASSUME NEW S PROVE Semaphore!Cardinality(S) = Cardinality(S)
  BY DEF Semaphore!Cardinality, Cardinality

\* An operation admits only while the semaphore has a slot free.
LEMMA AdmitMeansFree ==
  ASSUME AdmissionInv, NEW st \in WorkerStats \cup {NoStats}, CanAdmit(inFlight, st)
  PROVE  Semaphore!FreeSlot
<1>1. /\ inFlight \in Nat /\ inFlight < Capacity(st)
      /\ inFlight = Cardinality(Semaphore!Held)
  BY SameView DEF CanAdmit, AdmissionInv, AdmissionTypeOK, SlotAccounting
<1>2. maxSeqs \in Int
  BY SettingType DEF AdmissionInv
<1>3. /\ Capacity(st) \in Nat /\ Capacity(st) <= AtLeast(1, maxSeqs)
      /\ AtLeast(1, maxSeqs) \in Int
  BY <1>2, CapacityBound DEF AtLeast
<1>. QED
  BY <1>1, <1>2, <1>3, SameCount DEF Semaphore!FreeSlot

\* TryAdmitOneLocked wakes nobody, or the first in line.
LEMMA WakesFirstInLine ==
  ASSUME AdmissionInv, NEW n, NEW st, NEW sl, TryAdmitOne(n, st, sl)
  PROVE  \/ slot' = sl
         \/ /\ CanAdmit(n, st)
            /\ \E r \in Requests : /\ Semaphore!FirstInLine(r)
                                   /\ slot' = [sl EXCEPT ![r] = "held"]
<1>1. ASSUME CanAdmit(n, st), NEW r \in waiters, IsNext(r, waiters),
             slot' = [sl EXCEPT ![r] = "held"]
      PROVE  r \in Requests /\ Semaphore!FirstInLine(r)
  <2>1. r \in Semaphore!Waiting
    BY <1>1, SameView DEF IsNext, Live, AdmissionInv, AdmissionTypeOK
  <2>2. \A o \in Semaphore!Waiting \ {r} : Before(r, o)
    BY <1>1, SameView DEF IsNext, Live
  <2>. QED
    BY <2>1, <2>2 DEF Semaphore!FirstInLine, Semaphore!Waiting,
                      Semaphore!Precedes, Before
<1>. QED
  BY <1>1 DEF TryAdmitOne

\* Every step is a step of the semaphore.
LEMMA StepImplements ==
  ASSUME AdmissionInv, TicketsDrawn, [AdmissionNext]_admissionVars
  PROVE  [Semaphore!SemNext]_(Semaphore!semVars)
<1>. USE DEF AdmissionInv, AdmissionTypeOK, SlotStates, Semaphore!semVars
<1>0. maxSeqs' = maxSeqs => AtLeast(1, maxSeqs)' = AtLeast(1, maxSeqs)
  OBVIOUS
<1>1. ASSUME NEW r \in Requests, NEW p \in Priorities, AdmitAsync(r, p)
      PROVE  Semaphore!Enter(r) \/ Semaphore!Queue(r)
  <2>0. maxSeqs' = maxSeqs
    BY <1>1 DEF AdmitAsync
  <2>1. CallerState[r] = "new"
    BY <1>1 DEF AdmitAsync, CallerState
  <2>2. CASE /\ CanAdmit(inFlight, stats) /\ waiters = {}
             /\ slot' = [slot EXCEPT ![r] = "held"] /\ ticket' = ticket
    <3>1. Semaphore!FreeSlot /\ Semaphore!Waiting = {}
      BY <2>2, SameView, AdmitMeansFree
    <3>2. CallerState' = [CallerState EXCEPT ![r] = "held"]
      BY <2>2 DEF CallerState
    <3>. QED
      BY <1>0, <2>0, <2>1, <2>2, <3>1, <3>2 DEF Semaphore!Enter
  <2>3. CASE /\ ticket' = [ticket EXCEPT ![r] = [Priority |-> p, Seq |-> seq + 1]]
             /\ slot' = [slot EXCEPT ![r] = "waiting"]
    <3>1. CallerState' = [CallerState EXCEPT ![r] = "waiting"]
      BY <2>3 DEF CallerState
    <3>2. ticket' = [ticket EXCEPT ![r] = ticket'[r]] /\ ticket'[r].Seq = seq + 1
      BY <2>3
    <3>3. \A o \in Semaphore!Waiting : ticket[o].Seq < ticket'[r].Seq
      BY <3>2 DEF Semaphore!Waiting, TicketsDrawn
    <3>. QED
      BY <1>0, <2>0, <2>1, <3>1, <3>2, <3>3 DEF Semaphore!Queue
  <2>. QED
    BY <1>1, <2>2, <2>3 DEF AdmitAsync
<1>2. ASSUME NEW r \in Requests, CancelToken(r)
      PROVE  Semaphore!GiveUp(r)
  <2>1. CallerState[r] = "waiting" /\ ticket' = ticket /\ maxSeqs' = maxSeqs
    BY <1>2 DEF CancelToken, CallerState
  <2>2. CallerState' = [CallerState EXCEPT ![r] = "gone"]
    BY <1>2 DEF CancelToken, CallerState
  <2>. QED
    BY <1>0, <2>1, <2>2 DEF Semaphore!GiveUp
<1>3. ASSUME NEW r \in Requests, CatchCancelled(r)
      PROVE  UNCHANGED <<CallerState, ticket, maxSeqs>>
  BY <1>3 DEF CatchCancelled, CallerState
<1>4. ASSUME NEW r \in Requests, Release(r)
      PROVE  Semaphore!Leave(r) \/ \E o \in Requests : Semaphore!HandOn(r, o)
  <2>. DEFINE sl == [slot EXCEPT ![r] = "gone"]
  <2>. DEFINE n == AtLeast(0, inFlight - 1)
  <2>1. /\ CallerState[r] = "held" /\ slot[r] = "held"
        /\ ticket' = ticket /\ maxSeqs' = maxSeqs
    BY <1>4 DEF Release, CallerState
  <2>2. CASE slot' = sl
    <3>1. CallerState' = [CallerState EXCEPT ![r] = "gone"]
      BY <2>2 DEF CallerState
    <3>. QED
      BY <1>0, <2>1, <3>1 DEF Semaphore!Leave
  <2>3. ASSUME NEW o \in Requests, Semaphore!FirstInLine(o), CanAdmit(n, stats),
               slot' = [sl EXCEPT ![o] = "held"]
        PROVE  Semaphore!HandOn(r, o)
    <3>1. slot[o] = "waiting" /\ o # r
      BY <2>1, <2>3, SameView DEF Semaphore!FirstInLine
    <3>2. CallerState' = [CallerState EXCEPT ![r] = "gone", ![o] = "held"]
      BY <2>3, <3>1 DEF CallerState
    <3>3. Semaphore!Cardinality(Semaphore!Held) <= AtLeast(1, maxSeqs)
      <4>1. Semaphore!Cardinality(Semaphore!Held) = inFlight /\ inFlight \in Nat
        BY SameView, SameCount DEF SlotAccounting
      <4>2. /\ Capacity(stats) \in Nat /\ Capacity(stats) <= AtLeast(1, maxSeqs)
            /\ AtLeast(1, maxSeqs) \in Int
        BY SettingType, CapacityBound DEF AtLeast
      <4>3. n < Capacity(stats) /\ n >= inFlight - 1 /\ n \in Nat
        BY <2>3, <4>1 DEF CanAdmit, AtLeast
      <4>. HIDE DEF n
      <4>. QED
        BY <4>1, <4>2, <4>3
    <3>. QED
      BY <1>0, <2>1, <2>3, <3>2, <3>3 DEF Semaphore!HandOn
  <2>4. TryAdmitOne(n, stats, sl)
    BY <1>4 DEF Release
  <2>. HIDE DEF sl, n
  <2>. QED
    BY <2>2, <2>3, <2>4, WakesFirstInLine
<1>5. ASSUME NEW st \in WorkerStats, OnStats(st)
      PROVE  \/ UNCHANGED <<CallerState, ticket, maxSeqs>>
             \/ \E r \in Requests : Semaphore!Grant(r)
  <2>1. ticket' = ticket /\ maxSeqs' = maxSeqs /\ TryAdmitOne(inFlight, st, slot)
    BY <1>5 DEF OnStats
  <2>2. CASE slot' = slot
    BY <2>1, <2>2 DEF CallerState
  <2>3. ASSUME NEW r \in Requests, CanAdmit(inFlight, st), Semaphore!FirstInLine(r),
               slot' = [slot EXCEPT ![r] = "held"]
        PROVE  Semaphore!Grant(r)
    <3>1. CallerState' = [CallerState EXCEPT ![r] = "held"]
      BY <2>3 DEF CallerState
    <3>2. Semaphore!FreeSlot
      BY <2>3, AdmitMeansFree
    <3>. QED
      BY <1>0, <2>1, <2>3, <3>1, <3>2 DEF Semaphore!Grant
  <2>. QED
    BY <2>1, <2>2, <2>3, WakesFirstInLine
<1>6. ASSUME NEW n \in Settings, SetOptions(n)
      PROVE  Semaphore!Resize
  BY <1>6 DEF SetOptions, CallerState, Semaphore!Resize
<1>7. CASE UNCHANGED admissionVars
  BY <1>7 DEF admissionVars, CallerState
<1>8. UNCHANGED <<CallerState, ticket, maxSeqs>> => UNCHANGED Semaphore!semVars
  BY <1>0
<1>. QED
  BY <1>1, <1>2, <1>3, <1>4, <1>5, <1>6, <1>7, <1>8
     DEF AdmissionNext, Semaphore!SemNext

\* The admission queue implements the semaphore (WorkerAdmissionQueue.cs): its
\* counter, list and statistics cannot be told from as many slots as the setting of the
\* moment says, handed to the head of the line.
THEOREM QueueIsSemaphore == AdmissionSpec => ImplementsSemaphore
<1>1. AdmissionInit => Semaphore!SemInit
  BY DEF AdmissionInit, Semaphore!SemInit, CallerState
<1>. QED
  BY <1>1, InvHolds, TicketsHold, StepImplements, PTL
     DEF AdmissionSpec, ImplementsSemaphore, Semaphore!SemSpec

=============================================================================
