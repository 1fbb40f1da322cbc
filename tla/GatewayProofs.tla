---------------------------- MODULE GatewayProofs ----------------------------
(***************************************************************************)
(* What Gateway promises, for any requests, limits, window, stalls and     *)
(* capacity: the limits on requests and on tokens hold although the queues *)
(* are not in the order of their stamps, a refusal's hint is honest, and   *)
(* the audit log keeps its books.                                          *)
(***************************************************************************)
EXTENDS Gateway, SequenceTheorems, WellFoundedInduction, TLAPS

-----------------------------------------------------------------------------
(* Pruning takes away a prefix, of events that are over a minute old. *)

\* A set of naturals that is not empty has a least member.
LEMMA Smallest ==
  ASSUME NEW T, T \subseteq Nat, T # {}
  PROVE  \E x \in T : \A y \in T : x <= y
<1> DEFINE R == OpToRel(<, Nat)
<1>1. IsWellFoundedOn(R, Nat)
  BY NatLessThanWellFounded
<1>2. PICK x \in T : \A y \in T : ~(<<y, x>> \in R)
  <2> HIDE DEF R
  <2> QED BY <1>1, WFMin
<1>3. \A y \in T : ~(y < x)
  BY <1>2 DEF OpToRel
<1> QED BY <1>3

\* Prune and PruneTokens leave an end of the queue: what they take is old, and what
\* they leave does not begin with something old.
LEMMA PrunedIsEnd ==
  ASSUME NEW Q, NEW q \in Seq(Q), NEW t \in Nat,
         \A i \in 1..Len(q) : q[i].at \in Nat
  PROVE  \E d \in 0..Len(q) :
           /\ Pruned(q, t) \in Seq(Q)
           /\ Len(Pruned(q, t)) = Len(q) - d
           /\ \A i \in 1..(Len(q) - d) : Pruned(q, t)[i] = q[d + i]
           /\ \A i \in 1..d : t - q[i].at > Window
           /\ d < Len(q) => t - q[d + 1].at <= Window
<1> DEFINE young == {i \in 1..Len(q) : t - q[i].at <= Window}
<1>0. Len(q) \in Nat /\ Window \in Nat
  BY LimiterAssumption
<1>1. CASE young = {}
  <2>1. Pruned(q, t) = <<>>
    BY <1>1 DEF Pruned
  <2>2. \A i \in 1..Len(q) : t - q[i].at > Window
    BY <1>0, <1>1
  <2>3. Len(q) \in 0..Len(q) /\ Len(q) - Len(q) = 0
    BY <1>0
  <2> HIDE DEF young
  <2> WITNESS Len(q) \in 0..Len(q)
  <2>4. Pruned(q, t) \in Seq(Q) /\ Len(Pruned(q, t)) = 0
    BY <2>1
  <2>5. \A i \in 1..(Len(q) - Len(q)) : Pruned(q, t)[i] = q[Len(q) + i]
    BY <2>3
  <2>6. ~(Len(q) < Len(q))
    BY <1>0
  <2> QED BY <2>2, <2>3, <2>4, <2>5, <2>6
<1>2. CASE young # {}
  <2> DEFINE first == CHOOSE i \in young : \A k \in young : i <= k
  <2>1. first \in young /\ \A k \in young : first <= k
    <3>1. young \subseteq Nat
      OBVIOUS
    <3> HIDE DEF young
    <3>2. \E i \in young : \A k \in young : i <= k
      BY <1>2, <3>1, Smallest
    <3> QED BY <3>2
  <2>2. Pruned(q, t) = SubSeq(q, first, Len(q))
    BY <1>2 DEF Pruned
  <2>3. first \in 1..Len(q)
    BY <2>1
  <2> HIDE DEF first
  <2>4. /\ SubSeq(q, first, Len(q)) \in Seq(Q)
        /\ Len(SubSeq(q, first, Len(q))) = Len(q) - first + 1
        /\ \A i \in 1..(Len(q) - first + 1) :
             SubSeq(q, first, Len(q))[i] = q[first + i - 1]
    <3>1. \A i \in first..Len(q) : q[i] \in Q
      BY <2>3, ElementOfSeq
    <3> QED BY <1>0, <2>3, <3>1, SubSeqProperties
  <2>5. \A i \in 1..(first - 1) : t - q[i].at > Window
    <3> SUFFICES ASSUME NEW i \in 1..(first - 1) PROVE t - q[i].at > Window
      OBVIOUS
    <3>1. i \in 1..Len(q) /\ ~(first <= i)
      BY <1>0, <2>3
    <3>2. i \notin young
      BY <2>1, <3>1
    <3> QED BY <1>0, <3>1, <3>2
  <2>6. \A i \in 1..(Len(q) - (first - 1)) : Pruned(q, t)[i] = q[(first - 1) + i]
    <3> SUFFICES ASSUME NEW i \in 1..(Len(q) - (first - 1))
                 PROVE  Pruned(q, t)[i] = q[(first - 1) + i]
      OBVIOUS
    <3>1. i \in 1..(Len(q) - first + 1) /\ (first - 1) + i = first + i - 1
      BY <1>0, <2>3
    <3> QED BY <2>2, <2>4, <3>1
  <2>7. first - 1 \in 0..Len(q) /\ Len(Pruned(q, t)) = Len(q) - (first - 1)
    BY <1>0, <2>2, <2>3, <2>4
  <2>8. (first - 1) + 1 = first /\ t - q[first].at <= Window
    BY <1>0, <2>1, <2>3
  <2> QED BY <2>2, <2>4, <2>5, <2>6, <2>7, <2>8
<1> QED BY <1>1, <1>2

-----------------------------------------------------------------------------
(* The limit on requests.  The queue holds the stamps of the latest admissions,
   in the order in which they took the lock, and those that are missing are over
   a minute old; the queue is shorter than Rpm when one is added. *)

Times == 0..MaxTime
Stamp == [at : Times, by : Requests]
Admission == [by : Requests, from : Times, to : Times, estimate : Estimates, seen : Nat]
Stages == {"new", "limited", "running", "gone", "charged", "done"}

\* The queue q is the end of the list of admissions, and the rest of it is old.
IsLatest(q) ==
  /\ Len(q) <= Len(admitted)
  /\ \A i \in 1..Len(q) : q[i].at = admitted[Len(admitted) - Len(q) + i].from
  /\ \A i \in 1..(Len(admitted) - Len(q)) : now - admitted[i].from > Window

RpmInv ==
  /\ LimiterTypeOK /\ stage \in [Requests -> Stages]
  /\ IsLatest(stamps)
  /\ WithinRpm

\* What the types say of the lengths, the clock and its readings.
LEMMA LengthsAreNat ==
  ASSUME RpmInv
  PROVE  /\ Len(stamps) \in Nat /\ Len(admitted) \in Nat /\ Len(ledger) \in Nat
         /\ Window \in Nat /\ Rpm \in Nat /\ now \in Nat /\ MaxTime \in Nat
         /\ \A i \in 1..Len(stamps) : stamps[i] \in Stamp
         /\ \A i \in 1..Len(admitted) : admitted[i] \in Admission
         /\ \A r \in Requests : since[r] \in Nat
         /\ \A r \in Requests : Readings(r) \subseteq 0..now
<1>1. /\ Window \in Nat /\ Rpm \in Nat /\ MaxTime \in Nat /\ now \in Nat
  BY LimiterAssumption DEF RpmInv, LimiterTypeOK, Rpm
<1>2. stamps \in Seq(Stamp) /\ admitted \in Seq(Admission)
  BY DEF RpmInv, LimiterTypeOK, Stamp, Admission, Times
<1>3. Len(stamps) \in Nat /\ Len(admitted) \in Nat /\ Len(ledger) \in Nat
  BY <1>2 DEF RpmInv, LimiterTypeOK
<1>4. \A r \in Requests : since[r] \in Nat
  BY <1>1 DEF RpmInv, LimiterTypeOK
<1>5. \A r \in Requests : Readings(r) \subseteq 0..now
  BY <1>1, <1>4 DEF Readings
<1> QED BY <1>1, <1>2, <1>3, <1>4, <1>5, ElementOfSeq

\* What is left of the stamps at a reading of the clock is still the end of the list.
LEMMA PrunedIsLatest ==
  ASSUME RpmInv, NEW t \in 0..now
  PROVE  Pruned(stamps, t) \in Seq(Stamp) /\ IsLatest(Pruned(stamps, t))
<1>1. stamps \in Seq(Stamp)
  BY DEF RpmInv, LimiterTypeOK, Stamp, Times
<1>2. t \in Nat /\ \A i \in 1..Len(stamps) : stamps[i].at \in Nat
  BY LengthsAreNat DEF Stamp, Times
<1>3. PICK d \in 0..Len(stamps) :
        /\ Pruned(stamps, t) \in Seq(Stamp)
        /\ Len(Pruned(stamps, t)) = Len(stamps) - d
        /\ \A i \in 1..(Len(stamps) - d) : Pruned(stamps, t)[i] = stamps[d + i]
        /\ \A i \in 1..d : t - stamps[i].at > Window
  BY <1>1, <1>2, PrunedIsEnd
<1> DEFINE q == Pruned(stamps, t)
           gone == Len(admitted) - Len(stamps)
<1>4. /\ d \in Nat /\ gone \in Nat /\ Len(stamps) \in Nat /\ Len(admitted) \in Nat
      /\ Len(q) \in Nat /\ Len(q) <= Len(admitted)
      /\ Len(admitted) - Len(q) = gone + d
  BY <1>3, LengthsAreNat DEF RpmInv, IsLatest
<1>5. \A i \in 1..Len(q) : q[i].at = admitted[Len(admitted) - Len(q) + i].from
  <2> SUFFICES ASSUME NEW i \in 1..Len(q)
               PROVE  q[i].at = admitted[Len(admitted) - Len(q) + i].from
    OBVIOUS
  <2>1. i \in 1..(Len(stamps) - d) /\ d + i \in 1..Len(stamps)
    BY <1>3, <1>4
  <2>2. q[i] = stamps[d + i]
    BY <1>3, <2>1
  <2>3. stamps[d + i].at = admitted[gone + (d + i)].from
    BY <2>1 DEF RpmInv, IsLatest
  <2>4. gone + (d + i) = Len(admitted) - Len(q) + i
    BY <1>4, <2>1
  <2> QED BY <2>2, <2>3, <2>4
<1>6. \A i \in 1..(Len(admitted) - Len(q)) : now - admitted[i].from > Window
  <2> SUFFICES ASSUME NEW i \in 1..(gone + d)
               PROVE  now - admitted[i].from > Window
    BY <1>4
  <2>1. CASE i <= gone
    <3>1. i \in 1..gone
      BY <1>4, <2>1
    <3> QED BY <3>1 DEF RpmInv, IsLatest
  <2>2. CASE i > gone
    <3>1. i - gone \in 1..d /\ i - gone \in 1..Len(stamps) /\ gone + (i - gone) = i
      BY <1>3, <1>4, <2>2
    <3>2. t - stamps[i - gone].at > Window
      BY <1>3, <3>1
    <3>3. stamps[i - gone].at = admitted[gone + (i - gone)].from
      BY <3>1 DEF RpmInv, IsLatest
    <3>4. t - admitted[i].from > Window /\ i \in 1..Len(admitted)
      BY <1>4, <3>1, <3>2, <3>3
    <3>5. admitted[i].from \in Nat /\ t \in Nat /\ now \in Nat /\ t <= now /\ Window \in Nat
      BY <3>4, LengthsAreNat DEF Admission, Times
    <3> QED BY <3>4, <3>5
  <2> QED BY <1>4, <2>1, <2>2
<1> QED BY <1>3, <1>4, <1>5, <1>6 DEF IsLatest

\* The hint is a natural number of seconds, at least one.
LEMMA RetryIsNat ==
  ASSUME NEW o \in Nat, NEW t \in Nat
  PROVE  ComputeRetryAfter(o, t) \in Nat
<1> DEFINE wait == Window - (t - o)
           seconds == -((-wait) \div Second)
<1>1. Window \in Nat /\ Second \in Nat \ {0}
  BY LimiterAssumption
<1>2. wait \in Int /\ -wait \in Int
  BY <1>1
<1> HIDE DEF wait
<1>3. seconds \in Int
  BY <1>1, <1>2
<1> HIDE DEF seconds
<1>4. (IF seconds < 1 THEN 1 ELSE seconds) \in Nat
  BY <1>3
<1> QED BY <1>4 DEF ComputeRetryAfter, wait, seconds

\* So is the time until which a refused request is told to wait.
LEMMA WaitsAreNat ==
  ASSUME NEW t \in Nat, NEW n \in Nat
  PROVE  t + n * Second \in Nat
<1>1. Second \in Nat
  BY LimiterAssumption
<1>2. n * Second \in Nat
  BY <1>1
<1> QED BY <1>2

\* The steps that neither admit nor refuse, and do not move the clock.
LEMMA RpmLeftAlone ==
  ASSUME RpmInv, UNCHANGED <<limits, now, stamps, told, admitted>>,
         stage' \in [Requests -> Stages], since' \in [Requests -> Times],
         events' \in Seq([at : Times, tokens : Usages]),
         ledger' \in Seq([by : Requests, from : Times, to : Times, tokens : Usages])
  PROVE  RpmInv'
BY DEF RpmInv, LimiterTypeOK, IsLatest, WithinRpm, Rpm, Times

\* A request goes to a stage, at the time now or none.
LEMMA GoesIsTyped ==
  ASSUME RpmInv, NEW r \in Requests, NEW s \in Stages, Goes(r, s)
  PROVE  stage' \in [Requests -> Stages] /\ since' \in [Requests -> Times]
<1>1. 0 \in Times /\ now \in Times
  BY LimiterAssumption DEF RpmInv, LimiterTypeOK, Times
<1>2. stage' \in [Requests -> Stages]
  BY DEF RpmInv, Goes
<1>3. since \in [Requests -> Times]
  BY DEF RpmInv, LimiterTypeOK, Times
<1> QED BY <1>1, <1>2, <1>3 DEF Goes

\* Pruning the reports of tokens.
LEMMA EventsStayTyped ==
  ASSUME RpmInv, NEW t \in 0..now
  PROVE  Pruned(events, t) \in Seq([at : Times, tokens : Usages])
<1> DEFINE Event == [at : Times, tokens : Usages]
<1>1. events \in Seq(Event)
  BY DEF RpmInv, LimiterTypeOK, Times
<1>2. t \in Nat /\ Times \subseteq Nat
  BY LengthsAreNat DEF Times
<1>3. \A i \in 1..Len(events) : events[i].at \in Nat
  <2> SUFFICES ASSUME NEW i \in 1..Len(events) PROVE events[i].at \in Nat
    OBVIOUS
  <2>1. events[i] \in Event
    BY <1>1, ElementOfSeq
  <2> QED BY <1>2, <2>1
<1> HIDE DEF Event
<1>4. \E d \in 0..Len(events) : Pruned(events, t) \in Seq(Event)
  BY <1>1, <1>2, <1>3, PrunedIsEnd
<1> QED BY <1>4 DEF Event

\* A refusal prunes the windows and books nothing.
LEMMA RefusalKeepsRpm ==
  ASSUME RpmInv, NEW r \in Requests, NEW t \in 0..now, NEW seconds \in Nat,
         Refuses(r, t, seconds), stamps' = Pruned(stamps, t),
         events' = Pruned(events, t), UNCHANGED <<limits, now, ledger>>
  PROVE  RpmInv'
<1>1. stamps' \in Seq(Stamp) /\ IsLatest(stamps')
  BY PrunedIsLatest
<1>2. events' \in Seq([at : Times, tokens : Usages])
  BY EventsStayTyped
<1>3. stage' \in [Requests -> Stages] /\ since' \in [Requests -> Times]
  BY GoesIsTyped DEF Refuses, Stages
<1>4. told' \in [Requests -> Nat]
  <2>1. t + seconds * Second \in Nat
    BY LengthsAreNat, WaitsAreNat
  <2> QED BY <2>1 DEF RpmInv, LimiterTypeOK, Refuses
<1>5. UNCHANGED <<limits, now, admitted, ledger>>
  BY DEF Refuses
<1>6. LimiterTypeOK'
  BY <1>1, <1>2, <1>3, <1>4, <1>5 DEF RpmInv, LimiterTypeOK, Stamp, Times
<1>7. IsLatest(stamps)' /\ WithinRpm'
  BY <1>1, <1>5 DEF RpmInv, IsLatest, WithinRpm, Rpm
<1> QED BY <1>3, <1>6, <1>7 DEF RpmInv

\* An admission: the one Rpm places before it is no longer in the queue.
LEMMA AdmissionKeepsRpm ==
  ASSUME RpmInv, NEW r \in Requests, NEW t \in 0..now, NEW estimate \in Estimates,
         Admits(r, t, estimate), Rpm > 0 => Len(Pruned(stamps, t)) < Rpm,
         stamps' = Append(Pruned(stamps, t), [at |-> t, by |-> r]),
         events' = Pruned(events, t), UNCHANGED <<limits, now, ledger>>
  PROVE  RpmInv'
<1> DEFINE q == Pruned(stamps, t)
           stamp == [at |-> t, by |-> r]
           one == [by |-> r, from |-> t, to |-> now, estimate |-> estimate,
                   seen |-> Len(ledger)]
<1>1. q \in Seq(Stamp) /\ IsLatest(q) /\ Len(q) \in Nat
  BY PrunedIsLatest, LenProperties
<1>2. /\ t \in Times /\ now \in Times /\ stamp \in Stamp /\ one \in Admission
      /\ admitted \in Seq(Admission) /\ Len(admitted) \in Nat /\ Len(q) <= Len(admitted)
  BY <1>1, LengthsAreNat DEF RpmInv, LimiterTypeOK, IsLatest, Stamp, Admission, Times
<1>3. admitted' = Append(admitted, one) /\ UNCHANGED told
  BY DEF Admits
<1> HIDE DEF q, stamp, one
<1>4. /\ stamps' \in Seq(Stamp) /\ Len(stamps') = Len(q) + 1
      /\ \A i \in 1..Len(q) : stamps'[i] = q[i]
      /\ stamps'[Len(q) + 1] = stamp
  BY <1>1, <1>2, AppendProperties DEF q, stamp
<1>5. /\ admitted' \in Seq(Admission) /\ Len(admitted') = Len(admitted) + 1
      /\ \A i \in 1..Len(admitted) : admitted'[i] = admitted[i]
      /\ admitted'[Len(admitted) + 1] = one
  BY <1>2, <1>3, AppendProperties
<1>6. events' \in Seq([at : Times, tokens : Usages])
  BY EventsStayTyped
<1>7. stage' \in [Requests -> Stages] /\ since' \in [Requests -> Times]
  BY GoesIsTyped DEF Admits, Stages
<1>8. LimiterTypeOK'
  BY <1>3, <1>4, <1>5, <1>6, <1>7 DEF RpmInv, LimiterTypeOK, Stamp, Admission, Times
<1>9. IsLatest(stamps)'
  <2>1. Len(admitted') - Len(stamps') = Len(admitted) - Len(q) /\ Len(stamps') <= Len(admitted')
    <3>1. Len(stamps') = Len(q) + 1
      BY <1>4
    <3>2. Len(admitted') = Len(admitted) + 1
      BY <1>5
    <3>3. Len(q) \in Nat /\ Len(admitted) \in Nat /\ Len(q) <= Len(admitted)
      BY <1>1, <1>2
    <3> QED BY <3>1, <3>2, <3>3
  <2>2. ASSUME NEW i \in 1..Len(stamps')
        PROVE  stamps'[i].at = admitted'[Len(admitted') - Len(stamps') + i].from
    <3>1. CASE i = Len(q) + 1
      <4>1. Len(admitted') - Len(stamps') + i = Len(admitted) + 1
        <5>1. Len(q) \in Nat /\ Len(admitted) \in Nat
          BY <1>1, <1>2
        <5>2. Len(admitted') - Len(stamps') = Len(admitted) - Len(q)
          BY <2>1
        <5> QED BY <3>1, <5>1, <5>2
      <4> QED BY <1>4, <1>5, <3>1, <4>1 DEF stamp, one
    <3>2. CASE i \in 1..Len(q)
      <4>1. Len(admitted) - Len(q) + i \in 1..Len(admitted)
        BY <1>1, <1>2, <3>2
      <4> QED BY <1>1, <1>4, <1>5, <2>1, <3>2, <4>1 DEF IsLatest
    <3> QED BY <1>1, <1>4, <3>1, <3>2
  <2>3. ASSUME NEW i \in 1..(Len(admitted') - Len(stamps'))
        PROVE  now' - admitted'[i].from > Window
    <3>1. i \in 1..(Len(admitted) - Len(q)) /\ i \in 1..Len(admitted)
      BY <1>1, <1>2, <2>1
    <3> QED BY <1>1, <1>5, <3>1 DEF IsLatest
  <2> QED BY <2>1, <2>2, <2>3 DEF IsLatest
<1>10. WithinRpm'
  <2> SUFFICES ASSUME Rpm' > 0, NEW i \in 1..Len(admitted'), i + Rpm' <= Len(admitted')
               PROVE  admitted'[i + Rpm'].to - admitted'[i].from > Window
    BY DEF WithinRpm
  <2>1. Rpm' = Rpm /\ Rpm \in Nat /\ Rpm > 0 /\ Len(q) < Rpm /\ i \in Nat
    <3>1. Rpm' = Rpm
      BY DEF Rpm
    <3> QED BY <3>1, LengthsAreNat DEF q
  <2>2. CASE i + Rpm <= Len(admitted)
    <3>1. i \in 1..Len(admitted) /\ i + Rpm \in 1..Len(admitted)
      BY <1>2, <2>1, <2>2
    <3>2. admitted[i + Rpm].to - admitted[i].from > Window
      BY <2>1, <2>2, <3>1 DEF RpmInv, WithinRpm
    <3> QED BY <1>5, <2>1, <3>1, <3>2
  <2>3. CASE i + Rpm = Len(admitted) + 1
    <3>1. i \in 1..(Len(admitted) - Len(q)) /\ i \in 1..Len(admitted)
      BY <1>1, <1>2, <2>1, <2>3
    <3>2. now - admitted[i].from > Window
      BY <1>1, <3>1 DEF IsLatest
    <3>3. admitted'[i + Rpm].to = now
      BY <1>5, <2>3 DEF one
    <3> QED BY <1>5, <2>1, <3>1, <3>2, <3>3
  <2> QED BY <1>2, <1>5, <2>1, <2>2, <2>3
<1> QED BY <1>7, <1>8, <1>9, <1>10 DEF RpmInv

\* TryAcquire, refusing for the requests or for the tokens, or admitting.
LEMMA AcquireKeepsRpm ==
  ASSUME RpmInv, NEW r \in Requests, TryAcquire(r)
  PROVE  RpmInv'
<1>1. CASE AcquireUnlimited(r)
  <2>1. stage' \in [Requests -> Stages] /\ since' \in [Requests -> Times]
    BY <1>1, GoesIsTyped DEF AcquireUnlimited, Stages
  <2>2. UNCHANGED <<limits, now, stamps, events, told, admitted, ledger>>
    BY <1>1 DEF AcquireUnlimited, TryAcquire
  <2>3. /\ events' \in Seq([at : Times, tokens : Usages])
        /\ ledger' \in Seq([by : Requests, from : Times, to : Times, tokens : Usages])
    BY <2>2 DEF RpmInv, LimiterTypeOK, Times
  <2> QED BY <2>1, <2>2, <2>3, RpmLeftAlone
<1>2. CASE \E t \in Readings(r), estimate \in Estimates : AcquireLimited(r, t, estimate)
  <2>1. PICK t \in Readings(r), estimate \in Estimates : AcquireLimited(r, t, estimate)
    BY <1>2
  <2>2. t \in 0..now /\ t \in Nat /\ Rpm \in Nat
    BY <2>1, LengthsAreNat
  <2>3. UNCHANGED <<limits, now, ledger>> /\ events' = Pruned(events, t)
    BY <2>1 DEF TryAcquire, AcquireLimited
  <2>4. CASE /\ Rpm > 0 /\ Len(Pruned(stamps, t)) >= Rpm
             /\ Refuses(r, t, ComputeRetryAfter(Head(Pruned(stamps, t)).at, t))
             /\ stamps' = Pruned(stamps, t)
    <3> DEFINE q == Pruned(stamps, t)
    <3>1. q \in Seq(Stamp) /\ Len(q) \in Nat
      BY <2>2, PrunedIsLatest, LenProperties
    <3>2. Len(q) >= Rpm /\ Rpm > 0
      BY <2>4
    <3> HIDE DEF q
    <3>3. 1 \in 1..Len(q) /\ q # <<>>
      BY <2>2, <3>1, <3>2
    <3>4. Head(q) \in Stamp
      BY <3>1, <3>3, HeadTailProperties
    <3>5. Head(q).at \in Nat
      BY <3>4, LengthsAreNat DEF Stamp, Times
    <3>6. ComputeRetryAfter(Head(q).at, t) \in Nat
      BY <2>2, <3>5, RetryIsNat
    <3> QED BY <2>2, <2>3, <2>4, <3>6, RefusalKeepsRpm DEF q
  <2>5. CASE /\ Refuses(r, t, IF Pruned(events, t) = <<>> THEN 60
                              ELSE ComputeRetryAfter(Head(Pruned(events, t)).at, t))
             /\ stamps' = Pruned(stamps, t)
    <3> DEFINE q == Pruned(events, t)
               seconds == IF q = <<>> THEN 60 ELSE ComputeRetryAfter(Head(q).at, t)
    <3>1. q \in Seq([at : Times, tokens : Usages])
      BY <2>2, EventsStayTyped
    <3> HIDE DEF q, seconds
    <3>2. ASSUME q # <<>>
          PROVE  ComputeRetryAfter(Head(q).at, t) \in Nat
      <4>1. Head(q) \in [at : Times, tokens : Usages]
        BY <3>1, <3>2, HeadTailProperties
      <4>2. Head(q).at \in Nat
        BY <4>1, LengthsAreNat DEF Times
      <4> QED BY <2>2, <4>2, RetryIsNat
    <3>3. seconds \in Nat
      BY <3>2 DEF seconds
    <3>4. Refuses(r, t, seconds)
      BY <2>5 DEF seconds, q
    <3> QED BY <2>2, <2>3, <2>5, <3>3, <3>4, RefusalKeepsRpm
  <2>6. CASE /\ ~(Rpm > 0 /\ Len(Pruned(stamps, t)) >= Rpm)
             /\ Admits(r, t, estimate)
             /\ stamps' = Append(Pruned(stamps, t), [at |-> t, by |-> r])
    <3>1. Len(Pruned(stamps, t)) \in Nat
      BY <2>2, PrunedIsLatest, LenProperties
    <3>2. Rpm > 0 => Len(Pruned(stamps, t)) < Rpm
      BY <2>2, <2>6, <3>1
    <3> QED BY <2>1, <2>2, <2>3, <2>6, <3>2, AdmissionKeepsRpm
  <2> QED BY <2>1, <2>4, <2>5, <2>6 DEF AcquireLimited
<1> QED BY <1>1, <1>2 DEF TryAcquire

\* RecordTokens touches nothing the limit on requests is about.
LEMMA RecordKeepsRpm ==
  ASSUME RpmInv, NEW r \in Requests, RecordTokens(r)
  PROVE  RpmInv'
<1> DEFINE Event == [at : Times, tokens : Usages]
           Report == [by : Requests, from : Times, to : Times, tokens : Usages]
<1>1. PICK t \in Readings(r), n \in Usages :
        IF n = 0 THEN UNCHANGED <<events, ledger>>
        ELSE /\ events' = Append(events, [at |-> t, tokens |-> n])
             /\ ledger' = Append(ledger, [by |-> r, from |-> t, to |-> now, tokens |-> n])
  BY DEF RecordTokens
<1>2. events \in Seq(Event) /\ ledger \in Seq(Report) /\ now \in Times
  BY DEF RpmInv, LimiterTypeOK, Times
<1>3. t \in Times
  <2>1. t \in 0..now /\ now \in Nat /\ MaxTime \in Nat
    BY LengthsAreNat
  <2> QED BY <1>2, <2>1 DEF Times
<1>4. [at |-> t, tokens |-> n] \in Event
      /\ [by |-> r, from |-> t, to |-> now, tokens |-> n] \in Report
  BY <1>2, <1>3
<1>5. stage' \in [Requests -> Stages] /\ since' \in [Requests -> Times]
  BY GoesIsTyped DEF RecordTokens, Stages
<1> HIDE DEF Event, Report
<1>6. events' \in Seq(Event) /\ ledger' \in Seq(Report)
  <2>1. CASE n = 0
    BY <1>1, <1>2, <2>1
  <2>2. CASE n # 0
    <3>1. Append(events, [at |-> t, tokens |-> n]) \in Seq(Event)
      BY <1>2, <1>4, AppendProperties
    <3>2. Append(ledger, [by |-> r, from |-> t, to |-> now, tokens |-> n]) \in Seq(Report)
      BY <1>2, <1>4, AppendProperties
    <3> QED BY <1>1, <2>2, <3>1, <3>2
  <2> QED BY <2>1, <2>2
<1>7. UNCHANGED <<limits, now, stamps, told, admitted>>
  BY DEF RecordTokens
<1> QED BY <1>5, <1>6, <1>7, RpmLeftAlone DEF Event, Report

\* Time only makes the admissions older.
LEMMA TickKeepsRpm ==
  ASSUME RpmInv, Tick
  PROVE  RpmInv'
<1>1. UNCHANGED <<limits, stage, since, stamps, events, told, admitted, ledger>>
  BY DEF Tick
<1>2. now' = now + 1 /\ now' \in 0..MaxTime
  BY LimiterAssumption DEF Tick, RpmInv, LimiterTypeOK
<1>3. LimiterTypeOK' /\ stage' \in [Requests -> Stages] /\ WithinRpm'
  BY <1>1, <1>2 DEF RpmInv, LimiterTypeOK, WithinRpm, Rpm
<1>4. ASSUME NEW i \in 1..(Len(admitted) - Len(stamps))
      PROVE  now' - admitted[i].from > Window
  <2>1. i \in 1..Len(admitted) /\ now - admitted[i].from > Window
    BY LengthsAreNat DEF RpmInv, IsLatest
  <2>2. admitted[i].from \in Nat /\ now \in Nat /\ Window \in Nat
    BY <2>1, LengthsAreNat DEF Admission, Times
  <2> QED BY <1>2, <2>1, <2>2
<1>5. IsLatest(stamps)'
  BY <1>1, <1>4 DEF RpmInv, IsLatest
<1> QED BY <1>3, <1>5 DEF RpmInv

\* At the start there are no admissions.
LEMMA RpmInitially ==
  ASSUME Init
  PROVE  RpmInv
<1>1. LimiterInit
  BY DEF Init
<1>2. Len(stamps) = 0 /\ Len(admitted) = 0 /\ 0 \in 0..MaxTime
  BY <1>1, LimiterAssumption DEF LimiterInit
<1>3. LimiterTypeOK /\ stage \in [Requests -> Stages]
  BY <1>1, <1>2 DEF LimiterInit, LimiterTypeOK, Stages
<1>4. IsLatest(stamps) /\ WithinRpm
  BY <1>2 DEF IsLatest, WithinRpm
<1> QED BY <1>3, <1>4 DEF RpmInv

\* Every step of the server keeps the books of the limiter.
LEMMA StepKeepsRpm ==
  ASSUME RpmInv, [Next]_vars
  PROVE  RpmInv'
<1>1. ASSUME NEW r \in Requests, RequestNext(r)
      PROVE  RpmInv'
  <2>1. CASE TryAcquire(r)
    BY <2>1, AcquireKeepsRpm
  <2>2. CASE RecordTokens(r)
    BY <2>2, RecordKeepsRpm
  <2>3. CASE RunIsLost(r) \/ Reports(r)
    <3>1. stage' \in [Requests -> Stages] /\ since' \in [Requests -> Times]
      BY <2>3, GoesIsTyped DEF RunIsLost, Reports, Stages
    <3>2. UNCHANGED <<limits, now, stamps, events, told, admitted, ledger>>
      BY <2>3 DEF RunIsLost, Reports
    <3>3. /\ events' \in Seq([at : Times, tokens : Usages])
          /\ ledger' \in Seq([by : Requests, from : Times, to : Times, tokens : Usages])
      BY <3>2 DEF RpmInv, LimiterTypeOK, Times
    <3> QED BY <3>1, <3>2, <3>3, RpmLeftAlone
  <2> QED BY <1>1, <2>1, <2>2, <2>3 DEF RequestNext
<1>2. CASE Tick
  BY <1>2, TickKeepsRpm
<1>3. CASE UNCHANGED limiterVars
  <2>1. UNCHANGED <<limits, now, stage, since, stamps, events, told, admitted, ledger>>
    BY <1>3 DEF limiterVars
  <2> QED BY <2>1 DEF RpmInv, LimiterTypeOK, IsLatest, WithinRpm, Rpm
<1> QED BY <1>1, <1>2, <1>3 DEF Next, vars

\* RpmInv is an invariant.
LEMMA RpmAlways == Spec => []RpmInv
<1>1. Init => RpmInv
  BY RpmInitially
<1>2. RpmInv /\ [Next]_vars => RpmInv'
  BY StepKeepsRpm
<1> QED BY <1>1, <1>2, PTL DEF Spec

\* Of any Rpm + 1 admissions of a key the last takes place over a minute after the
\* first one read the clock, for any limits and stalls (RateLimiter.TryAcquire).
THEOREM RequestsAreLimited == Spec => []WithinRpm
<1>1. RpmInv => WithinRpm
  BY DEF RpmInv
<1> QED BY <1>1, RpmAlways, PTL

-----------------------------------------------------------------------------
(* The hint.  A refusal leaves as many stamps as the limit allows, the oldest of
   them not over a minute old, and the seconds are rounded up to its end. *)

\* The queue of stamps is no longer than the limit.
NoMoreThanRpm == Rpm > 0 => Len(stamps) <= Rpm

\* The hint reaches to the end of the minute that began with the oldest event.
LEMMA RetryCovers ==
  ASSUME NEW o \in Nat, NEW t \in Nat
  PROVE  /\ t + ComputeRetryAfter(o, t) * Second \in Nat
         /\ t + ComputeRetryAfter(o, t) * Second >= o + Window
<1> DEFINE wait == Window - (t - o)
           d == Second
           whole == (-wait) \div d
           seconds == -whole
           hint == IF seconds < 1 THEN 1 ELSE seconds
<1>1. Window \in Nat /\ d \in Nat /\ d > 0
  BY LimiterAssumption
<1>2. wait \in Int /\ -wait \in Int
  BY <1>1
<1>3. hint = ComputeRetryAfter(o, t)
  BY DEF ComputeRetryAfter
<1> HIDE DEF d
<1>4. t + wait = o + Window
  BY <1>1
<1> HIDE DEF wait
<1>5. whole \in Int /\ whole * d <= -wait
  BY <1>1, <1>2
<1> HIDE DEF whole
<1>6. seconds \in Int /\ seconds * d >= wait /\ seconds * d \in Int
  <2>1. seconds \in Int /\ seconds * d = -(whole * d) /\ whole * d \in Int
    BY <1>1, <1>5
  <2> HIDE DEF seconds
  <2> QED BY <1>2, <1>5, <2>1
<1> HIDE DEF seconds
<1>7. hint \in Nat /\ hint * d \in Nat /\ hint * d >= wait
  <2>1. CASE seconds < 1
    <3>1. seconds * d <= 0
      BY <1>1, <1>6, <2>1
    <3>2. hint = 1 /\ 1 * d = d
      BY <1>1, <2>1
    <3> HIDE DEF hint
    <3> QED BY <1>1, <1>2, <1>6, <3>1, <3>2
  <2>2. CASE ~(seconds < 1)
    <3>1. hint = seconds /\ seconds \in Nat
      BY <1>6, <2>2
    <3>2. seconds * d \in Nat
      BY <1>1, <3>1
    <3> HIDE DEF hint
    <3> QED BY <1>6, <3>1, <3>2
  <2> QED BY <2>1, <2>2
<1> HIDE DEF hint
<1>8. t + hint * d \in Nat /\ t + hint * d >= o + Window
  <2> DEFINE h == hint * d
  <2>1. h \in Nat /\ h >= wait
    BY <1>7
  <2> HIDE DEF h
  <2>2. t + h \in Nat /\ t + h >= o + Window
    BY <1>1, <1>2, <1>4, <2>1
  <2> QED BY <2>2 DEF h
<1> QED BY <1>3, <1>8 DEF d

\* Pruning takes something away when the first stamp is over a minute old.
LEMMA OldHeadGoes ==
  ASSUME NEW q \in Seq(Stamp), q # <<>>, NEW t \in Nat, t - Head(q).at > Window,
         MaxTime \in Nat
  PROVE  Len(Pruned(q, t)) \in Nat /\ Len(Pruned(q, t)) < Len(q)
<1>1. /\ Len(q) \in Nat /\ Len(q) > 0 /\ Head(q) = q[1] /\ 1 \in 1..Len(q)
      /\ \A i \in 1..Len(q) : q[i] \in Stamp
  <2>1. Len(q) \in Nat /\ Head(q) = q[1] /\ \A i \in 1..Len(q) : q[i] \in Stamp
    BY HeadTailProperties, ElementOfSeq, LenProperties
  <2> QED BY <2>1, EmptySeq
<1>2. \A i \in 1..Len(q) : q[i].at \in Nat
  BY <1>1 DEF Stamp, Times
<1>3. PICK d \in 0..Len(q) : /\ Len(Pruned(q, t)) = Len(q) - d
                             /\ d < Len(q) => t - q[d + 1].at <= Window
  BY <1>2, PrunedIsEnd
<1>4. d # 0
  <2> SUFFICES ASSUME d = 0 PROVE FALSE
    OBVIOUS
  <2>1. d < Len(q) /\ d + 1 = 1
    BY <1>1
  <2>2. t - q[1].at <= Window
    BY <1>3, <2>1
  <2>3. q[1].at \in Nat /\ Window \in Nat
    BY <1>1, <1>2, LimiterAssumption
  <2> QED BY <1>1, <2>2, <2>3
<1> QED BY <1>1, <1>3, <1>4

\* What a step of the server does to the stamps: it prunes them, and adds one only
\* where there is room.
LEMMA StampsChange ==
  ASSUME RpmInv, [Next]_vars
  PROVE  /\ UNCHANGED limits
         /\ \/ UNCHANGED stamps
            \/ \E t \in 0..now :
                 \/ stamps' = Pruned(stamps, t)
                 \/ /\ Rpm > 0 => Len(Pruned(stamps, t)) < Rpm
                    /\ \E r \in Requests :
                         stamps' = Append(Pruned(stamps, t), [at |-> t, by |-> r])
<1>1. ASSUME NEW r \in Requests, TryAcquire(r)
      PROVE  /\ UNCHANGED limits
             /\ \/ UNCHANGED stamps
                \/ \E t \in 0..now :
                     \/ stamps' = Pruned(stamps, t)
                     \/ /\ Rpm > 0 => Len(Pruned(stamps, t)) < Rpm
                        /\ stamps' = Append(Pruned(stamps, t), [at |-> t, by |-> r])
  <2>1. CASE AcquireUnlimited(r)
    BY <1>1, <2>1 DEF AcquireUnlimited, TryAcquire
  <2>2. ASSUME NEW t \in Readings(r), NEW estimate \in Estimates, AcquireLimited(r, t, estimate)
        PROVE  /\ t \in 0..now
               /\ \/ stamps' = Pruned(stamps, t)
                  \/ /\ Rpm > 0 => Len(Pruned(stamps, t)) < Rpm
                     /\ stamps' = Append(Pruned(stamps, t), [at |-> t, by |-> r])
    <3>1. t \in 0..now /\ Rpm \in Nat
      BY LengthsAreNat
    <3>2. Len(Pruned(stamps, t)) \in Nat
      BY <3>1, PrunedIsLatest, LenProperties
    <3> QED BY <2>2, <3>1, <3>2 DEF AcquireLimited
  <2> QED BY <1>1, <2>1, <2>2 DEF TryAcquire
<1>2. ASSUME NEW r \in Requests, RunIsLost(r) \/ Reports(r) \/ RecordTokens(r)
      PROVE  UNCHANGED <<limits, stamps>>
  BY <1>2 DEF RunIsLost, Reports, RecordTokens
<1>3. CASE Tick \/ UNCHANGED limiterVars
  BY <1>3 DEF Tick, limiterVars
<1> QED BY <1>1, <1>2, <1>3 DEF Next, RequestNext, vars

\* The queue does not outgrow the limit.
LEMMA StepKeepsLength ==
  ASSUME RpmInv, NoMoreThanRpm, [Next]_vars
  PROVE  NoMoreThanRpm'
<1> SUFFICES ASSUME Rpm' > 0 PROVE Len(stamps') <= Rpm'
  BY DEF NoMoreThanRpm
<1>1. Rpm' = Rpm /\ Rpm \in Nat /\ Rpm > 0 /\ Len(stamps) \in Nat /\ Len(stamps) <= Rpm
  <2>1. Rpm' = Rpm
    BY StampsChange DEF Rpm
  <2> QED BY <2>1, LengthsAreNat DEF NoMoreThanRpm
<1>2. ASSUME NEW t \in 0..now
      PROVE  /\ Len(Pruned(stamps, t)) \in Nat /\ Len(Pruned(stamps, t)) <= Len(stamps)
             /\ Pruned(stamps, t) \in Seq(Stamp)
  <2>1. stamps \in Seq(Stamp) /\ t \in Nat
    BY LengthsAreNat DEF RpmInv, LimiterTypeOK, Stamp, Times
  <2>2. \A i \in 1..Len(stamps) : stamps[i].at \in Nat
    BY LengthsAreNat DEF Stamp, Times
  <2>3. PICK d \in 0..Len(stamps) : Len(Pruned(stamps, t)) = Len(stamps) - d
    BY <2>1, <2>2, PrunedIsEnd
  <2> QED BY <1>1, <2>3, PrunedIsLatest
<1>3. CASE UNCHANGED stamps
  BY <1>1, <1>3
<1>4. ASSUME NEW t \in 0..now, stamps' = Pruned(stamps, t)
      PROVE  Len(stamps') <= Rpm'
  BY <1>1, <1>2, <1>4
<1>5. ASSUME NEW t \in 0..now, NEW r \in Requests, Len(Pruned(stamps, t)) < Rpm,
             stamps' = Append(Pruned(stamps, t), [at |-> t, by |-> r])
      PROVE  Len(stamps') <= Rpm'
  <2>1. [at |-> t, by |-> r] \in Stamp
    BY LengthsAreNat DEF Stamp, Times, RpmInv, LimiterTypeOK
  <2>2. Len(stamps') = Len(Pruned(stamps, t)) + 1
    BY <1>2, <1>5, <2>1, AppendProperties
  <2> QED BY <1>1, <1>2, <1>5, <2>2
<1> QED BY <1>1, <1>3, <1>4, <1>5, StampsChange

\* A refusal for the number of requests gives a hint that suffices.
LEMMA RefusalHints ==
  ASSUME RpmInv, NoMoreThanRpm, NEW r \in Requests, NEW t \in 0..now,
         Rpm > 0, Len(Pruned(stamps, t)) >= Rpm, stamps' = Pruned(stamps, t),
         Refuses(r, t, ComputeRetryAfter(Head(Pruned(stamps, t)).at, t)),
         Len(stamps') <= Rpm
  PROVE  Len(Pruned(stamps', told'[r] + 1)) < Rpm
<1> DEFINE q == Pruned(stamps, t)
           w == told'[r]
<1>1. /\ q \in Seq(Stamp) /\ Len(q) \in Nat /\ t \in Nat /\ Rpm \in Nat /\ MaxTime \in Nat
      /\ Window \in Nat /\ now \in Nat
  BY PrunedIsLatest, LenProperties, LengthsAreNat
<1>2. Len(q) >= Rpm /\ Len(q) <= Rpm /\ Rpm > 0
  OBVIOUS
<1>3. w = t + ComputeRetryAfter(Head(q).at, t) * Second
  BY DEF Refuses, RpmInv, LimiterTypeOK
<1> HIDE DEF q, w
<1>4. q # <<>>
  BY <1>1, <1>2
<1>5. Head(q).at \in Nat
  <2>1. Head(q) \in Stamp
    BY <1>1, <1>4, HeadTailProperties
  <2> QED BY <1>1, <2>1 DEF Stamp, Times
<1>6. w \in Nat /\ w >= Head(q).at + Window
  BY <1>1, <1>3, <1>5, RetryCovers
<1>7. w + 1 \in Nat /\ (w + 1) - Head(q).at > Window
  BY <1>1, <1>5, <1>6
<1>8. Len(Pruned(q, w + 1)) \in Nat /\ Len(Pruned(q, w + 1)) < Len(q)
  BY <1>1, <1>4, <1>7, OldHeadGoes
<1>9. Len(Pruned(q, w + 1)) < Rpm
  BY <1>1, <1>2, <1>8
<1> QED BY <1>9 DEF q, w

\* A request that is refused for the number of requests and comes back later than it
\* was told finds room, for any window, unit and limit, if nobody else was admitted
\* (RateLimiter.TryAcquire, ComputeRetryAfter).
THEOREM HintsAreHonest == Spec => HintSuffices
<1>1. RpmInv /\ NoMoreThanRpm /\ NoMoreThanRpm' /\ [Next]_vars =>
        [\A r \in Requests :
           stage[r] # "limited" /\ stage'[r] = "limited" /\ Rpm > 0 /\ Len(stamps') >= Rpm =>
             Len(Pruned(stamps', told'[r] + 1)) < Rpm]_limiterVars
  <2> SUFFICES ASSUME RpmInv, NoMoreThanRpm, NoMoreThanRpm', [Next]_vars, NEW r \in Requests,
                      stage[r] # "limited", stage'[r] = "limited", Rpm > 0, Len(stamps') >= Rpm
               PROVE  Len(Pruned(stamps', told'[r] + 1)) < Rpm
    OBVIOUS
  <2>1. stage \in [Requests -> Stages] /\ Rpm \in Nat
    BY LengthsAreNat DEF RpmInv
  <2>2. Len(stamps') <= Rpm
    <3>1. Rpm' = Rpm
      BY StampsChange DEF Rpm
    <3> QED BY <3>1 DEF NoMoreThanRpm
  <2>3. ASSUME NEW o \in Requests, RunIsLost(o) \/ Reports(o) \/ RecordTokens(o)
        PROVE  FALSE
    BY <2>1, <2>3 DEF RunIsLost, Reports, RecordTokens, Goes
  <2>4. CASE Tick \/ UNCHANGED limiterVars
    BY <2>4 DEF Tick, limiterVars
  <2>5. ASSUME NEW o \in Requests, TryAcquire(o)
        PROVE  Len(Pruned(stamps', told'[r] + 1)) < Rpm
    <3>1. CASE AcquireUnlimited(o)
      BY <2>1, <3>1 DEF AcquireUnlimited, Goes
    <3>2. ASSUME NEW t \in Readings(o), NEW estimate \in Estimates,
                 AcquireLimited(o, t, estimate)
          PROVE  Len(Pruned(stamps', told'[r] + 1)) < Rpm
      <4>1. t \in 0..now
        BY LengthsAreNat
      <4>2. CASE /\ Len(Pruned(stamps, t)) >= Rpm /\ stamps' = Pruned(stamps, t)
                 /\ Refuses(o, t, ComputeRetryAfter(Head(Pruned(stamps, t)).at, t))
        <5>1. o = r
          BY <2>1, <4>2 DEF Refuses, Goes
        <5> QED BY <2>2, <4>1, <4>2, <5>1, RefusalHints
      <4>3. CASE ~(Len(Pruned(stamps, t)) >= Rpm) /\ stamps' = Pruned(stamps, t)
        BY <4>3
      <4>4. CASE Admits(o, t, estimate)
        BY <2>1, <4>4 DEF Admits, Goes
      <4> QED BY <3>2, <4>2, <4>3, <4>4 DEF AcquireLimited
    <3> QED BY <2>5, <3>1, <3>2 DEF TryAcquire
  <2> QED BY <2>3, <2>4, <2>5 DEF Next, RequestNext, vars
<1>2. Init => NoMoreThanRpm
  <2> SUFFICES ASSUME Init, Rpm > 0 PROVE Len(stamps) <= Rpm
    BY DEF NoMoreThanRpm
  <2>1. Len(stamps) = 0 /\ Rpm \in Nat
    BY RpmInitially, LengthsAreNat DEF Init, LimiterInit
  <2> QED BY <2>1
<1>3. RpmInv /\ NoMoreThanRpm /\ [Next]_vars => NoMoreThanRpm'
  BY StepKeepsLength
<1> QED BY <1>1, <1>2, <1>3, RpmAlways, PTL DEF Spec, HintSuffices

-----------------------------------------------------------------------------
(* Total is the sum.  It is defined by recursion over the subsets of a set, so that
   what it computes is shown by induction, as the absence of a least number at which
   it fails. *)

\* A set that has 0 and with each number the next one has all of them.
LEMMA AllNaturals ==
  ASSUME NEW P, 0 \in P, \A n \in Nat : n \in P => n + 1 \in P
  PROVE  \A n \in Nat : n \in P
<1> SUFFICES ASSUME NEW m \in Nat, m \notin P PROVE FALSE
  OBVIOUS
<1>1. PICK n \in {i \in Nat : i \notin P} : \A i \in {j \in Nat : j \notin P} : n <= i
  <2>1. {i \in Nat : i \notin P} \subseteq Nat /\ {i \in Nat : i \notin P} # {}
    OBVIOUS
  <2> QED BY <2>1, Smallest
<1>2. n # 0 /\ n - 1 \in Nat /\ (n - 1) + 1 = n
  BY <1>1
<1>3. n - 1 \in P
  BY <1>1, <1>2
<1> QED BY <1>1, <1>2, <1>3

Largest(T) == CHOOSE i \in T : \A k \in T : k <= i

Others(T) == T \ {Largest(T)}

\* The function g gives the sum of f over every set of Sets.
Adds(g, f, Sets) ==
  g = [T \in Sets |-> IF T = {} THEN 0 ELSE f[Largest(T)] + g[T \ {Largest(T)}]]

\* The same, set by set.
AddsUp(g, f, Sets) ==
  \A T \in Sets : g[T] = IF T = {} THEN 0 ELSE f[Largest(T)] + g[Others(T)]

LEMMA TotalIsChosen ==
  ASSUME NEW f, NEW S
  PROVE  Total(f, S) = (CHOOSE g : Adds(g, f, SUBSET S))[S]
BY DEF Total, Adds, Largest

\* A set of numbers up to n + 1 that is not one of numbers up to n has n + 1, and it
\* is its largest.
LEMMA LargestFacts ==
  ASSUME NEW n \in Nat, NEW T \in SUBSET (1..n), T # {}
  PROVE  /\ Largest(T) \in T /\ \A k \in T : k <= Largest(T)
         /\ Others(T) \subseteq 1..(Largest(T) - 1)
<1> DEFINE U == {n - i : i \in T}
<1>1. U \subseteq Nat /\ U # {}
  <2>1. \A i \in T : n - i \in Nat
    OBVIOUS
  <2>2. PICK i \in T : TRUE
    OBVIOUS
  <2>3. n - i \in U
    BY <2>2
  <2> QED BY <2>1, <2>3
<1> HIDE DEF U
<1>2. PICK u \in U : \A y \in U : u <= y
  BY <1>1, Smallest
<1>3. PICK i \in T : u = n - i
  BY <1>2 DEF U
<1>4. \A k \in T : n - i <= n - k
  BY <1>2, <1>3 DEF U
<1>5. \E j \in T : \A k \in T : k <= j
  BY <1>4
<1>6. Largest(T) \in T /\ \A k \in T : k <= Largest(T)
  BY <1>5 DEF Largest
<1>7. Others(T) \subseteq 1..(Largest(T) - 1)
  <2> DEFINE l == Largest(T)
  <2> HIDE DEF l
  <2>1. \A k \in T : k <= l /\ k \in 1..n
    BY <1>6 DEF l
  <2>2. l \in 1..n
    BY <1>6 DEF l
  <2>3. \A k \in T \ {l} : k \in 1..(l - 1)
    BY <2>1, <2>2
  <2> QED BY <2>3 DEF Others, l
<1> QED BY <1>6, <1>7

\* Sums exist: the function for the sets of numbers up to n is continued to n + 1.
LEMMA SumsExist ==
  ASSUME NEW f, NEW N \in Nat
  PROVE  \E g : Adds(g, f, SUBSET (1..N))
<1> DEFINE P == {n \in Nat : \E g : Adds(g, f, SUBSET (1..n))}
<1>1. 0 \in P
  <2> DEFINE g == [T \in SUBSET (1..0) |-> 0]
  <2>1. \A T \in SUBSET (1..0) : T = {}
    OBVIOUS
  <2>2. Adds(g, f, SUBSET (1..0))
    BY <2>1 DEF Adds
  <2> QED BY <2>2
<1>2. ASSUME NEW n \in Nat, n \in P PROVE n + 1 \in P
  <2> DEFINE Small == SUBSET (1..n)
             Big == SUBSET (1..(n + 1))
  <2>1. PICK g : Adds(g, f, Small)
    BY <1>2
  <2> DEFINE h == [T \in Big |-> IF T \in Small THEN g[T] ELSE f[Largest(T)] + g[Others(T)]]
  <2>2. AddsUp(g, f, Small)
    <3> HIDE DEF Small
    <3>1. g = [T \in Small |-> IF T = {} THEN 0 ELSE f[Largest(T)] + g[T \ {Largest(T)}]]
      BY <2>1 DEF Adds
    <3>2. \A T \in Small : g[T] = IF T = {} THEN 0 ELSE f[Largest(T)] + g[T \ {Largest(T)}]
      BY <3>1
    <3> QED BY <3>2 DEF AddsUp, Others
  <2>3. ASSUME NEW T \in Big
        PROVE  h[T] = IF T = {} THEN 0 ELSE f[Largest(T)] + h[Others(T)]
    <3>1. h[T] = IF T \in Small THEN g[T] ELSE f[Largest(T)] + g[Others(T)]
      BY <2>3
    <3>2. CASE T = {}
      <4>1. T \in Small
        BY <3>2
      <4> HIDE DEF Small, Big, h
      <4> QED BY <2>2, <3>1, <3>2, <4>1 DEF AddsUp
    <3>3. CASE T # {}
      <4>1. /\ Largest(T) \in T /\ \A k \in T : k <= Largest(T)
            /\ Others(T) \subseteq 1..(Largest(T) - 1)
        <5>1. n + 1 \in Nat
          OBVIOUS
        <5> QED BY <2>3, <3>3, <5>1, LargestFacts
      <4>2. Others(T) \in Small /\ Others(T) \in Big
        <5>1. Largest(T) \in 1..(n + 1)
          BY <4>1
        <5>2. \A k \in 1..(Largest(T) - 1) : k \in 1..n /\ k \in 1..(n + 1)
          BY <5>1
        <5> QED BY <4>1, <5>2
      <4>3. h[Others(T)] = g[Others(T)]
        <5> HIDE DEF Small, Big
        <5> QED BY <4>2
      <4> HIDE DEF Small, Big, h
      <4> QED BY <2>2, <3>1, <3>3, <4>2, <4>3 DEF AddsUp
    <3> QED BY <3>2, <3>3
  <2>4. h = [T \in Big |-> IF T = {} THEN 0 ELSE f[Largest(T)] + h[Others(T)]]
    <3>1. h = [T \in Big |-> h[T]]
      OBVIOUS
    <3> HIDE DEF h, Big
    <3> QED BY <2>3, <3>1
  <2>5. Adds(h, f, Big)
    <3> HIDE DEF h, Big
    <3> QED BY <2>4 DEF Adds, Others
  <2>6. n + 1 \in Nat
    OBVIOUS
  <2> HIDE DEF h
  <2> QED BY <2>5, <2>6
<1> HIDE DEF P
<1>3. N \in P
  BY <1>1, <1>2, AllNaturals
<1> QED BY <1>3 DEF P

\* So the total of S is what the recursion says, for every set of S.
LEMMA TotalAddsUp ==
  ASSUME NEW f, NEW N \in Nat, NEW S \in SUBSET (1..N)
  PROVE  \E g : AddsUp(g, f, SUBSET S) /\ Total(f, S) = g[S]
<1>1. PICK all : Adds(all, f, SUBSET (1..N))
  BY SumsExist
<1> DEFINE Sets == SUBSET S
           g == [T \in Sets |-> all[T]]
<1>2. \A T \in SUBSET (1..N) :
        all[T] = IF T = {} THEN 0 ELSE f[Largest(T)] + all[T \ {Largest(T)}]
  BY <1>1 DEF Adds
<1>3. ASSUME NEW T \in Sets
      PROVE  g[T] = IF T = {} THEN 0 ELSE f[Largest(T)] + g[T \ {Largest(T)}]
  <2>1. T \in SUBSET (1..N) /\ T \ {Largest(T)} \in Sets
    OBVIOUS
  <2>2. g[T] = all[T] /\ g[T \ {Largest(T)}] = all[T \ {Largest(T)}]
    <3> HIDE DEF Sets
    <3> QED BY <2>1
  <2> HIDE DEF Sets, g
  <2> QED BY <1>2, <2>1, <2>2
<1>4. g = [T \in Sets |-> IF T = {} THEN 0 ELSE f[Largest(T)] + g[T \ {Largest(T)}]]
  <2>1. g = [T \in Sets |-> g[T]]
    OBVIOUS
  <2> HIDE DEF g, Sets
  <2> QED BY <1>3, <2>1
<1> HIDE DEF g
<1>5. \E h : Adds(h, f, Sets)
  <2> HIDE DEF Sets
  <2> QED BY <1>4 DEF Adds
<1> DEFINE chosen == CHOOSE h : Adds(h, f, Sets)
<1> HIDE DEF Sets
<1>6. Adds(chosen, f, Sets)
  BY <1>5
<1>7. Total(f, S) = chosen[S]
  BY TotalIsChosen DEF Sets
<1> HIDE DEF chosen
<1>8. \A T \in Sets : chosen[T] = IF T = {} THEN 0 ELSE f[Largest(T)] + chosen[T \ {Largest(T)}]
  BY <1>6 DEF Adds
<1>9. AddsUp(chosen, f, Sets)
  BY <1>8 DEF AddsUp, Others
<1> QED BY <1>7, <1>9 DEF Sets

\* A sum of naturals is one.
LEMMA SumsAreNat ==
  ASSUME NEW f, NEW N \in Nat, NEW S \in SUBSET (1..N), \A i \in S : f[i] \in Nat,
         NEW g, AddsUp(g, f, SUBSET S)
  PROVE  \A T \in SUBSET S : g[T] \in Nat
<1> DEFINE P == {n \in Nat : \A T \in SUBSET S : T \subseteq 1..n => g[T] \in Nat}
<1>1. 0 \in P
  <2>1. ASSUME NEW T \in SUBSET S, T \subseteq 1..0 PROVE g[T] \in Nat
    <3>1. T = {}
      BY <2>1
    <3>2. g[T] = 0
      BY <3>1 DEF AddsUp
    <3> QED BY <3>2
  <2> QED BY <2>1
<1>2. ASSUME NEW n \in Nat, n \in P PROVE n + 1 \in P
  <2>1. ASSUME NEW T \in SUBSET S, T \subseteq 1..(n + 1) PROVE g[T] \in Nat
    <3>1. CASE T = {}
      BY <3>1 DEF AddsUp
    <3>2. CASE T # {}
      <4>1. n + 1 \in Nat /\ T \in SUBSET (1..(n + 1))
        BY <2>1
      <4>2. Largest(T) \in T /\ Others(T) \subseteq 1..(Largest(T) - 1)
        BY <3>2, <4>1, LargestFacts
      <4>3. Others(T) \in SUBSET S
        BY DEF Others
      <4>4. Others(T) \subseteq 1..n
        <5>1. Largest(T) \in 1..(n + 1)
          BY <2>1, <4>2
        <5>2. \A k \in 1..(Largest(T) - 1) : k \in 1..n
          BY <5>1
        <5> QED BY <4>2, <5>2
      <4>5. g[Others(T)] \in Nat /\ f[Largest(T)] \in Nat
        BY <1>2, <4>2, <4>3, <4>4
      <4>6. g[T] = f[Largest(T)] + g[Others(T)]
        BY <3>2 DEF AddsUp
      <4> QED BY <4>5, <4>6
    <3> QED BY <3>1, <3>2
  <2>2. n + 1 \in Nat
    OBVIOUS
  <2>3. \A T \in SUBSET S : T \subseteq 1..(n + 1) => g[T] \in Nat
    BY ONLY <2>1, Zenon
  <2> QED BY <2>2, <2>3
<1>3. N \in P
  <2> HIDE DEF P
  <2> QED BY <1>1, <1>2, AllNaturals
<1>4. \A T \in SUBSET S : T \subseteq 1..N
  OBVIOUS
<1> QED BY <1>3, <1>4

\* If every number of X, d less, is one of Y, with the same addend, X adds up to no more.
LEMMA TotalsCompare ==
  ASSUME NEW f, NEW h, NEW N \in Nat, NEW A \in SUBSET (1..N), NEW B \in SUBSET (1..N),
         NEW d \in Nat, \A a \in A : a - d \in B /\ f[a] = h[a - d],
         \A b \in B : h[b] \in Nat
  PROVE  Total(f, A) \in Nat /\ Total(h, B) \in Nat /\ Total(f, A) <= Total(h, B)
<1>1. PICK x : AddsUp(x, f, SUBSET A) /\ Total(f, A) = x[A]
  BY TotalAddsUp
<1>2. PICK y : AddsUp(y, h, SUBSET B) /\ Total(h, B) = y[B]
  BY TotalAddsUp
<1>3. \A a \in A : f[a] \in Nat
  OBVIOUS
<1>4. \A X \in SUBSET A : x[X] \in Nat
  BY <1>1, <1>3, SumsAreNat
<1>5. \A Y \in SUBSET B : y[Y] \in Nat
  BY <1>2, SumsAreNat
<1> DEFINE Below(X, Y) == \A i \in X : i - d \in Y
           P == {n \in Nat : \A X \in SUBSET A, Y \in SUBSET B :
                               Y \subseteq 1..n /\ Below(X, Y) => x[X] <= y[Y]}
<1>6. 0 \in P
  <2>1. ASSUME NEW X \in SUBSET A, NEW Y \in SUBSET B, Y \subseteq 1..0, Below(X, Y)
        PROVE  x[X] <= y[Y]
    <3>1. Y = {} /\ X = {}
      BY <2>1
    <3>2. x[X] = 0 /\ y[Y] = 0
      BY <1>1, <1>2, <3>1 DEF AddsUp
    <3> QED BY <3>2
  <2> QED BY <2>1
<1>7. ASSUME NEW n \in Nat, n \in P PROVE n + 1 \in P
  <2>1. ASSUME NEW X \in SUBSET A, NEW Y \in SUBSET B, Y \subseteq 1..(n + 1), Below(X, Y)
        PROVE  x[X] <= y[Y]
    <3>1. CASE Y = {}
      <4>1. X = {}
        BY <2>1, <3>1
      <4>2. x[X] = 0 /\ y[Y] = 0
        BY <1>1, <1>2, <3>1, <4>1 DEF AddsUp
      <4> QED BY <4>2
    <3>2. CASE Y # {}
      <4> DEFINE l == Largest(Y)
      <4>1. n + 1 \in Nat /\ Y \in SUBSET (1..(n + 1))
        BY <2>1
      <4>2. l \in Y /\ Others(Y) \subseteq 1..(l - 1) /\ \A k \in Y : k <= l
        BY <3>2, <4>1, LargestFacts
      <4>3. Others(Y) = Y \ {l} /\ Others(Y) \in SUBSET B
        BY DEF Others
      <4>4. y[Y] = h[l] + y[Others(Y)]
        BY <1>2, <3>2 DEF AddsUp
      <4> HIDE DEF l
      <4>5. Others(Y) \subseteq 1..n /\ l \in Nat
        <5>1. l \in 1..(n + 1)
          BY <2>1, <4>2
        <5>2. \A k \in 1..(l - 1) : k \in 1..n
          BY <5>1
        <5> QED BY <4>2, <5>1, <5>2
      <4>6. h[l] \in Nat /\ y[Others(Y)] \in Nat /\ y[Y] \in Nat /\ x[X] \in Nat
        BY <1>4, <1>5, <4>2, <4>3
      <4>7. \A i \in X : i \in Nat /\ i - d \in Y
        BY <2>1
      <4>8. CASE l + d \in X
        <5>1. X \in SUBSET (1..N) /\ X # {}
          BY <4>8
        <5>2. Largest(X) \in X /\ \A k \in X : k <= Largest(X)
          BY <5>1, LargestFacts
        <5>3. Largest(X) = l + d
          <6>1. Largest(X) - d <= l /\ l + d <= Largest(X) /\ Largest(X) \in Nat
            BY <4>2, <4>7, <4>8, <5>2
          <6> QED BY <4>5, <6>1
        <5>4. Others(X) = X \ {l + d} /\ Others(X) \in SUBSET A
          BY <5>3 DEF Others
        <5>5. ASSUME NEW i \in Others(X) PROVE i - d \in Others(Y)
          <6>1. i \in X /\ i # l + d /\ i \in Nat /\ i - d \in Y
            BY <4>7, <5>4
          <6>2. i - d # l
            BY <4>5, <6>1
          <6> QED BY <4>3, <6>1, <6>2
        <5>6. x[Others(X)] <= y[Others(Y)]
          BY <1>7, <4>3, <4>5, <5>4, <5>5
        <5>7. x[X] = f[l + d] + x[Others(X)]
          BY <1>1, <5>1, <5>3 DEF AddsUp
        <5>8. f[l + d] = h[l]
          <6>1. (l + d) - d = l /\ l + d \in A
            BY <4>5, <4>8
          <6> QED BY <6>1
        <5>9. x[Others(X)] \in Nat
          BY <1>4, <5>4
        <5> QED BY <4>4, <4>6, <5>6, <5>7, <5>8, <5>9
      <4>9. CASE l + d \notin X
        <5>1. Below(X, Others(Y))
          BY <4>3, <4>5, <4>7, <4>9
        <5>2. x[X] <= y[Others(Y)]
          BY <1>7, <4>3, <4>5, <5>1
        <5> QED BY <4>4, <4>6, <5>2
      <4> QED BY <4>8, <4>9
    <3> QED BY <3>1, <3>2
  <2>2. n + 1 \in Nat
    OBVIOUS
  <2> QED BY <2>1, <2>2
<1>8. N \in P
  <2> HIDE DEF P
  <2> QED BY <1>6, <1>7, AllNaturals
<1>9. x[A] <= y[B]
  <2>1. Below(A, B) /\ B \subseteq 1..N /\ A \in SUBSET A /\ B \in SUBSET B
    OBVIOUS
  <2> HIDE DEF Below
  <2> QED BY <1>8, <2>1
<1>10. x[A] \in Nat /\ y[B] \in Nat
  BY <1>4, <1>5
<1> HIDE DEF P
<1> QED BY <1>1, <1>2, <1>9, <1>10

-----------------------------------------------------------------------------
(* The limit on tokens.  The queue of events holds the latest reports, and those that
   are missing are over a minute old.  What an admission was checked against is
   therefore at least what lies within a minute of it, and of a later report. *)

Report == [by : Requests, from : Times, to : Times, tokens : Usages]
TokenEvent == [at : Times, tokens : Usages]

\* The queue q is the end of the list of reports, and the rest of it is old.
IsLatestOf(q, list) ==
  /\ Len(q) <= Len(list)
  /\ \A i \in 1..Len(q) : /\ q[i].at = list[Len(list) - Len(q) + i].from
                          /\ q[i].tokens = list[Len(list) - Len(q) + i].tokens
  /\ \A i \in 1..(Len(list) - Len(q)) : now - list[i].from > Window

\* Whichever of the reports it saw lay within a minute of the admission a, there was
\* room beside them for its estimate.
Fits(a, list) ==
  \A A \in SUBSET (1..a.seen) :
    (\A i \in A : a.to - list[i].from <= Window) =>
      Total([i \in 1..a.seen |-> list[i].tokens], A) + a.estimate <= Tpm

\* A request reports after it was admitted, once, and the reports are in the order of
\* the clock.
ReportsInOrder ==
  /\ \A i \in 1..Len(ledger) : ledger[i].to <= now /\ stage[ledger[i].by] \in {"charged", "done"}
  /\ \A i, j \in 1..Len(ledger) : i <= j => ledger[i].to <= ledger[j].to
  /\ \A n \in 1..Len(admitted) : admitted[n].to <= now /\ admitted[n].seen <= Len(ledger)
  /\ \A n \in 1..Len(admitted), i \in 1..Len(ledger) :
       admitted[n].by = ledger[i].by => admitted[n].to <= ledger[i].to

TpmInv ==
  /\ IsLatestOf(events, ledger)
  /\ ReportsInOrder
  /\ Tpm > 0 => \A n \in 1..Len(admitted) : Fits(admitted[n], ledger)

\* What the types say of the reports and the events.
LEMMA ReportsAreTyped ==
  ASSUME RpmInv
  PROVE  /\ ledger \in Seq(Report) /\ events \in Seq(TokenEvent)
         /\ Len(ledger) \in Nat /\ Len(events) \in Nat /\ Tpm \in Nat
         /\ \A i \in 1..Len(ledger) : ledger[i] \in Report
         /\ \A i \in 1..Len(events) : events[i] \in TokenEvent
         /\ \A i \in 1..Len(ledger) : /\ ledger[i].from \in Nat /\ ledger[i].to \in Nat
                                      /\ ledger[i].tokens \in Nat
         /\ \A i \in 1..Len(events) : events[i].at \in Nat
         /\ \A n \in 1..Len(admitted) : /\ admitted[n].seen \in Nat /\ admitted[n].to \in Nat
                                        /\ admitted[n].estimate \in Nat
<1>1. ledger \in Seq(Report) /\ events \in Seq(TokenEvent) /\ Tpm \in Nat
  BY LimiterAssumption DEF RpmInv, LimiterTypeOK, Report, TokenEvent, Times, Tpm
<1>2. /\ \A i \in 1..Len(ledger) : ledger[i] \in Report
      /\ \A i \in 1..Len(events) : events[i] \in TokenEvent
  BY <1>1, ElementOfSeq
<1>3. Times \subseteq Nat /\ Usages \subseteq Nat /\ Estimates \subseteq Nat
  BY LimiterAssumption DEF Times
<1>4. \A i \in 1..Len(ledger) : /\ ledger[i].from \in Nat /\ ledger[i].to \in Nat
                                /\ ledger[i].tokens \in Nat
  BY <1>2, <1>3 DEF Report
<1>5. \A i \in 1..Len(events) : events[i].at \in Nat
  BY <1>2, <1>3 DEF TokenEvent
<1>6. \A n \in 1..Len(admitted) : /\ admitted[n].seen \in Nat /\ admitted[n].to \in Nat
                                  /\ admitted[n].estimate \in Nat
  BY <1>3, LengthsAreNat DEF Admission
<1>7. Len(ledger) \in Nat /\ Len(events) \in Nat
  BY <1>1, LenProperties
<1> QED BY <1>1, <1>2, <1>4, <1>5, <1>6, <1>7

\* What is left of the events at a reading of the clock is still the end of the list.
LEMMA PrunedIsLatestOf ==
  ASSUME RpmInv, IsLatestOf(events, ledger), NEW t \in 0..now
  PROVE  Pruned(events, t) \in Seq(TokenEvent) /\ IsLatestOf(Pruned(events, t), ledger)
<1>1. /\ events \in Seq(TokenEvent) /\ t \in Nat /\ t <= now /\ now \in Nat /\ Window \in Nat
      /\ Len(ledger) \in Nat /\ Len(events) \in Nat
      /\ \A i \in 1..Len(events) : events[i].at \in Nat
  BY LengthsAreNat, ReportsAreTyped
<1>2. PICK d \in 0..Len(events) :
        /\ Pruned(events, t) \in Seq(TokenEvent)
        /\ Len(Pruned(events, t)) = Len(events) - d
        /\ \A i \in 1..(Len(events) - d) : Pruned(events, t)[i] = events[d + i]
        /\ \A i \in 1..d : t - events[i].at > Window
  BY <1>1, PrunedIsEnd
<1> DEFINE q == Pruned(events, t)
           gone == Len(ledger) - Len(events)
<1> HIDE DEF q
<1>3. /\ q \in Seq(TokenEvent) /\ Len(q) = Len(events) - d
      /\ \A i \in 1..(Len(events) - d) : q[i] = events[d + i]
  BY <1>2 DEF q
<1>4. /\ Len(events) <= Len(ledger)
      /\ \A i \in 1..Len(events) : /\ events[i].at = ledger[gone + i].from
                                   /\ events[i].tokens = ledger[gone + i].tokens
      /\ \A i \in 1..gone : now - ledger[i].from > Window
  BY DEF IsLatestOf
<1>5. /\ d \in Nat /\ gone \in Nat /\ Len(q) \in Nat /\ Len(q) <= Len(ledger)
      /\ Len(ledger) - Len(q) = gone + d
  BY <1>1, <1>2, <1>3, <1>4
<1>6. ASSUME NEW i \in 1..Len(q)
      PROVE  /\ q[i].at = ledger[Len(ledger) - Len(q) + i].from
             /\ q[i].tokens = ledger[Len(ledger) - Len(q) + i].tokens
  <2>1. i \in 1..(Len(events) - d) /\ d + i \in 1..Len(events)
        /\ Len(ledger) - Len(q) + i = gone + (d + i)
    BY <1>1, <1>3, <1>5
  <2> HIDE DEF gone
  <2> QED BY <1>3, <1>4, <2>1
<1>7. ASSUME NEW i \in 1..(Len(ledger) - Len(q))
      PROVE  now - ledger[i].from > Window
  <2>0. i \in 1..(gone + d) /\ i \in 1..Len(ledger)
    BY <1>1, <1>5
  <2> HIDE DEF gone
  <2>1. CASE i <= gone
    <3>1. i \in 1..gone
      BY <1>5, <2>0, <2>1
    <3> QED BY <1>4, <3>1
  <2>2. CASE i > gone
    <3>1. i - gone \in 1..d /\ i - gone \in 1..Len(events) /\ gone + (i - gone) = i
      BY <1>1, <1>2, <1>5, <2>0, <2>2
    <3>2. t - events[i - gone].at > Window /\ events[i - gone].at = ledger[gone + (i - gone)].from
      BY <1>2, <1>4, <3>1
    <3>3. t - ledger[i].from > Window /\ ledger[i].from \in Nat
      BY <2>0, <3>1, <3>2, ReportsAreTyped
    <3> QED BY <1>1, <3>3
  <2> QED BY <1>5, <2>0, <2>1, <2>2
<1> QED BY <1>3, <1>5, <1>6, <1>7 DEF IsLatestOf, q

\* The check of an admission: what it sums up is at least what is within a minute.
LEMMA AdmissionFits ==
  ASSUME RpmInv, NEW q \in Seq(TokenEvent), IsLatestOf(q, ledger), NEW estimate \in Nat,
         ~(TokensIn(q) + estimate > Tpm), NEW a, a.seen = Len(ledger), a.to = now,
         a.estimate = estimate
  PROVE  Fits(a, ledger)
<1> DEFINE L == Len(ledger)
           d == L - Len(q)
           f == [i \in 1..L |-> ledger[i].tokens]
           h == [i \in 1..Len(q) |-> q[i].tokens]
<1>1. /\ L \in Nat /\ Len(q) \in Nat /\ Len(q) <= L /\ d \in Nat /\ Tpm \in Nat
      /\ now \in Nat /\ Window \in Nat
  <2>1. L \in Nat /\ Tpm \in Nat /\ now \in Nat /\ Window \in Nat
    BY LengthsAreNat, ReportsAreTyped
  <2>2. Len(q) \in Nat
    BY LenProperties
  <2> QED BY <2>1, <2>2 DEF IsLatestOf
<1>2. \A i \in 1..Len(q) : q[i].tokens = ledger[d + i].tokens
  BY DEF IsLatestOf
<1>3. \A i \in 1..d : now - ledger[i].from > Window
  BY DEF IsLatestOf
<1>4. \A i \in 1..Len(q) : q[i].tokens \in Nat
  <2>1. \A i \in 1..Len(q) : q[i] \in TokenEvent
    BY ElementOfSeq
  <2>2. Usages \subseteq Nat
    BY LimiterAssumption
  <2> QED BY <2>1, <2>2 DEF TokenEvent
<1> SUFFICES ASSUME NEW A \in SUBSET (1..L), \A i \in A : now - ledger[i].from <= Window
             PROVE  Total(f, A) + estimate <= Tpm
  BY DEF Fits
<1>5. ASSUME NEW i \in A PROVE i - d \in 1..Len(q) /\ f[i] = h[i - d]
  <2>1. i \in 1..L /\ now - ledger[i].from <= Window
    OBVIOUS
  <2>2. ledger[i].from \in Nat
    BY <2>1, ReportsAreTyped
  <2>3. ~(i \in 1..d)
    BY <1>1, <1>3, <2>1, <2>2
  <2>4. i - d \in 1..Len(q) /\ d + (i - d) = i
    BY <1>1, <2>1, <2>3
  <2>5. q[i - d].tokens = ledger[i].tokens
    <3> HIDE DEF d
    <3> QED BY <1>2, <2>4
  <2> HIDE DEF d
  <2>6. f[i] = ledger[i].tokens /\ h[i - d] = q[i - d].tokens
    BY <2>1, <2>4
  <2> QED BY <2>4, <2>5, <2>6
<1>6. 1..Len(q) \in SUBSET (1..L) /\ \A i \in 1..Len(q) : h[i] \in Nat
  <2>1. \A i \in 1..Len(q) : i \in 1..L
    BY <1>1
  <2> QED BY <1>4, <2>1
<1>7. TokensIn(q) = Total(h, 1..Len(q))
  BY DEF TokensIn
<1> HIDE DEF f, h, d, L
<1>8. /\ Total(f, A) \in Nat /\ Total(h, 1..Len(q)) \in Nat
      /\ Total(f, A) <= Total(h, 1..Len(q))
  BY <1>1, <1>5, <1>6, TotalsCompare
<1> QED BY <1>1, <1>7, <1>8

\* The steps that report nothing and admit nobody.
LEMMA QuietKeepsTpm ==
  ASSUME RpmInv, TpmInv, UNCHANGED <<limits, now, admitted, ledger>>,
         IsLatestOf(events', ledger),
         \A i \in 1..Len(ledger) : stage'[ledger[i].by] \in {"charged", "done"}
  PROVE  TpmInv'
<1>1. IsLatestOf(events, ledger)'
  BY DEF IsLatestOf
<1>2. ReportsInOrder'
  BY DEF TpmInv, ReportsInOrder
<1>3. (Tpm > 0 => \A n \in 1..Len(admitted) : Fits(admitted[n], ledger))'
  BY DEF TpmInv, Fits, Tpm
<1> QED BY <1>1, <1>2, <1>3 DEF TpmInv

\* A request that moves on and has not reported does not disturb who has.
LEMMA ReportedStay ==
  ASSUME RpmInv, ReportsInOrder, NEW r \in Requests, NEW s, Goes(r, s),
         stage[r] \notin {"charged", "done"} \/ s \in {"charged", "done"}
  PROVE  \A i \in 1..Len(ledger) : stage'[ledger[i].by] \in {"charged", "done"}
<1> SUFFICES ASSUME NEW i \in 1..Len(ledger)
             PROVE  stage'[ledger[i].by] \in {"charged", "done"}
  OBVIOUS
<1>1. ledger[i].by \in Requests /\ stage[ledger[i].by] \in {"charged", "done"}
  BY ReportsAreTyped DEF ReportsInOrder, Report
<1>2. stage \in [Requests -> Stages] /\ stage' = [stage EXCEPT ![r] = s]
  BY DEF RpmInv, Goes
<1> QED BY <1>1, <1>2

\* An admission under a limit.
LEMMA AdmissionKeepsTpm ==
  ASSUME RpmInv, TpmInv, NEW r \in Requests, stage[r] = "new",
         NEW t \in 0..now, NEW estimate \in Estimates,
         Tpm > 0 => ~(TokensIn(Pruned(events, t)) + estimate > Tpm),
         Admits(r, t, estimate), events' = Pruned(events, t), UNCHANGED <<limits, now, ledger>>
  PROVE  TpmInv'
<1> DEFINE q == Pruned(events, t)
           one == [by |-> r, from |-> t, to |-> now, estimate |-> estimate,
                   seen |-> Len(ledger)]
<1>1. q \in Seq(TokenEvent) /\ IsLatestOf(q, ledger)
  BY PrunedIsLatestOf DEF TpmInv
<1>2. /\ estimate \in Nat /\ Len(ledger) \in Nat /\ now \in Nat /\ t \in Times /\ now \in Times
      /\ Tpm \in Nat /\ admitted \in Seq(Admission)
      /\ Len(admitted) \in Nat
  BY LengthsAreNat, ReportsAreTyped, LimiterAssumption
     DEF RpmInv, LimiterTypeOK, Admission, Times
<1>3. admitted' = Append(admitted, one) /\ Goes(r, "running")
  BY DEF Admits
<1>4. one \in Admission /\ one.by = r /\ one.to = now /\ one.estimate = estimate
      /\ one.seen = Len(ledger)
  BY <1>2 DEF Admission
<1> HIDE DEF q, one
<1>5. /\ Len(admitted') = Len(admitted) + 1
      /\ \A i \in 1..Len(admitted) : admitted'[i] = admitted[i]
      /\ admitted'[Len(admitted) + 1] = one
  BY <1>2, <1>3, <1>4, AppendProperties
<1>6. \A i \in 1..Len(ledger) : stage'[ledger[i].by] \in {"charged", "done"}
  BY <1>3, ReportedStay DEF TpmInv
<1>7. \A i \in 1..Len(ledger) : ledger[i].by # r
  BY DEF TpmInv, ReportsInOrder
<1>8. ASSUME NEW n \in 1..Len(admitted') PROVE n \in 1..Len(admitted) \/ n = Len(admitted) + 1
  BY <1>2, <1>5
<1>9. IsLatestOf(events, ledger)'
  BY <1>1 DEF IsLatestOf, q
<1>10. ReportsInOrder'
  <2>1. /\ \A i \in 1..Len(ledger) : ledger[i].to <= now
        /\ \A i, j \in 1..Len(ledger) : i <= j => ledger[i].to <= ledger[j].to
        /\ \A n \in 1..Len(admitted) : admitted[n].to <= now /\ admitted[n].seen <= Len(ledger)
        /\ \A n \in 1..Len(admitted), i \in 1..Len(ledger) :
             admitted[n].by = ledger[i].by => admitted[n].to <= ledger[i].to
    BY DEF TpmInv, ReportsInOrder
  <2>2. ASSUME NEW n \in 1..Len(admitted')
        PROVE  admitted'[n].to <= now /\ admitted'[n].seen <= Len(ledger)
    <3>1. CASE n \in 1..Len(admitted)
      BY <1>5, <2>1, <3>1
    <3>2. CASE n = Len(admitted) + 1
      BY <1>2, <1>4, <1>5, <3>2
    <3> QED BY <1>8, <3>1, <3>2
  <2>3. ASSUME NEW n \in 1..Len(admitted'), NEW i \in 1..Len(ledger),
               admitted'[n].by = ledger[i].by
        PROVE  admitted'[n].to <= ledger[i].to
    <3>1. CASE n \in 1..Len(admitted)
      BY <1>5, <2>1, <2>3, <3>1
    <3>2. CASE n = Len(admitted) + 1
      BY <1>4, <1>5, <1>7, <2>3, <3>2
    <3> QED BY <1>8, <3>1, <3>2
  <2> QED BY <1>6, <2>1, <2>2, <2>3 DEF ReportsInOrder
<1>11. ASSUME Tpm > 0, NEW n \in 1..Len(admitted') PROVE Fits(admitted'[n], ledger)
  <2>1. CASE n \in 1..Len(admitted)
    BY <1>5, <1>11, <2>1 DEF TpmInv
  <2>2. CASE n = Len(admitted) + 1
    <3>1. ~(TokensIn(q) + estimate > Tpm)
      BY <1>11 DEF q
    <3>2. Fits(one, ledger)
      BY <1>1, <1>2, <1>4, <3>1, AdmissionFits
    <3> QED BY <1>5, <2>2, <3>2
  <2> QED BY <1>8, <2>1, <2>2
<1>12. (Tpm > 0 => \A n \in 1..Len(admitted) : Fits(admitted[n], ledger))'
  BY <1>11 DEF Fits, Tpm
<1> QED BY <1>9, <1>10, <1>12 DEF TpmInv

\* TryAcquire, on each of its ways.
LEMMA AcquireKeepsTpm ==
  ASSUME RpmInv, TpmInv, NEW r \in Requests, TryAcquire(r)
  PROVE  TpmInv'
<1>0. stage[r] = "new" /\ UNCHANGED <<limits, now, ledger>>
  BY DEF TryAcquire
<1>1. CASE AcquireUnlimited(r)
  <2>1. UNCHANGED <<events, admitted>> /\ Goes(r, "running")
    BY <1>1 DEF AcquireUnlimited
  <2>2. \A i \in 1..Len(ledger) : stage'[ledger[i].by] \in {"charged", "done"}
    BY <1>0, <2>1, ReportedStay DEF TpmInv
  <2>3. IsLatestOf(events', ledger)
    BY <2>1 DEF TpmInv
  <2> QED BY <1>0, <2>1, <2>2, <2>3, QuietKeepsTpm
<1>2. CASE \E t \in Readings(r), estimate \in Estimates : AcquireLimited(r, t, estimate)
  <2>1. PICK t \in Readings(r), estimate \in Estimates : AcquireLimited(r, t, estimate)
    BY <1>2
  <2>2. t \in 0..now /\ events' = Pruned(events, t)
    BY <2>1, LengthsAreNat DEF AcquireLimited
  <2>3. IsLatestOf(events', ledger)
    BY <2>2, PrunedIsLatestOf DEF TpmInv
  <2>4. CASE \E seconds : Refuses(r, t, seconds)
    <3>1. UNCHANGED admitted /\ Goes(r, "limited")
      BY <2>4 DEF Refuses
    <3>2. \A i \in 1..Len(ledger) : stage'[ledger[i].by] \in {"charged", "done"}
      BY <1>0, <3>1, ReportedStay DEF TpmInv
    <3> QED BY <1>0, <2>3, <3>1, <3>2, QuietKeepsTpm
  <2>5. CASE /\ ~(Tpm > 0 /\ TokensIn(Pruned(events, t)) + estimate > Tpm)
             /\ Admits(r, t, estimate)
    <3>1. Tpm > 0 => ~(TokensIn(Pruned(events, t)) + estimate > Tpm)
      BY <2>5
    <3> QED BY <1>0, <2>1, <2>2, <2>5, <3>1, AdmissionKeepsTpm
  <2> QED BY <2>1, <2>4, <2>5 DEF AcquireLimited
<1> QED BY <1>1, <1>2 DEF TryAcquire

\* A report: it comes after the admission of its request, and no admission saw it.
LEMMA RecordKeepsTpm ==
  ASSUME RpmInv, TpmInv, NEW r \in Requests, RecordTokens(r)
  PROVE  TpmInv'
<1>1. PICK t \in Readings(r), n \in Usages :
        IF n = 0 THEN UNCHANGED <<events, ledger>>
        ELSE /\ events' = Append(events, [at |-> t, tokens |-> n])
             /\ ledger' = Append(ledger, [by |-> r, from |-> t, to |-> now, tokens |-> n])
  BY DEF RecordTokens
<1>2. UNCHANGED <<limits, now, admitted>> /\ stage[r] = "running" /\ Goes(r, "charged")
  BY DEF RecordTokens
<1>3. \A i \in 1..Len(ledger) : stage'[ledger[i].by] \in {"charged", "done"}
  BY <1>2, ReportedStay DEF TpmInv
<1>4. CASE n = 0
  <2>1. UNCHANGED <<events, ledger>>
    BY <1>1, <1>4
  <2> QED BY <1>2, <1>3, <2>1, QuietKeepsTpm DEF TpmInv
<1>5. CASE n # 0
  <2> DEFINE event == [at |-> t, tokens |-> n]
             one == [by |-> r, from |-> t, to |-> now, tokens |-> n]
             L == Len(ledger)
             K == Len(events)
  <2>1. /\ events' = Append(events, event) /\ ledger' = Append(ledger, one)
    BY <1>1, <1>5
  <2>2. /\ t \in Times /\ now \in Times /\ now \in Nat /\ L \in Nat /\ K \in Nat
        /\ ledger \in Seq(Report) /\ events \in Seq(TokenEvent) /\ Window \in Nat
    <3>1. t \in 0..now /\ now \in Nat /\ MaxTime \in Nat /\ Window \in Nat
      BY LengthsAreNat
    <3>2. now \in Times
      BY DEF RpmInv, LimiterTypeOK, Times
    <3> QED BY <3>1, <3>2, ReportsAreTyped DEF Times
  <2>3. event \in TokenEvent /\ one \in Report /\ event.at = one.from
        /\ event.tokens = one.tokens /\ one.by = r /\ one.to = now
    BY <2>2 DEF TokenEvent, Report
  <2> HIDE DEF event, one
  <2>4. /\ Len(events') = K + 1 /\ \A i \in 1..K : events'[i] = events[i]
        /\ events'[K + 1] = event
    BY <2>1, <2>2, <2>3, AppendProperties
  <2>5. /\ Len(ledger') = L + 1 /\ \A i \in 1..L : ledger'[i] = ledger[i]
        /\ ledger'[L + 1] = one
    BY <2>1, <2>2, <2>3, AppendProperties
  <2>6. /\ K <= L
        /\ \A i \in 1..K : /\ events[i].at = ledger[L - K + i].from
                           /\ events[i].tokens = ledger[L - K + i].tokens
        /\ \A i \in 1..(L - K) : now - ledger[i].from > Window
    BY DEF TpmInv, IsLatestOf
  <2> HIDE DEF L, K
  <2>7. IsLatestOf(events', ledger')
    <3>1. Len(events') <= Len(ledger') /\ Len(ledger') - Len(events') = L - K
      BY <2>2, <2>4, <2>5, <2>6
    <3>2. ASSUME NEW i \in 1..Len(events')
          PROVE  /\ events'[i].at = ledger'[Len(ledger') - Len(events') + i].from
                 /\ events'[i].tokens = ledger'[Len(ledger') - Len(events') + i].tokens
      <4>1. CASE i \in 1..K
        <5>1. L - K + i \in 1..L
          BY <2>2, <2>6, <4>1
        <5> QED BY <2>4, <2>5, <2>6, <3>1, <4>1, <5>1
      <4>2. CASE i = K + 1
        <5>1. L - K + i = L + 1
          BY <2>2, <4>2
        <5> QED BY <2>3, <2>4, <2>5, <3>1, <4>2, <5>1
      <4> QED BY <2>2, <2>4, <4>1, <4>2
    <3>3. ASSUME NEW i \in 1..(Len(ledger') - Len(events'))
          PROVE  now - ledger'[i].from > Window
      <4>1. i \in 1..(L - K) /\ i \in 1..L
        BY <2>2, <2>6, <3>1
      <4> QED BY <2>5, <2>6, <4>1
    <3> QED BY <3>1, <3>2, <3>3 DEF IsLatestOf
  <2>8. IsLatestOf(events, ledger)'
    BY <1>2, <2>7 DEF IsLatestOf
  <2>9. ASSUME NEW i \in 1..Len(ledger') PROVE i \in 1..L \/ i = L + 1
    BY <2>2, <2>5
  <2>10. /\ \A i \in 1..L : ledger[i].to <= now
         /\ \A i, j \in 1..L : i <= j => ledger[i].to <= ledger[j].to
         /\ \A m \in 1..Len(admitted) : admitted[m].to <= now /\ admitted[m].seen <= L
         /\ \A m \in 1..Len(admitted), i \in 1..L :
              admitted[m].by = ledger[i].by => admitted[m].to <= ledger[i].to
    BY DEF TpmInv, ReportsInOrder, L
  <2>11. ReportsInOrder'
    <3>1. ASSUME NEW i \in 1..Len(ledger')
          PROVE  ledger'[i].to <= now /\ stage'[ledger'[i].by] \in {"charged", "done"}
      <4>1. CASE i \in 1..L
        BY <1>3, <2>5, <2>10, <4>1 DEF L
      <4>2. CASE i = L + 1
        <5>1. stage'[r] = "charged"
          BY <1>2 DEF Goes, RpmInv
        <5> QED BY <2>2, <2>3, <2>5, <4>2, <5>1
      <4> QED BY <2>9, <4>1, <4>2
    <3>2. ASSUME NEW i \in 1..Len(ledger'), NEW j \in 1..Len(ledger'), i <= j
          PROVE  ledger'[i].to <= ledger'[j].to
      <4>1. CASE j \in 1..L
        <5>1. i \in 1..L
          BY <2>2, <3>2, <4>1
        <5> QED BY <2>5, <2>10, <3>2, <4>1, <5>1
      <4>2. CASE j = L + 1
        <5>1. ledger'[j].to = now
          BY <2>3, <2>5, <4>2
        <5> QED BY <3>1, <5>1
      <4> QED BY <2>9, <4>1, <4>2
    <3>3. ASSUME NEW m \in 1..Len(admitted)
          PROVE  admitted[m].to <= now /\ admitted[m].seen <= Len(ledger')
      <4>1. admitted[m].seen \in Nat /\ admitted[m].seen <= L
        BY <2>10, ReportsAreTyped
      <4> QED BY <2>2, <2>5, <2>10, <4>1
    <3>4. ASSUME NEW m \in 1..Len(admitted), NEW i \in 1..Len(ledger'),
                 admitted[m].by = ledger'[i].by
          PROVE  admitted[m].to <= ledger'[i].to
      <4>1. CASE i \in 1..L
        BY <2>5, <2>10, <3>4, <4>1
      <4>2. CASE i = L + 1
        BY <2>3, <2>5, <2>10, <4>2
      <4> QED BY <2>9, <4>1, <4>2
    <3> QED BY <1>2, <3>1, <3>2, <3>3, <3>4 DEF ReportsInOrder
  <2>12. ASSUME Tpm > 0, NEW m \in 1..Len(admitted) PROVE Fits(admitted[m], ledger')
    <3> DEFINE s == admitted[m].seen
    <3>1. s \in Nat /\ s <= L /\ Fits(admitted[m], ledger)
      BY <2>10, <2>12, ReportsAreTyped DEF TpmInv
    <3> HIDE DEF s
    <3>2. \A i \in 1..s : i \in 1..L
      BY <2>2, <3>1
    <3>3. \A i \in 1..s : ledger'[i] = ledger[i]
      BY <2>5, <3>2
    <3>4. [i \in 1..s |-> ledger'[i].tokens] = [i \in 1..s |-> ledger[i].tokens]
      BY <3>3
    <3>5. ASSUME NEW A \in SUBSET (1..s), \A i \in A : admitted[m].to - ledger'[i].from <= Window
          PROVE  Total([i \in 1..s |-> ledger'[i].tokens], A) + admitted[m].estimate <= Tpm
      <4>1. \A i \in A : admitted[m].to - ledger[i].from <= Window
        BY <3>3, <3>5
      <4>2. Total([i \in 1..s |-> ledger[i].tokens], A) + admitted[m].estimate <= Tpm
        BY <3>1, <4>1 DEF Fits, s
      <4> QED BY <3>4, <4>2
    <3> QED BY <3>5 DEF Fits, s
  <2>13. (Tpm > 0 => \A m \in 1..Len(admitted) : Fits(admitted[m], ledger))'
    <3>1. Tpm' = Tpm /\ admitted' = admitted
      BY <1>2 DEF Tpm
    <3> QED BY <2>12, <3>1 DEF Fits
  <2> QED BY <2>8, <2>11, <2>13 DEF TpmInv
<1> QED BY <1>4, <1>5

\* Time only makes the reports older.
LEMMA TickKeepsTpm ==
  ASSUME RpmInv, TpmInv, Tick
  PROVE  TpmInv'
<1>1. UNCHANGED <<limits, stage, events, admitted, ledger>> /\ now' = now + 1
  BY DEF Tick
<1>2. now \in Nat /\ Window \in Nat /\ Len(ledger) \in Nat /\ Len(events) \in Nat
  BY LengthsAreNat, ReportsAreTyped
<1>3. IsLatestOf(events, ledger)'
  <2>1. ASSUME NEW i \in 1..(Len(ledger) - Len(events)) PROVE now' - ledger[i].from > Window
    <3>1. i \in 1..Len(ledger) /\ now - ledger[i].from > Window
      BY <1>2 DEF TpmInv, IsLatestOf
    <3>2. ledger[i].from \in Nat
      BY <3>1, ReportsAreTyped
    <3> QED BY <1>1, <1>2, <3>1, <3>2
  <2> QED BY <1>1, <2>1 DEF TpmInv, IsLatestOf
<1>4. ReportsInOrder'
  <2>1. \A i \in 1..Len(ledger) : ledger[i].to <= now'
    <3> SUFFICES ASSUME NEW i \in 1..Len(ledger) PROVE ledger[i].to <= now'
      OBVIOUS
    <3>1. ledger[i].to \in Nat /\ ledger[i].to <= now
      BY ReportsAreTyped DEF TpmInv, ReportsInOrder
    <3> QED BY <1>1, <1>2, <3>1
  <2>2. \A n \in 1..Len(admitted) : admitted[n].to <= now'
    <3> SUFFICES ASSUME NEW n \in 1..Len(admitted) PROVE admitted[n].to <= now'
      OBVIOUS
    <3>1. admitted[n].to \in Nat /\ admitted[n].to <= now
      BY ReportsAreTyped DEF TpmInv, ReportsInOrder
    <3> QED BY <1>1, <1>2, <3>1
  <2> QED BY <1>1, <2>1, <2>2 DEF TpmInv, ReportsInOrder
<1>5. (Tpm > 0 => \A n \in 1..Len(admitted) : Fits(admitted[n], ledger))'
  BY <1>1 DEF TpmInv, Fits, Tpm
<1> QED BY <1>3, <1>4, <1>5 DEF TpmInv

\* Every step of the server keeps the books of the tokens.
LEMMA StepKeepsTpm ==
  ASSUME RpmInv, TpmInv, [Next]_vars
  PROVE  TpmInv'
<1>1. ASSUME NEW r \in Requests, RequestNext(r)
      PROVE  TpmInv'
  <2>1. CASE TryAcquire(r)
    BY <2>1, AcquireKeepsTpm
  <2>2. CASE RecordTokens(r)
    BY <2>2, RecordKeepsTpm
  <2>3. CASE RunIsLost(r) \/ Reports(r)
    <3>1. UNCHANGED <<limits, now, events, admitted, ledger>>
      BY <2>3 DEF RunIsLost, Reports
    <3>2. \A i \in 1..Len(ledger) : stage'[ledger[i].by] \in {"charged", "done"}
      <4>1. CASE RunIsLost(r)
        BY <4>1, ReportedStay DEF RunIsLost, TpmInv
      <4>2. CASE Reports(r)
        BY <4>2, ReportedStay DEF Reports, TpmInv
      <4> QED BY <2>3, <4>1, <4>2
    <3> QED BY <3>1, <3>2, QuietKeepsTpm DEF TpmInv
  <2> QED BY <1>1, <2>1, <2>2, <2>3 DEF RequestNext
<1>2. CASE Tick
  BY <1>2, TickKeepsTpm
<1>3. CASE UNCHANGED limiterVars
  <2>1. UNCHANGED <<limits, now, stage, events, admitted, ledger>>
    BY <1>3 DEF limiterVars
  <2>2. \A i \in 1..Len(ledger) : stage'[ledger[i].by] \in {"charged", "done"}
    BY <2>1 DEF TpmInv, ReportsInOrder
  <2> QED BY <2>1, <2>2, QuietKeepsTpm DEF TpmInv
<1> QED BY <1>1, <1>2, <1>3 DEF Next, vars

\* TpmInv is an invariant.
LEMMA TpmAlways == Spec => [](RpmInv /\ TpmInv)
<1>1. Init => RpmInv /\ TpmInv
  <2> SUFFICES ASSUME Init PROVE RpmInv /\ TpmInv
    OBVIOUS
  <2>1. Len(events) = 0 /\ Len(ledger) = 0 /\ Len(admitted) = 0
    BY DEF Init, LimiterInit
  <2> QED BY <2>1, RpmInitially DEF TpmInv, IsLatestOf, ReportsInOrder
<1>2. RpmInv /\ TpmInv /\ [Next]_vars => (RpmInv /\ TpmInv)'
  BY StepKeepsRpm, StepKeepsTpm
<1> QED BY <1>1, <1>2, PTL DEF Spec

\* RateLimiter!WithinTpm, for any limits, usages, estimates and stalls (TryAcquire and
\* RecordTokens): the tokens reported within a minute exceed the limit only by those of
\* requests in flight when the last of them was admitted.
THEOREM TokensAreLimited == Spec => []WithinTpm
<1>1. RpmInv /\ TpmInv => WithinTpm
  <2> SUFFICES ASSUME RpmInv, TpmInv, Tpm > 0,
                      NEW b \in 1..Len(ledger), NEW e \in 1..Len(ledger),
                      \A i \in b..e : ledger[e].to - ledger[i].from <= Window,
                      NEW n \in 1..Len(admitted),
                      admitted[n].by \in {ledger[i].by : i \in b..e}
               PROVE  LET before == {i \in b..e : i <= admitted[n].seen}
                      IN  Total([i \in 1..Len(ledger) |-> ledger[i].tokens], before)
                            + admitted[n].estimate <= Tpm
    BY DEF WithinTpm
  <2> DEFINE before == {i \in b..e : i <= admitted[n].seen}
             s == admitted[n].seen
             f == [i \in 1..Len(ledger) |-> ledger[i].tokens]
             h == [i \in 1..s |-> ledger[i].tokens]
  <2>1. /\ Len(ledger) \in Nat /\ s \in Nat /\ s <= Len(ledger) /\ admitted[n].to \in Nat
        /\ admitted[n].estimate \in Nat /\ Window \in Nat /\ Tpm \in Nat
    BY LengthsAreNat, ReportsAreTyped DEF TpmInv, ReportsInOrder
  <2>2. PICK u \in b..e : admitted[n].by = ledger[u].by
    OBVIOUS
  <2>3. admitted[n].to <= ledger[e].to
    <3>1. u \in 1..Len(ledger) /\ u <= e
      BY <2>1
    <3>2. admitted[n].to <= ledger[u].to /\ ledger[u].to <= ledger[e].to
      BY <2>2, <3>1 DEF TpmInv, ReportsInOrder
    <3>3. ledger[u].to \in Nat /\ ledger[e].to \in Nat
      BY <3>1, ReportsAreTyped
    <3> QED BY <2>1, <3>2, <3>3
  <2>4. ASSUME NEW i \in before
        PROVE  i \in 1..s /\ i \in 1..Len(ledger) /\ admitted[n].to - ledger[i].from <= Window
    <3>1. i \in 1..s /\ i \in 1..Len(ledger) /\ ledger[e].to - ledger[i].from <= Window
      BY <2>1
    <3>2. ledger[i].from \in Nat /\ ledger[e].to \in Nat
      BY <3>1, ReportsAreTyped
    <3>3. \A x, y, z, w \in Nat : x <= y /\ y - z <= w => x - z <= w
      OBVIOUS
    <3>4. admitted[n].to - ledger[i].from <= Window
      BY <2>1, <2>3, <3>1, <3>2, <3>3
    <3> QED BY <3>1, <3>4
  <2> HIDE DEF before
  <2>5. before \in SUBSET (1..s) /\ before \in SUBSET (1..Len(ledger))
    BY <2>4
  <2>6. Total(h, before) + admitted[n].estimate <= Tpm
    <3>1. Fits(admitted[n], ledger)
      BY DEF TpmInv
    <3>2. \A i \in before : admitted[n].to - ledger[i].from <= Window
      BY <2>4
    <3> QED BY <2>5, <3>1, <3>2 DEF Fits
  <2>7. /\ Total(f, before) \in Nat /\ Total(h, before) \in Nat
        /\ Total(f, before) <= Total(h, before)
    <3>1. ASSUME NEW a \in before PROVE a - 0 \in before /\ f[a] = h[a - 0] /\ h[a] \in Nat
      <4>1. a \in 1..s /\ a \in 1..Len(ledger) /\ a - 0 = a
        BY <2>4
      <4>2. ledger[a].tokens \in Nat
        BY <4>1, ReportsAreTyped
      <4> HIDE DEF s
      <4> QED BY <4>1, <4>2
    <3>2. \A a \in before : a - 0 \in before /\ f[a] = h[a - 0] /\ h[a] \in Nat
      BY <3>1
    <3> HIDE DEF f, h
    <3> QED BY <2>1, <2>5, <3>2, TotalsCompare
  <2> HIDE DEF f, h
  <2>8. Total(f, before) + admitted[n].estimate <= Tpm
    BY <2>1, <2>6, <2>7
  <2> QED BY <2>8 DEF before, f
<1> QED BY <1>1, TpmAlways, PTL

-----------------------------------------------------------------------------
(* The audit log.  An entry is in one place at a time: it comes when its request
   is done, waits in the channel or the batch, and ends as a row or as a loss. *)

Distinct == \A i, j \in 1..Len(channel) : channel[i] = channel[j] => i = j

AuditInv ==
  /\ AuditTypeOK /\ stage \in [Requests -> Stages]
  /\ Distinct
  /\ Queued \cap batch = {}
  /\ StoredOnce
  /\ \A r \in Requests : stage[r] # "done" => r \notin Queued \cup batch /\ rows[r] = 0
  /\ \A r \in Requests :
       stage[r] = "done" => rows[r] = 1 \/ r \in Lost \cup Queued \cup batch
  /\ writer \in {"saving last", "stopped"} => Queued \subseteq Lost
  /\ writer = "stopped" => batch = {}

\* A step of the limiter or of a request that leaves the log alone.
LEMMA AuditLeftAlone ==
  ASSUME AuditInv, UNCHANGED auditVars, stage' \in [Requests -> Stages],
         \A r \in Requests : stage'[r] = "done" <=> stage[r] = "done"
  PROVE  AuditInv'
<1>1. UNCHANGED <<channel, batch, rows, writer, stopping, lost>>
  BY DEF auditVars
<1>2. Queued' = Queued /\ Lost' = Lost
  BY <1>1 DEF Queued, Lost
<1>3. AuditTypeOK' /\ Distinct'
  BY <1>1 DEF AuditInv, AuditTypeOK, Distinct
<1>4. StoredOnce'
  BY <1>1, <1>2 DEF AuditInv, StoredOnce
<1> QED BY <1>1, <1>2, <1>3, <1>4 DEF AuditInv

\* Lose adds to the losses and takes nothing away.
LEMMA LoseAdds ==
  ASSUME AuditTypeOK, NEW how \in Losses, NEW S \in SUBSET Entries, Lose(how, S)
  PROVE  lost' \in [Losses -> SUBSET Entries] /\ Lost' = Lost \cup S
<1>1. lost \in [Losses -> SUBSET Entries]
  BY DEF AuditTypeOK
<1>2. lost' = [lost EXCEPT ![how] = @ \cup S]
  BY DEF Lose
<1>3. lost' \in [Losses -> SUBSET Entries]
  BY <1>1, <1>2
<1>4. \A other \in Losses : lost'[other] = IF other = how THEN lost[how] \cup S ELSE lost[other]
  BY <1>1, <1>2
<1>5. ASSUME NEW e PROVE e \in Lost' <=> e \in Lost \/ e \in S
  BY <1>4 DEF Lost
<1> QED BY <1>3, <1>5

\* An entry that is not in the channel is appended: the entries stay distinct.
LEMMA AppendQueues ==
  ASSUME channel \in Seq(Entries), Distinct, NEW e \in Entries, e \notin Queued,
         channel' = Append(channel, e)
  PROVE  /\ channel' \in Seq(Entries) /\ Len(channel') = Len(channel) + 1
         /\ Distinct' /\ Queued' = Queued \cup {e}
<1>1. /\ channel' \in Seq(Entries) /\ Len(channel') = Len(channel) + 1
      /\ \A i \in 1..Len(channel) : channel'[i] = channel[i]
      /\ channel'[Len(channel) + 1] = e /\ Len(channel) \in Nat
  BY AppendProperties, LenProperties
<1>2. \A i \in 1..Len(channel') : i \in 1..Len(channel) \/ i = Len(channel) + 1
  BY <1>1
<1>3. \A i \in 1..Len(channel) : i \in 1..Len(channel') /\ channel[i] # e
  BY <1>1 DEF Queued
<1>4. Distinct'
  <2> SUFFICES ASSUME NEW i \in 1..Len(channel'), NEW j \in 1..Len(channel'),
                      channel'[i] = channel'[j]
               PROVE  i = j
    BY DEF Distinct
  <2> QED BY <1>1, <1>2, <1>3 DEF Distinct
<1>5. Len(channel) + 1 \in 1..Len(channel')
  BY <1>1
<1>6. ASSUME NEW x PROVE x \in Queued' <=> x \in Queued \/ x = e
  BY <1>1, <1>2, <1>3, <1>5 DEF Queued
<1> QED BY <1>1, <1>4, <1>6

\* The head is taken off: it leaves the set of the queued entries, as they are distinct.
LEMMA TailQueues ==
  ASSUME channel \in Seq(Entries), Distinct, channel # <<>>, channel' = Tail(channel)
  PROVE  /\ channel' \in Seq(Entries) /\ Len(channel') = Len(channel) - 1
         /\ Distinct' /\ Queued' = Queued \ {Head(channel)}
         /\ Head(channel) \in Queued /\ Head(channel) \in Entries
<1>1. /\ channel' \in Seq(Entries) /\ Len(channel') = Len(channel) - 1
      /\ \A i \in 1..Len(channel') : channel'[i] = channel[i + 1]
      /\ Head(channel) \in Entries /\ Len(channel) \in Nat
  BY HeadTailProperties, LenProperties
<1>2. Len(channel) > 0 /\ Head(channel) = channel[1] /\ 1 \in 1..Len(channel)
  BY <1>1, EmptySeq, HeadTailProperties
<1>3. \A i \in 1..Len(channel') : i + 1 \in 1..Len(channel) /\ i + 1 # 1
  BY <1>1
<1>4. \A i \in 1..Len(channel) : i # 1 => i - 1 \in 1..Len(channel') /\ (i - 1) + 1 = i
  BY <1>1
<1>5. Distinct'
  <2> SUFFICES ASSUME NEW i \in 1..Len(channel'), NEW j \in 1..Len(channel'),
                      channel'[i] = channel'[j]
               PROVE  i = j
    BY DEF Distinct
  <2>1. i + 1 = j + 1
    BY <1>1, <1>3 DEF Distinct
  <2> QED BY <1>1, <2>1
<1>6. ASSUME NEW x PROVE x \in Queued' <=> x \in Queued /\ x # Head(channel)
  <2>1. ASSUME NEW i \in 1..Len(channel')
        PROVE  channel'[i] \in Queued /\ channel'[i] # Head(channel)
    BY <1>1, <1>2, <1>3 DEF Queued, Distinct
  <2>2. ASSUME NEW i \in 1..Len(channel), channel[i] # Head(channel)
        PROVE  \E j \in 1..Len(channel') : channel'[j] = channel[i]
    <3>1. i - 1 \in 1..Len(channel') /\ (i - 1) + 1 = i
      BY <1>2, <1>4, <2>2
    <3>2. channel'[i - 1] = channel[i]
      BY <1>1, <3>1
    <3> QED BY <3>1, <3>2
  <2>3. ASSUME x \in Queued' PROVE x \in Queued /\ x # Head(channel)
    <3>1. PICK i \in 1..Len(channel') : x = channel'[i]
      BY <2>3 DEF Queued
    <3> QED BY <2>1, <3>1
  <2>4. ASSUME x \in Queued, x # Head(channel) PROVE x \in Queued'
    <3>1. PICK i \in 1..Len(channel) : x = channel[i]
      BY <2>4 DEF Queued
    <3>2. PICK j \in 1..Len(channel') : channel'[j] = x
      BY <2>2, <2>4, <3>1
    <3> QED BY <3>2 DEF Queued
  <2> QED BY <2>3, <2>4
<1>7. Head(channel) \in Queued
  BY <1>2 DEF Queued
<1> QED BY <1>1, <1>5, <1>6, <1>7

\* StoredOnce carried over a step, with the type of the rows.
LEMMA StoredCases ==
  ASSUME AuditInv, NEW e \in Entries
  PROVE  /\ rows[e] \in {0, 1}
         /\ rows[e] = 1 => e \notin Queued /\ e \notin batch
<1>1. rows[e] \in Nat
  BY DEF AuditInv, AuditTypeOK
<1>2. rows[e] <= 1 /\ (rows[e] = 1 => e \notin Queued \cup batch)
  BY DEF AuditInv, StoredOnce
<1> QED BY <1>1, <1>2

\* StoredOnce after a step, from the cases of each entry.
LEMMA StoredNext ==
  ASSUME \A e \in Entries :
           rows'[e] \in {0, 1} /\ (rows'[e] = 1 => e \notin Queued' /\ e \notin batch')
  PROVE  StoredOnce'
BY DEF StoredOnce

\* Reports: the entry of a request that is not yet done is nowhere before.
LEMMA ReportKeepsAudit ==
  ASSUME AuditInv, RpmInv, NEW r \in Requests, Reports(r)
  PROVE  AuditInv'
<1>1. /\ stage[r] = "charged" /\ Enqueue(r) /\ r \in Entries
      /\ stage' \in [Requests -> Stages]
      /\ \A o \in Requests : stage'[o] = IF o = r THEN "done" ELSE stage[o]
  BY EntriesAssumption DEF Reports, Goes, AuditInv, Stages
<1>2. r \notin Queued /\ r \notin batch /\ rows[r] = 0
  BY <1>1 DEF AuditInv
<1>3. UNCHANGED <<batch, rows, writer, stopping>>
  BY <1>1 DEF Enqueue
<1>4. CASE Len(channel) < Capacity
  <2>1. /\ channel' \in Seq(Entries) /\ Len(channel') = Len(channel) + 1
        /\ Distinct' /\ Queued' = Queued \cup {r}
    BY <1>1, <1>2, <1>4, AppendQueues DEF Enqueue, AuditInv, AuditTypeOK
  <2>2. Len(channel') <= Capacity
    <3>1. Len(channel) \in Nat /\ Capacity \in Nat
      BY AuditAssumption, LenProperties DEF AuditInv, AuditTypeOK
    <3> QED BY <1>4, <2>1, <3>1
  <2>3. /\ lost' \in [Losses -> SUBSET Entries] /\ Lost \subseteq Lost'
        /\ writer \in {"saving last", "stopped"} => Lost' = Lost \cup {r}
    <3>1. CASE writer \in {"saving last", "stopped"}
      <4>1. Lose("late", {r})
        BY <1>1, <1>4, <3>1 DEF Enqueue
      <4>2. {r} \in SUBSET Entries /\ "late" \in Losses
        BY <1>1 DEF Losses
      <4> QED BY <4>1, <4>2, LoseAdds DEF AuditInv
    <3>2. CASE writer \notin {"saving last", "stopped"}
      <4>1. UNCHANGED lost
        BY <1>1, <1>4, <3>2 DEF Enqueue
      <4> QED BY <3>2, <4>1 DEF AuditInv, AuditTypeOK, Lost
    <3> QED BY <3>1, <3>2
  <2>4. AuditTypeOK'
    BY <1>3, <2>1, <2>2, <2>3 DEF AuditInv, AuditTypeOK
  <2>5. StoredOnce'
    <3>1. ASSUME NEW e \in Entries
          PROVE  rows'[e] \in {0, 1} /\ (rows'[e] = 1 => e \notin Queued' /\ e \notin batch')
      <4>1. rows[e] \in {0, 1} /\ (rows[e] = 1 => e \notin Queued /\ e \notin batch)
        BY StoredCases
      <4> QED BY <1>2, <1>3, <2>1, <4>1
    <3> QED BY <3>1, StoredNext
  <2> QED BY <1>1, <1>2, <1>3, <2>1, <2>3, <2>4, <2>5 DEF AuditInv
<1>5. CASE ~(Len(channel) < Capacity)
  <2>1. UNCHANGED channel /\ Lose("full", {r})
    BY <1>1, <1>5 DEF Enqueue
  <2>2. {r} \in SUBSET Entries /\ "full" \in Losses
    BY <1>1 DEF Losses
  <2>3. lost' \in [Losses -> SUBSET Entries] /\ Lost' = Lost \cup {r}
    BY <2>1, <2>2, LoseAdds DEF AuditInv
  <2>4. Queued' = Queued /\ Distinct'
    <3>1. Queued' = Queued
      BY <2>1 DEF Queued
    <3>2. Distinct'
      BY <2>1 DEF Distinct, AuditInv
    <3> QED BY <3>1, <3>2
  <2>5. AuditTypeOK'
    BY <1>3, <2>1, <2>3 DEF AuditInv, AuditTypeOK
  <2>6. StoredOnce'
    BY <1>3, <2>4 DEF AuditInv, StoredOnce
  <2> QED BY <1>1, <1>2, <1>3, <2>3, <2>4, <2>5, <2>6 DEF AuditInv
<1> QED BY <1>4, <1>5

\* One TryRead moves the head of the channel to the batch.
LEMMA ReadKeepsAudit ==
  ASSUME AuditInv, ReadsOne, UNCHANGED limiterVars
  PROVE  AuditInv'
<1>1. /\ batch' = batch \cup {Head(channel)} /\ channel' = Tail(channel) /\ channel # <<>>
      /\ writer \in {"draining", "draining last"}
      /\ UNCHANGED <<rows, writer, stopping, lost>> /\ stage' = stage
  BY DEF ReadsOne, limiterVars
<1>2. /\ channel' \in Seq(Entries) /\ Len(channel') = Len(channel) - 1
      /\ Distinct' /\ Queued' = Queued \ {Head(channel)}
      /\ Head(channel) \in Queued /\ Head(channel) \in Entries
  BY <1>1, TailQueues DEF AuditInv, AuditTypeOK
<1>3. Len(channel') <= Capacity
  <2>1. Len(channel) \in Nat /\ Capacity \in Nat /\ Len(channel) <= Capacity
    BY AuditAssumption, LenProperties DEF AuditInv, AuditTypeOK
  <2> QED BY <1>2, <2>1
<1>4. Queued' \cup batch' = Queued \cup batch /\ Queued' \cap batch' = {} /\ Lost' = Lost
  BY <1>1, <1>2 DEF AuditInv, Lost
<1>5. AuditTypeOK'
  BY <1>1, <1>2, <1>3 DEF AuditInv, AuditTypeOK
<1>6. StoredOnce'
  BY <1>1, <1>4 DEF AuditInv, StoredOnce
<1> QED BY <1>1, <1>2, <1>4, <1>5, <1>6 DEF AuditInv

\* The steps that only move the writer.
LEMMA MoveKeepsAudit ==
  ASSUME AuditInv, UNCHANGED limiterVars, WakesUp \/ Drained \/ LoopEnds \/ Stop
  PROVE  AuditInv'
<1>1. UNCHANGED <<channel, batch, rows, lost>> /\ stage' = stage
  BY DEF WakesUp, Drained, LoopEnds, Stop, limiterVars
<1>2. Queued' = Queued /\ Lost' = Lost
  BY <1>1 DEF Queued, Lost
<1>3. writer' \in {"saving last", "stopped"} => Queued \subseteq Lost
  <2>1. CASE Drained
    <3>1. Queued = {}
      <4>1. channel = <<>> /\ Len(channel) = 0
        BY <2>1 DEF Drained
      <4>2. 1..Len(channel) = {}
        BY <4>1
      <4> QED BY <4>2 DEF Queued
    <3> QED BY <3>1
  <2>2. CASE WakesUp \/ LoopEnds
    BY <2>2 DEF WakesUp, LoopEnds
  <2>3. CASE Stop
    BY <2>3 DEF Stop, AuditInv
  <2> QED BY <2>1, <2>2, <2>3
<1>4. writer' = "stopped" => batch = {}
  BY DEF WakesUp, Drained, LoopEnds, Stop, AuditInv
<1>5. AuditTypeOK'
  BY <1>1 DEF WakesUp, Drained, LoopEnds, Stop, AuditInv, AuditTypeOK
<1>6. Distinct' /\ StoredOnce'
  BY <1>1, <1>2 DEF AuditInv, Distinct, StoredOnce
<1> QED BY <1>1, <1>2, <1>3, <1>4, <1>5, <1>6 DEF AuditInv

\* The end of a save: the batch is in the rows or among the losses, and is gone.
LEMMA SaveKeepsAudit ==
  ASSUME AuditInv, UNCHANGED limiterVars, Saves \/ SaveFails \/ SaveIsCut
  PROVE  AuditInv'
<1>1. /\ batch' = {} /\ UNCHANGED <<channel, stopping>> /\ stage' = stage
      /\ writer \in {"saving", "saving last"}
      /\ writer' \in {"waiting", "stopped", "draining last"}
      /\ writer' = "stopped" => writer = "saving last"
  BY DEF Saves, SaveFails, SaveIsCut, Cleared, limiterVars
<1>2. Queued' = Queued /\ Distinct'
  <2>1. Queued' = Queued
    BY <1>1 DEF Queued
  <2>2. Distinct'
    BY <1>1 DEF Distinct, AuditInv
  <2> QED BY <2>1, <2>2
<1>3. batch \in SUBSET Entries /\ rows \in [Entries -> Nat]
  BY DEF AuditInv, AuditTypeOK
<1>4. CASE Saves
  <2>1. rows' = [e \in Entries |-> rows[e] + IF e \in batch THEN 1 ELSE 0] /\ UNCHANGED lost
    BY <1>4 DEF Saves, Insert
  <2>2. rows' \in [Entries -> Nat] /\ Lost' = Lost
    BY <1>3, <2>1 DEF Lost
  <2>3. \A e \in Entries : e \in batch => rows[e] = 0
    <3>1. ASSUME NEW e \in Entries, e \in batch PROVE rows[e] = 0
      <4>1. rows[e] \in {0, 1} /\ (rows[e] = 1 => e \notin batch)
        BY StoredCases
      <4> QED BY <3>1, <4>1
    <3> QED BY <3>1
  <2>4. \A e \in Entries : rows'[e] = IF e \in batch THEN 1 ELSE rows[e]
    BY <1>3, <2>1, <2>3
  <2>5. AuditTypeOK'
    BY <1>1, <2>1, <2>2 DEF AuditInv, AuditTypeOK
  <2>8. Queued \cap batch = {}
    BY DEF AuditInv
  <2>6. StoredOnce'
    <3>1. ASSUME NEW e \in Entries
          PROVE  rows'[e] \in {0, 1} /\ (rows'[e] = 1 => e \notin Queued' /\ e \notin batch')
      <4>1. rows[e] \in {0, 1} /\ (rows[e] = 1 => e \notin Queued)
        BY StoredCases
      <4> QED BY <1>1, <1>2, <2>4, <2>8, <4>1
    <3> QED BY <3>1, StoredNext
  <2>7. \A r \in Requests : r \in Entries
    BY EntriesAssumption
  <2> QED BY <1>1, <1>2, <2>2, <2>4, <2>5, <2>6, <2>7 DEF AuditInv
<1>5. CASE SaveFails \/ SaveIsCut
  <2>1. UNCHANGED rows /\ \E how \in Losses : Lose(how, batch)
    BY <1>5 DEF SaveFails, SaveIsCut, Losses
  <2>2. lost' \in [Losses -> SUBSET Entries] /\ Lost' = Lost \cup batch
    BY <1>3, <2>1, LoseAdds DEF AuditInv
  <2>3. AuditTypeOK'
    BY <1>1, <2>1, <2>2 DEF AuditInv, AuditTypeOK
  <2>4. StoredOnce'
    BY <1>1, <1>2, <2>1 DEF AuditInv, StoredOnce
  <2> QED BY <1>1, <1>2, <2>1, <2>2, <2>3, <2>4 DEF AuditInv
<1> QED BY <1>4, <1>5

\* At the start the log is empty.
LEMMA AuditInitially ==
  ASSUME Init
  PROVE  AuditInv
<1>1. AuditInit /\ stage = [r \in Requests |-> "new"]
  BY DEF Init, LimiterInit
<1>2. channel = <<>> /\ Len(channel) = 0 /\ batch = {} /\ rows = [e \in Entries |-> 0]
  BY <1>1 DEF AuditInit
<1>3. Queued = {}
  <2>1. 1..Len(channel) = {}
    BY <1>2
  <2> QED BY <2>1 DEF Queued
<1>4. AuditTypeOK
  <2>1. channel \in Seq(Entries)
    BY <1>2, EmptySeq
  <2>2. Len(channel) <= Capacity /\ rows \in [Entries -> Nat]
    BY <1>2, AuditAssumption
  <2>3. lost \in [Losses -> SUBSET Entries]
    BY <1>1 DEF AuditInit
  <2>4. writer = "waiting" /\ stopping = FALSE
    BY <1>1 DEF AuditInit
  <2> QED BY <1>2, <2>1, <2>2, <2>3, <2>4 DEF AuditTypeOK
<1>5. Distinct
  BY <1>2 DEF Distinct
<1>6. StoredOnce
  BY <1>2 DEF StoredOnce
<1>7. writer = "waiting"
  BY <1>1 DEF AuditInit
<1>8. stage \in [Requests -> Stages] /\ \A r \in Requests : stage[r] # "done"
  BY <1>1 DEF Stages
<1>9. \A r \in Requests : rows[r] = 0
  BY <1>2, EntriesAssumption
<1> QED BY <1>2, <1>3, <1>4, <1>5, <1>6, <1>7, <1>8, <1>9 DEF AuditInv

\* Every step of the server keeps the books of the log.
LEMMA StepKeepsAudit ==
  ASSUME RpmInv, AuditInv, [Next]_vars
  PROVE  AuditInv'
<1>1. ASSUME NEW r \in Requests, RequestNext(r)
      PROVE  AuditInv'
  <2>1. CASE (TryAcquire(r) \/ RunIsLost(r) \/ RecordTokens(r)) /\ UNCHANGED auditVars
    <3>1. PICK s \in Stages : s # "done" /\ Goes(r, s) /\ stage[r] # "done"
      BY <2>1 DEF TryAcquire, AcquireUnlimited, AcquireLimited, Refuses, Admits,
                  RunIsLost, RecordTokens, Stages
    <3>2. /\ stage' \in [Requests -> Stages]
          /\ \A o \in Requests : stage'[o] = IF o = r THEN s ELSE stage[o]
      BY <3>1 DEF Goes, AuditInv
    <3> QED BY <2>1, <3>1, <3>2, AuditLeftAlone
  <2>2. CASE Reports(r)
    BY <2>2, ReportKeepsAudit
  <2> QED BY <1>1, <2>1, <2>2 DEF RequestNext
<1>2. CASE Tick /\ UNCHANGED auditVars
  <2>1. stage' = stage /\ stage \in [Requests -> Stages]
    BY <1>2 DEF Tick, AuditInv
  <2> QED BY <1>2, <2>1, AuditLeftAlone
<1>3. CASE (WriterNext \/ Stop) /\ UNCHANGED limiterVars
  BY <1>3, ReadKeepsAudit, MoveKeepsAudit, SaveKeepsAudit DEF WriterNext
<1>4. CASE UNCHANGED vars
  <2>1. stage' = stage /\ stage \in [Requests -> Stages] /\ UNCHANGED auditVars
    BY <1>4 DEF vars, limiterVars, AuditInv
  <2> QED BY <2>1, AuditLeftAlone
<1> QED BY <1>1, <1>2, <1>3, <1>4 DEF Next

\* Both invariants hold together: a report is counted once because its request is in flight.
LEMMA BooksAlways == Spec => [](RpmInv /\ AuditInv)
<1>1. Init => RpmInv /\ AuditInv
  BY RpmInitially, AuditInitially
<1>2. RpmInv /\ AuditInv /\ [Next]_vars => RpmInv' /\ AuditInv'
  BY StepKeepsRpm, StepKeepsAudit
<1> QED BY <1>1, <1>2, PTL DEF Spec

\* The types of the limiter and of the log.
THEOREM GatewayTypes == Spec => []GatewayTypeOK
<1>1. RpmInv /\ AuditInv => GatewayTypeOK
  BY DEF RpmInv, AuditInv, GatewayTypeOK, Stages
<1> QED BY <1>1, BooksAlways, PTL

\* No entry of the audit log is saved twice, and none that has its row can be
\* (AuditService.ExecuteAsync and FlushRemainingAsync).
THEOREM EntriesAreStoredOnce == Spec => []StoredOnce
<1>1. RpmInv /\ AuditInv => StoredOnce
  BY DEF AuditInv
<1> QED BY <1>1, BooksAlways, PTL

\* Once the writer has stopped, a request that reported its usage has its row, or its
\* entry was lost in a way the code has (AuditService.Enqueue, FlushRemainingAsync).
THEOREM LossesAreExplained == Spec => []LossIsExplained
<1>1. RpmInv /\ AuditInv => LossIsExplained
  BY DEF AuditInv, LossIsExplained
<1> QED BY <1>1, BooksAlways, PTL

=============================================================================
