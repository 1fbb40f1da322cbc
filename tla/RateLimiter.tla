----------------------------- MODULE RateLimiter -----------------------------
(***************************************************************************)
(* The sliding windows of one API key                                      *)
(* (src/ExLlamaSharp.Server/Services/RateLimiter.cs): its requests of the  *)
(* last minute, and the tokens its requests reported when they ended.      *)
(*                                                                         *)
(* TryAcquire and RecordTokens read the clock before they take the lock of *)
(* the key's windows, so another thread may come in between and the queues *)
(* need not be in the order of their stamps.  The reading is folded into   *)
(* the step under the lock: it is at most MaxStall old.                    *)
(***************************************************************************)
EXTENDS Integers, Sequences, FiniteSets

CONSTANTS
  Requests,   \* requests with the key, each used once
  Limits,     \* what the limits of the key may be: requests, tokens, 0 for none
  Window,     \* a minute
  Second,     \* a second, the unit of Retry-After
  Estimates,  \* the estimates of a request's tokens
  Usages,     \* the tokens a request may turn out to use
  MaxStall,   \* bound on the time between reading the clock and the lock
  MaxTime     \* bound on the clock

ASSUME LimiterAssumption ==
  /\ Limits \subseteq [rpm : Nat, tpm : Nat]
  /\ Window \in Nat /\ Second \in Nat \ {0}
  /\ Estimates \subseteq Nat /\ Usages \subseteq Nat
  /\ MaxStall \in Nat /\ MaxTime \in Nat

VARIABLES
  limits,    \* the limits of the key
  now,
  stage,     \* where each request is
  since,     \* since when it runs, 0 if it does not
  stamps,    \* RequestTimestamps, each with its request
  events,    \* TokenEvents
  told,      \* until when a refused request was told to wait
  admitted,  \* history: the admissions under a limit, in the order of the lock
  ledger     \* history: the reports of tokens, in the order of the lock

limiterVars == <<limits, now, stage, since, stamps, events, told, admitted, ledger>>

-----------------------------------------------------------------------------

Rpm == limits.rpm
Tpm == limits.tpm

\* Faulty: an event exactly a minute old is taken away.
PrunedEarly(queue, t) ==
  LET young == {i \in 1..Len(queue) : t - queue[i].at < Window} IN
  IF young = {} THEN <<>>
  ELSE LET first == CHOOSE i \in young : \A k \in young : i <= k
       IN  SubSeq(queue, first, Len(queue))

\* The events that are left when those at the head that are over a minute old
\* at the time t have been taken away.
Pruned(queue, t) ==
  LET young == {i \in 1..Len(queue) : t - queue[i].at <= Window} IN
  IF young = {} THEN <<>>
  ELSE LET first == CHOOSE i \in young : \A k \in young : i <= k
       IN  SubSeq(queue, first, Len(queue))

\* The sum of f over a set of naturals.
Total(f, S) ==
  LET sum[T \in SUBSET S] ==
        IF T = {} THEN 0
        ELSE LET i == CHOOSE i \in T : \A k \in T : k <= i IN f[i] + sum[T \ {i}]
  IN  sum[S]

TokensIn(queue) == Total([i \in 1..Len(queue) |-> queue[i].tokens], 1..Len(queue))

\* Faulty: the seconds are rounded down.
RetryRoundedDown(oldest, t) == (Window - (t - oldest)) \div Second

\* The seconds from t to the end of the window that began at the time oldest.
ComputeRetryAfter(oldest, t) ==
  LET wait == Window - (t - oldest)
      seconds == -((-wait) \div Second)
  IN  IF seconds < 1 THEN 1 ELSE seconds

\* The readings of the clock that a call at the lock may have taken.
Readings(r) == {t \in since[r]..now : now - t <= MaxStall}

Goes(r, s) ==
  /\ stage' = [stage EXCEPT ![r] = s]
  /\ since' = [since EXCEPT ![r] = IF s = "running" THEN now ELSE 0]

LimiterInit ==
  /\ limits \in Limits
  /\ now = 0
  /\ stage = [r \in Requests |-> "new"]
  /\ since = [r \in Requests |-> 0]
  /\ stamps = <<>> /\ events = <<>>
  /\ told = [r \in Requests |-> 0]
  /\ admitted = <<>> /\ ledger = <<>>

Refuses(r, t, seconds) ==
  /\ Goes(r, "limited")
  /\ told' = [told EXCEPT ![r] = t + seconds * Second]
  /\ UNCHANGED admitted

Admits(r, t, estimate) ==
  /\ Goes(r, "running")
  /\ admitted' = Append(admitted, [by |-> r, from |-> t, to |-> now,
                                   estimate |-> estimate, seen |-> Len(ledger)])
  /\ UNCHANGED told

\* A key without limits leaves no trace in the windows.
AcquireUnlimited(r) ==
  /\ Rpm = 0 /\ Tpm = 0
  /\ Goes(r, "running")
  /\ UNCHANGED <<stamps, events, told, admitted>>

\* The requests are counted, then the tokens; the estimate is not recorded.
AcquireLimited(r, t, estimate) ==
  LET requests == Pruned(stamps, t)
      used == Pruned(events, t)
  IN
  /\ Rpm > 0 \/ Tpm > 0
  /\ events' = used
  /\ \/ /\ Rpm > 0 /\ Len(requests) >= Rpm
        /\ Refuses(r, t, ComputeRetryAfter(Head(requests).at, t))
        /\ stamps' = requests
     \/ /\ ~(Rpm > 0 /\ Len(requests) >= Rpm)
        /\ Tpm > 0 /\ TokensIn(used) + estimate > Tpm
        /\ Refuses(r, t, IF used = <<>> THEN 60
                         ELSE ComputeRetryAfter(Head(used).at, t))
        /\ stamps' = requests
     \/ /\ ~(Rpm > 0 /\ Len(requests) >= Rpm)
        /\ ~(Tpm > 0 /\ TokensIn(used) + estimate > Tpm)
        /\ Admits(r, t, estimate)
        /\ stamps' = Append(requests, [at |-> t, by |-> r])

TryAcquire(r) ==
  /\ stage[r] = "new"
  /\ \/ AcquireUnlimited(r)
     \/ \E t \in Readings(r), estimate \in Estimates : AcquireLimited(r, t, estimate)
  /\ UNCHANGED <<limits, now, ledger>>

\* Faulty: the tokens are booked at the time the request was admitted.
RecordAtAdmission(r) ==
  /\ stage[r] = "running"
  /\ Goes(r, "charged")
  /\ \E t \in Readings(r), n \in Usages :
       IF n = 0 THEN UNCHANGED <<events, ledger>>
       ELSE /\ events' = Append(events, [at |-> since[r], tokens |-> n])
            /\ ledger' = Append(ledger, [by |-> r, from |-> t, to |-> now, tokens |-> n])
  /\ UNCHANGED <<limits, now, stamps, told, admitted>>

\* The engine has answered and the tokens are reported; none are not recorded.
RecordTokens(r) ==
  /\ stage[r] = "running"
  /\ Goes(r, "charged")
  /\ \E t \in Readings(r), n \in Usages :
       IF n = 0 THEN UNCHANGED <<events, ledger>>
       ELSE /\ events' = Append(events, [at |-> t, tokens |-> n])
            /\ ledger' = Append(ledger, [by |-> r, from |-> t, to |-> now, tokens |-> n])
  /\ UNCHANGED <<limits, now, stamps, told, admitted>>

Tick ==
  /\ now < MaxTime
  /\ now' = now + 1
  /\ UNCHANGED <<limits, stage, since, stamps, events, told, admitted, ledger>>

-----------------------------------------------------------------------------

LimiterTypeOK ==
  /\ limits \in Limits
  /\ now \in 0..MaxTime
  /\ since \in [Requests -> 0..MaxTime]
  /\ stamps \in Seq([at : 0..MaxTime, by : Requests])
  /\ events \in Seq([at : 0..MaxTime, tokens : Usages])
  /\ told \in [Requests -> Nat]
  /\ admitted \in Seq([by : Requests, from : 0..MaxTime, to : 0..MaxTime,
                       estimate : Estimates, seen : Nat])
  /\ ledger \in Seq([by : Requests, from : 0..MaxTime, to : 0..MaxTime, tokens : Usages])

\* Of any Rpm + 1 admissions the last one takes place more than a minute after the
\* first one read the clock, however the threads are held up on the way.
WithinRpm ==
  Rpm > 0 =>
    \A i \in 1..Len(admitted) :
      i + Rpm <= Len(admitted) => admitted[i + Rpm].to - admitted[i].from > Window

\* The tokens reported in some minute exceed Tpm only by those of requests that
\* were in flight, and not yet reported, when the last of them was admitted.
WithinTpm ==
  Tpm > 0 =>
    \A b \in 1..Len(ledger), e \in 1..Len(ledger) :
      LET span == b..e
          users == {ledger[i].by : i \in span}
          last == {n \in 1..Len(admitted) :
                     /\ admitted[n].by \in users
                     /\ \A m \in (n + 1)..Len(admitted) : admitted[m].by \notin users}
      IN  (\A i \in span : ledger[e].to - ledger[i].from <= Window) =>
            \A n \in last :
              LET before == {i \in span : i <= admitted[n].seen} IN
              before # {} =>
                Total([i \in 1..Len(ledger) |-> ledger[i].tokens], before)
                  + admitted[n].estimate <= Tpm

\* A request that was refused for the number of requests, and comes back later than
\* it was told to, finds room if nobody else was admitted in between.
HintSuffices ==
  [][\A r \in Requests :
       stage[r] # "limited" /\ stage'[r] = "limited" /\ Rpm > 0 /\ Len(stamps') >= Rpm =>
         Len(Pruned(stamps', told'[r] + 1)) < Rpm]_limiterVars

=============================================================================
