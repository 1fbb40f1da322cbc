------------------------- MODULE WorkerEngineProofs -------------------------
(***************************************************************************)
(* Proofs about WorkerEngine, for every finite set of requests, any        *)
(* priorities, settings, cancellations and any number of deaths, loads and *)
(* restarts: the engine uses its admission queue as WorkerAdmission        *)
(* specifies it, a slot is held exactly while a job is between its         *)
(* admission and the end of its finally block, and the worker has neither  *)
(* more jobs than slots nor a job that nobody reads and nobody is about to *)
(* cancel.                                                                 *)
(*                                                                         *)
(* The last two are facts about the pipe: a cancel is written before the   *)
(* slot of its job is given to the next one, and handled in that order; a  *)
(* cancel that Cancel(jobId) wrote before the submit keeps the submit from *)
(* being written.  The invariant therefore speaks of every prefix of the   *)
(* pipe: the jobs the worker would have after handling it.                 *)
(***************************************************************************)
EXTENDS WorkerEngine, FiniteSetTheorems, SequenceTheorems, TLAPS

\* The admission queue's own theorems, for the engine's queue.
Queue == INSTANCE WorkerAdmissionProofs
           WITH Pendings <- 0..Cardinality(Requests),
                BatchSizes <- 0..MaxNumSeqs

\* The places between the decision to write a line and the line.
Writing == {"ensure", "handshake", "write", "stop1", "stop2", "kill"}

Places == Writing \cup
          {"idle", "admitting", "register", "reading", "waiting", "failed",
           "closing", "release", "done", "lookup"}
Cmds == {"none", "submit", "cancel", "load", "unload"}

Commands == [cmd : Cmds, job : Writers, id : Nat, batch : 0..MaxNumSeqs]
Reports == [Seen : {TRUE}, Pending : 0..Cardinality(Requests),
            MaxBatchSize : 0..MaxNumSeqs] \cup {NoReport}
Lines == [ends : SUBSET Requests, fails : SUBSET Requests, stats : Reports,
          reply : [to : Nat, ok : BOOLEAN]]

-----------------------------------------------------------------------------
(* The inductive invariant *)

\* Threads, pipes and replies have the shapes the code gives them.
WireTypeOK ==
  /\ at \in [Writers -> Places] /\ cmd \in [Writers -> Cmds]
  /\ cmd[Host] \notin {"submit", "cancel"} /\ cmd[Caller] = "cancel"
  /\ ctl \in Nat
  /\ stdin \in Seq(Commands) /\ stdout \in Seq(Lines)
  /\ \A i \in 1..Len(stdin) :
       stdin[i].cmd \in {"submit", "cancel"} => stdin[i].job \in Requests

\* A Cancel(jobId) under way has cancelled the token of its job.
CallerAims == at[Caller] # "idle" => target \in Requests /\ target \in token

\* Where a job is, what it writes and what it has of the admission queue.
Stage(j) ==
  /\ at[j] # "register"
  /\ at[j] = "idle" <=> slot[j] = "new"
  /\ at[j] = "admitting" => slot[j] \in {"waiting", "cancelled", "held"}
  /\ at[j] \notin {"idle", "admitting", "done"} => slot[j] = "held"
  /\ at[j] = "done" => slot[j] = "gone"
  /\ at[j] \in {"idle", "admitting"} => cmd[j] = "none"
  /\ at[j] \in Writing => cmd[j] \in {"submit", "cancel"}
  /\ at[j] \in {"reading", "closing"} => cmd[j] = "submit"
  /\ at[j] = "release" => cmd[j] = "cancel"

Stages == \A j \in Requests : Stage(j)

\* A process that does not run has no input and no jobs.
DeadIsEmpty ==
  ~up => /\ stdin = <<>>
         /\ jobs = {} /\ active = {} /\ queued = {}

\* Line i of the pipe is the command c of job j.
Says(i, c, j) == stdin[i].cmd = c /\ stdin[i].job = j

InPipe(c, j) == \E i \in 1..Len(stdin) : Says(i, c, j)

InWorker(j) == j \in jobs \cup active \cup queued

\* The job's submit may have been written; its cancel has been, or could not be.
Submitted(j) == cmd[j] = "cancel" \/ at[j] \in {"reading", "closing", "done"}
Cancelled(j) == at[j] \in {"release", "done"}
Attended(j) == at[j] \in Writing \cup {"reading", "closing"}

\* Nobody will write its submit any more.
GivenUp(j) == Cancelled(j) \/ j \in token

\* The worker has a job by its submit.
NothingBeforeSubmit ==
  \A j \in Requests : ~Submitted(j) => ~InPipe("submit", j) /\ ~InWorker(j)

\* A job is submitted once: a submit in the pipe is the only one, and the worker
\* does not know the job yet.
SubmitOnce ==
  \A j \in Requests : \A i \in 1..Len(stdin) :
    Says(i, "submit", j) =>
      /\ ~InWorker(j)
      /\ \A k \in 1..Len(stdin) : Says(k, "submit", j) => k = i

\* No submit follows a cancel of its job.
CancelLast ==
  \A j \in Requests : \A i \in 1..Len(stdin) :
    Says(i, "cancel", j) =>
      /\ GivenUp(j)
      /\ \A k \in i..Len(stdin) : ~Says(k, "submit", j)

\* Every job the worker has, or will have, is read by somebody, or else its
\* cancel is in the pipe.
Accounted ==
  \A j \in Requests :
    j \in jobs \/ InPipe("submit", j) => Attended(j) \/ InPipe("cancel", j)

\* The jobs the worker has after the first i commands of the pipe, if it takes
\* every submit and nothing ends by itself.
JobsAfter(i) ==
  {j \in Requests :
     /\ j \in jobs \/ \E k \in 1..i : Says(k, "submit", j)
     /\ ~\E k \in 1..i : Says(k, "cancel", j)}

\* However far the worker has read, its jobs fit.
LoadFits == \A i \in 0..Len(stdin) : Cardinality(JobsAfter(i)) <= MaxNumSeqs

PipeInv ==
  /\ NothingBeforeSubmit
  /\ SubmitOnce
  /\ CancelLast
  /\ Accounted
  /\ LoadFits

EngineInv ==
  /\ EngineTypeOK
  /\ WireTypeOK
  /\ Queue!AdmissionInv
  /\ CallerAims
  /\ Stages
  /\ DeadIsEmpty
  /\ PipeInv

\* What others may do to the slot of a request: grant it, or cancel its token.
SlotMoves(r) ==
  \/ slot'[r] = slot[r]
  \/ slot[r] = "waiting" /\ slot'[r] \in {"held", "cancelled"}

-----------------------------------------------------------------------------
(* The admission queue in its environment *)

\* The cardinality the queue's theorems speak of is the engine's.
LEMMA QueueCardinality ==
  /\ \A S : Queue!IsFiniteSet(S) <=> IsFiniteSet(S)
  /\ \A S : Queue!Cardinality(S) = Cardinality(S)
  /\ \A S : Admission!Cardinality(S) = Cardinality(S)
  BY DEF Queue!IsFiniteSet, Queue!Cardinality, Admission!Cardinality,
         IsFiniteSet, Cardinality

\* The assumptions of the queue's proofs hold of the engine's constants.
LEMMA QueueAssumption ==
  /\ Queue!IsFiniteSet(Requests) /\ Priorities \subseteq Int /\ Settings \subseteq Int
  /\ 0..Cardinality(Requests) \subseteq Nat /\ 0..MaxNumSeqs \subseteq Nat
  BY WorkerAssumption, EngineAssumption, FS_CardinalityType, QueueCardinality

\* The queue the engine uses and the queue the theorems speak of are one.
LEMMA SameQueue ==
  /\ Admission!AdmissionInit <=> Queue!AdmissionInit
  /\ Admission!AdmissionNext <=> Queue!AdmissionNext
  /\ Admission!AdmissionTypeOK <=> Queue!AdmissionTypeOK
  /\ Admission!Holders = Queue!Holders
  /\ Admission!admissionVars = admissionVars
  /\ Queue!admissionVars = admissionVars
<1>. USE DEF Admission!NoStats, Queue!NoStats, Admission!NoTicket,
             Queue!NoTicket, Admission!WorkerStats, Queue!WorkerStats,
             Admission!SlotStates, Queue!SlotStates
<1>1. Admission!AdmissionInit <=> Queue!AdmissionInit
  BY DEF Admission!AdmissionInit, Queue!AdmissionInit
<1>2. Admission!AdmissionTypeOK <=> Queue!AdmissionTypeOK
  BY DEF Admission!AdmissionTypeOK, Queue!AdmissionTypeOK
<1>3. Admission!AdmissionNext <=> Queue!AdmissionNext
  BY DEF Admission!AdmissionNext, Queue!AdmissionNext,
         Admission!AdmitAsync, Queue!AdmitAsync,
         Admission!CancelToken, Queue!CancelToken,
         Admission!CatchCancelled, Queue!CatchCancelled,
         Admission!Release, Queue!Release, Admission!OnStats, Queue!OnStats,
         Admission!TryAdmitOne, Queue!TryAdmitOne,
         Admission!CanAdmit, Queue!CanAdmit, Admission!Capacity, Queue!Capacity,
         Admission!AtLeast, Queue!AtLeast, Admission!AtMost, Queue!AtMost,
         Admission!SetOptions, Queue!SetOptions,
         Admission!Live, Queue!Live, Admission!IsNext, Queue!IsNext,
         Admission!Before, Queue!Before
<1>4. Admission!Holders = Queue!Holders
  BY DEF Admission!Holders, Queue!Holders
<1>5. Admission!admissionVars = admissionVars /\ Queue!admissionVars = admissionVars
  BY DEF Admission!admissionVars, Queue!admissionVars, admissionVars
<1>. QED
  BY <1>1, <1>2, <1>3, <1>4, <1>5

\* A step of the queue keeps the queue's invariant.
LEMMA QueueStep ==
  ASSUME Queue!AdmissionInv, [Admission!AdmissionNext]_admissionVars
  PROVE  Queue!AdmissionInv' /\ Admission!AdmissionTypeOK'
<1>1. [Queue!AdmissionNext]_(Queue!admissionVars)
  BY SameQueue DEF Queue!admissionVars, admissionVars
<1>2. Queue!AdmissionInv'
  BY <1>1, Queue!StepInv, QueueAssumption
<1>3. Queue!AdmissionTypeOK'
  BY <1>2 DEF Queue!AdmissionInv
<1>4. Admission!AdmissionTypeOK'
  BY <1>3 DEF Admission!AdmissionTypeOK, Queue!AdmissionTypeOK,
              Admission!NoStats, Queue!NoStats, Admission!WorkerStats,
              Queue!WorkerStats, Admission!SlotStates, Queue!SlotStates
<1>. QED
  BY <1>2, <1>4

\* What the queue's invariant says of the engine.
LEMMA QueueFacts ==
  ASSUME Queue!AdmissionInv
  PROVE  /\ Admission!AdmissionTypeOK
         /\ slot \in [Requests -> {"new", "waiting", "cancelled", "held", "gone"}]
         /\ waiters \subseteq Requests /\ inFlight \in Nat
         /\ inFlight = Cardinality(Admission!Holders)
         /\ inFlight <= MaxNumSeqs
         /\ BatchAsked \in 0..MaxNumSeqs
         /\ IsFiniteSet(Admission!Holders)
<1>1. Admission!AdmissionTypeOK /\ inFlight = Cardinality(Admission!Holders)
  BY SameQueue, QueueCardinality DEF Queue!AdmissionInv, Queue!SlotAccounting
<1>2. inFlight <= MaxNumSeqs
  BY EngineAssumption DEF Queue!AdmissionInv, Queue!CounterBounded, Queue!Bounded
<1>3. IsFiniteSet(Admission!Holders)
  BY WorkerAssumption, FS_Subset DEF Admission!Holders
<1>4. /\ slot \in [Requests -> {"new", "waiting", "cancelled", "held", "gone"}]
      /\ waiters \subseteq Requests /\ inFlight \in Nat
  BY <1>1 DEF Admission!AdmissionTypeOK, Admission!SlotStates
<1>5. BatchAsked \in 0..MaxNumSeqs
  <2>1. maxSeqs \in Settings
    BY <1>1 DEF Admission!AdmissionTypeOK
  <2>2. maxSeqs \in Int /\ maxSeqs <= MaxNumSeqs /\ MaxNumSeqs \in Nat \ {0}
    BY <2>1, EngineAssumption
  <2>. QED
    BY <2>2 DEF BatchAsked, Admission!AtLeast
<1>. QED
  BY <1>1, <1>2, <1>3, <1>4, <1>5

\* A grant turns waiting requests into holders and leaves the others alone.
LEMMA GrantEffect ==
  ASSUME NEW n, NEW st, NEW sl \in [Requests -> {"new", "waiting", "cancelled", "held", "gone"}],
         waiters \subseteq Requests,
         Admission!TryAdmitOne(n, st, sl)
  PROVE  \A r \in Requests :
           slot'[r] = sl[r] \/ (slot[r] = "waiting" /\ slot'[r] = "held")
  BY DEF Admission!TryAdmitOne, Admission!IsNext, Admission!Live

\* A released slot goes to a waiter or to nobody.
LEMMA ReleaseEffect ==
  ASSUME Queue!AdmissionInv, NEW j \in Requests, Admission!Release(j)
  PROVE  slot'[j] = "gone" /\ \A r \in Requests \ {j} : SlotMoves(r)
<1>. DEFINE sl == [slot EXCEPT ![j] = "gone"]
<1>1. slot[j] = "held" /\ \E n : Admission!TryAdmitOne(n, stats, sl)
  BY DEF Admission!Release
<1>2. sl \in [Requests -> {"new", "waiting", "cancelled", "held", "gone"}]
  BY QueueFacts
<1>3. sl[j] = "gone" /\ \A r \in Requests \ {j} : sl[r] = slot[r]
  BY QueueFacts
<1>. HIDE DEF sl
<1>4. \A r \in Requests :
        slot'[r] = sl[r] \/ (slot[r] = "waiting" /\ slot'[r] = "held")
  BY <1>1, <1>2, GrantEffect, QueueFacts
<1>. QED
  BY <1>1, <1>3, <1>4 DEF SlotMoves

\* A report wakes a waiter or nobody.
LEMMA OnStatsEffect ==
  ASSUME Queue!AdmissionInv, NEW st, Admission!OnStats(st)
  PROVE  \A r \in Requests : SlotMoves(r)
  BY GrantEffect, QueueFacts DEF Admission!OnStats, SlotMoves

-----------------------------------------------------------------------------
(* The pipe *)

\* The jobs after a prefix of the pipe are a finite set.
LEMMA JobsAfterFinite ==
  ASSUME NEW i
  PROVE  IsFiniteSet(JobsAfter(i))
  BY WorkerAssumption, FS_Subset DEF JobsAfter

\* A smaller set of jobs fits where a larger one did.
LEMMA FewerFit ==
  ASSUME NEW S, NEW T, IsFiniteSet(T), S \subseteq T, NEW n \in Nat,
         Cardinality(T) <= n
  PROVE  Cardinality(S) <= n
<1>1. IsFiniteSet(S) /\ Cardinality(S) <= Cardinality(T)
  BY FS_Subset
<1>2. Cardinality(S) \in Nat /\ Cardinality(T) \in Nat
  BY <1>1, FS_CardinalityType
<1>. QED
  BY <1>1, <1>2

\* An empty pipe in front of a worker without jobs.
LEMMA EmptyPipe ==
  ASSUME stdin' = <<>>, jobs' = {}, active' = {}, queued' = {}
  PROVE  PipeInv'
<1>1. Len(stdin') = 0 /\ ~\E i \in 1..Len(stdin') : TRUE
  OBVIOUS
<1>2. /\ NothingBeforeSubmit' /\ SubmitOnce' /\ CancelLast' /\ Accounted'
  BY <1>1 DEF NothingBeforeSubmit, SubmitOnce, CancelLast, Accounted, InPipe,
              InWorker
<1>3. LoadFits'
  <2> SUFFICES ASSUME NEW i \in 0..Len(stdin')
               PROVE  Cardinality(JobsAfter(i)') <= MaxNumSeqs
    BY DEF LoadFits
  <2>1. i = 0
    BY <1>1
  <2>2. JobsAfter(i)' = {}
    BY <2>1 DEF JobsAfter
  <2>. QED
    BY <2>2, FS_EmptySet, EngineAssumption
<1>. QED
  BY <1>2, <1>3 DEF PipeInv

\* A step that does not touch the pipe, at most takes jobs from the worker, and
\* neither takes a writer back nor a reader away.
LEMMA QuietPipe ==
  ASSUME PipeInv, stdin' = stdin, jobs' \subseteq jobs,
         \A j \in Requests : InWorker(j)' => InWorker(j),
         \A j \in Requests : /\ Submitted(j) => Submitted(j)'
                             /\ GivenUp(j) => GivenUp(j)'
                             /\ Attended(j) => Attended(j)'
  PROVE  PipeInv'
<1>. USE DEF PipeInv
<1>1. \A i, c, j : Says(i, c, j)' <=> Says(i, c, j)
  BY DEF Says
<1>2. \A c, j : InPipe(c, j)' <=> InPipe(c, j)
  BY <1>1 DEF InPipe
<1>3. NothingBeforeSubmit'
  BY <1>2 DEF NothingBeforeSubmit
<1>4. SubmitOnce'
  BY <1>1 DEF SubmitOnce
<1>5. CancelLast'
  BY <1>1 DEF CancelLast
<1>6. Accounted'
  BY <1>2 DEF Accounted
<1>7. LoadFits'
  <2>1. \A i : JobsAfter(i)' \subseteq JobsAfter(i)
    BY <1>1 DEF JobsAfter
  <2>. QED
    BY <2>1, JobsAfterFinite, FewerFit, EngineAssumption DEF LoadFits
<1>. QED
  BY <1>3, <1>4, <1>5, <1>6, <1>7


\* A line more in the pipe: the submit of a job that holds a slot, its cancel, or
\* a command of the host.
LEMMA LineWritten ==
  ASSUME PipeInv, WireTypeOK, Stages, Queue!AdmissionInv,
         CallerAims, NEW t \in Writers, NEW b, at[t] = "write",
         cmd[t] = "submit" => t \notin token,
         stdin' = Append(stdin, Command(t, b)), Command(t, b) \in Commands,
         at' = [at EXCEPT ![t] = AfterWrite(t)],
         UNCHANGED <<cmd, token, jobs, active, queued>>
  PROVE  PipeInv'
<1>. USE DEF PipeInv
<1>0. PICK n : n = Len(stdin)
  OBVIOUS
<1>1. /\ n \in Nat /\ Len(stdin') = n + 1
      /\ \A i \in 1..n : stdin'[i] = stdin[i]
      /\ stdin'[n + 1] = Command(t, b)
      /\ 1..(n + 1) = 1..n \cup {n + 1}
      /\ \A i \in 1..n : i # n + 1
  <2>1. stdin \in Seq(Commands) /\ n \in Nat
    BY <1>0 DEF WireTypeOK
  <2>. QED
    BY <1>0, <2>1
<1>o. PICK o : o = IF t = Caller THEN target ELSE t
  OBVIOUS
<1>2. /\ \A i \in 1..n : \A c, j : Says(i, c, j)' <=> Says(i, c, j)
      /\ \A c, j : Says(n + 1, c, j)' <=> (c = cmd[t] /\ j = o)
  BY <1>1, <1>o DEF Says, Command
<1>3. \A c, j : InPipe(c, j)' <=> (InPipe(c, j) \/ (c = cmd[t] /\ j = o))
  <2>1. \A c, j : InPipe(c, j)' <=> \E i \in 1..(n + 1) : Says(i, c, j)'
    BY <1>1 DEF InPipe
  <2>2. \A c, j : InPipe(c, j) <=> \E i \in 1..n : Says(i, c, j)
    BY <1>0 DEF InPipe
  <2>. QED
    BY <1>1, <1>2, <2>1, <2>2
<1>4. \A j \in Requests \ {t} : /\ Submitted(j)' <=> Submitted(j)
                                /\ Attended(j)' <=> Attended(j)
  BY DEF WireTypeOK, Submitted, Attended, Writers
<1>5. \A j : InWorker(j)' <=> InWorker(j)
  BY DEF InWorker
<1>6. t \in Requests => /\ cmd[t] \in {"submit", "cancel"} /\ o = t
                       /\ ~Cancelled(t) /\ Attended(t)
  BY <1>o, ClientAssumption DEF Stages, Stage, Cancelled, Attended, Writing
<1>7. cmd[t] = "submit" => t \in Requests /\ o = t
  BY <1>6 DEF WireTypeOK, Writers
<1>8. cmd[t] = "submit" =>
        /\ ~InPipe("submit", t) /\ ~InPipe("cancel", t) /\ ~InWorker(t)
        /\ Submitted(t)' /\ Attended(t)'
  <2>. SUFFICES ASSUME cmd[t] = "submit"
                PROVE  /\ ~Submitted(t) /\ ~GivenUp(t)
                       /\ at'[t] = "reading"
    BY <1>7 DEF NothingBeforeSubmit, Submitted, Attended, CancelLast, InPipe
  <2>1. t # Host /\ t # Caller
    BY <1>7, ClientAssumption
  <2>. QED
    BY <1>6, <1>7, <2>1 DEF Submitted, GivenUp, AfterWrite, WireTypeOK, Writers
<1>9. cmd[t] = "cancel" => o \in Requests /\ GivenUp(o)'
  <2>1. CASE t \in Requests
    <3>1. t # Host /\ t # Caller
      BY <2>1, ClientAssumption
    <3>. QED
      BY <1>6, <2>1, <3>1 DEF GivenUp, Cancelled, AfterWrite, WireTypeOK, Writers
  <2>2. CASE t = Caller
    BY <1>o, <2>2 DEF CallerAims, GivenUp
  <2>3. CASE t = Host
    BY <2>3 DEF WireTypeOK
  <2>. QED
    BY <2>1, <2>2, <2>3 DEF Writers
<1>10. \A j \in Requests : /\ Submitted(j) => Submitted(j)'
                           /\ GivenUp(j) => GivenUp(j)'
  BY <1>4, <1>6 DEF Submitted, GivenUp, Cancelled, WireTypeOK, Writers
<1>11. NothingBeforeSubmit'
  BY <1>3, <1>5, <1>7, <1>8, <1>10 DEF NothingBeforeSubmit
<1>12. SubmitOnce'
  <2>. SUFFICES ASSUME NEW j \in Requests, NEW i \in 1..(n + 1),
                       Says(i, "submit", j)'
                PROVE  /\ ~InWorker(j)'
                       /\ \A k \in 1..(n + 1) : Says(k, "submit", j)' => k = i
    BY <1>1 DEF SubmitOnce
  <2>1. CASE j = t /\ cmd[t] = "submit"
    <3>1. \A k \in 1..n : ~Says(k, "submit", j)
      BY <1>0, <1>8, <2>1 DEF InPipe
    <3>. QED
      BY <1>1, <1>2, <1>5, <1>7, <1>8, <2>1, <3>1
  <2>2. CASE ~(j = t /\ cmd[t] = "submit")
    BY <1>0, <1>1, <1>2, <1>5, <1>7, <2>2 DEF SubmitOnce
  <2>. QED
    BY <2>1, <2>2
<1>13. CancelLast'
  <2>. SUFFICES ASSUME NEW j \in Requests, NEW i \in 1..(n + 1),
                       Says(i, "cancel", j)'
                PROVE  /\ GivenUp(j)'
                       /\ \A k \in i..(n + 1) : ~Says(k, "submit", j)'
    BY <1>1 DEF CancelLast
  <2>1. CASE i = n + 1
    <3>1. j = o /\ cmd[t] = "cancel"
      BY <1>2, <2>1
    <3>2. \A k \in i..(n + 1) : k = n + 1
      BY <1>1, <2>1
    <3>. QED
      BY <1>2, <1>9, <3>1, <3>2
  <2>2. CASE i \in 1..n
    <3>1. Says(i, "cancel", j) /\ InPipe("cancel", j)
      BY <1>0, <1>2, <2>2 DEF InPipe
    <3>2. GivenUp(j) /\ \A k \in i..n : ~Says(k, "submit", j)
      BY <1>0, <2>2, <3>1 DEF CancelLast
    <3>3. ~Says(n + 1, "submit", j)'
      BY <1>2, <1>7, <1>8, <3>1
    <3>4. \A k \in i..(n + 1) : (k \in i..n /\ k \in 1..n) \/ k = n + 1
      BY <1>1, <2>2
    <3>. QED
      BY <1>2, <1>10, <3>2, <3>3, <3>4
  <2>. QED
    BY <1>1, <2>1, <2>2
<1>14. Accounted'
  <2>. SUFFICES ASSUME NEW j \in Requests, j \in jobs \/ InPipe("submit", j)'
                PROVE  Attended(j)' \/ InPipe("cancel", j)'
    BY DEF Accounted
  <2>1. CASE j = t /\ cmd[t] = "submit"
    BY <1>8, <2>1
  <2>2. CASE j = t /\ cmd[t] = "cancel"
    BY <1>3, <1>6, <2>2
  <2>3. CASE j # t
    <3>1. Attended(j) \/ InPipe("cancel", j)
      BY <1>3, <1>7, <2>3 DEF Accounted
    <3>. QED
      BY <1>3, <1>4, <2>3, <3>1
  <2>. QED
    BY <1>6, <2>1, <2>2, <2>3
<1>15. LoadFits'
  <2>1. \A i \in 0..n : JobsAfter(i)' = JobsAfter(i)
    <3>1. \A i \in 0..n : 1..i \subseteq 1..n
      BY <1>1
    <3>. QED
      BY <1>2, <3>1 DEF JobsAfter
  <2>2. Cardinality(JobsAfter(n + 1)') <= MaxNumSeqs
    <3>1. \A j \in Requests : j \in JobsAfter(n + 1)' =>
            /\ j \in jobs \/ InPipe("submit", j)'
            /\ ~InPipe("cancel", j)'
      BY <1>1 DEF JobsAfter, InPipe
    <3>2. \A j \in Requests : j \in JobsAfter(n + 1)' => Attended(j)
      BY <1>3, <1>6, <1>7, <3>1 DEF Accounted
    <3>3. JobsAfter(n + 1)' \subseteq Admission!Holders
      BY <3>2 DEF JobsAfter, Attended, Writing, Stages, Stage, Admission!Holders
    <3>. QED
      BY <3>3, FewerFit, QueueFacts, EngineAssumption
  <2>. QED
    BY <1>0, <1>1, <2>1, <2>2 DEF LoadFits
<1>. QED
  BY <1>11, <1>12, <1>13, <1>14, <1>15

\* A line less in the pipe: a job the worker takes was submitted, and a job it is
\* told to cancel is not kept.
LEMMA LineTaken ==
  ASSUME PipeInv, WireTypeOK, stdin # <<>>, stdin' = Tail(stdin),
         jobs' \subseteq jobs \cup {j \in Requests : Says(1, "submit", j)},
         \A j \in Requests : InWorker(j)' => InWorker(j) \/ Says(1, "submit", j),
         \A j \in Requests : Says(1, "cancel", j) => j \notin jobs',
         UNCHANGED <<at, cmd, token>>
  PROVE  PipeInv'
<1>. USE DEF PipeInv
<1>. DEFINE n == Len(stdin)
<1>1. /\ n \in Nat \ {0} /\ Len(stdin') = n - 1
      /\ \A i \in 1..(n - 1) : stdin'[i] = stdin[i + 1] /\ i + 1 \in 1..n
      /\ 1 \in 1..n
      /\ \A i \in 1..n : i = 1 \/ (i - 1 \in 1..(n - 1) /\ (i - 1) + 1 = i)
  <2>1. stdin \in Seq(Commands) /\ n \in Nat \ {0}
    BY DEF WireTypeOK
  <2>. QED
    BY <2>1
<1>2. \A i \in 1..(n - 1) : \A c, j : Says(i, c, j)' <=> Says(i + 1, c, j)
  BY <1>1 DEF Says
<1>. HIDE DEF n
<1>3. \A c, j : InPipe(c, j)' => InPipe(c, j)
  BY <1>1, <1>2 DEF InPipe, n
<1>4. \A c, j : InPipe(c, j) => InPipe(c, j)' \/ Says(1, c, j)
  BY <1>1, <1>2 DEF InPipe, n
<1>5. \A j : /\ Submitted(j)' <=> Submitted(j)
             /\ GivenUp(j)' <=> GivenUp(j)
             /\ Attended(j)' <=> Attended(j)
  BY DEF Submitted, GivenUp, Cancelled, Attended
<1>6. \A c, j : Says(1, c, j) => InPipe(c, j)
  BY <1>1 DEF InPipe, n
<1>7. NothingBeforeSubmit'
  BY <1>3, <1>5, <1>6 DEF NothingBeforeSubmit
<1>8. SubmitOnce'
  <2>. SUFFICES ASSUME NEW j \in Requests, NEW i \in 1..(n - 1),
                       Says(i, "submit", j)'
                PROVE  /\ ~InWorker(j)'
                       /\ \A k \in 1..(n - 1) : Says(k, "submit", j)' => k = i
    BY <1>1 DEF SubmitOnce
  <2>1. Says(i + 1, "submit", j) /\ i + 1 \in 1..n /\ i + 1 # 1
    BY <1>1, <1>2
  <2>2. ~InWorker(j) /\ \A k \in 1..n : Says(k, "submit", j) => k = i + 1
    BY <2>1 DEF SubmitOnce, n
  <2>3. ~Says(1, "submit", j)
    BY <1>1, <2>1, <2>2
  <2>4. \A k \in 1..(n - 1) : Says(k, "submit", j)' => k + 1 = i + 1
    BY <1>1, <1>2, <2>2
  <2>. QED
    BY <2>2, <2>3, <2>4
<1>9. CancelLast'
  <2>. SUFFICES ASSUME NEW j \in Requests, NEW i \in 1..(n - 1),
                       Says(i, "cancel", j)'
                PROVE  /\ GivenUp(j)'
                       /\ \A k \in i..(n - 1) : ~Says(k, "submit", j)'
    BY <1>1 DEF CancelLast
  <2>1. Says(i + 1, "cancel", j) /\ i + 1 \in 1..n
    BY <1>1, <1>2
  <2>2. GivenUp(j) /\ \A k \in (i + 1)..n : ~Says(k, "submit", j)
    BY <2>1 DEF CancelLast, n
  <2>3. \A k \in i..(n - 1) : k \in 1..(n - 1) /\ k + 1 \in (i + 1)..n
    BY <1>1
  <2>. QED
    BY <1>2, <1>5, <2>2, <2>3
<1>10. Accounted'
  <2>. SUFFICES ASSUME NEW j \in Requests, j \in jobs' \/ InPipe("submit", j)',
                       ~Attended(j)
                PROVE  InPipe("cancel", j)'
    BY <1>5 DEF Accounted
  <2>1. j \in jobs \/ InPipe("submit", j)
    BY <1>3, <1>6
  <2>2. InPipe("cancel", j)
    BY <2>1 DEF Accounted
  <2>3. ~Says(1, "cancel", j)
    <3>. SUFFICES ASSUME Says(1, "cancel", j) PROVE FALSE
      OBVIOUS
    <3>1. \A k \in 1..n : ~Says(k, "submit", j)
      BY <1>1 DEF CancelLast, n
    <3>2. ~InPipe("submit", j)
      BY <3>1 DEF InPipe, n
    <3>. QED
      BY <1>3, <3>2
  <2>. QED
    BY <1>4, <2>2, <2>3
<1>11. LoadFits'
  <2>. SUFFICES ASSUME NEW i \in 0..(n - 1)
                PROVE  Cardinality(JobsAfter(i)') <= MaxNumSeqs
    BY <1>1 DEF LoadFits
  <2>1. JobsAfter(i)' \subseteq JobsAfter(i + 1)
    <3>. SUFFICES ASSUME NEW j \in Requests, j \in JobsAfter(i)'
                  PROVE  j \in JobsAfter(i + 1)
      BY DEF JobsAfter
    <3>1. /\ j \in jobs' \/ \E k \in 1..i : Says(k, "submit", j)'
          /\ \A k \in 1..i : ~Says(k, "cancel", j)'
      BY DEF JobsAfter
    <3>2. /\ \A k \in 1..i : k \in 1..(n - 1) /\ k + 1 \in 1..(i + 1)
          /\ \A k \in 1..(i + 1) : k = 1 \/ (k - 1 \in 1..i /\ (k - 1) + 1 = k)
          /\ 1 \in 1..(i + 1) /\ i + 1 \in 0..n
      BY <1>1
    <3>3. j \in jobs \/ \E k \in 1..(i + 1) : Says(k, "submit", j)
      BY <1>2, <3>1, <3>2
    <3>4. ~Says(1, "cancel", j)
      <4>. SUFFICES ASSUME Says(1, "cancel", j) PROVE FALSE
        OBVIOUS
      <4>1. \A k \in 1..n : ~Says(k, "submit", j)
        BY <1>1 DEF CancelLast, n
      <4>2. \A k \in 1..i : ~Says(k, "submit", j)'
        BY <1>1, <1>2, <3>2, <4>1
      <4>. QED
        BY <3>1, <4>2
    <3>5. \A k \in 1..(i + 1) : ~Says(k, "cancel", j)
      BY <1>2, <3>1, <3>2, <3>4
    <3>. QED
      BY <3>3, <3>5 DEF JobsAfter
  <2>2. Cardinality(JobsAfter(i + 1)) <= MaxNumSeqs
    <3>1. i + 1 \in 0..n
      BY <1>1
    <3>. QED
      BY <3>1 DEF LoadFits, n
  <2>. QED
    BY <2>1, <2>2, JobsAfterFinite, FewerFit, EngineAssumption
<1>. QED
  BY <1>7, <1>8, <1>9, <1>10, <1>11


-----------------------------------------------------------------------------
(* The invariant is inductive *)

\* What a step may do to a job without taking a writer back or a reader away.
Onward(j) ==
  /\ Submitted(j) => Submitted(j)'
  /\ Cancelled(j) => Cancelled(j)'
  /\ Attended(j) => Attended(j)'

\* A token, once cancelled, stays cancelled.
TokensKept == \A r \in Requests : r \in token => r \in token'

\* A thread goes on to the place p with the command c, and the queue takes a step
\* that at most grants slots to other requests or cancels their waiting.
LEMMA Moved ==
  ASSUME WireTypeOK, Stages,
         NEW t \in Writers, NEW p \in Places, NEW c \in Cmds,
         at' = [at EXCEPT ![t] = p], cmd' = [cmd EXCEPT ![t] = c],
         t = Host => c \notin {"submit", "cancel"}, t = Caller => c = "cancel",
         t \in Requests => Stage(t)',
         \A r \in Requests \ {t} : SlotMoves(r)
  PROVE  /\ Stages'
         /\ at' \in [Writers -> Places] /\ cmd' \in [Writers -> Cmds]
         /\ cmd'[Host] \notin {"submit", "cancel"} /\ cmd'[Caller] = "cancel"
         /\ at'[t] = p /\ cmd'[t] = c
         /\ \A r \in Requests \ {t} : Onward(r)
<1>. USE DEF WireTypeOK
<1>1. /\ at \in [Writers -> Places] /\ cmd \in [Writers -> Cmds]
      /\ Host \in Writers /\ Caller \in Writers
  BY DEF Writers
<1>2. at' \in [Writers -> Places] /\ cmd' \in [Writers -> Cmds]
  BY <1>1
<1>3. /\ at'[t] = p /\ cmd'[t] = c
      /\ \A r \in Requests \ {t} : at'[r] = at[r] /\ cmd'[r] = cmd[r]
      /\ Host # t => cmd'[Host] = cmd[Host]
      /\ Caller # t => cmd'[Caller] = cmd[Caller]
  BY <1>1 DEF Writers
<1>4. cmd'[Host] \notin {"submit", "cancel"} /\ cmd'[Caller] = "cancel"
  BY <1>3
<1>5. \A r \in Requests \ {t} : Stage(r)'
  BY <1>3 DEF Stages, Stage, SlotMoves
<1>6. Stages'
  BY <1>5 DEF Stages
<1>7. \A r \in Requests \ {t} : Onward(r)
  BY <1>3 DEF Submitted, Cancelled, Attended, Onward
<1>. QED
  BY <1>2, <1>3, <1>4, <1>6, <1>7

\* While a Cancel(jobId) is under way, its job's token stays cancelled.
LEMMA CallerStays ==
  ASSUME CallerAims, WireTypeOK, NEW t \in Writers, NEW p \in Places,
         at' = [at EXCEPT ![t] = p], target' = target, TokensKept,
         t = Caller => at[t] # "idle"
  PROVE  CallerAims'
<1>1. at'[Caller] # "idle" => at[Caller] # "idle"
  BY DEF WireTypeOK, Writers
<1>. QED
  BY <1>1 DEF CallerAims, TokensKept

\* Such a move, while the worker and its pipes stay as they are.
LEMMA MoveKeepsInv ==
  ASSUME EngineInv,
         NEW t \in Writers, NEW p \in Places, NEW c \in Cmds,
         at' = [at EXCEPT ![t] = p], cmd' = [cmd EXCEPT ![t] = c],
         t = Host => c \notin {"submit", "cancel"}, t = Caller => c = "cancel",
         t \in Requests => Stage(t)' /\ Onward(t),
         \A r \in Requests \ {t} : SlotMoves(r),
         [Admission!AdmissionNext]_admissionVars,
         chan' \in [Requests -> ChanStates], reply' \in ReplyStates,
         token' \subseteq Writers, unheard' \subseteq Writers, ctl' \in Nat,
         TokensKept, CallerAims',
         UNCHANGED workerVars
  PROVE  EngineInv'
<1>. USE DEF EngineInv
<1>1. /\ UNCHANGED <<up, stdin, stdout, batch, jobs, active, queued>>
      /\ \A j \in Requests : InWorker(j)' => InWorker(j)
  BY DEF workerVars, InWorker
<1>2. Queue!AdmissionInv' /\ Admission!AdmissionTypeOK'
  BY QueueStep
<1>3. EngineTypeOK'
  BY <1>1, <1>2 DEF EngineTypeOK
<1>m. /\ Stages' /\ \A r \in Requests \ {t} : Onward(r)
      /\ at' \in [Writers -> Places] /\ cmd' \in [Writers -> Cmds]
      /\ cmd'[Host] \notin {"submit", "cancel"} /\ cmd'[Caller] = "cancel"
  BY Moved
<1>5. WireTypeOK'
  BY <1>1, <1>m DEF WireTypeOK
<1>6. DeadIsEmpty'
  BY <1>1 DEF DeadIsEmpty
<1>7. PipeInv'
  <2>1. \A j \in Requests : Onward(j)
    BY <1>m
  <2>2. \A j \in Requests : /\ Submitted(j) => Submitted(j)'
                            /\ GivenUp(j) => GivenUp(j)'
                            /\ Attended(j) => Attended(j)'
    BY <2>1 DEF Onward, GivenUp, TokensKept
  <2>. QED
    BY <1>1, <2>2, QuietPipe
<1>. QED
  BY <1>2, <1>3, <1>m, <1>5, <1>6, <1>7

\* Such a move, with which the worker and its input end up empty.
LEMMA MoveToEmpty ==
  ASSUME EngineInv,
         NEW t \in Writers, NEW p \in Places,
         at' = [at EXCEPT ![t] = p], t = Caller => at[t] # "idle",
         t \in Requests => Stage(t)',
         chan' \in [Requests -> ChanStates], reply' \in ReplyStates,
         unheard' \subseteq Writers,
         UNCHANGED <<cmd, token, target, ctl, admissionVars>>,
         stdout' = stdout \/ stdout' = <<>>, batch' \in 0..MaxNumSeqs,
         stdin' = <<>>, jobs' = {}, active' = {}, queued' = {}
  PROVE  EngineInv'
<1>. USE DEF EngineInv
<1>1. cmd[t] \in Cmds /\ cmd' = [cmd EXCEPT ![t] = cmd[t]]
  BY DEF WireTypeOK
<1>2. Queue!AdmissionInv' /\ Admission!AdmissionTypeOK'
  BY QueueStep
<1>3. EngineTypeOK'
  <2>1. Len(stdout') <= PipeBound
    BY WorkerAssumption DEF EngineTypeOK
  <2>. QED
    BY <1>2, <2>1 DEF EngineTypeOK
<1>4. /\ Stages'
      /\ at' \in [Writers -> Places] /\ cmd' \in [Writers -> Cmds]
      /\ cmd'[Host] \notin {"submit", "cancel"} /\ cmd'[Caller] = "cancel"
  <2>1. /\ t = Host => cmd[t] \notin {"submit", "cancel"}
        /\ t = Caller => cmd[t] = "cancel"
    BY DEF WireTypeOK
  <2>2. \A r \in Requests : SlotMoves(r)
    BY DEF admissionVars, SlotMoves
  <2>. QED
    BY <1>1, <2>1, <2>2, Moved
<1>5. WireTypeOK'
  <2>1. <<>> \in Seq(Commands) /\ <<>> \in Seq(Lines) /\ Len(<<>>) = 0
    OBVIOUS
  <2>2. stdin' \in Seq(Commands) /\ Len(stdin') = 0
    BY <2>1
  <2>3. stdout' \in Seq(Lines)
    BY <2>1 DEF WireTypeOK
  <2>. QED
    BY <1>4, <2>2, <2>3 DEF WireTypeOK
<1>6. DeadIsEmpty'
  BY DEF DeadIsEmpty
<1>7. PipeInv'
  BY EmptyPipe
<1>8. CallerAims'
  BY CallerStays DEF TokensKept
<1>. QED
  BY <1>2, <1>3, <1>4, <1>5, <1>6, <1>7, <1>8


\* Initially nobody has a slot and there is no process.
LEMMA InitKeepsInv == Init => EngineInv
<1>. SUFFICES ASSUME Init PROVE EngineInv
  OBVIOUS
<1>. USE DEF Init, ClientInit, WorkerInit
<1>1. Queue!AdmissionInv /\ Admission!AdmissionTypeOK
  <2>1. Queue!AdmissionInv
    BY SameQueue, Queue!InitInv, QueueAssumption
  <2>. QED
    BY <2>1, QueueFacts
<1>2. Len(stdout) = 0 /\ Len(stdin) = 0
  OBVIOUS
<1>3. EngineTypeOK
  <2>1. Len(stdout) <= PipeBound
    BY <1>2, WorkerAssumption
  <2>. QED
    BY <1>1, <2>1, EngineAssumption DEF EngineTypeOK, ChanStates, ReplyStates
<1>4. WireTypeOK
  <2>1. <<>> \in Seq(Commands) /\ <<>> \in Seq(Lines)
    OBVIOUS
  <2>2. stdin \in Seq(Commands) /\ stdout \in Seq(Lines)
    BY <2>1
  <2>3. at \in [Writers -> Places] /\ cmd \in [Writers -> Cmds]
    BY DEF Places, Cmds
  <2>4. cmd[Host] = "none" /\ cmd[Caller] = "cancel"
    BY ClientAssumption DEF Writers
  <2>. QED
    BY <1>2, <2>2, <2>3, <2>4 DEF WireTypeOK
<1>5. Stages /\ CallerAims
  BY ClientAssumption DEF Stages, Stage, CallerAims, Admission!AdmissionInit, Writers,
                          Writing
<1>6. DeadIsEmpty
  BY DEF DeadIsEmpty
<1>7. PipeInv
  <2>1. ~\E i \in 1..Len(stdin) : TRUE
    BY <1>2
  <2>2. NothingBeforeSubmit /\ SubmitOnce /\ CancelLast /\ Accounted
    BY <2>1 DEF NothingBeforeSubmit, SubmitOnce, CancelLast, Accounted, InPipe,
                InWorker
  <2>3. ASSUME NEW i \in 0..Len(stdin)
        PROVE  Cardinality(JobsAfter(i)) <= MaxNumSeqs
    <3>1. JobsAfter(i) = {}
      BY <1>2 DEF JobsAfter
    <3>. QED
      BY <3>1, FS_EmptySet, EngineAssumption
  <2>4. LoadFits
    BY <2>3 DEF LoadFits
  <2>. QED
    BY <2>2, <2>4 DEF PipeInv
<1>. QED
  BY <1>1, <1>3, <1>4, <1>5, <1>6, <1>7 DEF EngineInv

\* The threads of the jobs, outside the client, and the clients' cancellations.
LEMMA JobKeepsInv ==
  ASSUME EngineInv, NEW j \in Requests,
         \/ Submit(j) \/ JobStep(j) \/ LeaveStream(j)
  PROVE  EngineInv'
<1>. USE DEF EngineInv
<1>0. /\ j \in Writers /\ j # Host /\ j # Caller
      /\ at \in [Writers -> Places] /\ cmd \in [Writers -> Cmds]
      /\ at[j] \in Places /\ cmd[j] \in Cmds
      /\ cmd = [cmd EXCEPT ![j] = cmd[j]] /\ at = [at EXCEPT ![j] = at[j]]
      /\ Stage(j) /\ ctl \in Nat
      /\ slot \in [Requests -> {"new", "waiting", "cancelled", "held", "gone"}]
      /\ chan \in [Requests -> ChanStates] /\ reply \in ReplyStates
      /\ token \subseteq Writers /\ unheard \subseteq Writers
  BY ClientAssumption, QueueFacts DEF WireTypeOK, Stages, Writers, EngineTypeOK
<1>s. UNCHANGED <<workerVars, token, unheard, target, ctl, reply>>
  BY DEF Submit, JobStep, Admitted, NotAdmitted, ReadEnd, CloseAndCancel,
         ReleaseSlot, LeaveStream, UnchangedClient, engineVars
<1>a. ASSUME NEW p \in Places, at' = [at EXCEPT ![j] = p] PROVE CallerAims'
  BY <1>0, <1>s, <1>a, CallerStays DEF TokensKept
<1>k. TokensKept
  BY <1>s DEF TokensKept
<1>1. CASE Submit(j)
  <2>. PICK pr \in Priorities : Admission!AdmitAsync(j, pr)
    BY <1>1 DEF Submit
  <2>1. /\ at[j] = "idle"
        /\ at' = [at EXCEPT ![j] = "admitting"] /\ cmd' = [cmd EXCEPT ![j] = cmd[j]]
        /\ UNCHANGED chan
    BY <1>0, <1>1 DEF Submit, Goto
  <2>2. /\ slot'[j] \in {"waiting", "held"}
        /\ \A r \in Requests \ {j} : SlotMoves(r)
    BY <1>0, <2>1 DEF Admission!AdmitAsync, SlotMoves
  <2>3. at'[j] = "admitting" /\ cmd'[j] = cmd[j] /\ Stage(j)'
    BY <1>0, <2>1, <2>2 DEF Stage, Writing
  <2>4. Admission!AdmissionNext
    BY <2>1 DEF Admission!AdmissionNext
  <2>5. Onward(j)
    BY <2>1, <2>3 DEF Onward, Submitted, Cancelled, Attended, Writing
  <2>6. "admitting" \in Places
    BY DEF Places
  <2>. QED
    BY <1>0, <2>1, <2>2, <2>3, <2>4, <2>5, <2>6, MoveKeepsInv, <1>s, <1>a, <1>k
<1>2. CASE Admitted(j)
  <2>1. /\ at[j] = "admitting" /\ slot[j] = "held"
        /\ at' = [at EXCEPT ![j] = "ensure"] /\ cmd' = [cmd EXCEPT ![j] = "submit"]
        /\ chan' = [chan EXCEPT ![j] = "open"]
        /\ UNCHANGED admissionVars
    BY <1>2 DEF Admitted, Goto, OpenStream
  <2>2. slot' = slot /\ \A r \in Requests : SlotMoves(r)
    BY <2>1 DEF admissionVars, SlotMoves
  <2>3. at'[j] = "ensure" /\ cmd'[j] = "submit" /\ Stage(j)'
    BY <1>0, <2>1, <2>2 DEF Stage, Writing
  <2>4. chan' \in [Requests -> ChanStates]
    BY <1>0, <2>1 DEF ChanStates
  <2>5. Onward(j)
    BY <1>0, <2>1, <2>3 DEF Onward, Submitted, Cancelled, Attended, Writing, Stage
  <2>6. "ensure" \in Places /\ "submit" \in Cmds
    BY DEF Places, Writing, Cmds
  <2>. QED
    BY <1>0, <2>1, <2>2, <2>3, <2>4, <2>5, <2>6, MoveKeepsInv, <1>s, <1>a, <1>k
<1>3. CASE NotAdmitted(j)
  <2>1. /\ at[j] = "admitting" /\ Admission!CatchCancelled(j)
        /\ at' = [at EXCEPT ![j] = "done"] /\ cmd' = [cmd EXCEPT ![j] = cmd[j]]
        /\ UNCHANGED chan
    BY <1>0, <1>3 DEF NotAdmitted, Goto
  <2>2. slot'[j] = "gone" /\ \A r \in Requests \ {j} : SlotMoves(r)
    BY <1>0, <2>1 DEF Admission!CatchCancelled, SlotMoves
  <2>3. at'[j] = "done" /\ cmd'[j] = cmd[j] /\ Stage(j)'
    BY <1>0, <2>1, <2>2 DEF Stage, Writing
  <2>4. Admission!AdmissionNext
    BY <2>1 DEF Admission!AdmissionNext
  <2>5. Onward(j)
    BY <2>1, <2>3 DEF Onward, Submitted, Cancelled, Attended, Writing
  <2>6. "done" \in Places
    BY DEF Places
  <2>. QED
    BY <1>0, <2>1, <2>2, <2>3, <2>4, <2>5, <2>6, MoveKeepsInv, <1>s, <1>a, <1>k
<1>4. CASE ReadEnd(j) \/ LeaveStream(j)
  <2>1. /\ at[j] = "reading"
        /\ at' = [at EXCEPT ![j] = "closing"] /\ cmd' = [cmd EXCEPT ![j] = cmd[j]]
        /\ UNCHANGED <<admissionVars, chan>>
    BY <1>0, <1>4 DEF ReadEnd, LeaveStream, Goto
  <2>2. slot' = slot /\ \A r \in Requests : SlotMoves(r)
    BY <2>1 DEF admissionVars, SlotMoves
  <2>3. at'[j] = "closing" /\ cmd'[j] = cmd[j] /\ Stage(j)'
    BY <1>0, <2>1, <2>2 DEF Stage, Writing
  <2>5. Onward(j)
    BY <2>1, <2>3 DEF Onward, Submitted, Cancelled, Attended, Writing
  <2>6. "closing" \in Places
    BY DEF Places
  <2>. QED
    BY <1>0, <2>1, <2>2, <2>3, <2>5, <2>6, MoveKeepsInv, <1>s, <1>a, <1>k
<1>5. CASE CloseAndCancel(j)
  <2>1. /\ at[j] = "closing"
        /\ at' = [at EXCEPT ![j] = "ensure"] /\ cmd' = [cmd EXCEPT ![j] = "cancel"]
        /\ chan' = [chan EXCEPT ![j] = IF @ = "open" THEN "closed" ELSE @]
        /\ UNCHANGED admissionVars
    BY <1>5 DEF CloseAndCancel, Goto, CloseStream
  <2>2. slot' = slot /\ \A r \in Requests : SlotMoves(r)
    BY <2>1 DEF admissionVars, SlotMoves
  <2>3. at'[j] = "ensure" /\ cmd'[j] = "cancel" /\ Stage(j)'
    BY <1>0, <2>1, <2>2 DEF Stage, Writing
  <2>4. chan' \in [Requests -> ChanStates]
    BY <1>0, <2>1 DEF ChanStates
  <2>5. Onward(j)
    BY <2>1, <2>3 DEF Onward, Submitted, Cancelled, Attended, Writing
  <2>6. "ensure" \in Places /\ "cancel" \in Cmds
    BY DEF Places, Writing, Cmds
  <2>. QED
    BY <1>0, <2>1, <2>2, <2>3, <2>4, <2>5, <2>6, MoveKeepsInv, <1>s, <1>a, <1>k
<1>6. CASE ReleaseSlot(j)
  <2>1. /\ at[j] = "release" /\ Admission!Release(j)
        /\ at' = [at EXCEPT ![j] = "done"] /\ cmd' = [cmd EXCEPT ![j] = cmd[j]]
        /\ UNCHANGED chan
    BY <1>0, <1>6 DEF ReleaseSlot, Goto
  <2>2. /\ slot'[j] = "gone"
        /\ \A r \in Requests \ {j} : SlotMoves(r)
    BY <2>1, ReleaseEffect
  <2>3. at'[j] = "done" /\ cmd'[j] = cmd[j] /\ Stage(j)'
    BY <1>0, <2>1, <2>2 DEF Stage, Writing
  <2>4. Admission!AdmissionNext
    BY <2>1 DEF Admission!AdmissionNext
  <2>5. Onward(j)
    BY <2>1, <2>3 DEF Onward, Submitted, Cancelled, Attended, Writing
  <2>6. "done" \in Places
    BY DEF Places
  <2>. QED
    BY <1>0, <2>1, <2>2, <2>3, <2>4, <2>5, <2>6, MoveKeepsInv, <1>s, <1>a, <1>k
<1>. QED
  BY <1>1, <1>2, <1>3, <1>4, <1>5, <1>6 DEF JobStep

\* The cancellations: of a client, of Cancel(jobId), of a load, and by a time
\* limit; and the line that Cancel(jobId) then decides to write.
LEMMA CancelKeepsInv ==
  ASSUME EngineInv,
         \/ \E j \in Requests : CancelJob(j) \/ Cancel(j)
         \/ LookUp \/ CancelControl \/ \E t \in Writers : TimeOut(t)
  PROVE  EngineInv'
<1>. USE DEF EngineInv
<1>0. /\ Caller \in Writers /\ Caller \notin Requests /\ Caller # Host
      /\ at \in [Writers -> Places] /\ cmd \in [Writers -> Cmds]
      /\ at[Caller] \in Places /\ cmd[Caller] = "cancel"
      /\ cmd = [cmd EXCEPT ![Caller] = cmd[Caller]]
      /\ at = [at EXCEPT ![Caller] = at[Caller]]
      /\ chan \in [Requests -> ChanStates] /\ reply \in ReplyStates
      /\ token \subseteq Writers /\ unheard \subseteq Writers /\ ctl \in Nat
      /\ slot \in [Requests -> {"new", "waiting", "cancelled", "held", "gone"}]
      /\ "cancel" \in Cmds
  BY ClientAssumption, QueueFacts DEF WireTypeOK, EngineTypeOK, Writers, Cmds
<1>1. UNCHANGED <<workerVars, unheard, cmd, chan, ctl, reply>>
  BY DEF CancelJob, Cancel, LookUp, CancelControl, TimeOut, clientVars, writerVars,
         UnchangedClient, engineVars
\* With a job's token its waiting for a slot is cancelled.
<1>2. ASSUME NEW j \in Requests, CancelToken(j)
      PROVE  /\ TokensKept /\ token' \subseteq Writers /\ j \in token'
             /\ [Admission!AdmissionNext]_admissionVars
             /\ \A r \in Requests : SlotMoves(r)
  <2>1. /\ token' = token \cup {j}
        /\ (slot[j] = "waiting" /\ Admission!CancelToken(j)) \/ UNCHANGED admissionVars
    BY <1>2 DEF CancelToken
  <2>2. \A r \in Requests : SlotMoves(r)
    BY <1>0, <2>1 DEF Admission!CancelToken, admissionVars, SlotMoves
  <2>3. [Admission!AdmissionNext]_admissionVars
    BY <2>1 DEF Admission!AdmissionNext
  <2>4. TokensKept /\ token' \subseteq Writers /\ j \in token'
    BY <1>0, <2>1 DEF TokensKept, Writers
  <2>. QED
    BY <2>2, <2>3, <2>4
\* A token of a thread that has no slot to wait for.
<1>3. ASSUME NEW t \in Writers, token' = token \cup {t}, UNCHANGED admissionVars
      PROVE  /\ TokensKept /\ token' \subseteq Writers
             /\ [Admission!AdmissionNext]_admissionVars
             /\ \A r \in Requests : SlotMoves(r)
  BY <1>0, <1>3 DEF TokensKept, admissionVars, SlotMoves
<1>4. ASSUME UNCHANGED <<at, target>>, TokensKept, token' \subseteq Writers,
             [Admission!AdmissionNext]_admissionVars, \A r \in Requests : SlotMoves(r)
      PROVE  EngineInv'
  <2>1. CallerAims'
    BY <1>4 DEF CallerAims, TokensKept
  <2>2. PICK p \in Places : p = at[Caller]
    BY <1>0
  <2>3. at' = [at EXCEPT ![Caller] = p] /\ cmd' = [cmd EXCEPT ![Caller] = "cancel"]
    BY <1>0, <1>1, <1>4, <2>2
  <2>4. /\ chan' \in [Requests -> ChanStates] /\ reply' \in ReplyStates
        /\ unheard' \subseteq Writers /\ ctl' \in Nat /\ UNCHANGED workerVars
        /\ token' \subseteq Writers /\ TokensKept
        /\ [Admission!AdmissionNext]_admissionVars
        /\ \A r \in Requests \ {Caller} : SlotMoves(r)
    BY <1>0, <1>1, <1>4
  <2>5. Caller \in Writers /\ Caller \notin Requests /\ Caller # Host /\ "cancel" \in Cmds
    BY <1>0
  <2>. QED
    BY <2>1, <2>3, <2>4, <2>5, MoveKeepsInv
<1>5. ASSUME NEW j \in Requests, CancelJob(j)
      PROVE  EngineInv'
  BY <1>2, <1>4, <1>5 DEF CancelJob, clientVars, writerVars
<1>6. ASSUME NEW j \in Requests, Cancel(j)
      PROVE  EngineInv'
  <2>1. /\ CancelToken(j) /\ target' = j
        /\ at' = [at EXCEPT ![Caller] = "lookup"]
    BY <1>6 DEF Cancel, Goto
  <2>2. CallerAims'
    BY <1>2, <2>1 DEF CallerAims
  <2>3. "lookup" \in Places /\ cmd' = [cmd EXCEPT ![Caller] = "cancel"]
    BY <1>0, <1>1 DEF Places
  <2>. QED
    BY <1>0, <1>1, <1>2, <2>1, <2>2, <2>3, MoveKeepsInv
<1>7. CASE LookUp
  <2>1. PICK p \in {"ensure", "idle"} : at' = [at EXCEPT ![Caller] = p]
    BY <1>7 DEF LookUp, Goto
  <2>2. UNCHANGED <<target, token, admissionVars>> /\ at[Caller] = "lookup"
    BY <1>7 DEF LookUp, UnchangedClient, engineVars
  <2>3. p \in Places /\ cmd' = [cmd EXCEPT ![Caller] = "cancel"]
    BY <1>0, <1>1 DEF Places, Writing
  <2>4. TokensKept /\ \A r \in Requests : SlotMoves(r)
    BY <2>2 DEF TokensKept, SlotMoves, admissionVars
  <2>5. CallerAims'
    BY <1>0, <2>1, <2>2, <2>3, <2>4, CallerStays
  <2>. QED
    BY <1>0, <1>1, <2>1, <2>2, <2>3, <2>4, <2>5, MoveKeepsInv
<1>8. CASE CancelControl
  <2>1. Host \in Writers
    BY DEF Writers
  <2>2. /\ token' = token \cup {Host}
        /\ UNCHANGED <<admissionVars, at, target>>
    BY <1>8 DEF CancelControl, clientVars, writerVars
  <2>. QED
    BY <1>3, <1>4, <2>1, <2>2
<1>9. ASSUME NEW t \in Writers, TimeOut(t)
      PROVE  EngineInv'
  <2>1. /\ token' = token \cup {t}
        /\ UNCHANGED <<admissionVars, at, target>>
    BY <1>9 DEF TimeOut, clientVars, writerVars
  <2>. QED
    BY <1>3, <1>4, <2>1
<1>. QED
  BY <1>5, <1>6, <1>7, <1>8, <1>9

\* FailAll leaves channels and the reply well formed.
LEMMA FailAllTypes ==
  ASSUME chan \in [Requests -> ChanStates], reply \in ReplyStates
  PROVE  /\ FailPending => reply' \in ReplyStates
         /\ ClearPending => reply' \in ReplyStates
         /\ FailStreams => chan' \in [Requests -> ChanStates]
         /\ ClearStreams => chan' \in [Requests -> ChanStates]
<1>1. FailPending => reply' \in ReplyStates
  BY DEF FailPending, ReplyStates
<1>2. ClearPending => reply' \in ReplyStates
  BY DEF ClearPending, ReplyStates
<1>3. FailStreams => chan' \in [Requests -> ChanStates]
  BY DEF FailStreams, ChanStates
<1>4. ClearStreams => chan' \in [Requests -> ChanStates]
  BY DEF ClearStreams, ChanStates
<1>. QED
  BY <1>1, <1>2, <1>3, <1>4

\* The writes of the jobs, of the host and of Cancel(jobId).
LEMMA ClientKeepsInv ==
  ASSUME EngineInv, NEW t \in Writers, ClientStep(t) \/ StartCancelled(t)
  PROVE  EngineInv'
<1>. USE DEF EngineInv
<1>0. /\ at \in [Writers -> Places] /\ cmd \in [Writers -> Cmds]
      /\ at[t] \in Places /\ cmd[t] \in Cmds
      /\ cmd = [cmd EXCEPT ![t] = cmd[t]] /\ ctl \in Nat
      /\ t = Host => cmd[t] \notin {"submit", "cancel"}
      /\ t = Caller => cmd[t] = "cancel" /\ t # Host
      /\ t \in Requests => Stage(t) /\ t # Host /\ t # Caller
      /\ t \notin Requests => t = Host \/ t = Caller
      /\ chan \in [Requests -> ChanStates] /\ reply \in ReplyStates
      /\ token \subseteq Writers /\ unheard \subseteq Writers
      /\ batch \in 0..MaxNumSeqs
  BY ClientAssumption DEF WireTypeOK, Stages, Writers, EngineTypeOK
<1>1. /\ UNCHANGED <<token, admissionVars, slot>>
      /\ TokensKept /\ \A r \in Requests : SlotMoves(r)
  BY DEF ClientStep, StartCancelled, admissionVars, TokensKept, SlotMoves
<1>u. unheard' \subseteq Writers
  <2>1. Listening \subseteq Writers /\ Listening' \subseteq Writers
    BY DEF Listening
  <2>. QED
    BY <1>0, <2>1 DEF ClientStep, StartCancelled, WriteStep
\* Where a failed write leads.
<1>f. /\ AfterFailedWrite(t) \in {"closing", "release", "failed", "idle"}
      /\ at[t] \in Writing /\ t \in Requests =>
           \/ AfterFailedWrite(t) = "closing" /\ cmd[t] = "submit"
           \/ AfterFailedWrite(t) = "release" /\ cmd[t] = "cancel"
  BY <1>0 DEF AfterFailedWrite, Stage
\* A thread that goes on from a place before a write to another.
<1>2. ASSUME NEW p \in Writing \cup {"register", "closing", "release", "failed", "idle"},
             at[t] \in Writing \cup {"register"},
             at' = [at EXCEPT ![t] = p], cmd' = cmd,
             t \in Requests => \/ p \in Writing
                               \/ p = "closing" /\ cmd[t] = "submit"
                               \/ p = "release" /\ cmd[t] = "cancel"
      PROVE  /\ p \in Places
             /\ t \in Requests => Stage(t)'
             /\ at'[t] = p /\ cmd'[t] = cmd[t]
             /\ cmd' = [cmd EXCEPT ![t] = cmd[t]]
             /\ t = Caller => at[t] # "idle"
  <2>1. at'[t] = p /\ cmd'[t] = cmd[t]
    BY <1>0, <1>2
  <2>2. t \in Requests => Stage(t)'
    BY <1>0, <1>1, <1>2, <2>1 DEF Stage, Writing
  <2>3. p \in Places /\ (t = Caller => at[t] # "idle")
    BY <1>2 DEF Places, Writing
  <2>. QED
    BY <1>0, <1>2, <2>1, <2>2, <2>3
\* The same, while the worker stays as it is.
<1>3. ASSUME NEW p \in Writing \cup {"register", "closing", "failed", "idle"},
             at[t] \in Writing \cup {"register"},
             at' = [at EXCEPT ![t] = p],
             t \in Requests => p \in Writing \/ (p = "closing" /\ cmd[t] = "submit"),
             chan' \in [Requests -> ChanStates], reply' \in ReplyStates,
             UNCHANGED <<workerVars, cmd, target, ctl>>
      PROVE  EngineInv'
  <2>1. /\ p \in Places
        /\ t \in Requests => Stage(t)'
        /\ at'[t] = p /\ cmd'[t] = cmd[t]
        /\ cmd' = [cmd EXCEPT ![t] = cmd[t]]
        /\ t = Caller => at[t] # "idle"
    BY <1>2, <1>3
  <2>2. t \in Requests => Onward(t)
    <3>. SUFFICES ASSUME t \in Requests PROVE Onward(t)
      OBVIOUS
    <3>1. at[t] \in Writing
      BY <1>0, <1>3 DEF Stage
    <3>. QED
      BY <1>3, <2>1, <3>1 DEF Onward, Submitted, Cancelled, Attended, Writing
  <2>3. CallerAims'
    BY <1>1, <1>3, <2>1, CallerStays
  <2>. QED
    BY <1>0, <1>1, <1>u, <1>3, <2>1, <2>2, <2>3, MoveKeepsInv
\* The same, when the worker and its input end up empty.
<1>4. ASSUME NEW p \in Writing \cup {"closing", "release", "failed", "idle"},
             at[t] \in Writing,
             at' = [at EXCEPT ![t] = p],
             t \in Requests => \/ p \in Writing
                               \/ p = "closing" /\ cmd[t] = "submit"
                               \/ p = "release" /\ cmd[t] = "cancel",
             UNCHANGED <<cmd, target, chan, ctl, reply>>,
             stdout' = stdout \/ stdout' = <<>>, batch' \in 0..MaxNumSeqs,
             stdin' = <<>>, jobs' = {}, active' = {}, queued' = {}
      PROVE  EngineInv'
  <2>1. /\ p \in Places
        /\ t \in Requests => Stage(t)'
        /\ t = Caller => at[t] # "idle"
    BY <1>2, <1>4
  <2>. QED
    BY <1>0, <1>1, <1>u, <1>4, <2>1, MoveToEmpty
<1>e. /\ AfterEnsure(t) \in {"register", "write"}
      /\ t \in Requests => AfterEnsure(t) = "write"
  BY <1>0 DEF AfterEnsure
<1>w. {"ensure", "handshake", "write", "stop1", "stop2", "kill"} = Writing
  BY DEF Writing
<1>5. CASE UseProcess(t) \/ Handshake(t)
  <2>1. /\ at[t] \in Writing /\ at' = [at EXCEPT ![t] = AfterEnsure(t)]
        /\ UNCHANGED <<workerVars, cmd, target, chan, ctl, reply>>
    BY <1>5, <1>w DEF UseProcess, Handshake
  <2>. QED
    BY <1>0, <1>3, <1>e, <1>w, <2>1
<1>6. CASE Recycle(t) \/ HandshakeFails(t)
  <2>1. /\ at[t] \in Writing /\ at' = [at EXCEPT ![t] = "stop1"] /\ FailPending
        /\ UNCHANGED <<workerVars, cmd, target, chan, ctl>>
    BY <1>6, <1>w DEF Recycle, HandshakeFails, StopBegins
  <2>2. reply' \in ReplyStates
    BY <1>0, <2>1, FailAllTypes
  <2>. QED
    BY <1>0, <1>3, <1>w, <2>1, <2>2
<1>7. CASE StartProcess(t)
  <2>1. /\ at[t] = "ensure" /\ at' = [at EXCEPT ![t] = "handshake"]
        /\ UNCHANGED <<cmd, target, chan, ctl, reply>>
        /\ stdout' = <<>> /\ stdin' = <<>> /\ batch' = 0
        /\ jobs' = {} /\ active' = {} /\ queued' = {}
    BY <1>7 DEF StartProcess, Boot
  <2>2. batch' \in 0..MaxNumSeqs
    BY <2>1, EngineAssumption
  <2>. QED
    BY <1>4, <1>w, <2>1, <2>2
<1>8. CASE StopFailsStreams(t) \/ StopClearsStreams(t)
  <2>1. PICK p \in {"stop2", "kill"} : at' = [at EXCEPT ![t] = p]
    BY <1>8 DEF StopFailsStreams, StopClearsStreams
  <2>2. /\ at[t] \in Writing
        /\ UNCHANGED <<workerVars, cmd, target, ctl>>
    BY <1>8, <1>w DEF StopFailsStreams, StopClearsStreams
  <2>3. chan' \in [Requests -> ChanStates] /\ reply' \in ReplyStates
    BY <1>0, <1>8, FailAllTypes DEF StopFailsStreams, StopClearsStreams, FailAllMiddle
  <2>. QED
    BY <1>3, <1>w, <2>1, <2>2, <2>3
<1>9. CASE Kill(t)
  <2>1. PICK p \in {"ensure", AfterFailedWrite(t)} : at' = [at EXCEPT ![t] = p]
    BY <1>9 DEF Kill
  <2>2. /\ at[t] \in Writing
        /\ UNCHANGED <<cmd, target, chan, ctl, reply, stdout>>
        /\ stdin' = <<>> /\ batch' = 0 /\ jobs' = {} /\ active' = {} /\ queued' = {}
    BY <1>9, <1>w DEF Kill, Exit
  <2>3. batch' \in 0..MaxNumSeqs
    BY <2>2, EngineAssumption
  <2>4. /\ p \in Writing \cup {"closing", "release", "failed", "idle"}
        /\ t \in Requests => \/ p \in Writing
                             \/ p = "closing" /\ cmd[t] = "submit"
                             \/ p = "release" /\ cmd[t] = "cancel"
    BY <1>f, <1>w, <2>1, <2>2
  <2>. QED
    BY <1>4, <2>1, <2>2, <2>3, <2>4
<1>10. CASE Register(t)
  <2>1. /\ at[t] = "register" /\ at' = [at EXCEPT ![t] = "ensure"]
        /\ UNCHANGED <<workerVars, cmd, target, chan, ctl>>
        /\ reply' \in {reply, "wait"}
    BY <1>10 DEF Register
  <2>2. reply' \in ReplyStates
    BY <1>0, <2>1 DEF ReplyStates
  <2>. QED
    BY <1>0, <1>3, <1>w, <2>1, <2>2
\* A write that fails, because there is no process or its token is cancelled.
<1>11. CASE Write(t, BatchAsked) /\ ~up
  <2>1. /\ stdin = <<>> /\ jobs = {} /\ active = {} /\ queued = {}
    BY <1>11 DEF DeadIsEmpty
  <2>2. /\ at[t] \in Writing /\ at' = [at EXCEPT ![t] = AfterFailedWrite(t)]
        /\ UNCHANGED <<stdin, stdout, batch, jobs, active, queued>>
        /\ UNCHANGED <<cmd, target, chan, ctl, reply>>
    BY <1>11, <1>w DEF Write, generatorVars, modelVars
  <2>. QED
    BY <1>0, <1>4, <1>f, <2>1, <2>2
<1>12. ASSUME Withdrawn(t), HandshakeCancelled(t) \/ WriteCancelled(t)
       PROVE  EngineInv'
  <2>1. /\ at[t] \in Writing /\ at' = [at EXCEPT ![t] = AfterFailedWrite(t)]
        /\ UNCHANGED <<workerVars, cmd, target, chan, ctl, reply>>
    BY <1>12, <1>w DEF HandshakeCancelled, WriteCancelled
  <2>2. /\ AfterFailedWrite(t) \in {"closing", "failed", "idle"}
        /\ t \in Requests => AfterFailedWrite(t) = "closing" /\ cmd[t] = "submit"
    BY <1>0, <1>12, <2>1 DEF Withdrawn, AfterFailedWrite, Stage
  <2>. QED
    BY <1>0, <1>3, <2>1, <2>2
\* A line that is written.
<1>13. CASE Write(t, BatchAsked) /\ up /\ ~Withdrawn(t)
  <2>1. /\ at[t] = "write" /\ at' = [at EXCEPT ![t] = AfterWrite(t)]
        /\ stdin' = Append(stdin, Command(t, BatchAsked))
        /\ UNCHANGED <<up, stdout, batch, jobs, active, queued>>
        /\ UNCHANGED <<cmd, target, chan, ctl, reply>>
    BY <1>13 DEF Write, generatorVars, modelVars
  <2>2. /\ AfterWrite(t) \in {"waiting", "reading", "release", "idle"}
        /\ t \in Requests =>
             \/ AfterWrite(t) = "reading" /\ cmd[t] = "submit"
             \/ AfterWrite(t) = "release" /\ cmd[t] = "cancel"
    BY <1>0, <2>1 DEF AfterWrite, Stage, Writing
  <2>p. AfterWrite(t) \in Places
    BY <2>2 DEF Places
  <2>3. at'[t] = AfterWrite(t) /\ cmd'[t] = cmd[t] /\ cmd' = [cmd EXCEPT ![t] = cmd[t]]
    BY <1>0, <2>1
  <2>4. t \in Requests => Stage(t)'
    BY <1>0, <1>1, <2>1, <2>2, <2>3 DEF Stage, Writing
  <2>5. /\ Stages'
        /\ at' \in [Writers -> Places] /\ cmd' \in [Writers -> Cmds]
        /\ cmd'[Host] \notin {"submit", "cancel"} /\ cmd'[Caller] = "cancel"
    BY <1>0, <1>1, <2>1, <2>p, <2>3, <2>4, Moved
  <2>6. Queue!AdmissionInv' /\ Admission!AdmissionTypeOK'
    BY <1>1, QueueStep
  <2>7. EngineTypeOK'
    BY <1>0, <1>1, <1>u, <2>1, <2>6 DEF EngineTypeOK
  <2>o. /\ Command(t, BatchAsked).cmd = cmd[t]
        /\ Command(t, BatchAsked).job \in Writers
        /\ cmd[t] \in {"submit", "cancel"} => Command(t, BatchAsked).job \in Requests
    BY <1>0, <2>1 DEF Command, CallerAims, Writers
  <2>c. Command(t, BatchAsked) \in Commands
    BY <1>0, <2>o, QueueFacts DEF Command, Commands
  <2>8. WireTypeOK'
    <3>2. stdin \in Seq(Commands) /\ stdin' \in Seq(Commands)
      BY <2>1, <2>c DEF WireTypeOK
    <3>3. \A i \in 1..Len(stdin') :
            stdin'[i].cmd \in {"submit", "cancel"} => stdin'[i].job \in Requests
      <4>. SUFFICES ASSUME NEW i \in 1..Len(stdin'),
                           stdin'[i].cmd \in {"submit", "cancel"}
                    PROVE  stdin'[i].job \in Requests
        OBVIOUS
      <4>1. CASE i = Len(stdin) + 1
        <5>1. stdin'[i] = Command(t, BatchAsked)
          BY <2>1, <3>2, <4>1
        <5>. QED
          BY <2>o, <5>1
      <4>2. CASE i \in 1..Len(stdin)
        <5>1. stdin'[i] = stdin[i]
          BY <2>1, <3>2, <4>2
        <5>. QED
          BY <4>2, <5>1 DEF WireTypeOK
      <4>. QED
        BY <2>1, <3>2, <4>1, <4>2
    <3>. QED
      BY <1>0, <2>1, <2>5, <3>2, <3>3 DEF WireTypeOK
  <2>9. DeadIsEmpty'
    BY <1>13, <2>1 DEF DeadIsEmpty
  <2>10. PipeInv'
    <3>1. cmd[t] = "submit" => t \notin token
      BY <1>13 DEF Withdrawn
    <3>. QED
      BY <1>1, <2>1, <2>c, <3>1, LineWritten
  <2>11. CallerAims'
    BY <1>1, <2>1, <2>p, CallerStays
  <2>. QED
    BY <2>5, <2>6, <2>7, <2>8, <2>9, <2>10, <2>11
<1>14. CASE WriteStep(t)
  BY <1>11, <1>12, <1>13, <1>14 DEF WriteStep
<1>. QED
  BY <1>5, <1>6, <1>7, <1>8, <1>9, <1>10, <1>12, <1>14
     DEF ClientStep, StartCancelled, EnsureStarted, StopStep


\* Loads, unloads and reads of the metrics.
LEMMA ControlKeepsInv ==
  ASSUME EngineInv,
         Load \/ UnloadModel \/ StopEngine \/ ControlDone \/ GetMetrics
  PROVE  EngineInv'
<1>. USE DEF EngineInv
<1>0. /\ Host \in Writers /\ Host \notin Requests /\ Host # Caller
      /\ at \in [Writers -> Places] /\ cmd \in [Writers -> Cmds]
      /\ at[Host] \in Places /\ cmd[Host] \in Cmds \ {"submit", "cancel"}
      /\ at = [at EXCEPT ![Host] = at[Host]] /\ cmd = [cmd EXCEPT ![Host] = cmd[Host]]
      /\ chan \in [Requests -> ChanStates] /\ reply \in ReplyStates
      /\ token \subseteq Writers /\ unheard \subseteq Writers /\ ctl \in Nat
  BY ClientAssumption DEF WireTypeOK, EngineTypeOK, Writers
<1>1. ASSUME NEW c \in {"load", "unload"}, StartControl(c),
             [Admission!AdmissionNext]_admissionVars, UNCHANGED slot
      PROVE  EngineInv'
  <2>1. /\ at' = [at EXCEPT ![Host] = "ensure"] /\ cmd' = [cmd EXCEPT ![Host] = c]
        /\ reply' = "none" /\ ctl' = ctl + 1
        /\ UNCHANGED <<workerVars, token, unheard, target, chan>>
    BY <1>1 DEF StartControl, Goto, engineVars
  <2>2. "ensure" \in Places /\ c \in Cmds /\ c \notin {"submit", "cancel"}
    BY <1>1 DEF Places, Writing, Cmds
  <2>3. reply' \in ReplyStates /\ ctl' \in Nat
    BY <1>0, <2>1 DEF ReplyStates
  <2>4. TokensKept /\ \A r \in Requests : SlotMoves(r)
    BY <1>1, <2>1 DEF TokensKept, SlotMoves
  <2>5. CallerAims'
    BY <1>0, <2>1, <2>2, <2>4, CallerStays
  <2>. QED
    BY <1>0, <1>1, <2>1, <2>2, <2>3, <2>4, <2>5, MoveKeepsInv
<1>2. CASE Load
  <2>1. PICK n \in Settings : Admission!SetOptions(n)
    BY <1>2 DEF Load
  <2>2. Admission!AdmissionNext /\ slot' = slot
    BY <2>1 DEF Admission!AdmissionNext, Admission!SetOptions
  <2>. QED
    BY <1>1, <1>2, <2>2 DEF Load
<1>3. ASSUME UNCHANGED <<workerVars, clientVars, admissionVars, token, unheard>>
      PROVE  EngineInv'
  <2>1. /\ UNCHANGED <<at, cmd, target, ctl, chan, reply, slot>>
        /\ TokensKept /\ \A r \in Requests : SlotMoves(r)
    BY <1>3 DEF clientVars, writerVars, admissionVars, TokensKept, SlotMoves
  <2>2. CallerAims'
    BY <1>3, <2>1 DEF CallerAims
  <2>. QED
    BY <1>0, <1>3, <2>1, <2>2, MoveKeepsInv
<1>4. CASE UnloadModel
  <2>1. CASE StartControl("unload") /\ UNCHANGED admissionVars
    BY <1>1, <2>1 DEF admissionVars
  <2>2. CASE UNCHANGED <<workerVars, clientVars, admissionVars, token, unheard>>
    BY <1>3, <2>2
  <2>. QED
    BY <1>4, <2>1, <2>2 DEF UnloadModel
<1>5. CASE GetMetrics \/ StopEngine
  BY <1>3, <1>5 DEF GetMetrics, StopEngine
<1>6. CASE ControlDone
  <2>1. /\ at' = [at EXCEPT ![Host] = "idle"]
        /\ token' = token \ {Host} /\ unheard' = unheard \ {Host}
        /\ UNCHANGED <<workerVars, admissionVars, slot, target, cmd, ctl, chan, reply>>
    BY <1>6 DEF ControlDone, Goto, admissionVars, UnchangedClient
  <2>2. "idle" \in Places
    BY DEF Places
  <2>3. /\ token' \subseteq Writers /\ unheard' \subseteq Writers
        /\ TokensKept /\ \A r \in Requests : SlotMoves(r)
    BY <1>0, <2>1 DEF TokensKept, SlotMoves
  <2>4. CallerAims'
    BY <1>0, <2>1, <2>2, <2>3, CallerStays
  <2>. QED
    BY <1>0, <2>1, <2>2, <2>3, <2>4, MoveKeepsInv
<1>. QED
  BY <1>2, <1>4, <1>5, <1>6

\* The pumps.
LEMMA PumpKeepsInv ==
  ASSUME EngineInv, PumpStep \/ PumpFailure \/ SweepStep
  PROVE  EngineInv'
<1>. USE DEF EngineInv
<1>0. /\ Host \in Writers /\ Host \notin Requests /\ Host # Caller
      /\ at \in [Writers -> Places] /\ cmd \in [Writers -> Cmds]
      /\ at[Host] \in Places /\ cmd[Host] \in Cmds \ {"submit", "cancel"}
      /\ cmd[Caller] = "cancel"
      /\ at = [at EXCEPT ![Host] = at[Host]] /\ cmd = [cmd EXCEPT ![Host] = cmd[Host]]
      /\ chan \in [Requests -> ChanStates] /\ reply \in ReplyStates
      /\ token \subseteq Writers /\ unheard \subseteq Writers /\ ctl \in Nat
      /\ stdout \in Seq(Lines) /\ Len(stdout) <= PipeBound
  BY ClientAssumption DEF WireTypeOK, EngineTypeOK, Writers
<1>s. /\ UNCHANGED <<at, cmd, ctl, target, token, unheard>>
      /\ TokensKept /\ CallerAims'
  <2>1. UNCHANGED <<at, cmd, ctl, target, token, unheard>>
    BY DEF PumpStep, PumpLine, PumpFailure, PumpEnds, PumpFails, StalePumpFails,
           SweepStep, Sweep, SweepFailsStreams, SweepClearsStreams, writerVars, engineVars
  <2>. QED
    BY <2>1 DEF TokensKept, CallerAims
<1>1. CASE PumpStep
  <2>1. /\ stdout # <<>> /\ stdout' = Tail(stdout) /\ Dispatch(Head(stdout))
        /\ UNCHANGED <<up, stdin, batch, jobs, active, queued>>
    BY <1>1 DEF PumpStep, PumpLine, generatorVars, modelVars
  <2>2. Head(stdout) \in Lines /\ stdout' \in Seq(Lines) /\ Len(stdout') <= PipeBound
    BY <1>0, <2>1, WorkerAssumption
  <2>3. chan' \in [Requests -> ChanStates]
    BY <1>0, <2>1 DEF Dispatch, ChanStates
  <2>4. reply' \in ReplyStates
    BY <1>0, <1>1 DEF PumpStep, PumpLine, ReplyStates
  <2>5. \/ UNCHANGED admissionVars
        \/ /\ Head(stdout).stats \in Admission!WorkerStats
           /\ Admission!OnStats(Head(stdout).stats)
    <3>1. Head(stdout).stats \in Reports
      BY <2>2 DEF Lines
    <3>2. Head(stdout).stats.Seen => Head(stdout).stats \in Admission!WorkerStats
      <4>. DEFINE st == Head(stdout).stats
      <4>1. CASE st = NoReport
        BY <4>1 DEF NoReport
      <4>2. CASE st \in Admission!WorkerStats
        BY <4>2
      <4>3. st = NoReport \/ st \in Admission!WorkerStats
        BY <3>1 DEF Reports, Admission!WorkerStats
      <4>. QED
        BY <4>1, <4>2, <4>3
    <3>. QED
      BY <1>1, <3>2 DEF PumpStep
  <2>6. [Admission!AdmissionNext]_admissionVars
    BY <2>5 DEF Admission!AdmissionNext
  <2>7. \A r \in Requests : SlotMoves(r)
    BY <2>5, OnStatsEffect DEF admissionVars, SlotMoves
  <2>8. Queue!AdmissionInv' /\ Admission!AdmissionTypeOK'
    BY <2>6, QueueStep
  <2>9. EngineTypeOK'
    BY <1>s, <2>1, <2>2, <2>3, <2>4, <2>8 DEF EngineTypeOK
  <2>m. Stages' /\ \A r \in Requests : Onward(r)
    BY <1>0, <1>s, <2>7, Moved
  <2>11. WireTypeOK' /\ DeadIsEmpty'
    BY <1>s, <2>1, <2>2 DEF WireTypeOK, DeadIsEmpty
  <2>12. PipeInv'
    BY <1>s, <2>1, QuietPipe DEF InWorker, Submitted, GivenUp, Cancelled, Attended
  <2>. QED
    BY <1>s, <2>8, <2>9, <2>m, <2>11, <2>12
<1>2. CASE PumpFailure \/ SweepStep
  <2>1. /\ UNCHANGED <<workerVars, admissionVars>>
        /\ FailPending \/ ClearPending \/ reply' = reply
        /\ FailStreams \/ ClearStreams \/ chan' = chan
    BY <1>2 DEF PumpFailure, PumpEnds, PumpFails, StalePumpFails, SweepStep, Sweep,
                SweepFailsStreams, SweepClearsStreams, FailAllMiddle
  <2>2. chan' \in [Requests -> ChanStates] /\ reply' \in ReplyStates
    BY <1>0, <2>1, FailAllTypes
  <2>3. \A r \in Requests : SlotMoves(r)
    BY <2>1 DEF admissionVars, SlotMoves
  <2>. QED
    BY <1>0, <1>s, <2>1, <2>2, <2>3, MoveKeepsInv
<1>. QED
  BY <1>1, <1>2

\* The worker writes at most one line and takes at most one.
LEMMA WorkerMoves ==
  ASSUME EngineInv, up' = TRUE,
         UNCHANGED <<clientVars, token, admissionVars>>, unheard' \subseteq Writers,
         stdout' = stdout \/ \E line \in Lines : Emit(line),
         stdin' = stdin \/ (stdin # <<>> /\ stdin' = Tail(stdin)),
         batch' \in 0..MaxNumSeqs,
         jobs' \subseteq Requests,
         active' \subseteq Requests, queued' \subseteq Requests,
         active' \cap queued' = {},
         PipeInv'
  PROVE  EngineInv'
<1>. USE DEF EngineInv
<1>0. UNCHANGED <<at, cmd, target, ctl, chan, reply, slot>>
  BY DEF clientVars, writerVars, admissionVars
<1>1. Queue!AdmissionInv' /\ Admission!AdmissionTypeOK'
  BY QueueStep
<1>2. stdout' \in Seq(Lines) /\ Len(stdout') <= PipeBound
  <2>1. stdout \in Seq(Lines) /\ Len(stdout) <= PipeBound
    BY DEF WireTypeOK, EngineTypeOK
  <2>. QED
    BY <2>1, WorkerAssumption DEF Emit
<1>3. EngineTypeOK'
  BY <1>0, <1>1, <1>2 DEF EngineTypeOK
<1>4. Stages' /\ CallerAims'
  BY <1>0 DEF Stages, Stage, CallerAims
<1>5. WireTypeOK'
  <2>1. CASE stdin' = stdin
    BY <1>0, <1>2, <2>1 DEF WireTypeOK
  <2>2. CASE stdin # <<>> /\ stdin' = Tail(stdin)
    <3>1. stdin \in Seq(Commands)
      BY DEF WireTypeOK
    <3>2. /\ stdin' \in Seq(Commands)
          /\ \A i \in 1..Len(stdin') : i + 1 \in 1..Len(stdin) /\ stdin'[i] = stdin[i + 1]
      BY <2>2, <3>1
    <3>3. \A i \in 1..Len(stdin') :
            stdin'[i].cmd \in {"submit", "cancel"} => stdin'[i].job \in Requests
      BY <3>2 DEF WireTypeOK
    <3>. QED
      BY <1>0, <1>2, <3>2, <3>3 DEF WireTypeOK
  <2>. QED
    BY <2>1, <2>2
<1>6. DeadIsEmpty'
  BY DEF DeadIsEmpty
<1>. QED
  BY <1>1, <1>3, <1>4, <1>5, <1>6

\* The lines the worker writes.
LEMMA LinesWritten ==
  ASSUME NEW q \in SUBSET Requests, NEW e \in SUBSET Requests, NEW f \in SUBSET Requests,
         batch \in 0..MaxNumSeqs
  PROVE  Batch(e, f, q) \in Lines
<1>1. Cardinality(q) \in 0..Cardinality(Requests)
  BY WorkerAssumption, FS_Subset, FS_CardinalityType
<1>2. Report(q) \in Reports
  BY <1>1 DEF Report, Reports
<1>. QED
  BY <1>2 DEF Batch, Lines, NoReply

\* The commands the worker handles.
LEMMA HandleKeepsInv ==
  ASSUME EngineInv, HandleStep
  PROVE  EngineInv'
<1>. USE DEF EngineInv
<1>. DEFINE h == Head(stdin)
<1>0. /\ up = TRUE /\ up' = up
      /\ UNCHANGED <<clientVars, token, admissionVars, at, cmd>>
      /\ stdin # <<>> /\ stdin' = Tail(stdin) /\ unheard' \subseteq Writers
      /\ jobs \subseteq Requests /\ active \subseteq Requests /\ queued \subseteq Requests
      /\ active \cap queued = {}
  <2>1. stdin # <<>> /\ stdin' = Tail(stdin) /\ up' = up
    BY DEF HandleStep, Handle, HandleSubmit, HandleCancel, HandleLoad,
           HandleUnload, Receives
  <2>2. up = TRUE
    BY <2>1 DEF DeadIsEmpty, HandleStep, Handle, HandleSubmit, HandleCancel,
                HandleLoad, HandleUnload, Receives
  <2>. QED
    BY <2>1, <2>2 DEF HandleStep, clientVars, writerVars, EngineTypeOK, Writers
<1>1. /\ h \in Commands /\ h = stdin[1] /\ 1 \in 1..Len(stdin)
      /\ h.batch \in 0..MaxNumSeqs /\ batch \in 0..MaxNumSeqs /\ 0 \in 0..MaxNumSeqs
      /\ h.cmd \in {"submit", "cancel"} => h.job \in Requests
  <2>1. h \in Commands /\ h = stdin[1] /\ 1 \in 1..Len(stdin)
    BY <1>0 DEF WireTypeOK
  <2>2. h.batch \in 0..MaxNumSeqs
    BY <2>1 DEF Commands
  <2>. QED
    BY <2>1, <2>2, EngineAssumption DEF WireTypeOK, EngineTypeOK
<1>2. \A c, j : Says(1, c, j) <=> h.cmd = c /\ h.job = j
  BY <1>1 DEF Says
<1>. HIDE DEF h
<1>3. CASE HandleSubmit
  <2>1. /\ h.cmd = "submit" /\ h.job \in Requests /\ Says(1, "submit", h.job)
        /\ jobs' \subseteq jobs \cup {h.job} /\ active' = active
        /\ queued' \subseteq queued \cup {h.job}
        /\ \/ stdout' = stdout
           \/ Emit(JobError(h.job)) \/ Emit(Batch({}, {h.job}, queued))
        /\ batch' = batch
    BY <1>1, <1>2, <1>3 DEF HandleSubmit, Receives, h, modelVars
  <2>2. h.job \notin active
    BY <1>1, <2>1 DEF PipeInv, SubmitOnce, InWorker
  <2>3. JobError(h.job) \in Lines /\ Batch({}, {h.job}, queued) \in Lines
    <3>1. JobError(h.job) \in Lines
      BY <2>1 DEF JobError, Lines, Reports, NoReply
    <3>2. Batch({}, {h.job}, queued) \in Lines
      BY <1>0, <1>1, <2>1, LinesWritten
    <3>. QED
      BY <3>1, <3>2
  <2>4. \A j \in Requests : ~Says(1, "cancel", j)
    BY <1>2, <2>1
  <2>5. PipeInv'
    <3>1. /\ jobs' \subseteq jobs \cup {j \in Requests : Says(1, "submit", j)}
          /\ \A j \in Requests : InWorker(j)' => InWorker(j) \/ Says(1, "submit", j)
      BY <2>1 DEF InWorker
    <3>. QED
      BY <1>0, <2>4, <3>1, LineTaken
  <2>. QED
    BY <1>0, <1>1, <2>1, <2>2, <2>3, <2>5, WorkerMoves
<1>4. CASE HandleCancel
  <2>1. /\ h.cmd = "cancel" /\ h.job \in Requests
        /\ jobs' = jobs \ {h.job} /\ active' \subseteq active /\ queued' \subseteq queued
        /\ stdout' = stdout /\ batch' = batch
    BY <1>1, <1>4 DEF HandleCancel, Receives, h, modelVars, generatorVars
  <2>2. PipeInv'
    <3>1. /\ jobs' \subseteq jobs \cup {j \in Requests : Says(1, "submit", j)}
          /\ \A j \in Requests : InWorker(j)' => InWorker(j) \/ Says(1, "submit", j)
          /\ \A j \in Requests : Says(1, "cancel", j) => j \notin jobs'
      BY <1>2, <2>1 DEF InWorker
    <3>. QED
      BY <1>0, <3>1, LineTaken
  <2>. QED
    BY <1>0, <1>1, <2>1, <2>2, WorkerMoves
<1>5. CASE HandleLoad \/ HandleUnload
  <2>1. /\ \/ jobs' = jobs /\ active' = active /\ queued' = queued /\ batch' = batch
           \/ /\ jobs' = {} /\ active' = {} /\ queued' = {}
              /\ batch' \in {0, h.batch}
        /\ \E ok \in BOOLEAN : Emit(Answer(h.id, ok))
        /\ h.cmd # "cancel"
    BY <1>5 DEF HandleLoad, HandleUnload, Unload, h, Receives, modelVars, generatorVars
  <2>2. \A ok \in BOOLEAN : Answer(h.id, ok) \in Lines
    BY <1>1 DEF Answer, Lines, Reports, Commands
  <2>3. PipeInv'
    <3>1. /\ jobs' \subseteq jobs \cup {j \in Requests : Says(1, "submit", j)}
          /\ \A j \in Requests : InWorker(j)' => InWorker(j) \/ Says(1, "submit", j)
          /\ \A j \in Requests : ~Says(1, "cancel", j)
      BY <1>2, <2>1 DEF InWorker
    <3>. QED
      BY <1>0, <3>1, LineTaken
  <2>4. /\ jobs' \subseteq Requests /\ active' \subseteq Requests /\ queued' \subseteq Requests
        /\ active' \cap queued' = {} /\ batch' \in 0..MaxNumSeqs
    BY <1>0, <1>1, <2>1
  <2>. QED
    BY <1>0, <2>1, <2>2, <2>3, <2>4, WorkerMoves
<1>. QED
  BY <1>3, <1>4, <1>5 DEF HandleStep, Handle

\* The generator's turns.
LEMMA ServeKeepsInv ==
  ASSUME EngineInv, ServeStep(Serve)
  PROVE  EngineInv'
<1>. USE DEF EngineInv
<1>0. /\ UNCHANGED <<clientVars, token, unheard, admissionVars, at, cmd>>
      /\ batch \in 0..MaxNumSeqs /\ unheard \subseteq Writers
      /\ jobs \subseteq Requests /\ active \subseteq Requests /\ queued \subseteq Requests
      /\ active \cap queued = {}
  BY DEF ServeStep, clientVars, writerVars, engineVars, EngineTypeOK
<1>1. up = TRUE /\ up' = TRUE /\ stdin' = stdin /\ batch' = batch
  <2>1. up' = up /\ stdin' = stdin /\ batch' = batch /\ Remaining # {}
    BY DEF ServeStep, Serve, Iterate, FailAllJobs, modelVars
  <2>. QED
    BY <2>1 DEF DeadIsEmpty, Remaining, ServeStep, Serve, Iterate, FailAllJobs
<1>2. ASSUME jobs' \subseteq jobs,
             active' \cup queued' \subseteq active \cup queued
      PROVE  PipeInv'
  BY <1>0, <1>1, <1>2, QuietPipe DEF InWorker, Submitted, GivenUp, Cancelled, Attended
<1>3. ASSUME NEW start \in SUBSET queued, NEW fin \in SUBSET Remaining,
             Iterate(start, fin)
      PROVE  EngineInv'
  <2>1. /\ active' = (active \cup start) \ fin /\ queued' = queued \ start
        /\ jobs' = jobs \ fin
        /\ Emit(Batch(fin, {}, queued \ start))
    BY <1>3 DEF Iterate
  <2>2. Batch(fin, {}, queued \ start) \in Lines
    BY <1>0, <1>3, LinesWritten DEF Remaining
  <2>3. PipeInv'
    BY <1>2, <2>1
  <2>4. active' \cap queued' = {} /\ active' \subseteq Requests /\ queued' \subseteq Requests
    BY <1>0, <2>1
  <2>. QED
    BY <1>0, <1>1, <2>1, <2>2, <2>3, <2>4, WorkerMoves
<1>4. CASE FailAllJobs
  <2>1. /\ jobs' = {} /\ active' = {} /\ queued' = {}
        /\ stdout' = stdout \/ Emit(Batch({}, jobs, {}))
    BY <1>4 DEF FailAllJobs
  <2>2. Batch({}, jobs, {}) \in Lines
    BY <1>0, LinesWritten
  <2>3. PipeInv'
    BY <1>2, <2>1
  <2>. QED
    BY <1>0, <1>1, <2>1, <2>2, <2>3, WorkerMoves
<1>. QED
  BY <1>3, <1>4 DEF ServeStep, Serve

\* The death of the process.
LEMMA DeathKeepsInv ==
  ASSUME EngineInv, Die
  PROVE  EngineInv'
<1>. USE DEF EngineInv
<1>1. /\ UNCHANGED <<at, cmd, target, ctl, chan, reply, token, unheard, admissionVars, stdout>>
      /\ stdin' = <<>> /\ jobs' = {} /\ active' = {} /\ queued' = {} /\ batch' = 0
  BY DEF Die, Crash, Exit, clientVars, writerVars
<1>2. /\ Host \in Writers /\ Host \notin Requests /\ Host # Caller /\ at[Host] \in Places
      /\ at = [at EXCEPT ![Host] = at[Host]]
      /\ chan \in [Requests -> ChanStates] /\ reply \in ReplyStates
      /\ unheard \subseteq Writers /\ 0 \in 0..MaxNumSeqs
  BY ClientAssumption, EngineAssumption DEF WireTypeOK, EngineTypeOK, Writers
<1>. QED
  BY <1>1, <1>2, MoveToEmpty

\* Every step keeps the invariant.
LEMMA StepKeepsInv == EngineInv /\ [Next]_vars => EngineInv'
<1>. SUFFICES ASSUME EngineInv, [Next]_vars PROVE EngineInv'
  OBVIOUS
<1>1. CASE UNCHANGED vars
  <2>1. UNCHANGED <<workerVars, clientVars, engineVars, admissionVars>>
    BY <1>1 DEF vars
  <2>2. /\ Host \in Writers /\ Host \notin Requests /\ Host # Caller /\ at[Host] \in Places
        /\ cmd[Host] \in Cmds \ {"submit", "cancel"}
        /\ at = [at EXCEPT ![Host] = at[Host]] /\ cmd = [cmd EXCEPT ![Host] = cmd[Host]]
        /\ chan \in [Requests -> ChanStates] /\ reply \in ReplyStates
        /\ token \subseteq Writers /\ unheard \subseteq Writers /\ ctl \in Nat
        /\ CallerAims
    BY ClientAssumption DEF EngineInv, WireTypeOK, EngineTypeOK, Writers
  <2>3. UNCHANGED <<at, cmd, target, ctl, chan, reply, token, unheard, slot>>
    BY <2>1 DEF clientVars, writerVars, engineVars, admissionVars
  <2>4. TokensKept /\ CallerAims' /\ \A r \in Requests : SlotMoves(r)
    BY <2>2, <2>3 DEF TokensKept, CallerAims, SlotMoves
  <2>. QED
    BY <2>1, <2>2, <2>3, <2>4, MoveKeepsInv
<1>. QED
  BY <1>1, JobKeepsInv, CancelKeepsInv, ClientKeepsInv, ControlKeepsInv, PumpKeepsInv,
     HandleKeepsInv, ServeKeepsInv, DeathKeepsInv DEF Next


\* Every step of the engine is a step of its admission queue, or none.
LEMMA StepOfQueue ==
  ASSUME EngineInv, [Next]_vars
  PROVE  [Admission!AdmissionNext]_admissionVars
<1>1. CASE UNCHANGED vars
  BY <1>1 DEF vars
<1>2. ASSUME NEW j \in Requests,
             Submit(j) \/ JobStep(j) \/ LeaveStream(j) \/ CancelJob(j) \/ Cancel(j)
      PROVE  [Admission!AdmissionNext]_admissionVars
  <2>1. \/ \E p \in Priorities : Admission!AdmitAsync(j, p)
        \/ Admission!CancelToken(j)
        \/ Admission!CatchCancelled(j) \/ Admission!Release(j)
        \/ UNCHANGED admissionVars
    BY <1>2 DEF Submit, JobStep, Admitted, NotAdmitted, ReadEnd, CloseAndCancel,
                ReleaseSlot, LeaveStream, CancelJob, Cancel, CancelToken
  <2>. QED
    BY <2>1 DEF Admission!AdmissionNext
<1>3. CASE PumpStep
  <2>1. Head(stdout).stats \in Reports
    <3>1. stdout \in Seq(Lines) /\ stdout # <<>>
      BY <1>3 DEF PumpStep, PumpLine, EngineInv, WireTypeOK
    <3>2. Head(stdout) \in Lines
      BY <3>1
    <3>. QED
      BY <3>2 DEF Lines
  <2>2. CASE Head(stdout).stats = NoReport
    BY <1>3, <2>2 DEF PumpStep, NoReport
  <2>3. CASE Head(stdout).stats \in Admission!WorkerStats
    BY <1>3, <2>3 DEF PumpStep, Admission!AdmissionNext
  <2>4. Reports = Admission!WorkerStats \cup {NoReport}
    BY DEF Reports, Admission!WorkerStats
  <2>. QED
    BY <2>1, <2>2, <2>3, <2>4
<1>4. CASE Load
  BY <1>4 DEF Load, Admission!AdmissionNext
<1>5. ASSUME \/ \E t \in Writers : ClientStep(t) \/ StartCancelled(t) \/ TimeOut(t)
             \/ LookUp \/ CancelControl
             \/ UnloadModel \/ StopEngine \/ ControlDone \/ GetMetrics
             \/ PumpFailure \/ SweepStep
             \/ HandleStep \/ ServeStep(Serve) \/ Die
      PROVE  UNCHANGED admissionVars
  BY <1>5 DEF ClientStep, StartCancelled, TimeOut, LookUp, CancelControl, UnloadModel,
              StopEngine, ControlDone, GetMetrics, PumpFailure, SweepStep, HandleStep,
              ServeStep, Die
<1>. QED
  BY <1>1, <1>2, <1>3, <1>4, <1>5 DEF Next

-----------------------------------------------------------------------------
(* Theorems *)

\* The invariant holds in every reachable state.
THEOREM EngineInvHolds == Spec => []EngineInv
  BY InitKeepsInv, StepKeepsInv, PTL DEF Spec

\* Channels, replies, the generator's lists and the output pipe stay well
\* formed, and no job is both pending and active.
THEOREM EngineTypes == Spec => []EngineTypeOK
<1>1. EngineInv => EngineTypeOK
  BY DEF EngineInv
<1>. QED
  BY <1>1, EngineInvHolds, PTL

\* A slot is held exactly between a job's admission and the end of its finally
\* block, on every path through the client, and counted once.
THEOREM SlotsFollow == Spec => []SlotsFollowJobs
<1>1. EngineInv => SlotsFollowJobs
  BY QueueFacts DEF EngineInv, SlotsFollowJobs, Stages, Stage
<1>. QED
  BY <1>1, EngineInvHolds, PTL

\* The worker never has more jobs than slots were configured.
THEOREM WorkerFits == Spec => []WorkerWithinCapacity
<1>1. EngineInv => WorkerWithinCapacity
  <2>. SUFFICES ASSUME EngineInv PROVE Cardinality(jobs) <= MaxNumSeqs
    BY DEF WorkerWithinCapacity
  <2>1. JobsAfter(0) = jobs
    BY DEF JobsAfter, EngineInv, EngineTypeOK
  <2>2. 0 \in 0..Len(stdin)
    BY DEF EngineInv, WireTypeOK
  <2>. QED
    BY <2>1, <2>2 DEF EngineInv, PipeInv, LoadFits
<1>. QED
  BY <1>1, EngineInvHolds, PTL

\* No job of the worker is without a reader, unless its cancel is on the way.
THEOREM NobodyOrphaned == Spec => []NoOrphanJob
<1>1. EngineInv => NoOrphanJob
  <2>. SUFFICES ASSUME EngineInv, NEW j \in jobs
                PROVE  Attended(j) \/ InPipe("cancel", j)
    BY DEF NoOrphanJob, Attended, Writing, InPipe, Says
  <2>. QED
    BY DEF EngineInv, EngineTypeOK, PipeInv, Accounted
<1>. QED
  BY <1>1, EngineInvHolds, PTL

\* The engine keeps to the protocol of its admission queue: what is proved of the
\* queue for any callers holds in the engine.
THEOREM EngineUsesQueue == Spec => Admission!AdmissionSpec
<1>1. Init => Admission!AdmissionInit
  BY DEF Init
<1>2. EngineInv /\ [Next]_vars => [Admission!AdmissionNext]_(Admission!admissionVars)
  BY StepOfQueue DEF Admission!admissionVars, admissionVars
<1>. QED
  BY <1>1, <1>2, EngineInvHolds, PTL DEF Spec, Admission!AdmissionSpec

\* The same of the instance that has the queue's theorems.
LEMMA QueueSpecHolds == Spec => Queue!AdmissionSpec
<1>1. Init => Queue!AdmissionInit
  BY SameQueue DEF Init
<1>2. EngineInv /\ [Next]_vars => [Queue!AdmissionNext]_(Queue!admissionVars)
  BY StepOfQueue, SameQueue DEF Queue!admissionVars, admissionVars
<1>. QED
  BY <1>1, <1>2, EngineInvHolds, PTL DEF Spec, Queue!AdmissionSpec

\* In particular no job of the engine gets its slot ahead of one that was waiting
\* with a higher priority, or with the same priority for longer, whatever priorities
\* requests carry and whatever deaths, loads, cancellations and reports come between.
THEOREM NoJobOvertaken == Spec => Queue!NoOvertaking
  BY QueueSpecHolds, Queue!NobodyOvertaken, QueueAssumption, PTL

\* And to its jobs the engine is a semaphore of as many slots as the options of the
\* last load say (SlotSemaphore), for all that its counter lives through loads,
\* deaths and reports of other processes.
THEOREM EngineIsSemaphore == Spec => Queue!ImplementsSemaphore
  BY QueueSpecHolds, Queue!QueueIsSemaphore, QueueAssumption, PTL

=============================================================================
