---------------------------- MODULE WorkerEngine ----------------------------
(***************************************************************************)
(* The EXL3 worker engine (src/ExLlamaSharp/Engine/ExLlamaV3WorkerEngine.cs) *)
(* composed of its admission queue, its JSONL client and the Python worker *)
(* it drives.                                                              *)
(*                                                                         *)
(* Every job is one SubmitStreamAsync: take a slot, open a stream, write   *)
(* the submit, read events until the last one, and then, however it came   *)
(* to that, close the stream, write a cancel and give the slot back.  The  *)
(* control thread loads and unloads the model, with options that may       *)
(* change from load to load; the process may die at any moment.            *)
(***************************************************************************)
EXTENDS JsonlClient

CONSTANTS
  Settings,    \* the values options give to MaxNumSeqs
  MaxNumSeqs,  \* the highest of them
  Priorities,  \* the priorities of requests
  Cancellable, \* the jobs whose client may go away; Host: loads may be given up
  Cancels,     \* the jobs that Cancel(jobId) may be called for
  MaxCrashes,  \* bound of the model: deaths of the process
  MaxControls  \* bound of the model: loads and unloads

ASSUME EngineAssumption ==
  /\ Settings \subseteq Int /\ MaxNumSeqs \in Nat \ {0}
  /\ \A n \in Settings : n <= MaxNumSeqs
  /\ Priorities \subseteq Int
  /\ Cancellable \subseteq Requests \cup {Host}
  /\ Cancels \subseteq Requests
  /\ MaxCrashes \in Nat
  /\ MaxControls \in Nat

VARIABLES
  loaded,   \* _loaded
  running,  \* _running
  token,    \* the jobs, or the Host, whose cancellation token is cancelled
  unheard,  \* history: those whose command went where nobody hears the answer
  crashes,  \* deaths so far
  waiters, seq, inFlight, stats, maxSeqs, slot, ticket  \* see WorkerAdmission

Admission == INSTANCE WorkerAdmission
               WITH Pendings <- 0..Cardinality(Requests),
                    BatchSizes <- 0..MaxNumSeqs

admissionVars == <<waiters, seq, inFlight, stats, maxSeqs, slot, ticket>>
engineVars == <<loaded, running, token, unheard, crashes>>
vars == <<workerVars, clientVars, engineVars, admissionVars>>

Goto(t, place) == at' = [at EXCEPT ![t] = place]

\* What a step of a thread leaves alone when it only moves on.
UnchangedClient == UNCHANGED <<processVars, target, startedBy, ctl, reply>>

Init ==
  /\ ClientInit
  /\ Admission!AdmissionInit
  /\ loaded = FALSE /\ running = FALSE
  /\ token = {} /\ unheard = {} /\ crashes = 0

-----------------------------------------------------------------------------
(* SubmitStreamAsync *)

\* The checks at the entry, and AdmitAsync up to its await.
Submit(j) ==
  /\ at[j] = "idle"
  /\ loaded /\ running
  /\ \E p \in Priorities : Admission!AdmitAsync(j, p)
  /\ Goto(j, "admitting")
  /\ UNCHANGED <<workerVars, engineVars, cmd, chan>> /\ UnchangedClient

\* The slot is there: a stream is opened and the submit is to be written.
Admitted(j) ==
  /\ at[j] = "admitting" /\ slot[j] = "held"
  /\ OpenStream(j)
  /\ Goto(j, "ensure")
  /\ cmd' = [cmd EXCEPT ![j] = "submit"]
  /\ UNCHANGED <<workerVars, engineVars, admissionVars>> /\ UnchangedClient

\* AdmitAsync throws: there is neither a stream nor a slot to give back.
NotAdmitted(j) ==
  /\ at[j] = "admitting"
  /\ Admission!CatchCancelled(j)
  /\ Goto(j, "done")
  /\ UNCHANGED <<workerVars, engineVars, cmd, chan>> /\ UnchangedClient

\* The reader leaves the loop: at the stream's last event, when the channel is
\* completed under it, or when its token is cancelled.  A stream that was lost
\* has neither.
ReadEnd(j) ==
  /\ at[j] = "reading"
  /\ chan[j] \in {"eos", "failed", "broken"} \/ j \in token
  /\ Goto(j, "closing")
  /\ UNCHANGED <<workerVars, engineVars, admissionVars, cmd, chan>> /\ UnchangedClient

\* Its own filter found a stop marker, or its consumer stopped enumerating.
LeaveStream(j) ==
  /\ at[j] = "reading" /\ j \in Cancellable
  /\ Goto(j, "closing")
  /\ UNCHANGED <<workerVars, engineVars, admissionVars, cmd, chan>> /\ UnchangedClient

\* Mutation of CloseAndCancel: no cancel is written.
CloseOnly(j) ==
  /\ at[j] = "closing"
  /\ CloseStream(j)
  /\ Goto(j, "release")
  /\ UNCHANGED <<workerVars, engineVars, admissionVars, cmd>> /\ UnchangedClient

\* Mutation of CloseAndCancel: the slot is given back before the cancel is
\* written.
ReleaseThenCancel(j) ==
  /\ at[j] = "closing"
  /\ CloseStream(j)
  /\ cmd' = [cmd EXCEPT ![j] = "cancel"]
  /\ Goto(j, "ensure")
  /\ Admission!Release(j)
  /\ UNCHANGED <<workerVars, engineVars>> /\ UnchangedClient

\* The finally block: the stream is closed and a cancel is to be written, with
\* a token that is never cancelled.
CloseAndCancel(j) ==
  /\ at[j] = "closing"
  /\ CloseStream(j)
  /\ cmd' = [cmd EXCEPT ![j] = "cancel"]
  /\ Goto(j, "ensure")
  /\ UNCHANGED <<workerVars, engineVars, admissionVars>> /\ UnchangedClient

\* Mutation of ReleaseSlot: the slot is kept.
ForgetRelease(j) ==
  /\ at[j] = "release"
  /\ Goto(j, "done")
  /\ UNCHANGED <<workerVars, engineVars, admissionVars, cmd, chan>> /\ UnchangedClient

\* The end of the finally block.
ReleaseSlot(j) ==
  /\ at[j] = "release"
  /\ Admission!Release(j)
  /\ Goto(j, "done")
  /\ UNCHANGED <<workerVars, engineVars, cmd, chan>> /\ UnchangedClient

-----------------------------------------------------------------------------
(* Cancellation *)

\* The token of a job that has begun is cancelled, also under its AdmitAsync.
CancelToken(j) ==
  /\ j \notin token /\ at[j] \notin {"idle", "done"}
  /\ token' = token \cup {j}
  /\ IF slot[j] = "waiting"
       THEN Admission!CancelToken(j)
       ELSE UNCHANGED admissionVars

\* The client goes away, or its request times out.
CancelJob(j) ==
  /\ j \in Cancellable
  /\ CancelToken(j)
  /\ UNCHANGED <<workerVars, clientVars, loaded, running, unheard, crashes>>

\* Cancel(jobId): the token first.
Cancel(j) ==
  /\ j \in Cancels /\ at[Caller] = "idle"
  /\ CancelToken(j)
  /\ Goto(Caller, "lookup")
  /\ target' = j
  /\ UNCHANGED <<workerVars, loaded, running, unheard, crashes>>
  /\ UNCHANGED <<processVars, cmd, startedBy, chan, ctl, reply>>

\* Then, if the job has a stream, a cancel line of its own.
LookUp ==
  /\ at[Caller] = "lookup"
  /\ Goto(Caller, IF cmd[target] = "submit" THEN "ensure" ELSE "idle")
  /\ UNCHANGED <<workerVars, engineVars, admissionVars, cmd, chan>> /\ UnchangedClient

\* The caller of a load or unload gives up, or its time is over.
CancelControl ==
  /\ Host \in Cancellable \ token
  /\ at[Host] \notin {"idle", "failed"}
  /\ token' = token \cup {Host}
  /\ UNCHANGED <<workerVars, clientVars, admissionVars, loaded, running, unheard, crashes>>

-----------------------------------------------------------------------------
(* What nobody will answer *)

\* Nobody reads the process's output, and nobody is about to.
Deaf == up /\ ~pumped /\ \A h \in Writers : at[h] = "handshake" => startedBy[h] # inc

Listening == {t \in Writers : at[t] \in {"reading", "waiting"}}

\* A writer that hears no more: its stream or request was removed by a FailAll
\* that did not see it; its line went to a process without a pump; the start it
\* counted on was cancelled; or its job was dropped by a load or unload.
Lost(t) ==
  \/ t \in unheard
  \/ t \in Requests /\ chan[t] = "lost"
  \/ t = Host /\ reply = "lost"

\* Requests of the HTTP interface and queued loads have a time limit, which
\* cancels the token.  (A restart by the watchdog has none, and is not meant.)
TimeOut(t) ==
  /\ at[t] = "reading" \/ (at[t] = "waiting" /\ cmd[t] = "load")
  /\ Lost(t) /\ t \notin token
  /\ token' = token \cup {t}
  /\ UNCHANGED <<workerVars, clientVars, admissionVars, loaded, running, unheard, crashes>>

-----------------------------------------------------------------------------
(* LoadAsync and Start, UnloadAsync, GetMetrics *)

StartControl(c) ==
  /\ at[Host] = "idle" /\ ctl < MaxControls
  /\ ctl' = ctl + 1
  /\ cmd' = [cmd EXCEPT ![Host] = c]
  /\ reply' = "none"
  /\ Goto(Host, "ensure")
  /\ UNCHANGED <<workerVars, engineVars, inc, pumped, stale, sweeps>>
  /\ UNCHANGED <<target, startedBy, chan>>

\* A load comes with options of its own.
Load ==
  /\ ~loaded
  /\ StartControl("load")
  /\ \E n \in Settings : Admission!SetOptions(n)
  /\ devices' \in {devices, Recycles /\ IsAlive}

\* UnloadAsync, after Stop(); a dead worker is only forgotten.
UnloadModel ==
  /\ loaded /\ ~running
  /\ \/ /\ IsAlive
        /\ StartControl("unload")
        /\ UNCHANGED <<devices, admissionVars>>
     \/ /\ ~IsAlive /\ at[Host] = "idle"
        /\ loaded' = FALSE
        /\ UNCHANGED <<workerVars, clientVars, admissionVars>>
        /\ UNCHANGED <<running, token, unheard, crashes>>

\* Stop(): no further job is let in.
StopEngine ==
  /\ running /\ at[Host] = "idle"
  /\ running' = FALSE
  /\ UNCHANGED <<workerVars, clientVars, admissionVars, loaded, token, unheard, crashes>>

\* The reply, or the failure, of the control request arrives, or its token is
\* cancelled.  A failed unload is swallowed.
ControlDone ==
  /\ \/ at[Host] = "waiting" /\ (reply \in {"ok", "error", "broken"} \/ Host \in token)
     \/ at[Host] = "failed"
  /\ LET ok == at[Host] = "waiting" /\ reply = "ok" IN
       /\ loaded' = (cmd[Host] = "load" /\ ok)
       /\ running' = (cmd[Host] = "load" /\ ok)
  /\ Goto(Host, "idle")
  /\ token' = token \ {Host} /\ unheard' = unheard \ {Host}
  /\ UNCHANGED <<workerVars, admissionVars, crashes, cmd, chan>> /\ UnchangedClient

\* GetMetrics, called by the watchdog, /health and the dashboard: it throws,
\* and unloads, when the process of a loaded model is gone.
GetMetrics ==
  /\ loaded /\ ~IsAlive
  /\ loaded' = FALSE /\ running' = FALSE
  /\ UNCHANGED <<workerVars, clientVars, admissionVars, token, unheard, crashes>>

-----------------------------------------------------------------------------
(* Steps of the client and of the worker *)

\* The payload of a load is made from the options.
BatchAsked == Admission!AtLeast(1, maxSeqs)

\* A write is made with the token of its job or load, a cancel's with none.
Withdrawn(t) == t \in token /\ cmd[t] # "cancel"

WriteStep(t) ==
  /\ IF Withdrawn(t) THEN WriteCancelled(t) ELSE Write(t, BatchAsked)
  /\ unheard' = IF Deaf THEN unheard \cup (Listening' \ Listening) ELSE unheard

ClientStep(t) ==
  /\ \/ /\ EnsureStarted(t) \/ Handshake(t) \/ HandshakeFails(t) \/ StopStep(t) \/ Register(t)
        /\ UNCHANGED unheard
     \/ WriteStep(t)
  /\ UNCHANGED <<loaded, running, token, crashes, admissionVars>>

\* The start that others may count on is given up.
StartCancelled(t) ==
  /\ Withdrawn(t)
  /\ HandshakeCancelled(t)
  /\ unheard' = unheard \cup Listening
  /\ UNCHANGED <<loaded, running, token, crashes, admissionVars>>

\* A line is read: its statistics reach the admission queue first.
PumpStep ==
  /\ PumpLine
  /\ IF Head(stdout).stats.Seen
       THEN Admission!OnStats(Head(stdout).stats)
       ELSE UNCHANGED admissionVars
  /\ UNCHANGED engineVars

PumpFailure ==
  /\ PumpEnds
  /\ UNCHANGED <<engineVars, admissionVars>>

SweepStep ==
  /\ Sweep
  /\ UNCHANGED <<engineVars, admissionVars>>

\* Jobs that a load or unload drops end without a word.
HandleStep ==
  /\ Handle
  /\ unheard' = IF Head(stdin).cmd \in {"load", "unload"}
                  THEN unheard \cup (jobs \ jobs')
                  ELSE unheard
  /\ UNCHANGED <<clientVars, loaded, running, token, crashes, admissionVars>>

ServeStep(A) ==
  /\ A
  /\ UNCHANGED <<clientVars, engineVars, admissionVars>>

Die ==
  /\ crashes < MaxCrashes
  /\ Crash
  /\ crashes' = crashes + 1
  /\ UNCHANGED <<clientVars, loaded, running, token, unheard, admissionVars>>

JobStep(j) ==
  \/ Admitted(j) \/ NotAdmitted(j)
  \/ ReadEnd(j) \/ CloseAndCancel(j) \/ ReleaseSlot(j)

Next ==
  \/ \E j \in Requests :
       Submit(j) \/ JobStep(j) \/ LeaveStream(j) \/ CancelJob(j) \/ Cancel(j)
  \/ LookUp \/ CancelControl
  \/ \E t \in Writers : ClientStep(t) \/ StartCancelled(t) \/ TimeOut(t)
  \/ Load \/ StopEngine \/ UnloadModel \/ ControlDone \/ GetMetrics
  \/ PumpStep \/ PumpFailure \/ SweepStep
  \/ HandleStep \/ ServeStep(Serve) \/ Die

Spec == Init /\ [][Next]_vars

\* What the threads of the host do when nobody submits, cancels or calls, the
\* pump's reading apart.
HostStep ==
  \/ \E j \in Requests : JobStep(j)
  \/ \E t \in Writers : ClientStep(t) \/ TimeOut(t)
  \/ ControlDone \/ PumpFailure \/ SweepStep

\* The host does not stop while a thread of its has something to do: each has
\* finitely many such steps left, so that none is left behind.  Nor do the pump
\* and the worker's loop stop, and the generator starts and ends jobs even though
\* input and a full pipe interrupt it.  The time limits of requests and loads
\* are counted on only where an answer is lost.  Nothing makes clients submit or
\* cancel, or the process die.
Fairness ==
  /\ WF_vars(HostStep) /\ WF_vars(PumpStep) /\ WF_vars(HandleStep)
  /\ SF_vars(ServeStep(Progress))

FairSpec == Spec /\ Fairness

-----------------------------------------------------------------------------
(* Properties *)

EngineTypeOK ==
  /\ Admission!AdmissionTypeOK
  /\ chan \in [Requests -> ChanStates] /\ reply \in ReplyStates
  /\ jobs \subseteq Requests
  /\ active \subseteq Requests /\ queued \subseteq Requests
  /\ active \cap queued = {}
  /\ Len(stdout) <= PipeBound /\ batch \in 0..MaxNumSeqs
  /\ token \subseteq Writers /\ unheard \subseteq Writers

\* The admission queue stays consistent in its environment: a slot is held
\* exactly while a job is between its admission and the end of its finally
\* block, so a slot is neither leaked nor released twice on any error path.
SlotsFollowJobs ==
  /\ inFlight = Cardinality(Admission!Holders)
  /\ \A j \in Requests :
       /\ slot[j] = "held" => at[j] \notin {"idle", "done"}
       /\ at[j] \notin {"idle", "admitting", "done"} => slot[j] = "held"

\* The worker never has more jobs than slots were ever configured: the cancel of
\* a finished job is in the pipe before its slot is given to the next one, and
\* the pipe keeps the order (ExLlamaV3WorkerEngine.cs:304-324).
WorkerWithinCapacity == Cardinality(jobs) <= MaxNumSeqs

\* No job runs on without a reader: whatever the worker still has belongs to a
\* stream somebody reads, or its cancel is on the way.
NoOrphanJob ==
  \A j \in jobs :
    \/ at[j] \in {"reading", "closing", "ensure", "handshake", "write",
                 "stop1", "stop2", "kill"}
    \/ \E i \in 1..Len(stdin) : stdin[i].cmd = "cancel" /\ stdin[i].job = j

\* "Watchdog / health rely on this throwing when the Python worker died": when
\* the model is gone with its process, GetMetrics throws, as long as the host
\* takes the model for loaded and is not unloading it.
DeathIsReported ==
  loaded /\ at[Host] = "idle" => model \/ ~IsAlive

\* Every stream that is read ends, and with it the request: by an event, a failure
\* or a cancellation, without any time limit unless the answer was lost in one of
\* the four ways that Lost names.
StreamsEnd ==
  \A j \in Requests : at[j] = "reading" ~> at[j] = "done"

\* Nobody who does not go away waits for a slot forever, provided that the last
\* report is not left at two or more pending jobs: a generator whose jobs are all
\* cancelled is idle and reports nothing more, and CanAdmitLocked then refuses
\* every request.
WaitersServed ==
  []<>(stats.Pending <= 1)
    => \A j \in Requests \ Cancellable : slot[j] = "waiting" ~> slot[j] # "waiting"

\* A load that was begun comes to an end, after its time limit when its answer is
\* lost; so does an unload, unless its answer is lost: it has no limit.
ControlsEnd ==
  at[Host] # "idle" ~> at[Host] = "idle" \/ (cmd[Host] = "unload" /\ Lost(Host))

=============================================================================
