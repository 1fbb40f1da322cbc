----------------------------- MODULE JsonlClient -----------------------------
(***************************************************************************)
(* The host's end of the worker pipes                                      *)
(* (src/ExLlamaSharp/Engine/Worker/WorkerJsonlClient.cs): starting the     *)
(* process, writing commands, and the pump that reads the output and       *)
(* hands every event to the stream, every reply to the request, and every  *)
(* failure to all of them.                                                 *)
(*                                                                         *)
(* A writer is a thread in WriteAsync or SendControlAsync: a job's thread, *)
(* the host's control thread, or a Cancel(jobId) that does not wait for    *)
(* its line.  Every write first makes sure that a process runs, starting   *)
(* one when there is none: this is where a worker comes back without the   *)
(* model the host believes it has.  The check and the start are one action *)
(* (EnsureStarted); that two threads pass the check together and start a   *)
(* process each is left out.                                               *)
(*                                                                         *)
(* FailAll and Stop take no lock that registration takes.  FailAll walks   *)
(* _pending, clears it, walks _streams and clears that; what is registered *)
(* between a walk and its Clear is removed and told nothing ("lost").      *)
(***************************************************************************)
EXTENDS ExlWorker

CONSTANTS
  Host,       \* the thread that loads and unloads the model
  Caller,     \* the line that a Cancel(jobId) writes behind its back
  Recycles,   \* whether loads may change CUDA_VISIBLE_DEVICES
  MaxSpawns   \* bound of the model: processes started

Writers == Requests \cup {Host, Caller}

ASSUME ClientAssumption ==
  /\ Host \notin Requests /\ Caller \notin Requests /\ Host # Caller
  /\ Recycles \in BOOLEAN
  /\ MaxSpawns \in Nat

VARIABLES
  inc,      \* the number of the current process (0: none was started)
  devices,  \* it was started for other devices than the options now name
  pumped,   \* a pump reads the current process's output
  stale,    \* pumps of earlier processes that have not yet seen the end
  sweeps,   \* FailAlls of pumps under way: before the streams, before the end
  at,       \* where each writer is
  cmd,      \* the command each writer is writing
  target,   \* the job of the Caller's cancel
  startedBy,\* the process each writer is waiting for in the handshake, 0: none
  chan,     \* each job's stream: its channel and its entry in _streams
  ctl,      \* the number of the last control request
  reply     \* its TaskCompletionSource and its entry in _pending

processVars == <<inc, devices, pumped, stale, sweeps>>
writerVars == <<at, cmd, target, startedBy>>
clientVars == <<processVars, writerVars, chan, ctl, reply>>

\* "open" is in _streams; the others are not: "eos" and "failed" ended with an
\* event, "broken" was completed by FailAll, "closed" by CloseStream, and "lost"
\* was removed by a FailAll that had already walked the streams.
ChanStates == {"none", "open", "eos", "failed", "broken", "closed", "lost"}
ReplyStates == {"none", "wait", "ok", "error", "broken", "lost"}

IsAlive == up

-----------------------------------------------------------------------------
(* Streams *)

OpenStream(j) == chan' = [chan EXCEPT ![j] = "open"]

CloseStream(j) == chan' = [chan EXCEPT ![j] = IF @ = "open" THEN "closed" ELSE @]

\* DispatchEvent, for each of a line's final events: an event whose stream is
\* gone is dropped.
Dispatch(line) ==
  chan' = [j \in Requests |->
             CASE chan[j] = "open" /\ j \in line.fails -> "failed"
               [] chan[j] = "open" /\ j \in line.ends -> "eos"
               [] OTHER -> chan[j]]

-----------------------------------------------------------------------------
(* FailAll, in three steps *)

\* The walk of _pending: the control request that waits is failed.
FailPending == reply' = IF reply = "wait" THEN "broken" ELSE reply

\* A request registered since then is removed, failed only if the walk, which
\* may or may not see what is added to the dictionary under it, came upon it.
ClearPending == reply' \in IF reply = "wait" THEN {"broken", "lost"} ELSE {reply}

\* The walk of _streams, which fails every open one.
FailStreams == chan' = [j \in Requests |-> IF chan[j] = "open" THEN "broken" ELSE chan[j]]

\* A stream opened since then is removed, failed only if the walk came upon it.
ClearStreams ==
  \E missed \in SUBSET {j \in Requests : chan[j] = "open"} :
    chan' = [j \in Requests |->
               CASE j \in missed -> "lost"
                 [] chan[j] = "open" /\ j \notin missed -> "broken"
                 [] OTHER -> chan[j]]

\* _pending.Clear and the walk of _streams.
FailAllMiddle == ClearPending /\ FailStreams

-----------------------------------------------------------------------------
(* Stop *)

\* Mutation of AfterFailedWrite: a failed cancel skips the release.
AfterFailedWriteLeaks(t) ==
  CASE t = Host -> "failed"
    [] t = Caller -> "idle"
    [] t \in Requests -> IF cmd[t] = "submit" THEN "closing" ELSE "done"

\* Where a writer continues when its write fails.
AfterFailedWrite(t) ==
  CASE t = Host -> "failed"
    [] t = Caller -> "idle"
    [] t \in Requests -> IF cmd[t] = "submit" THEN "closing" ELSE "release"

\* Stop() up to its FailAll's first walk.  The pump that was started last is
\* told to end; it may end at once or still fail everyone first.  The process no
\* longer counts as started for any devices.
StopBegins ==
  /\ LET pumps == stale + IF pumped THEN 1 ELSE 0 IN
       stale' \in {n \in {pumps - 1, pumps} : n >= 0}
  /\ pumped' = FALSE
  /\ devices' \in {FALSE, Recycles}
  /\ FailPending

StopFailsStreams(t) ==
  /\ at[t] = "stop1"
  /\ FailAllMiddle
  /\ at' = [at EXCEPT ![t] = "stop2"]
  /\ UNCHANGED <<workerVars, processVars, cmd, target, startedBy, ctl>>

StopClearsStreams(t) ==
  /\ at[t] = "stop2"
  /\ ClearStreams
  /\ at' = [at EXCEPT ![t] = "kill"]
  /\ UNCHANGED <<workerVars, processVars, cmd, target, startedBy, ctl, reply>>

\* The rest of Stop: whatever process is current by now is dropped and killed.
\* The writer fails, or starts another process when it stopped this one for that.
Kill(t) ==
  /\ at[t] = "kill"
  /\ Exit
  /\ at' = [at EXCEPT ![t] = IF startedBy[t] = 0 THEN "ensure" ELSE AfterFailedWrite(t)]
  /\ startedBy' = [startedBy EXCEPT ![t] = 0]
  /\ UNCHANGED <<processVars, cmd, target, chan, ctl, reply>>

StopStep(t) == StopFailsStreams(t) \/ StopClearsStreams(t) \/ Kill(t)

-----------------------------------------------------------------------------
(* EnsureStartedAsync, and the writes behind it *)

\* A control request makes sure of the process before it registers its
\* completion source, and once more before it writes.
AfterEnsure(t) == IF t = Host /\ reply = "none" THEN "register" ELSE "write"

\* A live process is used, if it was started for the devices the options name.
UseProcess(t) ==
  /\ at[t] = "ensure"
  /\ IsAlive /\ ~devices
  /\ at' = [at EXCEPT ![t] = AfterEnsure(t)]
  /\ UNCHANGED <<workerVars, processVars, cmd, target, startedBy, chan, ctl, reply>>

\* Otherwise it is stopped first.
Recycle(t) ==
  /\ at[t] = "ensure"
  /\ IsAlive /\ devices
  /\ StopBegins
  /\ at' = [at EXCEPT ![t] = "stop1"]
  /\ startedBy' = [startedBy EXCEPT ![t] = 0]
  /\ UNCHANGED <<workerVars, inc, sweeps, cmd, target, chan, ctl>>

\* Without a process one is started, and the writer waits for its ready line.  A
\* pump that still reads the previous process stays behind.
StartProcess(t) ==
  /\ at[t] = "ensure"
  /\ ~IsAlive /\ inc < MaxSpawns
  /\ Boot
  /\ inc' = inc + 1
  /\ devices' = FALSE
  /\ startedBy' = [startedBy EXCEPT ![t] = inc + 1]
  /\ stale' = IF pumped THEN stale + 1 ELSE stale
  /\ pumped' = FALSE
  /\ at' = [at EXCEPT ![t] = "handshake"]
  /\ UNCHANGED <<sweeps, cmd, target, chan, ctl, reply>>

EnsureStarted(t) == UseProcess(t) \/ Recycle(t) \/ StartProcess(t)

\* The ready line arrives and the pump starts.
Handshake(t) ==
  /\ at[t] = "handshake" /\ startedBy[t] = inc /\ up
  /\ pumped' = TRUE
  /\ at' = [at EXCEPT ![t] = AfterEnsure(t)]
  /\ startedBy' = [startedBy EXCEPT ![t] = 0]
  /\ UNCHANGED <<workerVars, inc, devices, stale, sweeps>>
  /\ UNCHANGED <<cmd, target, chan, ctl, reply>>

\* The output of the process it started ends before a ready line: the writer
\* stops whatever process is current by now.
HandshakeFails(t) ==
  /\ at[t] = "handshake"
  /\ ~up \/ startedBy[t] # inc
  /\ StopBegins
  /\ at' = [at EXCEPT ![t] = "stop1"]
  /\ UNCHANGED <<workerVars, inc, sweeps, cmd, target, startedBy, chan, ctl>>

\* The writer's token is cancelled while it waits for the ready line: the
\* process lives on, and no pump will read its output.
HandshakeCancelled(t) ==
  /\ at[t] = "handshake"
  /\ at' = [at EXCEPT ![t] = AfterFailedWrite(t)]
  /\ startedBy' = [startedBy EXCEPT ![t] = 0]
  /\ UNCHANGED <<workerVars, processVars, cmd, target, chan, ctl, reply>>

\* SendControlAsync's entry in _pending.  LoadAsync has made sure of the process
\* before, so SendControlAsync, finding it dead by now, starts another one first.
Register(t) ==
  /\ at[t] = "register"
  /\ \/ /\ reply' = "wait"
        /\ at' = [at EXCEPT ![t] = "ensure"]
     \/ /\ ~IsAlive /\ cmd[t] = "load"
        /\ at' = [at EXCEPT ![t] = "ensure"]
        /\ UNCHANGED reply
  /\ UNCHANGED <<workerVars, processVars, cmd, target, startedBy, chan, ctl>>

\* The line a writer writes; a load asks for a batch of n.
Command(t, n) ==
  [cmd |-> cmd[t], job |-> IF t = Caller THEN target ELSE t, id |-> ctl, batch |-> n]

\* Where a writer continues when its line is written.
AfterWrite(t) ==
  CASE t = Host -> "waiting"
    [] t = Caller -> "idle"
    [] t \in Requests -> IF cmd[t] = "submit" THEN "reading" ELSE "release"

\* Under the write lock: the process is looked at again, and the line written.
Write(t, n) ==
  /\ at[t] = "write"
  /\ \/ /\ up
        /\ stdin' = Append(stdin, Command(t, n))
        /\ at' = [at EXCEPT ![t] = AfterWrite(t)]
     \/ /\ ~up
        /\ at' = [at EXCEPT ![t] = AfterFailedWrite(t)]
        /\ UNCHANGED stdin
  /\ UNCHANGED <<up, stdout, modelVars, jobs, generatorVars>>
  /\ UNCHANGED <<processVars, cmd, target, startedBy, chan, ctl, reply>>

\* WaitAsync on the write lock throws when the writer's token is cancelled.  (A
\* token cancelled with the line half written is as if it were cancelled after.)
WriteCancelled(t) ==
  /\ at[t] = "write"
  /\ at' = [at EXCEPT ![t] = AfterFailedWrite(t)]
  /\ UNCHANGED <<workerVars, processVars, cmd, target, startedBy, chan, ctl, reply>>

-----------------------------------------------------------------------------
(* PumpAsync *)

\* One line, except what its statistics do (see WorkerEngine): final events go
\* to their streams, a reply to the request that waits for it.
PumpLine ==
  /\ pumped /\ stdout # <<>>
  /\ stdout' = Tail(stdout)
  /\ Dispatch(Head(stdout))
  /\ reply' = IF Head(stdout).reply.to = ctl /\ reply = "wait"
                THEN IF Head(stdout).reply.ok THEN "ok" ELSE "error"
                ELSE reply
  /\ UNCHANGED <<up, stdin, modelVars, jobs, generatorVars>>
  /\ UNCHANGED <<processVars, writerVars, ctl>>

\* Mutation of PumpFails: the pump ends without a FailAll.
PumpEndsQuietly ==
  /\ pumped /\ ~up
  /\ pumped' = FALSE
  /\ UNCHANGED <<workerVars, inc, devices, stale, sweeps, writerVars, chan, ctl, reply>>

\* The pump finds that the process has exited, or the end of its output, and
\* begins a FailAll.
PumpFails ==
  /\ pumped /\ ~up
  /\ FailPending
  /\ pumped' = FALSE
  /\ sweeps' = [sweeps EXCEPT !.streams = @ + 1]
  /\ UNCHANGED <<workerVars, inc, devices, stale, writerVars, chan, ctl>>

\* So does a pump of an earlier process; the streams it fails may by now
\* belong to the current one.
StalePumpFails ==
  /\ stale > 0
  /\ FailPending
  /\ stale' = stale - 1
  /\ sweeps' = [sweeps EXCEPT !.streams = @ + 1]
  /\ UNCHANGED <<workerVars, inc, devices, pumped, writerVars, chan, ctl>>

\* The other two steps of a pump's FailAll.
SweepFailsStreams ==
  /\ sweeps.streams > 0
  /\ FailAllMiddle
  /\ sweeps' = [streams |-> sweeps.streams - 1, end |-> sweeps.end + 1]
  /\ UNCHANGED <<workerVars, inc, devices, pumped, stale, writerVars, ctl>>

SweepClearsStreams ==
  /\ sweeps.end > 0
  /\ ClearStreams
  /\ sweeps' = [sweeps EXCEPT !.end = @ - 1]
  /\ UNCHANGED <<workerVars, inc, devices, pumped, stale, writerVars, ctl, reply>>

PumpEnds == PumpFails \/ StalePumpFails
Sweep == SweepFailsStreams \/ SweepClearsStreams

ClientInit ==
  /\ WorkerInit
  /\ inc = 0 /\ devices = FALSE /\ pumped = FALSE /\ stale = 0
  /\ sweeps = [streams |-> 0, end |-> 0]
  /\ at = [t \in Writers |-> "idle"]
  /\ cmd = [t \in Writers |-> IF t = Caller THEN "cancel" ELSE "none"]
  /\ target = Caller
  /\ startedBy = [t \in Writers |-> 0]
  /\ chan = [j \in Requests |-> "none"]
  /\ ctl = 0 /\ reply = "none"

=============================================================================
