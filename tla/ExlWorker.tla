------------------------------ MODULE ExlWorker ------------------------------
(***************************************************************************)
(* The EXL3 Python worker process (tools/exl3_worker/worker.py): one       *)
(* serve loop that drains the commands on its standard input, advances the *)
(* ExLlamaV3 generator, and writes event batches, statistics and replies   *)
(* to its standard output.                                                 *)
(*                                                                         *)
(* The generator is a library.  It keeps the jobs it was given in a queue, *)
(* starts some of them when cache pages allow, and reports the end of each *)
(* (active and queued).  Tokens and adapters are abstracted away: of an    *)
(* event only the end of a stream, with or without an error, is kept, and  *)
(* the {ok: true} answers to submit and cancel, which the client ignores,  *)
(* are not written.  stdin is the pipe together with _INBOX, so the loop   *)
(* may miss a line that was written a moment ago.                          *)
(***************************************************************************)
EXTENDS Integers, FiniteSets, Sequences

CONSTANTS
  Requests,    \* the ids of submitted jobs
  PipeBound    \* bound of the model: lines the output pipe holds

ASSUME WorkerAssumption ==
  /\ IsFiniteSet(Requests)
  /\ PipeBound \in Nat \ {0}

VARIABLES
  up,      \* the process runs
  stdin,   \* commands not yet handled
  stdout,  \* lines not yet read by the host
  model,   \* STATE.loaded: a generator exists
  batch,   \* the generator's max_batch_size (0: there is no generator)
  jobs,    \* STATE.jobs
  active,  \* the generator's active jobs
  queued   \* the generator's pending jobs

modelVars == <<model, batch>>
generatorVars == <<active, queued>>
workerVars == <<up, stdin, stdout, model, batch, jobs, active, queued>>

NoReport == [Seen |-> FALSE, Pending |-> 0, MaxBatchSize |-> 0]
NoReply == [to |-> 0, ok |-> FALSE]

\* _stats(), for a generator with the pending jobs q.
Report(q) == [Seen |-> TRUE, Pending |-> Cardinality(q), MaxBatchSize |-> batch]

\* A line of output: the streams it ends, normally or with an error, the
\* statistics it carries and the control request it answers.
Batch(ends, fails, q) ==
  [ends |-> ends, fails |-> fails, stats |-> Report(q), reply |-> NoReply]
JobError(j) ==
  [ends |-> {}, fails |-> {j}, stats |-> NoReport, reply |-> NoReply]
Answer(id, ok) ==
  [ends |-> {}, fails |-> {}, stats |-> NoReport, reply |-> [to |-> id, ok |-> ok]]

Remaining == active \cup queued

\* The command at the head of the input, and room for the answer.
Receives(c) == up /\ stdin # <<>> /\ Head(stdin).cmd = c /\ stdin' = Tail(stdin)
Emit(line) == Len(stdout) < PipeBound /\ stdout' = Append(stdout, line)

-----------------------------------------------------------------------------
(* Life of the process *)

WorkerInit ==
  /\ up = FALSE
  /\ stdin = <<>> /\ stdout = <<>>
  /\ model = FALSE /\ batch = 0
  /\ jobs = {} /\ active = {} /\ queued = {}

\* A fresh process: no model, no jobs, empty pipes.
Boot ==
  /\ up' = TRUE
  /\ stdin' = <<>> /\ stdout' = <<>>
  /\ model' = FALSE /\ batch' = 0
  /\ jobs' = {} /\ active' = {} /\ queued' = {}

\* The process ends.  What it has written can still be read.
Exit ==
  /\ up' = FALSE
  /\ stdin' = <<>>
  /\ model' = FALSE /\ batch' = 0
  /\ jobs' = {} /\ active' = {} /\ queued' = {}
  /\ UNCHANGED stdout

Crash == up /\ Exit

-----------------------------------------------------------------------------
(* handle() *)

\* "submit": without a model an error reply; otherwise _enqueue, which may
\* reject the prompt before it registers the job, or after, when
\* generator.enqueue raises.  A rejection is a stream event with statistics.
HandleSubmit ==
  LET j == Head(stdin).job IN
  /\ Receives("submit")
  /\ UNCHANGED <<up, modelVars, active>>
  /\ \/ /\ ~model
        /\ Emit(JobError(j))
        /\ UNCHANGED <<jobs, queued>>
     \/ /\ model
        /\ jobs' = jobs \cup {j}
        /\ queued' = queued \cup {j}
        /\ UNCHANGED stdout
     \/ /\ model
        /\ jobs' \in {jobs, jobs \cup {j}}
        /\ Emit(Batch({}, {j}, queued))
        /\ UNCHANGED queued

\* "cancel": _cancel_job takes the job out of the tables and then out of the
\* generator, where it stays when generator.cancel raises.  The reply carries no
\* statistics.
HandleCancel ==
  LET j == Head(stdin).job IN
  /\ Receives("cancel")
  /\ jobs' = jobs \ {j}
  /\ \/ /\ active' = active \ (jobs \cap {j})
        /\ queued' = queued \ (jobs \cap {j})
     \/ UNCHANGED generatorVars
  /\ UNCHANGED <<up, stdout, modelVars>>

\* _unload: the jobs are forgotten, and their streams are told nothing.
Unload ==
  /\ jobs' = {} /\ active' = {} /\ queued' = {}

\* "load": a request that is refused as it stands leaves everything as it was;
\* otherwise _load first unloads, and then succeeds or fails.
HandleLoad ==
  /\ Receives("load")
  /\ \/ /\ Emit(Answer(Head(stdin).id, FALSE))
        /\ UNCHANGED <<modelVars, jobs, generatorVars>>
     \/ /\ Unload
        /\ \E ok \in BOOLEAN :
             /\ model' = ok
             /\ batch' = IF ok THEN Head(stdin).batch ELSE 0
             /\ Emit(Answer(Head(stdin).id, ok))
  /\ UNCHANGED up

HandleUnload ==
  /\ Receives("unload")
  /\ Unload
  /\ model' = FALSE /\ batch' = 0
  /\ Emit(Answer(Head(stdin).id, TRUE))
  /\ UNCHANGED up

Handle == HandleSubmit \/ HandleCancel \/ HandleLoad \/ HandleUnload

-----------------------------------------------------------------------------
(* serve(): the generator's turn *)

\* Mutation of Iterate: a started job also stays in the pending queue.
IterateKeepsPending(start, fin) ==
  /\ up /\ Remaining # {}
  /\ start \subseteq queued
  /\ Cardinality(active \cup start) <= batch
  /\ fin \subseteq active \cup start
  /\ active' = (active \cup start) \ fin
  /\ jobs' = jobs \ fin
  /\ Emit(Batch(fin, {}, queued))
  /\ UNCHANGED <<up, stdin, modelVars, queued>>

\* generator.iterate and _emit_batch: the jobs of start become active, those of
\* fin end (by themselves or at a stop marker), and one line goes out, an
\* empty batch when nothing ended.
Iterate(start, fin) ==
  /\ up /\ Remaining # {}
  /\ start \subseteq queued
  /\ Cardinality(active \cup start) <= batch
  /\ fin \subseteq active \cup start
  /\ active' = (active \cup start) \ fin
  /\ queued' = queued \ start
  /\ jobs' = jobs \ fin
  /\ Emit(Batch(fin, {}, queued \ start))
  /\ UNCHANGED <<up, stdin, modelVars>>

\* _fail_all_jobs: iterate raised, or jobs were queued for 15 seconds and none
\* was active.
FailAllJobs ==
  /\ up /\ Remaining # {}
  /\ IF jobs = {} THEN UNCHANGED stdout ELSE Emit(Batch({}, jobs, {}))
  /\ jobs' = {} /\ active' = {} /\ queued' = {}
  /\ UNCHANGED <<up, stdin, modelVars>>

Serve ==
  \/ \E start \in SUBSET queued, fin \in SUBSET Remaining : Iterate(start, fin)
  \/ FailAllJobs

-----------------------------------------------------------------------------
(* What the generator does sooner or later when it has jobs: it starts one *)
(* or ends one (max_new_tokens is finite, and a queue that never starts is *)
(* failed after 15 seconds).                                               *)

Progress ==
  \E start \in SUBSET queued, fin \in SUBSET Remaining :
    start \cup fin # {} /\ Iterate(start, fin)

=============================================================================
