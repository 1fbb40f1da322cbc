--------------------------- MODULE NativeScheduler ---------------------------
(***************************************************************************)
(* The continuous-batching scheduler of the native engine                  *)
(* (native/exllamasharp/src/scheduler.cpp) over its page table, with the   *)
(* stub's forward pass (engine.cpp).                                       *)
(*                                                                         *)
(* One scheduler thread runs step() in a loop; other threads submit and    *)
(* cancel.  The scheduler's mutex is held from the sweep of cancelled jobs *)
(* to the choice of the batch, and again while the batch's jobs are        *)
(* finished; the forward pass in between runs without it.  Each iteration  *)
(* of a loop of step() is an action: place says where in step() the thread *)
(* is, and submit and cancel happen only where it holds no mutex.          *)
(* start, stop, load and unload are left out, and so is a second thread    *)
(* that calls exl_engine_step beside the first.                            *)
(***************************************************************************)
EXTENDS PageTable, FiniteSetsExt

CONSTANTS
  Jobs,
  Kind,        \* a job's prompt (the contents of its full pages), tail (tokens
               \* after them), max_new_tokens and priority
  Cancellable, \* the jobs somebody may cancel
  PageSize, MaxNumSeqs, MaxChunkSize, MaxBatchedTokens,
  NoJob

PrefixesOf(prompt) == {SubSeq(prompt, 1, n) : n \in 1..Len(prompt)}

ASSUME SchedulerAssumption ==
  /\ IsFiniteSet(Jobs)
  /\ NoJob \notin Jobs
  /\ Cancellable \subseteq Jobs
  /\ {PageSize, MaxNumSeqs, MaxChunkSize, MaxBatchedTokens} \subseteq Nat \ {0}
  /\ \A j \in Jobs :
       /\ Kind[j].tail \in 0..(PageSize - 1)
       /\ Kind[j].new \in Nat \ {0}
       /\ Kind[j].priority \in Int
       /\ PrefixesOf(Kind[j].prompt) \subseteq Prefixes
       /\ Kind[j].prompt \in Seq(Range(Kind[j].prompt))

VARIABLES
  table,    \* page_table_
  status,   \* Job::status ("new": not submitted)
  wants,    \* the jobs with wants_cancel
  id,       \* Job::id
  nextId,   \* next_job_id_
  pages,    \* Job::page_ids
  computed, \* Job::num_computed_tokens
  outputs,  \* the length of Job::output_tokens
  waiting,  \* waiting_, cancelled jobs included
  running,  \* running_jobs_
  swapped,  \* swapped_
  finished, \* finished_count_
  place,    \* where the scheduler thread is in step()
  current,  \* the job that is being admitted
  depth,    \* pi, the prompt page that is looked up
  todo,     \* the jobs of the batch whose forward pass is still to come
  batch     \* the jobs of the batch, less those that finish has looked at

tokenVars == <<computed, outputs>>
queueVars == <<waiting, running, swapped>>
stepVars == <<place, current, depth, todo, batch>>
vars == <<table, status, wants, id, nextId, pages, tokenVars, queueVars, finished, stepVars>>

Terminal == {"Finished", "Cancelled"}
Statuses == {"new", "Waiting", "Running", "Swapped"} \cup Terminal
Places == {"idle", "sweep", "preempt", "readmit", "admit", "prefix", "choose",
           "forward", "finish"}

\* The scheduler's mutex is free.
Unlocked == place \in {"idle", "forward"}

PromptTokens(j) == Len(Kind[j].prompt) * PageSize + Kind[j].tail
Total(j) == PromptTokens(j) + outputs[j]
Remaining(j) == Kind[j].new - outputs[j]

\* JobPriorityLess, and the comparers of preempt_if_needed and
\* schedule_running_chunk: higher priority first, then the older job.
Before(a, b) ==
  \/ Kind[a].priority > Kind[b].priority
  \/ Kind[a].priority = Kind[b].priority /\ id[a] < id[b]

FirstOf(j, S) == j \in S /\ \A o \in S \ {j} : Before(j, o)
LastOf(j, S) == j \in S /\ \A o \in S \ {j} : Before(o, j)

CeilDiv(n, d) == (n + d - 1) \div d
AtLeastZero(n) == IF n > 0 THEN n ELSE 0
Least(S) == CHOOSE n \in S : \A m \in S : n <= m

PagesNeeded(j) ==
  AtLeastZero(CeilDiv(Total(j) + Remaining(j), PageSize) - Len(pages[j]))

Held(j) == Range(pages[j])

Init ==
  /\ table = NewTable
  /\ status = [j \in Jobs |-> "new"]
  /\ wants = {}
  /\ id = [j \in Jobs |-> 0] /\ nextId = 1
  /\ pages = [j \in Jobs |-> <<>>]
  /\ computed = [j \in Jobs |-> 0] /\ outputs = [j \in Jobs |-> 0]
  /\ waiting = {} /\ running = {} /\ swapped = <<>>
  /\ finished = 0
  /\ place = "idle" /\ current = NoJob /\ depth = 0 /\ todo = {} /\ batch = {}

-----------------------------------------------------------------------------
(* submit and cancel *)

Submit(j) ==
  /\ Unlocked /\ status[j] = "new"
  /\ status' = [status EXCEPT ![j] = "Waiting"]
  /\ id' = [id EXCEPT ![j] = nextId]
  /\ nextId' = nextId + 1
  /\ waiting' = waiting \cup {j}
  /\ UNCHANGED <<table, wants, pages, tokenVars, running, swapped, finished, stepVars>>

\* Mutation of End: the pages are forgotten and not given back.
EndLeaks(j, result) ==
  /\ status' = [status EXCEPT ![j] = result]
  /\ pages' = [pages EXCEPT ![j] = <<>>]
  /\ finished' = finished + 1
  /\ UNCHANGED table

\* A job that reaches its end gives its pages back and is erased.
End(j, result) ==
  /\ status' = [status EXCEPT ![j] = result]
  /\ table' = Free(table, Held(j))
  /\ pages' = [pages EXCEPT ![j] = <<>>]
  /\ finished' = finished + 1

\* A waiting job ends here, and stays in the heap until it comes to the top.
Cancel(j) ==
  /\ Unlocked
  /\ status[j] \notin Terminal \cup {"new"}
  /\ wants' = wants \cup {j}
  /\ IF status[j] = "Waiting"
       THEN End(j, "Cancelled")
       ELSE UNCHANGED <<status, table, pages, finished>>
  /\ UNCHANGED <<id, nextId, tokenVars, queueVars, stepVars>>

-----------------------------------------------------------------------------
(* step(), first part *)

\* A step that finds no job at all changes nothing.
Begin ==
  /\ place = "idle"
  /\ waiting # {} \/ running # {} \/ swapped # <<>>
  /\ place' = "sweep"
  /\ UNCHANGED <<table, status, wants, id, nextId, pages, tokenVars, queueVars, finished>>
  /\ UNCHANGED <<current, depth, todo, batch>>

\* Running jobs that were cancelled end.
Sweep ==
  /\ place = "sweep"
  /\ \/ \E j \in running \cap wants :
          /\ End(j, "Cancelled")
          /\ running' = running \ {j}
          /\ UNCHANGED place
     \/ /\ running \cap wants = {}
        /\ place' = "preempt"
        /\ UNCHANGED <<table, status, pages, running, finished>>
  /\ UNCHANGED <<wants, id, nextId, tokenVars, waiting, swapped, current, depth, todo, batch>>

MustPreempt == waiting # {} /\ table.free = {} /\ running # {}

\* Mutation of Preempt: the victim is swapped and runs on.
PreemptKeepsRunning ==
  /\ place = "preempt"
  /\ place' = "readmit"
  /\ IF MustPreempt
       THEN \E j \in running :
              /\ LastOf(j, running)
              /\ table' = Free(table, Held(j))
              /\ status' = [status EXCEPT ![j] = "Swapped"]
              /\ swapped' = Append(swapped, j)
              /\ pages' = [pages EXCEPT ![j] = <<>>]
              /\ UNCHANGED running
       ELSE UNCHANGED <<table, pages, status, running, swapped>>
  /\ UNCHANGED <<wants, id, nextId, tokenVars, waiting, finished, current, depth, todo, batch>>

\* Mutation of Preempt: the victim's pages stay its own.
PreemptKeepsPages ==
  /\ place = "preempt"
  /\ place' = "readmit"
  /\ IF MustPreempt
       THEN \E j \in running :
              /\ LastOf(j, running)
              /\ table' = Free(table, Held(j))
              /\ status' = [status EXCEPT ![j] = "Swapped"]
              /\ running' = running \ {j}
              /\ swapped' = Append(swapped, j)
              /\ UNCHANGED pages
       ELSE UNCHANGED <<table, pages, status, running, swapped>>
  /\ UNCHANGED <<wants, id, nextId, tokenVars, waiting, finished, current, depth, todo, batch>>

\* preempt_if_needed: the lowest running job gives all its pages up.
Preempt ==
  /\ place = "preempt"
  /\ place' = "readmit"
  /\ IF MustPreempt
       THEN \E j \in running :
              /\ LastOf(j, running)
              /\ table' = Free(table, Held(j))
              /\ pages' = [pages EXCEPT ![j] = <<>>]
              /\ status' = [status EXCEPT ![j] = "Swapped"]
              /\ running' = running \ {j}
              /\ swapped' = Append(swapped, j)
       ELSE UNCHANGED <<table, pages, status, running, swapped>>
  /\ UNCHANGED <<wants, id, nextId, tokenVars, waiting, finished, current, depth, todo, batch>>

Fits(j) == PagesNeeded(j) <= Cardinality(table.free)

\* Mutation of TakePages: one page too few.
TakeTooFew(j) ==
  LET new == Pick(table, AtLeastZero(PagesNeeded(j) - 1)) IN
    /\ table' = Allocate(table, Range(new))
    /\ pages' = [pages EXCEPT ![j] = @ \o new]

\* What allocate(pages_needed_for(j)) adds to the job's pages.
TakePages(j) ==
  LET new == Pick(table, PagesNeeded(j)) IN
    /\ table' = Allocate(table, Range(new))
    /\ pages' = [pages EXCEPT ![j] = @ \o new]

HasRoom == Cardinality(running) < MaxNumSeqs

\* admit_from_waiting, first loop: swapped jobs return in the order they left.
Readmit ==
  /\ place = "readmit"
  /\ IF swapped # <<>> /\ HasRoom /\ Fits(Head(swapped))
       THEN /\ TakePages(Head(swapped))
            /\ status' = [status EXCEPT ![Head(swapped)] = "Running"]
            /\ running' = running \cup {Head(swapped)}
            /\ swapped' = Tail(swapped)
            /\ UNCHANGED place
       ELSE /\ place' = "admit"
            /\ UNCHANGED <<table, pages, status, running, swapped>>
  /\ UNCHANGED <<wants, id, nextId, tokenVars, waiting, finished, current, depth, todo, batch>>

\* Second loop: the top of the heap leaves it, cancelled, or with pages; or it
\* stays, and nobody behind it is looked at.
AdmitCancelled(j) ==
  /\ waiting' = waiting \ {j}
  /\ UNCHANGED <<table, pages, current, depth, place>>

AdmitTop(j) ==
  /\ waiting' = waiting \ {j}
  /\ TakePages(j)
  /\ current' = j /\ depth' = 0
  /\ place' = "prefix"

AdmitEnds ==
  /\ place' = "choose"
  /\ UNCHANGED <<table, pages, waiting, current, depth>>

Admit ==
  /\ place = "admit"
  /\ \/ waiting = {} /\ AdmitEnds
     \/ waiting # {} /\ ~HasRoom /\ AdmitEnds
     \/ /\ HasRoom
        /\ \E j \in waiting :
             /\ FirstOf(j, waiting)
             /\ \/ j \in wants /\ AdmitCancelled(j)
                \/ j \notin wants /\ Fits(j) /\ AdmitTop(j)
                \/ j \notin wants /\ ~Fits(j) /\ AdmitEnds
  /\ UNCHANGED <<status, wants, id, nextId, tokenVars, running, swapped, finished, todo, batch>>

-----------------------------------------------------------------------------
(* The prefix loop of the admission *)

Prompt == Kind[current].prompt
LookupDone == depth >= Len(Prompt) \/ depth >= Len(pages[current])

\* Mutation of ReusePage: the fresh page is kept besides.
ReusePageLeaks(d, cached) ==
  /\ table' = AddHolder(table, cached)
  /\ pages' = [pages EXCEPT ![current][d] = cached]
  /\ computed' = [computed EXCEPT ![current] =
                    IF @ > d * PageSize THEN @ ELSE d * PageSize]

\* The fresh page is given back and the cached one takes its place.
ReusePage(d, cached) ==
  /\ table' = AddHolder(Free(table, {pages[current][d]}), cached)
  /\ pages' = [pages EXCEPT ![current][d] = cached]
  /\ computed' = [computed EXCEPT ![current] =
                    IF @ > d * PageSize THEN @ ELSE d * PageSize]

PrefixStep ==
  LET d == depth + 1
      h == SubSeq(Prompt, 1, d) IN
  /\ place = "prefix" /\ ~LookupDone
  /\ depth' = d
  /\ \/ Hit(table, h) /\ ReusePage(d, table.index[h])
     \/ /\ ~Hit(table, h)
        /\ table' = SetPrefixHash(table, pages[current][d], h)
        /\ UNCHANGED <<pages, computed>>
  /\ UNCHANGED <<status, wants, id, nextId, outputs, queueVars, finished, place, current, todo, batch>>

Admitted ==
  /\ place = "prefix" /\ LookupDone
  /\ status' = [status EXCEPT ![current] = "Running"]
  /\ running' = running \cup {current}
  /\ current' = NoJob /\ depth' = 0
  /\ place' = "admit"
  /\ UNCHANGED <<table, wants, id, nextId, pages, tokenVars, waiting, swapped, finished, todo, batch>>

-----------------------------------------------------------------------------
(* The batch, the forward pass and the end of the step *)

\* What schedule_running_chunk takes for a job from an unlimited budget.
Take(j) ==
  IF computed[j] < Total(j) THEN Least({Total(j) - computed[j], MaxChunkSize})
  ELSE IF Remaining(j) > 0 THEN 1 ELSE 0

\* In priority order, every job with something to do as long as tokens are left.
InBatch(j) ==
  /\ Take(j) > 0
  /\ SumFunctionOnSet([o \in Jobs |-> Take(o)],
                      {o \in running \ wants : Before(o, j)}) < MaxBatchedTokens

ChooseBatch ==
  /\ place = "choose"
  /\ batch' = {j \in running \ wants : InBatch(j)}
  /\ todo' = batch'
  /\ place' = "forward"
  /\ UNCHANGED <<table, status, wants, id, nextId, pages, tokenVars, queueVars, finished>>
  /\ UNCHANGED <<current, depth>>

\* The tokens of a job after its turn: a chunk of the prompt, then a token.
Advanced(j) ==
  IF computed[j] < Total(j)
    THEN computed[j] + Least({MaxChunkSize, Total(j) - computed[j]})
    ELSE computed[j]

Generates(j) == Advanced(j) >= Total(j) /\ Remaining(j) > 0

\* The pages a job lacks after its new token, as far as there are any.
Growth(j) ==
  Least({AtLeastZero(CeilDiv(Total(j) + 1, PageSize) - Len(pages[j])),
         Cardinality(table.free)})

\* One job of forward_and_sample.  wants_cancel is read without the mutex: a
\* cancel of this moment is seen or not.
Forward(j) ==
  /\ place = "forward" /\ FirstOf(j, todo)
  /\ todo' = todo \ {j}
  /\ \/ /\ j \in wants
        /\ UNCHANGED <<table, pages, tokenVars>>
     \/ /\ computed' = [computed EXCEPT ![j] =
                          Advanced(j) + IF Generates(j) THEN 1 ELSE 0]
        /\ outputs' = [outputs EXCEPT ![j] = @ + IF Generates(j) THEN 1 ELSE 0]
        /\ LET new == Pick(table, IF Generates(j) THEN Growth(j) ELSE 0) IN
             /\ table' = Allocate(table, Range(new))
             /\ pages' = [pages EXCEPT ![j] = @ \o new]
  /\ UNCHANGED <<status, wants, id, nextId, queueVars, finished, place, current, depth, batch>>

\* The mutex is taken again.
ForwardDone ==
  /\ place = "forward" /\ todo = {}
  /\ place' = "finish"
  /\ UNCHANGED <<table, status, wants, id, nextId, pages, tokenVars, queueVars, finished>>
  /\ UNCHANGED <<current, depth, todo, batch>>

\* Mutation of Result: the wish to cancel is looked at last.
ResultBeforeCancel(j, stop) ==
  IF Remaining(j) <= 0 \/ stop THEN "Finished"
  ELSE IF j \in wants THEN "Cancelled"
  ELSE status[j]

\* finish_or_continue.  Whether the last token is the stop token is left open.
Result(j, stop) ==
  IF j \in wants THEN "Cancelled"
  ELSE IF Remaining(j) <= 0 \/ stop THEN "Finished"
  ELSE status[j]

Finish(j) ==
  /\ place = "finish" /\ FirstOf(j, batch)
  /\ batch' = batch \ {j}
  /\ \E stop \in {FALSE, outputs[j] > 0} :
       IF Result(j, stop) \in Terminal
         THEN End(j, Result(j, stop)) /\ running' = running \ {j}
         ELSE UNCHANGED <<status, table, pages, finished, running>>
  /\ UNCHANGED <<wants, id, nextId, tokenVars, waiting, swapped, place, current, depth, todo>>

FinishDone ==
  /\ place = "finish" /\ batch = {}
  /\ place' = "idle"
  /\ UNCHANGED <<table, status, wants, id, nextId, pages, tokenVars, queueVars, finished>>
  /\ UNCHANGED <<current, depth, todo, batch>>

-----------------------------------------------------------------------------

Step ==
  \/ Begin \/ Sweep \/ Preempt \/ Readmit \/ Admit \/ PrefixStep \/ Admitted
  \/ ChooseBatch \/ (\E j \in Jobs : Forward(j)) \/ ForwardDone
  \/ (\E j \in Jobs : Finish(j)) \/ FinishDone

Next ==
  \/ \E j \in Jobs : Submit(j)
  \/ \E j \in Cancellable : Cancel(j)
  \/ Step

Spec == Init /\ [][Next]_vars

\* The scheduler thread keeps taking steps.
FairSpec == Spec /\ WF_vars(Step)

-----------------------------------------------------------------------------
(* Properties *)

\* The state is well formed, and every job is in the queue its status names.
SchedulerTypeOK ==
  /\ table \in Tables
  /\ status \in [Jobs -> Statuses]
  /\ wants \subseteq Cancellable
  /\ place \in Places
  /\ running = {j \in Jobs : status[j] = "Running"}
  /\ {j \in Jobs : status[j] = "Waiting"} \ {current} \subseteq waiting
  /\ Range(swapped) = {j \in Jobs : status[j] = "Swapped"}
  /\ Cardinality(running) <= MaxNumSeqs
  /\ finished = Cardinality({j \in Jobs : status[j] \in Terminal})

Holders(p) == {j \in Jobs : p \in Held(j)}

\* Pages are neither leaked nor freed under a holder: a page's count is the
\* number of jobs that hold it, whether they got it from allocate, from the
\* prefix cache or in place of a page they gave back, and it is on the free
\* list exactly when nobody does.
CountsAreHolders ==
  \A p \in Pages :
    /\ table.ref[p] = Cardinality(Holders(p))
    /\ p \in table.free <=> Holders(p) = {}

\* Jobs share a page only where their prompts agree up to its end, so that
\* nothing one of them writes behind its prompt reaches the other.
SharedPagesAgree ==
  \A a, b \in Jobs :
    \A m \in DOMAIN pages[a], n \in DOMAIN pages[b] :
      pages[a][m] = pages[b][n] =>
        /\ m = n
        /\ a # b => /\ m <= Len(Kind[a].prompt) /\ m <= Len(Kind[b].prompt)
                    /\ SubSeq(Kind[a].prompt, 1, m) = SubSeq(Kind[b].prompt, 1, m)

\* The cache never leads to a page that was given back or has other contents.
IndexIsValid ==
  \A h \in Prefixes :
    table.index[h] # NoPage =>
      table.index[h] \notin table.free /\ table.hash[table.index[h]] = h

\* Running jobs have every page their last token can need, and only they (and
\* the job being admitted) have pages: a preempted job has given all of them up.
PagesCoverTokens ==
  \A j \in Jobs :
    IF status[j] = "Running" \/ j = current
      THEN Len(pages[j]) * PageSize >= PromptTokens(j) + Kind[j].new
      ELSE pages[j] = <<>>

\* A job that was cancelled before it ended does not finish.
CancelWins ==
  [][\A j \in wants : status[j] # "Finished" => status'[j] # "Finished"]_vars

\* Every job comes to an end, through preemption and the return from it, if
\* each fits into the table.
JobsEnd ==
  \A j \in Jobs : status[j] = "Waiting" ~> status[j] \in Terminal

=============================================================================
