------------------------------ MODULE ModelJobs ------------------------------
(***************************************************************************)
(* The background jobs of the server: pulls, conversions and imports       *)
(* (src/ExLlamaSharp.Server/Services/ModelJobsService.cs), and what the    *)
(* start of the server does with the jobs of a process that crashed        *)
(* (Data/DbInitializer.cs).                                                *)
(*                                                                         *)
(* A job is a row in the database, a token source in _running and a task   *)
(* that works through its Plan.  The row has up to three writers at a      *)
(* time: the task, the progress pulse of a pull, and CancelAsync.  Each    *)
(* reads the row, changes the entity and saves it, with awaits in between, *)
(* and EF writes the status only if it differs from the one it read.       *)
(*                                                                         *)
(* The save of a row may fail, and the process may crash at any point.     *)
(***************************************************************************)
EXTENDS Integers, Sequences

CONSTANTS
  Jobs,           \* the jobs, each created once
  Kinds,          \* the kinds of jobs: "pull", "quantize", "import"
  Calls,          \* the calls of CancelAsync, each used once
  MaxCrashes,     \* bound on crashes of the process
  MaxSaveErrors   \* bound on failing saves

ASSUME JobsAssumption ==
  /\ Kinds \subseteq {"pull", "quantize", "import"}
  /\ MaxCrashes \in Nat /\ MaxSaveErrors \in Nat

VARIABLES
  row,        \* the status in the database, "none" before the insert
  asking,     \* the jobs whose HTTP request is not yet answered
  running,    \* _running: the jobs whose token source can be found
  cancelled,  \* IsCancellationRequested of each token source
  task,       \* where the job's task is
  todo,       \* what is left of its Plan
  writes,     \* the status the task's UpdateStatusAsync is to write
  seen,       \* the status the task's UpdateStatusAsync read
  pulse,      \* where PulsePullProgressAsync is
  pulseSeen,  \* the status its UpdateStatusAsync read
  posts,      \* the webhook events sent for each job
  call,       \* where each CancelAsync is
  callSeen,   \* its job, and the status it read
  crashes, saveErrors,
  askedInTime,  \* history: cancelled before the work's last look at the token
  unsaved       \* history: the save of a job's last status failed

sourceVars == <<asking, running, cancelled>>
taskVars == <<task, todo, writes, seen>>
pulseVars == <<pulse, pulseSeen>>
callVars == <<call, callSeen>>
bounds == <<crashes, saveErrors>>
history == <<askedInTime, unsaved>>
vars == <<row, sourceVars, taskVars, pulseVars, posts, callVars, bounds, history>>

-----------------------------------------------------------------------------

\* What the task of each kind of job does that matters here: an "update" writes
\* "running" and does not look at the token, a "call" does, and a "pull" is a call
\* with a pulse beside it.
Plan(kind) ==
  <<"update">> \o
    CASE kind = "pull" -> <<"call", "update", "pull", "call">>
      [] kind = "quantize" -> <<"call", "update", "call", "update", "call">>
      [] kind = "import" -> <<"update", "update", "call", "update">>

AtStep(j, what) == task[j] = "step" /\ todo[j] # <<>> /\ Head(todo[j]) \in what

Done(j) == todo[j] = <<>>

Active == {"pending", "running"}
Terminal == {"completed", "failed", "cancelled"}
Statuses == {"none"} \cup Active \cup Terminal
Places == {"none", "inserted", "read", "save", "step", "pulling", "draining",
           "announce", "finally", "gone"}

\* Saving an entity writes the status if it is not the one that was read.
Saved(read, status, stored) == IF read = status THEN stored ELSE status

\* The task of job j goes on to write status s.
GoWrite(j, s) ==
  /\ task' = [task EXCEPT ![j] = "read"]
  /\ writes' = [writes EXCEPT ![j] = s]
  /\ UNCHANGED <<todo, seen>>

Init ==
  /\ row = [j \in Jobs |-> "none"]
  /\ asking = {} /\ running = {} /\ cancelled = {}
  /\ task = [j \in Jobs |-> "none"]
  /\ todo \in [Jobs -> {Plan(kind) : kind \in Kinds}]
  /\ writes = [j \in Jobs |-> "running"]
  /\ seen = [j \in Jobs |-> "none"]
  /\ pulse = [j \in Jobs |-> "off"]
  /\ pulseSeen = [j \in Jobs |-> "none"]
  /\ posts = [j \in Jobs |-> <<>>]
  /\ call = [c \in Calls |-> "new"]
  /\ callSeen \in [Calls -> [job : Jobs, status : {"none"}]]
  /\ crashes = 0 /\ saveErrors = 0
  /\ askedInTime = {} /\ unsaved = {}

-----------------------------------------------------------------------------
(* CreateAndRunAsync and the task it starts *)

\* The row is saved; other requests can see the job from here on.
Insert(j) ==
  /\ task[j] = "none"
  /\ row' = [row EXCEPT ![j] = "pending"]
  /\ task' = [task EXCEPT ![j] = "inserted"]
  /\ asking' = asking \cup {j}
  /\ UNCHANGED <<running, cancelled, todo, writes, seen, pulseVars, posts,
                 callVars, bounds, history>>

\* _running[id] = cts, and Task.Run.
Register(j) ==
  /\ task[j] = "inserted"
  /\ running' = running \cup {j}
  /\ task' = [task EXCEPT ![j] = "step"]
  /\ UNCHANGED <<row, asking, cancelled, todo, writes, seen, pulseVars, posts, callVars,
                 bounds, history>>

\* The HTTP request is answered; its token means nothing any more.
Answered(j) ==
  /\ j \in asking /\ task[j] # "inserted"
  /\ asking' = asking \ {j}
  /\ UNCHANGED <<row, running, cancelled, taskVars, pulseVars, posts, callVars, bounds,
                 history>>

\* The work has not yet looked at the token for the last time.
Looking(j) ==
  /\ task[j] \in {"inserted", "read", "save", "step", "pulling", "draining"}
  /\ writes[j] = "running"

\* The client goes away before the answer: the job's token is linked to the
\* request's, and is cancelled unless the task has disposed of it.
RequestAborts(j) ==
  /\ j \in asking /\ task[j] # "gone"
  /\ asking' = asking \ {j}
  /\ cancelled' = cancelled \cup {j}
  /\ askedInTime' = IF Looking(j) THEN askedInTime \cup {j} ELSE askedInTime
  /\ UNCHANGED <<row, running, taskVars, pulseVars, posts, callVars, bounds, unsaved>>

\* UpdateStatusAsync up to the row it finds.
ReadRow(j) ==
  /\ task[j] = "read"
  /\ seen' = [seen EXCEPT ![j] = row[j]]
  /\ task' = [task EXCEPT ![j] = "save"]
  /\ UNCHANGED <<row, sourceVars, todo, writes, pulseVars, posts, callVars,
                 bounds, history>>

\* Mutation of AfterSave: only completed jobs are announced.
AfterSaveQuiet(s) ==
  CASE s = "running" -> "step"
    [] s = "completed" -> "announce"
    [] s \in {"failed", "cancelled"} -> "finally"

\* Where the task goes on when a status is saved.
AfterSave(s) ==
  CASE s = "running" -> "step"
    [] s \in {"completed", "failed"} -> "announce"
    [] s = "cancelled" -> "finally"

\* SaveChangesAsync of UpdateStatusAsync.
SaveRow(j) ==
  /\ task[j] = "save"
  /\ row' = [row EXCEPT ![j] = Saved(seen[j], writes[j], @)]
  /\ task' = [task EXCEPT ![j] = AfterSave(writes[j])]
  /\ todo' = IF writes[j] = "running" THEN [todo EXCEPT ![j] = Tail(@)] ELSE todo
  /\ UNCHANGED <<sourceVars, writes, seen, pulseVars, posts, callVars,
                 bounds, history>>

\* A failing save is caught like any failure of the work, unless it is the save
\* of a catch block, which nothing catches.
SaveRowFails(j) ==
  /\ task[j] = "save" /\ saveErrors < MaxSaveErrors
  /\ saveErrors' = saveErrors + 1
  /\ \/ /\ writes[j] \in {"running", "completed"}
        /\ GoWrite(j, "failed")
        /\ UNCHANGED unsaved
     \/ /\ writes[j] \in {"failed", "cancelled"}
        /\ task' = [task EXCEPT ![j] = "finally"]
        /\ unsaved' = unsaved \cup {j}
        /\ UNCHANGED <<todo, writes, seen>>
  /\ UNCHANGED <<row, sourceVars, pulseVars, posts, callVars, crashes,
                 askedInTime>>

\* The webhook of UpdateStatusAsync; what becomes of it does not matter here.
Announce(j) ==
  /\ task[j] = "announce"
  /\ posts' = [posts EXCEPT ![j] = Append(@, writes[j])]
  /\ task' = [task EXCEPT ![j] = "finally"]
  /\ UNCHANGED <<row, sourceVars, todo, writes, seen, pulseVars, callVars,
                 bounds, history>>

\* Mutation of Finally: the token source stays in the dictionary.
FinallyForgets(j) ==
  /\ task[j] = "finally"
  /\ task' = [task EXCEPT ![j] = "gone"]
  /\ UNCHANGED <<row, sourceVars, todo, writes, seen, pulseVars, posts,
                 callVars, bounds, history>>

\* The finally block: the token source is removed and disposed.
Finally(j) ==
  /\ task[j] = "finally"
  /\ running' = running \ {j}
  /\ task' = [task EXCEPT ![j] = "gone"]
  /\ UNCHANGED <<row, asking, cancelled, todo, writes, seen, pulseVars, posts, callVars,
                 bounds, history>>

-----------------------------------------------------------------------------
(* The work *)

\* A call returns: a Python tool, the catalogue, the database or the disk.
CallReturns(j) ==
  /\ AtStep(j, {"call"}) /\ j \notin cancelled
  /\ todo' = [todo EXCEPT ![j] = Tail(@)]
  /\ UNCHANGED <<row, sourceVars, task, writes, seen, pulseVars, posts, callVars,
                 bounds, history>>

\* An update, or the start of a download and of its pulse.
NextStep(j) ==
  /\ \/ /\ AtStep(j, {"update"})
        /\ GoWrite(j, "running")
        /\ UNCHANGED pulse
     \/ /\ AtStep(j, {"pull"})
        /\ task' = [task EXCEPT ![j] = "pulling"]
        /\ pulse' = [pulse EXCEPT ![j] = "delay"]
        /\ UNCHANGED <<todo, writes, seen>>
  /\ UNCHANGED <<row, sourceVars, pulseSeen, posts, callVars, bounds, history>>

\* OperationCanceledException: a call or the download notices the token.
Interrupted(j) ==
  /\ j \in cancelled
  /\ \/ AtStep(j, {"call"}) /\ GoWrite(j, "cancelled")
     \/ /\ task[j] = "pulling"
        /\ task' = [task EXCEPT ![j] = "draining"]
        /\ writes' = [writes EXCEPT ![j] = "cancelled"]
        /\ UNCHANGED <<todo, seen>>
  /\ UNCHANGED <<row, sourceVars, pulseVars, posts, callVars, bounds, history>>

\* Any other exception of the work: a bad exit code, a missing folder, the network.
WorkFails(j) ==
  /\ \/ AtStep(j, {"call", "update"}) /\ GoWrite(j, "failed")
     \/ /\ task[j] = "pulling"
        /\ task' = [task EXCEPT ![j] = "draining"]
        /\ writes' = [writes EXCEPT ![j] = "failed"]
        /\ UNCHANGED <<todo, seen>>
  /\ UNCHANGED <<row, sourceVars, pulseVars, posts, callVars, bounds, history>>

\* The download is complete.
PullEnds(j) ==
  /\ task[j] = "pulling" /\ j \notin cancelled
  /\ task' = [task EXCEPT ![j] = "draining"]
  /\ UNCHANGED <<row, sourceVars, todo, writes, seen, pulseVars, posts,
                 callVars, bounds, history>>

\* Mutation of Drained: the pull goes on without waiting for its pulse.
DrainedAtOnce(j) ==
  /\ task[j] = "draining"
  /\ \/ writes[j] # "running" /\ GoWrite(j, writes[j])
     \/ /\ writes[j] = "running"
        /\ task' = [task EXCEPT ![j] = "step"]
        /\ todo' = [todo EXCEPT ![j] = Tail(@)]
        /\ UNCHANGED <<writes, seen>>
  /\ UNCHANGED <<row, sourceVars, pulseVars, posts, callVars, bounds, history>>

\* The finally of the download awaits the pulse; if that failed, so does the job.
Drained(j) ==
  /\ task[j] = "draining" /\ pulse[j] \in {"off", "failed"}
  /\ pulse' = [pulse EXCEPT ![j] = "off"]
  /\ \/ pulse[j] = "failed" /\ GoWrite(j, "failed")
     \/ pulse[j] = "off" /\ writes[j] # "running" /\ GoWrite(j, writes[j])
     \/ /\ pulse[j] = "off" /\ writes[j] = "running"
        /\ task' = [task EXCEPT ![j] = "step"]
        /\ todo' = [todo EXCEPT ![j] = Tail(@)]
        /\ UNCHANGED <<writes, seen>>
  /\ UNCHANGED <<row, sourceVars, pulseSeen, posts, callVars, bounds, history>>

\* Mutation of WorkReturns: the token is not looked at.
WorkReturnsBlind(j) ==
  /\ task[j] = "step" /\ Done(j)
  /\ GoWrite(j, "completed")
  /\ UNCHANGED <<row, sourceVars, pulseVars, posts, callVars, bounds, history>>

\* The work has returned: completed, unless the token was cancelled; then the
\* row stays as it is.
WorkReturns(j) ==
  /\ task[j] = "step" /\ Done(j)
  /\ \/ j \notin cancelled /\ GoWrite(j, "completed")
     \/ /\ j \in cancelled
        /\ task' = [task EXCEPT ![j] = "finally"]
        /\ UNCHANGED <<todo, writes, seen>>
  /\ UNCHANGED <<row, sourceVars, pulseVars, posts, callVars, bounds, history>>

-----------------------------------------------------------------------------
(* PulsePullProgressAsync, beside the download *)

PulseStopped(j) == task[j] # "pulling" \/ j \in cancelled

PulseTick(j) ==
  /\ pulse[j] = "delay"
  /\ pulse' = [pulse EXCEPT ![j] = IF PulseStopped(j) THEN "off" ELSE "read"]
  /\ UNCHANGED <<row, sourceVars, taskVars, pulseSeen, posts, callVars, bounds,
                 history>>

PulseReads(j) ==
  /\ pulse[j] = "read"
  /\ pulseSeen' = [pulseSeen EXCEPT ![j] = row[j]]
  /\ pulse' = [pulse EXCEPT ![j] = "save"]
  /\ UNCHANGED <<row, sourceVars, taskVars, posts, callVars, bounds, history>>

PulseSaves(j) ==
  /\ pulse[j] = "save"
  /\ \/ /\ row' = [row EXCEPT ![j] = Saved(pulseSeen[j], "running", @)]
        /\ pulse' = [pulse EXCEPT ![j] = "delay"]
        /\ UNCHANGED saveErrors
     \/ /\ saveErrors < MaxSaveErrors
        /\ saveErrors' = saveErrors + 1
        /\ pulse' = [pulse EXCEPT ![j] = "failed"]
        /\ UNCHANGED row
  /\ UNCHANGED <<sourceVars, taskVars, pulseSeen, posts, callVars, crashes,
                 history>>

-----------------------------------------------------------------------------
(* CancelAsync *)

\* TryGetValue: the call goes on with the source, or without.
FindSource(c) ==
  /\ call[c] = "new" /\ row[callSeen[c].job] # "none"
  /\ call' = [call EXCEPT ![c] = IF callSeen[c].job \in running THEN "found" ELSE "row"]
  /\ UNCHANGED <<row, sourceVars, taskVars, pulseVars, posts, callSeen, bounds,
                 history>>

\* cts.CancelAsync, which throws when the task has disposed of the source.
CancelSource(c) ==
  LET j == callSeen[c].job IN
  /\ call[c] = "found"
  /\ \/ /\ j \in running
        /\ cancelled' = cancelled \cup {j}
        /\ askedInTime' = IF Looking(j) THEN askedInTime \cup {j} ELSE askedInTime
        /\ call' = [call EXCEPT ![c] = "row"]
     \/ /\ j \notin running
        /\ call' = [call EXCEPT ![c] = "threw"]
        /\ UNCHANGED <<cancelled, askedInTime>>
  /\ UNCHANGED <<row, asking, running, taskVars, pulseVars, posts, callSeen, bounds,
                 unsaved>>

\* The row is read; false if its status is terminal.
CallReads(c) ==
  LET status == row[callSeen[c].job] IN
  /\ call[c] = "row"
  /\ callSeen' = [callSeen EXCEPT ![c].status = status]
  /\ call' = [call EXCEPT ![c] = IF status \in Terminal THEN "false" ELSE "save"]
  /\ UNCHANGED <<row, sourceVars, taskVars, pulseVars, posts, bounds, history>>

CallSaves(c) ==
  /\ call[c] = "save"
  /\ row' = [row EXCEPT ![callSeen[c].job] = Saved(callSeen[c].status, "cancelled", @)]
  /\ call' = [call EXCEPT ![c] = "true"]
  /\ UNCHANGED <<sourceVars, taskVars, pulseVars, posts, callSeen, bounds, history>>

\* The request that cancels is itself aborted, or its save fails.
CallAborts(c) ==
  /\ call[c] \in {"row", "save"}
  /\ call' = [call EXCEPT ![c] = "aborted"]
  /\ UNCHANGED <<row, sourceVars, taskVars, pulseVars, posts, callSeen, bounds,
                 history>>

-----------------------------------------------------------------------------
(* A crash, and the start of the next process *)

\* RecoverInterruptedJobsAsync.
Recovered(status) == IF status \in Active THEN "failed" ELSE status

Crash ==
  /\ crashes < MaxCrashes
  /\ crashes' = crashes + 1
  /\ row' = [j \in Jobs |-> Recovered(row[j])]
  /\ asking' = {} /\ running' = {}
  /\ task' = [j \in Jobs |-> IF task[j] = "none" THEN "none" ELSE "gone"]
  /\ pulse' = [j \in Jobs |-> "off"]
  /\ call' = [c \in Calls |-> IF call[c] \in {"found", "row", "save"} THEN "aborted"
                              ELSE call[c]]
  /\ UNCHANGED <<cancelled, todo, writes, seen, pulseSeen, posts, callSeen, saveErrors,
                 history>>

-----------------------------------------------------------------------------

\* What the task does by itself.
TaskStep(j) ==
  \/ Register(j) \/ ReadRow(j) \/ SaveRow(j) \/ Announce(j) \/ Finally(j)
  \/ NextStep(j) \/ Interrupted(j) \/ Drained(j) \/ WorkReturns(j)

\* What it waits for.
ToolReturns(j) == CallReturns(j) \/ PullEnds(j)

PulseStep(j) == PulseTick(j) \/ PulseReads(j) \/ PulseSaves(j)

CallStep(c) == FindSource(c) \/ CancelSource(c) \/ CallReads(c) \/ CallSaves(c)

Next ==
  \/ \E j \in Jobs : \/ Insert(j) \/ Answered(j) \/ RequestAborts(j)
                     \/ TaskStep(j) \/ ToolReturns(j) \/ PulseStep(j)
                     \/ SaveRowFails(j) \/ WorkFails(j)
  \/ \E c \in Calls : CallStep(c) \/ CallAborts(c)
  \/ Crash

Spec == Init /\ [][Next]_vars

\* Tasks and pulses are run by the thread pool.  Nothing makes a tool return: RunAsync
\* has no time limit.  A cancelled token kills it.
FairSpec ==
  /\ Spec
  /\ \A j \in Jobs : WF_vars(TaskStep(j)) /\ WF_vars(PulseStep(j))

-----------------------------------------------------------------------------
(* Properties *)

Events == {"completed", "failed"}

\* The state of the jobs is well formed.
JobsTypeOK ==
  /\ row \in [Jobs -> Statuses]
  /\ asking \subseteq Jobs /\ running \subseteq Jobs /\ cancelled \subseteq Jobs
  /\ task \in [Jobs -> Places]
  /\ todo \in [Jobs -> Seq({"update", "call", "pull"})]
  /\ writes \in [Jobs -> {"running"} \cup Terminal]
  /\ seen \in [Jobs -> Statuses]
  /\ pulse \in [Jobs -> {"off", "delay", "read", "save", "failed"}]
  /\ pulseSeen \in [Jobs -> Statuses]
  /\ posts \in [Jobs -> Seq(Events)]
  /\ call \in [Calls -> {"new", "found", "row", "save", "true", "false", "threw",
                         "aborted"}]
  /\ callSeen \in [Calls -> [job : Jobs, status : Statuses]]
  /\ crashes \in 0..MaxCrashes /\ saveErrors \in 0..MaxSaveErrors
  /\ askedInTime \subseteq Jobs /\ unsaved \subseteq Jobs

\* A CancelAsync has answered that it cancelled the job.
CancelTold(j) == \E c \in Calls : call[c] = "true" /\ callSeen[c].job = j

\* A job is announced at most once, as completed only when all its work is done.
\* When its task has ended by itself, a row that says "completed" or "failed" was
\* announced as that; and what was announced is what the row says from then on,
\* unless a CancelAsync that had read the row before overwrote it and answered that
\* the job is cancelled (ModelJobsService.cs:253-263, 422-444).
AnnouncedAsStored ==
  \A j \in Jobs :
    /\ Len(posts[j]) <= 1
    /\ posts[j] = <<"completed">> => Done(j)
    /\ task[j] = "gone" /\ crashes = 0 /\ row[j] \in Events => posts[j] = <<row[j]>>
    /\ posts[j] # <<>> =>
         posts[j] = <<row[j]>> \/ (row[j] = "cancelled" /\ CancelTold(j))

\* A job whose token is cancelled before the work looks at it for the last time is
\* never stored or announced as completed, although its work may go on to its end
\* (ModelJobsService.cs:281, 292-295).
CancelledInTime ==
  \A j \in askedInTime : row[j] # "completed" /\ posts[j] # <<"completed">>

\* A row is left "pending" or "running" by a task that is gone only if the job was
\* cancelled, or the save of its last status failed; a crash leaves no such row
\* (ModelJobsService.cs:281-305, DbInitializer.cs:44-63).
NoOrphanRow ==
  \A j \in Jobs :
    task[j] = "gone" /\ row[j] \in Active => j \in cancelled \/ j \in unsaved

\* A job that never stays for ever in a tool, except one its cancelled token kills,
\* ends: its task is gone, its token source is out of the dictionary, and its row is
\* terminal but for the two cases of NoOrphanRow.
JobsSettle ==
  \A j \in Jobs :
    []<>~((AtStep(j, {"call"}) \/ task[j] = "pulling") /\ j \notin cancelled)
      => (row[j] = "pending" ~> /\ task[j] = "gone" /\ j \notin running
                                /\ \/ row[j] \in Terminal
                                   \/ j \in cancelled \/ j \in unsaved)

=============================================================================
