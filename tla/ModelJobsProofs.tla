--------------------------- MODULE ModelJobsProofs ---------------------------
(***************************************************************************)
(* Proofs for ModelJobs, for any jobs, kinds, calls, crashes and failing   *)
(* saves.                                                                  *)
(***************************************************************************)
EXTENDS ModelJobs, TLAPS

\* The places after the task's last save.
Ending == {"announce", "finally", "gone"}

\* A job that is not inserted has no row and nobody cancels it; an update and a
\* download are steps of the plan; the pulse lives only while the download does,
\* or is awaited.
InOrder ==
  /\ \A j \in Jobs :
       /\ task[j] = "none" => row[j] = "none"
       /\ task[j] \in {"read", "save"} /\ writes[j] = "running" => ~Done(j)
       /\ task[j] \in {"pulling", "draining"} => ~Done(j)
       /\ pulse[j] # "off" => task[j] \in {"pulling", "draining"}
  /\ \A c \in Calls : call[c] # "new" => task[callSeen[c].job] # "none"

\* "completed" and "failed" are stored by the task's last save only, which has
\* not read them; "completed" is written only when all work is done, and never
\* for a job that was cancelled in time.
LastWrite ==
  /\ askedInTime \subseteq cancelled
  /\ \A j \in Jobs :
       /\ row[j] \in Events => task[j] \in Ending
       /\ task[j] = "save" => seen[j] \notin Events
       /\ row[j] = "completed" => writes[j] = "completed"
       /\ writes[j] = "completed" => Done(j) /\ j \notin askedInTime
       /\ writes[j] = "cancelled" => j \in cancelled

\* What is announced is what was written, and is written before it is announced.
Announced ==
  \A j \in Jobs :
    /\ task[j] \notin {"finally", "gone"} => posts[j] = <<>>
    /\ posts[j] # <<>> => posts[j] = <<writes[j]>> /\ writes[j] \in Events
    /\ task[j] = "announce" => writes[j] \in Events
    /\ task[j] \in {"announce", "finally"} /\ row[j] \in Events => row[j] = writes[j]
    /\ task[j] = "finally" /\ row[j] \in Events => posts[j] = <<row[j]>>
    /\ task[j] = "gone" /\ crashes = 0 /\ row[j] \in Events => posts[j] = <<row[j]>>

\* A job that has come to its end has an active row only if it was cancelled or
\* its last save failed.
Settled ==
  \A j \in Jobs :
    task[j] \in Ending /\ row[j] \in Active => j \in cancelled \/ j \in unsaved

JobsInv == JobsTypeOK /\ InOrder /\ LastWrite /\ Announced /\ Settled

-----------------------------------------------------------------------------
(* What the assignments of the actions produce *)

\* What is left of a plan after a step.
LEMMA TailType ==
  ASSUME NEW S, NEW s \in Seq(S), s # <<>>
  PROVE  Tail(s) \in Seq(S)
  OBVIOUS

\* A step of the plan is done.
LEMMA Stepped ==
  ASSUME JobsTypeOK, NEW j \in Jobs, ~Done(j)
  PROVE  [todo EXCEPT ![j] = Tail(@)] \in [Jobs -> Seq({"update", "call", "pull"})]
  BY TailType DEF JobsTypeOK, Done

\* A call goes on.
LEMMA Called ==
  ASSUME JobsTypeOK, NEW c \in Calls,
         NEW p \in {"new", "found", "row", "save", "true", "false", "threw", "aborted"}
  PROVE  [call EXCEPT ![c] = p]
           \in [Calls -> {"new", "found", "row", "save", "true", "false", "threw",
                          "aborted"}]
  BY DEF JobsTypeOK

\* A call has read the row.
LEMMA CallSeen ==
  ASSUME JobsTypeOK, NEW c \in Calls, NEW s \in Statuses
  PROVE  [callSeen EXCEPT ![c].status = s] \in [Calls -> [job : Jobs, status : Statuses]]
  BY DEF JobsTypeOK

\* A status to write is chosen before the task has come to its end.
LEMMA WritesLast ==
  ASSUME JobsInv, NEW j \in Jobs, NEW s \in {"running"} \cup Terminal,
         NEW p \in {"read", "draining"}, task[j] \notin Ending,
         task' = [task EXCEPT ![j] = p], writes' = [writes EXCEPT ![j] = s],
         s = "completed" => Done(j) /\ j \notin askedInTime,
         s = "cancelled" => j \in cancelled,
         UNCHANGED <<row, todo, seen, cancelled, askedInTime>>
  PROVE  LastWrite'
<1>1. ASSUME NEW x \in Jobs
      PROVE  /\ row'[x] \in Events => task'[x] \in Ending
             /\ task'[x] = "save" => seen'[x] \notin Events
  BY <1>1 DEF JobsInv, JobsTypeOK, LastWrite, Ending
<1>2. ASSUME NEW x \in Jobs
      PROVE  row'[x] = "completed" => writes'[x] = "completed"
  BY <1>2 DEF JobsInv, JobsTypeOK, LastWrite, Ending, Events
<1>3. ASSUME NEW x \in Jobs
      PROVE  /\ writes'[x] = "completed" => Done(x)' /\ x \notin askedInTime'
             /\ writes'[x] = "cancelled" => x \in cancelled'
  BY <1>3 DEF JobsInv, JobsTypeOK, LastWrite, Done
<1>. QED
  BY <1>1, <1>2, <1>3 DEF LastWrite, JobsInv

-----------------------------------------------------------------------------
(* Every action preserves the invariant *)

\* The row is inserted.
LEMMA InsertInv ==
  ASSUME JobsInv, NEW j \in Jobs, Insert(j)
  PROVE  JobsInv'
<1>1. JobsTypeOK' /\ InOrder'
  BY JobsAssumption DEF JobsInv, JobsTypeOK, InOrder, Done, Statuses, Active,
       Terminal, Places, Events, Insert, sourceVars, taskVars, pulseVars,
       callVars, bounds, history
<1>2. LastWrite' /\ Announced' /\ Settled'
  BY DEF JobsInv, JobsTypeOK, InOrder, LastWrite, Announced, Settled, Done,
       Ending, Events, Active, Terminal, Insert, sourceVars, taskVars, pulseVars,
       callVars, bounds, history
<1>. QED
  BY <1>1, <1>2 DEF JobsInv

\* The task starts.
LEMMA RegisterInv ==
  ASSUME JobsInv, NEW j \in Jobs, Register(j)
  PROVE  JobsInv'
<1>1. JobsTypeOK' /\ InOrder'
  BY JobsAssumption DEF JobsInv, JobsTypeOK, InOrder, Done, Statuses, Active,
       Terminal, Places, Events, Register, sourceVars, taskVars, pulseVars,
       callVars, bounds, history
<1>2. LastWrite' /\ Announced' /\ Settled'
  BY DEF JobsInv, JobsTypeOK, InOrder, LastWrite, Announced, Settled, Done,
       Ending, Events, Active, Terminal, Register, sourceVars, taskVars,
       pulseVars, callVars, bounds, history
<1>. QED
  BY <1>1, <1>2 DEF JobsInv

\* The request is answered.
LEMMA AnsweredInv ==
  ASSUME JobsInv, NEW j \in Jobs, Answered(j)
  PROVE  JobsInv'
<1>1. JobsTypeOK' /\ InOrder'
  BY JobsAssumption DEF JobsInv, JobsTypeOK, InOrder, Done, Statuses, Active,
       Terminal, Places, Events, Answered, sourceVars, taskVars, pulseVars,
       callVars, bounds, history
<1>2. LastWrite' /\ Announced' /\ Settled'
  BY DEF JobsInv, JobsTypeOK, InOrder, LastWrite, Announced, Settled, Done,
       Ending, Events, Active, Terminal, Answered, sourceVars, taskVars,
       pulseVars, callVars, bounds, history
<1>. QED
  BY <1>1, <1>2 DEF JobsInv

\* The request is aborted: a job may be cancelled in time.
LEMMA RequestAbortsInv ==
  ASSUME JobsInv, NEW j \in Jobs, RequestAborts(j)
  PROVE  JobsInv'
<1>1. JobsTypeOK' /\ InOrder'
  BY JobsAssumption DEF JobsInv, JobsTypeOK, InOrder, Done, Statuses, Active,
       Terminal, Places, Events, RequestAborts, Looking, sourceVars, taskVars,
       pulseVars, callVars, bounds, history
<1>2. LastWrite' /\ Announced' /\ Settled'
  BY DEF JobsInv, JobsTypeOK, InOrder, LastWrite, Announced, Settled, Done,
       Ending, Events, Active, Terminal, RequestAborts, Looking, sourceVars,
       taskVars, pulseVars, callVars, bounds, history
<1>. QED
  BY <1>1, <1>2 DEF JobsInv

\* The task reads its row.
LEMMA ReadRowInv ==
  ASSUME JobsInv, NEW j \in Jobs, ReadRow(j)
  PROVE  JobsInv'
<1>1. JobsTypeOK' /\ InOrder'
  BY JobsAssumption DEF JobsInv, JobsTypeOK, InOrder, Done, Statuses, Active,
       Terminal, Places, Events, ReadRow, sourceVars, taskVars, pulseVars,
       callVars, bounds, history
<1>2. LastWrite' /\ Announced' /\ Settled'
  BY DEF JobsInv, JobsTypeOK, InOrder, LastWrite, Announced, Settled, Done,
       Ending, Events, Active, Terminal, ReadRow, sourceVars, taskVars, pulseVars,
       callVars, bounds, history
<1>. QED
  BY <1>1, <1>2 DEF JobsInv

\* The task saves its row.
LEMMA SaveRowInv ==
  ASSUME JobsInv, NEW j \in Jobs, SaveRow(j)
  PROVE  JobsInv'
<1>1. CASE writes[j] = "running"
  <2>1. JobsTypeOK'
    BY <1>1, Stepped, JobsAssumption DEF JobsInv, JobsTypeOK, Statuses, Active,
         Terminal, Places, Events, InOrder, Done, SaveRow, Saved, AfterSave,
         sourceVars, taskVars, pulseVars, callVars, bounds, history
  <2>2. InOrder'
    <3>1. task' = [task EXCEPT ![j] = "step"] /\ pulse' = pulse /\ writes' = writes
      BY <1>1 DEF SaveRow, AfterSave, pulseVars
    <3>2. ASSUME NEW x \in Jobs
          PROVE  /\ task'[x] = "none" => row'[x] = "none"
                 /\ task'[x] \in {"read", "save"} /\ writes'[x] = "running" => ~Done(x)'
                 /\ task'[x] \in {"pulling", "draining"} => ~Done(x)'
                 /\ pulse'[x] # "off" => task'[x] \in {"pulling", "draining"}
      <4>1. CASE x = j
        BY <3>1, <4>1 DEF JobsInv, JobsTypeOK, InOrder, SaveRow
      <4>2. CASE x # j
        <5>1. todo'[x] = todo[x] /\ row'[x] = row[x] /\ task'[x] = task[x]
          BY <3>1, <4>2 DEF JobsInv, JobsTypeOK, SaveRow
        <5>. QED
          BY <3>1, <5>1 DEF JobsInv, InOrder, Done
      <4>. QED
        BY <4>1, <4>2
    <3>3. ASSUME NEW c \in Calls, call'[c] # "new"
          PROVE  task'[callSeen[c].job] # "none"
      BY <3>1, <3>3 DEF JobsInv, JobsTypeOK, InOrder, SaveRow, callVars
    <3>. QED
      BY <3>2, <3>3 DEF InOrder, SaveRow, callVars
  <2>3. LastWrite' /\ Announced' /\ Settled'
    BY <1>1 DEF JobsInv, JobsTypeOK, InOrder, LastWrite, Done, Ending, Events,
         Terminal, Announced, Settled, Active, SaveRow, Saved, AfterSave,
         sourceVars, taskVars, pulseVars, callVars, bounds, history
  <2>. QED
    BY <2>1, <2>2, <2>3 DEF JobsInv
<1>2. CASE writes[j] # "running"
  <2>1. JobsTypeOK'
    BY <1>2, Stepped, JobsAssumption DEF JobsInv, JobsTypeOK, Statuses, Active,
         Terminal, Places, Events, InOrder, Done, SaveRow, Saved, AfterSave,
         sourceVars, taskVars, pulseVars, callVars, bounds, history
  <2>2. InOrder'
    <3>1. /\ AfterSave(writes[j]) \in {"announce", "finally"}
          /\ task' = [task EXCEPT ![j] = AfterSave(writes[j])]
          /\ todo' = todo /\ pulse' = pulse /\ writes' = writes
      BY <1>2 DEF JobsInv, JobsTypeOK, Terminal, SaveRow, AfterSave, pulseVars
    <3>2. \A x \in Jobs : task'[x] # "none" => task[x] # "none"
      BY <3>1 DEF JobsInv, JobsTypeOK, SaveRow
    <3>. QED
      BY <3>1, <3>2 DEF JobsInv, JobsTypeOK, InOrder, Done, SaveRow, callVars
  <2>3. LastWrite' /\ Announced' /\ Settled'
    BY <1>2 DEF JobsInv, JobsTypeOK, InOrder, LastWrite, Done, Ending, Events,
         Terminal, Announced, Settled, Active, SaveRow, Saved, AfterSave,
         sourceVars, taskVars, pulseVars, callVars, bounds, history
  <2>. QED
    BY <2>1, <2>2, <2>3 DEF JobsInv
<1>. QED
  BY <1>1, <1>2 DEF SaveRow

\* The task cannot save its row.
LEMMA SaveRowFailsInv ==
  ASSUME JobsInv, NEW j \in Jobs, SaveRowFails(j)
  PROVE  JobsInv'
<1>1. CASE GoWrite(j, "failed") /\ UNCHANGED unsaved
  <2>1. JobsTypeOK'
    BY <1>1, Stepped, JobsAssumption DEF JobsInv, JobsTypeOK, Statuses, Active,
         Terminal, Places, Events, InOrder, Done, SaveRowFails, GoWrite,
         sourceVars, taskVars, pulseVars, callVars, bounds, history
  <2>2. InOrder'
    BY <1>1 DEF JobsInv, JobsTypeOK, InOrder, Done, SaveRowFails, GoWrite,
         sourceVars, taskVars, pulseVars, callVars, bounds, history
  <2>3. Announced' /\ Settled'
    BY <1>1 DEF JobsInv, JobsTypeOK, InOrder, LastWrite, Announced, Done, Ending,
         Events, Terminal, Settled, Active, SaveRowFails, GoWrite, sourceVars,
         taskVars, pulseVars, callVars, bounds, history
  <2>4. LastWrite'
    BY <1>1, WritesLast
       DEF JobsInv, LastWrite, Ending, Terminal, SaveRowFails, GoWrite, Done,
       sourceVars, history
  <2>. QED
    BY <2>1, <2>2, <2>3, <2>4 DEF JobsInv
<1>2. CASE /\ writes[j] \in {"failed", "cancelled"}
           /\ task' = [task EXCEPT ![j] = "finally"]
           /\ unsaved' = unsaved \cup {j}
           /\ UNCHANGED <<todo, writes, seen>>
  <2>1. JobsTypeOK'
    BY <1>2, Stepped, JobsAssumption DEF JobsInv, JobsTypeOK, Statuses, Active,
         Terminal, Places, Events, InOrder, Done, SaveRowFails, GoWrite,
         sourceVars, taskVars, pulseVars, callVars, bounds, history
  <2>2. InOrder'
    BY <1>2 DEF JobsInv, JobsTypeOK, InOrder, Done, SaveRowFails, GoWrite,
         sourceVars, taskVars, pulseVars, callVars, bounds, history
  <2>3. LastWrite' /\ Announced' /\ Settled'
    BY <1>2 DEF JobsInv, JobsTypeOK, InOrder, LastWrite, Done, Ending, Events,
         Terminal, Announced, Settled, Active, SaveRowFails, GoWrite, sourceVars,
         taskVars, pulseVars, callVars, bounds, history
  <2>. QED
    BY <2>1, <2>2, <2>3 DEF JobsInv
<1>. QED
  BY <1>1, <1>2 DEF SaveRowFails

\* The webhook is sent.
LEMMA AnnounceInv ==
  ASSUME JobsInv, NEW j \in Jobs, Announce(j)
  PROVE  JobsInv'
<1>1. JobsTypeOK'
  <2>1. posts[j] = <<>> /\ writes[j] \in Events
    BY DEF JobsInv, Announced, Announce
  <2>2. posts' \in [Jobs -> Seq(Events)]
    BY <2>1 DEF JobsInv, JobsTypeOK, Announce
  <2>. QED
    BY <2>2 DEF JobsInv, JobsTypeOK, Places, Announce,
    sourceVars, taskVars, pulseVars, callVars, bounds, history
<1>2. InOrder'
  BY DEF JobsInv, JobsTypeOK, InOrder, Done, Announce, sourceVars, taskVars,
       pulseVars, callVars, bounds, history
<1>3. LastWrite' /\ Settled'
  BY DEF JobsInv, JobsTypeOK, InOrder, LastWrite, Done, Ending, Events, Terminal,
       Settled, Active, Announce, sourceVars, taskVars, pulseVars, callVars,
       bounds, history
<1>4. Announced'
  <2>1. posts[j] = <<>> /\ writes[j] \in Events /\ (row[j] \in Events => row[j] = writes[j])
    BY DEF JobsInv, Announced, Announce
  <2>2. posts'[j] = <<writes[j]>>
    BY <2>1 DEF JobsInv, JobsTypeOK, Announce
  <2>. QED
    BY <2>1, <2>2 DEF JobsInv, JobsTypeOK, Announced, Announce, sourceVars, bounds, history
<1>. QED
  BY <1>1, <1>2, <1>3, <1>4 DEF JobsInv

\* The token source is removed.
LEMMA FinallyInv ==
  ASSUME JobsInv, NEW j \in Jobs, Finally(j)
  PROVE  JobsInv'
<1>1. JobsTypeOK' /\ InOrder'
  BY JobsAssumption DEF JobsInv, JobsTypeOK, InOrder, Done, Statuses, Active,
       Terminal, Places, Events, Finally, sourceVars, taskVars, pulseVars,
       callVars, bounds, history
<1>2. LastWrite' /\ Announced' /\ Settled'
  BY DEF JobsInv, JobsTypeOK, InOrder, LastWrite, Announced, Settled, Done,
       Ending, Events, Active, Terminal, Finally, sourceVars, taskVars, pulseVars,
       callVars, bounds, history
<1>. QED
  BY <1>1, <1>2 DEF JobsInv

\* A call returns.
LEMMA CallReturnsInv ==
  ASSUME JobsInv, NEW j \in Jobs, CallReturns(j)
  PROVE  JobsInv'
<1>1. JobsTypeOK'
  BY Stepped, JobsAssumption DEF JobsInv, JobsTypeOK, Statuses, Active, Terminal,
       Places, Events, InOrder, Done, CallReturns, AtStep, sourceVars, pulseVars,
       callVars, bounds, history
<1>2. InOrder'
  BY DEF JobsInv, JobsTypeOK, InOrder, Done, CallReturns, AtStep, sourceVars,
       pulseVars, callVars, bounds, history
<1>3. LastWrite' /\ Announced' /\ Settled'
  BY DEF JobsInv, JobsTypeOK, InOrder, LastWrite, Done, Ending, Events, Terminal,
       Announced, Settled, Active, CallReturns, AtStep, sourceVars, pulseVars,
       callVars, bounds, history
<1>. QED
  BY <1>1, <1>2, <1>3 DEF JobsInv

\* The work goes on.
LEMMA NextStepInv ==
  ASSUME JobsInv, NEW j \in Jobs, NextStep(j)
  PROVE  JobsInv'
<1>2. CASE AtStep(j, {"update"}) /\ GoWrite(j, "running") /\ UNCHANGED pulse
  <2>1. JobsTypeOK'
    BY <1>2, Stepped, JobsAssumption DEF JobsInv, JobsTypeOK, Statuses, Active,
         Terminal, Places, Events, InOrder, Done, NextStep, GoWrite, AtStep,
         sourceVars, taskVars, pulseVars, callVars, bounds, history
  <2>2. InOrder'
    BY <1>2 DEF JobsInv, JobsTypeOK, InOrder, Done, NextStep, GoWrite, AtStep,
         sourceVars, taskVars, pulseVars, callVars, bounds, history
  <2>3. Announced' /\ Settled'
    BY <1>2 DEF JobsInv, JobsTypeOK, InOrder, LastWrite, Announced, Done, Ending,
         Events, Terminal, Settled, Active, NextStep, GoWrite, AtStep, sourceVars,
         taskVars, pulseVars, callVars, bounds, history
  <2>4. LastWrite'
    BY <1>2, WritesLast
       DEF JobsInv, LastWrite, Ending, Terminal, NextStep, GoWrite, AtStep, Done,
       sourceVars, history
  <2>. QED
    BY <2>1, <2>2, <2>3, <2>4 DEF JobsInv
<1>3. CASE /\ AtStep(j, {"pull"})
           /\ task' = [task EXCEPT ![j] = "pulling"]
           /\ pulse' = [pulse EXCEPT ![j] = "delay"]
           /\ UNCHANGED <<todo, writes, seen>>
  <2>1. JobsTypeOK'
    BY <1>3, Stepped, JobsAssumption DEF JobsInv, JobsTypeOK, Statuses, Active,
         Terminal, Places, Events, InOrder, Done, NextStep, GoWrite, AtStep,
         sourceVars, taskVars, pulseVars, callVars, bounds, history
  <2>2. InOrder'
    BY <1>3 DEF JobsInv, JobsTypeOK, InOrder, Done, NextStep, GoWrite, AtStep,
         sourceVars, taskVars, pulseVars, callVars, bounds, history
  <2>3. LastWrite' /\ Announced' /\ Settled'
    BY <1>3 DEF JobsInv, JobsTypeOK, InOrder, LastWrite, Done, Ending, Events,
         Terminal, Announced, Settled, Active, NextStep, GoWrite, AtStep,
         sourceVars, taskVars, pulseVars, callVars, bounds, history
  <2>. QED
    BY <2>1, <2>2, <2>3 DEF JobsInv
<1>. QED
  BY <1>2, <1>3 DEF NextStep

\* The work notices the token.
LEMMA InterruptedInv ==
  ASSUME JobsInv, NEW j \in Jobs, Interrupted(j)
  PROVE  JobsInv'
<1>1. CASE AtStep(j, {"call"}) /\ GoWrite(j, "cancelled")
  <2>1. JobsTypeOK'
    BY <1>1, JobsAssumption DEF JobsInv, JobsTypeOK, Statuses, Active, Terminal,
         Places, Events, Interrupted, GoWrite, AtStep, sourceVars, taskVars,
         pulseVars, callVars, bounds, history
  <2>2. InOrder'
    BY <1>1 DEF JobsInv, JobsTypeOK, InOrder, Done, Interrupted, GoWrite, AtStep,
         sourceVars, taskVars, pulseVars, callVars, bounds, history
  <2>3. Announced' /\ Settled'
    BY <1>1 DEF JobsInv, JobsTypeOK, InOrder, LastWrite, Announced, Done, Ending,
         Events, Terminal, Settled, Active, Interrupted, GoWrite, AtStep,
         sourceVars, taskVars, pulseVars, callVars, bounds, history
  <2>4. LastWrite'
    BY <1>1, WritesLast
       DEF JobsInv, LastWrite, Ending, Terminal, Interrupted, GoWrite, AtStep, Done,
       sourceVars, history
  <2>. QED
    BY <2>1, <2>2, <2>3, <2>4 DEF JobsInv
<1>2. CASE /\ task[j] = "pulling"
           /\ task' = [task EXCEPT ![j] = "draining"]
           /\ writes' = [writes EXCEPT ![j] = "cancelled"]
           /\ UNCHANGED <<todo, seen>>
  <2>1. JobsTypeOK'
    BY <1>2, JobsAssumption DEF JobsInv, JobsTypeOK, Statuses, Active, Terminal,
         Places, Events, Interrupted, GoWrite, AtStep, sourceVars, taskVars,
         pulseVars, callVars, bounds, history
  <2>2. InOrder'
    BY <1>2 DEF JobsInv, JobsTypeOK, InOrder, Done, Interrupted, GoWrite, AtStep,
         sourceVars, taskVars, pulseVars, callVars, bounds, history
  <2>3. Announced' /\ Settled'
    BY <1>2 DEF JobsInv, JobsTypeOK, InOrder, LastWrite, Announced, Done, Ending,
         Events, Terminal, Settled, Active, Interrupted, GoWrite, AtStep,
         sourceVars, taskVars, pulseVars, callVars, bounds, history
  <2>4. LastWrite'
    BY <1>2, WritesLast
       DEF JobsInv, Ending, Terminal, Interrupted, sourceVars, history
  <2>. QED
    BY <2>1, <2>2, <2>3, <2>4 DEF JobsInv
<1>. QED
  BY <1>1, <1>2 DEF Interrupted

\* The work fails.
LEMMA WorkFailsInv ==
  ASSUME JobsInv, NEW j \in Jobs, WorkFails(j)
  PROVE  JobsInv'
<1>1. CASE AtStep(j, {"call", "update"}) /\ GoWrite(j, "failed")
  <2>1. JobsTypeOK'
    BY <1>1, JobsAssumption DEF JobsInv, JobsTypeOK, Statuses, Active, Terminal,
         Places, Events, WorkFails, GoWrite, AtStep, sourceVars, taskVars,
         pulseVars, callVars, bounds, history
  <2>2. InOrder'
    BY <1>1 DEF JobsInv, JobsTypeOK, InOrder, Done, WorkFails, GoWrite, AtStep,
         sourceVars, taskVars, pulseVars, callVars, bounds, history
  <2>3. Announced' /\ Settled'
    BY <1>1 DEF JobsInv, JobsTypeOK, InOrder, LastWrite, Announced, Done, Ending,
         Events, Terminal, Settled, Active, WorkFails, GoWrite, AtStep,
         sourceVars, taskVars, pulseVars, callVars, bounds, history
  <2>4. LastWrite'
    BY <1>1, WritesLast
       DEF JobsInv, LastWrite, Ending, Terminal, WorkFails, GoWrite, AtStep, Done,
       sourceVars, history
  <2>. QED
    BY <2>1, <2>2, <2>3, <2>4 DEF JobsInv
<1>2. CASE /\ task[j] = "pulling"
           /\ task' = [task EXCEPT ![j] = "draining"]
           /\ writes' = [writes EXCEPT ![j] = "failed"]
           /\ UNCHANGED <<todo, seen>>
  <2>1. JobsTypeOK'
    BY <1>2, JobsAssumption DEF JobsInv, JobsTypeOK, Statuses, Active, Terminal,
         Places, Events, WorkFails, GoWrite, AtStep, sourceVars, taskVars,
         pulseVars, callVars, bounds, history
  <2>2. InOrder'
    BY <1>2 DEF JobsInv, JobsTypeOK, InOrder, Done, WorkFails, GoWrite, AtStep,
         sourceVars, taskVars, pulseVars, callVars, bounds, history
  <2>3. Announced' /\ Settled'
    BY <1>2 DEF JobsInv, JobsTypeOK, InOrder, LastWrite, Announced, Done, Ending,
         Events, Terminal, Settled, Active, WorkFails, GoWrite, AtStep,
         sourceVars, taskVars, pulseVars, callVars, bounds, history
  <2>4. LastWrite'
    BY <1>2, WritesLast
       DEF JobsInv, Ending, Terminal, WorkFails, sourceVars, history
  <2>. QED
    BY <2>1, <2>2, <2>3, <2>4 DEF JobsInv
<1>. QED
  BY <1>1, <1>2 DEF WorkFails

\* The download is complete.
LEMMA PullEndsInv ==
  ASSUME JobsInv, NEW j \in Jobs, PullEnds(j)
  PROVE  JobsInv'
<1>1. JobsTypeOK' /\ InOrder'
  BY JobsAssumption DEF JobsInv, JobsTypeOK, InOrder, Done, Statuses, Active,
       Terminal, Places, Events, PullEnds, sourceVars, taskVars, pulseVars,
       callVars, bounds, history
<1>2. LastWrite' /\ Announced' /\ Settled'
  BY DEF JobsInv, JobsTypeOK, InOrder, LastWrite, Announced, Settled, Done,
       Ending, Events, Active, Terminal, PullEnds, sourceVars, taskVars,
       pulseVars, callVars, bounds, history
<1>. QED
  BY <1>1, <1>2 DEF JobsInv

\* The pulse has been awaited.
LEMMA DrainedInv ==
  ASSUME JobsInv, NEW j \in Jobs, Drained(j)
  PROVE  JobsInv'
<1>1. CASE pulse[j] = "failed" /\ GoWrite(j, "failed")
  <2>1. JobsTypeOK'
    BY <1>1, Stepped, JobsAssumption DEF JobsInv, JobsTypeOK, Statuses, Active,
         Terminal, Places, Events, InOrder, Done, Drained, GoWrite, sourceVars,
         taskVars, pulseVars, callVars, bounds, history
  <2>2. InOrder'
    BY <1>1 DEF JobsInv, JobsTypeOK, InOrder, Done, Drained, GoWrite, sourceVars,
         taskVars, pulseVars, callVars, bounds, history
  <2>3. Announced' /\ Settled'
    BY <1>1 DEF JobsInv, JobsTypeOK, InOrder, LastWrite, Announced, Done, Ending,
         Events, Terminal, Settled, Active, Drained, GoWrite, sourceVars,
         taskVars, pulseVars, callVars, bounds, history
  <2>4. LastWrite'
    BY <1>1, WritesLast
       DEF JobsInv, LastWrite, Ending, Terminal, Drained, GoWrite, Done,
       sourceVars, history
  <2>. QED
    BY <2>1, <2>2, <2>3, <2>4 DEF JobsInv
<1>2. CASE writes[j] # "running" /\ GoWrite(j, writes[j])
  <2>1. JobsTypeOK'
    BY <1>2, Stepped, JobsAssumption DEF JobsInv, JobsTypeOK, Statuses, Active,
         Terminal, Places, Events, InOrder, Done, Drained, GoWrite, sourceVars,
         taskVars, pulseVars, callVars, bounds, history
  <2>2. InOrder'
    BY <1>2 DEF JobsInv, JobsTypeOK, InOrder, Done, Drained, GoWrite, sourceVars,
         taskVars, pulseVars, callVars, bounds, history
  <2>3. Announced' /\ Settled'
    BY <1>2 DEF JobsInv, JobsTypeOK, InOrder, LastWrite, Announced, Done, Ending,
         Events, Terminal, Settled, Active, Drained, GoWrite, sourceVars,
         taskVars, pulseVars, callVars, bounds, history
  <2>4. LastWrite'
    BY <1>2, WritesLast
       DEF JobsInv, LastWrite, Ending, Terminal, Drained, GoWrite, Done,
       sourceVars, history
  <2>. QED
    BY <2>1, <2>2, <2>3, <2>4 DEF JobsInv
<1>3. CASE /\ writes[j] = "running"
           /\ task' = [task EXCEPT ![j] = "step"]
           /\ todo' = [todo EXCEPT ![j] = Tail(@)]
           /\ UNCHANGED <<writes, seen>>
  <2>1. JobsTypeOK'
    BY <1>3, Stepped, JobsAssumption DEF JobsInv, JobsTypeOK, Statuses, Active,
         Terminal, Places, Events, InOrder, Done, Drained, GoWrite, sourceVars,
         taskVars, pulseVars, callVars, bounds, history
  <2>2. InOrder'
    BY <1>3 DEF JobsInv, JobsTypeOK, InOrder, Done, Drained, GoWrite, sourceVars,
         taskVars, pulseVars, callVars, bounds, history
  <2>3. LastWrite' /\ Announced' /\ Settled'
    BY <1>3 DEF JobsInv, JobsTypeOK, InOrder, LastWrite, Done, Ending, Events,
         Terminal, Announced, Settled, Active, Drained, GoWrite, sourceVars,
         taskVars, pulseVars, callVars, bounds, history
  <2>. QED
    BY <2>1, <2>2, <2>3 DEF JobsInv
<1>. QED
  BY <1>1, <1>2, <1>3 DEF Drained

\* The work has returned.
LEMMA WorkReturnsInv ==
  ASSUME JobsInv, NEW j \in Jobs, WorkReturns(j)
  PROVE  JobsInv'
<1>1. CASE j \notin cancelled /\ GoWrite(j, "completed")
  <2>1. JobsTypeOK'
    BY <1>1, JobsAssumption DEF JobsInv, JobsTypeOK, Statuses, Active, Terminal,
         Places, Events, WorkReturns, GoWrite, sourceVars, taskVars, pulseVars,
         callVars, bounds, history
  <2>2. InOrder'
    BY <1>1 DEF JobsInv, JobsTypeOK, InOrder, Done, WorkReturns, GoWrite,
         sourceVars, taskVars, pulseVars, callVars, bounds, history
  <2>3. Announced' /\ Settled'
    BY <1>1 DEF JobsInv, JobsTypeOK, InOrder, LastWrite, Announced, Done, Ending,
         Events, Terminal, Settled, Active, WorkReturns, GoWrite, sourceVars,
         taskVars, pulseVars, callVars, bounds, history
  <2>4. LastWrite'
    BY <1>1, WritesLast
       DEF JobsInv, LastWrite, Ending, Terminal, WorkReturns, GoWrite, Done,
       sourceVars, history
  <2>. QED
    BY <2>1, <2>2, <2>3, <2>4 DEF JobsInv
<1>2. CASE /\ j \in cancelled
           /\ task' = [task EXCEPT ![j] = "finally"]
           /\ UNCHANGED <<todo, writes, seen>>
  <2>1. JobsTypeOK'
    BY <1>2, JobsAssumption DEF JobsInv, JobsTypeOK, Statuses, Active, Terminal,
         Places, Events, WorkReturns, GoWrite, sourceVars, taskVars, pulseVars,
         callVars, bounds, history
  <2>2. InOrder'
    BY <1>2 DEF JobsInv, JobsTypeOK, InOrder, Done, WorkReturns, GoWrite,
         sourceVars, taskVars, pulseVars, callVars, bounds, history
  <2>3. LastWrite' /\ Announced' /\ Settled'
    BY <1>2 DEF JobsInv, JobsTypeOK, InOrder, LastWrite, Done, Ending, Events,
         Terminal, Announced, Settled, Active, WorkReturns, GoWrite, sourceVars,
         taskVars, pulseVars, callVars, bounds, history
  <2>. QED
    BY <2>1, <2>2, <2>3 DEF JobsInv
<1>. QED
  BY <1>1, <1>2 DEF WorkReturns

\* The pulse wakes up.
LEMMA PulseTickInv ==
  ASSUME JobsInv, NEW j \in Jobs, PulseTick(j)
  PROVE  JobsInv'
<1>1. JobsTypeOK' /\ InOrder'
  BY JobsAssumption DEF JobsInv, JobsTypeOK, InOrder, Done, Statuses, Active,
       Terminal, Places, Events, PulseTick, PulseStopped, sourceVars, taskVars,
       pulseVars, callVars, bounds, history
<1>2. LastWrite' /\ Announced' /\ Settled'
  BY DEF JobsInv, JobsTypeOK, InOrder, LastWrite, Announced, Settled, Done,
       Ending, Events, Active, Terminal, PulseTick, PulseStopped, sourceVars,
       taskVars, pulseVars, callVars, bounds, history
<1>. QED
  BY <1>1, <1>2 DEF JobsInv

\* The pulse reads the row.
LEMMA PulseReadsInv ==
  ASSUME JobsInv, NEW j \in Jobs, PulseReads(j)
  PROVE  JobsInv'
<1>1. JobsTypeOK' /\ InOrder'
  BY JobsAssumption DEF JobsInv, JobsTypeOK, InOrder, Done, Statuses, Active,
       Terminal, Places, Events, PulseReads, sourceVars, taskVars, pulseVars,
       callVars, bounds, history
<1>2. LastWrite' /\ Announced' /\ Settled'
  BY DEF JobsInv, JobsTypeOK, InOrder, LastWrite, Announced, Settled, Done,
       Ending, Events, Active, Terminal, PulseReads, sourceVars, taskVars,
       pulseVars, callVars, bounds, history
<1>. QED
  BY <1>1, <1>2 DEF JobsInv

\* The pulse saves the row.
LEMMA PulseSavesInv ==
  ASSUME JobsInv, NEW j \in Jobs, PulseSaves(j)
  PROVE  JobsInv'
<1>1. CASE /\ row' = [row EXCEPT ![j] = Saved(pulseSeen[j], "running", @)]
           /\ pulse' = [pulse EXCEPT ![j] = "delay"]
           /\ UNCHANGED saveErrors
  <2>1. JobsTypeOK'
    BY <1>1, JobsAssumption DEF JobsInv, JobsTypeOK, Statuses, Active, Terminal,
         Places, Events, PulseSaves, Saved, sourceVars, taskVars, pulseVars,
         callVars, bounds, history
  <2>2. InOrder'
    BY <1>1 DEF JobsInv, JobsTypeOK, InOrder, Done, PulseSaves, Saved, sourceVars,
         taskVars, pulseVars, callVars, bounds, history
  <2>3. LastWrite' /\ Announced'
    BY <1>1 DEF JobsInv, JobsTypeOK, InOrder, LastWrite, Done, Ending, Events,
         Terminal, Announced, PulseSaves, Saved, sourceVars, taskVars, pulseVars,
         callVars, bounds, history
  <2>4. Settled'
    <3>1. task[j] \notin Ending
      BY DEF JobsInv, InOrder, PulseSaves, Ending
    <3>2. \A x \in Jobs \ {j} : row'[x] = row[x]
      BY <1>1 DEF JobsInv, JobsTypeOK
    <3>. QED
      BY <1>1, <3>1, <3>2
         DEF JobsInv, Settled, PulseSaves, sourceVars, taskVars, history
  <2>. QED
    BY <2>1, <2>2, <2>3, <2>4 DEF JobsInv
<1>2. CASE /\ saveErrors < MaxSaveErrors
           /\ saveErrors' = saveErrors + 1
           /\ pulse' = [pulse EXCEPT ![j] = "failed"]
           /\ UNCHANGED row
  <2>1. JobsTypeOK'
    BY <1>2, JobsAssumption DEF JobsInv, JobsTypeOK, Statuses, Active, Terminal,
         Places, Events, PulseSaves, Saved, sourceVars, taskVars, pulseVars,
         callVars, bounds, history
  <2>2. InOrder'
    BY <1>2 DEF JobsInv, JobsTypeOK, InOrder, Done, PulseSaves, Saved, sourceVars,
         taskVars, pulseVars, callVars, bounds, history
  <2>3. LastWrite' /\ Announced' /\ Settled'
    BY <1>2 DEF JobsInv, JobsTypeOK, InOrder, LastWrite, Done, Ending, Events,
         Terminal, Announced, Settled, Active, PulseSaves, Saved, sourceVars,
         taskVars, pulseVars, callVars, bounds, history
  <2>. QED
    BY <2>1, <2>2, <2>3 DEF JobsInv
<1>. QED
  BY <1>1, <1>2 DEF PulseSaves

\* A call looks for the token source.
LEMMA FindSourceInv ==
  ASSUME JobsInv, NEW c \in Calls, FindSource(c)
  PROVE  JobsInv'
<1>1. JobsTypeOK' /\ InOrder'
  BY JobsAssumption DEF JobsInv, JobsTypeOK, InOrder, Done, Statuses, Active,
       Terminal, Places, Events, FindSource, sourceVars, taskVars, pulseVars,
       callVars, bounds, history
<1>2. LastWrite' /\ Announced' /\ Settled'
  BY DEF JobsInv, JobsTypeOK, InOrder, LastWrite, Announced, Settled, Done,
       Ending, Events, Active, Terminal, FindSource, sourceVars, taskVars,
       pulseVars, callVars, bounds, history
<1>. QED
  BY <1>1, <1>2 DEF JobsInv

\* A call cancels the token.
LEMMA CancelSourceInv ==
  ASSUME JobsInv, NEW c \in Calls, CancelSource(c)
  PROVE  JobsInv'
<1>1. CASE /\ callSeen[c].job \in running
           /\ cancelled' = cancelled \cup {callSeen[c].job}
           /\ askedInTime' = IF Looking(callSeen[c].job)
                             THEN askedInTime \cup {callSeen[c].job} ELSE askedInTime
           /\ call' = [call EXCEPT ![c] = "row"]
  <2>1. JobsTypeOK'
    BY <1>1, Called
       DEF JobsInv, JobsTypeOK, CancelSource, taskVars, pulseVars, bounds, history
  <2>2. InOrder'
    BY <1>1 DEF JobsInv, JobsTypeOK, InOrder, Done, CancelSource, Looking,
         sourceVars, taskVars, pulseVars, callVars, bounds, history
  <2>3. LastWrite' /\ Announced' /\ Settled'
    BY <1>1 DEF JobsInv, JobsTypeOK, InOrder, LastWrite, Done, Ending, Events,
         Terminal, Announced, Settled, Active, CancelSource, Looking, sourceVars,
         taskVars, pulseVars, callVars, bounds, history
  <2>. QED
    BY <2>1, <2>2, <2>3 DEF JobsInv
<1>2. CASE /\ callSeen[c].job \notin running
           /\ call' = [call EXCEPT ![c] = "threw"]
           /\ UNCHANGED <<cancelled, askedInTime>>
  <2>1. JobsTypeOK'
    BY <1>2, Called
       DEF JobsInv, JobsTypeOK, CancelSource, taskVars, pulseVars, bounds, history
  <2>2. InOrder'
    BY <1>2 DEF JobsInv, JobsTypeOK, InOrder, Done, CancelSource, Looking,
         sourceVars, taskVars, pulseVars, callVars, bounds, history
  <2>3. LastWrite' /\ Announced' /\ Settled'
    BY <1>2 DEF JobsInv, JobsTypeOK, InOrder, LastWrite, Done, Ending, Events,
         Terminal, Announced, Settled, Active, CancelSource, Looking, sourceVars,
         taskVars, pulseVars, callVars, bounds, history
  <2>. QED
    BY <2>1, <2>2, <2>3 DEF JobsInv
<1>. QED
  BY <1>1, <1>2 DEF CancelSource

\* A call reads the row.
LEMMA CallReadsInv ==
  ASSUME JobsInv, NEW c \in Calls, CallReads(c)
  PROVE  JobsInv'
<1>1. JobsTypeOK'
  BY Called, CallSeen
     DEF JobsInv, JobsTypeOK, CallReads, sourceVars, taskVars, pulseVars, bounds, history
<1>2. InOrder'
  BY DEF JobsInv, JobsTypeOK, InOrder, Done, CallReads, sourceVars, taskVars,
       pulseVars, callVars, bounds, history
<1>3. LastWrite' /\ Announced' /\ Settled'
  BY DEF JobsInv, JobsTypeOK, InOrder, LastWrite, Done, Ending, Events, Terminal,
       Announced, Settled, Active, CallReads, sourceVars, taskVars, pulseVars,
       callVars, bounds, history
<1>. QED
  BY <1>1, <1>2, <1>3 DEF JobsInv

\* A call saves the row.
LEMMA CallSavesInv ==
  ASSUME JobsInv, NEW c \in Calls, CallSaves(c)
  PROVE  JobsInv'
<1>1. JobsTypeOK' /\ InOrder'
  BY JobsAssumption DEF JobsInv, JobsTypeOK, InOrder, Done, Statuses, Active,
       Terminal, Places, Events, CallSaves, Saved, sourceVars, taskVars,
       pulseVars, callVars, bounds, history
<1>2. LastWrite' /\ Announced' /\ Settled'
  BY DEF JobsInv, JobsTypeOK, InOrder, LastWrite, Announced, Settled, Done,
       Ending, Events, Active, Terminal, CallSaves, Saved, sourceVars, taskVars,
       pulseVars, callVars, bounds, history
<1>. QED
  BY <1>1, <1>2 DEF JobsInv

\* A call is given up.
LEMMA CallAbortsInv ==
  ASSUME JobsInv, NEW c \in Calls, CallAborts(c)
  PROVE  JobsInv'
<1>1. JobsTypeOK' /\ InOrder'
  BY JobsAssumption DEF JobsInv, JobsTypeOK, InOrder, Done, Statuses, Active,
       Terminal, Places, Events, CallAborts, sourceVars, taskVars, pulseVars,
       callVars, bounds, history
<1>2. LastWrite' /\ Announced' /\ Settled'
  BY DEF JobsInv, JobsTypeOK, InOrder, LastWrite, Announced, Settled, Done,
       Ending, Events, Active, Terminal, CallAborts, sourceVars, taskVars,
       pulseVars, callVars, bounds, history
<1>. QED
  BY <1>1, <1>2 DEF JobsInv

\* A crash ends every task and recovers every row.
LEMMA CrashInv ==
  ASSUME JobsInv, Crash
  PROVE  JobsInv'
<1>1. JobsTypeOK'
  BY JobsAssumption
     DEF JobsInv, JobsTypeOK, Statuses, Active, Terminal, Places, Crash, Recovered,
     history
<1>2. InOrder'
  BY DEF JobsInv, JobsTypeOK, InOrder, Done, Active, Crash, Recovered
<1>3. LastWrite'
  BY DEF JobsInv, JobsTypeOK, InOrder, LastWrite, Done, Ending, Events, Active, Crash,
     Recovered, history
<1>4. Announced'
  <2>1. crashes' # 0
    BY JobsAssumption DEF JobsInv, JobsTypeOK, Crash
  <2>2. \A j \in Jobs : /\ posts'[j] = posts[j] /\ writes'[j] = writes[j]
                        /\ task'[j] = IF task[j] = "none" THEN "none" ELSE "gone"
    BY DEF Crash
  <2>. QED
    BY <2>1, <2>2 DEF JobsInv, Announced
<1>5. Settled'
  BY DEF JobsInv, JobsTypeOK, Settled, Ending, Active, Crash, Recovered, history
<1>. QED
  BY <1>1, <1>2, <1>3, <1>4, <1>5 DEF JobsInv

-----------------------------------------------------------------------------
(* The theorems *)

\* The initial states satisfy the invariant.
LEMMA InitInv == Init => JobsInv
<1>. SUFFICES ASSUME Init
              PROVE  JobsInv
  OBVIOUS
<1>1. \A kind \in Kinds : Plan(kind) \in Seq({"update", "call", "pull"})
  <2>1. ASSUME NEW kind \in Kinds
        PROVE  Plan(kind) \in Seq({"update", "call", "pull"})
    <3>1. CASE kind = "pull"
      BY <3>1 DEF Plan
    <3>2. CASE kind = "quantize"
      BY <3>2 DEF Plan
    <3>3. CASE kind = "import"
      BY <3>3 DEF Plan
    <3>. QED
      BY <3>1, <3>2, <3>3, JobsAssumption
  <2>. QED
    BY <2>1
<1>2. JobsTypeOK
  BY <1>1, JobsAssumption DEF Init, JobsTypeOK, Statuses, Active, Terminal, Places
<1>3. InOrder /\ LastWrite /\ Announced /\ Settled
  BY DEF Init, InOrder, LastWrite, Announced, Settled, Ending, Events, Active
<1>. QED
  BY <1>2, <1>3 DEF JobsInv

\* Every step preserves the invariant.
LEMMA StepInv == JobsInv /\ [Next]_vars => JobsInv'
<1>. SUFFICES ASSUME JobsInv, [Next]_vars
              PROVE  JobsInv'
  OBVIOUS
<1>1. ASSUME NEW j \in Jobs,
             \/ Insert(j) \/ Answered(j) \/ RequestAborts(j)
             \/ SaveRowFails(j) \/ WorkFails(j)
      PROVE  JobsInv'
  BY <1>1, InsertInv, AnsweredInv, RequestAbortsInv, SaveRowFailsInv, WorkFailsInv
<1>2. ASSUME NEW j \in Jobs, TaskStep(j)
      PROVE  JobsInv'
  BY <1>2, RegisterInv, ReadRowInv, SaveRowInv, AnnounceInv, FinallyInv, NextStepInv,
     InterruptedInv, DrainedInv, WorkReturnsInv DEF TaskStep
<1>t. ASSUME NEW j \in Jobs, ToolReturns(j)
      PROVE  JobsInv'
  BY <1>t, CallReturnsInv, PullEndsInv DEF ToolReturns
<1>3. ASSUME NEW j \in Jobs, PulseStep(j)
      PROVE  JobsInv'
  BY <1>3, PulseTickInv, PulseReadsInv, PulseSavesInv DEF PulseStep
<1>4. ASSUME NEW c \in Calls, CallStep(c) \/ CallAborts(c)
      PROVE  JobsInv'
  BY <1>4, FindSourceInv, CancelSourceInv, CallReadsInv, CallSavesInv, CallAbortsInv
     DEF CallStep
<1>5. CASE Crash
  BY <1>5, CrashInv
<1>6. CASE UNCHANGED vars
  BY <1>6 DEF JobsInv, JobsTypeOK, InOrder, LastWrite, Announced, Settled, Done, vars,
     sourceVars, taskVars, pulseVars, callVars, bounds, history
<1>. QED
  BY <1>1, <1>2, <1>t, <1>3, <1>4, <1>5, <1>6 DEF Next

\* The inductive invariant.
THEOREM InvHolds == Spec => []JobsInv
  BY InitInv, StepInv, PTL DEF Spec

\* What is announced, or about to be, is in the row, unless a call that says so has
\* cancelled it; such a call has not read "cancelled".
KeptAt(j) ==
  task[j] = "announce" \/ posts[j] # <<>> =>
    row[j] = writes[j] \/ (row[j] = "cancelled" /\ CancelTold(j))

Kept ==
  /\ \A j \in Jobs : KeptAt(j)
  /\ \A c \in Calls : call[c] = "save" => callSeen[c].status # "cancelled"

\* The steps of a job, its request and its pulse keep this.
LEMMA KeptByJob ==
  ASSUME JobsInv, Kept, NEW j \in Jobs,
         \/ Insert(j) \/ Answered(j) \/ RequestAborts(j)
         \/ TaskStep(j) \/ ToolReturns(j) \/ PulseStep(j)
         \/ SaveRowFails(j) \/ WorkFails(j)
  PROVE  Kept'
<1>1. UNCHANGED callVars
  BY DEF Insert, Answered, RequestAborts, TaskStep, ToolReturns, PulseStep,
       SaveRowFails, WorkFails, Register, ReadRow, SaveRow, Announce, Finally,
       NextStep, CallReturns, Interrupted, PullEnds, Drained, WorkReturns,
       PulseTick, PulseReads, PulseSaves
<1>2. \A x : CancelTold(x)' <=> CancelTold(x)
  BY <1>1 DEF CancelTold, callVars
<1>3. \A x \in Jobs \ {j} : /\ row'[x] = row[x] /\ task'[x] = task[x]
                           /\ writes'[x] = writes[x] /\ posts'[x] = posts[x]
  BY DEF JobsInv, JobsTypeOK, Insert, Answered, RequestAborts, TaskStep, ToolReturns,
       PulseStep, SaveRowFails, WorkFails, Register, ReadRow, SaveRow, Announce,
       Finally, NextStep, CallReturns, Interrupted, PullEnds, Drained, WorkReturns,
       PulseTick, PulseReads, PulseSaves, GoWrite, taskVars
\* The job is not announced yet, or its row says what was written, or stays.
<1>4. \/ posts'[j] = <<>> /\ task'[j] # "announce"
      \/ row'[j] = writes'[j]
      \/ /\ row'[j] = row[j] /\ writes'[j] = writes[j]
         /\ task[j] = "announce" \/ posts[j] # <<>>
  <2>1. CASE SaveRow(j)
    <3>1. writes[j] \in Events => seen[j] # writes[j]
      BY <2>1 DEF JobsInv, LastWrite, SaveRow
    <3>2. posts[j] = <<>> /\ posts' = posts /\ writes' = writes
      BY <2>1 DEF JobsInv, Announced, SaveRow
    <3>3. row'[j] = Saved(seen[j], writes[j], row[j]) /\ task'[j] = AfterSave(writes[j])
      BY <2>1 DEF JobsInv, JobsTypeOK, SaveRow
    <3>4. writes[j] \in {"running"} \cup Terminal
      BY DEF JobsInv, JobsTypeOK
    <3>. QED
      BY <3>1, <3>2, <3>3, <3>4 DEF Saved, AfterSave, Terminal, Events
  <2>2. CASE Announce(j) \/ Finally(j) \/ Answered(j) \/ RequestAborts(j)
    BY <2>2 DEF JobsInv, JobsTypeOK, Announced, Announce, Finally, Answered,
         RequestAborts, taskVars
  <2>3. CASE \/ Insert(j) \/ Register(j) \/ ReadRow(j) \/ NextStep(j) \/ Interrupted(j)
             \/ Drained(j) \/ WorkReturns(j) \/ ToolReturns(j)
             \/ SaveRowFails(j) \/ WorkFails(j)
    BY <2>3 DEF JobsInv, JobsTypeOK, Announced, Insert, Register, ReadRow, NextStep,
         Interrupted, Drained, WorkReturns, ToolReturns, CallReturns, PullEnds,
         SaveRowFails, WorkFails, GoWrite, AtStep
  <2>4. CASE PulseTick(j) \/ PulseReads(j)
    BY <2>4 DEF JobsInv, PulseTick, PulseReads, taskVars
  <2>5. CASE PulseSaves(j)
    <3>1. task[j] \in {"pulling", "draining"} /\ task' = task /\ posts' = posts
      BY <2>5 DEF JobsInv, InOrder, PulseSaves, taskVars
    <3>. QED
      BY <3>1 DEF JobsInv, Announced
  <2>. QED
    BY <2>1, <2>2, <2>3, <2>4, <2>5 DEF TaskStep, PulseStep
<1>. QED
  BY <1>1, <1>2, <1>3, <1>4 DEF Kept, KeptAt, callVars

\* So do the calls of CancelAsync: one that saves had read another status than
\* "cancelled", so it writes the row and says so.
LEMMA KeptByCall ==
  ASSUME JobsInv, Kept, NEW c \in Calls, CallStep(c) \/ CallAborts(c)
  PROVE  Kept'
<1>1. UNCHANGED <<task, writes, posts>>
  BY DEF CallStep, FindSource, CancelSource, CallReads, CallSaves, CallAborts, taskVars
<1>2. /\ \A d \in Calls : callSeen'[d].job = callSeen[d].job
      /\ \A d \in Calls : call[d] = "true" => call'[d] = "true"
      /\ \A d \in Calls : call'[d] = "save" => callSeen'[d].status # "cancelled"
  <2>1. /\ call \in [Calls -> {"new", "found", "row", "save", "true", "false", "threw",
                               "aborted"}]
        /\ callSeen \in [Calls -> [job : Jobs, status : Statuses]]
        /\ \A d \in Calls : call[d] = "save" => callSeen[d].status # "cancelled"
    BY DEF JobsInv, JobsTypeOK, Kept
  <2>2. CASE CallReads(c)
    <3>1. /\ call[c] = "row"
          /\ callSeen' = [callSeen EXCEPT ![c].status = row[callSeen[c].job]]
          /\ call' = [call EXCEPT ![c] = IF row[callSeen[c].job] \in Terminal
                                        THEN "false" ELSE "save"]
      BY <2>2 DEF CallReads
    <3>2. callSeen'[c].job = callSeen[c].job
          /\ callSeen'[c].status = row[callSeen[c].job]
      BY <2>1, <3>1
    <3>3. \A d \in Calls \ {c} : callSeen'[d] = callSeen[d] /\ call'[d] = call[d]
      BY <2>1, <3>1
    <3>4. call'[c] = "save" => row[callSeen[c].job] # "cancelled"
      BY <2>1, <3>1 DEF Terminal
    <3>. QED
      BY <2>1, <3>1, <3>2, <3>3, <3>4
  <2>3. CASE ~CallReads(c)
    <3>1. callSeen' = callSeen
      BY <2>3 DEF CallStep, FindSource, CancelSource, CallSaves, CallAborts
    <3>2. \E w : /\ call[c] # "true" /\ w # "save"
                /\ call' = [call EXCEPT ![c] = w]
      <4>1. CASE FindSource(c)
        BY <4>1 DEF FindSource
      <4>2. CASE CancelSource(c)
        BY <4>2 DEF CancelSource
      <4>3. CASE CallSaves(c) \/ CallAborts(c)
        BY <4>3 DEF CallSaves, CallAborts
      <4>. QED
        BY <2>3, <4>1, <4>2, <4>3 DEF CallStep
    <3>. QED
      BY <2>1, <3>1, <3>2
  <2>. QED
    BY <2>2, <2>3
<1>3. \A x : CancelTold(x) => CancelTold(x)'
  BY <1>2 DEF CancelTold
<1>4. CASE CallSaves(c)
  <2>1. callSeen[c].job \in Jobs
    BY DEF JobsInv, JobsTypeOK
  <2>2. /\ row'[callSeen[c].job] = "cancelled" /\ CancelTold(callSeen[c].job)'
        /\ \A x \in Jobs : x # callSeen[c].job => row'[x] = row[x]
    BY <1>4, <2>1 DEF JobsInv, JobsTypeOK, Kept, CallSaves, Saved, CancelTold
  <2>. QED
    BY <1>1, <1>2, <1>3, <2>1, <2>2 DEF Kept, KeptAt
<1>5. CASE ~CallSaves(c)
  <2>1. row' = row
    BY <1>5 DEF CallStep, FindSource, CancelSource, CallReads, CallAborts
  <2>. QED
    BY <1>1, <1>2, <1>3, <2>1 DEF Kept, KeptAt
<1>. QED
  BY <1>4, <1>5

\* A crash keeps it too: what was announced is not active and is not recovered.
LEMMA KeptByCrash ==
  ASSUME JobsInv, Kept, Crash
  PROVE  Kept'
<1>1. /\ UNCHANGED <<writes, posts, callSeen>>
      /\ \A x \in Jobs : task'[x] # "announce" /\ row'[x] = Recovered(row[x])
      /\ \A d \in Calls : call[d] = "true" => call'[d] = "true"
      /\ \A d \in Calls : call'[d] # "save"
  BY DEF Crash
<1>2. \A x : CancelTold(x) => CancelTold(x)'
  BY <1>1 DEF CancelTold
<1>3. \A x \in Jobs : posts[x] # <<>> => writes[x] \in Events
  BY DEF JobsInv, Announced
<1>. QED
  BY <1>1, <1>2, <1>3 DEF Kept, KeptAt, Recovered, Active, Events

\* So it always holds.
LEMMA KeptHolds == Spec => []Kept
<1>1. Init => Kept
  BY DEF Init, Kept, KeptAt
<1>2. JobsInv /\ Kept /\ [Next]_vars => Kept'
  <2>. SUFFICES ASSUME JobsInv, Kept, [Next]_vars PROVE Kept'
    OBVIOUS
  <2>1. CASE UNCHANGED vars
    BY <2>1 DEF Kept, KeptAt, CancelTold, vars, taskVars, callVars
  <2>. QED
    BY <2>1, KeptByJob, KeptByCall, KeptByCrash DEF Next
<1>. QED
  BY <1>1, <1>2, InvHolds, PTL DEF Spec

\* The state of the jobs stays well formed.
THEOREM TypeCorrect == Spec => []JobsTypeOK
  BY InvHolds, PTL DEF JobsInv

\* A job is announced at most once, and as what its row says: a row that ended as
\* "completed" or "failed" was announced as that, and what was announced stays in the
\* row unless a CancelAsync overwrote it and said so.
THEOREM AnnouncedOnce == Spec => []AnnouncedAsStored
<1>1. JobsInv /\ Kept => AnnouncedAsStored
  <2>1. ASSUME JobsInv, Kept, NEW j \in Jobs
        PROVE  /\ Len(posts[j]) <= 1
               /\ posts[j] = <<"completed">> => Done(j)
               /\ posts[j] # <<>> =>
                    posts[j] = <<row[j]>> \/ (row[j] = "cancelled" /\ CancelTold(j))
    <3>1. CASE posts[j] = <<>>
      BY <3>1
    <3>2. CASE posts[j] # <<>>
      <4>1. posts[j] = <<writes[j]>>
        BY <2>1, <3>2 DEF JobsInv, Announced
      <4>2. row[j] = writes[j] \/ (row[j] = "cancelled" /\ CancelTold(j))
        BY <2>1, <3>2 DEF Kept, KeptAt
      <4>3. posts[j] = <<"completed">> => Done(j)
        BY <2>1, <4>1 DEF JobsInv, LastWrite
      <4>. QED
        BY <4>1, <4>2, <4>3
    <3>. QED
      BY <3>1, <3>2
  <2>. QED
    BY <2>1 DEF JobsInv, Announced, AnnouncedAsStored
<1>. QED
  BY <1>1, InvHolds, KeptHolds, PTL

\* A job that is cancelled in time does not complete.
THEOREM CancelledStaysSo == Spec => []CancelledInTime
<1>1. JobsInv => CancelledInTime
  <2>1. ASSUME JobsInv, NEW j \in askedInTime
        PROVE  row[j] # "completed" /\ posts[j] # <<"completed">>
    <3>1. j \in Jobs /\ writes[j] # "completed"
      BY <2>1 DEF JobsInv, JobsTypeOK, LastWrite
    <3>2. posts[j] # <<>> => posts[j] = <<writes[j]>>
      BY <2>1, <3>1 DEF JobsInv, Announced
    <3>. QED
      BY <2>1, <3>1, <3>2 DEF JobsInv, LastWrite
  <2>. QED
    BY <2>1 DEF CancelledInTime
<1>. QED
  BY <1>1, InvHolds, PTL

\* No task leaves an active row behind unless it was cancelled or could not save.
THEOREM NoRowOrphaned == Spec => []NoOrphanRow
<1>1. JobsInv => NoOrphanRow
  BY DEF JobsInv, Settled, Ending, NoOrphanRow
<1>. QED
  BY <1>1, InvHolds, PTL

=============================================================================
