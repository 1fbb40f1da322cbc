------------------------------- MODULE Gateway -------------------------------
(***************************************************************************)
(* The way of a completion through the server around the engine: the rate  *)
(* limiter lets it in, it runs, and RecordUsageAsync reports its tokens to *)
(* the limiter and, after an await for the settings, an entry to the audit *)
(* log (src/ExLlamaSharp.Server/OpenAi/OpenAiCompletionRunner.cs).         *)
(***************************************************************************)
EXTENDS RateLimiter, AuditQueue

\* The entry of a request is named by the request.
ASSUME EntriesAssumption == Requests \subseteq Entries

vars == <<limiterVars, auditVars>>

Init == LimiterInit /\ AuditInit

\* The answers 503 and 408, and a stream that fails with anything but a
\* cancellation, record nothing.  A cancelled stream does, with no tokens.
RunIsLost(r) ==
  /\ stage[r] = "running"
  /\ Goes(r, "gone")
  /\ UNCHANGED <<limits, now, stamps, events, told, admitted, ledger>>

Reports(r) ==
  /\ stage[r] = "charged"
  /\ Enqueue(r)
  /\ Goes(r, "done")
  /\ UNCHANGED <<limits, now, stamps, events, told, admitted, ledger>>

RequestNext(r) ==
  \/ /\ TryAcquire(r) \/ RunIsLost(r) \/ RecordTokens(r)
     /\ UNCHANGED auditVars
  \/ Reports(r)

Next ==
  \/ \E r \in Requests : RequestNext(r)
  \/ Tick /\ UNCHANGED auditVars
  \/ (WriterNext \/ Stop) /\ UNCHANGED limiterVars

Spec == Init /\ [][Next]_vars

-----------------------------------------------------------------------------

GatewayTypeOK ==
  /\ LimiterTypeOK /\ AuditTypeOK
  /\ stage \in [Requests -> {"new", "limited", "running", "gone", "charged",
                             "done"}]

\* Once the writer has stopped, a request that reported its usage has its row in the
\* audit log, or its entry was lost in one of the ways the code has: the channel was
\* full, its save failed or was cut short by the stop, or it came after the last drain.
LossIsExplained ==
  writer = "stopped" =>
    \A r \in Requests : stage[r] = "done" => rows[r] = 1 \/ r \in Lost

=============================================================================
