------------------------------ MODULE AuditQueue ------------------------------
(***************************************************************************)
(* The audit log's queue and its writer                                    *)
(* (src/ExLlamaSharp.Server/Services/AuditService.cs): a bounded channel   *)
(* that drops what does not fit, emptied once a second into a batch that   *)
(* is saved, and once more when the server stops.                          *)
(***************************************************************************)
EXTENDS Integers, Sequences, FiniteSets

CONSTANTS
  Entries,   \* what is enqueued, each entry once
  Capacity   \* of the channel

ASSUME AuditAssumption == Capacity \in Nat \ {0}

VARIABLES
  channel,   \* entries enqueued and not read
  batch,     \* entries the writer has read and not yet saved
  rows,      \* how many rows each entry has in the database
  writer,    \* where ExecuteAsync is
  stopping,  \* the stopping token is cancelled
  lost       \* history: entries by how they were lost

auditVars == <<channel, batch, rows, writer, stopping, lost>>

Losses == {"full", "failed", "cut", "late"}

-----------------------------------------------------------------------------

Lose(how, entries) == lost' = [lost EXCEPT ![how] = @ \cup entries]

AuditInit ==
  /\ channel = <<>> /\ batch = {}
  /\ rows = [e \in Entries |-> 0]
  /\ writer = "waiting"
  /\ stopping = FALSE
  /\ lost = [how \in Losses |-> {}]

\* Faulty: one entry too many is taken.
EnqueuePastLimit(e) ==
  /\ IF Len(channel) <= Capacity
       THEN channel' = Append(channel, e) /\ UNCHANGED lost
       ELSE UNCHANGED channel /\ Lose("full", {e})
  /\ UNCHANGED <<batch, rows, writer, stopping>>

\* With DropWrite, TryWrite answers true and a full channel drops the entry.  An
\* entry that comes after the last drain is never read.
Enqueue(e) ==
  /\ IF Len(channel) < Capacity
       THEN /\ channel' = Append(channel, e)
            /\ IF writer \in {"saving last", "stopped"} THEN Lose("late", {e})
               ELSE UNCHANGED lost
       ELSE UNCHANGED channel /\ Lose("full", {e})
  /\ UNCHANGED <<batch, rows, writer, stopping>>

\* The timer's tick, unless the token that ends the wait came first.
WakesUp ==
  /\ writer = "waiting" /\ ~stopping
  /\ writer' = "draining"
  /\ UNCHANGED <<channel, batch, rows, stopping, lost>>

\* One TryRead of the loops in ExecuteAsync and in FlushRemainingAsync.
ReadsOne ==
  /\ writer \in {"draining", "draining last"}
  /\ channel # <<>>
  /\ batch' = batch \cup {Head(channel)}
  /\ channel' = Tail(channel)
  /\ UNCHANGED <<rows, writer, stopping, lost>>

\* TryRead finds nothing: save, or go on without.
Drained ==
  /\ channel = <<>>
  /\ \/ /\ writer = "draining"
        /\ writer' = IF batch = {} THEN "waiting" ELSE "saving"
     \/ /\ writer = "draining last"
        /\ writer' = IF batch = {} THEN "stopped" ELSE "saving last"
  /\ UNCHANGED <<channel, batch, rows, stopping, lost>>

\* Faulty: the batch is kept for the next save.
ClearedNever(next) ==
  /\ writer' = next
  /\ UNCHANGED <<channel, batch, stopping>>

\* After SaveChangesAsync, whatever became of it, the batch is cleared.
Cleared(next) ==
  /\ batch' = {}
  /\ writer' = next
  /\ UNCHANGED <<channel, stopping>>

Insert == rows' = [e \in Entries |-> rows[e] + IF e \in batch THEN 1 ELSE 0]

Saves ==
  /\ \/ writer = "saving" /\ Cleared("waiting")
     \/ writer = "saving last" /\ Cleared("stopped")
  /\ Insert
  /\ UNCHANGED lost

SaveFails ==
  /\ \/ writer = "saving" /\ Cleared("waiting")
     \/ writer = "saving last" /\ Cleared("stopped")
  /\ Lose("failed", batch)
  /\ UNCHANGED rows

\* The stopping token cancels the save, and the loop around it ends.
SaveIsCut ==
  /\ writer = "saving" /\ stopping
  /\ Cleared("draining last")
  /\ Lose("cut", batch)
  /\ UNCHANGED rows

Stop ==
  /\ ~stopping
  /\ stopping' = TRUE
  /\ UNCHANGED <<channel, batch, rows, writer, lost>>

\* Faulty: the service stops without a last drain.
LoopEndsAtOnce ==
  /\ writer = "waiting" /\ stopping
  /\ writer' = "stopped"
  /\ UNCHANGED <<channel, batch, rows, stopping, lost>>

\* WaitForNextTickAsync throws; FlushRemainingAsync begins.
LoopEnds ==
  /\ writer = "waiting" /\ stopping
  /\ writer' = "draining last"
  /\ UNCHANGED <<channel, batch, rows, stopping, lost>>

WriterNext ==
  WakesUp \/ ReadsOne \/ Drained \/ Saves \/ SaveFails \/ SaveIsCut \/ LoopEnds

-----------------------------------------------------------------------------

AuditTypeOK ==
  /\ channel \in Seq(Entries) /\ Len(channel) <= Capacity
  /\ batch \subseteq Entries
  /\ rows \in [Entries -> Nat]
  /\ writer \in {"waiting", "draining", "saving", "draining last", "saving last", "stopped"}
  /\ stopping \in BOOLEAN
  /\ lost \in [Losses -> SUBSET Entries]

Queued == {channel[i] : i \in 1..Len(channel)}
Lost == UNION {lost[how] : how \in Losses}

\* An entry has at most one row, and once it has one nothing holds it that could be
\* saved again: not the channel, not the batch of a later save.
StoredOnce ==
  \A e \in Entries : rows[e] <= 1 /\ (rows[e] = 1 => e \notin Queued \cup batch)

=============================================================================
