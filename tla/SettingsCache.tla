---------------------------- MODULE SettingsCache ----------------------------
(***************************************************************************)
(* The cached row of settings                                              *)
(* (src/ExLlamaSharp.Server/Services/SettingsService.cs).                  *)
(*                                                                         *)
(* GetAsync reads the row on a miss and then fills the cache; UpdateAsync  *)
(* reads the row, changes columns of it, saves those that differ from what *)
(* it read and caches what it holds.  The lock guards the cache and        *)
(* neither operation as a whole, and no entry expires.                     *)
(***************************************************************************)

CONSTANTS
  Columns,   \* the columns of the row
  Values,    \* their values
  Gets,      \* calls of GetAsync that miss, used over and over
  Updates,   \* calls of UpdateAsync, used over and over
  NoRow      \* the cache is empty

Rows == [Columns -> Values]

ASSUME SettingsAssumption ==
  /\ NoRow \notin Rows
  /\ Gets \cap Updates = {}

VARIABLES
  stored,  \* the row in the database
  cached,  \* _cached
  call,    \* where each call is
  copy,    \* the row each call holds, NoRow if none
  raced    \* history: at the last save of the column another call held a copy

settingsVars == <<stored, cached, call, copy, raced>>

Callers == Gets \cup Updates

-----------------------------------------------------------------------------

\* The call has read the row and not yet done with it.
Holding(c) == call[c] \in {"read", "saved"}

Returns(c) ==
  /\ call' = [call EXCEPT ![c] = "idle"]
  /\ copy' = [copy EXCEPT ![c] = NoRow]

SettingsInit ==
  /\ stored \in Rows
  /\ cached = NoRow
  /\ call = [c \in Callers |-> "idle"]
  /\ copy = [c \in Callers |-> NoRow]
  /\ raced = [x \in Columns |-> FALSE]

\* GetAsync finds nothing cached.  A hit changes no state.
GetMisses(g) ==
  /\ call[g] = "idle"
  /\ cached = NoRow
  /\ call' = [call EXCEPT ![g] = "missed"]
  /\ UNCHANGED <<stored, cached, copy, raced>>

GetReads(g) ==
  /\ call[g] = "missed"
  /\ call' = [call EXCEPT ![g] = "read"]
  /\ copy' = [copy EXCEPT ![g] = stored]
  /\ UNCHANGED <<stored, cached, raced>>

GetFills(g) ==
  /\ call[g] = "read"
  /\ cached' = copy[g]
  /\ Returns(g)
  /\ UNCHANGED <<stored, raced>>

UpdateReads(u) ==
  /\ call[u] = "idle"
  /\ call' = [call EXCEPT ![u] = "read"]
  /\ copy' = [copy EXCEPT ![u] = stored]
  /\ UNCHANGED <<stored, cached, raced>>

\* mutate, and SaveChangesAsync: EF writes the columns that differ from those read.
UpdateSaves(u) ==
  /\ call[u] = "read"
  /\ \E row \in Rows :
       LET changed == {x \in Columns : row[x] # copy[u][x]} IN
       /\ stored' = [x \in Columns |-> IF x \in changed THEN row[x] ELSE stored[x]]
       /\ raced' = [x \in Columns |-> IF x \in changed
                                        THEN \E c \in Callers \ {u} : Holding(c)
                                        ELSE raced[x]]
       /\ copy' = [copy EXCEPT ![u] = row]
  /\ call' = [call EXCEPT ![u] = "saved"]
  /\ UNCHANGED cached

\* Faulty: the cache is left to the next reader, who finds the old row in it.
UpdateLeavesCache(u) ==
  /\ call[u] = "saved"
  /\ Returns(u)
  /\ UNCHANGED <<stored, cached, raced>>

UpdateCaches(u) ==
  /\ call[u] = "saved"
  /\ cached' = copy[u]
  /\ Returns(u)
  /\ UNCHANGED <<stored, raced>>

\* The query or the save throws, or the token is cancelled.
CallFails(c) ==
  /\ \/ call[c] = "missed"
     \/ c \in Updates /\ call[c] = "read"
  /\ Returns(c)
  /\ UNCHANGED <<stored, cached, raced>>

SettingsNext ==
  \/ \E g \in Gets : GetMisses(g) \/ GetReads(g) \/ GetFills(g)
  \/ \E u \in Updates : UpdateReads(u) \/ UpdateSaves(u) \/ UpdateCaches(u)
  \/ \E c \in Callers : CallFails(c)

\* A restored backup writes every column.
RestoreSettings ==
  /\ stored' \in Rows
  /\ raced' = [x \in Columns |-> \E c \in Callers : Holding(c)]
  /\ UNCHANGED <<cached, call, copy>>

InvalidateCache ==
  /\ cached' = NoRow
  /\ UNCHANGED <<stored, call, copy, raced>>

-----------------------------------------------------------------------------

SettingsTypeOK ==
  /\ stored \in Rows
  /\ cached \in Rows \cup {NoRow}
  /\ call \in [Callers -> {"idle", "missed", "read", "saved"}]
  /\ copy \in [Callers -> Rows \cup {NoRow}]
  /\ raced \in [Columns -> BOOLEAN]

=============================================================================
