----------------------------- MODULE ServerCaches -----------------------------
(***************************************************************************)
(* The two caches of the server's database, and the restore of a backup    *)
(* (src/ExLlamaSharp.Server/Services/BackupService.cs), which replaces the *)
(* rows behind both in one transaction and afterwards invalidates one.     *)
(***************************************************************************)
EXTENDS KeyCache, SettingsCache

VARIABLE restoring   \* the import has committed and not yet invalidated

vars == <<keyVars, settingsVars, restoring>>

Init == KeyInit /\ SettingsInit /\ restoring = FALSE

\* SQLite lets no other writer in between the transaction's begin and its commit.
ImportCommits ==
  /\ ~restoring
  /\ RestoreKeys
  /\ RestoreSettings
  /\ restoring' = TRUE

ImportInvalidates ==
  /\ restoring
  /\ InvalidateCache
  /\ restoring' = FALSE
  /\ UNCHANGED keyVars

Next ==
  \/ KeyNext /\ UNCHANGED <<settingsVars, restoring>>
  \/ SettingsNext /\ UNCHANGED <<keyVars, restoring>>
  \/ ImportCommits
  \/ ImportInvalidates

Spec == Init /\ [][Next]_vars

-----------------------------------------------------------------------------

CachesTypeOK == KeysTypeOK /\ SettingsTypeOK /\ restoring \in BOOLEAN

\* Somebody has saved the row and not yet told the cache.
Telling == restoring \/ \E u \in Updates : call[u] = "saved"

\* The cache may keep an old value of a column for ever, but only if another call
\* held a copy of the row when the column was last saved: reads and updates, and
\* restored backups, that do not overlap never leave it stale.
StaleOnlyByRace ==
  \A x \in Columns :
    cached # NoRow /\ cached[x] # stored[x] => raced[x] \/ Telling

=============================================================================
