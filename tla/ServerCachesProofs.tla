-------------------------- MODULE ServerCachesProofs --------------------------
(***************************************************************************)
(* What ServerCaches promises, for any numbers of keys, lookups, revoking  *)
(* calls, readers and updates and for rows of any columns.                 *)
(***************************************************************************)
EXTENDS ServerCaches, TLAPS

-----------------------------------------------------------------------------
(* The keys.  lastGood is the present as long as the row is valid or a lookup
   holds it, so that an entry, made by such a lookup, ends TTL after it at the
   latest; and nothing is left of a key in `deleted` that could let it in. *)

GoodIsNow == \A k \in Keys : valid[k] \/ InFlight(k) => lastGood[k] = now
GoodIsPast == \A k \in Keys : lastGood[k] <= now
EntriesEnd == \A k \in Keys : cache[k] <= lastGood[k] + TTL
DeletedIsGone == \A k \in deleted : ~valid[k] /\ cache[k] = 0 /\ ~InFlight(k)

KeysInv == KeysTypeOK /\ GoodIsNow /\ GoodIsPast /\ EntriesEnd /\ DeletedIsGone

\* The histories are of their types and never go back.
LEMMA HistoriesGo ==
  ASSUME KeysInv, now' \in 0..MaxTime, now <= now', Remember, valid' \in [Keys -> BOOLEAN]
  PROVE  /\ lastGood' \in [Keys -> 0..MaxTime]
         /\ GoodIsNow' /\ GoodIsPast'
         /\ \A k \in Keys : lastGood[k] <= lastGood'[k]
BY KeyAssumption
   DEF KeysInv, KeysTypeOK, GoodIsNow, GoodIsPast, Remember, InFlight

\* A step that leaves the cache alone, and lets no lookup read a deleted key.
LEMMA CacheLeftAlone ==
  ASSUME KeysInv, Remember, Forget, now' \in 0..MaxTime, now <= now',
         valid' \in [Keys -> BOOLEAN], UNCHANGED cache,
         \A k \in deleted : InFlight(k)' => valid'[k]
  PROVE  /\ lastGood' \in [Keys -> 0..MaxTime] /\ deleted' \subseteq Keys
         /\ GoodIsNow' /\ GoodIsPast' /\ EntriesEnd' /\ DeletedIsGone'
<1>1. /\ lastGood' \in [Keys -> 0..MaxTime] /\ GoodIsNow' /\ GoodIsPast'
      /\ \A k \in Keys : lastGood[k] <= lastGood'[k]
  BY HistoriesGo
<1>2. EntriesEnd'
  BY <1>1, KeyAssumption DEF KeysInv, KeysTypeOK, EntriesEnd
<1>3. deleted' \subseteq Keys /\ DeletedIsGone'
  BY DEF KeysInv, KeysTypeOK, DeletedIsGone, Forget, InFlight
<1> QED BY <1>1, <1>2, <1>3

\* A step that sets one entry to 0 or to what a lookup may give it.
LEMMA EntrySet ==
  ASSUME KeysInv, Remember, now' = now, valid' \in [Keys -> BOOLEAN],
         NEW k \in Keys, NEW t \in Nat, cache' = [cache EXCEPT ![k] = t],
         t = 0 \/ (InFlight(k) /\ t = now + TTL)
  PROVE  /\ cache' \in [Keys -> Nat] /\ lastGood' \in [Keys -> 0..MaxTime]
         /\ GoodIsNow' /\ GoodIsPast' /\ EntriesEnd'
<1>1. /\ lastGood' \in [Keys -> 0..MaxTime] /\ GoodIsNow' /\ GoodIsPast'
      /\ \A i \in Keys : lastGood[i] <= lastGood'[i]
  BY HistoriesGo DEF KeysInv, KeysTypeOK
<1>2. cache' \in [Keys -> Nat]
  BY DEF KeysInv, KeysTypeOK
<1>3. EntriesEnd'
  <2> SUFFICES ASSUME NEW i \in Keys PROVE cache'[i] <= lastGood'[i] + TTL
    BY DEF EntriesEnd
  <2>1. /\ now \in Nat /\ TTL \in Nat /\ lastGood[i] \in Nat /\ cache[i] \in Nat
        /\ cache[i] <= lastGood[i] + TTL
    BY KeyAssumption DEF KeysInv, KeysTypeOK, EntriesEnd
  <2>2. lastGood'[i] \in Nat /\ lastGood[i] <= lastGood'[i]
    BY <1>1, KeyAssumption
  <2>3. cache'[i] = IF i = k THEN t ELSE cache[i]
    BY DEF KeysInv, KeysTypeOK
  <2>4. CASE i # k
    BY <2>1, <2>2, <2>3, <2>4
  <2>5. CASE i = k /\ t = 0
    BY <2>1, <2>2, <2>3, <2>5
  <2>6. CASE i = k /\ InFlight(k) /\ t = now + TTL
    <3>1. lastGood[k] = now
      BY <2>6 DEF KeysInv, GoodIsNow
    <3> QED BY <2>1, <2>2, <2>3, <2>6, <3>1
  <2> QED BY <2>4, <2>5, <2>6
<1> QED BY <1>1, <1>2, <1>3

LEMMA KeysInit == KeyInit => KeysInv
BY KeyAssumption
   DEF KeyInit, KeysInv, KeysTypeOK, GoodIsNow, GoodIsPast, EntriesEnd, DeletedIsGone, InFlight

LEMMA KeysStep == KeysInv /\ (KeyNext \/ RestoreKeys) => KeysInv'
<1> SUFFICES ASSUME KeysInv, KeyNext \/ RestoreKeys PROVE KeysInv'
  OBVIOUS
<1> USE DEF KeysInv, KeysTypeOK
<1>1. ASSUME Remember, Forget, NEW l \in Lookups, NEW k \in Keys, Hit(l, k) \/ Miss(l, k)
      PROVE  KeysInv'
  <2>1. \A i \in deleted : ~InFlight(i)'
    BY <1>1 DEF Hit, Miss, InFlight, DeletedIsGone
  <2> QED BY <1>1, <2>1, CacheLeftAlone DEF Hit, Miss
<1>2. ASSUME Remember, Forget, NEW l \in Lookups, ReadKey(l) PROVE KeysInv'
  <2>1. \A i \in deleted : ~InFlight(i)'
    BY <1>2 DEF ReadKey, InFlight, DeletedIsGone
  <2> QED BY <1>2, <2>1, CacheLeftAlone DEF ReadKey
<1>3. ASSUME Remember, Forget, NEW l \in Lookups, Fill(l) PROVE KeysInv'
  <2>1. InFlight(subject[l]) /\ now + TTL \in Nat
    BY <1>3, KeyAssumption DEF Fill, InFlight
  <2>2. /\ cache' \in [Keys -> Nat] /\ lastGood' \in [Keys -> 0..MaxTime]
        /\ GoodIsNow' /\ GoodIsPast' /\ EntriesEnd'
    BY <1>3, <2>1, EntrySet DEF Fill
  <2>3. deleted' \subseteq Keys /\ DeletedIsGone'
    BY <1>3, <2>1 DEF Fill, Forget, DeletedIsGone, InFlight
  <2> QED BY <1>3, <2>2, <2>3 DEF Fill
<1>4. ASSUME Remember, Forget, NEW l \in Lookups, LookupEnds(l) PROVE KeysInv'
  <2>1. \A i \in deleted : ~InFlight(i)'
    BY <1>4 DEF LookupEnds, InFlight, DeletedIsGone
  <2> QED BY <1>4, <2>1, CacheLeftAlone DEF LookupEnds
<1>5. ASSUME Remember, Forget, NEW d \in Revokers, NEW k \in Keys, RevokerReads(d, k)
      PROVE  KeysInv'
  <2>1. \A i \in deleted : ~InFlight(i)'
    BY <1>5 DEF RevokerReads, InFlight, DeletedIsGone
  <2>2. revoker' \in [Revokers -> {"idle", "delete", "saved", "login", "unsaved"}]
    BY <1>5 DEF RevokerReads
  <2> QED BY <1>5, <2>1, <2>2, CacheLeftAlone DEF RevokerReads
<1>6. ASSUME Remember, Forget, NEW d \in Revokers, DeleteSaves(d) \/ LoginSaves(d) \/ SaveFails(d)
      PROVE  KeysInv'
  <2>1. \A i \in deleted : ~InFlight(i)'
    BY <1>6 DEF DeleteSaves, LoginSaves, SaveFails, InFlight, DeletedIsGone
  <2>2. /\ valid' \in [Keys -> BOOLEAN]
        /\ revoker' \in [Revokers -> {"idle", "delete", "saved", "login", "unsaved"}]
        /\ UNCHANGED <<now, cache, lookup, subject, target>>
    BY <1>6 DEF DeleteSaves, LoginSaves, SaveFails
  <2> QED BY <1>6, <2>1, <2>2, CacheLeftAlone
<1>7. ASSUME Remember, Forget, NEW d \in Revokers, LoginInvalidates(d) PROVE KeysInv'
  <2>1. /\ cache' \in [Keys -> Nat] /\ lastGood' \in [Keys -> 0..MaxTime]
        /\ GoodIsNow' /\ GoodIsPast' /\ EntriesEnd'
    BY <1>7, EntrySet DEF LoginInvalidates
  <2>2. deleted' \subseteq Keys /\ DeletedIsGone'
    BY <1>7 DEF LoginInvalidates, Forget, DeletedIsGone, InFlight
  <2> QED BY <1>7, <2>1, <2>2 DEF LoginInvalidates
<1>8. ASSUME Remember, Forget, NEW k \in Keys, Expires(k) PROVE KeysInv'
  <2>1. \A i \in deleted : ~InFlight(i)'
    BY <1>8 DEF Expires, InFlight, DeletedIsGone
  <2> QED BY <1>8, <2>1, CacheLeftAlone DEF Expires
<1>9. ASSUME Remember, Forget, Tick PROVE KeysInv'
  <2>1. \A i \in deleted : ~InFlight(i)'
    BY <1>9 DEF Tick, InFlight, DeletedIsGone
  <2>2. now' \in 0..MaxTime /\ now <= now'
    BY <1>9, KeyAssumption DEF Tick
  <2> QED BY <1>9, <2>1, <2>2, CacheLeftAlone DEF Tick
<1>10. ASSUME NEW d \in Revokers, DeleteInvalidates(d), Remember,
              deleted' = deleted \cup {k \in {target[d]} : ~valid[k] /\ ~InFlight(k)}
       PROVE  KeysInv'
  <2>1. /\ cache' \in [Keys -> Nat] /\ lastGood' \in [Keys -> 0..MaxTime]
        /\ GoodIsNow' /\ GoodIsPast' /\ EntriesEnd'
    BY <1>10, EntrySet DEF DeleteInvalidates
  <2>2. deleted' \subseteq Keys /\ DeletedIsGone'
    BY <1>10 DEF DeleteInvalidates, DeletedIsGone, InFlight
  <2> QED BY <1>10, <2>1, <2>2 DEF DeleteInvalidates
<1>11. ASSUME RestoreKeys PROVE KeysInv'
  <2>1. \A i \in deleted : ~InFlight(i)'
    BY <1>11 DEF RestoreKeys, InFlight, DeletedIsGone
  <2> QED BY <1>11, <2>1, CacheLeftAlone DEF RestoreKeys
<1> HIDE DEF KeysInv, KeysTypeOK
<1> QED
  BY <1>1, <1>2, <1>3, <1>4, <1>5, <1>6, <1>7, <1>8, <1>9, <1>10, <1>11 DEF KeyNext, KeyStep

-----------------------------------------------------------------------------
(* The settings.  A call that holds a copy holds the present value of every
   column that was not saved in a race. *)

HoldersHaveRows ==
  /\ \A c \in Callers : Holding(c) => copy[c] \in Rows
  /\ \A g \in Gets : call[g] # "saved"
CopiesAreStored ==
  \A c \in Callers, x \in Columns : Holding(c) /\ ~raced[x] => copy[c][x] = stored[x]

SettingsInv ==
  /\ SettingsTypeOK /\ restoring \in BOOLEAN
  /\ HoldersHaveRows /\ CopiesAreStored /\ StaleOnlyByRace

LEMMA SettingsInitially == SettingsInit /\ restoring = FALSE => SettingsInv
BY SettingsAssumption
   DEF SettingsInit, SettingsInv, Callers, SettingsTypeOK, HoldersHaveRows, CopiesAreStored,
       StaleOnlyByRace, Holding

\* A call that fills the cache with its copy leaves nothing stale but by a race.
LEMMA CopyCached ==
  ASSUME SettingsInv, NEW c \in Callers, Holding(c), cached' = copy[c], Returns(c),
         UNCHANGED <<stored, raced, restoring>>
  PROVE  SettingsInv'
BY SettingsAssumption
   DEF SettingsInv, SettingsTypeOK, HoldersHaveRows, CopiesAreStored, StaleOnlyByRace,
       Holding, Returns, Callers, Telling

LEMMA SettingsStep ==
  SettingsInv /\ SettingsNext /\ UNCHANGED restoring => SettingsInv'
<1> SUFFICES ASSUME SettingsInv, SettingsNext, UNCHANGED restoring PROVE SettingsInv'
  OBVIOUS
<1> USE DEF SettingsInv, SettingsTypeOK, Callers
<1>1. ASSUME NEW g \in Gets, GetMisses(g) PROVE SettingsInv'
  BY <1>1 DEF GetMisses, HoldersHaveRows, CopiesAreStored, StaleOnlyByRace, Holding, Telling
<1>2. ASSUME NEW c \in Callers, call[c] \in {"missed", "idle"}, UNCHANGED <<stored, cached, raced>>,
             call' = [call EXCEPT ![c] = "read"], copy' = [copy EXCEPT ![c] = stored]
      PROVE  SettingsInv'
  <2>1. SettingsTypeOK' /\ HoldersHaveRows' /\ CopiesAreStored'
    BY <1>2 DEF HoldersHaveRows, CopiesAreStored, Holding
  <2>2. StaleOnlyByRace'
    BY <1>2 DEF StaleOnlyByRace, Telling
  <2> QED BY <2>1, <2>2
<1>3. ASSUME NEW g \in Gets, GetFills(g) PROVE SettingsInv'
  BY <1>3, CopyCached DEF GetFills, Holding
<1>4. ASSUME NEW u \in Updates, UpdateSaves(u) PROVE SettingsInv'
  <2> PICK row \in Rows :
        LET changed == {x \in Columns : row[x] # copy[u][x]} IN
        /\ stored' = [x \in Columns |-> IF x \in changed THEN row[x] ELSE stored[x]]
        /\ raced' = [x \in Columns |-> IF x \in changed
                                         THEN \E c \in Callers \ {u} : Holding(c)
                                         ELSE raced[x]]
        /\ copy' = [copy EXCEPT ![u] = row]
    BY <1>4 DEF UpdateSaves
  <2>1. u \in Callers /\ call[u] = "read" /\ call' = [call EXCEPT ![u] = "saved"]
        /\ UNCHANGED cached
    BY <1>4 DEF UpdateSaves
  <2>2. stored' \in Rows /\ raced' \in [Columns -> BOOLEAN] /\ copy' \in [Callers -> Rows \cup {NoRow}]
    BY <2>1 DEF Rows
  <2>3. SettingsTypeOK' /\ HoldersHaveRows'
    BY <2>1, <2>2, SettingsAssumption DEF HoldersHaveRows, Holding
  <2>4. CopiesAreStored'
    <3> SUFFICES ASSUME NEW c \in Callers, NEW x \in Columns, Holding(c)', ~raced'[x]
                 PROVE  copy'[c][x] = stored'[x]
      BY DEF CopiesAreStored
    <3>1. CASE c = u /\ row[x] # copy[u][x]
      BY <3>1, <2>1
    <3>2. CASE c = u /\ row[x] = copy[u][x]
      BY <3>2, <2>1 DEF CopiesAreStored, Holding
    <3>3. CASE c # u /\ row[x] # copy[u][x]
      BY <3>3, <2>1 DEF Holding
    <3>4. CASE c # u /\ row[x] = copy[u][x]
      BY <3>4, <2>1 DEF CopiesAreStored, Holding
    <3> QED BY <3>1, <3>2, <3>3, <3>4
  <2>5. StaleOnlyByRace'
    BY <2>1 DEF StaleOnlyByRace, Telling
  <2> QED BY <2>3, <2>4, <2>5
<1>5. ASSUME NEW u \in Updates, UpdateCaches(u) PROVE SettingsInv'
  BY <1>5, CopyCached DEF UpdateCaches, Holding
<1>6. ASSUME NEW c \in Callers, CallFails(c) PROVE SettingsInv'
  BY <1>6, SettingsAssumption
     DEF CallFails, Returns, HoldersHaveRows, CopiesAreStored, StaleOnlyByRace, Holding, Telling
<1>7. ASSUME NEW g \in Gets, GetReads(g) PROVE SettingsInv'
  BY <1>7, <1>2 DEF GetReads
<1>8. ASSUME NEW u \in Updates, UpdateReads(u) PROVE SettingsInv'
  BY <1>8, <1>2 DEF UpdateReads
<1> HIDE DEF SettingsInv, SettingsTypeOK
<1> QED BY <1>1, <1>3, <1>4, <1>5, <1>6, <1>7, <1>8 DEF SettingsNext

LEMMA RestoreStep ==
  /\ SettingsInv /\ ImportCommits => SettingsInv'
  /\ SettingsInv /\ ImportInvalidates => SettingsInv'
<1>1. ASSUME SettingsInv, ImportCommits PROVE SettingsInv'
  BY <1>1 DEF ImportCommits, RestoreSettings, SettingsInv, SettingsTypeOK, HoldersHaveRows,
              CopiesAreStored, StaleOnlyByRace, Holding, Telling
<1>2. ASSUME SettingsInv, ImportInvalidates PROVE SettingsInv'
  BY <1>2 DEF ImportInvalidates, InvalidateCache, SettingsInv, SettingsTypeOK, HoldersHaveRows,
              CopiesAreStored, StaleOnlyByRace, Holding
<1> QED BY <1>1, <1>2

-----------------------------------------------------------------------------

CachesInv == KeysInv /\ SettingsInv

LEMMA KeysUnchanged == KeysInv /\ UNCHANGED keyVars => KeysInv'
BY DEF KeysInv, KeysTypeOK, GoodIsNow, GoodIsPast, EntriesEnd, DeletedIsGone, InFlight, keyVars

LEMMA SettingsUnchanged ==
  SettingsInv /\ UNCHANGED <<settingsVars, restoring>> => SettingsInv'
BY DEF SettingsInv, SettingsTypeOK, HoldersHaveRows, CopiesAreStored, StaleOnlyByRace, Holding,
       Telling, settingsVars

\* The inductive invariant holds in every reachable state.
THEOREM CachesInvHolds == Spec => []CachesInv
<1>1. Init => CachesInv
  BY KeysInit, SettingsInitially DEF Init, CachesInv
<1>2. CachesInv /\ [Next]_vars => CachesInv'
  <2> SUFFICES ASSUME CachesInv, [Next]_vars PROVE CachesInv'
    OBVIOUS
  <2>1. CASE KeyNext /\ UNCHANGED <<settingsVars, restoring>>
    BY <2>1, KeysStep, SettingsUnchanged DEF CachesInv
  <2>2. CASE SettingsNext /\ UNCHANGED <<keyVars, restoring>>
    <3>1. UNCHANGED keyVars /\ UNCHANGED restoring
      BY <2>2
    <3> QED BY <2>2, <3>1, SettingsStep, KeysUnchanged DEF CachesInv
  <2>3. CASE ImportCommits
    BY <2>3, KeysStep, RestoreStep DEF ImportCommits, CachesInv
  <2>4. CASE ImportInvalidates
    BY <2>4, KeysUnchanged, RestoreStep DEF ImportInvalidates, CachesInv
  <2>5. CASE UNCHANGED vars
    BY <2>5, KeysUnchanged, SettingsUnchanged DEF vars, CachesInv
  <2> QED BY <2>1, <2>2, <2>3, <2>4, <2>5 DEF Next
<1> QED BY <1>1, <1>2, PTL DEF Spec

\* The variables of both caches keep their types.
THEOREM CachesTypeCorrect == Spec => []CachesTypeOK
<1>1. CachesInv => CachesTypeOK
  BY DEF CachesInv, CachesTypeOK, KeysInv, SettingsInv
<1> QED BY <1>1, CachesInvHolds, PTL

\* The settings are stale only after calls that overlapped.
THEOREM SettingsAreFresh == Spec => []StaleOnlyByRace
<1>1. CachesInv => StaleOnlyByRace
  BY DEF CachesInv, SettingsInv
<1> QED BY <1>1, CachesInvHolds, PTL

\* How a step can let a lookup in: with a fresh entry, or with a row just read.
LEMMA LetIn ==
  ASSUME KeysInv, KeyNext \/ RestoreKeys, NEW l \in Lookups, Authorised(l)
  PROVE  \/ Fresh(subject'[l])
         \/ InFlight(subject'[l])
<1> USE DEF KeysInv, KeysTypeOK, Authorised
<1>1. ASSUME NEW i \in Lookups, NEW k \in Keys, Hit(i, k) PROVE Fresh(subject'[l])
  BY <1>1 DEF Hit
<1>2. ASSUME NEW i \in Lookups, Fill(i) PROVE InFlight(subject'[l])
  BY <1>2 DEF Fill, InFlight
<1>3. ASSUME NEW i \in Lookups, \/ \E k \in Keys : Miss(i, k)
                                \/ ReadKey(i) \/ LookupEnds(i)
      PROVE  FALSE
  BY <1>3 DEF Miss, ReadKey, LookupEnds
<1>4. ASSUME NEW d \in Revokers, \/ \E k \in Keys : RevokerReads(d, k)
                                 \/ DeleteSaves(d) \/ DeleteInvalidates(d)
                                 \/ LoginInvalidates(d) \/ LoginSaves(d) \/ SaveFails(d)
      PROVE  FALSE
  BY <1>4 DEF RevokerReads, DeleteSaves, DeleteInvalidates, LoginInvalidates, LoginSaves,
              SaveFails
<1>5. ~RestoreKeys /\ ~Tick /\ \A k \in Keys : ~Expires(k)
  BY DEF RestoreKeys, Tick, Expires
<1> QED BY <1>1, <1>2, <1>3, <1>4, <1>5 DEF KeyNext, KeyStep

\* Every step that lets a lookup in is a step of the keys.
LEMMA KeysDecide ==
  ASSUME [Next]_vars, NEW l \in Lookups, Authorised(l)
  PROVE  KeyNext \/ RestoreKeys
BY DEF Next, SettingsNext, ImportCommits, ImportInvalidates, vars, keyVars, Authorised

\* A key that lost its validity is accepted for less than TTL.
THEOREM KeysAreRevoked == Spec => RevocationBites
<1>1. CachesInv /\ [Next]_vars =>
        [\A l \in Lookups : Authorised(l) => now < lastGood[subject'[l]] + TTL]_keyVars
  <2> SUFFICES ASSUME CachesInv, [Next]_vars, NEW l \in Lookups, Authorised(l)
               PROVE  now < lastGood[subject'[l]] + TTL
    OBVIOUS
  <2>1. KeyNext \/ RestoreKeys
    BY KeysDecide
  <2>2. Fresh(subject'[l]) \/ InFlight(subject'[l])
    BY <2>1, LetIn DEF CachesInv
  <2>3. subject'[l] \in Keys
    BY <2>1, KeysStep DEF CachesInv, KeysInv, KeysTypeOK
  <2> QED
    BY <2>2, <2>3, KeyAssumption
       DEF CachesInv, KeysInv, KeysTypeOK, GoodIsNow, EntriesEnd, Fresh
<1> QED BY <1>1, CachesInvHolds, PTL DEF Spec, RevocationBites

\* A DELETE that met no lookup under way is final.
THEOREM DeletesHold == Spec => DeleteHolds
<1>1. CachesInv /\ [Next]_vars =>
        [\A l \in Lookups : Authorised(l) => subject'[l] \notin deleted]_keyVars
  <2> SUFFICES ASSUME CachesInv, [Next]_vars, NEW l \in Lookups, Authorised(l)
               PROVE  subject'[l] \notin deleted
    OBVIOUS
  <2>1. KeyNext \/ RestoreKeys
    BY KeysDecide
  <2>2. Fresh(subject'[l]) \/ InFlight(subject'[l])
    BY <2>1, LetIn DEF CachesInv
  <2> QED
    BY <2>2 DEF CachesInv, KeysInv, KeysTypeOK, DeletedIsGone, Fresh
<1> QED BY <1>1, CachesInvHolds, PTL DEF Spec, DeleteHolds

=============================================================================
