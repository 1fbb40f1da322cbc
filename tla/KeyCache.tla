------------------------------- MODULE KeyCache -------------------------------
(***************************************************************************)
(* The cache of API keys in front of the database                          *)
(* (src/ExLlamaSharp.Server/Services/KeyCacheService.cs), as the           *)
(* authentication middleware reads it, and the calls that revoke keys: the *)
(* DELETE of the API and the Keys page save and then invalidate, the login *)
(* page invalidates the keys of earlier sessions and then saves.           *)
(*                                                                         *)
(* A lookup that misses reads the row and then fills the cache, with an    *)
(* await between the two, so that an invalidation may come in between.     *)
(***************************************************************************)
EXTENDS Integers

CONSTANTS
  Keys,      \* API keys, by their hash
  Lookups,   \* requests that look a key up, used over and over
  Revokers,  \* calls that revoke a key, used over and over
  TTL,       \* how long an entry of the cache lives
  MaxTime    \* bound on the clock

ASSUME KeyAssumption ==
  /\ TTL \in Nat \ {0}
  /\ MaxTime \in Nat

VARIABLES
  now,
  valid,     \* the row is there, not revoked and not expired
  cache,     \* when the entry of a key expires, 0 if there is none
  lookup,    \* where each lookup is
  subject,   \* the key it looks up
  revoker,   \* where each revoking call is
  target,    \* the key it revokes
  lastGood,  \* history: when the key was last valid, or held by a lookup that
             \* had read it while it was
  deleted    \* history: keys whose DELETE invalidated a cache nobody was to fill

keyVars == <<now, valid, cache, lookup, subject, revoker, target, lastGood, deleted>>

-----------------------------------------------------------------------------

\* Some lookup has read the row of k and not yet cached it.
InFlight(k) == \E l \in Lookups : lookup[l] = "copied" /\ subject[l] = k

Fresh(k) == now < cache[k]

KeyInit ==
  /\ now = 0
  /\ valid = [k \in Keys |-> TRUE]
  /\ cache = [k \in Keys |-> 0]
  /\ lookup = [l \in Lookups |-> "idle"]
  /\ subject \in [Lookups -> Keys]
  /\ revoker = [d \in Revokers |-> "idle"]
  /\ target \in [Revokers -> Keys]
  /\ lastGood = [k \in Keys |-> 0]
  /\ deleted = {}

\* The two histories, carried along by every step.
Remember ==
  lastGood' = [k \in Keys |-> IF valid'[k] \/ InFlight(k)' THEN now' ELSE lastGood[k]]

Forget == deleted' = {k \in deleted : ~valid'[k]}

-----------------------------------------------------------------------------
(* GetAsync, called by the middleware for every request *)

\* Faulty: the entry lives on with every hit.
HitSlides(l, k) ==
  /\ lookup[l] = "idle"
  /\ Fresh(k)
  /\ lookup' = [lookup EXCEPT ![l] = "authorised"]
  /\ subject' = [subject EXCEPT ![l] = k]
  /\ cache' = [cache EXCEPT ![k] = now + TTL]
  /\ UNCHANGED <<now, valid, revoker, target>>

\* TryGetValue finds an entry that has not expired.
Hit(l, k) ==
  /\ lookup[l] = "idle"
  /\ Fresh(k)
  /\ lookup' = [lookup EXCEPT ![l] = "authorised"]
  /\ subject' = [subject EXCEPT ![l] = k]
  /\ UNCHANGED <<now, valid, cache, revoker, target>>

Miss(l, k) ==
  /\ lookup[l] = "idle"
  /\ ~Fresh(k)
  /\ lookup' = [lookup EXCEPT ![l] = "reading"]
  /\ subject' = [subject EXCEPT ![l] = k]
  /\ UNCHANGED <<now, valid, cache, revoker, target>>

\* The query, which leaves revoked and expired keys out: without a row, 401.
ReadKey(l) ==
  /\ lookup[l] = "reading"
  /\ lookup' = [lookup EXCEPT ![l] = IF valid[subject[l]] THEN "copied" ELSE "idle"]
  /\ UNCHANGED <<now, valid, cache, subject, revoker, target>>

Fill(l) ==
  /\ lookup[l] = "copied"
  /\ cache' = [cache EXCEPT ![subject[l]] = now + TTL]
  /\ lookup' = [lookup EXCEPT ![l] = "authorised"]
  /\ UNCHANGED <<now, valid, subject, revoker, target>>

\* The request is over, or its client gave up while the row was being read.
LookupEnds(l) ==
  /\ lookup[l] \in {"reading", "authorised"}
  /\ lookup' = [lookup EXCEPT ![l] = "idle"]
  /\ UNCHANGED <<now, valid, cache, subject, revoker, target>>

-----------------------------------------------------------------------------
(* DeleteKeyAsync and the Keys page; the login page *)

\* FirstOrDefaultAsync; a key that is not there is answered with 404.
RevokerReads(d, k) ==
  /\ revoker[d] = "idle"
  /\ \/ revoker' = [revoker EXCEPT ![d] = "delete"]
     \/ /\ valid[k]
        /\ revoker' = [revoker EXCEPT ![d] = "login"]
  /\ target' = [target EXCEPT ![d] = k]
  /\ UNCHANGED <<now, valid, cache, lookup, subject>>

DeleteSaves(d) ==
  /\ revoker[d] = "delete"
  /\ valid' = [valid EXCEPT ![target[d]] = FALSE]
  /\ revoker' = [revoker EXCEPT ![d] = "saved"]
  /\ UNCHANGED <<now, cache, lookup, subject, target>>

\* Faulty: the cache is not told.
DeleteLeavesCache(d) ==
  /\ revoker[d] = "saved"
  /\ revoker' = [revoker EXCEPT ![d] = "idle"]
  /\ UNCHANGED <<now, valid, cache, lookup, subject, target>>

DeleteInvalidates(d) ==
  /\ revoker[d] = "saved"
  /\ cache' = [cache EXCEPT ![target[d]] = 0]
  /\ revoker' = [revoker EXCEPT ![d] = "idle"]
  /\ UNCHANGED <<now, valid, lookup, subject, target>>

\* The login page invalidates while the row is still valid, and saves at the end.
LoginInvalidates(d) ==
  /\ revoker[d] = "login"
  /\ cache' = [cache EXCEPT ![target[d]] = 0]
  /\ revoker' = [revoker EXCEPT ![d] = "unsaved"]
  /\ UNCHANGED <<now, valid, lookup, subject, target>>

LoginSaves(d) ==
  /\ revoker[d] = "unsaved"
  /\ valid' = [valid EXCEPT ![target[d]] = FALSE]
  /\ revoker' = [revoker EXCEPT ![d] = "idle"]
  /\ UNCHANGED <<now, cache, lookup, subject, target>>

\* SaveChangesAsync throws, or the row is gone since it was read.
SaveFails(d) ==
  /\ revoker[d] \in {"delete", "unsaved"}
  /\ revoker' = [revoker EXCEPT ![d] = "idle"]
  /\ UNCHANGED <<now, valid, cache, lookup, subject, target>>

-----------------------------------------------------------------------------

\* ExpiresAt passes.
Expires(k) ==
  /\ valid[k]
  /\ valid' = [valid EXCEPT ![k] = FALSE]
  /\ UNCHANGED <<now, cache, lookup, subject, revoker, target>>

Tick ==
  /\ now < MaxTime
  /\ now' = now + 1
  /\ UNCHANGED <<valid, cache, lookup, subject, revoker, target>>

\* A restored backup brings its own rows, and leaves the cache of keys alone.
RestoreKeys ==
  /\ valid' \in [Keys -> BOOLEAN]
  /\ UNCHANGED <<now, cache, lookup, subject, revoker, target>>
  /\ Remember /\ Forget

KeyStep ==
  \/ \E l \in Lookups :
       \/ \E k \in Keys : Hit(l, k) \/ Miss(l, k)
       \/ ReadKey(l) \/ Fill(l) \/ LookupEnds(l)
  \/ \E d \in Revokers :
       \/ \E k \in Keys : RevokerReads(d, k)
       \/ DeleteSaves(d) \/ LoginInvalidates(d) \/ LoginSaves(d) \/ SaveFails(d)
  \/ \E k \in Keys : Expires(k)
  \/ Tick

KeyNext ==
  \/ KeyStep /\ Remember /\ Forget
  \/ \E d \in Revokers :
       /\ DeleteInvalidates(d) /\ Remember
       /\ deleted' = deleted \cup {k \in {target[d]} : ~valid[k] /\ ~InFlight(k)}

-----------------------------------------------------------------------------

KeysTypeOK ==
  /\ now \in 0..MaxTime
  /\ valid \in [Keys -> BOOLEAN]
  /\ cache \in [Keys -> Nat]
  /\ lookup \in [Lookups -> {"idle", "reading", "copied", "authorised"}]
  /\ subject \in [Lookups -> Keys]
  /\ revoker \in [Revokers -> {"idle", "delete", "saved", "login", "unsaved"}]
  /\ target \in [Revokers -> Keys]
  /\ lastGood \in [Keys -> 0..MaxTime]
  /\ deleted \subseteq Keys

\* The lookup is answered with the key in this step.
Authorised(l) == lookup[l] # "authorised" /\ lookup'[l] = "authorised"

\* However a key lost its validity - revoked, expired, replaced by a backup - and
\* whatever was under way, it is accepted less than TTL after it was last valid or
\* in the hands of a lookup that read it while it was.
RevocationBites ==
  [][\A l \in Lookups : Authorised(l) => now < lastGood[subject'[l]] + TTL]_keyVars

\* A DELETE that found no lookup between its read and its fill is final at once:
\* no request is let in with that key until a backup makes it valid again.
DeleteHolds ==
  [][\A l \in Lookups : Authorised(l) => subject'[l] \notin deleted]_keyVars

=============================================================================
