------------------------------ MODULE PageTable ------------------------------
(***************************************************************************)
(* The paged KV-cache table of the native engine                           *)
(* (native/exllamasharp/src/pagetable.cpp): reference counts, the free     *)
(* list, and the index from prefix hashes to pages.  The operations take a *)
(* table and return the table after them: each runs under the table's own  *)
(* mutex, and the scheduler makes several of them in one of its steps.     *)
(*                                                                         *)
(* The free list is a set: its order, which defrag rearranges, only        *)
(* decides which of the free pages is handed out, and a page's number has  *)
(* no other meaning.  allocated is false exactly for the pages on it: the  *)
(* two change together.  A prefix's hash is the prefix: collisions of the  *)
(* 64-bit hash, and the value 0, are left out.                             *)
(***************************************************************************)
EXTENDS Integers, FiniteSets, Sequences, Functions

CONSTANTS
  Pages,     \* page indices
  Prefixes,  \* the token prefixes that are looked up
  NoPage,    \* the end() of the index
  NoHash     \* the hash 0

ASSUME PageAssumption ==
  /\ IsFiniteSet(Pages)
  /\ NoPage \notin Pages
  /\ NoHash \notin Prefixes

\* The constructor.
NewTable ==
  [free |-> Pages,
   ref |-> [p \in Pages |-> 0],
   hash |-> [p \in Pages |-> NoHash],
   index |-> [h \in Prefixes |-> NoPage]]

Tables ==
  [free : SUBSET Pages,
   ref : [Pages -> Nat],
   hash : [Pages -> Prefixes \cup {NoHash}],
   index : [Prefixes -> Pages \cup {NoPage}]]

\* Which n pages allocate pops, when there are that many.
Pick(T, n) == CHOOSE s \in [1..n -> T.free] : IsInjective(s)

\* allocate: the pages of Q become used by one holder, without a hash.
Allocate(T, Q) ==
  [T EXCEPT !.free = @ \ Q,
            !.ref = [p \in Pages |-> IF p \in Q THEN 1 ELSE @[p]],
            !.hash = [p \in Pages |-> IF p \in Q THEN NoHash ELSE @[p]]]

\* The pages of Q whose last holder lets go.
Dropped(T, Q) == {p \in Q \ T.free : T.ref[p] = 1}

\* Mutation of Free: the page's entry stays in the index.
FreeKeepsEntry(T, Q) ==
  LET gone == Dropped(T, Q) IN
    [free |-> T.free \cup gone,
     ref |-> [p \in Pages |-> IF p \in Q \ T.free THEN T.ref[p] - 1 ELSE T.ref[p]],
     hash |-> T.hash,
     index |-> T.index]

\* free, for distinct pages: those without a holder lose their hash, their
\* entry in the index if it is theirs, and return to the list.
Free(T, Q) ==
  LET gone == Dropped(T, Q) IN
    [free |-> T.free \cup gone,
     ref |-> [p \in Pages |-> IF p \in Q \ T.free THEN T.ref[p] - 1 ELSE T.ref[p]],
     hash |-> [p \in Pages |-> IF p \in gone THEN NoHash ELSE T.hash[p]],
     index |-> [h \in Prefixes |->
                  IF T.index[h] \in gone /\ T.hash[T.index[h]] = h
                    THEN NoPage ELSE T.index[h]]]

\* set_prefix_hash, for an allocated page: the entry it had, if any, goes.
SetPrefixHash(T, p, h) ==
  [T EXCEPT !.hash[p] = h,
            !.index = [g \in Prefixes |->
                         IF g = h THEN p
                         ELSE IF g = T.hash[p] /\ @[g] = p THEN NoPage ELSE @[g]]]

\* lookup_prefix finds an entry, and the page still is what the entry says.
Hit(T, h) ==
  T.index[h] # NoPage /\ T.index[h] \notin T.free /\ T.hash[T.index[h]] = h

\* lookup_prefix that hits: the caller becomes a holder.
AddHolder(T, p) == [T EXCEPT !.ref[p] = @ + 1]

=============================================================================
