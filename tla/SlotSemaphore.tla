---------------------------- MODULE SlotSemaphore ----------------------------
(***************************************************************************)
(* What an admission queue promises its callers: a semaphore whose slots   *)
(* are handed on in the order of the line, highest priority first and then *)
(* by arrival.  It may be resized at any time, also below the slots held.  *)
(* There is no counter, no list and no lock here, and a caller that gives  *)
(* up is gone at once.                                                     *)
(***************************************************************************)
EXTENDS Integers, FiniteSets

CONSTANTS
  Requests   \* the callers, each used once

VARIABLES
  slots,     \* how many of them may hold a slot
  state,     \* "new", "waiting", "held" or "gone"
  order      \* the priority and the arrival number a waiter came with

semVars == <<slots, state, order>>

Waiting == {r \in Requests : state[r] = "waiting"}
Held == {r \in Requests : state[r] = "held"}
FreeSlot == Cardinality(Held) < slots

Precedes(a, b) ==
  \/ order[a].Priority > order[b].Priority
  \/ /\ order[a].Priority = order[b].Priority
     /\ order[a].Seq < order[b].Seq

FirstInLine(r) == r \in Waiting /\ \A o \in Waiting \ {r} : Precedes(r, o)

SemInit == state = [r \in Requests |-> "new"]

\* A caller that finds a slot free and nobody waiting.
Enter(r) ==
  /\ state[r] = "new" /\ Waiting = {} /\ FreeSlot
  /\ state' = [state EXCEPT ![r] = "held"]
  /\ UNCHANGED <<slots, order>>

\* Any other caller goes to the end of its priority's line.
Queue(r) ==
  /\ state[r] = "new"
  /\ state' = [state EXCEPT ![r] = "waiting"]
  /\ order' = [order EXCEPT ![r] = order'[r]]
  /\ \A o \in Waiting : order[o].Seq < order'[r].Seq
  /\ UNCHANGED slots

GiveUp(r) ==
  /\ state[r] = "waiting"
  /\ state' = [state EXCEPT ![r] = "gone"]
  /\ UNCHANGED <<slots, order>>

Grant(r) ==
  /\ FirstInLine(r) /\ FreeSlot
  /\ state' = [state EXCEPT ![r] = "held"]
  /\ UNCHANGED <<slots, order>>

\* A holder leaves, alone or with its slot handed on in the same step.
Leave(r) ==
  /\ state[r] = "held"
  /\ state' = [state EXCEPT ![r] = "gone"]
  /\ UNCHANGED <<slots, order>>

HandOn(r, o) ==
  /\ state[r] = "held" /\ FirstInLine(o)
  /\ Cardinality(Held) <= slots
  /\ state' = [state EXCEPT ![r] = "gone", ![o] = "held"]
  /\ UNCHANGED <<slots, order>>

Resize == UNCHANGED <<state, order>>

SemNext ==
  \/ Resize
  \/ \E r \in Requests :
       \/ Enter(r) \/ Queue(r) \/ GiveUp(r) \/ Grant(r) \/ Leave(r)
       \/ \E o \in Requests : HandOn(r, o)

SemSpec == SemInit /\ [][SemNext]_semVars

=============================================================================
