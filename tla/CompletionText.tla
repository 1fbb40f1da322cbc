---------------------------- MODULE CompletionText ----------------------------
(***************************************************************************)
(* The text of one streamed completion, from the events of the worker to   *)
(* the client: the stop filter of the engine's stream                      *)
(* (src/ExLlamaSharp/Engine/ExLlamaV3WorkerEngine.cs), a second one in the *)
(* SSE writer (src/ExLlamaSharp.Server/OpenAi/OpenAiSseWriter.cs), both    *)
(* instances of src/ExLlamaSharp/Chat/StreamingStopFilter.cs, and the      *)
(* writer's coalescer.                                                     *)
(*                                                                         *)
(* The worker may cut the text into pieces anywhere; a marker that is cut  *)
(* in two must not reach the client for that.                              *)
(***************************************************************************)
EXTENDS Integers, Sequences, FiniteSetsExt, SequencesExt

CONSTANTS
  Characters,
  Markers,    \* _markers: the stop strings
  MaxChunk,   \* bound on the length of a piece
  MaxText     \* bound on the length of the text

\* Where i in s a whole marker begins.
Starts(s) ==
  {i \in 1..Len(s) :
     \E m \in Markers : i + Len(m) - 1 <= Len(s) /\ SubSeq(s, i, i + Len(m) - 1) = m}

\* No marker lies inside another one, unless it ends with it: which of the two a text
\* is cut at would depend on how it comes in pieces.  DefaultStopStrings are so.
ASSUME MarkersAssumption ==
  /\ Markers \subseteq Seq(Characters) \ {<<>>}
  /\ \A m \in Markers : Starts(Front(m)) = {}

VARIABLES
  text,     \* history: what the worker has sent
  engine,   \* the filter of SubmitStreamAsync
  filter,   \* the filter of WriteLiveAsync
  buffer,   \* the coalescer's
  sent,     \* what the client has
  phase     \* the stream's: "streaming", "ended" or "broken"

vars == <<text, engine, filter, buffer, sent, phase>>

-----------------------------------------------------------------------------
(* StreamingStopFilter: [hold, Stopped], and what a call emits *)

NewFilter == [hold |-> <<>>, stopped |-> FALSE]

\* Whether the end of s of length n may still become a marker.
MayGrow(s, n) ==
  \E m \in Markers : n <= Len(m) /\ SubSeq(m, 1, n) = SubSeq(s, Len(s) - n + 1, Len(s))

\* Faulty: the whole of s is never held.
LongestProperSuffix(s) == Max({0} \cup {n \in 1..(Len(s) - 1) : MayGrow(s, n)})

LongestMarkerPrefixSuffix(s) == Max({0} \cup {n \in 1..Len(s) : MayGrow(s, n)})

Emits(piece, hold, stopped) ==
  [emit |-> piece, filter |-> [hold |-> hold, stopped |-> stopped]]

\* Faulty: what was held is not put before the new piece.
PushForgetsHold(f, piece) ==
  LET n == LongestMarkerPrefixSuffix(piece)
  IN  IF f.stopped \/ piece = <<>> THEN Emits(<<>>, f.hold, f.stopped)
      ELSE IF Starts(piece) # {} THEN Emits(SubSeq(piece, 1, Min(Starts(piece)) - 1), <<>>, TRUE)
      ELSE Emits(SubSeq(piece, 1, Len(piece) - n),
                 SubSeq(piece, Len(piece) - n + 1, Len(piece)), FALSE)

Push(f, piece) ==
  LET s == f.hold \o piece
      n == LongestMarkerPrefixSuffix(s)
  IN  IF f.stopped \/ piece = <<>> THEN Emits(<<>>, f.hold, f.stopped)
      ELSE IF Starts(s) # {} THEN Emits(SubSeq(s, 1, Min(Starts(s)) - 1), <<>>, TRUE)
      ELSE Emits(SubSeq(s, 1, Len(s) - n), SubSeq(s, Len(s) - n + 1, Len(s)), FALSE)

Flush(f) == Emits(IF f.stopped THEN <<>> ELSE f.hold, <<>>, f.stopped)

\* Faulty: nothing is flushed at the end.
ThroughDropsHold(f, piece, last) ==
  LET pushed == Push(f, piece)
  IN  IF last THEN Emits(pushed.emit, <<>>, pushed.filter.stopped) ELSE pushed

\* A push, and at the end a flush.
Through(f, piece, last) ==
  LET pushed == Push(f, piece)
      flushed == Flush(pushed.filter)
  IN  IF last \/ pushed.filter.stopped
        THEN [flushed EXCEPT !.emit = pushed.emit \o flushed.emit]
        ELSE pushed

-----------------------------------------------------------------------------

Init ==
  /\ text = <<>> /\ buffer = <<>> /\ sent = <<>>
  /\ engine = NewFilter /\ filter = NewFilter
  /\ phase = "streaming"

Chunks == UNION {[1..n -> Characters] : n \in 0..MaxChunk}

\* An event of the worker, through both filters: a delta without text, unless it is
\* the last, is not handed on.  What comes out is appended to the buffer, which is
\* written with it if the last write is 15 ms ago, and at the end in any case.
Event(piece, eos) ==
  LET delta == Through(engine, piece, eos)
      last == eos \/ delta.filter.stopped
      out == Through(filter, delta.emit, last)
      over == last \/ out.filter.stopped
  IN
  /\ phase = "streaming"
  /\ Len(text) + Len(piece) <= MaxText
  /\ text' = text \o piece
  /\ engine' = delta.filter
  /\ filter' = out.filter
  /\ \/ /\ ~over
        /\ buffer' = buffer \o out.emit
        /\ UNCHANGED <<sent, phase>>
     \/ /\ ~over /\ out.emit # <<>>
        /\ sent' = sent \o buffer \o out.emit
        /\ buffer' = <<>>
        /\ UNCHANGED phase
     \/ /\ over
        /\ sent' = sent \o buffer \o out.emit
        /\ buffer' = <<>>
        /\ phase' = "ended"

\* The client is gone, or the stream of the engine throws: nothing more is written.
Breaks ==
  /\ phase = "streaming"
  /\ phase' = "broken"
  /\ UNCHANGED <<text, engine, filter, buffer, sent>>

Next ==
  \/ \E piece \in Chunks, eos \in BOOLEAN : Event(piece, eos)
  \/ Breaks

Spec == Init /\ [][Next]_vars

-----------------------------------------------------------------------------

\* What a client should get of a text: what is before its first marker.
Before(s) == IF Starts(s) = {} THEN s ELSE SubSeq(s, 1, Min(Starts(s)) - 1)

\* Whatever the pieces, a stream that ends has sent the text before the first marker,
\* and all of it: neither is a marker leaked nor a false start of one swallowed.
CutAtFirstMarker == phase = "ended" => sent = Before(text)

\* At no time has the client been sent anything that is to be cut later: no part of a
\* marker that is not yet whole.
NothingToTakeBack == IsPrefix(sent \o buffer, Before(text))

\* Nothing is lost on the way, and each filter holds back only what may still become a
\* marker; text that is known to be plain is sent or in the coalescer.
HeldForAReason ==
  phase = "streaming" =>
    /\ text = sent \o buffer \o filter.hold \o engine.hold
    /\ \A f \in {engine, filter} :
         f.hold # <<>> => \E m \in Markers : IsStrictPrefix(f.hold, m)

=============================================================================
