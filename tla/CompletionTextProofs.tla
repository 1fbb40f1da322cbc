------------------------- MODULE CompletionTextProofs -------------------------
(***************************************************************************)
(* What the two stop filters promise, for any characters, any markers, any *)
(* text and any way of cutting it into pieces: the client gets the text    *)
(* before the first marker, all of it, and nothing that is cut later.      *)
(***************************************************************************)
EXTENDS CompletionText, SequenceTheorems, WellFoundedInduction, TLAPS

Text == Seq(Characters)

-----------------------------------------------------------------------------
(* Least and greatest numbers *)

\* A set of naturals that is not empty has a least member, and Min gives it.
LEMMA MinIsLeast ==
  ASSUME NEW T, T \subseteq Nat, T # {}
  PROVE  Min(T) \in T /\ \A y \in T : Min(T) <= y
<1> DEFINE R == OpToRel(<, Nat)
<1>1. IsWellFoundedOn(R, Nat)
  BY NatLessThanWellFounded
<1>2. PICK x \in T : \A y \in T : ~(<<y, x>> \in R)
  <2> HIDE DEF R
  <2> QED BY <1>1, WFMin
<1>3. \A y \in T : ~(y < x)
  BY <1>2 DEF OpToRel
<1>4. \E z \in T : \A y \in T : z <= y
  BY <1>3
<1> QED BY <1>4 DEF Min

\* A bounded one has a greatest member, and Max gives it.
LEMMA MaxIsGreatest ==
  ASSUME NEW n \in Nat, NEW T, T \subseteq 0..n, T # {}
  PROVE  Max(T) \in T /\ \A y \in T : y <= Max(T)
<1> DEFINE U == {n - x : x \in T}
<1>1. U \subseteq Nat /\ U # {}
  <2>1. \A x \in T : n - x \in Nat
    OBVIOUS
  <2>2. PICK x \in T : TRUE
    OBVIOUS
  <2>3. n - x \in U
    BY <2>2
  <2> QED BY <2>1, <2>3
<1> HIDE DEF U
<1>2. Min(U) \in U /\ \A u \in U : Min(U) <= u
  BY <1>1, MinIsLeast
<1>3. PICK x \in T : Min(U) = n - x
  BY <1>2 DEF U
<1>4. \A y \in T : n - x <= n - y
  BY <1>2, <1>3 DEF U
<1>5. \A y \in T : x >= y
  BY <1>4
<1>6. \E z \in T : \A y \in T : z >= y
  BY <1>5
<1>7. Max(T) \in T /\ \A y \in T : Max(T) >= y
  BY <1>6 DEF Max
<1> QED BY <1>7

-----------------------------------------------------------------------------
(* Markers in a text, character by character *)

\* The marker m stands in s at the place i.
Stands(m, s, i) ==
  i + Len(m) - 1 <= Len(s) /\ \A k \in 1..Len(m) : s[i + k - 1] = m[k]

\* The end of s of length n is the beginning of the marker m.
Opens(m, s, n) ==
  n <= Len(m) /\ \A k \in 1..n : m[k] = s[Len(s) - n + k]

\* What the types say of a text and of the markers.
LEMMA TextFacts ==
  ASSUME NEW s \in Text
  PROVE  /\ Len(s) \in Nat /\ \A k \in 1..Len(s) : s[k] \in Characters
         /\ \A m \in Markers : m \in Text /\ Len(m) \in Nat /\ Len(m) > 0
<1>1. Len(s) \in Nat /\ \A k \in 1..Len(s) : s[k] \in Characters
  BY LenProperties, ElementOfSeq DEF Text
<1>2. ASSUME NEW m \in Markers PROVE m \in Text /\ Len(m) \in Nat /\ Len(m) > 0
  <2>1. m \in Seq(Characters) /\ m # <<>>
    BY MarkersAssumption
  <2> QED BY <2>1, EmptySeq DEF Text
<1> QED BY <1>1, <1>2

\* A piece of a text.
LEMMA PieceFacts ==
  ASSUME NEW s \in Text, NEW a \in 1..(Len(s) + 1), NEW b \in (a - 1)..Len(s)
  PROVE  /\ SubSeq(s, a, b) \in Text /\ Len(SubSeq(s, a, b)) = b - a + 1
         /\ \A k \in 1..(b - a + 1) : SubSeq(s, a, b)[k] = s[a + k - 1]
<1>1. Len(s) \in Nat /\ a \in Int /\ b \in Int /\ a - 1 <= b
  BY TextFacts
<1>2. \A k \in a..b : s[k] \in Characters
  BY <1>1, TextFacts
<1>3. Len(SubSeq(s, a, b)) = IF a <= b THEN b - a + 1 ELSE 0
  BY <1>1, <1>2, SubSeqProperties
<1> QED BY <1>1, <1>2, <1>3, SubSeqProperties DEF Text

\* Where two texts are the same.
LEMMA SameText ==
  ASSUME NEW s \in Text, NEW t \in Text, Len(s) = Len(t), \A k \in 1..Len(s) : s[k] = t[k]
  PROVE  s = t
BY SeqEqual DEF Text

\* Starts, place by place.
LEMMA StartsAt ==
  ASSUME NEW s \in Text
  PROVE  /\ Starts(s) \subseteq 1..Len(s)
         /\ \A i \in 1..Len(s) : i \in Starts(s) <=> \E m \in Markers : Stands(m, s, i)
<1>1. Len(s) \in Nat
  BY TextFacts
<1>2. ASSUME NEW i \in 1..Len(s), NEW m \in Markers, i + Len(m) - 1 <= Len(s)
      PROVE  SubSeq(s, i, i + Len(m) - 1) = m <=> Stands(m, s, i)
  <2> DEFINE e == i + Len(m) - 1
             u == SubSeq(s, i, e)
  <2>1. m \in Text /\ Len(m) \in Nat /\ Len(m) > 0
    BY TextFacts
  <2>2. i \in 1..(Len(s) + 1) /\ e \in (i - 1)..Len(s) /\ e - i + 1 = Len(m)
    BY <1>1, <1>2, <2>1
  <2> HIDE DEF e
  <2>3. u \in Text /\ Len(u) = e - i + 1 /\ \A k \in 1..(e - i + 1) : u[k] = s[i + k - 1]
    BY <2>2, PieceFacts
  <2> HIDE DEF u
  <2>4. u \in Text /\ Len(u) = Len(m) /\ \A k \in 1..Len(m) : u[k] = s[i + k - 1]
    BY <2>2, <2>3
  <2>5. ASSUME u = m PROVE Stands(m, s, i)
    BY <1>2, <2>4, <2>5 DEF Stands
  <2>6. ASSUME Stands(m, s, i) PROVE u = m
    <3>1. \A k \in 1..Len(u) : u[k] = m[k]
      BY <2>4, <2>6 DEF Stands
    <3> QED BY <2>1, <2>4, <3>1, SameText
  <2> QED BY <2>5, <2>6 DEF u, e
<1>3. \A i \in 1..Len(s) : i \in Starts(s) <=> \E m \in Markers : Stands(m, s, i)
  BY <1>2 DEF Starts, Stands
<1> QED BY <1>3 DEF Starts

\* MayGrow, character by character.
LEMMA GrowsAt ==
  ASSUME NEW s \in Text, NEW n \in 1..Len(s)
  PROVE  MayGrow(s, n) <=> \E m \in Markers : Opens(m, s, n)
<1>1. Len(s) \in Nat
  BY TextFacts
<1>2. ASSUME NEW m \in Markers, n <= Len(m)
      PROVE  SubSeq(m, 1, n) = SubSeq(s, Len(s) - n + 1, Len(s)) <=> Opens(m, s, n)
  <2> DEFINE a == Len(s) - n + 1
             u == SubSeq(m, 1, n)
             v == SubSeq(s, a, Len(s))
  <2>1. m \in Text /\ Len(m) \in Nat /\ 1 \in 1..(Len(m) + 1) /\ n \in (1 - 1)..Len(m) /\ n - 1 + 1 = n
    BY <1>1, <1>2, TextFacts
  <2>2. a \in 1..(Len(s) + 1) /\ Len(s) \in (a - 1)..Len(s) /\ Len(s) - a + 1 = n
        /\ \A k \in 1..n : a + k - 1 = Len(s) - n + k /\ 1 + k - 1 = k
    BY <1>1
  <2> HIDE DEF a
  <2>3. u \in Text /\ Len(u) = n - 1 + 1 /\ \A k \in 1..(n - 1 + 1) : u[k] = m[1 + k - 1]
    BY <2>1, PieceFacts
  <2>4. v \in Text /\ Len(v) = Len(s) - a + 1 /\ \A k \in 1..(Len(s) - a + 1) : v[k] = s[a + k - 1]
    BY <2>2, PieceFacts
  <2> HIDE DEF u, v
  <2>5. /\ u \in Text /\ v \in Text /\ Len(u) = n /\ Len(v) = n
        /\ \A k \in 1..n : u[k] = m[k] /\ v[k] = s[Len(s) - n + k]
    BY <2>1, <2>2, <2>3, <2>4
  <2>6. ASSUME u = v PROVE Opens(m, s, n)
    BY <1>2, <2>5, <2>6 DEF Opens
  <2>7. ASSUME Opens(m, s, n) PROVE u = v
    <3>1. \A k \in 1..Len(u) : u[k] = v[k]
      BY <2>5, <2>7 DEF Opens
    <3> QED BY <2>5, <3>1, SameText
  <2> QED BY <2>6, <2>7 DEF u, v, a
<1> QED BY <1>2 DEF MayGrow, Opens

\* Two texts one behind the other.
LEMMA JoinFacts ==
  ASSUME NEW s \in Text, NEW t \in Text
  PROVE  /\ s \o t \in Text /\ Len(s \o t) = Len(s) + Len(t)
         /\ \A k \in 1..Len(s) : (s \o t)[k] = s[k]
         /\ \A k \in 1..Len(t) : (s \o t)[Len(s) + k] = t[k]
<1>1. Len(s) \in Nat /\ Len(t) \in Nat
  BY TextFacts
<1>2. /\ s \o t \in Text /\ Len(s \o t) = Len(s) + Len(t)
      /\ \A i \in 1..(Len(s) + Len(t)) : (s \o t)[i] = IF i <= Len(s) THEN s[i] ELSE t[i - Len(s)]
  BY ConcatProperties DEF Text
<1>3. \A k \in 1..Len(s) : k \in 1..(Len(s) + Len(t)) /\ k <= Len(s)
  BY <1>1
<1>4. \A k \in 1..Len(t) : /\ Len(s) + k \in 1..(Len(s) + Len(t)) /\ ~(Len(s) + k <= Len(s))
                           /\ (Len(s) + k) - Len(s) = k
  BY <1>1
<1> QED BY <1>2, <1>3, <1>4

\* A marker in the beginning of a text is a marker in the text.
LEMMA PrefixStarts ==
  ASSUME NEW s \in Text, NEW t \in Text, Len(s) <= Len(t), \A k \in 1..Len(s) : s[k] = t[k]
  PROVE  Starts(s) \subseteq Starts(t)
<1> SUFFICES ASSUME NEW i \in Starts(s) PROVE i \in Starts(t)
  OBVIOUS
<1>1. Len(s) \in Nat /\ Len(t) \in Nat /\ i \in 1..Len(s)
  BY TextFacts, StartsAt
<1>2. PICK m \in Markers : Stands(m, s, i)
  BY <1>1, StartsAt
<1>3. Len(m) \in Nat
  BY TextFacts
<1>4. \A k \in 1..Len(m) : i + k - 1 \in 1..Len(s)
  BY <1>1, <1>2, <1>3 DEF Stands
<1>5. Stands(m, t, i)
  BY <1>1, <1>2, <1>3, <1>4 DEF Stands
<1>6. i \in 1..Len(t)
  BY <1>1
<1> QED BY <1>5, <1>6, StartsAt

\* What is before the first marker.
LEMMA CutFacts ==
  ASSUME NEW s \in Text
  PROVE  /\ Before(s) \in Text /\ Len(Before(s)) <= Len(s)
         /\ \A k \in 1..Len(Before(s)) : Before(s)[k] = s[k]
         /\ Starts(s) = {} => Before(s) = s
         /\ Starts(s) # {} => /\ Len(Before(s)) + 1 = Min(Starts(s))
                              /\ Min(Starts(s)) \in Starts(s)
                              /\ \A i \in Starts(s) : Min(Starts(s)) <= i
<1>1. Len(s) \in Nat /\ Starts(s) \subseteq 1..Len(s)
  BY TextFacts, StartsAt
<1>2. CASE Starts(s) = {}
  <2>1. Before(s) = s
    BY <1>2 DEF Before
  <2> QED BY <1>1, <1>2, <2>1
<1>3. CASE Starts(s) # {}
  <2> DEFINE i == Min(Starts(s))
  <2>1. i \in Starts(s) /\ \A y \in Starts(s) : i <= y
    <3>1. Starts(s) \subseteq Nat
      BY <1>1
    <3> QED BY <1>3, <3>1, MinIsLeast
  <2>2. Before(s) = SubSeq(s, 1, i - 1)
    BY <1>3 DEF Before
  <2>3. i \in 1..Len(s)
    BY <1>1, <2>1
  <2> HIDE DEF i
  <2>4. /\ 1 \in 1..(Len(s) + 1) /\ i - 1 \in (1 - 1)..Len(s) /\ (i - 1) - 1 + 1 = i - 1
        /\ i - 1 <= Len(s)
    BY <1>1, <2>3
  <2>5. /\ SubSeq(s, 1, i - 1) \in Text /\ Len(SubSeq(s, 1, i - 1)) = (i - 1) - 1 + 1
        /\ \A k \in 1..((i - 1) - 1 + 1) : SubSeq(s, 1, i - 1)[k] = s[1 + k - 1]
    BY <2>4, PieceFacts
  <2>6. \A k \in 1..(i - 1) : 1 + k - 1 = k
    BY <2>3
  <2>7. /\ Before(s) \in Text /\ Len(Before(s)) = i - 1
        /\ \A k \in 1..(i - 1) : Before(s)[k] = s[k]
    BY <2>2, <2>4, <2>5, <2>6
  <2>8. (i - 1) + 1 = i
    BY <2>3
  <2> QED BY <1>3, <2>1, <2>4, <2>7, <2>8 DEF i
<1> QED BY <1>2, <1>3

\* There is no marker in it, so that cutting it again leaves it as it is.
LEMMA BeforeIsPlain ==
  ASSUME NEW s \in Text
  PROVE  Starts(Before(s)) = {} /\ Before(Before(s)) = Before(s)
<1>1. /\ Before(s) \in Text /\ Len(Before(s)) <= Len(s)
      /\ \A k \in 1..Len(Before(s)) : Before(s)[k] = s[k]
  BY CutFacts
<1>2. Starts(Before(s)) \subseteq Starts(s)
  BY <1>1, PrefixStarts
<1>3. Starts(Before(s)) = {}
  <2> SUFFICES ASSUME NEW i \in Starts(Before(s)) PROVE FALSE
    OBVIOUS
  <2>1. i \in 1..Len(Before(s)) /\ i \in Starts(s) /\ Len(Before(s)) \in Nat
    BY <1>1, <1>2, StartsAt, TextFacts
  <2>2. Len(Before(s)) + 1 <= i
    BY <2>1, CutFacts
  <2> QED BY <2>1, <2>2
<1> QED BY <1>1, <1>3, CutFacts

\* LongestMarkerPrefixSuffix is the longest of the ends that may still become a marker.
LEMMA LongestFacts ==
  ASSUME NEW s \in Text
  PROVE  /\ LongestMarkerPrefixSuffix(s) \in 0..Len(s)
         /\ LongestMarkerPrefixSuffix(s) # 0 => MayGrow(s, LongestMarkerPrefixSuffix(s))
         /\ \A n \in 1..Len(s) : MayGrow(s, n) => n <= LongestMarkerPrefixSuffix(s)
<1> DEFINE T == {0} \cup {n \in 1..Len(s) : MayGrow(s, n)}
<1>1. Len(s) \in Nat
  BY TextFacts
<1>2. T \subseteq 0..Len(s) /\ T # {}
  BY <1>1
<1>3. LongestMarkerPrefixSuffix(s) = Max(T)
  BY DEF LongestMarkerPrefixSuffix
<1>4. \A n \in T : n # 0 => MayGrow(s, n)
  OBVIOUS
<1>5. \A n \in 1..Len(s) : MayGrow(s, n) => n \in T
  OBVIOUS
<1> HIDE DEF T
<1>6. Max(T) \in T /\ \A y \in T : y <= Max(T)
  BY <1>1, <1>2, MaxIsGreatest
<1> QED BY <1>2, <1>3, <1>4, <1>5, <1>6

-----------------------------------------------------------------------------
(* A filter that has not stopped: it was given the text in, and has let out through.
   What it holds is the longest end of all it was given that may still become a
   marker, and not only of the last piece. *)

Clean(f, in, out) ==
  /\ in \in Text /\ out \in Text /\ f.hold \in Text /\ f.stopped = FALSE
  /\ in = out \o f.hold
  /\ Starts(in) = {}
  /\ \A n \in 1..Len(in) : MayGrow(in, n) => n <= Len(f.hold)
  /\ f.hold # <<>> => MayGrow(in, Len(f.hold))

Joined(s, t, piece) == s = t \o piece

\* Behind its first n characters, t goes on with s.
HasBehind(t, n, s) == \A k \in 1..Len(s) : t[n + k] = s[k]

\* What such a filter looks at, its hold and the new piece, is the end of the text.
LEMMA LookFacts ==
  ASSUME NEW f, NEW in, NEW out, Clean(f, in, out), NEW piece \in Text,
         NEW s, Joined(s, f.hold, piece), NEW t, Joined(t, in, piece)
  PROVE  /\ s \in Text /\ t \in Text /\ t = out \o s
         /\ Len(s) \in Nat /\ Len(in) \in Nat /\ Len(out) \in Nat
         /\ Len(f.hold) \in Nat /\ Len(piece) \in Nat
         /\ Len(in) = Len(out) + Len(f.hold)
         /\ Len(t) = Len(out) + Len(s) /\ Len(t) = Len(in) + Len(piece)
         /\ HasBehind(t, Len(out), s) /\ HasBehind(t, 0, in)
<1> DEFINE h == f.hold
<1>1. /\ in \in Text /\ out \in Text /\ h \in Text /\ in = out \o h
      /\ s = h \o piece /\ t = in \o piece
  BY DEF Clean, Joined
<1> HIDE DEF h
<1>2. s \in Text /\ t \in Text
  BY <1>1, JoinFacts
<1>3. t = out \o s
  <2>1. out \in Seq(Characters) /\ h \in Seq(Characters) /\ piece \in Seq(Characters)
    BY <1>1 DEF Text
  <2>2. (out \o h) \o piece = out \o (h \o piece)
    BY <2>1, ConcatAssociative
  <2> QED BY <1>1, <2>2
<1>4. Len(in) = Len(out) + Len(h) /\ Len(t) = Len(in) + Len(piece)
  BY <1>1, JoinFacts
<1>5. Len(t) = Len(out) + Len(s) /\ \A k \in 1..Len(s) : t[Len(out) + k] = s[k]
  BY <1>1, <1>2, <1>3, JoinFacts
<1>6. \A k \in 1..Len(in) : t[k] = in[k]
  BY <1>1, JoinFacts
<1>7. Len(s) \in Nat /\ Len(in) \in Nat /\ Len(out) \in Nat /\ Len(h) \in Nat /\ Len(piece) \in Nat
  BY <1>1, <1>2, TextFacts
<1>8. HasBehind(t, Len(out), s) /\ HasBehind(t, 0, in)
  BY <1>5, <1>6, <1>7 DEF HasBehind
<1> QED BY <1>2, <1>3, <1>4, <1>5, <1>7, <1>8 DEF h

\* A marker that comes to be with the new piece begins in what the filter looks at: one
\* that began before it would have made the filter hold more.
LEMMA MarkersShift ==
  ASSUME NEW f, NEW in, NEW out, Clean(f, in, out), NEW piece \in Text,
         NEW s, Joined(s, f.hold, piece), NEW t, Joined(t, in, piece)
  PROVE  \A i \in 1..Len(t) :
           i \in Starts(t) <=> i - Len(out) \in 1..Len(s) /\ i - Len(out) \in Starts(s)
<1> DEFINE o == Len(out)
<1>1. /\ s \in Text /\ t \in Text /\ in \in Text /\ o \in Nat /\ Len(s) \in Nat
      /\ Len(in) \in Nat /\ Len(f.hold) \in Nat /\ Len(piece) \in Nat
      /\ Len(in) = o + Len(f.hold) /\ Len(t) = o + Len(s) /\ Len(t) = Len(in) + Len(piece)
      /\ \A k \in 1..Len(s) : t[o + k] = s[k]
      /\ \A k \in 1..Len(in) : t[k] = in[k]
  <2>1. in \in Text
    BY DEF Clean
  <2>2. /\ HasBehind(t, Len(out), s) /\ HasBehind(t, 0, in)
        /\ s \in Text /\ t \in Text
        /\ Len(in) = Len(out) + Len(f.hold) /\ Len(t) = Len(out) + Len(s)
        /\ Len(t) = Len(in) + Len(piece)
    BY LookFacts
  <2>3. /\ o \in Nat /\ Len(s) \in Nat
        /\ Len(in) \in Nat /\ Len(f.hold) \in Nat /\ Len(piece) \in Nat
    BY LookFacts
  <2>4. o = Len(out)
    OBVIOUS
  <2> HIDE DEF o
  <2> QED BY <2>1, <2>2, <2>3, <2>4 DEF HasBehind
<1> HIDE DEF o
<1>2. /\ Starts(in) = {}
      /\ \A n \in 1..Len(in) : MayGrow(in, n) => n <= Len(f.hold)
  BY DEF Clean
<1>3. ASSUME NEW i \in 1..Len(s), NEW m \in Markers
      PROVE  Stands(m, s, i) <=> Stands(m, t, o + i)
  <2>1. Len(m) \in Nat /\ Len(m) > 0 /\ Len(t) \in Nat
    BY <1>1, TextFacts
  <2>2. i + Len(m) - 1 <= Len(s) <=> (o + i) + Len(m) - 1 <= Len(t)
    BY <1>1, <2>1
  <2>3. ASSUME i + Len(m) - 1 <= Len(s), NEW k \in 1..Len(m)
        PROVE  t[(o + i) + k - 1] = s[i + k - 1]
    <3>1. i + k - 1 \in 1..Len(s) /\ (o + i) + k - 1 = o + (i + k - 1)
      BY <1>1, <2>1, <2>3
    <3> QED BY <1>1, <3>1
  <2> QED BY <2>2, <2>3 DEF Stands
<1>4. ASSUME NEW i \in 1..Len(t), i \in Starts(t)
      PROVE  i > o
  <2> SUFFICES ASSUME i <= o PROVE FALSE
    BY <1>1
  <2>1. PICK m \in Markers : Stands(m, t, i)
    BY <1>1, <1>4, StartsAt
  <2>2. Len(m) \in Nat /\ Len(m) > 0
    BY <1>1, TextFacts
  <2>3. CASE i + Len(m) - 1 <= Len(in)
    <3>1. i \in 1..Len(in)
      BY <1>1
    <3>2. \A k \in 1..Len(m) : i + k - 1 \in 1..Len(in)
      BY <1>1, <2>2, <2>3
    <3>3. Stands(m, in, i)
      BY <1>1, <2>1, <2>3, <3>2 DEF Stands
    <3> QED BY <1>1, <1>2, <3>1, <3>3, StartsAt
  <2>4. CASE i + Len(m) - 1 > Len(in)
    <3> DEFINE n == Len(in) - i + 1
    <3>1. n \in 1..Len(in) /\ n <= Len(m) /\ n > Len(f.hold)
      BY <1>1, <2>2, <2>4
    <3>2. \A k \in 1..n : /\ k \in 1..Len(m) /\ i + k - 1 = Len(in) - n + k
                          /\ i + k - 1 \in 1..Len(in)
      BY <1>1, <2>2, <2>4
    <3> HIDE DEF n
    <3>3. \A k \in 1..n : m[k] = in[Len(in) - n + k]
      <4>1. ASSUME NEW k \in 1..n PROVE m[k] = in[Len(in) - n + k]
        <5>1. k \in 1..Len(m) /\ i + k - 1 = Len(in) - n + k /\ i + k - 1 \in 1..Len(in)
          BY <3>2
        <5>2. t[i + k - 1] = m[k]
          BY <2>1, <5>1 DEF Stands
        <5>3. t[i + k - 1] = in[i + k - 1]
          BY <1>1, <5>1
        <5> QED BY <5>1, <5>2, <5>3
      <4> QED BY <4>1
    <3>4. MayGrow(in, n)
      BY <1>1, <3>1, <3>3, GrowsAt DEF Opens
    <3>5. n <= Len(f.hold)
      BY <1>2, <3>1, <3>4
    <3> QED BY <1>1, <3>1, <3>5
  <2> QED BY <1>1, <2>2, <2>3, <2>4
<1>5. ASSUME NEW i \in 1..Len(t)
      PROVE  i \in Starts(t) <=> i - o \in 1..Len(s) /\ i - o \in Starts(s)
  <2>1. CASE i > o
    <3>1. i - o \in 1..Len(s) /\ o + (i - o) = i
      BY <1>1, <2>1
    <3>2. i - o \in Starts(s) <=> \E m \in Markers : Stands(m, s, i - o)
      BY <1>1, <3>1, StartsAt
    <3>3. i \in Starts(t) <=> \E m \in Markers : Stands(m, t, i)
      BY <1>1, StartsAt
    <3> QED BY <1>3, <3>1, <3>2, <3>3
  <2>2. CASE ~(i > o)
    <3>1. i \notin Starts(t) /\ i - o \notin 1..Len(s)
      BY <1>1, <1>4, <2>2
    <3> QED BY <3>1
  <2> QED BY <2>1, <2>2
<1> QED BY <1>5 DEF o

\* So does an end of the text that may still become a marker.
LEMMA GrowthShifts ==
  ASSUME NEW f, NEW in, NEW out, Clean(f, in, out), NEW piece \in Text,
         NEW s, Joined(s, f.hold, piece), NEW t, Joined(t, in, piece), NEW n \in 1..Len(t)
  PROVE  MayGrow(t, n) <=> n \in 1..Len(s) /\ MayGrow(s, n)
<1> DEFINE o == Len(out)
<1>1. /\ s \in Text /\ t \in Text /\ in \in Text /\ o \in Nat /\ Len(s) \in Nat /\ n \in 1..Len(t)
      /\ Len(in) \in Nat /\ Len(f.hold) \in Nat /\ Len(piece) \in Nat
      /\ Len(in) = o + Len(f.hold) /\ Len(t) = o + Len(s) /\ Len(t) = Len(in) + Len(piece)
      /\ \A k \in 1..Len(s) : t[o + k] = s[k]
      /\ \A k \in 1..Len(in) : t[k] = in[k]
  <2>1. in \in Text
    BY DEF Clean
  <2>2. /\ HasBehind(t, Len(out), s) /\ HasBehind(t, 0, in)
        /\ s \in Text /\ t \in Text
        /\ Len(in) = Len(out) + Len(f.hold) /\ Len(t) = Len(out) + Len(s)
        /\ Len(t) = Len(in) + Len(piece)
    BY LookFacts
  <2>3. /\ o \in Nat /\ Len(s) \in Nat
        /\ Len(in) \in Nat /\ Len(f.hold) \in Nat /\ Len(piece) \in Nat
    BY LookFacts
  <2>4. o = Len(out)
    OBVIOUS
  <2> HIDE DEF o
  <2> QED BY <2>1, <2>2, <2>3, <2>4 DEF HasBehind
<1> HIDE DEF o
<1>2. \A k \in 1..Len(in) : MayGrow(in, k) => k <= Len(f.hold)
  BY DEF Clean
<1>3. ASSUME n \in 1..Len(s), NEW m \in Markers
      PROVE  Opens(m, t, n) <=> Opens(m, s, n)
  <2>1. ASSUME NEW k \in 1..n PROVE t[Len(t) - n + k] = s[Len(s) - n + k]
    <3>1. Len(s) - n + k \in 1..Len(s) /\ Len(t) - n + k = o + (Len(s) - n + k)
      BY <1>1, <1>3
    <3> QED BY <1>1, <3>1
  <2> QED BY <2>1 DEF Opens
<1>4. ASSUME MayGrow(t, n) PROVE n \in 1..Len(s)
  <2> SUFFICES ASSUME n > Len(s) PROVE FALSE
    BY <1>1
  <2>1. PICK m \in Markers : Opens(m, t, n)
    BY <1>1, <1>4, GrowsAt
  <2> DEFINE k == n - Len(piece)
  <2>2. Len(s) = Len(f.hold) + Len(piece)
    BY <1>1
  <2>3. /\ k \in 1..Len(in) /\ k > Len(f.hold) /\ k <= n
        /\ \A j \in 1..k : /\ j \in 1..n /\ Len(t) - n + j = Len(in) - k + j
                           /\ Len(in) - k + j \in 1..Len(in)
    BY <1>1, <2>2
  <2>4. Len(m) \in Nat
    BY <1>1, TextFacts
  <2> HIDE DEF k
  <2>5. ASSUME NEW j \in 1..k PROVE m[j] = in[Len(in) - k + j]
    <3>1. m[j] = t[Len(t) - n + j]
      BY <2>1, <2>3 DEF Opens
    <3> QED BY <1>1, <2>3, <3>1
  <2>6. k <= Len(m)
    BY <1>1, <2>1, <2>3, <2>4 DEF Opens
  <2>7. MayGrow(in, k)
    BY <1>1, <2>3, <2>5, <2>6, GrowsAt DEF Opens
  <2> QED BY <1>1, <1>2, <2>3, <2>7
<1>5. ASSUME n \in 1..Len(s) PROVE MayGrow(t, n) <=> MayGrow(s, n)
  BY <1>1, <1>3, <1>5, GrowsAt
<1> QED BY <1>4, <1>5

-----------------------------------------------------------------------------
(* One call of a filter *)

\* A text is its beginning and the rest.
LEMMA SplitFacts ==
  ASSUME NEW s \in Text, NEW k \in 0..Len(s)
  PROVE  /\ SubSeq(s, 1, k) \in Text /\ Len(SubSeq(s, 1, k)) = k
         /\ \A j \in 1..k : SubSeq(s, 1, k)[j] = s[j]
         /\ SubSeq(s, k + 1, Len(s)) \in Text
         /\ Len(SubSeq(s, k + 1, Len(s))) = Len(s) - k
         /\ SubSeq(s, 1, k) \o SubSeq(s, k + 1, Len(s)) = s
<1> DEFINE a == SubSeq(s, 1, k)
           b == SubSeq(s, k + 1, Len(s))
<1>1. Len(s) \in Nat /\ k \in Nat /\ k <= Len(s)
  BY TextFacts
<1>2. 1 \in 1..(Len(s) + 1) /\ k \in (1 - 1)..Len(s) /\ k - 1 + 1 = k
      /\ \A j \in 1..k : 1 + j - 1 = j
  BY <1>1
<1>3. a \in Text /\ Len(a) = k - 1 + 1 /\ \A j \in 1..(k - 1 + 1) : a[j] = s[1 + j - 1]
  BY <1>2, PieceFacts
<1>4. a \in Text /\ Len(a) = k /\ \A j \in 1..k : a[j] = s[j]
  <2> HIDE DEF a
  <2> QED BY <1>2, <1>3
<1>5. /\ k + 1 \in 1..(Len(s) + 1) /\ Len(s) \in ((k + 1) - 1)..Len(s)
      /\ Len(s) - (k + 1) + 1 = Len(s) - k
      /\ \A j \in 1..(Len(s) - k) : (k + 1) + j - 1 = k + j
  BY <1>1
<1>6. /\ b \in Text /\ Len(b) = Len(s) - (k + 1) + 1
      /\ \A j \in 1..(Len(s) - (k + 1) + 1) : b[j] = s[(k + 1) + j - 1]
  BY <1>5, PieceFacts
<1>7. b \in Text /\ Len(b) = Len(s) - k /\ \A j \in 1..(Len(s) - k) : b[j] = s[k + j]
  <2> HIDE DEF b
  <2> QED BY <1>5, <1>6
<1> HIDE DEF a, b
<1>8. a \o b = s
  <2>1. /\ a \o b \in Text /\ Len(a \o b) = Len(a) + Len(b)
        /\ \A j \in 1..Len(a) : (a \o b)[j] = a[j]
        /\ \A j \in 1..Len(b) : (a \o b)[Len(a) + j] = b[j]
    BY <1>4, <1>7, JoinFacts
  <2>2. Len(a \o b) = Len(s)
    BY <1>1, <1>4, <1>7, <2>1
  <2>3. ASSUME NEW j \in 1..Len(s) PROVE (a \o b)[j] = s[j]
    <3> USE <1>1
    <3>1. CASE j <= k
      BY <1>4, <2>1, <3>1
    <3>2. CASE ~(j <= k)
      <4>1. j - k \in 1..(Len(s) - k) /\ k + (j - k) = j
        BY <3>2
      <4>2. (a \o b)[k + (j - k)] = b[j - k] /\ b[j - k] = s[k + (j - k)]
        BY <1>4, <1>7, <2>1, <4>1
      <4> QED BY <4>1, <4>2
    <3> QED BY <3>1, <3>2
  <2> QED BY <2>1, <2>2, <2>3, SameText
<1> QED BY <1>4, <1>7, <1>8 DEF a, b

\* Behind nothing, and before nothing.
LEMMA EmptyText ==
  ASSUME NEW s \in Text
  PROVE  <<>> \in Text /\ s \o <<>> = s /\ <<>> \o s = s
<1>1. s \in Seq(Characters)
  BY DEF Text
<1>2. <<>> \in Seq(Characters)
  BY EmptySeq
<1> QED BY <1>1, <1>2, ConcatEmptySeq DEF Text

\* Such a filter is given a piece, which makes the text t of it.
Fed(f, in, out, piece, t) ==
  Clean(f, in, out) /\ piece \in Text /\ Joined(t, in, piece)

\* As long as there is no marker in the text, a push lets out all but what may still
\* become one.
LEMMA PushKeepsClean ==
  ASSUME NEW f, NEW in, NEW out, NEW piece, NEW t, Fed(f, in, out, piece, t),
         Starts(t) = {}
  PROVE  /\ Push(f, piece).emit \in Text
         /\ Clean(Push(f, piece).filter, t, out \o Push(f, piece).emit)
<1> DEFINE s == f.hold \o piece
<1>0. Clean(f, in, out) /\ piece \in Text /\ Joined(s, f.hold, piece) /\ Joined(t, in, piece)
  BY DEF Fed, Joined
<1>s. s = f.hold \o piece
  OBVIOUS
<1> HIDE DEF s
<1> USE <1>0
<1>1. /\ in \in Text /\ out \in Text /\ f.hold \in Text /\ f.stopped = FALSE
      /\ s = f.hold \o piece /\ t = in \o piece
  BY DEF Clean, Joined
<1>2. CASE piece = <<>>
  <2>1. Push(f, piece) = Emits(<<>>, f.hold, FALSE)
    BY <1>1, <1>2 DEF Push
  <2>2. Push(f, piece).emit = <<>> /\ Push(f, piece).filter = [hold |-> f.hold, stopped |-> FALSE]
    BY <2>1 DEF Emits
  <2>3. t = in /\ out \o <<>> = out /\ <<>> \in Text
    BY <1>1, <1>2, EmptyText
  <2>4. Clean([hold |-> f.hold, stopped |-> FALSE], in, out)
    BY DEF Clean
  <2> QED BY <2>2, <2>3, <2>4
<1>3. CASE piece # <<>>
  <2> DEFINE n == LongestMarkerPrefixSuffix(s)
             k == Len(s) - n
             a == SubSeq(s, 1, k)
             b == SubSeq(s, k + 1, Len(s))
  <2>1. /\ s \in Text /\ t \in Text /\ t = out \o s
        /\ Len(s) \in Nat /\ Len(out) \in Nat /\ Len(t) = Len(out) + Len(s)
    BY LookFacts
  <2>2. Starts(s) = {}
    <3> SUFFICES ASSUME NEW i \in Starts(s) PROVE FALSE
      OBVIOUS
    <3>1. i \in 1..Len(s)
      BY <2>1, StartsAt
    <3>2. Len(out) + i \in 1..Len(t) /\ (Len(out) + i) - Len(out) = i
      BY <2>1, <3>1
    <3>3. Len(out) + i \in Starts(t)
      BY <3>1, <3>2, MarkersShift
    <3> QED BY <3>3
  <2>3. Push(f, piece) = Emits(a, b, FALSE)
    BY <1>1, <1>3, <1>s, <2>2 DEF Push
  <2>4. Push(f, piece).emit = a /\ Push(f, piece).filter = [hold |-> b, stopped |-> FALSE]
    <3> HIDE DEF a, b
    <3> QED BY <2>3 DEF Emits
  <2>5. n \in 0..Len(s) /\ (n # 0 => MayGrow(s, n)) /\ \A j \in 1..Len(s) : MayGrow(s, j) => j <= n
    BY <2>1, LongestFacts
  <2> HIDE DEF n
  <2>6. k \in 0..Len(s) /\ Len(s) - k = n
    BY <2>1, <2>5
  <2> HIDE DEF k
  <2>7. a \in Text /\ b \in Text /\ Len(b) = n /\ a \o b = s
    BY <2>1, <2>6, SplitFacts
  <2> HIDE DEF a, b
  <2>8. t = (out \o a) \o b
    <3>1. out \in Seq(Characters) /\ a \in Seq(Characters) /\ b \in Seq(Characters)
      BY <1>1, <2>7 DEF Text
    <3>2. (out \o a) \o b = out \o (a \o b)
      BY <3>1, ConcatAssociative
    <3> QED BY <2>1, <2>7, <3>2
  <2>9. out \o a \in Text
    BY <1>1, <2>7, JoinFacts
  <2>10. ASSUME NEW j \in 1..Len(t), MayGrow(t, j) PROVE j <= Len(b)
    <3>1. j \in 1..Len(s) /\ MayGrow(s, j)
      BY <2>10, GrowthShifts
    <3> QED BY <2>5, <2>7, <3>1
  <2>11. ASSUME b # <<>> PROVE MayGrow(t, Len(b))
    <3>1. n # 0
      BY <2>7, <2>11, EmptySeq DEF Text
    <3>2. n \in 1..Len(s) /\ MayGrow(s, n)
      BY <2>1, <2>5, <3>1
    <3>3. n \in 1..Len(t)
      BY <2>1, <3>2
    <3>4. MayGrow(t, n)
      BY <3>2, <3>3, GrowthShifts
    <3> QED BY <2>7, <3>4
  <2>12. Clean([hold |-> b, stopped |-> FALSE], t, out \o a)
    BY <2>1, <2>7, <2>8, <2>9, <2>10, <2>11 DEF Clean
  <2> QED BY <2>4, <2>7, <2>12
<1> QED BY <1>2, <1>3

\* With the piece that makes the first marker whole, it lets out what is before the
\* marker, and stops.
LEMMA PushCuts ==
  ASSUME NEW f, NEW in, NEW out, NEW piece, NEW t, Fed(f, in, out, piece, t),
         Starts(t) # {}
  PROVE  /\ Push(f, piece).emit \in Text
         /\ Push(f, piece).filter.stopped = TRUE
         /\ out \o Push(f, piece).emit = Before(t)
<1> DEFINE s == f.hold \o piece
<1>0. Clean(f, in, out) /\ piece \in Text /\ Joined(s, f.hold, piece) /\ Joined(t, in, piece)
  BY DEF Fed, Joined
<1>s. s = f.hold \o piece
  OBVIOUS
<1> HIDE DEF s
<1> USE <1>0
<1> DEFINE i == Min(Starts(s))
           j == Min(Starts(t))
           o == Len(out)
           a == SubSeq(s, 1, i - 1)
<1>1. /\ in \in Text /\ out \in Text /\ f.hold \in Text /\ f.stopped = FALSE
      /\ s = f.hold \o piece /\ t = in \o piece /\ Starts(in) = {}
  BY DEF Clean, Joined
<1>2. piece # <<>>
  <2> SUFFICES ASSUME piece = <<>> PROVE FALSE
    OBVIOUS
  <2>1. t = in
    BY <1>1, EmptyText
  <2> QED BY <1>1, <2>1
<1>3. /\ s \in Text /\ t \in Text /\ t = out \o s
      /\ Len(s) \in Nat /\ o \in Nat /\ Len(t) = o + Len(s) /\ HasBehind(t, o, s)
  BY LookFacts
<1>4. /\ Len(Before(t)) + 1 = j /\ j \in Starts(t) /\ \A x \in Starts(t) : j <= x
      /\ Before(t) \in Text /\ \A k \in 1..Len(Before(t)) : Before(t)[k] = t[k]
  BY <1>3, CutFacts
<1> HIDE DEF j
<1>5. j \in 1..Len(t) /\ j - o \in 1..Len(s) /\ j - o \in Starts(s)
  <2>1. j \in 1..Len(t)
    BY <1>3, <1>4, StartsAt
  <2> QED BY <1>4, <2>1, MarkersShift
<1>6. Starts(s) # {}
  BY <1>5
<1>7. i \in Starts(s) /\ i \in 1..Len(s) /\ \A x \in Starts(s) : i <= x
  BY <1>3, <1>6, CutFacts, StartsAt
<1>8. Push(f, piece) = Emits(a, <<>>, TRUE)
  BY <1>1, <1>2, <1>s, <1>6 DEF Push
<1>9. Push(f, piece).emit = a /\ Push(f, piece).filter.stopped = TRUE
  <2> HIDE DEF a
  <2> QED BY <1>8 DEF Emits
<1> HIDE DEF i
<1>10. o + i \in Starts(t)
  <2>1. o + i \in 1..Len(t) /\ (o + i) - o = i
    BY <1>3, <1>7
  <2> QED BY <1>7, <2>1, MarkersShift
<1>11. j = o + i
  <2>1. j <= o + i /\ i <= j - o
    BY <1>4, <1>5, <1>7, <1>10
  <2>2. j \in Int /\ o \in Int /\ i \in Int
    BY <1>3, <1>5, <1>7
  <2> HIDE DEF o
  <2> QED BY <2>1, <2>2
<1>12. a \in Text /\ Len(a) = i - 1 /\ \A k \in 1..(i - 1) : a[k] = s[k]
  <2>1. i - 1 \in 0..Len(s)
    BY <1>3, <1>7
  <2> QED BY <1>3, <2>1, SplitFacts
<1> HIDE DEF a
<1>13. out \o a = Before(t)
  <2>1. /\ out \o a \in Text /\ Len(out \o a) = o + Len(a)
        /\ \A k \in 1..o : (out \o a)[k] = out[k]
        /\ \A k \in 1..Len(a) : (out \o a)[o + k] = a[k]
    BY <1>1, <1>12, JoinFacts
  <2>2. \A k \in 1..o : t[k] = out[k]
    BY <1>1, <1>3, JoinFacts
  <2>3. \A k \in 1..Len(s) : t[o + k] = s[k]
    BY <1>3 DEF HasBehind
  <2> HIDE DEF o
  <2>4. Len(Before(t)) \in Nat
    BY <1>4, TextFacts
  <2>5. Len(out \o a) = Len(Before(t))
    BY <1>3, <1>4, <1>7, <1>11, <1>12, <2>1, <2>4
  <2>6. ASSUME NEW k \in 1..Len(out \o a) PROVE (out \o a)[k] = Before(t)[k]
    <3>1. k \in 1..(o + (i - 1)) /\ Before(t)[k] = t[k]
      BY <1>4, <1>12, <2>1, <2>5
    <3>2. CASE k <= o
      BY <1>3, <2>1, <2>2, <3>1, <3>2
    <3>3. CASE ~(k <= o)
      <4>1. k - o \in 1..(i - 1) /\ k - o \in 1..Len(s) /\ o + (k - o) = k
        BY <1>3, <1>7, <3>1, <3>3
      <4>2. (out \o a)[o + (k - o)] = a[k - o] /\ a[k - o] = s[k - o] /\ t[o + (k - o)] = s[k - o]
        BY <1>12, <2>1, <2>3, <4>1
      <4> QED BY <3>1, <4>1, <4>2
    <3> QED BY <3>2, <3>3
  <2> QED BY <1>4, <2>1, <2>5, <2>6, SameText
<1> QED BY <1>9, <1>12, <1>13

LEMMA JoinAgain ==
  ASSUME NEW s \in Text, NEW t \in Text, NEW u \in Text
  PROVE  (s \o t) \o u = s \o (t \o u)
BY ConcatAssociative DEF Text

LEMMA EmitsMore ==
  ASSUME NEW a, NEW hold, NEW stopped, NEW more
  PROVE  [Emits(a, hold, stopped) EXCEPT !.emit = more] = Emits(more, hold, stopped)
BY DEF Emits

\* The two together, and the flush that goes with the last piece: what is out is then
\* the text before the first marker.
LEMMA ThroughFacts ==
  ASSUME NEW f, NEW in, NEW out, NEW piece, NEW t, Fed(f, in, out, piece, t),
         NEW last \in BOOLEAN, NEW d, d = Through(f, piece, last)
  PROVE  /\ t \in Text /\ d.emit \in Text
         /\ d.filter.stopped <=> Starts(t) # {}
         /\ ~last /\ Starts(t) = {} => Clean(d.filter, t, out \o d.emit)
         /\ last \/ Starts(t) # {} => out \o d.emit = Before(t)
<1> DEFINE p == Push(f, piece)
           rest == IF p.filter.stopped THEN <<>> ELSE p.filter.hold
<1>1. in \in Text /\ out \in Text /\ t = in \o piece /\ t \in Text
  <2>1. in \in Text /\ out \in Text /\ piece \in Text /\ t = in \o piece
    BY DEF Fed, Clean, Joined
  <2> QED BY <2>1, JoinFacts
<1>3. p.emit \in Text /\ (Starts(t) = {} => Clean(p.filter, t, out \o p.emit))
      /\ (Starts(t) # {} => /\ p.filter.stopped = TRUE
                            /\ out \o p.emit = Before(t))
  <2> HIDE DEF p
  <2>1. p = Push(f, piece)
    BY DEF p
  <2>2. CASE Starts(t) = {}
    BY <2>1, <2>2, PushKeepsClean
  <2>3. CASE Starts(t) # {}
    BY <2>1, <2>3, PushCuts
  <2> QED BY <2>2, <2>3
<1>4. Starts(t) = {} => /\ p.filter.stopped = FALSE /\ p.filter.hold \in Text
                        /\ t = (out \o p.emit) \o p.filter.hold
  BY <1>3 DEF Clean
<1>5. Starts(t) # {} => p.filter.stopped = TRUE
  BY <1>3
<1>6. d = IF last \/ p.filter.stopped
            THEN [Emits(rest, <<>>, p.filter.stopped) EXCEPT !.emit = p.emit \o rest] ELSE p
  BY DEF Through, Flush, Emits
<1> HIDE DEF p, rest
<1>7. [Emits(rest, <<>>, p.filter.stopped) EXCEPT !.emit = p.emit \o rest]
        = Emits(p.emit \o rest, <<>>, p.filter.stopped)
  <2> DEFINE more == p.emit \o rest
             over == p.filter.stopped
  <2> HIDE DEF more, over
  <2>1. [Emits(rest, <<>>, over) EXCEPT !.emit = more] = Emits(more, <<>>, over)
    BY EmitsMore
  <2> QED BY <2>1 DEF more, over
<1>8. CASE Starts(t) # {}
  <2>1. rest = <<>>
    BY <1>5, <1>8 DEF rest
  <2>2. p.emit \o rest = p.emit
    BY <1>3, <2>1, EmptyText
  <2>3. d = Emits(p.emit, <<>>, TRUE)
    BY <1>5, <1>6, <1>7, <1>8, <2>2
  <2>4. d.emit = p.emit /\ d.filter.stopped = TRUE
    BY <2>3 DEF Emits
  <2> QED BY <1>1, <1>3, <1>8, <2>4
<1>9. CASE Starts(t) = {} /\ last
  <2>1. rest = p.filter.hold
    BY <1>4, <1>9 DEF rest
  <2>2. d = Emits(p.emit \o rest, <<>>, FALSE)
    BY <1>4, <1>6, <1>7, <1>9
  <2>3. d.emit = p.emit \o rest /\ d.filter.stopped = FALSE
    BY <2>2 DEF Emits
  <2>4. p.emit \o rest \in Text
    BY <1>3, <1>4, <1>9, <2>1, JoinFacts
  <2>5. out \o (p.emit \o rest) = t
    <3>1. out \in Text /\ p.emit \in Text /\ rest \in Text
      BY <1>1, <1>3, <1>4, <1>9, <2>1
    <3>2. (out \o p.emit) \o rest = out \o (p.emit \o rest)
      BY <3>1, JoinAgain
    <3> QED BY <1>4, <1>9, <2>1, <3>2
  <2>6. Before(t) = t
    BY <1>9 DEF Before
  <2> QED BY <1>1, <1>9, <2>3, <2>4, <2>5, <2>6
<1>10. CASE Starts(t) = {} /\ ~last
  <2>1. d = p
    BY <1>4, <1>6, <1>10
  <2> QED BY <1>1, <1>3, <1>4, <1>10, <2>1
<1> QED BY <1>8, <1>9, <1>10

-----------------------------------------------------------------------------
(* The stream *)

\* What the first filter has handed to the second one.
Handed == (sent \o buffer) \o filter.hold

\* The invariant: while it streams, the first filter is clean for the text and what it
\* has handed on, the second for that and what is sent or in the coalescer.
StreamInv ==
  /\ text \in Text /\ sent \in Text /\ buffer \in Text
  /\ phase = "streaming" => /\ Clean(engine, text, Handed)
                            /\ Clean(filter, Handed, sent \o buffer)
  /\ phase = "ended" => sent = Before(text) /\ buffer = <<>>
  /\ IsPrefix(sent \o buffer, Before(text))

LEMMA PrefixOfItself ==
  ASSUME NEW s \in Text, NEW t \in Text
  PROVE  IsPrefix(s, s \o t) /\ IsPrefix(s, s)
<1>1. /\ Len(s) \in Nat /\ Len(t) \in Nat /\ s \o t \in Text /\ Len(s \o t) = Len(s) + Len(t)
      /\ \A k \in 1..Len(s) : (s \o t)[k] = s[k]
  BY TextFacts, JoinFacts
<1>2. Len(s) \in 0..Len(s) /\ Len(s) \in 0..Len(s \o t)
  BY <1>1
<1> DEFINE a == SubSeq(s, 1, Len(s))
           b == SubSeq(s \o t, 1, Len(s))
<1>3. a \in Text /\ Len(a) = Len(s) /\ \A k \in 1..Len(s) : a[k] = s[k]
  BY <1>2, SplitFacts
<1>4. b \in Text /\ Len(b) = Len(s) /\ \A k \in 1..Len(s) : b[k] = (s \o t)[k]
  BY <1>1, <1>2, SplitFacts
<1>5. a = b
  <2> HIDE DEF a, b
  <2> QED BY <1>1, <1>3, <1>4, SameText
<1> QED BY <1>1, <1>5 DEF IsPrefix

LEMMA StreamInit == Init => StreamInv
<1> SUFFICES ASSUME Init PROVE StreamInv
  OBVIOUS
<1>1. text = <<>> /\ buffer = <<>> /\ sent = <<>> /\ phase = "streaming"
      /\ engine.hold = <<>> /\ filter.hold = <<>> /\ engine.stopped = FALSE /\ filter.stopped = FALSE
  BY DEF Init, NewFilter
<1>2. <<>> \in Text /\ Len(<<>>) = 0 /\ <<>> \o <<>> = <<>>
  BY EmptySeq, ConcatEmptySeq DEF Text
<1>3. Starts(<<>>) = {}
  BY <1>2, StartsAt
<1>4. Clean(engine, <<>>, <<>>) /\ Clean(filter, <<>>, <<>>)
  BY <1>1, <1>2, <1>3 DEF Clean
<1>5. sent \o buffer = <<>> /\ Handed = <<>> /\ Before(text) = <<>>
  BY <1>1, <1>2, <1>3 DEF Handed, Before
<1>6. IsPrefix(<<>>, <<>>)
  BY <1>2, PrefixOfItself
<1> QED BY <1>1, <1>2, <1>4, <1>5, <1>6 DEF StreamInv

\* A piece is a text.
LEMMA ChunksAreTexts == Chunks \subseteq Text
<1> SUFFICES ASSUME NEW n \in 0..MaxChunk, NEW c \in [1..n -> Characters] PROVE c \in Text
  BY DEF Chunks
<1>1. n \in Nat
  OBVIOUS
<1> QED BY <1>1 DEF Text

\* What the first filter hands on is plain: the second one never cuts.
LEMMA HandedIsPlain ==
  ASSUME NEW f, NEW in \in Text, NEW out \in Text,
         Clean(f, in, out) \/ out = Before(in)
  PROVE  Starts(out) = {} /\ Before(out) = out
<1>1. CASE out = Before(in)
  BY <1>1, BeforeIsPlain
<1>2. CASE Clean(f, in, out)
  <2>1. in = out \o f.hold /\ f.hold \in Text /\ Starts(in) = {}
    BY <1>2 DEF Clean
  <2>2. Len(in) = Len(out) + Len(f.hold) /\ \A k \in 1..Len(out) : out[k] = in[k]
    BY <2>1, JoinFacts
  <2>3. Len(out) \in Nat /\ Len(f.hold) \in Nat
    BY <2>1, TextFacts
  <2>4. Starts(out) \subseteq Starts(in)
    BY <2>2, <2>3, PrefixStarts
  <2>5. Starts(out) = {}
    BY <2>1, <2>4
  <2> QED BY <2>5 DEF Before
<1> QED BY <1>1, <1>2

LEMMA EventKeepsStream ==
  ASSUME StreamInv, NEW piece \in Chunks, NEW eos \in BOOLEAN, Event(piece, eos)
  PROVE  StreamInv'
<1> DEFINE t == text \o piece
           delta == Through(engine, piece, eos)
           last == eos \/ delta.filter.stopped
           out == Through(filter, delta.emit, last)
           done == sent \o buffer
           mid == Handed \o delta.emit
<1>1. /\ text \in Text /\ sent \in Text /\ buffer \in Text /\ piece \in Text
      /\ Clean(engine, text, Handed) /\ Clean(filter, Handed, done)
  BY ChunksAreTexts DEF StreamInv, Event
<1>2. Fed(engine, text, Handed, piece, t)
  BY <1>1 DEF Fed, Joined
<1>3. done \in Text /\ Handed \in Text
  BY <1>1 DEF Clean
<1>4. /\ t \in Text /\ delta.emit \in Text
      /\ delta.filter.stopped <=> Starts(t) # {}
      /\ ~eos /\ Starts(t) = {} => Clean(delta.filter, t, mid)
      /\ eos \/ Starts(t) # {} => mid = Before(t)
  <2> HIDE DEF t
  <2>1. delta = Through(engine, piece, eos)
    OBVIOUS
  <2> HIDE DEF delta
  <2> QED BY <1>1, <1>2, <2>1, ThroughFacts
<1>5. /\ text' = t /\ engine' = delta.filter /\ filter' = out.filter
  BY DEF Event
<1>6. LET over == last \/ out.filter.stopped
      IN  \/ /\ ~over
             /\ buffer' = buffer \o out.emit
             /\ UNCHANGED <<sent, phase>>
          \/ /\ ~over /\ out.emit # <<>>
             /\ sent' = sent \o buffer \o out.emit
             /\ buffer' = <<>>
             /\ UNCHANGED phase
          \/ /\ over
             /\ sent' = sent \o buffer \o out.emit
             /\ buffer' = <<>>
             /\ phase' = "ended"
  BY DEF Event
<1>7. phase = "streaming"
  BY DEF Event
<1> HIDE DEF t, delta
<1>8. last \in BOOLEAN /\ (last <=> eos \/ Starts(t) # {})
  BY <1>4
<1> HIDE DEF last
<1>9. mid \in Text /\ Starts(mid) = {} /\ Before(mid) = mid
      /\ (~last => Clean(delta.filter, t, mid)) /\ (last => mid = Before(t))
  <2>1. mid \in Text
    BY <1>3, <1>4, JoinFacts
  <2> HIDE DEF mid
  <2>2. (~last => Clean(delta.filter, t, mid)) /\ (last => mid = Before(t))
    BY <1>4, <1>8
  <2>3. Clean(delta.filter, t, mid) \/ mid = Before(t)
    BY <1>8, <2>2
  <2> QED BY <1>4, <2>1, <2>2, <2>3, HandedIsPlain
<1> HIDE DEF mid, done
<1>10. /\ out.emit \in Text /\ ~out.filter.stopped
       /\ ~last => Clean(out.filter, mid, done \o out.emit)
       /\ last => done \o out.emit = mid
  <2>1. out = Through(filter, delta.emit, last)
    OBVIOUS
  <2> HIDE DEF out
  <2>2. /\ out.emit \in Text
        /\ out.filter.stopped <=> Starts(mid) # {}
        /\ ~last /\ Starts(mid) = {} => Clean(out.filter, mid, done \o out.emit)
        /\ last \/ Starts(mid) # {} => done \o out.emit = Before(mid)
    <3>1. Fed(filter, Handed, done, delta.emit, mid)
      BY <1>1, <1>4 DEF Fed, Joined, mid
    <3> QED BY <1>8, <2>1, <3>1, ThroughFacts
  <2> QED BY <1>9, <2>2
<1> HIDE DEF out
<1>11. done \o out.emit \in Text
  BY <1>3, <1>10, JoinFacts
<1>12. done \o out.emit = sent \o (buffer \o out.emit)
  <2>1. (sent \o buffer) \o out.emit = sent \o (buffer \o out.emit)
    BY <1>1, <1>10, JoinAgain
  <2> QED BY <2>1 DEF done
<1>13. CASE ~last
  <2>1. Clean(out.filter, mid, done \o out.emit) /\ Clean(delta.filter, t, mid)
    BY <1>9, <1>10, <1>13
  <2>2. mid = (done \o out.emit) \o out.filter.hold /\ out.filter.hold \in Text
        /\ t = mid \o delta.filter.hold /\ delta.filter.hold \in Text /\ Starts(t) = {}
    BY <2>1 DEF Clean
  <2>3. phase' = "streaming" /\ sent' \in Text /\ buffer' \in Text /\ sent' \o buffer' = done \o out.emit
    <3>1. CASE buffer' = buffer \o out.emit /\ sent' = sent /\ phase' = phase
      BY <1>1, <1>7, <1>10, <1>12, <3>1, JoinFacts
    <3>2. CASE sent' = sent \o buffer \o out.emit /\ buffer' = <<>> /\ phase' = phase
      BY <1>7, <1>11, <3>2, EmptyText DEF done
    <3> QED BY <1>6, <1>10, <1>13, <3>1, <3>2
  <2>4. Handed' = mid
    BY <1>5, <2>2, <2>3 DEF Handed
  <2>5. Clean(engine, text, Handed)' /\ Clean(filter, Handed, sent \o buffer)'
    BY <1>5, <2>1, <2>3, <2>4 DEF Clean
  <2>6. IsPrefix(sent \o buffer, Before(text))'
    <3>1. Before(t) = t
      BY <2>2 DEF Before
    <3> DEFINE z == out.filter.hold \o delta.filter.hold
    <3>2. z \in Text
      BY <2>2, JoinFacts
    <3>3. t = (done \o out.emit) \o z
      <4>1. ((done \o out.emit) \o out.filter.hold) \o delta.filter.hold
              = (done \o out.emit) \o (out.filter.hold \o delta.filter.hold)
        BY <1>11, <2>2, JoinAgain
      <4> QED BY <2>2, <4>1
    <3> HIDE DEF z
    <3>4. IsPrefix(done \o out.emit, t)
      BY <1>11, <3>2, <3>3, PrefixOfItself
    <3>5. IsPrefix(sent' \o buffer', Before(text'))
      BY <1>5, <2>3, <3>1, <3>4
    <3> QED BY <3>5 DEF Before, Starts, IsPrefix
  <2> QED BY <1>4, <1>5, <2>3, <2>5, <2>6 DEF StreamInv
<1>14. CASE last
  <2>1. sent' = done \o out.emit /\ buffer' = <<>> /\ phase' = "ended"
    BY <1>6, <1>14 DEF done
  <2>2. sent' = Before(t) /\ sent' \in Text /\ <<>> \in Text
    BY <1>9, <1>10, <1>11, <1>14, <2>1, EmptyText
  <2>3. sent' \o buffer' = Before(t)
    BY <2>1, <2>2, EmptyText
  <2>4. IsPrefix(Before(t), Before(t))
    BY <2>2, PrefixOfItself
  <2>5. Before(text') = Before(t)
    BY <1>5
  <2>6. Before(text)' = Before(text')
    BY DEF Before, Starts
  <2>7. IsPrefix(sent \o buffer, Before(text))'
    BY <2>3, <2>4, <2>5, <2>6 DEF IsPrefix
  <2> QED BY <1>4, <1>5, <2>1, <2>2, <2>5, <2>6, <2>7 DEF StreamInv
<1> QED BY <1>8, <1>13, <1>14

LEMMA StepKeepsStream == StreamInv /\ [Next]_vars => StreamInv'
<1> SUFFICES ASSUME StreamInv, [Next]_vars PROVE StreamInv'
  OBVIOUS
<1>1. ASSUME NEW piece \in Chunks, NEW eos \in BOOLEAN, Event(piece, eos) PROVE StreamInv'
  BY <1>1, EventKeepsStream
<1>2. CASE Breaks
  <2>1. phase' = "broken" /\ UNCHANGED <<text, engine, filter, buffer, sent>>
    BY <1>2 DEF Breaks
  <2> QED BY <2>1 DEF StreamInv, Before, Starts, IsPrefix
<1>3. CASE UNCHANGED vars
  <2>1. UNCHANGED <<text, engine, filter, buffer, sent, phase>>
    BY <1>3 DEF vars
  <2>2. Clean(engine, text, Handed)' <=> Clean(engine, text, Handed)
    BY <2>1 DEF Clean, Handed, Starts, MayGrow
  <2>3. Clean(filter, Handed, sent \o buffer)' <=> Clean(filter, Handed, sent \o buffer)
    BY <2>1 DEF Clean, Handed, Starts, MayGrow
  <2> QED BY <2>1, <2>2, <2>3 DEF StreamInv, Before, Starts, IsPrefix
<1> QED BY <1>1, <1>2, <1>3 DEF Next

THEOREM StreamIsCovered == Spec => []StreamInv
<1>1. Init => StreamInv
  BY StreamInit
<1>2. StreamInv /\ [Next]_vars => StreamInv'
  BY StepKeepsStream
<1> QED BY <1>1, <1>2, PTL DEF Spec

\* CompletionText!CutAtFirstMarker, for any markers and any pieces: a stream that ends,
\* by a marker or by the worker's end (StreamingStopFilter.cs, Push and Flush), has sent
\* the text before the first marker and nothing else.
THEOREM CutIsRight == Spec => []CutAtFirstMarker
<1>1. StreamInv => CutAtFirstMarker
  BY DEF StreamInv, CutAtFirstMarker
<1> QED BY <1>1, StreamIsCovered, PTL

\* CompletionText!NothingToTakeBack: at every moment of the stream, and also if it breaks,
\* what the client has and what the coalescer holds is a beginning of what is before the
\* first marker.
THEOREM NothingIsTakenBack == Spec => []NothingToTakeBack
<1>1. StreamInv => NothingToTakeBack
  BY DEF StreamInv, NothingToTakeBack
<1> QED BY <1>1, StreamIsCovered, PTL

\* What a clean filter holds is the beginning of a marker, and not all of one.
LEMMA HoldIsPartOfMarker ==
  ASSUME NEW f, NEW in, NEW out, Clean(f, in, out), f.hold # <<>>
  PROVE  \E m \in Markers : IsStrictPrefix(f.hold, m)
<1> DEFINE h == f.hold
           n == Len(h)
<1>1. /\ in \in Text /\ out \in Text /\ h \in Text /\ in = out \o h /\ h # <<>>
      /\ Starts(in) = {} /\ MayGrow(in, n)
  BY DEF Clean
<1> HIDE DEF h
<1>2. /\ Len(in) \in Nat /\ Len(out) \in Nat /\ n \in Nat /\ n # 0 /\ Len(in) = Len(out) + n
      /\ \A k \in 1..n : in[Len(out) + k] = h[k]
  <2>1. Len(in) \in Nat /\ Len(out) \in Nat /\ n \in Nat
    BY <1>1, TextFacts
  <2>2. n # 0
    BY <1>1, EmptySeq DEF Text
  <2>3. Len(in) = Len(out) + n /\ \A k \in 1..n : in[Len(out) + k] = h[k]
    BY <1>1, JoinFacts
  <2> QED BY <2>1, <2>2, <2>3
<1> HIDE DEF n
<1>3. n \in 1..Len(in) /\ Len(in) - n = Len(out) /\ Len(out) + 1 \in 1..Len(in)
  BY <1>2
<1>4. PICK m \in Markers : Opens(m, in, n)
  BY <1>1, <1>3, GrowsAt
<1>5. m \in Text /\ Len(m) \in Nat /\ n <= Len(m) /\ \A k \in 1..n : m[k] = h[k]
  <2>1. m \in Text /\ Len(m) \in Nat
    BY <1>1, TextFacts
  <2> QED BY <1>2, <1>3, <1>4, <2>1 DEF Opens
<1>6. h # m
  <2> SUFFICES ASSUME h = m PROVE FALSE
    OBVIOUS
  <2>1. Len(m) = n
    BY DEF n
  <2>2. \A k \in 1..n : (Len(out) + 1) + k - 1 = Len(out) + k
    BY <1>2
  <2>3. (Len(out) + 1) + n - 1 = Len(in)
    BY <1>2
  <2>4. \A k \in 1..n : in[(Len(out) + 1) + k - 1] = m[k]
    BY <1>2, <1>5, <2>2
  <2>5. Stands(m, in, Len(out) + 1)
    BY <2>1, <2>3, <2>4, <1>2 DEF Stands
  <2>6. Len(out) + 1 \in Starts(in)
    BY <1>1, <1>3, <2>5, StartsAt
  <2> QED BY <1>1, <2>6
<1>7. IsPrefix(h, m)
  <2>1. n \in 0..Len(h) /\ n \in 0..Len(m) /\ Len(h) = n
    BY <1>2, <1>5 DEF n
  <2> DEFINE a == SubSeq(h, 1, n)
             b == SubSeq(m, 1, n)
  <2>2. a \in Text /\ Len(a) = n /\ \A k \in 1..n : a[k] = h[k]
    BY <1>1, <2>1, SplitFacts
  <2>3. b \in Text /\ Len(b) = n /\ \A k \in 1..n : b[k] = m[k]
    BY <1>5, <2>1, SplitFacts
  <2>4. a = b
    <3> HIDE DEF a, b
    <3> QED BY <1>5, <2>2, <2>3, SameText
  <2> QED BY <1>5, <2>1, <2>4 DEF IsPrefix
<1> QED BY <1>6, <1>7 DEF IsStrictPrefix, h

\* CompletionText!HeldForAReason: nothing is lost between the two filters and the
\* coalescer, and what a filter holds back is the unfinished beginning of a marker.
THEOREM HoldsAreReasons == Spec => []HeldForAReason
<1>1. StreamInv => HeldForAReason
  <2> SUFFICES ASSUME StreamInv, phase = "streaming"
               PROVE  /\ text = sent \o buffer \o filter.hold \o engine.hold
                      /\ \A f \in {engine, filter} :
                           f.hold # <<>> => \E m \in Markers : IsStrictPrefix(f.hold, m)
    BY DEF HeldForAReason
  <2>1. Clean(engine, text, Handed) /\ Clean(filter, Handed, sent \o buffer)
    BY DEF StreamInv
  <2>2. text = Handed \o engine.hold
    BY <2>1 DEF Clean
  <2>3. ASSUME NEW f \in {engine, filter}, f.hold # <<>>
        PROVE  \E m \in Markers : IsStrictPrefix(f.hold, m)
    <3>1. CASE f = engine
      BY <2>1, <2>3, <3>1, HoldIsPartOfMarker
    <3>2. CASE f = filter
      BY <2>1, <2>3, <3>2, HoldIsPartOfMarker
    <3> QED BY <2>3, <3>1, <3>2
  <2> QED BY <2>2, <2>3 DEF Handed
<1> QED BY <1>1, StreamIsCovered, PTL

-----------------------------------------------------------------------------
(* The first marker of a text does not depend on what comes behind it: this is what
   MarkersAssumption is for.  A longer marker that began before it and ended behind it
   would have it inside. *)

LEMMA FirstMarkerStays ==
  ASSUME NEW s \in Text, NEW rest \in Text, Starts(s) # {}
  PROVE  Before(s \o rest) = Before(s)
<1> DEFINE t == s \o rest
           j == Min(Starts(s))
           i == Min(Starts(t))
<1>1. /\ t \in Text /\ Len(t) = Len(s) + Len(rest) /\ Len(s) \in Nat /\ Len(rest) \in Nat
      /\ \A k \in 1..Len(s) : t[k] = s[k]
  BY JoinFacts, TextFacts
<1> HIDE DEF t
<1>2. Starts(s) \subseteq Starts(t)
  BY <1>1, PrefixStarts
<1>3. Starts(t) # {}
  BY <1>2
<1>4. /\ Len(Before(s)) + 1 = j /\ j \in Starts(s) /\ \A x \in Starts(s) : j <= x
      /\ Before(s) \in Text /\ Len(Before(s)) <= Len(s)
      /\ \A k \in 1..Len(Before(s)) : Before(s)[k] = s[k]
  BY CutFacts
<1>5. /\ Len(Before(t)) + 1 = i /\ i \in Starts(t) /\ \A x \in Starts(t) : i <= x
      /\ Before(t) \in Text /\ \A k \in 1..Len(Before(t)) : Before(t)[k] = t[k]
  BY <1>1, <1>3, CutFacts
<1> HIDE DEF i, j
<1>6. i \in 1..Len(t) /\ j \in 1..Len(s) /\ i <= j
  BY <1>1, <1>2, <1>4, <1>5, StartsAt
<1>7. PICK m \in Markers : Stands(m, t, i)
  BY <1>1, <1>5, <1>6, StartsAt
<1>8. PICK first \in Markers : Stands(first, s, j)
  BY <1>4, <1>6, StartsAt
<1>9. /\ m \in Text /\ Len(m) \in Nat /\ Len(m) > 0
      /\ first \in Text /\ Len(first) \in Nat /\ Len(first) > 0
  BY TextFacts
<1>10. i = j
  <2> SUFFICES ASSUME i < j PROVE FALSE
    BY <1>1, <1>6
  <2>1. CASE i + Len(m) - 1 <= Len(s)
    <3>1. i \in 1..Len(s) /\ \A k \in 1..Len(m) : i + k - 1 \in 1..Len(s)
      BY <1>1, <1>6, <1>9, <2>1
    <3>2. Stands(m, s, i)
      BY <1>1, <1>7, <2>1, <3>1 DEF Stands
    <3>3. i \in Starts(s)
      BY <3>1, <3>2, StartsAt
    <3> QED BY <1>1, <1>4, <1>6, <3>1, <3>3
  <2>2. CASE ~(i + Len(m) - 1 <= Len(s))
    <3> DEFINE u == Front(m)
               p == j - i + 1
    <3>1. Starts(u) = {}
      BY MarkersAssumption
    <3>2. u \in Text /\ Len(u) = Len(m) - 1 /\ \A k \in 1..(Len(m) - 1) : u[k] = m[k]
      <4>1. Len(m) - 1 \in 0..Len(m)
        BY <1>9
      <4> QED BY <1>9, <4>1, SplitFacts DEF Front
    <3> HIDE DEF u
    <3>3. j + Len(first) - 1 <= Len(s) /\ \A k \in 1..Len(first) : s[j + k - 1] = first[k]
      BY <1>8 DEF Stands
    <3>4. p \in Nat /\ p > 1 /\ p + Len(first) - 1 <= Len(m) - 1 /\ p \in 1..(Len(m) - 1)
      BY <1>1, <1>6, <1>9, <2>2, <3>3
    <3>5. ASSUME NEW k \in 1..Len(first) PROVE u[p + k - 1] = first[k]
      <4>1. /\ p + k - 1 \in 1..(Len(m) - 1) /\ p + k - 1 \in 1..Len(m)
            /\ i + (p + k - 1) - 1 = j + k - 1 /\ j + k - 1 \in 1..Len(s)
        BY <1>1, <1>6, <1>9, <3>3, <3>4
      <4> HIDE DEF p
      <4>2. u[p + k - 1] = m[p + k - 1]
        BY <3>2, <4>1
      <4>3. t[i + (p + k - 1) - 1] = m[p + k - 1]
        BY <1>7, <4>1 DEF Stands
      <4>4. t[j + k - 1] = s[j + k - 1] /\ s[j + k - 1] = first[k]
        BY <1>1, <3>3, <4>1
      <4> QED BY <4>1, <4>2, <4>3, <4>4
    <3> HIDE DEF p
    <3>6. Stands(first, u, p)
      BY <3>2, <3>4, <3>5 DEF Stands
    <3>7. p \in Starts(u)
      BY <3>2, <3>4, <3>6, StartsAt
    <3> QED BY <3>1, <3>7
  <2> QED BY <2>1, <2>2
<1>11. Len(Before(t)) = Len(Before(s))
  <2>1. Len(Before(t)) \in Nat /\ Len(Before(s)) \in Nat
    BY <1>4, <1>5, TextFacts
  <2> QED BY <1>4, <1>5, <1>10, <2>1
<1>12. ASSUME NEW k \in 1..Len(Before(t)) PROVE Before(t)[k] = Before(s)[k]
  <2>1. Len(Before(s)) \in Nat /\ k \in 1..Len(Before(s)) /\ k \in 1..Len(s)
    BY <1>1, <1>4, <1>11, TextFacts
  <2> QED BY <1>1, <1>4, <1>5, <2>1
<1> QED BY <1>4, <1>5, <1>11, <1>12, SameText DEF t

\* A stream that a marker ended has sent what is before the first marker of every text
\* that goes on from there: how the worker cuts its text into pieces, and what it would
\* have said after the last of them, makes no difference to the client.
PiecesMakeNoDifference ==
  phase = "ended" /\ Starts(text) # {} => \A rest \in Text : sent = Before(text \o rest)

\* A stream that was cut off has sent the same, however its text came and went on
\* (StreamingStopFilter.Push, WriteLiveAsync).
THEOREM PiecesDoNotMatter == Spec => []PiecesMakeNoDifference
<1>1. StreamInv => PiecesMakeNoDifference
  BY FirstMarkerStays DEF StreamInv, PiecesMakeNoDifference
<1> QED BY <1>1, StreamIsCovered, PTL

===============================================================================
