------------------------ MODULE NativeSchedulerProofs ------------------------
(***************************************************************************)
(* Proofs about NativeScheduler, for any pages, prompts, jobs and limits:  *)
(* page counts are the holders, the prefix index leads only to pages with  *)
(* the contents it names, jobs share a page only where their prompts agree *)
(* and a cancelled job does not finish.                                    *)
(***************************************************************************)
EXTENDS NativeScheduler, FiniteSetTheorems, SequenceTheorems, TLAPS

-----------------------------------------------------------------------------
(* The invariant of the pages.  A page with a hash may have several holders, and
   each has it at the place the hash's length gives; one without has one at most. *)

OwnPages ==
  /\ pages \in [Jobs -> Seq(Pages)]
  /\ \A j \in Jobs : \A m, n \in 1..Len(pages[j]) : pages[j][m] = pages[j][n] => m = n

HashedInPlace ==
  \A j \in Jobs : \A m \in 1..Len(pages[j]) :
    table.hash[pages[j][m]] # NoHash =>
      m <= Len(Kind[j].prompt) /\ table.hash[pages[j][m]] = SubSeq(Kind[j].prompt, 1, m)

UnhashedIsPrivate ==
  \A p \in Pages : table.hash[p] = NoHash => \A a, b \in Holders(p) : a = b

PageInv ==
  /\ table \in Tables
  /\ OwnPages
  /\ CountsAreHolders
  /\ HashedInPlace
  /\ UnhashedIsPrivate
  /\ IndexIsValid

\* What the counts say of a page: its holders are finite, and it is free iff none is.
LEMMA HoldersFinite ==
  ASSUME NEW p
  PROVE  /\ IsFiniteSet(Holders(p)) /\ Cardinality(Holders(p)) \in Nat
         /\ Cardinality(Holders(p)) = 0 <=> Holders(p) = {}
<1>1. IsFiniteSet(Jobs) /\ Holders(p) \in SUBSET Jobs
  BY SchedulerAssumption DEF Holders
<1>2. IsFiniteSet(Holders(p))
  BY <1>1, FS_Subset
<1> QED BY <1>2, FS_CardinalityType, FS_EmptySet

\* The pages a job holds are its, and not free.
LEMMA HeldPages ==
  ASSUME PageInv, NEW j \in Jobs
  PROVE  /\ Held(j) = {pages[j][m] : m \in 1..Len(pages[j])}
         /\ Held(j) \subseteq Pages /\ Held(j) \cap table.free = {}
         /\ \A p \in Pages : p \in Held(j) <=> j \in Holders(p)
         /\ Len(pages[j]) \in Nat /\ pages[j] \in Seq(Pages)
<1>1. pages[j] \in Seq(Pages)
  BY DEF PageInv, OwnPages
<1>2. Len(pages[j]) \in Nat /\ DOMAIN pages[j] = 1..Len(pages[j])
      /\ \A m \in 1..Len(pages[j]) : pages[j][m] \in Pages
  BY <1>1, ElementOfSeq
<1>3. Held(j) = {pages[j][m] : m \in 1..Len(pages[j])}
  BY <1>2 DEF Held, Range
<1>4. Held(j) \subseteq Pages
  BY <1>2, <1>3
<1>5. \A p \in Pages : p \in Held(j) <=> j \in Holders(p)
  BY DEF Holders
<1>6. \A p \in Held(j) : p \notin table.free
  BY <1>4, <1>5 DEF PageInv, CountsAreHolders
<1> QED BY <1>1, <1>2, <1>3, <1>4, <1>5, <1>6

\* An entry of the index that is there is a hit.
LEMMA IndexHits ==
  ASSUME PageInv, NEW h \in Prefixes, table.index[h] # NoPage
  PROVE  /\ Hit(table, h) /\ table.index[h] \in Pages
         /\ table.hash[table.index[h]] = h /\ h # NoHash
BY PageAssumption DEF PageInv, Tables, IndexIsValid, Hit

-----------------------------------------------------------------------------
(* A job gives all its pages up *)

\* What free does to the four fields, for pages that are in use.
LEMMA FreeFields ==
  ASSUME NEW T \in Tables, NEW Q \in SUBSET Pages, Q \cap T.free = {}
  PROVE  /\ Free(T, Q).free = T.free \cup {p \in Q : T.ref[p] = 1}
         /\ Free(T, Q).ref = [p \in Pages |-> IF p \in Q THEN T.ref[p] - 1 ELSE T.ref[p]]
         /\ Free(T, Q).hash = [p \in Pages |-> IF p \in Q /\ T.ref[p] = 1 THEN NoHash
                                               ELSE T.hash[p]]
         /\ Free(T, Q).index = [h \in Prefixes |->
              IF T.index[h] \in Q /\ T.ref[T.index[h]] = 1 /\ T.hash[T.index[h]] = h
                THEN NoPage ELSE T.index[h]]
         /\ Free(T, Q) = [free |-> Free(T, Q).free, ref |-> Free(T, Q).ref,
                          hash |-> Free(T, Q).hash, index |-> Free(T, Q).index]
<1>1. Q \ T.free = Q
  OBVIOUS
<1>2. Dropped(T, Q) = {p \in Q : T.ref[p] = 1}
  BY <1>1 DEF Dropped
<1> QED BY <1>1, <1>2 DEF Free

\* All pages of a job go: each that was its alone becomes free and loses its entry.
LEMMA GiveUpPages ==
  ASSUME PageInv, NEW j \in Jobs, table' = Free(table, Held(j)),
         pages' = [pages EXCEPT ![j] = <<>>]
  PROVE  PageInv'
<1> DEFINE Q == Held(j)
<1>1. /\ table \in Tables /\ pages \in [Jobs -> Seq(Pages)]
      /\ Q \in SUBSET Pages /\ Q \cap table.free = {}
  BY HeldPages DEF PageInv, OwnPages
<1>2. /\ table'.free = table.free \cup {p \in Q : table.ref[p] = 1}
      /\ table'.ref = [p \in Pages |-> IF p \in Q THEN table.ref[p] - 1 ELSE table.ref[p]]
      /\ table'.hash = [p \in Pages |-> IF p \in Q /\ table.ref[p] = 1 THEN NoHash
                                        ELSE table.hash[p]]
      /\ table'.index = [h \in Prefixes |->
           IF table.index[h] \in Q /\ table.ref[table.index[h]] = 1
                /\ table.hash[table.index[h]] = h
             THEN NoPage ELSE table.index[h]]
      /\ table' = [free |-> table'.free, ref |-> table'.ref,
                   hash |-> table'.hash, index |-> table'.index]
  BY <1>1, FreeFields
<1>3. /\ pages' \in [Jobs -> Seq(Pages)] /\ pages'[j] = <<>> /\ Len(pages'[j]) = 0
      /\ \A o \in Jobs \ {j} : pages'[o] = pages[o]
  BY <1>1, EmptySeq
<1>4. /\ Held(j)' = {} /\ \A o \in Jobs \ {j} : Held(o)' = Held(o)
  BY <1>3 DEF Held, Range
<1>5. ASSUME NEW p \in Pages
      PROVE  Holders(p)' = Holders(p) \ {j}
  BY <1>4 DEF Holders
<1>6. ASSUME NEW p \in Pages
      PROVE  /\ table'.ref[p] = Cardinality(Holders(p)') /\ table'.ref[p] \in Nat
             /\ p \in table'.free <=> Holders(p)' = {}
  <2>1. /\ IsFiniteSet(Holders(p)) /\ table.ref[p] = Cardinality(Holders(p))
        /\ table.ref[p] \in Nat /\ (p \in table.free <=> Holders(p) = {})
    BY HoldersFinite DEF PageInv, CountsAreHolders
  <2>2. /\ Cardinality(Holders(p)') =
             IF j \in Holders(p) THEN Cardinality(Holders(p)) - 1 ELSE Cardinality(Holders(p))
        /\ IsFiniteSet(Holders(p)')
    BY <1>5, <2>1, FS_RemoveElement
  <2>3. p \in Q <=> j \in Holders(p)
    BY HeldPages
  <2>4. Cardinality(Holders(p)') \in Nat /\ (Cardinality(Holders(p)') = 0 <=> Holders(p)' = {})
    BY <2>2, FS_CardinalityType, FS_EmptySet
  <2>5. CASE p \in Q
    <3>1. table'.ref[p] = table.ref[p] - 1 /\ p \notin table.free
      BY <1>1, <1>2, <2>5
    <3>2. p \in table'.free <=> table.ref[p] = 1
      BY <1>2, <2>5, <3>1
    <3> HIDE DEF Q
    <3> QED BY <2>1, <2>2, <2>3, <2>4, <2>5, <3>1, <3>2
  <2>6. CASE p \notin Q
    <3>1. table'.ref[p] = table.ref[p] /\ (p \in table'.free <=> p \in table.free)
      BY <1>2, <2>6
    <3> HIDE DEF Q
    <3> QED BY <1>5, <2>1, <2>2, <2>3, <2>4, <2>6, <3>1
  <2> QED BY <2>5, <2>6
<1>7. table' \in Tables
  <2>1. table'.free \in SUBSET Pages
    BY <1>1, <1>2 DEF Tables
  <2>2. table'.ref \in [Pages -> Nat]
    BY <1>2, <1>6
  <2>3. table'.hash \in [Pages -> Prefixes \cup {NoHash}]
    BY <1>1, <1>2 DEF Tables
  <2>4. table'.index \in [Prefixes -> Pages \cup {NoPage}]
    BY <1>1, <1>2 DEF Tables
  <2> QED BY <1>2, <2>1, <2>2, <2>3, <2>4 DEF Tables
<1>8. OwnPages'
  BY <1>3 DEF PageInv, OwnPages
<1>9. CountsAreHolders'
  BY <1>6 DEF CountsAreHolders
<1>10. HashedInPlace'
  <2> SUFFICES ASSUME NEW o \in Jobs, NEW m \in 1..Len(pages'[o]),
                      table'.hash[pages'[o][m]] # NoHash
               PROVE  /\ m <= Len(Kind[o].prompt)
                      /\ table'.hash[pages'[o][m]] = SubSeq(Kind[o].prompt, 1, m)
    BY DEF HashedInPlace
  <2>1. o # j /\ pages'[o] = pages[o]
    BY <1>3
  <2>2. pages[o][m] \in Pages
    BY <2>1, HeldPages
  <2>3. table'.hash[pages[o][m]] = table.hash[pages[o][m]]
    BY <1>2, <2>1, <2>2
  <2> QED BY <2>1, <2>3 DEF PageInv, HashedInPlace
<1>11. UnhashedIsPrivate'
  <2> SUFFICES ASSUME NEW p \in Pages, table'.hash[p] = NoHash,
                      NEW a \in Holders(p)', NEW b \in Holders(p)'
               PROVE  a = b
    BY DEF UnhashedIsPrivate
  <2>1. CASE p \in Q /\ table.ref[p] = 1
    BY <1>2, <1>6, <2>1
  <2>2. CASE ~(p \in Q /\ table.ref[p] = 1)
    <3>1. table.hash[p] = NoHash
      BY <1>2, <2>2
    <3> QED BY <1>5, <3>1 DEF PageInv, UnhashedIsPrivate
  <2> QED BY <2>1, <2>2
<1>12. IndexIsValid'
  <2> SUFFICES ASSUME NEW h \in Prefixes, table'.index[h] # NoPage
               PROVE  /\ table'.index[h] \notin table'.free
                      /\ table'.hash[table'.index[h]] = h
    BY DEF IndexIsValid
  <2>1. /\ table'.index[h] = table.index[h] /\ table.index[h] # NoPage
        /\ ~(table.index[h] \in Q /\ table.ref[table.index[h]] = 1
             /\ table.hash[table.index[h]] = h)
    BY <1>2
  <2>2. /\ table.index[h] \in Pages /\ table.hash[table.index[h]] = h
        /\ table.index[h] \notin table.free
    BY <2>1, IndexHits DEF Hit
  <2> QED BY <1>2, <2>1, <2>2
<1> QED BY <1>7, <1>8, <1>9, <1>10, <1>11, <1>12 DEF PageInv

-----------------------------------------------------------------------------
(* A job takes free pages *)

\* There are n distinct pages on the list if it has that many, and allocate pops them.
LEMMA PickGives ==
  ASSUME table \in Tables, NEW n \in Nat, n <= Cardinality(table.free)
  PROVE  /\ Pick(table, n) \in Seq(table.free) /\ Len(Pick(table, n)) = n
         /\ \A a, b \in 1..n : Pick(table, n)[a] = Pick(table, n)[b] => a = b
<1> DEFINE S == table.free
           c == Cardinality(S)
<1>1. IsFiniteSet(S)
  BY PageAssumption, FS_Subset DEF Tables
<1>2. c \in Nat /\ ExistsBijection(1..c, S)
  BY <1>1, FS_CardinalityType
<1>3. PICK f \in [1..c -> S] : IsInjective(f)
  BY <1>2 DEF ExistsBijection, Bijection, Injection
<1> DEFINE g == [i \in 1..n |-> f[i]]
<1> HIDE DEF c
<1>4. n <= c
  BY DEF c
<1>5. \A i \in 1..n : i \in 1..c
  BY <1>2, <1>4
<1>6. g \in [1..n -> S]
  BY <1>3, <1>5
<1>7. IsInjective(g)
  BY <1>3, <1>5 DEF IsInjective
<1> HIDE DEF g
<1>8. \E s \in [1..n -> S] : IsInjective(s)
  BY <1>6, <1>7
<1>9. Pick(table, n) \in [1..n -> S] /\ IsInjective(Pick(table, n))
  BY <1>8 DEF Pick
<1>10. Pick(table, n) \in Seq(S) /\ Len(Pick(table, n)) = n
  BY <1>9, SeqDef, LenProperties
<1> QED BY <1>9, <1>10 DEF IsInjective

\* allocate: the new pages were nobody's, and have no hash.
LEMMA TakeFreePages ==
  ASSUME PageInv, NEW j \in Jobs, NEW n \in Nat, n <= Cardinality(table.free),
         table' = Allocate(table, Range(Pick(table, n))),
         pages' = [pages EXCEPT ![j] = @ \o Pick(table, n)]
  PROVE  /\ PageInv'
         /\ Len(pages'[j]) = Len(pages[j]) + n
         /\ \A m \in 1..Len(pages'[j]) :
              m > Len(pages[j]) => table'.hash[pages'[j][m]] = NoHash
<1> DEFINE new == Pick(table, n)
           old == pages[j]
           Q == Range(new)
<1>1. /\ new \in Seq(table.free) /\ Len(new) = n
      /\ \A a, b \in 1..n : new[a] = new[b] => a = b
      /\ table \in Tables /\ pages \in [Jobs -> Seq(Pages)]
  BY PickGives DEF PageInv, OwnPages
<1> HIDE DEF new
<1>2. /\ old \in Seq(Pages) /\ Len(old) \in Nat /\ Held(j) = {old[m] : m \in 1..Len(old)}
      /\ Held(j) \subseteq Pages /\ Held(j) \cap table.free = {}
  BY HeldPages
<1>3. /\ DOMAIN new = 1..n /\ Q = {new[m] : m \in 1..n}
      /\ \A m \in 1..n : new[m] \in table.free
      /\ Q \subseteq table.free /\ Q \subseteq Pages /\ new \in Seq(Pages)
  <2>1. DOMAIN new = 1..n
    BY <1>1, LenProperties
  <2>2. \A m \in 1..n : new[m] \in table.free
    BY <1>1, ElementOfSeq
  <2>3. Q = {new[m] : m \in 1..n}
    BY <2>1 DEF Range
  <2>4. table.free \subseteq Pages
    BY <1>1 DEF Tables
  <2>5. new \in [1..n -> Pages]
    BY <1>1, <2>1, <2>2, <2>4, LenProperties
  <2> QED BY <2>1, <2>2, <2>3, <2>4, <2>5, SeqDef
<1>4. /\ table'.free = table.free \ Q
      /\ table'.ref = [p \in Pages |-> IF p \in Q THEN 1 ELSE table.ref[p]]
      /\ table'.hash = [p \in Pages |-> IF p \in Q THEN NoHash ELSE table.hash[p]]
      /\ table'.index = table.index
      /\ table' = [free |-> table'.free, ref |-> table'.ref,
                   hash |-> table'.hash, index |-> table'.index]
  BY <1>1 DEF Allocate, Tables, new
<1> HIDE DEF Q
<1>5. /\ pages' \in [Jobs -> Seq(Pages)] /\ pages'[j] = old \o new
      /\ \A o \in Jobs \ {j} : pages'[o] = pages[o]
  <2>1. old \o new \in Seq(Pages)
    BY <1>2, <1>3, ConcatProperties
  <2> HIDE DEF old
  <2>2. pages' = [pages EXCEPT ![j] = old \o new]
    BY DEF old, new
  <2> QED BY <1>1, <2>1, <2>2
<1> HIDE DEF old
<1>6. /\ Len(pages'[j]) = Len(old) + n
      /\ \A m \in 1..Len(old) : pages'[j][m] = old[m]
      /\ \A m \in 1..Len(pages'[j]) :
           m > Len(old) => m - Len(old) \in 1..n /\ pages'[j][m] = new[m - Len(old)]
  <2>1. Len(old \o new) = Len(old) + Len(new)
    BY <1>2, <1>3, ConcatProperties
  <2>2. \A m \in 1..(Len(old) + Len(new)) :
          (old \o new)[m] = IF m <= Len(old) THEN old[m] ELSE new[m - Len(old)]
    BY <1>2, <1>3, ConcatProperties
  <2>3. \A m \in 1..Len(old) : m \in 1..(Len(old) + n) /\ m <= Len(old)
    BY <1>2
  <2>4. \A m \in 1..(Len(old) + n) :
          m > Len(old) => m - Len(old) \in 1..n /\ ~(m <= Len(old))
    BY <1>2
  <2> QED BY <1>1, <1>5, <2>1, <2>2, <2>3, <2>4
<1>7. \A m \in 1..Len(pages'[j]) : m \in 1..Len(old) \/ m > Len(old)
  BY <1>2, <1>6
<1>8. /\ \A m \in 1..Len(old) : old[m] \in Pages /\ old[m] \notin table.free /\ old[m] \notin Q
      /\ \A m \in 1..n : new[m] \in Q
  BY <1>2, <1>3
<1>9. Held(j)' = Held(j) \cup Q /\ \A o \in Jobs \ {j} : Held(o)' = Held(o)
  <2>1. \A o \in Jobs \ {j} : Held(o)' = Held(o)
    BY <1>5 DEF Held
  <2>2. Held(j)' = {pages'[j][m] : m \in 1..Len(pages'[j])}
    <3>1. pages'[j] \in Seq(Pages)
      BY <1>5
    <3>2. DOMAIN pages'[j] = 1..Len(pages'[j])
      BY <3>1, LenProperties
    <3> QED BY <3>2 DEF Held, Range
  <2>3. ASSUME NEW p \in Held(j)' PROVE p \in Held(j) \cup Q
    <3>1. PICK m \in 1..Len(pages'[j]) : p = pages'[j][m]
      BY <2>2
    <3>2. CASE m \in 1..Len(old)
      BY <1>2, <1>6, <3>1, <3>2
    <3>3. CASE m > Len(old)
      BY <1>3, <1>6, <3>1, <3>3
    <3> QED BY <1>7, <3>1, <3>2, <3>3
  <2>4. ASSUME NEW p \in Held(j) PROVE p \in Held(j)'
    <3>1. PICK m \in 1..Len(old) : p = old[m]
      BY <1>2
    <3>2. m \in 1..Len(pages'[j]) /\ p = pages'[j][m]
      BY <1>2, <1>6, <3>1
    <3> QED BY <2>2, <3>2
  <2>5. ASSUME NEW p \in Q PROVE p \in Held(j)'
    <3>1. PICK m \in 1..n : p = new[m]
      BY <1>3
    <3>2. /\ m + Len(old) \in 1..Len(pages'[j]) /\ m + Len(old) > Len(old)
          /\ (m + Len(old)) - Len(old) = m
      BY <1>2, <1>6
    <3>3. p = pages'[j][m + Len(old)]
      BY <1>6, <3>1, <3>2
    <3> QED BY <2>2, <3>2, <3>3
  <2> QED BY <2>1, <2>3, <2>4, <2>5
<1>10. ASSUME NEW p \in Pages
       PROVE  Holders(p)' = IF p \in Q THEN {j} ELSE Holders(p)
  <2>1. p \in Q => Holders(p) = {}
    BY <1>3 DEF PageInv, CountsAreHolders
  <2> QED BY <1>9, <2>1 DEF Holders
<1>11. ASSUME NEW p \in Pages
       PROVE  /\ table'.ref[p] = Cardinality(Holders(p)') /\ table'.ref[p] \in Nat
              /\ p \in table'.free <=> Holders(p)' = {}
  <2>1. CASE p \in Q
    <3>1. Holders(p)' = {j} /\ Cardinality({j}) = 1
      BY <1>10, <2>1, FS_Singleton
    <3>2. table'.ref[p] = 1 /\ p \notin table'.free
      BY <1>4, <2>1
    <3> QED BY <3>1, <3>2
  <2>2. CASE p \notin Q
    BY <1>4, <1>10, <2>2, HoldersFinite DEF PageInv, CountsAreHolders
  <2> QED BY <2>1, <2>2
<1>12. table' \in Tables
  <2>1. table'.free \in SUBSET Pages /\ table'.index \in [Prefixes -> Pages \cup {NoPage}]
    BY <1>1, <1>4 DEF Tables
  <2>2. table'.ref \in [Pages -> Nat]
    BY <1>4, <1>11
  <2>3. table'.hash \in [Pages -> Prefixes \cup {NoHash}]
    BY <1>1, <1>4 DEF Tables
  <2> QED BY <1>4, <2>1, <2>2, <2>3 DEF Tables
<1>13. OwnPages'
  <2>1. ASSUME NEW a \in 1..Len(pages'[j]), NEW b \in 1..Len(pages'[j]),
               pages'[j][a] = pages'[j][b]
        PROVE  a = b
    <3>1. CASE a \in 1..Len(old) /\ b \in 1..Len(old)
      BY <1>6, <2>1, <3>1 DEF PageInv, OwnPages, old
    <3>2. CASE a > Len(old) /\ b > Len(old)
      <4>1. a - Len(old) = b - Len(old)
        <5>1. /\ a - Len(old) \in 1..n /\ pages'[j][a] = new[a - Len(old)]
              /\ b - Len(old) \in 1..n /\ pages'[j][b] = new[b - Len(old)]
          BY <1>6, <3>2
        <5> QED BY <1>1, <2>1, <5>1
      <4>2. a \in Int /\ b \in Int
        OBVIOUS
      <4> QED BY <1>2, <4>1, <4>2
    <3>3. CASE a \in 1..Len(old) /\ b > Len(old)
      <4>1. pages'[j][a] = old[a] /\ old[a] \notin Q
        BY <1>6, <1>8, <3>3
      <4>2. pages'[j][b] \in Q
        BY <1>6, <1>8, <3>3
      <4> QED BY <2>1, <4>1, <4>2
    <3>4. CASE a > Len(old) /\ b \in 1..Len(old)
      <4>1. pages'[j][b] = old[b] /\ old[b] \notin Q
        BY <1>6, <1>8, <3>4
      <4>2. pages'[j][a] \in Q
        BY <1>6, <1>8, <3>4
      <4> QED BY <2>1, <4>1, <4>2
    <3> QED BY <1>7, <3>1, <3>2, <3>3, <3>4
  <2>2. ASSUME NEW o \in Jobs, o # j, NEW a \in 1..Len(pages'[o]), NEW b \in 1..Len(pages'[o]),
               pages'[o][a] = pages'[o][b]
        PROVE  a = b
    BY <1>5, <2>2 DEF PageInv, OwnPages
  <2> QED BY <1>5, <2>1, <2>2 DEF OwnPages
<1>14. CountsAreHolders'
  BY <1>11 DEF CountsAreHolders
<1>15. \A m \in 1..Len(pages'[j]) : m > Len(old) => table'.hash[pages'[j][m]] = NoHash
  BY <1>3, <1>4, <1>6, <1>8
<1>16. HashedInPlace'
  <2> SUFFICES ASSUME NEW o \in Jobs, NEW m \in 1..Len(pages'[o]),
                      table'.hash[pages'[o][m]] # NoHash
               PROVE  /\ m <= Len(Kind[o].prompt)
                      /\ table'.hash[pages'[o][m]] = SubSeq(Kind[o].prompt, 1, m)
    BY DEF HashedInPlace
  <2>1. m \in 1..Len(pages[o]) /\ pages'[o][m] = pages[o][m]
    BY <1>5, <1>6, <1>7, <1>15 DEF old
  <2>2. pages[o][m] \in Pages /\ pages[o][m] \notin table.free
    BY <2>1, HeldPages
  <2>3. table'.hash[pages[o][m]] = table.hash[pages[o][m]]
    BY <1>3, <1>4, <2>2
  <2> QED BY <2>1, <2>3 DEF PageInv, HashedInPlace
<1>17. UnhashedIsPrivate'
  BY <1>4, <1>10 DEF PageInv, UnhashedIsPrivate
<1>18. IndexIsValid'
  <2> SUFFICES ASSUME NEW h \in Prefixes, table.index[h] # NoPage
               PROVE  /\ table.index[h] \notin table'.free
                      /\ table'.hash[table.index[h]] = h
    BY <1>4 DEF IndexIsValid
  <2>1. /\ table.index[h] \in Pages /\ table.hash[table.index[h]] = h
        /\ table.index[h] \notin table.free
    BY IndexHits DEF Hit
  <2> QED BY <1>3, <1>4, <2>1
<1> QED BY <1>6, <1>12, <1>13, <1>14, <1>15, <1>16, <1>17, <1>18 DEF PageInv, old

-----------------------------------------------------------------------------
(* The prefix loop: a page of the job gets a hash, or a cached one replaces it *)

\* The prefix of length d of a prompt is looked up, and has that length.
LEMMA PrefixFacts ==
  ASSUME NEW j \in Jobs, NEW d \in 1..Len(Kind[j].prompt)
  PROVE  /\ SubSeq(Kind[j].prompt, 1, d) \in Prefixes
         /\ SubSeq(Kind[j].prompt, 1, d) # NoHash
         /\ Len(SubSeq(Kind[j].prompt, 1, d)) = d
<1>1. Kind[j].prompt \in Seq(Range(Kind[j].prompt)) /\ PrefixesOf(Kind[j].prompt) \subseteq Prefixes
  BY SchedulerAssumption
<1>2. SubSeq(Kind[j].prompt, 1, d) \in PrefixesOf(Kind[j].prompt)
  BY DEF PrefixesOf
<1>3. Len(Kind[j].prompt) \in Nat
  BY <1>1, LenProperties
<1>4. Len(SubSeq(Kind[j].prompt, 1, d)) = d - 1 + 1
  <2>1. \A i \in 1..d : Kind[j].prompt[i] \in Range(Kind[j].prompt)
    BY <1>1, <1>3, ElementOfSeq
  <2> QED BY <1>1, <1>3, <2>1, SubSeqProperties
<1>5. d - 1 + 1 = d
  BY <1>3
<1>6. Len(SubSeq(Kind[j].prompt, 1, d)) = d
  BY <1>4, <1>5, Zenon
<1>7. \A h \in Prefixes : h # NoHash
  BY PageAssumption
<1> QED BY <1>1, <1>2, <1>6, <1>7, Zenon

\* Where a job has a page with a hash, the hash has the length of the place.
LEMMA HashGivesPlace ==
  ASSUME PageInv, NEW j \in Jobs, NEW m \in 1..Len(pages[j]),
         table.hash[pages[j][m]] # NoHash
  PROVE  /\ m \in 1..Len(Kind[j].prompt)
         /\ table.hash[pages[j][m]] = SubSeq(Kind[j].prompt, 1, m)
         /\ Len(table.hash[pages[j][m]]) = m
<1>1. m <= Len(Kind[j].prompt) /\ table.hash[pages[j][m]] = SubSeq(Kind[j].prompt, 1, m)
  BY DEF PageInv, HashedInPlace
<1>2. Kind[j].prompt \in Seq(Range(Kind[j].prompt))
  BY SchedulerAssumption
<1>3. Len(Kind[j].prompt) \in Nat /\ Len(pages[j]) \in Nat
  BY <1>2, LenProperties, HeldPages
<1>4. m \in 1..Len(Kind[j].prompt)
  BY <1>1, <1>3
<1> QED BY <1>1, <1>4, PrefixFacts

\* SetPrefixHash on a page of the job that has none yet.
LEMMA HashOwnPage ==
  ASSUME PageInv, NEW j \in Jobs, NEW d \in 1..Len(pages[j]), d <= Len(Kind[j].prompt),
         table.hash[pages[j][d]] = NoHash, ~Hit(table, SubSeq(Kind[j].prompt, 1, d)),
         table' = SetPrefixHash(table, pages[j][d], SubSeq(Kind[j].prompt, 1, d)),
         pages' = pages
  PROVE  /\ PageInv'
         /\ \A p \in Pages : p # pages[j][d] => table'.hash[p] = table.hash[p]
<1> DEFINE h == SubSeq(Kind[j].prompt, 1, d)
           p0 == pages[j][d]
<1>1. /\ Len(pages[j]) \in Nat /\ p0 \in Pages /\ p0 \notin table.free /\ j \in Holders(p0)
      /\ table \in Tables
  BY HeldPages DEF PageInv
<1>2. h \in Prefixes /\ h # NoHash /\ table.index[h] = NoPage
  <2>1. d \in 1..Len(Kind[j].prompt)
    <3>1. Kind[j].prompt \in Seq(Range(Kind[j].prompt))
      BY SchedulerAssumption
    <3>2. Len(Kind[j].prompt) \in Nat
      BY <3>1, LenProperties
    <3> QED BY <1>1, <3>2
  <2>2. h \in Prefixes /\ h # NoHash
    BY <2>1, PrefixFacts
  <2> HIDE DEF h
  <2>3. ~Hit(table, h)
    BY DEF h
  <2> QED BY <2>2, <2>3, IndexHits
<1> HIDE DEF h, p0
<1>3. table' = SetPrefixHash(table, p0, h) /\ table.hash[p0] = NoHash
  BY DEF h, p0
<1>4. /\ table'.free = table.free /\ table'.ref = table.ref
      /\ table'.hash = [table.hash EXCEPT ![p0] = h]
      /\ table'.index = [g \in Prefixes |->
           IF g = h THEN p0
           ELSE IF g = table.hash[p0] /\ table.index[g] = p0 THEN NoPage ELSE table.index[g]]
      /\ table' = [free |-> table'.free, ref |-> table'.ref,
                   hash |-> table'.hash, index |-> table'.index]
  BY <1>1, <1>3 DEF SetPrefixHash, Tables
<1>5. \A g \in Prefixes : table'.index[g] = IF g = h THEN p0 ELSE table.index[g]
  BY <1>3, <1>4, PageAssumption
<1>6. \A p \in Pages : table'.hash[p] = IF p = p0 THEN h ELSE table.hash[p]
  BY <1>1, <1>4 DEF Tables
<1>7. \A p : Holders(p)' = Holders(p)
  BY DEF Holders, Held
<1>8. table' \in Tables
  <2>1. table'.hash \in [Pages -> Prefixes \cup {NoHash}]
    BY <1>1, <1>2, <1>4 DEF Tables
  <2>2. table'.index \in [Prefixes -> Pages \cup {NoPage}]
    BY <1>1, <1>4 DEF Tables
  <2>3. table'.free \in SUBSET Pages /\ table'.ref \in [Pages -> Nat]
    BY <1>1, <1>4 DEF Tables
  <2> QED BY <1>4, <2>1, <2>2, <2>3 DEF Tables
<1>9. OwnPages' /\ CountsAreHolders'
  BY <1>4, <1>7 DEF PageInv, OwnPages, CountsAreHolders
<1>10. HashedInPlace'
  <2> SUFFICES ASSUME NEW o \in Jobs, NEW m \in 1..Len(pages[o]),
                      table'.hash[pages[o][m]] # NoHash
               PROVE  /\ m <= Len(Kind[o].prompt)
                      /\ table'.hash[pages[o][m]] = SubSeq(Kind[o].prompt, 1, m)
    BY DEF HashedInPlace
  <2>1. pages[o][m] \in Pages /\ o \in Holders(pages[o][m])
    BY HeldPages
  <2>2. CASE pages[o][m] = p0
    <3>1. o = j
      BY <1>1, <1>3, <2>1, <2>2 DEF PageInv, UnhashedIsPrivate
    <3>2. m = d
      BY <2>2, <3>1 DEF PageInv, OwnPages, p0
    <3> QED BY <1>1, <1>6, <2>2, <3>1, <3>2 DEF h
  <2>3. CASE pages[o][m] # p0
    BY <1>6, <2>1, <2>3 DEF PageInv, HashedInPlace
  <2> QED BY <2>2, <2>3
<1>11. UnhashedIsPrivate'
  <2> SUFFICES ASSUME NEW p \in Pages, table'.hash[p] = NoHash,
                      NEW a \in Holders(p), NEW b \in Holders(p)
               PROVE  a = b
    BY <1>7 DEF UnhashedIsPrivate
  <2>1. table.hash[p] = NoHash
    BY <1>2, <1>6
  <2> QED BY <2>1 DEF PageInv, UnhashedIsPrivate
<1>12. IndexIsValid'
  <2> SUFFICES ASSUME NEW g \in Prefixes, table'.index[g] # NoPage
               PROVE  /\ table'.index[g] \notin table'.free
                      /\ table'.hash[table'.index[g]] = g
    BY DEF IndexIsValid
  <2>1. CASE g = h
    BY <1>1, <1>4, <1>5, <1>6, <2>1
  <2>2. CASE g # h
    <3>1. table'.index[g] = table.index[g]
      BY <1>5, <2>2
    <3>2. /\ table.index[g] \in Pages /\ table.hash[table.index[g]] = g /\ g # NoHash
          /\ table.index[g] \notin table.free
      BY <3>1, IndexHits DEF Hit
    <3> QED BY <1>3, <1>4, <1>6, <3>1, <3>2
  <2> QED BY <2>1, <2>2
<1> QED BY <1>6, <1>8, <1>9, <1>10, <1>11, <1>12 DEF PageInv, p0

\* A page without a hash goes, and another gets a holder: no hash and no entry changes.
LEMMA SwapFields ==
  ASSUME table \in Tables, NEW q \in Pages, q \notin table.free, table.ref[q] = 1, table.hash[q] = NoHash,
         NEW c \in Pages, c # q, table' = AddHolder(Free(table, {q}), c)
  PROVE  /\ table'.free = table.free \cup {q}
         /\ table'.ref[q] = 0 /\ table'.ref[c] = table.ref[c] + 1
         /\ \A p \in Pages \ {q, c} : table'.ref[p] = table.ref[p]
         /\ table'.hash = table.hash /\ table'.index = table.index
         /\ table' \in Tables
<1> DEFINE F == Free(table, {q})
           R == [p \in Pages |-> IF p = q THEN 0 ELSE IF p = c THEN table.ref[p] + 1 ELSE table.ref[p]]
<1>1. /\ table.free \in SUBSET Pages /\ table.ref \in [Pages -> Nat]
      /\ table.hash \in [Pages -> Prefixes \cup {NoHash}]
      /\ table.index \in [Prefixes -> Pages \cup {NoPage}]
  BY DEF Tables
<1>2. /\ F.free = table.free \cup {p \in {q} : table.ref[p] = 1}
      /\ F.ref = [p \in Pages |-> IF p \in {q} THEN table.ref[p] - 1 ELSE table.ref[p]]
      /\ F.hash = [p \in Pages |-> IF p \in {q} /\ table.ref[p] = 1 THEN NoHash ELSE table.hash[p]]
      /\ F.index = [g \in Prefixes |->
           IF table.index[g] \in {q} /\ table.ref[table.index[g]] = 1 /\ table.hash[table.index[g]] = g
             THEN NoPage ELSE table.index[g]]
      /\ F = [free |-> F.free, ref |-> F.ref, hash |-> F.hash, index |-> F.index]
  <2>1. {q} \in SUBSET Pages /\ {q} \cap table.free = {}
    OBVIOUS
  <2> HIDE DEF F
  <2> QED BY <2>1, FreeFields DEF F
<1>3. table' = [F EXCEPT !.ref[c] = @ + 1]
  BY DEF AddHolder
<1> HIDE DEF F, R
<1>4. /\ table'.free = F.free /\ table'.hash = F.hash /\ table'.index = F.index
      /\ table'.ref = [F.ref EXCEPT ![c] = @ + 1]
      /\ table' = [free |-> table'.free, ref |-> table'.ref, hash |-> table'.hash, index |-> table'.index]
  BY <1>2, <1>3
<1>5. F.free = table.free \cup {q}
  BY <1>2
<1>6. F.hash = table.hash
  <2>1. [p \in Pages |-> IF p \in {q} /\ table.ref[p] = 1 THEN NoHash ELSE table.hash[p]] = table.hash
    BY <1>1
  <2> QED BY <1>2, <2>1
<1>7. F.index = table.index
  <2>1. \A g \in Prefixes : ~(table.index[g] \in {q} /\ table.hash[table.index[g]] = g)
    BY PageAssumption
  <2>2. [g \in Prefixes |->
           IF table.index[g] \in {q} /\ table.ref[table.index[g]] = 1 /\ table.hash[table.index[g]] = g
             THEN NoPage ELSE table.index[g]] = table.index
    BY <1>1, <2>1
  <2> QED BY <1>2, <2>2
<1>8. F.ref \in [Pages -> Int] /\ \A p \in Pages : F.ref[p] = IF p = q THEN 0 ELSE table.ref[p]
  BY <1>1, <1>2
<1>9. table'.ref = R /\ R \in [Pages -> Nat]
  <2>1. R \in [Pages -> Nat]
    BY <1>1 DEF R
  <2>2. [F.ref EXCEPT ![c] = @ + 1] \in [Pages -> Int]
    BY <1>8
  <2>3. \A p \in Pages : [F.ref EXCEPT ![c] = @ + 1][p] = R[p]
    BY <1>1, <1>8 DEF R
  <2> QED BY <1>4, <2>1, <2>2, <2>3
<1>10. table' \in Tables
  <2>1. table'.free \in SUBSET Pages
    BY <1>1, <1>4, <1>5
  <2> QED BY <1>1, <1>4, <1>6, <1>7, <1>9, <2>1 DEF Tables
<1>11. /\ table'.ref[q] = 0 /\ table'.ref[c] = table.ref[c] + 1
       /\ \A p \in Pages \ {q, c} : table'.ref[p] = table.ref[p]
  BY <1>1, <1>9 DEF R
<1> QED BY <1>4, <1>5, <1>6, <1>7, <1>10, <1>11

\* A hit: the fresh page, which is the job's alone, is given back for the cached one,
\* which the job does not hold yet.
LEMMA ReuseCachedPage ==
  ASSUME PageInv, NEW j \in Jobs, NEW d \in 1..Len(pages[j]), d <= Len(Kind[j].prompt),
         \A m \in 1..Len(pages[j]) : m >= d => table.hash[pages[j][m]] = NoHash,
         NEW c, c = table.index[SubSeq(Kind[j].prompt, 1, d)],
         Hit(table, SubSeq(Kind[j].prompt, 1, d)),
         table' = AddHolder(Free(table, {pages[j][d]}), c),
         pages' = [pages EXCEPT ![j][d] = c]
  PROVE  /\ PageInv'
         /\ Len(pages'[j]) = Len(pages[j])
         /\ \A m \in 1..Len(pages'[j]) : m > d => table'.hash[pages'[j][m]] = NoHash
<1> DEFINE h == SubSeq(Kind[j].prompt, 1, d)
           p0 == pages[j][d]
<1>1. /\ Len(pages[j]) \in Nat /\ p0 \in Pages /\ p0 \notin table.free /\ j \in Holders(p0)
      /\ table \in Tables /\ pages \in [Jobs -> Seq(Pages)] /\ table.hash[p0] = NoHash
  BY HeldPages DEF PageInv, OwnPages
<1>2. h \in Prefixes /\ h # NoHash /\ Len(h) = d
  <2>1. d \in 1..Len(Kind[j].prompt)
    <3>1. Kind[j].prompt \in Seq(Range(Kind[j].prompt))
      BY SchedulerAssumption
    <3>2. Len(Kind[j].prompt) \in Nat
      BY <3>1, LenProperties
    <3> QED BY <1>1, <3>2
  <2> QED BY <2>1, PrefixFacts
<1>3. /\ c \in Pages /\ c \notin table.free /\ table.hash[c] = h /\ c # p0
  <2>1. Hit(table, h) /\ c = table.index[h]
    OBVIOUS
  <2> HIDE DEF h, p0
  <2> QED BY <1>1, <1>2, <2>1, IndexHits DEF Hit
<1>4. j \notin Holders(c)
  <2> SUFFICES ASSUME j \in Holders(c) PROVE FALSE
    OBVIOUS
  <2> HIDE DEF h, p0
  <2>1. PICK m \in 1..Len(pages[j]) : pages[j][m] = c
    BY <1>3, HeldPages
  <2>2. table.hash[pages[j][m]] # NoHash /\ Len(h) = m
    BY <1>2, <1>3, <2>1, HashGivesPlace
  <2>3. m = d
    BY <1>2, <2>2
  <2> QED BY <1>3, <2>1, <2>3 DEF p0
<1> HIDE DEF h, p0
<1>5. Holders(p0) = {j} /\ table.ref[p0] = 1
  <2>1. Holders(p0) = {j}
    BY <1>1 DEF PageInv, UnhashedIsPrivate
  <2>2. Cardinality({j}) = 1
    BY FS_Singleton
  <2>3. table.ref[p0] = Cardinality(Holders(p0))
    BY <1>1 DEF PageInv, CountsAreHolders
  <2> QED BY <2>1, <2>2, <2>3
<1>6. /\ table'.free = table.free \cup {p0}
      /\ table'.ref[p0] = 0 /\ table'.ref[c] = table.ref[c] + 1
      /\ \A p \in Pages \ {p0, c} : table'.ref[p] = table.ref[p]
      /\ table'.hash = table.hash /\ table'.index = table.index
      /\ table' \in Tables
  <2>1. table' = AddHolder(Free(table, {p0}), c)
    BY DEF p0
  <2>2. /\ table \in Tables /\ p0 \in Pages /\ p0 \notin table.free /\ table.ref[p0] = 1
        /\ table.hash[p0] = NoHash /\ c \in Pages /\ c # p0
    BY <1>1, <1>3, <1>5
  <2> QED BY <2>1, <2>2, SwapFields
<1>7. /\ pages' \in [Jobs -> Seq(Pages)] /\ Len(pages'[j]) = Len(pages[j])
      /\ \A m \in 1..Len(pages[j]) : pages'[j][m] = IF m = d THEN c ELSE pages[j][m]
      /\ \A o \in Jobs \ {j} : pages'[o] = pages[o]
  <2> DEFINE new == [pages[j] EXCEPT ![d] = c]
  <2>1. /\ new \in Seq(Pages) /\ Len(new) = Len(pages[j])
        /\ \A m \in 1..Len(pages[j]) : new[m] = IF m = d THEN c ELSE pages[j][m]
    BY <1>1, <1>3, ExceptSeq
  <2>2. pages' = [pages EXCEPT ![j] = new]
    OBVIOUS
  <2> HIDE DEF new
  <2> QED BY <1>1, <2>1, <2>2
<1>8. /\ \A o \in Jobs \ {j} : Held(o)' = Held(o)
      /\ \A p \in Pages : p \in Held(j)' <=> p = c \/ (p # p0 /\ p \in Held(j))
  <2>1. \A o \in Jobs \ {j} : Held(o)' = Held(o)
    BY <1>7 DEF Held
  <2>2. Held(j)' = {pages'[j][m] : m \in 1..Len(pages'[j])}
    <3>1. pages'[j] \in Seq(Pages)
      BY <1>7
    <3>2. DOMAIN pages'[j] = 1..Len(pages'[j])
      BY <3>1, LenProperties
    <3> QED BY <3>2 DEF Held, Range
  <2>3. Held(j) = {pages[j][m] : m \in 1..Len(pages[j])}
    BY HeldPages
  <2>4. \A m \in 1..Len(pages[j]) : pages[j][m] = p0 <=> m = d
    BY DEF PageInv, OwnPages, p0
  <2>5. ASSUME NEW p \in Pages, p \in Held(j)' PROVE p = c \/ (p # p0 /\ p \in Held(j))
    <3>1. PICK m \in 1..Len(pages[j]) : p = pages'[j][m]
      BY <1>7, <2>2, <2>5
    <3>2. CASE m = d
      BY <1>7, <3>1, <3>2
    <3>3. CASE m # d
      <4>1. p = pages[j][m]
        BY <1>7, <3>1, <3>3
      <4> QED BY <2>3, <2>4, <3>3, <4>1
    <3> QED BY <3>2, <3>3
  <2>6. c \in Held(j)'
    BY <1>7, <2>2
  <2>7. ASSUME NEW p \in Pages, p # p0, p \in Held(j) PROVE p \in Held(j)'
    <3>1. PICK m \in 1..Len(pages[j]) : p = pages[j][m]
      BY <2>3, <2>7
    <3>2. m # d
      BY <2>4, <2>7, <3>1
    <3>3. p = pages'[j][m] /\ m \in 1..Len(pages'[j])
      BY <1>7, <3>1, <3>2
    <3> QED BY <2>2, <3>3
  <2> QED BY <2>1, <2>5, <2>6, <2>7
<1>9. ASSUME NEW p \in Pages
      PROVE  Holders(p)' = IF p = p0 THEN {} ELSE IF p = c THEN Holders(p) \cup {j} ELSE Holders(p)
  <2>1. CASE p = p0
    <3>1. \A o \in Jobs : p \in Held(o) => o = j
      BY <1>5, <2>1 DEF Holders
    <3>2. \A o \in Jobs : p \notin Held(o)'
      BY <1>3, <1>8, <2>1, <3>1
    <3> QED BY <2>1, <3>2 DEF Holders
  <2>2. CASE p = c
    <3>1. \A o \in Jobs : p \in Held(o)' <=> o = j \/ p \in Held(o)
      BY <1>8, <2>2
    <3> QED BY <1>3, <2>2, <3>1 DEF Holders
  <2>3. CASE p # p0 /\ p # c
    <3>1. \A o \in Jobs : p \in Held(o)' <=> p \in Held(o)
      BY <1>8, <2>3
    <3> QED BY <2>3, <3>1 DEF Holders
  <2> QED BY <2>1, <2>2, <2>3
<1>10. CountsAreHolders'
  <2> SUFFICES ASSUME NEW p \in Pages
               PROVE  /\ table'.ref[p] = Cardinality(Holders(p)')
                      /\ p \in table'.free <=> Holders(p)' = {}
    BY DEF CountsAreHolders
  <2>1. CASE p = p0
    BY <1>6, <1>9, <2>1, FS_EmptySet
  <2>2. CASE p = c
    <3>1. Cardinality(Holders(p) \cup {j}) = Cardinality(Holders(p)) + 1
      BY <1>4, <2>2, HoldersFinite, FS_AddElement
    <3>2. Holders(p)' = Holders(p) \cup {j}
      BY <1>3, <1>9, <2>2
    <3>3. table'.ref[p] = table.ref[p] + 1 /\ p \notin table'.free
      BY <1>3, <1>6, <2>2
    <3> QED BY <3>1, <3>2, <3>3 DEF PageInv, CountsAreHolders
  <2>3. CASE p # p0 /\ p # c
    <3>1. table'.ref[p] = table.ref[p] /\ (p \in table'.free <=> p \in table.free)
      BY <1>6, <2>3
    <3>2. Holders(p)' = Holders(p)
      BY <1>9, <2>3
    <3> QED BY <3>1, <3>2 DEF PageInv, CountsAreHolders
  <2> QED BY <2>1, <2>2, <2>3
<1>11. OwnPages'
  <2>1. ASSUME NEW m \in 1..Len(pages'[j]), NEW n \in 1..Len(pages'[j]),
               pages'[j][m] = pages'[j][n]
        PROVE  m = n
    <3>1. \A i \in 1..Len(pages[j]) : pages[j][i] # c
      <4>1. c \notin Held(j)
        BY <1>3, <1>4, HeldPages
      <4> QED BY <4>1, HeldPages
    <3> QED BY <1>7, <2>1, <3>1 DEF PageInv, OwnPages
  <2>2. ASSUME NEW o \in Jobs, o # j, NEW m \in 1..Len(pages'[o]), NEW n \in 1..Len(pages'[o]),
               pages'[o][m] = pages'[o][n]
        PROVE  m = n
    BY <1>7, <2>2 DEF PageInv, OwnPages
  <2> QED BY <1>7, <2>1, <2>2 DEF OwnPages
<1>12. HashedInPlace'
  <2> SUFFICES ASSUME NEW o \in Jobs, NEW m \in 1..Len(pages'[o]),
                      table'.hash[pages'[o][m]] # NoHash
               PROVE  /\ m <= Len(Kind[o].prompt)
                      /\ table'.hash[pages'[o][m]] = SubSeq(Kind[o].prompt, 1, m)
    BY DEF HashedInPlace
  <2>1. CASE o = j /\ m = d
    BY <1>3, <1>6, <1>7, <2>1 DEF h
  <2>2. CASE ~(o = j /\ m = d)
    <3>1. m \in 1..Len(pages[o]) /\ pages'[o][m] = pages[o][m]
      BY <1>7, <2>2
    <3>2. table.hash[pages[o][m]] # NoHash
      BY <1>6, <3>1
    <3>3. m <= Len(Kind[o].prompt) /\ table.hash[pages[o][m]] = SubSeq(Kind[o].prompt, 1, m)
      BY <3>1, <3>2 DEF PageInv, HashedInPlace
    <3> QED BY <1>6, <3>1, <3>3
  <2> QED BY <2>1, <2>2
<1>13. UnhashedIsPrivate'
  <2> SUFFICES ASSUME NEW p \in Pages, table'.hash[p] = NoHash,
                      NEW a \in Holders(p)', NEW b \in Holders(p)'
               PROVE  a = b
    BY DEF UnhashedIsPrivate
  <2>1. table.hash[p] = NoHash /\ p # c
    BY <1>2, <1>3, <1>6
  <2> QED BY <1>9, <2>1 DEF PageInv, UnhashedIsPrivate
<1>14. IndexIsValid'
  <2> SUFFICES ASSUME NEW g \in Prefixes, table'.index[g] # NoPage
               PROVE  /\ table'.index[g] \notin table'.free
                      /\ table'.hash[table'.index[g]] = g
    BY DEF IndexIsValid
  <2>1. table'.index[g] = table.index[g]
    BY <1>6
  <2>2. /\ table.index[g] \in Pages /\ table.hash[table.index[g]] = g /\ g # NoHash
        /\ table.index[g] \notin table.free
    BY <2>1, IndexHits DEF Hit
  <2> QED BY <1>1, <1>6, <2>1, <2>2
<1>15. \A m \in 1..Len(pages'[j]) : m > d => table'.hash[pages'[j][m]] = NoHash
  <2> SUFFICES ASSUME NEW m \in 1..Len(pages[j]), m > d
               PROVE  table'.hash[pages'[j][m]] = NoHash
    BY <1>7
  <2>1. pages'[j][m] = pages[j][m] /\ m >= d /\ pages[j][m] \in Pages
    BY <1>7, HeldPages
  <2> QED BY <1>6, <2>1
<1> QED BY <1>6, <1>7, <1>10, <1>11, <1>12, <1>13, <1>14, <1>15 DEF PageInv

-----------------------------------------------------------------------------
(* The invariant of the control: the queues say what the statuses say, the thread's
   variables are set where it needs them, and who has no pages has given them up. *)

ControlTypes ==
  /\ status \in [Jobs -> Statuses] /\ wants \subseteq Cancellable /\ place \in Places
  /\ outputs \in [Jobs -> Nat] /\ depth \in Nat /\ swapped \in Seq(Jobs)

\* The preempted jobs, and that each is in the line once.
InLine == {swapped[i] : i \in 1..Len(swapped)}
OnceInLine == \A i, k \in 1..Len(swapped) : swapped[i] = swapped[k] => i = k

Ended == {j \in Jobs : status[j] \in Terminal}

QueuesMatch ==
  /\ running = {j \in Jobs : status[j] = "Running"}
  /\ OnceInLine /\ InLine = {j \in Jobs : status[j] = "Swapped"}
  /\ {j \in Jobs : status[j] = "Waiting"} \ {current} \subseteq waiting
  /\ waiting \subseteq {j \in Jobs : status[j] \in {"Waiting", "Cancelled"}}
  /\ \A j \in wants : status[j] \notin {"new", "Waiting"}
  /\ \A j \in Jobs : status[j] = "Cancelled" => j \in wants
  /\ Cardinality(running) <= MaxNumSeqs
  /\ finished = Cardinality(Ended)

ThreadInv ==
  /\ todo \subseteq running /\ batch \subseteq running
  /\ place # "forward" => todo = {}
  /\ place \notin {"forward", "finish"} => batch = {}
  /\ place # "prefix" => current = NoJob
  /\ place = "prefix" => /\ current \in Jobs /\ status[current] = "Waiting"
                         /\ current \notin waiting /\ HasRoom

\* Who has pages; and the pages that the prefix loop has not come to have no hash.
PagesInUse ==
  /\ \A j \in Jobs : pages[j] # <<>> => status[j] = "Running" \/ j = current
  /\ place = "prefix" => \A m \in 1..Len(pages[current]) :
                           m > depth => table.hash[pages[current][m]] = NoHash

SchedInv == PageInv /\ ControlTypes /\ QueuesMatch /\ ThreadInv /\ PagesInUse

\* PageInv speaks of the table and the pages only.
LEMMA PagesLeftAlone ==
  ASSUME PageInv, table' = table, pages' = pages
  PROVE  PageInv'
<1>1. \A j : Held(j)' = Held(j)
  BY DEF Held
<1>2. \A p : Holders(p)' = Holders(p)
  BY <1>1 DEF Holders
<1>3. OwnPages' /\ CountsAreHolders'
  BY <1>2 DEF PageInv, OwnPages, CountsAreHolders
<1>4. HashedInPlace' /\ UnhashedIsPrivate' /\ IndexIsValid'
  BY <1>2 DEF PageInv, HashedInPlace, UnhashedIsPrivate, IndexIsValid
<1> QED BY <1>3, <1>4 DEF PageInv

\* Sets of jobs are finite, and grow and shrink by one.
LEMMA JobSets ==
  ASSUME NEW S \in SUBSET Jobs, NEW j \in Jobs
  PROVE  /\ IsFiniteSet(S) /\ Cardinality(S) \in Nat
         /\ Cardinality(S \ {j}) <= Cardinality(S)
         /\ j \notin S => Cardinality(S \cup {j}) = Cardinality(S) + 1
<1>1. IsFiniteSet(S)
  BY SchedulerAssumption, FS_Subset
<1>2. Cardinality(S) \in Nat
  BY <1>1, FS_CardinalityType
<1>3. j \in S => Cardinality(S \ {j}) = Cardinality(S) - 1
  BY <1>1, FS_RemoveElement
<1>4. j \notin S => S \ {j} = S
  OBVIOUS
<1>5. j \notin S => Cardinality(S \cup {j}) = Cardinality(S) + 1
  BY <1>1, FS_AddElement
<1> QED BY <1>1, <1>2, <1>3, <1>4, <1>5

\* A job joins the line of the preempted.
LEMMA JoinsLine ==
  ASSUME swapped \in Seq(Jobs), OnceInLine, NEW j \in Jobs, j \notin InLine,
         swapped' = Append(swapped, j)
  PROVE  swapped' \in Seq(Jobs) /\ OnceInLine' /\ InLine' = InLine \cup {j}
<1>1. /\ swapped' \in Seq(Jobs) /\ Len(swapped') = Len(swapped) + 1
      /\ \A i \in 1..Len(swapped) : swapped'[i] = swapped[i]
      /\ swapped'[Len(swapped) + 1] = j /\ Len(swapped) \in Nat
  BY AppendProperties, LenProperties
<1>2. \A i \in 1..Len(swapped') : i \in 1..Len(swapped) \/ i = Len(swapped) + 1
  BY <1>1
<1>3. \A i \in 1..Len(swapped) : i \in 1..Len(swapped') /\ swapped[i] # j
  BY <1>1 DEF InLine
<1>4. OnceInLine'
  <2> SUFFICES ASSUME NEW i \in 1..Len(swapped'), NEW k \in 1..Len(swapped'),
                      swapped'[i] = swapped'[k]
               PROVE  i = k
    BY DEF OnceInLine
  <2> QED BY <1>1, <1>2, <1>3 DEF OnceInLine
<1>5. Len(swapped) + 1 \in 1..Len(swapped')
  BY <1>1
<1>6. ASSUME NEW x PROVE x \in InLine' <=> (x \in InLine \/ x = j)
  BY <1>1, <1>2, <1>3, <1>5 DEF InLine
<1> QED BY <1>1, <1>4, <1>6

\* The first of the line leaves it.
LEMMA LeavesLine ==
  ASSUME swapped \in Seq(Jobs), OnceInLine, swapped # <<>>, swapped' = Tail(swapped)
  PROVE  /\ swapped' \in Seq(Jobs) /\ OnceInLine' /\ InLine' = InLine \ {Head(swapped)}
         /\ Head(swapped) \in InLine /\ Head(swapped) \in Jobs
<1>1. /\ swapped' \in Seq(Jobs) /\ Len(swapped') = Len(swapped) - 1
      /\ \A i \in 1..Len(swapped') : swapped'[i] = swapped[i + 1]
      /\ Head(swapped) \in Jobs /\ Len(swapped) \in Nat
  BY HeadTailProperties, LenProperties
<1>2. Len(swapped) > 0 /\ Head(swapped) = swapped[1] /\ 1 \in 1..Len(swapped)
  BY <1>1, EmptySeq, HeadTailProperties
<1>3. \A i \in 1..Len(swapped') : i + 1 \in 1..Len(swapped) /\ i + 1 # 1
  BY <1>1
<1>4. \A i \in 1..Len(swapped) : i # 1 => i - 1 \in 1..Len(swapped') /\ (i - 1) + 1 = i
  BY <1>1
<1>5. OnceInLine'
  <2> SUFFICES ASSUME NEW i \in 1..Len(swapped'), NEW k \in 1..Len(swapped'),
                      swapped'[i] = swapped'[k]
               PROVE  i = k
    BY DEF OnceInLine
  <2>1. i + 1 = k + 1
    BY <1>1, <1>3 DEF OnceInLine
  <2> QED BY <1>1, <2>1
<1>6. ASSUME NEW i \in 1..Len(swapped')
      PROVE  swapped'[i] \in InLine /\ swapped'[i] # Head(swapped)
  BY <1>1, <1>2, <1>3 DEF InLine, OnceInLine
<1>7. ASSUME NEW x \in InLine, x # Head(swapped) PROVE x \in InLine'
  <2>1. PICK i \in 1..Len(swapped) : x = swapped[i]
    BY <1>7 DEF InLine
  <2>2. i - 1 \in 1..Len(swapped') /\ (i - 1) + 1 = i
    BY <1>2, <1>4, <1>7, <2>1
  <2>3. swapped'[i - 1] = x
    BY <1>1, <2>1, <2>2
  <2> QED BY <2>2, <2>3 DEF InLine
<1>8. Head(swapped) \in InLine
  BY <1>2 DEF InLine
<1>9. ASSUME NEW x \in InLine' PROVE x \in InLine /\ x # Head(swapped)
  <2>1. PICK i \in 1..Len(swapped') : x = swapped'[i]
    BY <1>9 DEF InLine
  <2> QED BY <1>6, <2>1
<1> QED BY <1>1, <1>5, <1>7, <1>8, <1>9

\* A job that has not ended changes its status: one more has ended, or as many as before.
LEMMA StatusChanges ==
  ASSUME status \in [Jobs -> Statuses], NEW j \in Jobs, status[j] \notin Terminal,
         NEW s \in Statuses, status' = [status EXCEPT ![j] = s]
  PROVE  /\ status' \in [Jobs -> Statuses] /\ status'[j] = s
         /\ \A o \in Jobs \ {j} : status'[o] = status[o]
         /\ Cardinality(Ended') = Cardinality(Ended) + (IF s \in Terminal THEN 1 ELSE 0)
<1>1. /\ status' \in [Jobs -> Statuses] /\ status'[j] = s
      /\ \A o \in Jobs \ {j} : status'[o] = status[o]
  OBVIOUS
<1>2. Ended \in SUBSET Jobs /\ j \notin Ended
  BY DEF Ended
<1>3. Cardinality(Ended) \in Nat /\ Cardinality(Ended \cup {j}) = Cardinality(Ended) + 1
  BY <1>2, JobSets
<1>4. CASE s \in Terminal
  <2>1. Ended' = Ended \cup {j}
    BY <1>1, <1>4 DEF Ended
  <2> QED BY <1>1, <1>3, <1>4, <2>1
<1>5. CASE s \notin Terminal
  <2>1. Ended' = Ended
    BY <1>1, <1>2, <1>5 DEF Ended
  <2> QED BY <1>1, <1>3, <1>5, <2>1
<1> QED BY <1>4, <1>5

\* Who ends a job: the pages stay in order, and it has none.
LEMMA EndFacts ==
  ASSUME PageInv, ControlTypes, NEW j \in Jobs, status[j] \notin Terminal,
         NEW r \in Terminal, finished = Cardinality(Ended), End(j, r)
  PROVE  /\ PageInv' /\ status' \in [Jobs -> Statuses] /\ status'[j] = r
         /\ \A o \in Jobs \ {j} : status'[o] = status[o] /\ pages'[o] = pages[o]
         /\ pages'[j] = <<>> /\ finished' = Cardinality(Ended')
<1>1. r \in Statuses /\ status \in [Jobs -> Statuses]
  BY DEF Statuses, ControlTypes
<1>2. /\ status' = [status EXCEPT ![j] = r] /\ table' = Free(table, Held(j))
      /\ pages' = [pages EXCEPT ![j] = <<>>] /\ finished' = finished + 1
  BY DEF End
<1>3. PageInv'
  BY <1>2, GiveUpPages
<1>4. pages'[j] = <<>> /\ \A o \in Jobs \ {j} : pages'[o] = pages[o]
  BY <1>2 DEF PageInv, OwnPages
<1> QED BY <1>1, <1>2, <1>3, <1>4, StatusChanges

-----------------------------------------------------------------------------
(* The arithmetic of the pages that are taken *)

\* std::min of two numbers is one of them, and no larger than the other.
LEMMA LeastOfTwo ==
  ASSUME NEW a \in Int, NEW b \in Int
  PROVE  Least({a, b}) \in {a, b} /\ Least({a, b}) <= a /\ Least({a, b}) <= b
<1>1. \E n \in {a, b} : \A m \in {a, b} : n <= m
  OBVIOUS
<1> QED BY <1>1 DEF Least

\* ceil_div is an integer, as the page size is not zero.
LEMMA CeilDivIsInt ==
  ASSUME NEW n \in Int
  PROVE  CeilDiv(n, PageSize) \in Int
<1>1. PageSize \in Int /\ PageSize > 0
  BY SchedulerAssumption
<1> QED BY <1>1 DEF CeilDiv

\* num_total_tokens and remaining_new_tokens are integers.
LEMMA TotalIsInt ==
  ASSUME ControlTypes, NEW j \in Jobs
  PROVE  Total(j) \in Int /\ Remaining(j) \in Int
<1>1. /\ PageSize \in Nat /\ Kind[j].tail \in 0..(PageSize - 1) /\ Kind[j].new \in Nat
      /\ Kind[j].prompt \in Seq(Range(Kind[j].prompt)) /\ outputs[j] \in Nat
  BY SchedulerAssumption DEF ControlTypes
<1>2. Len(Kind[j].prompt) \in Nat
  BY <1>1, LenProperties
<1>3. Len(Kind[j].prompt) * PageSize \in Nat
  BY <1>1, <1>2
<1> QED BY <1>1, <1>3 DEF Total, Remaining, PromptTokens

\* What Readmit and Admit ask for is a number of pages that are free.
LEMMA NeededFits ==
  ASSUME PageInv, ControlTypes, NEW j \in Jobs
  PROVE  PagesNeeded(j) \in Nat
<1>1. Total(j) \in Int /\ Remaining(j) \in Int /\ Len(pages[j]) \in Nat
  BY TotalIsInt, HeldPages
<1>2. Total(j) + Remaining(j) \in Int
  BY <1>1
<1>3. CeilDiv(Total(j) + Remaining(j), PageSize) \in Int
  BY <1>2, CeilDivIsInt
<1>4. CeilDiv(Total(j) + Remaining(j), PageSize) - Len(pages[j]) \in Int
  BY <1>1, <1>3
<1> QED BY <1>4 DEF PagesNeeded, AtLeastZero

\* What Forward adds is, too.
LEMMA GrowthFits ==
  ASSUME PageInv, ControlTypes, NEW j \in Jobs
  PROVE  Growth(j) \in Nat /\ Growth(j) <= Cardinality(table.free)
<1>1. Total(j) \in Int /\ Len(pages[j]) \in Nat
  BY TotalIsInt, HeldPages
<1>2. Total(j) + 1 \in Int
  BY <1>1
<1>3. CeilDiv(Total(j) + 1, PageSize) \in Int
  BY <1>2, CeilDivIsInt
<1>4. CeilDiv(Total(j) + 1, PageSize) - Len(pages[j]) \in Int
  BY <1>1, <1>3
<1>5. AtLeastZero(CeilDiv(Total(j) + 1, PageSize) - Len(pages[j])) \in Nat
  BY <1>4 DEF AtLeastZero
<1>6. Cardinality(table.free) \in Nat
  <2>1. IsFiniteSet(table.free)
    BY PageAssumption, FS_Subset DEF PageInv, Tables
  <2> QED BY <2>1, FS_CardinalityType
<1> DEFINE a == AtLeastZero(CeilDiv(Total(j) + 1, PageSize) - Len(pages[j]))
           b == Cardinality(table.free)
<1>7. Growth(j) = Least({a, b})
  BY DEF Growth
<1> HIDE DEF a, b
<1>8. a \in Nat /\ b \in Nat
  BY <1>5, <1>6 DEF a, b
<1>9. Least({a, b}) \in {a, b} /\ Least({a, b}) <= b
  BY <1>8, LeastOfTwo
<1> QED BY <1>7, <1>8, <1>9 DEF b

-----------------------------------------------------------------------------
(* Each action keeps the invariant *)

\* A submitted job is new: nobody has wanted its cancellation, and it has no pages.
LEMMA SubmitKeeps ==
  ASSUME SchedInv, NEW j \in Jobs, Submit(j)
  PROVE  SchedInv'
<1>1. /\ status' = [status EXCEPT ![j] = "Waiting"] /\ status[j] = "new"
      /\ waiting' = waiting \cup {j} /\ place \in {"idle", "forward"}
      /\ UNCHANGED <<table, wants, pages, outputs, running, swapped, finished, place,
                     current, depth, todo, batch>>
  BY DEF Submit, Unlocked, tokenVars, stepVars
<1>2. /\ status' \in [Jobs -> Statuses] /\ status'[j] = "Waiting"
      /\ \A o \in Jobs \ {j} : status'[o] = status[o]
      /\ Cardinality(Ended') = Cardinality(Ended) + 0
  BY <1>1, StatusChanges DEF SchedInv, ControlTypes, Statuses, Terminal
<1>3. PageInv'
  BY <1>1, PagesLeftAlone DEF SchedInv
<1>4. ControlTypes'
  BY <1>1, <1>2 DEF SchedInv, ControlTypes
<1>5. QueuesMatch'
  <2>1. /\ running' = {o \in Jobs : status'[o] = "Running"}
        /\ InLine' = {o \in Jobs : status'[o] = "Swapped"} /\ OnceInLine'
    BY <1>1, <1>2 DEF SchedInv, QueuesMatch, InLine, OnceInLine
  <2>2. /\ {o \in Jobs : status'[o] = "Waiting"} \ {current'} \subseteq waiting'
        /\ waiting' \subseteq {o \in Jobs : status'[o] \in {"Waiting", "Cancelled"}}
    BY <1>1, <1>2 DEF SchedInv, QueuesMatch
  <2>3. /\ \A o \in wants' : status'[o] \notin {"new", "Waiting"}
        /\ \A o \in Jobs : status'[o] = "Cancelled" => o \in wants'
    BY <1>1, <1>2, SchedulerAssumption DEF SchedInv, QueuesMatch, ControlTypes
  <2>4. Cardinality(running') <= MaxNumSeqs
    BY <1>1 DEF SchedInv, QueuesMatch
  <2>5. finished' = Cardinality(Ended')
    <3>1. finished \in Int /\ finished = Cardinality(Ended)
      <4>1. Ended \in SUBSET Jobs
        BY DEF Ended
      <4>2. Cardinality(Ended) \in Nat
        BY <4>1, JobSets
      <4> QED BY <4>2 DEF SchedInv, QueuesMatch
    <3> QED BY <1>1, <1>2, <3>1
  <2> QED BY <2>1, <2>2, <2>3, <2>4, <2>5 DEF QueuesMatch
<1>6. ThreadInv'
  BY <1>1 DEF SchedInv, ThreadInv
<1>7. PagesInUse'
  BY <1>1, <1>2 DEF SchedInv, PagesInUse
<1> QED BY <1>3, <1>4, <1>5, <1>6, <1>7 DEF SchedInv

\* A waiting job ends at once and stays in the heap; another is only marked.
LEMMA CancelKeeps ==
  ASSUME SchedInv, NEW j \in Cancellable, Cancel(j)
  PROVE  SchedInv'
<1>1. /\ place \in {"idle", "forward"} /\ status[j] \notin Terminal \cup {"new"} /\ j \in Jobs
      /\ wants' = wants \cup {j}
      /\ UNCHANGED <<outputs, waiting, running, swapped, place, current, depth, todo, batch>>
      /\ current = NoJob /\ NoJob \notin Jobs
  BY SchedulerAssumption DEF SchedInv, ThreadInv, Cancel, Unlocked, tokenVars, queueVars, stepVars
<1>2. CASE status[j] = "Waiting"
  <2>1. End(j, "Cancelled") /\ "Cancelled" \in Terminal
    BY <1>2 DEF Cancel, Terminal
  <2>2. /\ PageInv' /\ status' \in [Jobs -> Statuses] /\ status'[j] = "Cancelled"
        /\ \A o \in Jobs \ {j} : status'[o] = status[o] /\ pages'[o] = pages[o]
        /\ pages'[j] = <<>> /\ finished' = Cardinality(Ended')
    BY <1>1, <2>1, EndFacts DEF SchedInv, QueuesMatch
  <2>3. ControlTypes'
    BY <1>1, <2>2 DEF SchedInv, ControlTypes
  <2>4. QueuesMatch'
    <3>1. /\ running' = {o \in Jobs : status'[o] = "Running"}
          /\ InLine' = {o \in Jobs : status'[o] = "Swapped"} /\ OnceInLine'
      BY <1>1, <1>2, <2>2 DEF SchedInv, QueuesMatch, InLine, OnceInLine
    <3>2. /\ {o \in Jobs : status'[o] = "Waiting"} \ {current'} \subseteq waiting'
          /\ waiting' \subseteq {o \in Jobs : status'[o] \in {"Waiting", "Cancelled"}}
      BY <1>1, <2>2 DEF SchedInv, QueuesMatch
    <3>3. /\ \A o \in wants' : status'[o] \notin {"new", "Waiting"}
          /\ \A o \in Jobs : status'[o] = "Cancelled" => o \in wants'
      BY <1>1, <2>2, SchedulerAssumption DEF SchedInv, QueuesMatch, ControlTypes
    <3>4. Cardinality(running') <= MaxNumSeqs
      BY <1>1 DEF SchedInv, QueuesMatch
    <3> QED BY <2>2, <3>1, <3>2, <3>3, <3>4 DEF QueuesMatch
  <2>5. ThreadInv'
    BY <1>1 DEF SchedInv, ThreadInv
  <2>6. PagesInUse'
    BY <1>1, <2>2 DEF SchedInv, PagesInUse
  <2> QED BY <2>2, <2>3, <2>4, <2>5, <2>6 DEF SchedInv
<1>3. CASE status[j] # "Waiting"
  <2>1. UNCHANGED <<status, table, pages, finished>>
    BY <1>3 DEF Cancel
  <2>2. PageInv'
    BY <2>1, PagesLeftAlone DEF SchedInv
  <2>3. ControlTypes'
    BY <1>1, <2>1 DEF SchedInv, ControlTypes
  <2>4. QueuesMatch'
    BY <1>1, <1>3, <2>1 DEF SchedInv, QueuesMatch, InLine, OnceInLine, Ended
  <2>5. ThreadInv'
    BY <1>1 DEF SchedInv, ThreadInv
  <2>6. PagesInUse'
    BY <1>1, <2>1 DEF SchedInv, PagesInUse
  <2> QED BY <2>2, <2>3, <2>4, <2>5, <2>6 DEF SchedInv
<1> QED BY <1>2, <1>3

\* The steps that only move the thread on, or choose the batch.
LEMMA MovesKeep ==
  ASSUME SchedInv, Begin \/ ChooseBatch \/ ForwardDone \/ FinishDone
  PROVE  SchedInv'
<1>1. UNCHANGED <<table, status, wants, pages, outputs, waiting, running, swapped, finished,
                  current, depth>>
  BY DEF Begin, ChooseBatch, ForwardDone, FinishDone, tokenVars, queueVars
<1>2. PageInv'
  BY <1>1, PagesLeftAlone DEF SchedInv
<1>3. place' \in Places /\ place' # "prefix" /\ place # "prefix"
  BY DEF Begin, ChooseBatch, ForwardDone, FinishDone, Places
<1>4. ControlTypes'
  BY <1>1, <1>3 DEF SchedInv, ControlTypes
<1>5. QueuesMatch'
  BY <1>1 DEF SchedInv, QueuesMatch, InLine, OnceInLine, Ended
<1>6. ThreadInv'
  BY <1>1, <1>3 DEF SchedInv, ThreadInv, Begin, ChooseBatch, ForwardDone, FinishDone
<1>7. PagesInUse'
  BY <1>1, <1>3 DEF SchedInv, PagesInUse
<1> QED BY <1>2, <1>4, <1>5, <1>6, <1>7 DEF SchedInv

\* A running job ends: by the sweep, or behind the forward pass.
LEMMA RunnerEnds ==
  ASSUME SchedInv, NEW j \in running, NEW r \in Terminal, r = "Cancelled" => j \in wants,
         End(j, r), running' = running \ {j}, place # "prefix", place' = place,
         batch' \subseteq batch \ {j}, todo = {},
         UNCHANGED <<wants, outputs, waiting, swapped, current, depth, todo>>
  PROVE  SchedInv'
<1>1. j \in Jobs /\ status[j] = "Running" /\ status[j] \notin Terminal
  BY DEF SchedInv, QueuesMatch, Terminal
<1>2. /\ PageInv' /\ status' \in [Jobs -> Statuses] /\ status'[j] = r
      /\ \A o \in Jobs \ {j} : status'[o] = status[o] /\ pages'[o] = pages[o]
      /\ pages'[j] = <<>> /\ finished' = Cardinality(Ended')
  BY <1>1, EndFacts DEF SchedInv, QueuesMatch
<1>3. r \in {"Finished", "Cancelled"}
  BY DEF Terminal
<1>4. ControlTypes'
  BY <1>2 DEF SchedInv, ControlTypes
<1>5. QueuesMatch'
  <2>1. /\ running' = {o \in Jobs : status'[o] = "Running"}
        /\ InLine' = {o \in Jobs : status'[o] = "Swapped"} /\ OnceInLine'
    BY <1>1, <1>2, <1>3 DEF SchedInv, QueuesMatch, InLine, OnceInLine
  <2>2. /\ {o \in Jobs : status'[o] = "Waiting"} \ {current'} \subseteq waiting'
        /\ waiting' \subseteq {o \in Jobs : status'[o] \in {"Waiting", "Cancelled"}}
    BY <1>1, <1>2, <1>3 DEF SchedInv, QueuesMatch
  <2>3. /\ \A o \in wants' : status'[o] \notin {"new", "Waiting"}
        /\ \A o \in Jobs : status'[o] = "Cancelled" => o \in wants'
    BY <1>1, <1>2, <1>3, SchedulerAssumption DEF SchedInv, QueuesMatch, ControlTypes
  <2>4. Cardinality(running') <= MaxNumSeqs
    <3>1. running \in SUBSET Jobs
      BY DEF SchedInv, QueuesMatch
    <3>2. /\ Cardinality(running) \in Nat /\ Cardinality(running') \in Nat
          /\ Cardinality(running') <= Cardinality(running)
      BY <1>1, <3>1, JobSets
    <3> QED BY <3>2, SchedulerAssumption DEF SchedInv, QueuesMatch
  <2> QED BY <1>2, <2>1, <2>2, <2>3, <2>4 DEF QueuesMatch
<1>6. ThreadInv'
  BY DEF SchedInv, ThreadInv
<1>7. PagesInUse'
  BY <1>1, <1>2 DEF SchedInv, PagesInUse
<1> QED BY <1>2, <1>4, <1>5, <1>6, <1>7 DEF SchedInv

\* The sweep ends running jobs, when no batch is out.
LEMMA SweepKeeps ==
  ASSUME SchedInv, Sweep
  PROVE  SchedInv'
<1>1. place = "sweep" /\ todo = {} /\ batch = {}
      /\ UNCHANGED <<wants, outputs, waiting, swapped, current, depth, todo, batch>>
  BY DEF Sweep, SchedInv, ThreadInv, tokenVars
<1>2. ASSUME NEW j \in running \cap wants, End(j, "Cancelled"), running' = running \ {j},
             place' = place
      PROVE  SchedInv'
  <2>1. "Cancelled" \in Terminal /\ batch' \subseteq batch \ {j}
    BY <1>1 DEF Terminal
  <2> QED BY <1>1, <1>2, <2>1, RunnerEnds
<1>3. ASSUME place' = "preempt", UNCHANGED <<table, status, pages, running, finished>>
      PROVE  SchedInv'
  <2>1. PageInv'
    BY <1>3, PagesLeftAlone DEF SchedInv
  <2>2. ControlTypes'
    BY <1>1, <1>3 DEF SchedInv, ControlTypes, Places
  <2>3. QueuesMatch'
    BY <1>1, <1>3 DEF SchedInv, QueuesMatch, InLine, OnceInLine, Ended
  <2>4. ThreadInv' /\ PagesInUse'
    BY <1>1, <1>3 DEF SchedInv, ThreadInv, PagesInUse
  <2> QED BY <2>1, <2>2, <2>3, <2>4 DEF SchedInv
<1> QED BY <1>2, <1>3 DEF Sweep

\* A job of the batch ends or goes on: the batch is made of running jobs.
LEMMA FinishKeeps ==
  ASSUME SchedInv, NEW j \in Jobs, Finish(j)
  PROVE  SchedInv'
<1>1. /\ place = "finish" /\ j \in batch /\ batch' = batch \ {j} /\ todo = {}
      /\ UNCHANGED <<wants, outputs, waiting, swapped, place, current, depth, todo>>
  BY DEF Finish, FirstOf, SchedInv, ThreadInv, tokenVars
<1>2. j \in running
  BY <1>1 DEF SchedInv, ThreadInv
<1>3. ASSUME NEW stop, Result(j, stop) \in Terminal, End(j, Result(j, stop)),
             running' = running \ {j}
      PROVE  SchedInv'
  <2>1. Result(j, stop) = "Cancelled" => j \in wants
    BY <1>2 DEF SchedInv, QueuesMatch, Result
  <2> QED BY <1>1, <1>2, <1>3, <2>1, RunnerEnds
<1>4. ASSUME UNCHANGED <<status, table, pages, finished, running>>
      PROVE  SchedInv'
  <2>1. PageInv'
    BY <1>4, PagesLeftAlone DEF SchedInv
  <2>2. ControlTypes'
    BY <1>1, <1>4 DEF SchedInv, ControlTypes
  <2>3. QueuesMatch'
    BY <1>1, <1>4 DEF SchedInv, QueuesMatch, InLine, OnceInLine, Ended
  <2>4. ThreadInv' /\ PagesInUse'
    BY <1>1, <1>4 DEF SchedInv, ThreadInv, PagesInUse
  <2> QED BY <2>1, <2>2, <2>3, <2>4 DEF SchedInv
<1> QED BY <1>3, <1>4 DEF Finish

\* The victim leaves the running jobs for the line of the preempted, without pages.
LEMMA PreemptKeeps ==
  ASSUME SchedInv, Preempt
  PROVE  SchedInv'
<1>1. /\ place = "preempt" /\ place' = "readmit" /\ todo = {} /\ batch = {}
      /\ UNCHANGED <<wants, outputs, waiting, finished, current, depth, todo, batch>>
  BY DEF Preempt, SchedInv, ThreadInv, tokenVars
<1>2. ThreadInv'
  BY <1>1 DEF SchedInv, ThreadInv
<1>3. ASSUME NEW j \in running, table' = Free(table, Held(j)),
             pages' = [pages EXCEPT ![j] = <<>>], status' = [status EXCEPT ![j] = "Swapped"],
             running' = running \ {j}, swapped' = Append(swapped, j)
      PROVE  SchedInv'
  <2>1. j \in Jobs /\ status[j] = "Running" /\ status[j] \notin Terminal /\ j \notin InLine
    BY <1>3 DEF SchedInv, QueuesMatch, Terminal
  <2>2. PageInv'
    BY <1>3, <2>1, GiveUpPages DEF SchedInv
  <2>3. pages'[j] = <<>> /\ \A o \in Jobs \ {j} : pages'[o] = pages[o]
    BY <1>3, <2>1 DEF SchedInv, PageInv, OwnPages
  <2>4. /\ status' \in [Jobs -> Statuses] /\ status'[j] = "Swapped"
        /\ \A o \in Jobs \ {j} : status'[o] = status[o]
        /\ Cardinality(Ended') = Cardinality(Ended) + 0
    BY <1>3, <2>1, StatusChanges DEF SchedInv, ControlTypes, Statuses, Terminal
  <2>5. swapped' \in Seq(Jobs) /\ OnceInLine' /\ InLine' = InLine \cup {j}
    BY <1>3, <2>1, JoinsLine DEF SchedInv, ControlTypes, QueuesMatch
  <2>6. ControlTypes'
    BY <1>1, <2>4, <2>5 DEF SchedInv, ControlTypes, Places
  <2>7. QueuesMatch'
    <3>1. /\ running' = {o \in Jobs : status'[o] = "Running"}
          /\ InLine' = {o \in Jobs : status'[o] = "Swapped"}
      BY <1>3, <2>1, <2>4, <2>5 DEF SchedInv, QueuesMatch
    <3>2. /\ {o \in Jobs : status'[o] = "Waiting"} \ {current'} \subseteq waiting'
          /\ waiting' \subseteq {o \in Jobs : status'[o] \in {"Waiting", "Cancelled"}}
      BY <1>1, <2>1, <2>4 DEF SchedInv, QueuesMatch
    <3>3. /\ \A o \in wants' : status'[o] \notin {"new", "Waiting"}
          /\ \A o \in Jobs : status'[o] = "Cancelled" => o \in wants'
      BY <1>1, <2>1, <2>4, SchedulerAssumption DEF SchedInv, QueuesMatch, ControlTypes
    <3>4. Cardinality(running') <= MaxNumSeqs
      <4>1. running \in SUBSET Jobs
        BY DEF SchedInv, QueuesMatch
      <4>2. /\ Cardinality(running) \in Nat /\ Cardinality(running') \in Nat
            /\ Cardinality(running') <= Cardinality(running)
        BY <1>3, <2>1, <4>1, JobSets
      <4> QED BY <4>2, SchedulerAssumption DEF SchedInv, QueuesMatch
    <3>5. finished' = Cardinality(Ended')
      <4>1. Ended \in SUBSET Jobs
        BY DEF Ended
      <4>2. Cardinality(Ended) \in Nat
        BY <2>1, <4>1, JobSets
      <4> QED BY <1>1, <2>4, <4>2 DEF SchedInv, QueuesMatch
    <3> QED BY <2>5, <3>1, <3>2, <3>3, <3>4, <3>5 DEF QueuesMatch
  <2>8. PagesInUse'
    BY <1>1, <2>1, <2>3, <2>4 DEF SchedInv, PagesInUse
  <2> QED BY <1>2, <2>2, <2>6, <2>7, <2>8 DEF SchedInv
<1>4. ASSUME UNCHANGED <<table, pages, status, running, swapped>>
      PROVE  SchedInv'
  <2>1. PageInv'
    BY <1>4, PagesLeftAlone DEF SchedInv
  <2>2. ControlTypes'
    BY <1>1, <1>4 DEF SchedInv, ControlTypes, Places
  <2>3. QueuesMatch'
    BY <1>1, <1>4 DEF SchedInv, QueuesMatch, InLine, OnceInLine, Ended
  <2>4. PagesInUse'
    BY <1>1, <1>4 DEF SchedInv, PagesInUse
  <2> QED BY <1>2, <2>1, <2>2, <2>3, <2>4 DEF SchedInv
<1> QED BY <1>3, <1>4 DEF Preempt

\* A job that did not run does: a preempted one, or the one that was being admitted.
LEMMA RunnerComes ==
  ASSUME SchedInv, NEW j \in Jobs, status[j] \in {"Waiting", "Swapped"}, HasRoom,
         status' = [status EXCEPT ![j] = "Running"], running' = running \cup {j},
         UNCHANGED <<wants, waiting, finished>>
  PROVE  /\ status' \in [Jobs -> Statuses] /\ status'[j] = "Running"
         /\ \A o \in Jobs \ {j} : status'[o] = status[o]
         /\ running' = {o \in Jobs : status'[o] = "Running"}
         /\ \A o \in wants' : status'[o] \notin {"new", "Waiting"}
         /\ \A o \in Jobs : status'[o] = "Cancelled" => o \in wants'
         /\ Cardinality(running') <= MaxNumSeqs
         /\ finished' = Cardinality(Ended')
<1>1. /\ status' \in [Jobs -> Statuses] /\ status'[j] = "Running"
      /\ \A o \in Jobs \ {j} : status'[o] = status[o]
      /\ Cardinality(Ended') = Cardinality(Ended) + 0
  BY StatusChanges DEF SchedInv, ControlTypes, Statuses, Terminal
<1>2. running' = {o \in Jobs : status'[o] = "Running"}
  BY <1>1 DEF SchedInv, QueuesMatch
<1>3. /\ \A o \in wants' : status'[o] \notin {"new", "Waiting"}
      /\ \A o \in Jobs : status'[o] = "Cancelled" => o \in wants'
  BY <1>1, SchedulerAssumption DEF SchedInv, QueuesMatch, ControlTypes
<1>4. Cardinality(running') <= MaxNumSeqs
  <2>1. running \in SUBSET Jobs /\ j \notin running
    BY DEF SchedInv, QueuesMatch
  <2>2. Cardinality(running) \in Nat /\ Cardinality(running') = Cardinality(running) + 1
    BY <2>1, JobSets
  <2> QED BY <2>2, SchedulerAssumption DEF HasRoom
<1>5. finished' = Cardinality(Ended')
  <2>1. Ended \in SUBSET Jobs
    BY DEF Ended
  <2>2. Cardinality(Ended) \in Nat
    BY <2>1, JobSets
  <2> QED BY <1>1, <2>2 DEF SchedInv, QueuesMatch
<1> QED BY <1>1, <1>2, <1>3, <1>4, <1>5

\* TakePages, for as many pages as there are.
LEMMA TakeFits ==
  ASSUME SchedInv, NEW j \in Jobs, Fits(j), TakePages(j)
  PROVE  /\ PageInv'
         /\ \A m \in 1..Len(pages'[j]) :
              m > Len(pages[j]) => table'.hash[pages'[j][m]] = NoHash
         /\ \A o \in Jobs \ {j} : pages'[o] = pages[o]
<1>1. PagesNeeded(j) \in Nat /\ PagesNeeded(j) <= Cardinality(table.free)
  BY NeededFits DEF SchedInv, Fits
<1>2. /\ table' = Allocate(table, Range(Pick(table, PagesNeeded(j))))
      /\ pages' = [pages EXCEPT ![j] = @ \o Pick(table, PagesNeeded(j))]
  BY DEF TakePages
<1>3. \A o \in Jobs \ {j} : pages'[o] = pages[o]
  BY <1>2 DEF SchedInv, PageInv, OwnPages
<1> QED BY <1>1, <1>2, <1>3, TakeFreePages DEF SchedInv

\* The first of the line runs again, if there is room and there are pages for it.
LEMMA ReadmitKeeps ==
  ASSUME SchedInv, Readmit
  PROVE  SchedInv'
<1>1. /\ place = "readmit" /\ todo = {} /\ batch = {} /\ current = NoJob /\ NoJob \notin Jobs
      /\ UNCHANGED <<wants, outputs, waiting, finished, current, depth, todo, batch>>
  BY SchedulerAssumption DEF Readmit, SchedInv, ThreadInv, tokenVars
<1>2. ASSUME swapped # <<>>, HasRoom, Fits(Head(swapped)), TakePages(Head(swapped)),
             status' = [status EXCEPT ![Head(swapped)] = "Running"],
             running' = running \cup {Head(swapped)}, swapped' = Tail(swapped), place' = place
      PROVE  SchedInv'
  <2> DEFINE j == Head(swapped)
  <2>1. /\ swapped' \in Seq(Jobs) /\ OnceInLine' /\ InLine' = InLine \ {j}
        /\ j \in InLine /\ j \in Jobs
    BY <1>2, LeavesLine DEF SchedInv, ControlTypes, QueuesMatch
  <2> HIDE DEF j
  <2>2. /\ status[j] = "Swapped" /\ status' = [status EXCEPT ![j] = "Running"]
        /\ running' = running \cup {j} /\ Fits(j) /\ TakePages(j)
    BY <1>2, <2>1 DEF SchedInv, QueuesMatch, j
  <2>3. /\ status' \in [Jobs -> Statuses] /\ status'[j] = "Running"
        /\ \A o \in Jobs \ {j} : status'[o] = status[o]
        /\ running' = {o \in Jobs : status'[o] = "Running"}
        /\ \A o \in wants' : status'[o] \notin {"new", "Waiting"}
        /\ \A o \in Jobs : status'[o] = "Cancelled" => o \in wants'
        /\ Cardinality(running') <= MaxNumSeqs
        /\ finished' = Cardinality(Ended')
    BY <1>1, <1>2, <2>1, <2>2, RunnerComes
  <2>4. PageInv' /\ \A o \in Jobs \ {j} : pages'[o] = pages[o]
    BY <2>1, <2>2, TakeFits
  <2>5. ControlTypes'
    BY <1>1, <1>2, <2>1, <2>3 DEF SchedInv, ControlTypes
  <2>6. QueuesMatch'
    <3>1. InLine' = {o \in Jobs : status'[o] = "Swapped"}
      BY <2>1, <2>2, <2>3 DEF SchedInv, QueuesMatch
    <3>2. /\ {o \in Jobs : status'[o] = "Waiting"} \ {current'} \subseteq waiting'
          /\ waiting' \subseteq {o \in Jobs : status'[o] \in {"Waiting", "Cancelled"}}
      BY <1>1, <2>1, <2>2, <2>3 DEF SchedInv, QueuesMatch
    <3> QED BY <2>1, <2>3, <3>1, <3>2 DEF QueuesMatch
  <2>7. ThreadInv'
    BY <1>1, <1>2 DEF SchedInv, ThreadInv
  <2>8. PagesInUse'
    BY <1>1, <1>2, <2>3, <2>4 DEF SchedInv, PagesInUse
  <2> QED BY <2>4, <2>5, <2>6, <2>7, <2>8 DEF SchedInv
<1>3. ASSUME place' = "admit", UNCHANGED <<table, pages, status, running, swapped>>
      PROVE  SchedInv'
  <2>1. PageInv'
    BY <1>3, PagesLeftAlone DEF SchedInv
  <2>2. ControlTypes'
    BY <1>1, <1>3 DEF SchedInv, ControlTypes, Places
  <2>3. QueuesMatch'
    BY <1>1, <1>3 DEF SchedInv, QueuesMatch, InLine, OnceInLine, Ended
  <2>4. ThreadInv' /\ PagesInUse'
    BY <1>1, <1>3 DEF SchedInv, ThreadInv, PagesInUse
  <2> QED BY <2>1, <2>2, <2>3, <2>4 DEF SchedInv
<1> QED BY <1>2, <1>3 DEF Readmit

\* The top of the heap leaves it, or the admission ends.  One that is taken had no pages,
\* so that all it has now are without a hash.
LEMMA AdmitKeeps ==
  ASSUME SchedInv, Admit
  PROVE  SchedInv'
<1>1. /\ place = "admit" /\ todo = {} /\ batch = {} /\ current = NoJob /\ NoJob \notin Jobs
      /\ UNCHANGED <<status, wants, outputs, running, swapped, finished, todo, batch>>
  BY SchedulerAssumption DEF Admit, SchedInv, ThreadInv, tokenVars
<1>2. ASSUME AdmitEnds PROVE SchedInv'
  <2>1. place' = "choose" /\ UNCHANGED <<table, pages, waiting, current, depth>>
    BY <1>2 DEF AdmitEnds
  <2>2. PageInv'
    BY <2>1, PagesLeftAlone DEF SchedInv
  <2>3. ControlTypes'
    BY <1>1, <2>1 DEF SchedInv, ControlTypes, Places
  <2>4. QueuesMatch'
    BY <1>1, <2>1 DEF SchedInv, QueuesMatch, InLine, OnceInLine, Ended
  <2>5. ThreadInv' /\ PagesInUse'
    BY <1>1, <2>1 DEF SchedInv, ThreadInv, PagesInUse
  <2> QED BY <2>2, <2>3, <2>4, <2>5 DEF SchedInv
<1>3. ASSUME NEW j \in waiting, j \in wants, AdmitCancelled(j) PROVE SchedInv'
  <2>1. waiting' = waiting \ {j} /\ UNCHANGED <<table, pages, current, depth, place>>
    BY <1>3 DEF AdmitCancelled
  <2>2. PageInv'
    BY <2>1, PagesLeftAlone DEF SchedInv
  <2>3. ControlTypes'
    BY <1>1, <2>1 DEF SchedInv, ControlTypes
  <2>4. status[j] # "Waiting"
    BY <1>3 DEF SchedInv, QueuesMatch
  <2>5. QueuesMatch'
    BY <1>1, <2>1, <2>4 DEF SchedInv, QueuesMatch, InLine, OnceInLine, Ended
  <2>6. ThreadInv' /\ PagesInUse'
    BY <1>1, <2>1 DEF SchedInv, ThreadInv, PagesInUse
  <2> QED BY <2>2, <2>3, <2>5, <2>6 DEF SchedInv
<1>4. ASSUME NEW j \in waiting, j \notin wants, HasRoom, Fits(j), AdmitTop(j) PROVE SchedInv'
  <2>1. /\ waiting' = waiting \ {j} /\ TakePages(j) /\ current' = j /\ depth' = 0
        /\ place' = "prefix"
    BY <1>4 DEF AdmitTop
  <2>2. j \in Jobs /\ status[j] = "Waiting" /\ pages[j] = <<>>
    BY <1>1, <1>4 DEF SchedInv, QueuesMatch, PagesInUse
  <2>3. /\ PageInv' /\ \A o \in Jobs \ {j} : pages'[o] = pages[o]
        /\ \A m \in 1..Len(pages'[j]) :
             m > Len(pages[j]) => table'.hash[pages'[j][m]] = NoHash
    BY <1>4, <2>1, <2>2, TakeFits
  <2>4. ControlTypes'
    BY <1>1, <2>1 DEF SchedInv, ControlTypes, Places
  <2>5. QueuesMatch'
    BY <1>1, <2>1, <2>2 DEF SchedInv, QueuesMatch, InLine, OnceInLine, Ended
  <2>6. ThreadInv'
    BY <1>1, <1>4, <2>1, <2>2 DEF SchedInv, ThreadInv, HasRoom
  <2>7. PagesInUse'
    <3>1. Len(pages[j]) = 0
      BY <2>2, EmptySeq
    <3>2. \A o \in Jobs : pages'[o] # <<>> => status'[o] = "Running" \/ o = current'
      BY <1>1, <2>1, <2>3 DEF SchedInv, PagesInUse
    <3>3. \A m \in 1..Len(pages'[current']) :
            m > depth' => table'.hash[pages'[current'][m]] = NoHash
      BY <2>1, <2>3, <3>1
    <3> QED BY <3>2, <3>3 DEF PagesInUse
  <2> QED BY <2>3, <2>4, <2>5, <2>6, <2>7 DEF SchedInv
<1> QED BY <1>2, <1>3, <1>4 DEF Admit

\* A step of the prefix loop: the page at depth + 1 gets its hash, or is replaced.
LEMMA PrefixStepKeeps ==
  ASSUME SchedInv, PrefixStep
  PROVE  SchedInv'
<1> DEFINE j == current
           d == depth + 1
           h == SubSeq(Kind[j].prompt, 1, d)
<1>1. /\ place = "prefix" /\ depth' = d /\ j \in Jobs /\ depth \in Nat
      /\ ~(depth >= Len(Kind[j].prompt)) /\ ~(depth >= Len(pages[j]))
      /\ UNCHANGED <<status, wants, outputs, waiting, running, swapped, finished, place,
                     current, todo, batch>>
  BY DEF PrefixStep, LookupDone, Prompt, SchedInv, ThreadInv, ControlTypes, queueVars
<1>2. Len(pages[j]) \in Nat /\ Len(Kind[j].prompt) \in Nat /\ pages[j] \in Seq(Pages)
  <2>1. Kind[j].prompt \in Seq(Range(Kind[j].prompt))
    BY <1>1, SchedulerAssumption
  <2> QED BY <1>1, <2>1, LenProperties, HeldPages DEF SchedInv
<1>3. d \in 1..Len(pages[j]) /\ d <= Len(Kind[j].prompt)
  BY <1>1, <1>2
<1>4. \A m \in 1..Len(pages[j]) : m >= d => table.hash[pages[j][m]] = NoHash
  BY <1>1, <1>2 DEF SchedInv, PagesInUse
<1>5. /\ PageInv' /\ Len(pages'[j]) = Len(pages[j])
      /\ \A o \in Jobs \ {j} : pages'[o] = pages[o]
      /\ \A m \in 1..Len(pages'[j]) : m > d => table'.hash[pages'[j][m]] = NoHash
  <2>1. CASE Hit(table, h) /\ ReusePage(d, table.index[h])
    <3>1. /\ table' = AddHolder(Free(table, {pages[j][d]}), table.index[h])
          /\ pages' = [pages EXCEPT ![j][d] = table.index[h]]
      BY <2>1 DEF ReusePage
    <3>2. \A o \in Jobs \ {j} : pages'[o] = pages[o]
      BY <3>1 DEF SchedInv, PageInv, OwnPages
    <3> HIDE DEF d, j
    <3> QED BY <1>1, <1>3, <1>4, <2>1, <3>1, <3>2, ReuseCachedPage DEF SchedInv
  <2>2. CASE /\ ~Hit(table, h)
             /\ table' = SetPrefixHash(table, pages[j][d], h) /\ pages' = pages
    <3>1. table.hash[pages[j][d]] = NoHash
      BY <1>2, <1>3, <1>4
    <3>2. PageInv' /\ \A p \in Pages : p # pages[j][d] => table'.hash[p] = table.hash[p]
      BY <1>1, <1>3, <2>2, <3>1, HashOwnPage DEF SchedInv
    <3>3. ASSUME NEW m \in 1..Len(pages[j]), m > d
          PROVE  table'.hash[pages[j][m]] = NoHash
      <4>1. pages[j][m] # pages[j][d] /\ pages[j][m] \in Pages
        BY <1>1, <1>2, <1>3, <3>3, ElementOfSeq DEF SchedInv, PageInv, OwnPages
      <4>2. table.hash[pages[j][m]] = NoHash
        BY <1>2, <1>3, <1>4, <3>3
      <4> QED BY <3>2, <4>1, <4>2
    <3> QED BY <2>2, <3>2, <3>3
  <2> QED BY <2>1, <2>2 DEF PrefixStep, Prompt
<1>6. ControlTypes'
  BY <1>1 DEF SchedInv, ControlTypes
<1>7. QueuesMatch'
  BY <1>1 DEF SchedInv, QueuesMatch, InLine, OnceInLine, Ended
<1>8. ThreadInv'
  BY <1>1 DEF SchedInv, ThreadInv, HasRoom
<1>9. PagesInUse'
  BY <1>1, <1>5 DEF SchedInv, PagesInUse
<1> QED BY <1>5, <1>6, <1>7, <1>8, <1>9 DEF SchedInv

\* The admitted job runs: there was room when the loop took it, and nobody came since.
LEMMA AdmittedKeeps ==
  ASSUME SchedInv, Admitted
  PROVE  SchedInv'
<1>1. /\ place = "prefix" /\ place' = "admit" /\ current' = NoJob /\ depth' = 0
      /\ todo = {} /\ batch = {} /\ HasRoom
      /\ current \in Jobs /\ status[current] = "Waiting" /\ current \notin waiting
      /\ status' = [status EXCEPT ![current] = "Running"]
      /\ running' = running \cup {current} /\ NoJob \notin Jobs
      /\ UNCHANGED <<table, wants, pages, outputs, waiting, swapped, finished, todo, batch>>
  BY SchedulerAssumption DEF Admitted, SchedInv, ThreadInv, tokenVars
<1>2. /\ status' \in [Jobs -> Statuses] /\ status'[current] = "Running"
      /\ \A o \in Jobs \ {current} : status'[o] = status[o]
      /\ running' = {o \in Jobs : status'[o] = "Running"}
      /\ \A o \in wants' : status'[o] \notin {"new", "Waiting"}
      /\ \A o \in Jobs : status'[o] = "Cancelled" => o \in wants'
      /\ Cardinality(running') <= MaxNumSeqs
      /\ finished' = Cardinality(Ended')
  BY <1>1, RunnerComes
<1>3. PageInv'
  BY <1>1, PagesLeftAlone DEF SchedInv
<1>4. ControlTypes'
  BY <1>1, <1>2 DEF SchedInv, ControlTypes, Places
<1>5. QueuesMatch'
  <2>1. OnceInLine' /\ InLine' = {o \in Jobs : status'[o] = "Swapped"}
    BY <1>1, <1>2 DEF SchedInv, QueuesMatch, InLine, OnceInLine
  <2>2. /\ {o \in Jobs : status'[o] = "Waiting"} \ {current'} \subseteq waiting'
        /\ waiting' \subseteq {o \in Jobs : status'[o] \in {"Waiting", "Cancelled"}}
    BY <1>1, <1>2 DEF SchedInv, QueuesMatch
  <2> QED BY <1>2, <2>1, <2>2 DEF QueuesMatch
<1>6. ThreadInv'
  BY <1>1 DEF SchedInv, ThreadInv
<1>7. PagesInUse'
  BY <1>1, <1>2 DEF SchedInv, PagesInUse
<1> QED BY <1>3, <1>4, <1>5, <1>6, <1>7 DEF SchedInv

\* A turn of the forward pass adds pages to a running job only.
LEMMA ForwardKeeps ==
  ASSUME SchedInv, NEW j \in Jobs, Forward(j)
  PROVE  SchedInv'
<1>1. /\ place = "forward" /\ j \in todo /\ todo' = todo \ {j}
      /\ UNCHANGED <<status, wants, waiting, running, swapped, finished, place, current,
                     depth, batch>>
  BY DEF Forward, FirstOf, queueVars
<1>2. status[j] = "Running"
  BY <1>1 DEF SchedInv, ThreadInv, QueuesMatch
<1>3. QueuesMatch' /\ ThreadInv'
  BY <1>1 DEF SchedInv, QueuesMatch, ThreadInv, InLine, OnceInLine, Ended
<1>4. CASE UNCHANGED <<table, pages, tokenVars>>
  <2>1. PageInv'
    BY <1>4, PagesLeftAlone DEF SchedInv
  <2>2. ControlTypes' /\ PagesInUse'
    BY <1>1, <1>4 DEF SchedInv, ControlTypes, PagesInUse, tokenVars
  <2> QED BY <1>3, <2>1, <2>2 DEF SchedInv
<1>5. CASE /\ outputs' = [outputs EXCEPT ![j] = @ + IF Generates(j) THEN 1 ELSE 0]
           /\ LET new == Pick(table, IF Generates(j) THEN Growth(j) ELSE 0) IN
                /\ table' = Allocate(table, Range(new))
                /\ pages' = [pages EXCEPT ![j] = @ \o new]
  <2> DEFINE n == IF Generates(j) THEN Growth(j) ELSE 0
  <2>1. n \in Nat /\ n <= Cardinality(table.free)
    <3>1. Growth(j) \in Nat /\ Growth(j) <= Cardinality(table.free)
      BY GrowthFits DEF SchedInv
    <3>2. Cardinality(table.free) \in Nat
      <4>1. IsFiniteSet(table.free)
        BY PageAssumption, FS_Subset DEF SchedInv, PageInv, Tables
      <4> QED BY <4>1, FS_CardinalityType
    <3> QED BY <3>1, <3>2
  <2>2. /\ table' = Allocate(table, Range(Pick(table, n)))
        /\ pages' = [pages EXCEPT ![j] = @ \o Pick(table, n)]
    BY <1>5
  <2> HIDE DEF n
  <2>3. PageInv'
    BY <2>1, <2>2, TakeFreePages DEF SchedInv
  <2>4. \A o \in Jobs \ {j} : pages'[o] = pages[o]
    BY <2>2 DEF SchedInv, PageInv, OwnPages
  <2>5. outputs' \in [Jobs -> Nat]
    BY <1>5 DEF SchedInv, ControlTypes
  <2>6. ControlTypes'
    BY <1>1, <2>5 DEF SchedInv, ControlTypes
  <2>7. PagesInUse'
    BY <1>1, <1>2, <2>4 DEF SchedInv, PagesInUse
  <2> QED BY <1>3, <2>3, <2>6, <2>7 DEF SchedInv
<1> QED BY <1>4, <1>5 DEF Forward

\* The invariant holds before the first submit.
LEMMA Initially == Init => SchedInv
<1> SUFFICES ASSUME Init PROVE SchedInv
  OBVIOUS
<1>1. /\ pages = [j \in Jobs |-> <<>>] /\ \A j \in Jobs : pages[j] = <<>>
      /\ table = NewTable /\ status = [j \in Jobs |-> "new"]
  BY DEF Init
<1>2. \A j \in Jobs : Held(j) = {}
  BY <1>1 DEF Held, Range
<1>3. \A p : Holders(p) = {}
  BY <1>2 DEF Holders
<1>4. Cardinality({}) = 0
  BY FS_EmptySet
<1>5. \A j \in Jobs : Len(pages[j]) = 0 /\ pages[j] \in Seq(Pages)
  BY <1>1
<1>6. PageInv
  <2>1. table \in Tables /\ OwnPages
    BY <1>1, <1>5 DEF NewTable, Tables, OwnPages
  <2>2. CountsAreHolders
    BY <1>1, <1>3, <1>4 DEF NewTable, CountsAreHolders
  <2>3. HashedInPlace /\ UnhashedIsPrivate /\ IndexIsValid
    BY <1>1, <1>3, <1>5 DEF NewTable, HashedInPlace, UnhashedIsPrivate, IndexIsValid
  <2> QED BY <2>1, <2>2, <2>3 DEF PageInv
<1>7. ControlTypes
  BY DEF Init, ControlTypes, Statuses, Places
<1>8. QueuesMatch
  <2>1. Ended = {}
    BY <1>1 DEF Ended, Terminal
  <2>2. running = {} /\ waiting = {} /\ wants = {} /\ swapped = <<>> /\ finished = 0
    BY DEF Init
  <2>3. OnceInLine /\ InLine = {}
    BY <2>2 DEF OnceInLine, InLine
  <2>4. Cardinality(running) <= MaxNumSeqs
    BY <1>4, <2>2, SchedulerAssumption
  <2> QED BY <1>1, <1>4, <2>1, <2>2, <2>3, <2>4 DEF QueuesMatch
<1>9. ThreadInv /\ PagesInUse
  BY <1>1 DEF Init, ThreadInv, PagesInUse
<1> QED BY <1>6, <1>7, <1>8, <1>9 DEF SchedInv

\* The invariant is inductive.
LEMMA StepKeeps == SchedInv /\ [Next]_vars => SchedInv'
<1> SUFFICES ASSUME SchedInv, [Next]_vars PROVE SchedInv'
  OBVIOUS
<1>1. ASSUME NEW j \in Jobs, Submit(j) PROVE SchedInv'
  BY <1>1, SubmitKeeps
<1>2. ASSUME NEW j \in Cancellable, Cancel(j) PROVE SchedInv'
  BY <1>2, CancelKeeps
<1>3. CASE Begin \/ ChooseBatch \/ ForwardDone \/ FinishDone
  BY <1>3, MovesKeep
<1>4. CASE Sweep
  BY <1>4, SweepKeeps
<1>5. CASE Preempt
  BY <1>5, PreemptKeeps
<1>6. CASE Readmit
  BY <1>6, ReadmitKeeps
<1>7. CASE Admit
  BY <1>7, AdmitKeeps
<1>8. CASE PrefixStep
  BY <1>8, PrefixStepKeeps
<1>9. CASE Admitted
  BY <1>9, AdmittedKeeps
<1>10. ASSUME NEW j \in Jobs, Forward(j) PROVE SchedInv'
  BY <1>10, ForwardKeeps
<1>11. ASSUME NEW j \in Jobs, Finish(j) PROVE SchedInv'
  BY <1>11, FinishKeeps
<1>12. CASE UNCHANGED vars
  <2>1. UNCHANGED <<table, status, wants, pages, outputs, waiting, running, swapped,
                    finished, place, current, depth, todo, batch>>
    BY <1>12 DEF vars, tokenVars, queueVars, stepVars
  <2>2. PageInv'
    BY <2>1, PagesLeftAlone DEF SchedInv
  <2>3. ControlTypes' /\ QueuesMatch' /\ ThreadInv' /\ PagesInUse'
    BY <2>1 DEF SchedInv, ControlTypes, QueuesMatch, ThreadInv, PagesInUse, InLine,
                OnceInLine, Ended, HasRoom
  <2> QED BY <2>2, <2>3 DEF SchedInv
<1> QED BY <1>1, <1>2, <1>3, <1>4, <1>5, <1>6, <1>7, <1>8, <1>9, <1>10, <1>11, <1>12
        DEF Next, Step

\* So it always holds.
LEMMA SchedAlways == Spec => []SchedInv
  BY Initially, StepKeeps, PTL DEF Spec

-----------------------------------------------------------------------------
(* The theorems *)

\* The state is well typed, every job is in the queue its status names, and no more
\* run than may (Scheduler::step, submit, cancel).
THEOREM SchedulerTypes == Spec => []SchedulerTypeOK
<1>1. SchedInv => SchedulerTypeOK
  <2> SUFFICES ASSUME SchedInv PROVE SchedulerTypeOK
    OBVIOUS
  <2>1. DOMAIN swapped = 1..Len(swapped)
    BY LenProperties DEF SchedInv, ControlTypes
  <2>2. Range(swapped) = InLine
    BY <2>1 DEF Range, InLine
  <2> QED BY <2>2 DEF SchedInv, PageInv, ControlTypes, QueuesMatch, Ended, SchedulerTypeOK
<1> QED BY <1>1, SchedAlways, PTL

\* A page's count is the number of the jobs that hold it, and it is on the free list
\* exactly when there is none (PageTable::allocate, free, lookup_prefix).
THEOREM PagesAreCounted == Spec => []CountsAreHolders
<1>1. SchedInv => CountsAreHolders
  BY DEF SchedInv, PageInv
<1> QED BY <1>1, SchedAlways, PTL

\* Two jobs have a page in common only as the same page of the same prompt.
THEOREM SharingIsSafe == Spec => []SharedPagesAgree
<1>1. SchedInv => SharedPagesAgree
  <2> SUFFICES ASSUME SchedInv, NEW a \in Jobs, NEW b \in Jobs,
                      NEW m \in DOMAIN pages[a], NEW n \in DOMAIN pages[b],
                      pages[a][m] = pages[b][n]
               PROVE  /\ m = n
                      /\ a # b => /\ m <= Len(Kind[a].prompt) /\ m <= Len(Kind[b].prompt)
                                  /\ SubSeq(Kind[a].prompt, 1, m) = SubSeq(Kind[b].prompt, 1, m)
    BY DEF SharedPagesAgree
  <2>1. PageInv /\ pages[a] \in Seq(Pages) /\ pages[b] \in Seq(Pages)
    BY HeldPages DEF SchedInv
  <2>2. m \in 1..Len(pages[a]) /\ n \in 1..Len(pages[b])
    BY <2>1, LenProperties
  <2>3. CASE a = b
    BY <2>1, <2>2, <2>3 DEF PageInv, OwnPages
  <2>4. CASE a # b
    <3>1. /\ pages[a][m] \in Pages
          /\ a \in Holders(pages[a][m]) /\ b \in Holders(pages[a][m])
      BY <2>1, <2>2, HeldPages
    <3>2. table.hash[pages[a][m]] # NoHash /\ table.hash[pages[b][n]] # NoHash
      BY <2>1, <2>4, <3>1 DEF PageInv, UnhashedIsPrivate
    <3>3. /\ m \in 1..Len(Kind[a].prompt) /\ Len(table.hash[pages[a][m]]) = m
          /\ table.hash[pages[a][m]] = SubSeq(Kind[a].prompt, 1, m)
      BY <2>1, <2>2, <3>2, HashGivesPlace
    <3>4. /\ n \in 1..Len(Kind[b].prompt) /\ Len(table.hash[pages[b][n]]) = n
          /\ table.hash[pages[b][n]] = SubSeq(Kind[b].prompt, 1, n)
      BY <2>1, <2>2, <3>2, HashGivesPlace
    <3>5. m = n
      BY <3>3, <3>4
    <3> QED BY <3>3, <3>4, <3>5
  <2> QED BY <2>3, <2>4
<1> QED BY <1>1, SchedAlways, PTL

\* The prefix cache leads only to pages in use that have the contents looked for.
THEOREM CacheIsValid == Spec => []IndexIsValid
<1>1. SchedInv => IndexIsValid
  BY DEF SchedInv, PageInv
<1> QED BY <1>1, SchedAlways, PTL

\* A job that was cancelled before it ended does not finish (Scheduler::cancel,
\* finish_or_continue).
THEOREM CancelIsKept == Spec => CancelWins
<1>1. SchedInv /\ [Next]_vars =>
        [\A j \in wants : status[j] # "Finished" => status'[j] # "Finished"]_vars
  <2> SUFFICES ASSUME SchedInv, [Next]_vars, NEW j \in wants, status[j] # "Finished"
               PROVE  status'[j] # "Finished"
    OBVIOUS
  <2>1. status \in [Jobs -> Statuses] /\ j \in Jobs
    BY SchedulerAssumption DEF SchedInv, ControlTypes
  <2>2. ASSUME NEW o, NEW s, s # "Finished" \/ o # j, status' = [status EXCEPT ![o] = s]
        PROVE  status'[j] # "Finished"
    BY <2>1, <2>2
  <2>3. ASSUME NEW o \in Jobs, Submit(o) PROVE status'[j] # "Finished"
    BY <2>2, <2>3 DEF Submit
  <2>4. ASSUME NEW o \in Cancellable, Cancel(o) PROVE status'[j] # "Finished"
    BY <2>1, <2>2, <2>4 DEF Cancel, End
  <2>5. CASE Sweep
    BY <2>1, <2>2, <2>5 DEF Sweep, End
  <2>6. CASE Preempt \/ Readmit \/ Admitted
    BY <2>1, <2>2, <2>6 DEF Preempt, Readmit, Admitted
  <2>7. CASE Begin \/ Admit \/ PrefixStep \/ ChooseBatch \/ ForwardDone \/ FinishDone
    BY <2>1, <2>7 DEF Begin, Admit, PrefixStep, ChooseBatch, ForwardDone, FinishDone
  <2>8. ASSUME NEW o \in Jobs, Forward(o) PROVE status'[j] # "Finished"
    BY <2>8 DEF Forward
  <2>9. ASSUME NEW o \in Jobs, Finish(o) PROVE status'[j] # "Finished"
    <3>1. ASSUME NEW stop PROVE Result(j, stop) # "Finished"
      BY DEF Result
    <3>2. CASE UNCHANGED status
      BY <3>2
    <3>3. ASSUME NEW stop, End(o, Result(o, stop)) PROVE status'[j] # "Finished"
      BY <2>2, <3>1, <3>3 DEF End
    <3> QED BY <2>9, <3>2, <3>3 DEF Finish
  <2>10. CASE UNCHANGED vars
    BY <2>10 DEF vars
  <2> QED BY <2>3, <2>4, <2>5, <2>6, <2>7, <2>8, <2>9, <2>10 DEF Next, Step
<1> QED BY <1>1, SchedAlways, PTL DEF Spec, CancelWins

-----------------------------------------------------------------------------
(* Every running job, and the one being admitted, has the pages of its last token.
   The tokens already sampled count twice with opposite signs in what is asked for,
   so that a job that returns from preemption asks for as many pages as at first. *)

\* The tokens a job can come to.
Need(j) == PromptTokens(j) + Kind[j].new

Covered ==
  \A j \in Jobs : status[j] = "Running" \/ j = current => Need(j) <= Len(pages[j]) * PageSize

\* ceil_div rounds up.
LEMMA CeilDivCovers ==
  ASSUME NEW n \in Nat, NEW l \in Nat, CeilDiv(n, PageSize) <= l
  PROVE  n <= l * PageSize
<1>1. PageSize \in Nat /\ PageSize > 0
  BY SchedulerAssumption
<1> DEFINE d == PageSize
           q == (n + d - 1) \div d
<1> HIDE DEF d
<1>2. d \in Nat /\ d > 0
  BY <1>1 DEF d
<1>3. q \in Int /\ n <= q * d
  BY <1>2
<1>4. q <= l
  BY DEF CeilDiv, d
<1> HIDE DEF q
<1>5. q * d <= l * d
  BY <1>2, <1>3, <1>4
<1>6. q * d \in Int /\ l * d \in Int
  BY <1>2, <1>3
<1> QED BY <1>3, <1>5, <1>6 DEF d

\* What pages_needed_for starts from does not depend on the tokens already sampled.
LEMMA NeedIsConstant ==
  ASSUME ControlTypes, NEW j \in Jobs
  PROVE  Need(j) \in Nat /\ Total(j) + Remaining(j) = Need(j)
<1>1. /\ PageSize \in Nat /\ Kind[j].tail \in 0..(PageSize - 1) /\ Kind[j].new \in Nat
      /\ Kind[j].prompt \in Seq(Range(Kind[j].prompt)) /\ outputs[j] \in Nat
  BY SchedulerAssumption DEF ControlTypes
<1>2. Len(Kind[j].prompt) \in Nat
  BY <1>1, LenProperties
<1>3. PromptTokens(j) \in Nat
  <2>1. Len(Kind[j].prompt) * PageSize \in Nat
    BY <1>1, <1>2
  <2> QED BY <1>1, <2>1 DEF PromptTokens
<1> QED BY <1>1, <1>3 DEF Need, Total, Remaining

\* A job that has taken its pages is covered.
LEMMA TakeCovers ==
  ASSUME SchedInv, NEW j \in Jobs, Fits(j), TakePages(j)
  PROVE  /\ Need(j) <= Len(pages'[j]) * PageSize
         /\ \A o \in Jobs \ {j} : pages'[o] = pages[o]
<1> DEFINE n == PagesNeeded(j)
           c == CeilDiv(Need(j), PageSize)
<1>1. n \in Nat /\ n <= Cardinality(table.free)
  BY NeededFits DEF SchedInv, Fits
<1>2. table' = Allocate(table, Range(Pick(table, n))) /\ pages' = [pages EXCEPT ![j] = @ \o Pick(table, n)]
  BY DEF TakePages
<1>3. Need(j) \in Nat /\ n = AtLeastZero(c - Len(pages[j])) /\ Len(pages[j]) \in Nat
  BY NeedIsConstant, HeldPages DEF SchedInv, PagesNeeded
<1>4. c \in Int
  BY <1>3, CeilDivIsInt
<1> HIDE DEF n, c
<1>5. Len(pages'[j]) = Len(pages[j]) + n
  BY <1>1, <1>2, TakeFreePages DEF SchedInv
<1>6. Len(pages'[j]) \in Nat /\ c <= Len(pages'[j])
  <2>1. c - Len(pages[j]) \in Int
    BY <1>3, <1>4
  <2>2. c - Len(pages[j]) <= n
    BY <1>3, <2>1 DEF AtLeastZero
  <2> QED BY <1>1, <1>3, <1>4, <1>5, <2>2
<1>7. Need(j) <= Len(pages'[j]) * PageSize
  BY <1>3, <1>6, CeilDivCovers DEF c
<1> QED BY <1>7, <1>2, TakeFits

\* The prefix loop gives one page for another.
LEMMA PrefixKeepsLength ==
  ASSUME SchedInv, PrefixStep
  PROVE  \A o \in Jobs : Len(pages'[o]) = Len(pages[o])
<1> DEFINE j == current
           d == depth + 1
           h == SubSeq(Kind[j].prompt, 1, d)
<1>1. /\ j \in Jobs /\ depth \in Nat
      /\ ~(depth >= Len(Kind[j].prompt)) /\ ~(depth >= Len(pages[j]))
  BY DEF PrefixStep, LookupDone, Prompt, SchedInv, ThreadInv, ControlTypes
<1>2. /\ Len(pages[j]) \in Nat /\ pages[j] \in Seq(Pages) /\ pages \in [Jobs -> Seq(Pages)]
      /\ Kind[j].prompt \in Seq(Range(Kind[j].prompt)) /\ Len(Kind[j].prompt) \in Nat
  <2>1. Kind[j].prompt \in Seq(Range(Kind[j].prompt))
    BY <1>1, SchedulerAssumption
  <2> QED BY <1>1, <2>1, LenProperties, HeldPages DEF SchedInv, PageInv, OwnPages
<1>3. d \in 1..Len(pages[j]) /\ d \in 1..Len(Kind[j].prompt)
  BY <1>1, <1>2
<1>4. CASE Hit(table, h) /\ pages' = [pages EXCEPT ![j][d] = table.index[h]]
  <2> DEFINE c == table.index[h]
  <2>1. c \in Pages
    <3>1. h \in Prefixes
      BY <1>1, <1>3, PrefixFacts
    <3> HIDE DEF h
    <3> QED BY <1>4, <3>1, IndexHits DEF SchedInv, Hit
  <2>2. pages' = [pages EXCEPT ![j][d] = c]
    BY <1>4
  <2> HIDE DEF c, d, h, j
  <2>3. [pages[j] EXCEPT ![d] = c] \in Seq(Pages) /\ Len([pages[j] EXCEPT ![d] = c]) = Len(pages[j])
    BY <1>2, <1>3, <2>1, ExceptSeq
  <2> DEFINE new == [pages[j] EXCEPT ![d] = c]
  <2>4. pages' = [pages EXCEPT ![j] = new] /\ Len(new) = Len(pages[j])
    BY <2>2, <2>3
  <2> HIDE DEF new
  <2> QED BY <1>1, <1>2, <2>4
<1>5. CASE UNCHANGED pages
  BY <1>5
<1> QED BY <1>4, <1>5 DEF PrefixStep, ReusePage, Prompt

\* A turn of the forward pass takes no pages away.
LEMMA ForwardKeepsLength ==
  ASSUME SchedInv, NEW j \in Jobs, Forward(j)
  PROVE  \A o \in Jobs : Len(pages'[o]) >= Len(pages[o])
<1>1. \A o \in Jobs : Len(pages[o]) \in Nat
  BY HeldPages DEF SchedInv
<1>2. CASE UNCHANGED pages
  BY <1>1, <1>2
<1> DEFINE n == IF Generates(j) THEN Growth(j) ELSE 0
<1>3. CASE table' = Allocate(table, Range(Pick(table, n))) /\ pages' = [pages EXCEPT ![j] = @ \o Pick(table, n)]
  <2>1. n \in Nat /\ n <= Cardinality(table.free)
    <3>1. Growth(j) \in Nat /\ Growth(j) <= Cardinality(table.free)
      BY GrowthFits DEF SchedInv
    <3>2. Cardinality(table.free) \in Nat
      <4>1. IsFiniteSet(table.free)
        BY PageAssumption, FS_Subset DEF SchedInv, PageInv, Tables
      <4> QED BY <4>1, FS_CardinalityType
    <3> QED BY <3>1, <3>2
  <2> HIDE DEF n
  <2>2. Len(pages'[j]) = Len(pages[j]) + n
    BY <1>3, <2>1, TakeFreePages DEF SchedInv
  <2>3. \A o \in Jobs \ {j} : pages'[o] = pages[o]
    BY <1>3 DEF SchedInv, PageInv, OwnPages
  <2> QED BY <1>1, <2>1, <2>2, <2>3
<1> QED BY <1>2, <1>3 DEF Forward

\* A job that is covered stays so with no fewer pages; the others must have taken theirs.
LEMMA CoveredNext ==
  ASSUME SchedInv, SchedInv', Covered,
         \A j \in Jobs : status'[j] = "Running" \/ j = current' =>
           \/ (status[j] = "Running" \/ j = current) /\ Len(pages'[j]) >= Len(pages[j])
           \/ Need(j) <= Len(pages'[j]) * PageSize
  PROVE  Covered'
<1> SUFFICES ASSUME NEW j \in Jobs, status'[j] = "Running" \/ j = current'
             PROVE  Need(j)' <= Len(pages'[j]) * PageSize
  BY DEF Covered
<1>1. Need(j)' = Need(j) /\ Need(j) \in Nat
  BY NeedIsConstant DEF SchedInv, Need, PromptTokens
<1>2. Len(pages[j]) \in Nat
  BY HeldPages DEF SchedInv
<1>3. Len(pages'[j]) \in Nat
  <2>1. pages'[j] \in Seq(Pages)
    BY DEF SchedInv, PageInv, OwnPages
  <2> QED BY <2>1, LenProperties
<1>4. CASE (status[j] = "Running" \/ j = current) /\ Len(pages'[j]) >= Len(pages[j])
  <2>1. Need(j) <= Len(pages[j]) * PageSize
    BY <1>4 DEF Covered
  <2> DEFINE a == Len(pages[j])
             b == Len(pages'[j])
             p == PageSize
  <2>2. p \in Nat
    BY SchedulerAssumption
  <2>3. a \in Nat /\ b \in Nat /\ a <= b
    BY <1>2, <1>3, <1>4
  <2>4. Need(j) <= a * p
    BY <2>1
  <2> HIDE DEF a, b, p
  <2>5. a * p <= b * p /\ a * p \in Nat /\ b * p \in Nat
    BY <2>2, <2>3
  <2>6. Need(j) <= b * p
    BY <1>1, <2>4, <2>5
  <2> QED BY <1>1, <2>6 DEF b, p
<1> QED BY <1>1, <1>4

\* Each action leaves the running jobs covered.
LEMMA StepKeepsCovered ==
  ASSUME SchedInv, SchedInv', Covered, [Next]_vars
  PROVE  Covered'
<1>1. \A j \in Jobs : Len(pages[j]) \in Nat
  BY HeldPages DEF SchedInv
<1>2. /\ status \in [Jobs -> Statuses] /\ pages \in [Jobs -> Seq(Pages)]
      /\ running = {j \in Jobs : status[j] = "Running"}
      /\ NoJob \notin Jobs
  BY SchedulerAssumption DEF SchedInv, ControlTypes, PageInv, OwnPages, QueuesMatch
<1>3. ASSUME UNCHANGED <<pages, current>>,
             \A j \in Jobs : status'[j] = "Running" => status[j] = "Running" \/ j = current
      PROVE  Covered'
  BY <1>1, <1>3, CoveredNext
<1>4. ASSUME NEW r \in Jobs, NEW s \in {"Swapped"} \cup Terminal, UNCHANGED current, r # current,
             pages' = [pages EXCEPT ![r] = <<>>], status' = [status EXCEPT ![r] = s]
      PROVE  Covered'
  <2>1. \A j \in Jobs : status'[j] = "Running" \/ j = current' =>
          j # r /\ status'[j] = status[j] /\ pages'[j] = pages[j]
    BY <1>2, <1>4 DEF Terminal
  <2> QED BY <1>1, <1>4, <2>1, CoveredNext
<1>5. ASSUME NEW j \in Jobs, Submit(j) PROVE Covered'
  BY <1>2, <1>3, <1>5 DEF Submit, stepVars
<1>6. ASSUME NEW j \in Cancellable, Cancel(j) PROVE Covered'
  <2>1. j \in Jobs /\ current = NoJob /\ UNCHANGED current
    BY <1>6, SchedulerAssumption DEF Cancel, Unlocked, SchedInv, ThreadInv, stepVars
  <2>2. CASE End(j, "Cancelled")
    BY <1>2, <1>4, <2>1, <2>2 DEF End, Terminal
  <2>3. CASE UNCHANGED <<status, pages>>
    BY <1>3, <2>1, <2>3
  <2> QED BY <1>6, <2>2, <2>3 DEF Cancel
<1>7. CASE Begin \/ ChooseBatch \/ ForwardDone \/ FinishDone
  BY <1>3, <1>7 DEF Begin, ChooseBatch, ForwardDone, FinishDone
<1>8. CASE Sweep
  <2>1. current = NoJob /\ UNCHANGED current
    BY <1>8 DEF Sweep, SchedInv, ThreadInv
  <2>2. ASSUME NEW j \in running, End(j, "Cancelled") PROVE Covered'
    BY <1>2, <1>4, <2>1, <2>2 DEF End, Terminal
  <2>3. CASE UNCHANGED <<status, pages>>
    BY <1>3, <2>1, <2>3
  <2> QED BY <1>8, <2>2, <2>3 DEF Sweep
<1>9. CASE Preempt
  <2>1. current = NoJob /\ UNCHANGED current
    BY <1>9 DEF Preempt, SchedInv, ThreadInv
  <2>2. ASSUME NEW j \in running, pages' = [pages EXCEPT ![j] = <<>>],
               status' = [status EXCEPT ![j] = "Swapped"]
        PROVE  Covered'
    BY <1>2, <1>4, <2>1, <2>2
  <2>3. CASE UNCHANGED <<status, pages>>
    BY <1>3, <2>1, <2>3
  <2> QED BY <1>9, <2>2, <2>3 DEF Preempt
<1>10. CASE Readmit
  <2>1. current' = current
    BY <1>10 DEF Readmit
  <2>2. CASE /\ swapped # <<>> /\ Fits(Head(swapped)) /\ TakePages(Head(swapped))
             /\ status' = [status EXCEPT ![Head(swapped)] = "Running"]
    <3> DEFINE r == Head(swapped)
    <3>1. r \in Jobs
      BY <2>2, HeadTailProperties DEF SchedInv, ControlTypes
    <3>2. Fits(r) /\ TakePages(r) /\ status' = [status EXCEPT ![r] = "Running"]
      BY <2>2
    <3> HIDE DEF r
    <3>3. Need(r) <= Len(pages'[r]) * PageSize /\ \A o \in Jobs \ {r} : pages'[o] = pages[o]
      BY <3>1, <3>2, TakeCovers
    <3>4. \A o \in Jobs \ {r} : status'[o] = status[o]
      BY <1>2, <3>2
    <3> QED BY <1>1, <2>1, <3>3, <3>4, CoveredNext
  <2>3. CASE UNCHANGED <<status, pages>>
    BY <1>3, <2>1, <2>3
  <2> QED BY <1>10, <2>2, <2>3 DEF Readmit
<1>11. CASE Admit
  <2>1. /\ current = NoJob /\ status' = status
        /\ waiting \subseteq Jobs
    BY <1>11 DEF Admit, SchedInv, ThreadInv, QueuesMatch
  <2>2. ASSUME NEW j \in waiting, Fits(j), AdmitTop(j) PROVE Covered'
    <3>1. TakePages(j) /\ current' = j /\ j \in Jobs
      BY <2>1, <2>2 DEF AdmitTop
    <3>2. Need(j) <= Len(pages'[j]) * PageSize /\ \A o \in Jobs \ {j} : pages'[o] = pages[o]
      BY <2>2, <3>1, TakeCovers
    <3> QED BY <1>1, <2>1, <3>1, <3>2, CoveredNext
  <2>3. CASE UNCHANGED <<pages, current>>
    BY <1>3, <2>1, <2>3
  <2> QED BY <1>11, <2>2, <2>3 DEF Admit, AdmitEnds, AdmitCancelled
<1>12. CASE PrefixStep
  <2>1. UNCHANGED <<status, current>>
    BY <1>12 DEF PrefixStep
  <2> QED BY <1>1, <1>12, <2>1, PrefixKeepsLength, CoveredNext
<1>13. CASE Admitted
  <2>1. /\ current' = NoJob /\ pages' = pages /\ status' = [status EXCEPT ![current] = "Running"]
    BY <1>13 DEF Admitted
  <2>2. \A j \in Jobs : status'[j] = "Running" \/ j = current' => status[j] = "Running" \/ j = current
    BY <1>2, <2>1
  <2> QED BY <1>1, <2>1, <2>2, CoveredNext
<1>14. ASSUME NEW j \in Jobs, Forward(j) PROVE Covered'
  <2>1. UNCHANGED <<status, current>>
    BY <1>14 DEF Forward
  <2> QED BY <1>14, <2>1, ForwardKeepsLength, CoveredNext
<1>15. ASSUME NEW j \in Jobs, Finish(j) PROVE Covered'
  <2>1. current = NoJob /\ UNCHANGED current
    BY <1>15 DEF Finish, SchedInv, ThreadInv
  <2>2. ASSUME NEW stop, Result(j, stop) \in Terminal, End(j, Result(j, stop)) PROVE Covered'
    BY <1>2, <1>4, <2>1, <2>2 DEF End
  <2>3. CASE UNCHANGED <<status, pages>>
    BY <1>3, <2>1, <2>3
  <2> QED BY <1>15, <2>2, <2>3 DEF Finish
<1>16. CASE UNCHANGED vars
  BY <1>3, <1>16 DEF vars, stepVars
<1> QED BY <1>5, <1>6, <1>7, <1>8, <1>9, <1>10, <1>11, <1>12, <1>13, <1>14, <1>15, <1>16
        DEF Next, Step

\* A running job has every page its last token can need, also behind a preemption and
\* a shared prefix, and a job that does not run has given all of them up
\* (pages_needed_for, admit_from_waiting, preempt_if_needed).
THEOREM RunnersAreCovered == Spec => []PagesCoverTokens
<1>1. Init => Covered
  <2> SUFFICES ASSUME Init PROVE Covered
    OBVIOUS
  <2>1. \A j \in Jobs : status[j] # "Running" /\ j # current
    BY SchedulerAssumption DEF Init
  <2> QED BY <2>1 DEF Covered
<1>2. SchedInv /\ SchedInv' /\ Covered /\ [Next]_vars => Covered'
  BY StepKeepsCovered
<1>3. SchedInv /\ Covered => PagesCoverTokens
  <2> SUFFICES ASSUME SchedInv, Covered, NEW j \in Jobs
               PROVE  IF status[j] = "Running" \/ j = current
                        THEN Len(pages[j]) * PageSize >= PromptTokens(j) + Kind[j].new
                        ELSE pages[j] = <<>>
    BY DEF PagesCoverTokens
  <2>1. CASE status[j] = "Running" \/ j = current
    <3>1. Need(j) <= Len(pages[j]) * PageSize
      BY <2>1 DEF Covered
    <3> QED BY <2>1, <3>1 DEF Need
  <2>2. CASE ~(status[j] = "Running" \/ j = current)
    BY <2>2 DEF SchedInv, PagesInUse
  <2> QED BY <2>1, <2>2
<1> QED BY <1>1, <1>2, <1>3, SchedAlways, PTL DEF Spec

=============================================================================
