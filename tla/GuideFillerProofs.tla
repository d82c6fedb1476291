------------------------- MODULE GuideFillerProofs -------------------------
(***************************************************************************)
(* Proofs that the guide of a channel covers its window, splits filler     *)
(* evenly and shows what airs, for every set of programmes, every window   *)
(* and every time of the request.                                          *)
(*                                                                         *)
(* BuildChannelProgrammes is three loops: the blocks of a gap, the         *)
(* programmes that are kept and the entries that are placed.  The first is *)
(* a function of the position; the others are recursive functions, about   *)
(* which facts are proved by induction on the iteration.  The library's    *)
(* induction theorems have an operator parameter; Induction states the     *)
(* principle for a set instead and is proved from the well-foundedness of  *)
(* the natural numbers.                                                    *)
(***************************************************************************)
EXTENDS GuideFiller, FiniteSetTheorems,
        SequenceTheorems, TLAPS

-----------------------------------------------------------------------------
(* Natural numbers.                                                         *)

\* A set of naturals that is not empty has a least element.
LEMMA Least ==
  ASSUME NEW S \in SUBSET Nat, S # {}
  PROVE  \E n \in S : \A m \in S : n <= m
<1> DEFINE Less == {p \in Nat \X Nat : p[1] < p[2]}
<1>1. IsWellFoundedOn(Less, Nat)
  BY NatLessThanWellFounded DEF OpToRel
<1> HIDE DEF Less
<1>2. PICK n \in S : \A m \in S : <<m, n>> \notin Less
  BY <1>1, WFMin
<1>3. \A m \in S : ~(m < n)
  BY <1>2 DEF Less
<1> QED BY <1>3

\* Induction, for the set of the numbers that have a property.
LEMMA Induction ==
  ASSUME NEW S \in SUBSET Nat, 0 \in S, \A n \in S : n + 1 \in S
  PROVE  S = Nat
<1> SUFFICES ASSUME Nat \ S # {} PROVE FALSE
  OBVIOUS
<1>1. PICK n \in Nat \ S : \A m \in Nat \ S : n <= m
  BY Least
<1>2. n # 0 /\ n - 1 \in Nat /\ n - 1 \in S
  BY <1>1
<1> QED BY <1>2

\* Division with remainder, and that quotient and remainder are unique.
LEMMA Division ==
  ASSUME NEW d \in Nat \ {0}, NEW t \in Nat
  PROVE  /\ t \div d \in Nat /\ t % d \in 0 .. d - 1
         /\ t = d * (t \div d) + (t % d)
  OBVIOUS

LEMMA DivisionIsUnique ==
  ASSUME NEW d \in Nat \ {0}, NEW q \in Int, NEW r \in 0 .. d - 1
  PROVE  (d * q + r) % d = r
  OBVIOUS

\* A product of naturals grows with each of its factors.
LEMMA ProductsGrow ==
  ASSUME NEW d \in Nat, NEW k \in Int, NEW m \in Int, k <= m
  PROVE  d * k <= d * m
<1>1. d * (m - k) \in Nat
  OBVIOUS
<1>2. d * m = d * k + d * (m - k)
  OBVIOUS
<1> QED BY <1>1, <1>2

-----------------------------------------------------------------------------
(* Times.                                                                   *)

\* A time that is a whole second.
Whole(t) == t \in Nat /\ t % Second = 0

\* The constants are whole seconds.
LEMMA Constants ==
  /\ Second \in Nat \ {0}
  /\ Whole(Lookback) /\ Whole(Lookahead) /\ Whole(MaxFillerBlock)
  /\ Lookback > 0 /\ Lookahead > 0 /\ MaxFillerBlock > 0
BY TimesAssumption DEF Whole

LEMMA WholeIsMultiple ==
  ASSUME NEW t, Whole(t)
  PROVE  t \div Second \in Nat /\ t = Second * (t \div Second)
<1>1. /\ t \div Second \in Nat
      /\ t = Second * (t \div Second) + 0
  BY Constants, Division DEF Whole
<1>2. Second * (t \div Second) \in Nat
  BY <1>1, Constants
<1> QED BY <1>1, <1>2

LEMMA FormattedIsWhole ==
  ASSUME NEW t \in Nat
  PROVE  Whole(Formatted(t)) /\ Formatted(t) <= t
<1> DEFINE q == t \div Second
<1>1. /\ q \in Nat /\ t % Second \in 0 .. Second - 1
      /\ t = Second * q + (t % Second)
  BY Constants, Division
<1> HIDE DEF q
<1>2. Formatted(t) = Second * q + 0
  BY <1>1, Constants DEF Formatted
<1>3. (Second * q + 0) % Second = 0
  <2>1. 0 \in 0 .. Second - 1
    BY Constants
  <2> QED BY <1>1, <2>1, Constants, DivisionIsUnique
<1>4. Formatted(t) % Second = 0
  BY <1>2, <1>3, Zenon
<1>5. Formatted(t) \in Nat /\ Formatted(t) <= t
  BY <1>1, Constants DEF Formatted
<1> QED BY <1>4, <1>5 DEF Whole

\* A whole second is not changed.
LEMMA WholeIsFormatted ==
  ASSUME NEW t, Whole(t)
  PROVE  Formatted(t) = t
  BY DEF Whole, Formatted

\* Formatted(t) is the last whole second that is not after t.
LEMMA FormattedIsLast ==
  ASSUME NEW t \in Nat, NEW u, Whole(u), u <= t
  PROVE  u <= Formatted(t)
<1> DEFINE q == t \div Second
           p == u \div Second
<1>1. /\ q \in Nat /\ t % Second \in 0 .. Second - 1
      /\ t = Second * q + (t % Second)
  BY Constants, Division
<1>2. p \in Nat /\ u = Second * p
  BY WholeIsMultiple
<1> HIDE DEF q, p
<1>3. p <= q
  <2> SUFFICES ASSUME q + 1 <= p PROVE FALSE
    BY <1>1, <1>2
  <2>1. Second * (q + 1) <= Second * p
    BY <1>1, <1>2, Constants, ProductsGrow
  <2>2. Second * (q + 1) = Second * q + Second
    BY <1>1, Constants
  <2>3. Second * q \in Nat
    BY <1>1, Constants
  <2> QED BY <1>1, <1>2, <2>1, <2>2, <2>3, Constants DEF Whole
<1>4. Second * p <= Second * q
  BY <1>1, <1>2, <1>3, Constants, ProductsGrow
<1> QED BY <1>1, <1>2, <1>4, Constants DEF Formatted

LEMMA FormattedIsMonotone ==
  ASSUME NEW t \in Nat, NEW u \in Nat, t <= u
  PROVE  Formatted(t) <= Formatted(u)
<1>1. Whole(Formatted(t)) /\ Formatted(t) <= u
  BY FormattedIsWhole DEF Whole
<1> QED BY <1>1, FormattedIsLast

\* A whole number of seconds later stays that much later.
LEMMA FormattedLater ==
  ASSUME NEW t \in Nat, NEW d, Whole(d)
  PROVE  Formatted(t + d) = Formatted(t) + d
<1> DEFINE q == t \div Second
           p == d \div Second
<1>1. /\ q \in Nat /\ t % Second \in 0 .. Second - 1
      /\ t = Second * q + (t % Second)
  BY Constants, Division
<1>2. p \in Nat /\ d = Second * p
  BY WholeIsMultiple
<1> HIDE DEF q, p
<1>3. Second \in Nat \ {0} /\ q + p \in Int
  BY <1>1, <1>2, Constants
<1>4. Second * (q + p) = Second * q + Second * p
  BY <1>1, <1>2, <1>3
<1>5. t + d = Second * (q + p) + (t % Second)
  BY <1>1, <1>2, <1>3, <1>4 DEF Whole
<1>6. (Second * (q + p) + (t % Second)) % Second = t % Second
  BY <1>1, <1>3, DivisionIsUnique
<1>7. (t + d) % Second = t % Second
  BY <1>5, <1>6, Zenon
<1> QED BY <1>1, <1>7 DEF Formatted, Whole

-----------------------------------------------------------------------------
(* Pieces of a guide.                                                       *)

\* What an entry of the guide can be.
Slots ==
  {e \in [start : Nat, stop : Nat, shows : SUBSET index] :
     Whole(e.start) /\ Whole(e.stop) /\ e.start <= e.stop}

\* The entries of s follow each other without a gap, from a to b.
Covers(s, a, b) ==
  /\ s \in Seq(Slots)
  /\ IF s = <<>> THEN a = b
     ELSE /\ s[1].start = a /\ s[Len(s)].stop = b
          /\ \A k \in 1 .. Len(s) - 1 : s[k].stop = s[k + 1].start

\* FillerIsSplitEvenly, of s.
Split(s) ==
  \A k \in 1 .. Len(s) :
    s[k].shows = {} =>
      /\ s[k].stop - s[k].start <= MaxFillerBlock
      /\ s[k].stop - s[k].start < MaxFillerBlock /\ k < Len(s)
           => s[k + 1].shows # {}

\* Two pieces that meet make one.
LEMMA CoversTogether ==
  ASSUME NEW a, NEW b, NEW c, NEW s, NEW t, Covers(s, a, b), Covers(t, b, c)
  PROVE  Covers(s \o t, a, c)
<1>1. CASE s = <<>>
  BY <1>1 DEF Covers
<1>2. CASE t = <<>>
  BY <1>2 DEF Covers
<1>3. CASE s # <<>> /\ t # <<>>
  <2>1. /\ s \o t \in Seq(Slots) /\ Len(s \o t) = Len(s) + Len(t)
        /\ Len(s) \in Nat \ {0} /\ Len(t) \in Nat \ {0}
        /\ \A k \in 1 .. Len(s) + Len(t) :
             (s \o t)[k] = IF k <= Len(s) THEN s[k] ELSE t[k - Len(s)]
    BY <1>3 DEF Covers
  <2>2. /\ (s \o t)[1].start = a /\ (s \o t)[Len(s) + Len(t)].stop = c
    BY <1>3, <2>1 DEF Covers
  <2>3. ASSUME NEW k \in 1 .. Len(s) + Len(t) - 1
        PROVE  (s \o t)[k].stop = (s \o t)[k + 1].start
    <3>1. CASE k < Len(s)
      BY <1>3, <2>1, <3>1 DEF Covers
    <3>2. CASE k = Len(s)
      BY <1>3, <2>1, <3>2 DEF Covers
    <3>3. CASE k > Len(s)
      <4>1. k - Len(s) \in 1 .. Len(t) - 1 /\ k + 1 - Len(s) = k - Len(s) + 1
        BY <2>1, <3>3
      <4> QED BY <1>3, <2>1, <3>3, <4>1 DEF Covers
    <3> QED BY <2>1, <3>1, <3>2, <3>3
  <2> QED BY <2>1, <2>2, <2>3 DEF Covers
<1> QED BY <1>1, <1>2, <1>3

\* So do two that are split evenly, with a programme at the seam.
LEMMA SplitTogether ==
  ASSUME NEW s \in Seq(Slots), NEW t \in Seq(Slots), Split(s), Split(t),
         \/ s = <<>> \/ t = <<>>
         \/ s[Len(s)].shows # {} \/ t[1].shows # {}
  PROVE  Split(s \o t)
<1>1. /\ Len(s \o t) = Len(s) + Len(t)
      /\ Len(s) \in Nat /\ Len(t) \in Nat
      /\ \A k \in 1 .. Len(s) + Len(t) :
           (s \o t)[k] = IF k <= Len(s) THEN s[k] ELSE t[k - Len(s)]
  OBVIOUS
<1> SUFFICES ASSUME NEW k \in 1 .. Len(s) + Len(t), (s \o t)[k].shows = {}
             PROVE  LET e == (s \o t)[k]
                    IN /\ e.stop - e.start <= MaxFillerBlock
                       /\ e.stop - e.start < MaxFillerBlock
                            /\ k < Len(s) + Len(t)
                            => (s \o t)[k + 1].shows # {}
  BY <1>1 DEF Split
<1>2. CASE k < Len(s)
  BY <1>1, <1>2 DEF Split
<1>3. CASE k = Len(s)
  BY <1>1, <1>3 DEF Split
<1>4. CASE k > Len(s)
  <2>1. /\ k - Len(s) \in 1 .. Len(t) /\ k + 1 - Len(s) = k - Len(s) + 1
        /\ k < Len(s) + Len(t) => k - Len(s) < Len(t)
    BY <1>1, <1>4
  <2> QED BY <1>1, <1>4, <2>1 DEF Split
<1> QED BY <1>1, <1>2, <1>3, <1>4

-----------------------------------------------------------------------------
(* fillerBlocks.                                                            *)

\* A gap is covered by its blocks, which are split evenly.
LEMMA BlocksCoverGap ==
  ASSUME NEW a \in Nat, NEW b \in Nat, a < b
  PROVE  LET s == FillerBlocks(a, b)
         IN /\ Covers(s, Formatted(a), Formatted(b)) /\ Split(s)
            /\ s # <<>> /\ \A k \in 1 .. Len(s) : s[k].shows = {}
<1> DEFINE M == MaxFillerBlock
           n == (b - a + M - 1) \div M
           from(k) == a + (k - 1) * M
           to(k) == IF a + k * M > b THEN b ELSE a + k * M
           s == FillerBlocks(a, b)
<1>0. M \in Nat \ {0} /\ Whole(M)
  BY Constants DEF Whole
<1>1. s = [k \in 1 .. n |-> Entry(from(k), to(k), {})]
  BY DEF FillerBlocks, BlockLength
<1>2. n \in Nat /\ n > 0 /\ M * (n - 1) < b - a /\ b - a <= M * n
  <2> DEFINE x == b - a + M - 1
             r == x % M
  <2>1. x \in Nat
    BY <1>0
  <2>2. n \in Nat /\ r \in 0 .. M - 1 /\ x = M * n + r
    BY <1>0, <2>1, Division
  <2> HIDE DEF n, r
  <2>3. M * n \in Nat /\ M * (n - 1) = M * n - M
    BY <1>0, <2>2
  <2>4. M * (n - 1) < b - a /\ b - a <= M * n
    BY <1>0, <2>2, <2>3
  <2>5. n # 0
    BY <1>0, <2>4
  <2> QED BY <2>2, <2>4, <2>5
<1> HIDE DEF n
<1>3. ASSUME NEW k \in 1 .. n
      PROVE  /\ from(k) \in Nat /\ to(k) \in Nat /\ from(k) < to(k)
             /\ to(k) <= from(k) + M
             /\ k < n => to(k) = from(k) + M /\ to(k) = from(k + 1)
             /\ k = n => to(k) = b
             /\ k = 1 => from(k) = a
  <2>1. M * (k - 1) \in Nat /\ M * k = M * (k - 1) + M
        /\ (k - 1) * M = M * (k - 1) /\ k * M = M * k
    BY <1>0, <1>2
  <2>2. M * (k - 1) <= M * (n - 1)
    BY <1>0, <1>2, ProductsGrow
  <2>3. k < n => M * k <= M * (n - 1)
    BY <1>0, <1>2, ProductsGrow
  <2>4. (k + 1 - 1) * M = k * M
    BY <1>0
  <2> QED BY <1>0, <1>2, <2>1, <2>2, <2>3, <2>4
<1> HIDE DEF from, to
<1>4. s \in Seq(Slots) /\ Len(s) = n
  <2>1. ASSUME NEW k \in 1 .. n PROVE s[k] \in Slots
    <3>1. /\ Whole(Formatted(from(k))) /\ Whole(Formatted(to(k)))
          /\ Formatted(from(k)) <= Formatted(to(k))
      BY <1>3, FormattedIsWhole, FormattedIsMonotone
    <3> QED BY <1>1, <3>1 DEF Slots, Entry, Whole
  <2> QED BY <1>1, <1>2, <2>1
<1>5. ASSUME NEW k \in 1 .. n
      PROVE  /\ s[k].start = Formatted(from(k))
             /\ s[k].stop = Formatted(to(k))
             /\ s[k].shows = {}
  BY <1>1 DEF Entry
<1>6. Covers(s, Formatted(a), Formatted(b))
  BY <1>2, <1>3, <1>4, <1>5 DEF Covers
<1>7. ASSUME NEW k \in 1 .. n
      PROVE  /\ s[k].stop - s[k].start <= MaxFillerBlock
             /\ k < n => s[k].stop - s[k].start = MaxFillerBlock
  <2>1. Formatted(from(k) + M) = Formatted(from(k)) + M
    BY <1>0, <1>3, FormattedLater
  <2>2. Formatted(to(k)) <= Formatted(from(k) + M)
    BY <1>0, <1>3, FormattedIsMonotone
  <2>3. Formatted(from(k)) \in Nat /\ Formatted(to(k)) \in Nat
    BY <1>3, FormattedIsWhole DEF Whole
  <2> QED BY <1>0, <1>3, <1>5, <2>1, <2>2, <2>3
<1>8. Split(s)
  BY <1>0, <1>2, <1>4, <1>7 DEF Split
<1> QED BY <1>2, <1>4, <1>5, <1>6, <1>8

\* So is a gap of any length.
LEMMA GapCovers ==
  ASSUME NEW a \in Nat, NEW b \in Nat, a <= b
  PROVE  /\ Covers(Gap(a, b), Formatted(a), Formatted(b)) /\ Split(Gap(a, b))
         /\ a < b => Gap(a, b) # <<>>
<1>1. CASE a < b
  BY <1>1, BlocksCoverGap DEF Gap
<1>2. CASE a = b
  BY <1>2 DEF Gap, Covers, Split
<1> QED BY <1>1, <1>2

-----------------------------------------------------------------------------
(* clipToWindow.                                                            *)

\* What is known of a request.
Context ==
  /\ index \subseteq Programmes /\ IsFiniteSet(index)
  /\ now \in Nows

LEMMA WindowIsProper ==
  ASSUME Context
  PROVE  /\ WindowStart \in Nat /\ WindowEnd \in Nat
         /\ WindowStart < WindowEnd /\ now \in Nat
BY Constants, TimesAssumption DEF Context, WindowStart, WindowEnd, Whole

\* An entry for a programme lies in the window, to the second.
LEMMA ClippedIsInWindow ==
  ASSUME Context, NEW e \in Clipped
  PROVE  /\ e \in Slots /\ e.shows # {}
         /\ e.start \in Nat /\ e.stop \in Nat
         /\ Formatted(WindowStart) <= e.start
         /\ e.stop <= Formatted(WindowEnd)
<1>1. PICK p \in index : Airs(p)
        /\ e = Entry(ClippedStart(p), ClippedStop(p), {p})
  BY DEF Clipped
<1>2. p.start \in Nat /\ p.stop \in Nat
  BY <1>1, TimesAssumption DEF Context, Programmes, Times, Airs, Parses
<1>3. /\ ClippedStart(p) \in Nat /\ ClippedStop(p) \in Nat
      /\ WindowStart <= ClippedStart(p) /\ ClippedStop(p) <= WindowEnd
      /\ ClippedStart(p) <= ClippedStop(p)
  BY <1>1, <1>2, WindowIsProper DEF Airs, ClippedStart, ClippedStop
<1>4. /\ e.start = Formatted(ClippedStart(p))
      /\ e.stop = Formatted(ClippedStop(p)) /\ e.shows = {p}
      /\ e = [start |-> e.start, stop |-> e.stop, shows |-> e.shows]
  BY <1>1 DEF Entry
<1>5. /\ Whole(e.start) /\ Whole(e.stop) /\ e.start <= e.stop
      /\ Formatted(WindowStart) <= e.start
      /\ e.stop <= Formatted(WindowEnd)
  BY <1>3, <1>4, WindowIsProper, FormattedIsWhole, FormattedIsMonotone
<1> QED BY <1>1, <1>4, <1>5 DEF Slots, Whole

\* Every order of the clipped entries has each of them.
LEMMA SortedHasAll ==
  ASSUME Context, NEW s \in Sorted
  PROVE  /\ s \in Seq(Clipped)
         /\ \A c \in Clipped : \E j \in 1 .. Len(s) : s[j] = c
         /\ \A j \in 1 .. Len(s) - 1 : s[j].start <= s[j + 1].start
<1> DEFINE shown == {q \in index : Airs(q)}
           entry == [p \in shown |->
                       Entry(ClippedStart(p), ClippedStop(p), {p})]
           n == Cardinality(Clipped)
<1>1. IsFiniteSet(shown)
  BY FS_Subset DEF Context
<1>2. entry \in Surjection(shown, Clipped)
  BY DEF Surjection, Clipped
<1>3. IsFiniteSet(Clipped)
  BY <1>1, <1>2, FS_Surjection
<1>4. n \in Nat
  BY <1>3, FS_CardinalityType
<1>5. /\ s \in [1 .. n -> Clipped]
      /\ \A i, j \in 1 .. n : i # j => s[i] # s[j]
      /\ \A j \in 1 .. Len(s) - 1 : s[j].start <= s[j + 1].start
  BY DEF Sorted, SetToSeqs
<1>6. s \in Injection(1 .. n, Clipped)
  BY <1>5 DEF Injection, IsInjective
<1>7. IsFiniteSet(1 .. n) /\ Cardinality(1 .. n) = n
  BY <1>4, FS_Interval
<1>8. s \in Surjection(1 .. n, Clipped)
  BY <1>3, <1>6, <1>7, FS_Injection
<1>9. s \in Seq(Clipped) /\ Len(s) = n
  BY <1>4, <1>5
<1> QED BY <1>5, <1>8, <1>9 DEF Surjection

\* The loop over the sorted entries is what its definition says.
LEMMA KeptIs ==
  ASSUME NEW s, Len(s) \in Nat
  PROVE  Kept(s) = [i \in 0 .. Len(s) |->
                      IF i = 0 THEN <<>> ELSE Keep(Kept(s)[i - 1], s[i])]
<1> DEFINE Is(g, n) == g = [i \in 0 .. n |->
                              IF i = 0 THEN <<>> ELSE Keep(g[i - 1], s[i])]
           Defined == {n \in Nat : \E g : Is(g, n)}
<1>1. 0 \in Defined
  <2>1. Is([i \in 0 .. 0 |-> <<>>], 0)
    OBVIOUS
  <2> QED BY <2>1
<1>2. ASSUME NEW n \in Defined PROVE n + 1 \in Defined
  <2>1. PICK g : Is(g, n)
    OBVIOUS
  <2> DEFINE h == [i \in 0 .. n + 1 |->
                     IF i <= n THEN g[i] ELSE Keep(g[n], s[n + 1])]
  <2>2. ASSUME NEW i \in 0 .. n + 1
        PROVE  h[i] = IF i = 0 THEN <<>> ELSE Keep(h[i - 1], s[i])
    BY <2>1
  <2>3. Is(h, n + 1)
    BY <2>2
  <2> HIDE DEF h, Is
  <2> QED BY <2>3
<1>3. Defined = Nat
  <2>1. Defined \in SUBSET Nat
    OBVIOUS
  <2> HIDE DEF Defined
  <2> QED BY <1>1, <1>2, <2>1, Induction
<1>4. \E g : Is(g, Len(s))
  BY <1>3
<1> QED BY <1>4 DEF Kept

\* What each iteration adds to: the entries kept do not overlap, and each one
\* seen is there or starts while one that is there is still on.
KeptSoFar(kept, s, i) ==
  /\ kept \in Seq(Clipped)
  /\ \A k \in 1 .. Len(kept) - 1 : kept[k].stop <= kept[k + 1].start
  /\ kept # <<>> => i > 0 /\ kept[Len(kept)].start <= s[i].start
  /\ \A j \in 1 .. i :
       \E k \in 1 .. Len(kept) :
         \/ kept[k] = s[j]
         \/ kept[k].start <= s[j].start /\ s[j].start < kept[k].stop

LEMMA KeepKeeps ==
  ASSUME Context, NEW s \in Sorted, NEW i \in 0 .. Len(s) - 1, NEW kept,
         KeptSoFar(kept, s, i)
  PROVE  KeptSoFar(Keep(kept, s[i + 1]), s, i + 1)
<1> DEFINE e == s[i + 1]
           n == Len(kept)
<1>1. /\ e \in Clipped /\ e.start \in Nat
      /\ i > 0 => s[i] \in Clipped /\ s[i].start \in Nat
      /\ i > 0 => s[i].start <= e.start
  <2>1. /\ s \in Seq(Clipped) /\ i + 1 \in 1 .. Len(s)
        /\ \A j \in 1 .. Len(s) - 1 : s[j].start <= s[j + 1].start
    BY SortedHasAll
  <2>2. e \in Clipped /\ (i > 0 => s[i] \in Clipped)
    BY <2>1
  <2> QED BY <2>1, <2>2, ClippedIsInWindow
<1>2. kept \in Seq(Clipped) /\ n \in Nat
  BY DEF KeptSoFar
<1>3. kept # <<>> => n > 0 /\ kept[n] \in Clipped /\ kept[n].start <= e.start
                     /\ kept[n].stop \in Nat /\ kept[n].start \in Nat
  <2>1. kept # <<>> => n > 0 /\ kept[n] \in Clipped
    BY <1>2
  <2>2. kept # <<>> => kept[n].stop \in Nat /\ kept[n].start \in Nat
    BY <2>1, ClippedIsInWindow
  <2>3. kept # <<>> => i > 0 /\ kept[n].start <= s[i].start
    BY DEF KeptSoFar
  <2> QED BY <1>1, <2>1, <2>2, <2>3
<1>4. CASE Overlaps(kept, e)
  <2>1. kept # <<>> /\ e.start < kept[n].stop /\ Keep(kept, e) = kept
    BY <1>4 DEF Overlaps, Keep, Last
  <2>2. ASSUME NEW j \in 1 .. i + 1
        PROVE  \E k \in 1 .. Len(kept) :
                 \/ kept[k] = s[j]
                 \/ kept[k].start <= s[j].start /\ s[j].start < kept[k].stop
    <3>1. CASE j = i + 1
      BY <1>2, <1>3, <2>1, <3>1
    <3>2. CASE j \in 1 .. i
      BY <3>2 DEF KeptSoFar
    <3> QED BY <3>1, <3>2
  <2> QED BY <1>3, <2>1, <2>2 DEF KeptSoFar
<1>5. CASE ~Overlaps(kept, e)
  <2> DEFINE new == Append(kept, e)
  <2>1. Keep(kept, e) = new /\ (kept # <<>> => kept[n].stop <= e.start)
    BY <1>1, <1>3, <1>5 DEF Overlaps, Keep, Last
  <2>2. /\ new \in Seq(Clipped) /\ Len(new) = n + 1 /\ new[n + 1] = e
        /\ \A k \in 1 .. n : new[k] = kept[k]
    BY <1>1, <1>2
  <2> HIDE DEF new
  <2>3. ASSUME NEW k \in 1 .. n PROVE new[k].stop <= new[k + 1].start
    <3>1. CASE k = n
      BY <1>2, <2>1, <2>2, <3>1
    <3>2. CASE k < n
      BY <1>2, <2>2, <3>2 DEF KeptSoFar
    <3> QED BY <1>2, <3>1, <3>2
  <2>4. ASSUME NEW j \in 1 .. i + 1
        PROVE  \E k \in 1 .. n + 1 :
                 \/ new[k] = s[j]
                 \/ new[k].start <= s[j].start /\ s[j].start < new[k].stop
    <3>1. CASE j = i + 1
      BY <1>2, <2>2, <3>1
    <3>2. CASE j \in 1 .. i
      <4>1. PICK k \in 1 .. n :
              \/ kept[k] = s[j]
              \/ kept[k].start <= s[j].start /\ s[j].start < kept[k].stop
        BY <3>2 DEF KeptSoFar
      <4> QED BY <1>2, <2>2, <4>1
    <3> QED BY <3>1, <3>2
  <2>5. new[Len(new)].start <= s[i + 1].start
    BY <1>1, <2>2
  <2> QED BY <1>2, <2>1, <2>2, <2>3, <2>4, <2>5 DEF KeptSoFar
<1> QED BY <1>4, <1>5

\* The entries that are left overlap no more, and none was dropped in vain.
LEMMA DedupKeeps ==
  ASSUME Context, NEW s \in Sorted
  PROVE  /\ Dedup(s) \in Seq(Clipped)
         /\ KeptSoFar(Dedup(s), s, Len(s))
<1>1. Len(s) \in Nat
  BY SortedHasAll
<1>2. /\ Kept(s)[0] = <<>>
      /\ \A i \in 1 .. Len(s) : Kept(s)[i] = Keep(Kept(s)[i - 1], s[i])
  BY <1>1, KeptIs
<1> DEFINE Good == {i \in Nat : i <= Len(s) => KeptSoFar(Kept(s)[i], s, i)}
<1>3. 0 \in Good
  <2>1. KeptSoFar(<<>>, s, 0)
    BY DEF KeptSoFar
  <2> QED BY <1>2, <2>1
<1>4. ASSUME NEW i \in Good PROVE i + 1 \in Good
  <2> SUFFICES ASSUME i + 1 <= Len(s)
               PROVE  KeptSoFar(Kept(s)[i + 1], s, i + 1)
    OBVIOUS
  <2>1. i \in 0 .. Len(s) - 1 /\ KeptSoFar(Kept(s)[i], s, i)
    BY <1>1
  <2>2. Kept(s)[i + 1] = Keep(Kept(s)[i], s[i + 1])
    BY <1>1, <1>2, <2>1
  <2> QED BY <2>1, <2>2, KeepKeeps
<1>5. Good = Nat
  <2>1. Good \in SUBSET Nat
    OBVIOUS
  <2> HIDE DEF Good
  <2> QED BY <1>3, <1>4, <2>1, Induction
<1>6. KeptSoFar(Dedup(s), s, Len(s))
  BY <1>1, <1>5 DEF Dedup
<1> QED BY <1>6 DEF KeptSoFar

-----------------------------------------------------------------------------
(* The loop of BuildChannelProgrammes.                                      *)

\* The loop over the entries is what its definition says.
LEMMA PlacedIs ==
  ASSUME NEW d, Len(d) \in Nat
  PROVE  Placed(d) = [i \in 0 .. Len(d) |->
                        IF i = 0 THEN [out |-> <<>>, cursor |-> WindowStart]
                        ELSE Place(Placed(d)[i - 1], d[i])]
<1> DEFINE none == [out |-> <<>>, cursor |-> WindowStart]
           Is(g, n) == g = [i \in 0 .. n |->
                              IF i = 0 THEN none ELSE Place(g[i - 1], d[i])]
           Defined == {n \in Nat : \E g : Is(g, n)}
<1> HIDE DEF none
<1>1. 0 \in Defined
  <2>1. Is([i \in 0 .. 0 |-> none], 0)
    OBVIOUS
  <2> QED BY <2>1
<1>2. ASSUME NEW n \in Defined PROVE n + 1 \in Defined
  <2>1. PICK g : Is(g, n)
    OBVIOUS
  <2> DEFINE h == [i \in 0 .. n + 1 |->
                     IF i <= n THEN g[i] ELSE Place(g[n], d[n + 1])]
  <2>2. ASSUME NEW i \in 0 .. n + 1
        PROVE  h[i] = IF i = 0 THEN none ELSE Place(h[i - 1], d[i])
    BY <2>1
  <2>3. Is(h, n + 1)
    BY <2>2
  <2> HIDE DEF h, Is
  <2> QED BY <2>3
<1>3. Defined = Nat
  <2>1. Defined \in SUBSET Nat
    OBVIOUS
  <2> HIDE DEF Defined
  <2> QED BY <1>1, <1>2, <2>1, Induction
<1>4. \E g : Is(g, Len(d))
  BY <1>3
<1> QED BY <1>4 DEF Placed, none

\* What each iteration adds to: the entries placed cover the window as far as
\* the cursor, and the cursor is at the stop of the last one, to the second.
PlacedSoFar(acc, d, i) ==
  /\ acc.cursor \in Nat
  /\ WindowStart <= acc.cursor /\ acc.cursor <= WindowEnd
  /\ Covers(acc.out, Formatted(WindowStart), Formatted(acc.cursor))
  /\ Split(acc.out)
  /\ acc.out = <<>> => acc.cursor = WindowStart
  /\ acc.out # <<>> => acc.out[Len(acc.out)].shows # {}
  /\ Formatted(acc.cursor)
       = IF i = 0 THEN Formatted(WindowStart) ELSE d[i].stop
  /\ \A j \in 1 .. i : \E k \in 1 .. Len(acc.out) : acc.out[k] = d[j]

\* Entries in the window that do not overlap.
Disjoint(d) ==
  /\ d \in Seq(Clipped)
  /\ \A i \in 1 .. Len(d) - 1 : d[i].stop <= d[i + 1].start

\* A sequence with one more element at its end.
LEMMA OneMore ==
  ASSUME NEW s \in Seq(Slots), NEW x \in Slots
  PROVE  /\ Len(s \o <<x>>) = Len(s) + 1
         /\ (s \o <<x>>)[Len(s) + 1] = x
         /\ \A k \in 1 .. Len(s) : (s \o <<x>>)[k] = s[k]
<1>1. <<x>> \in Seq(Slots) /\ Len(<<x>>) = 1 /\ <<x>>[1] = x
  OBVIOUS
<1>2. Len(s) \in Nat
  OBVIOUS
<1> DEFINE one == <<x>>
<1> HIDE DEF one
<1>3. \A k \in 1 .. Len(s) + 1 :
        (s \o one)[k] = IF k <= Len(s) THEN s[k] ELSE one[k - Len(s)]
  BY <1>1, <1>2 DEF one
<1>4. Len(s \o one) = Len(s) + 1
  BY <1>1, <1>2 DEF one
<1> QED BY <1>1, <1>2, <1>3, <1>4 DEF one

\* An iteration extends what the ones before have placed.
LEMMA PlaceExtends ==
  ASSUME Context, NEW d, Disjoint(d), NEW i \in 0 .. Len(d) - 1, NEW acc,
         PlacedSoFar(acc, d, i)
  PROVE  PlacedSoFar(Place(acc, d[i + 1]), d, i + 1)
<1> DEFINE e == d[i + 1]
           gap == Gap(acc.cursor, e.start)
           before == acc.out \o gap
           out == before \o <<e>>
           cursor == Advanced(acc.cursor, e.stop)
<1>1. /\ e \in Slots /\ e.shows # {} /\ Whole(e.start) /\ Whole(e.stop)
      /\ e.start \in Nat /\ e.stop \in Nat /\ e.start <= e.stop
      /\ Formatted(WindowStart) <= e.start /\ e.stop <= Formatted(WindowEnd)
  <2>1. e \in Clipped
    BY DEF Disjoint
  <2> QED BY <2>1, ClippedIsInWindow DEF Slots
<1>2. acc.cursor \in Nat
  BY DEF PlacedSoFar
<1>3. Formatted(acc.cursor) <= e.start
  <2>1. i > 0 => d[i].stop <= e.start
    BY DEF Disjoint
  <2> QED BY <1>1, <2>1 DEF PlacedSoFar
<1>4. Covers(gap, Formatted(acc.cursor), e.start) /\ Split(gap)
  <2>1. CASE acc.cursor < e.start
    BY <1>1, <1>2, <2>1, GapCovers, WholeIsFormatted
  <2>2. CASE ~(acc.cursor < e.start)
    <3>1. e.start <= Formatted(acc.cursor)
      BY <1>1, <1>2, <2>2, FormattedIsLast
    <3>2. Formatted(acc.cursor) \in Nat
      BY <1>2, FormattedIsWhole DEF Whole
    <3>3. Formatted(acc.cursor) = e.start
      BY <1>1, <1>3, <3>1, <3>2
    <3>4. gap = <<>>
      BY <1>1, <1>2, <2>2 DEF Gap
    <3> QED BY <3>3, <3>4 DEF Covers, Split
  <2> QED BY <2>1, <2>2
<1>5. Covers(<<e>>, e.start, e.stop) /\ Split(<<e>>)
  <2>1. <<e>> \in Seq(Slots) /\ Len(<<e>>) = 1 /\ <<e>>[1] = e
    BY <1>1
  <2> QED BY <1>1, <2>1 DEF Covers, Split
<1> HIDE DEF e, gap
<1>6. Covers(before, Formatted(WindowStart), e.start) /\ Split(before)
  <2>1. Covers(before, Formatted(WindowStart), e.start)
    BY <1>4, CoversTogether DEF PlacedSoFar
  <2>2. acc.out \in Seq(Slots) /\ gap \in Seq(Slots)
    BY <1>4 DEF PlacedSoFar, Covers
  <2>3. Split(before)
    BY <1>4, <2>2, SplitTogether DEF PlacedSoFar
  <2> QED BY <2>1, <2>3
<1> HIDE DEF before
<1>7. Covers(out, Formatted(WindowStart), e.stop)
  BY <1>5, <1>6, CoversTogether
<1>8. Split(out)
  <2>1. before \in Seq(Slots) /\ <<e>> \in Seq(Slots) /\ <<e>>[1].shows # {}
    BY <1>1, <1>6 DEF Covers
  <2> QED BY <1>5, <1>6, <2>1, SplitTogether
<1>9. /\ out # <<>> /\ out[Len(out)] = e
      /\ \A j \in 1 .. i + 1 : \E k \in 1 .. Len(out) : out[k] = d[j]
  <2>1. /\ acc.out \in Seq(Slots) /\ gap \in Seq(Slots)
        /\ Len(acc.out) \in Nat /\ Len(gap) \in Nat
    BY <1>4 DEF PlacedSoFar, Covers
  <2>2. /\ before \in Seq(Slots) /\ Len(before) = Len(acc.out) + Len(gap)
        /\ \A k \in 1 .. Len(acc.out) : before[k] = acc.out[k]
    BY <2>1 DEF before
  <2>3. /\ Len(out) = Len(before) + 1 /\ out[Len(before) + 1] = e
        /\ \A k \in 1 .. Len(before) : out[k] = before[k]
    BY <1>1, <2>2, OneMore
  <2>4. ASSUME NEW j \in 1 .. i
        PROVE  \E k \in 1 .. Len(out) : out[k] = d[j]
    <3>1. PICK k \in 1 .. Len(acc.out) : acc.out[k] = d[j]
      BY DEF PlacedSoFar
    <3>2. k \in 1 .. Len(out) /\ k \in 1 .. Len(before) /\ out[k] = d[j]
      BY <2>1, <2>2, <2>3, <3>1
    <3> QED BY <3>2
  <2>5. \E k \in 1 .. Len(out) : out[k] = d[i + 1]
    BY <2>1, <2>2, <2>3 DEF e
  <2>6. out # <<>>
    BY <2>1, <2>2, <2>3
  <2>7. out[Len(out)] = e
    BY <2>3
  <2>8. ASSUME NEW j \in 1 .. i + 1
        PROVE  \E k \in 1 .. Len(out) : out[k] = d[j]
    <3>1. j \in 1 .. i \/ j = i + 1
      OBVIOUS
    <3> QED BY <2>4, <2>5, <3>1
  <2> QED BY <2>6, <2>7, <2>8
<1> HIDE DEF out
<1>10. /\ cursor \in Nat /\ WindowStart <= cursor /\ cursor <= WindowEnd
       /\ Formatted(cursor) = e.stop
  <2>1. CASE e.stop > acc.cursor
    <3>1. cursor = e.stop
      BY <2>1 DEF Advanced
    <3>2. Formatted(WindowEnd) <= WindowEnd /\ Formatted(WindowEnd) \in Nat
      BY WindowIsProper, FormattedIsWhole DEF Whole
    <3> QED BY <1>1, <1>2, <2>1, <3>1, <3>2, WindowIsProper, WholeIsFormatted
          DEF PlacedSoFar
  <2>2. CASE ~(e.stop > acc.cursor)
    <3>1. cursor = acc.cursor
      BY <2>2 DEF Advanced
    <3>2. e.stop <= Formatted(acc.cursor)
      BY <1>1, <1>2, <2>2, FormattedIsLast
    <3>3. Formatted(acc.cursor) \in Nat
      BY <1>2, FormattedIsWhole DEF Whole
    <3> QED BY <1>1, <1>2, <1>3, <3>1, <3>2, <3>3 DEF PlacedSoFar
  <2> QED BY <2>1, <2>2
<1>11. Place(acc, e) = [out |-> out, cursor |-> cursor]
  BY SMT DEF Place, out, before, gap, e
<1> HIDE DEF cursor
<1>12. PlacedSoFar([out |-> out, cursor |-> cursor], d, i + 1)
  BY <1>1, <1>7, <1>8, <1>9, <1>10 DEF PlacedSoFar, e
<1> QED BY <1>11, <1>12 DEF e

\* After the last iteration, every entry is placed.
LEMMA AllPlaced ==
  ASSUME Context, NEW d, Disjoint(d)
  PROVE  PlacedSoFar(Placed(d)[Len(d)], d, Len(d))
<1>1. Len(d) \in Nat
  BY DEF Disjoint
<1>2. /\ Placed(d)[0] = [out |-> <<>>, cursor |-> WindowStart]
      /\ \A i \in 1 .. Len(d) : Placed(d)[i] = Place(Placed(d)[i - 1], d[i])
  BY <1>1, PlacedIs
<1> DEFINE Good == {i \in Nat : i <= Len(d) => PlacedSoFar(Placed(d)[i], d, i)}
<1>3. 0 \in Good
  <2>1. PlacedSoFar([out |-> <<>>, cursor |-> WindowStart], d, 0)
    BY WindowIsProper DEF PlacedSoFar, Covers, Split
  <2> QED BY <1>2, <2>1
<1>4. ASSUME NEW i \in Good PROVE i + 1 \in Good
  <2> SUFFICES ASSUME i + 1 <= Len(d)
               PROVE  PlacedSoFar(Placed(d)[i + 1], d, i + 1)
    OBVIOUS
  <2>1. i \in 0 .. Len(d) - 1 /\ PlacedSoFar(Placed(d)[i], d, i)
    BY <1>1
  <2>2. Placed(d)[i + 1] = Place(Placed(d)[i], d[i + 1])
    BY <1>1, <1>2, <2>1
  <2> QED BY <2>1, <2>2, PlaceExtends
<1>5. Good = Nat
  <2>1. Good \in SUBSET Nat
    OBVIOUS
  <2> HIDE DEF Good
  <2> QED BY <1>3, <1>4, <2>1, Induction
<1> QED BY <1>1, <1>5

\* What BuildChannelProgrammes returns for entries that do not overlap covers
\* the window, is split evenly and holds each of them.
LEMMA LaidCovers ==
  ASSUME Context, NEW d, Disjoint(d)
  PROVE  /\ Covers(Laid(d), Formatted(WindowStart), Formatted(WindowEnd))
         /\ Split(Laid(d)) /\ Laid(d) # <<>>
         /\ \A j \in 1 .. Len(d) :
              \E k \in 1 .. Len(Laid(d)) : Laid(d)[k] = d[j]
<1> DEFINE end == Placed(d)[Len(d)]
           gap == Gap(end.cursor, WindowEnd)
<1>1. PlacedSoFar(end, d, Len(d))
  BY AllPlaced
<1>2. Laid(d) = end.out \o gap
  BY DEF Laid
<1> HIDE DEF end
<1>3. /\ end.cursor \in Nat /\ end.cursor <= WindowEnd
      /\ Covers(end.out, Formatted(WindowStart), Formatted(end.cursor))
      /\ Split(end.out)
      /\ end.out = <<>> => end.cursor = WindowStart
      /\ end.out # <<>> => end.out[Len(end.out)].shows # {}
  BY <1>1 DEF PlacedSoFar
<1>4. /\ Covers(gap, Formatted(end.cursor), Formatted(WindowEnd))
      /\ Split(gap) /\ (end.cursor < WindowEnd => gap # <<>>)
  BY <1>3, GapCovers, WindowIsProper
<1> HIDE DEF gap
<1>5. end.out \in Seq(Slots) /\ gap \in Seq(Slots)
  BY <1>3, <1>4 DEF Covers
<1>6. Covers(Laid(d), Formatted(WindowStart), Formatted(WindowEnd))
  BY <1>2, <1>3, <1>4, CoversTogether
<1>7. Split(Laid(d))
  BY <1>2, <1>3, <1>4, <1>5, SplitTogether
<1>8. Laid(d) # <<>>
  <2>1. end.out # <<>> \/ gap # <<>>
    BY <1>3, <1>4, WindowIsProper
  <2> QED BY <1>2, <1>5, <2>1
<1>9. /\ Len(Laid(d)) = Len(end.out) + Len(gap)
      /\ \A k \in 1 .. Len(end.out) : Laid(d)[k] = end.out[k]
      /\ Len(end.out) \in Nat /\ Len(gap) \in Nat
  BY <1>2, <1>5
<1>10. ASSUME NEW j \in 1 .. Len(d)
       PROVE  \E k \in 1 .. Len(Laid(d)) : Laid(d)[k] = d[j]
  <2>1. PICK k \in 1 .. Len(end.out) : end.out[k] = d[j]
    BY <1>1 DEF PlacedSoFar
  <2>2. k \in 1 .. Len(Laid(d)) /\ Laid(d)[k] = d[j]
    BY <1>9, <2>1
  <2> QED BY <2>2
<1> QED BY <1>6, <1>7, <1>8, <1>10

-----------------------------------------------------------------------------
(* The specification.                                                       *)

\* The inductive invariant: nothing but what a request knows of its inputs has
\* to be added, since every request builds its guide anew.
IndInv ==
  /\ Context
  /\ TypeOK /\ GuideCoversWindow /\ FillerIsSplitEvenly
  /\ AiringProgrammesAreShown

LEMMA InitInv == Init => IndInv
<1> SUFFICES ASSUME Init PROVE IndInv
  OBVIOUS
<1>1. PICK n \in 0 .. MaxProgrammes :
        \E s \in [1 .. n -> Programmes] : index = {s[i] : i \in 1 .. n}
  BY DEF Init
<1>2. PICK s \in [1 .. n -> Programmes] : index = {s[i] : i \in 1 .. n}
  BY <1>1
<1>3. n \in Nat
  BY TimesAssumption
<1>4. s \in Surjection(1 .. n, index)
  BY <1>2 DEF Surjection
<1>5. IsFiniteSet(index)
  BY <1>3, <1>4, FS_Interval, FS_Surjection
<1>6. Context
  BY <1>2, <1>5 DEF Init, Context
<1>7. guide = <<>> /\ Shown = {} /\ ~Served
  BY DEF Init, Shown, Served
<1> QED
  BY <1>6, <1>7, WindowIsProper
  DEF IndInv, TypeOK, GuideCoversWindow, FillerIsSplitEvenly,
      AiringProgrammesAreShown

\* A guide that is built anew has all of it.
Built == Context /\ \E s \in Sorted : guide = Build(s)

LEMMA BuiltGuide == Built => IndInv
<1> SUFFICES ASSUME Context, NEW s \in Sorted, guide = Build(s) PROVE IndInv
  BY DEF Built
<1> DEFINE d == Dedup(s)
<1>1. d \in Seq(Clipped) /\ KeptSoFar(d, s, Len(s))
  BY DedupKeeps
<1> HIDE DEF d
<1>2. Disjoint(d)
  BY <1>1 DEF Disjoint, KeptSoFar
<1>3. /\ Covers(guide, Formatted(WindowStart), Formatted(WindowEnd))
      /\ Split(guide) /\ guide # <<>>
      /\ \A j \in 1 .. Len(d) : \E k \in 1 .. Len(guide) : guide[k] = d[j]
  BY <1>2, LaidCovers DEF Build, d
<1>4. /\ guide \in Seq(Slots) /\ DOMAIN guide = 1 .. Len(guide)
      /\ Len(guide) \in Nat
  BY <1>3 DEF Covers
<1>5. TypeOK
  <2>1. Shown \subseteq Slots
    BY <1>4 DEF Shown
  <2> QED BY <2>1, WindowIsProper DEF TypeOK, Slots, Whole
<1>6. GuideCoversWindow
  BY <1>3 DEF GuideCoversWindow, Covers, Last
<1>7. FillerIsSplitEvenly
  BY <1>3, <1>4 DEF FillerIsSplitEvenly, Split
<1>8. ASSUME NEW c \in Clipped
      PROVE  \/ c \in Shown
             \/ \E e \in Shown :
                  e.shows # {} /\ e.start <= c.start /\ c.start < e.stop
  <2>1. PICK j \in 1 .. Len(s) : s[j] = c
    BY SortedHasAll
  <2>2. PICK i \in 1 .. Len(d) :
          d[i] = c \/ (d[i].start <= c.start /\ c.start < d[i].stop)
    BY <1>1, <2>1 DEF KeptSoFar
  <2>3. d[i] \in Clipped /\ d[i].shows # {}
    BY <1>1, <2>2, ClippedIsInWindow
  <2>4. d[i] \in Shown
    BY <1>3, <1>4 DEF Shown
  <2> QED BY <2>2, <2>3, <2>4
<1> QED BY <1>4, <1>5, <1>6, <1>7, <1>8 DEF IndInv, AiringProgrammesAreShown

\* A request builds its guide from the programmes and the time it found.
LEMMA ServeBuilds ==
  ASSUME Context, Serve
  PROVE  Built'
<1>1. PICK s \in Sorted : guide' = Build(s)
  BY DEF Serve
<1>2. index' = index /\ now' = now
  BY DEF Serve
<1>3. Context'
  BY <1>2 DEF Context
<1>4. WindowStart' = WindowStart /\ WindowEnd' = WindowEnd
  BY <1>2 DEF WindowStart, WindowEnd
<1>5. Clipped' = Clipped
  BY <1>2, <1>4 DEF Clipped, Airs, ClippedStart, ClippedStop
<1>6. Sorted' = Sorted
  BY <1>5 DEF Sorted
<1>7. Build(s)' = Build(s)
  BY <1>4 DEF Build, Laid, Placed
<1> QED BY <1>1, <1>3, <1>6, <1>7 DEF Built

THEOREM IndInvHolds == Spec => []IndInv
<1>1. IndInv /\ [Serve]_vars => IndInv'
  <2>1. IndInv /\ Serve => Built'
    BY ServeBuilds DEF IndInv
  <2>2. Built' => IndInv'
    BY BuiltGuide, PTL
  <2>3. ASSUME IndInv, UNCHANGED vars PROVE IndInv'
    <3>1. index' = index /\ now' = now /\ guide' = guide
      BY <2>3 DEF vars
    <3>2. WindowStart' = WindowStart /\ WindowEnd' = WindowEnd
      BY <3>1 DEF WindowStart, WindowEnd
    <3>3. Clipped' = Clipped
      BY <3>1, <3>2 DEF Clipped, Airs, ClippedStart, ClippedStop
    <3>4. Shown' = Shown /\ Served' = Served
      BY <3>1 DEF Shown, Served
    <3>5. Context' /\ TypeOK' /\ FillerIsSplitEvenly'
      BY <2>3, <3>1, <3>4
      DEF IndInv, Context, TypeOK, FillerIsSplitEvenly
    <3>6. GuideCoversWindow'
      BY <2>3, <3>1, <3>2, <3>4 DEF IndInv, GuideCoversWindow
    <3>7. AiringProgrammesAreShown'
      BY <2>3, <3>3, <3>4 DEF IndInv, AiringProgrammesAreShown
    <3> QED BY <3>5, <3>6, <3>7 DEF IndInv
  <2> QED BY <2>1, <2>2, <2>3
<1> QED BY <1>1, InitInv, PTL DEF Spec

(***************************************************************************)
(* The guide of a channel holds whole seconds, no entry that stops before  *)
(* it starts and no programme that no source named (types.go:28-37).       *)
(***************************************************************************)
THEOREM TypeCorrect == Spec => []TypeOK
<1>1. IndInv => TypeOK
  BY DEF IndInv
<1> QED BY <1>1, IndInvHolds, PTL

(***************************************************************************)
(* For any programmes, any window and any time of the request, the guide   *)
(* covers the window without a gap or an overlap (filler.go:26-28).        *)
(***************************************************************************)
THEOREM WindowCovered == Spec => []GuideCoversWindow
<1>1. IndInv => GuideCoversWindow
  BY DEF IndInv
<1> QED BY <1>1, IndInvHolds, PTL

(***************************************************************************)
(* A gap of any length is split into full blocks of filler and a last one  *)
(* that may be shorter (filler.go:124-147).                                *)
(***************************************************************************)
THEOREM FillerSplit == Spec => []FillerIsSplitEvenly
<1>1. IndInv => FillerIsSplitEvenly
  BY DEF IndInv
<1> QED BY <1>1, IndInvHolds, PTL

(***************************************************************************)
(* However many programmes overlap, one that airs in the window is shown,  *)
(* or one that is shown is still on when it starts (filler.go:107-119).    *)
(***************************************************************************)
THEOREM ProgrammesShown == Spec => []AiringProgrammesAreShown
<1>1. IndInv => AiringProgrammesAreShown
  BY DEF IndInv
<1> QED BY <1>1, IndInvHolds, PTL
=============================================================================
