------------------------- MODULE LineupMatchProofs -------------------------
(***************************************************************************)
(* Proofs that the match of a lineup is the best one, and that later       *)
(* entries take nothing from earlier ones, for every lineup and playlists  *)
(* of every length.                                                        *)
(*                                                                         *)
(* The index is a recursive function over the entries; what it holds is    *)
(* proved by induction on the entries it has seen.  Induction states the   *)
(* principle for a set of naturals, because the library's theorems of that *)
(* kind have an operator parameter.                                        *)
(***************************************************************************)
EXTENDS LineupMatch, WellFoundedInduction, TLAPS

\* A set of naturals that is not empty has a least element.
LEMMA Least ==
  ASSUME NEW S \in SUBSET Nat, S # {}
  PROVE  \E n \in S : \A m \in S : n <= m
<1> DEFINE Less == {p \in Nat \X Nat : p[1] < p[2]}
<1>1. IsWellFoundedOn(Less, Nat)
  BY NatLessThanWellFounded DEF OpToRel
<1> HIDE DEF Less
<1>2. PICK n \in S : \A m \in S : <<m, n>> \notin Less
  BY <1>1, WFMin
<1>3. \A m \in S : ~(m < n)
  BY <1>2 DEF Less
<1> QED BY <1>3

\* Induction, for the set of the numbers that have a property.
LEMMA Induction ==
  ASSUME NEW S \in SUBSET Nat, 0 \in S, \A n \in S : n + 1 \in S
  PROVE  S = Nat
<1> SUFFICES ASSUME Nat \ S # {} PROVE FALSE
  OBVIOUS
<1>1. PICK n \in Nat \ S : \A m \in Nat \ S : n <= m
  BY Least
<1>2. n # 0 /\ n - 1 \in Nat /\ n - 1 \in S
  BY <1>1
<1> QED BY <1>2

\* First is the least of some positions.
LEMMA FirstIsLeast ==
  ASSUME NEW S \in SUBSET Nat, S # {}
  PROVE  First(S) \in S /\ \A i \in S : First(S) <= i
BY Least DEF First

-----------------------------------------------------------------------------
(* buildMatchIndex.                                                         *)

\* The loop over the entries is what its definition says.
LEMMA IndexIs ==
  ASSUME NEW all, Len(all) \in Nat
  PROVE  Index(all) = [i \in 0 .. Len(all) |->
                         IF i = 0 THEN <<>>
                         ELSE Indexed(Index(all)[i - 1], all[i])]
<1> DEFINE Is(g, n) == g = [i \in 0 .. n |->
                              IF i = 0 THEN <<>> ELSE Indexed(g[i - 1], all[i])]
           Defined == {n \in Nat : \E g : Is(g, n)}
<1>1. 0 \in Defined
  <2>1. Is([i \in 0 .. 0 |-> <<>>], 0)
    OBVIOUS
  <2> QED BY <2>1
<1>2. ASSUME NEW n \in Defined PROVE n + 1 \in Defined
  <2>1. PICK g : Is(g, n)
    OBVIOUS
  <2> DEFINE h == [i \in 0 .. n + 1 |->
                     IF i <= n THEN g[i] ELSE Indexed(g[n], all[n + 1])]
  <2>2. ASSUME NEW i \in 0 .. n + 1
        PROVE  h[i] = IF i = 0 THEN <<>> ELSE Indexed(h[i - 1], all[i])
    BY <2>1
  <2>3. Is(h, n + 1)
    BY <2>2
  <2> HIDE DEF h, Is
  <2> QED BY <2>3
<1>3. Defined = Nat
  <2>1. Defined \in SUBSET Nat
    OBVIOUS
  <2> HIDE DEF Defined
  <2> QED BY <1>1, <1>2, <2>1, Induction
<1>4. \E g : Is(g, Len(all))
  BY <1>3
<1> QED BY <1>4 DEF Index

\* The tvg-id of an entry as it is compared.
ID(e) == Normalize[e.tvgID]

\* What is in the index once i entries have been seen: their tvg-ids, and for
\* each the first entry that has it.
IndexSoFar(byTvgID, all, i) ==
  /\ \A id : id \in DOMAIN byTvgID
       <=> \E j \in 1 .. i : all[j].tvgID # Unset /\ ID(all[j]) = id
  /\ \A j \in 1 .. i :
       all[j].tvgID # Unset
         /\ (\A k \in 1 .. j - 1 : all[k].tvgID # Unset
                                     => ID(all[k]) # ID(all[j]))
         => byTvgID[ID(all[j])] = all[j]

LEMMA IndexedExtends ==
  ASSUME NEW all, NEW i \in Nat, NEW byTvgID, IndexSoFar(byTvgID, all, i)
  PROVE  IndexSoFar(Indexed(byTvgID, all[i + 1]), all, i + 1)
<1> DEFINE e == all[i + 1]
           new == Indexed(byTvgID, e)
<1>1. CASE e.tvgID = Unset
  <2>1. new = byTvgID
    BY <1>1 DEF Indexed
  <2>2. \A j \in 1 .. i + 1 : all[j].tvgID # Unset => j \in 1 .. i
    BY <1>1
  <2>3. \A j \in 1 .. i : j \in 1 .. i + 1
    OBVIOUS
  <2> QED BY <2>1, <2>2, <2>3 DEF IndexSoFar
<1>2. CASE e.tvgID # Unset
  <2>1. /\ DOMAIN new = DOMAIN byTvgID \cup {ID(e)}
        /\ \A id \in DOMAIN byTvgID : new[id] = byTvgID[id]
        /\ ID(e) \notin DOMAIN byTvgID => new[ID(e)] = e
    BY <1>2 DEF Indexed, Assigned, ID
  <2> HIDE DEF new
  <2>2. ASSUME NEW id
        PROVE  id \in DOMAIN new
                 <=> \E j \in 1 .. i + 1 :
                       all[j].tvgID # Unset /\ ID(all[j]) = id
    <3>1. id \in DOMAIN new <=> id \in DOMAIN byTvgID \/ id = ID(e)
      BY <2>1
    <3>2. (\E j \in 1 .. i + 1 : all[j].tvgID # Unset /\ ID(all[j]) = id)
            <=> \/ \E j \in 1 .. i : all[j].tvgID # Unset /\ ID(all[j]) = id
                \/ ID(e) = id
      BY <1>2
    <3> QED BY <3>1, <3>2 DEF IndexSoFar
  <2>3. ASSUME NEW j \in 1 .. i + 1, all[j].tvgID # Unset,
               \A k \in 1 .. j - 1 : all[k].tvgID # Unset
                                       => ID(all[k]) # ID(all[j])
        PROVE  new[ID(all[j])] = all[j]
    <3>1. CASE j \in 1 .. i
      BY <2>1, <2>3, <3>1 DEF IndexSoFar
    <3>2. CASE j = i + 1
      <4>1. ID(e) \notin DOMAIN byTvgID
        BY <2>3, <3>2 DEF IndexSoFar
      <4> QED BY <2>1, <3>2, <4>1
    <3> QED BY <3>1, <3>2
  <2> QED BY <2>2, <2>3 DEF IndexSoFar, new
<1> QED BY <1>1, <1>2

\* What buildMatchIndex returns.
LEMMA ByTvgIDHoldsFirst ==
  ASSUME NEW all \in Seq(Entry)
  PROVE  IndexSoFar(ByTvgID(all), all, Len(all))
<1>1. /\ Index(all)[0] = <<>>
      /\ \A i \in 1 .. Len(all) :
           Index(all)[i] = Indexed(Index(all)[i - 1], all[i])
  BY IndexIs
<1> DEFINE Good == {i \in Nat : i <= Len(all)
                                  => IndexSoFar(Index(all)[i], all, i)}
<1>2. 0 \in Good
  <2>1. IndexSoFar(<<>>, all, 0)
    BY DEF IndexSoFar
  <2> QED BY <1>1, <2>1
<1>3. ASSUME NEW i \in Good PROVE i + 1 \in Good
  <2> SUFFICES ASSUME i + 1 <= Len(all)
               PROVE  IndexSoFar(Index(all)[i + 1], all, i + 1)
    OBVIOUS
  <2>1. i \in Nat /\ IndexSoFar(Index(all)[i], all, i)
    OBVIOUS
  <2>2. Index(all)[i + 1] = Indexed(Index(all)[i], all[i + 1])
    BY <1>1, <2>1
  <2> QED BY <2>1, <2>2, IndexedExtends
<1>4. Good = Nat
  <2>1. Good \in SUBSET Nat
    OBVIOUS
  <2> HIDE DEF Good
  <2> QED BY <1>2, <1>3, <2>1, Induction
<1> QED BY <1>4 DEF ByTvgID

-----------------------------------------------------------------------------
(* matchChannel.                                                            *)

\* e has the channel's tvg-id.
SameID(ch, e) ==
  ChannelID[ch] # Unset /\ e.tvgID # Unset /\ Normalize[ChannelID[ch]] = ID(e)

\* The entries a channel's tvg-id finds.
Identified(ch, all) == {i \in 1 .. Len(all) : SameID(ch, all[i])}

LEMMA IDFindsFirst ==
  ASSUME NEW all \in Seq(Entry), NEW ch
  PROVE  /\ HasID(ch, all) <=> Identified(ch, all) # {}
         /\ HasID(ch, all) => Match(ch, all) = all[First(Identified(ch, all))]
<1> DEFINE ids == Identified(ch, all)
           id == Normalize[ChannelID[ch]]
<1>1. IndexSoFar(ByTvgID(all), all, Len(all))
  BY ByTvgIDHoldsFirst
<1>2. HasID(ch, all) <=> ids # {}
  BY <1>1 DEF HasID, Identified, SameID, IndexSoFar
<1>3. ASSUME HasID(ch, all)
      PROVE  Match(ch, all) = all[First(ids)]
  <2> DEFINE j == First(ids)
  <2>1. ids \in SUBSET Nat /\ ids # {}
    BY <1>2, <1>3 DEF Identified
  <2> HIDE DEF ids
  <2>2. j \in ids /\ \A i \in ids : j <= i
    BY <2>1, FirstIsLeast
  <2> HIDE DEF j
  <2>3. j \in 1 .. Len(all) /\ all[j].tvgID # Unset /\ ID(all[j]) = id
        /\ ChannelID[ch] # Unset
    BY <2>2 DEF Identified, SameID, ids
  <2>4. ASSUME NEW k \in 1 .. j - 1, all[k].tvgID # Unset
        PROVE  ID(all[k]) # ID(all[j])
    <3>1. k \in 1 .. Len(all) /\ k < j /\ k \notin ids
      BY <2>2, <2>3
    <3> QED BY <2>3, <2>4, <3>1 DEF Identified, SameID, ids
  <2>5. ByTvgID(all)[ID(all[j])] = all[j]
    BY <1>1, <2>3, <2>4 DEF IndexSoFar
  <2>6. Match(ch, all) = ByTvgID(all)[id]
    BY <1>3 DEF Match
  <2> QED BY <2>3, <2>5, <2>6 DEF j
<1> QED BY <1>2, <1>3

LEMMA NameFindsFirst ==
  ASSUME NEW all \in Seq(Entry), NEW ch,
         Identified(ch, all) = {}, Named(ch, all) # {}
  PROVE  Match(ch, all) = all[First(Named(ch, all))]
BY IDFindsFirst DEF Match

\* The channels that are matched are the ones an entry can serve.
LEMMA MatchedIs ==
  ASSUME NEW all \in Seq(Entry), NEW ch \in Channels
  PROVE  ch \in Matched(all)
           <=> Identified(ch, all) # {} \/ Named(ch, all) # {}
BY IDFindsFirst DEF Matched

-----------------------------------------------------------------------------
(* The specification.                                                       *)

\* The inductive invariant: the match that is published is the match of the
\* entries Rebuild was called with, none at first.
IndInv ==
  /\ entries \in Seq(Entry)
  /\ streams = [ch \in Matched(entries) |-> Match(ch, entries).stream]

LEMMA InitInv == Init => IndInv
<1> SUFFICES ASSUME Init PROVE IndInv
  OBVIOUS
<1>1. entries = <<>> /\ streams = <<>> /\ <<>> \in Seq(Entry)
  BY DEF Init
<1>2. \A ch \in Channels : Identified(ch, <<>>) = {} /\ Named(ch, <<>>) = {}
  BY DEF Identified, Named
<1>3. Matched(<<>>) = {}
  <2>1. \A ch \in Channels : ch \notin Matched(<<>>)
    BY <1>1, <1>2, MatchedIs
  <2> QED BY <2>1 DEF Matched
<1>4. [ch \in {} |-> Match(ch, <<>>).stream] = <<>>
  OBVIOUS
<1> QED BY <1>1, <1>3, <1>4 DEF IndInv

THEOREM IndInvHolds == Spec => []IndInv
<1>1. ASSUME IndInv, Rebuild PROVE IndInv'
  <2>1. entries' \in Seq(Entry)
    BY <1>1 DEF Rebuild
  <2> QED BY <1>1, <2>1 DEF Rebuild, IndInv
<1>2. ASSUME IndInv, UNCHANGED vars PROVE IndInv'
  BY <1>2 DEF vars, IndInv
<1> QED BY <1>1, <1>2, InitInv, PTL DEF Spec

\* The rank of an entry by what the channel's tvg-id and its name find.
LEMMA RankIs ==
  ASSUME entries \in Seq(Entry), NEW ch \in Channels, NEW i \in DOMAIN entries
  PROVE  /\ Rank(ch, i) \in 0 .. 2
         /\ Rank(ch, i) = 0 <=> i \in Identified(ch, entries)
         /\ Rank(ch, i) = 1 <=> /\ i \notin Identified(ch, entries)
                                /\ i \in Named(ch, entries)
BY DEF Rank, Identified, SameID, ID, Named

(***************************************************************************)
(* For any lineup and entries in any number, the index and the fallback    *)
(* together pick the best entry for every channel, the first of several    *)
(* that are as good, and none for a channel that no entry can serve        *)
(* (match.go:34-52).                                                       *)
(***************************************************************************)
THEOREM BestMatched == Spec => []BestEntryMatched
<1>1. ASSUME IndInv PROVE BestEntryMatched
  <2> SUFFICES
        ASSUME NEW ch \in Channels
        PROVE  LET usable == {i \in DOMAIN entries : Rank(ch, i) < 2}
                   best == {i \in usable :
                              \A j \in usable :
                                Rank(ch, i) < Rank(ch, j)
                                  \/ (Rank(ch, i) = Rank(ch, j) /\ i <= j)}
               IN IF usable = {} THEN ch \notin DOMAIN streams
                  ELSE /\ ch \in DOMAIN streams
                       /\ \A i \in best : streams[ch] = entries[i].stream
    BY DEF BestEntryMatched
  <2> DEFINE usable == {i \in DOMAIN entries : Rank(ch, i) < 2}
             ids == Identified(ch, entries)
             names == Named(ch, entries)
  <2>1. entries \in Seq(Entry) /\ DOMAIN entries \in SUBSET Nat
        /\ DOMAIN entries = 1 .. Len(entries)
    BY <1>1 DEF IndInv
  <2>2. DOMAIN streams = Matched(entries)
        /\ (ch \in Matched(entries)
              => streams[ch] = Match(ch, entries).stream)
    BY <1>1 DEF IndInv
  <2>3. ids \subseteq DOMAIN entries /\ names \subseteq DOMAIN entries
    BY <2>1 DEF Identified, Named
  <2>4. usable = ids \cup names
    BY <2>1, <2>3, RankIs
  <2>5. ch \in Matched(entries) <=> usable # {}
    BY <2>1, <2>4, MatchedIs
  <2>6. ASSUME NEW i \in usable,
               \A j \in usable :
                 Rank(ch, i) < Rank(ch, j)
                   \/ (Rank(ch, i) = Rank(ch, j) /\ i <= j)
        PROVE  Match(ch, entries) = entries[i]
    <3> HIDE DEF ids, names, usable
    <3>0. i \in DOMAIN entries /\ i \in Nat
      BY <2>1, <2>3, <2>4
    <3>1. CASE ids # {}
      <4>1. First(ids) \in ids /\ \A j \in ids : First(ids) <= j
        BY <2>1, <2>3, <3>1, FirstIsLeast
      <4>2. First(ids) \in usable /\ Rank(ch, First(ids)) = 0
            /\ First(ids) \in Nat
        BY <2>1, <2>3, <2>4, <4>1, RankIs DEF ids
      <4>3. Rank(ch, i) = 0 /\ i <= First(ids)
        BY <2>1, <2>6, <3>0, <4>2, RankIs
      <4>4. i \in ids
        BY <2>1, <3>0, <4>3, RankIs DEF ids
      <4>5. i = First(ids)
        BY <3>0, <4>1, <4>2, <4>3, <4>4
      <4> QED BY <2>1, <3>1, <4>5, IDFindsFirst DEF ids
    <3>2. CASE ids = {}
      <4>1. names # {} /\ i \in names
        BY <2>4, <3>2
      <4>2. First(names) \in names /\ \A j \in names : First(names) <= j
        BY <2>1, <2>3, <4>1, FirstIsLeast
      <4>3. First(names) \in usable /\ First(names) \in Nat
        BY <2>1, <2>3, <2>4, <4>2
      <4>4. Rank(ch, First(names)) = 1 /\ Rank(ch, i) = 1
        BY <2>1, <2>3, <3>0, <3>2, <4>1, <4>2, RankIs DEF ids, names
      <4>5. i = First(names)
        BY <2>6, <3>0, <4>1, <4>2, <4>3, <4>4
      <4> QED BY <2>1, <3>2, <4>1, <4>5, NameFindsFirst DEF ids, names
    <3> QED BY <3>1, <3>2
  <2> QED BY <2>2, <2>5, <2>6
<1> QED BY <1>1, IndInvHolds, PTL

-----------------------------------------------------------------------------
(* Entries that come later.                                                 *)

\* The least of some numbers is the least of more, if those are not below it.
LEMMA FirstStays ==
  ASSUME NEW S \in SUBSET Nat, NEW T \in SUBSET Nat, NEW n \in Nat, S # {},
         \A i \in Nat : i <= n => (i \in S <=> i \in T),
         \A i \in S : i <= n
  PROVE  First(T) = First(S)
<1>1. First(S) \in S /\ \A i \in S : First(S) <= i
  BY FirstIsLeast
<1>2. First(S) \in T
  BY <1>1
<1>3. First(T) \in T /\ \A i \in T : First(T) <= i
  BY <1>2, FirstIsLeast
<1>4. First(S) \in Nat /\ First(T) \in Nat /\ First(S) <= n
  BY <1>1, <1>3
<1>5. First(T) <= First(S)
  BY <1>2, <1>3
<1>6. First(T) \in S
  BY <1>3, <1>4, <1>5
<1>7. First(S) <= First(T)
  BY <1>1, <1>6
<1> QED BY <1>4, <1>5, <1>7

\* What a channel has among some entries it has among those and later ones.
LEMMA LaterChangeNothing ==
  ASSUME NEW all \in Seq(Entry), NEW more \in Seq(Entry),
         IsPrefix(all, more), NEW ch \in Channels, ch \in Matched(all),
         HasID(ch, all) \/ ChannelID[ch] = Unset
  PROVE  ch \in Matched(more) /\ Match(ch, more) = Match(ch, all)
<1> DEFINE n == Len(all)
<1>1. /\ n \in Nat /\ Len(more) \in Nat /\ n <= Len(more)
      /\ \A i \in 1 .. n : more[i] = all[i]
  <2>1. n \in Nat /\ Len(more) \in Nat /\ n <= Len(more)
        /\ SubSeq(all, 1, n) = SubSeq(more, 1, n)
    BY DEF IsPrefix
  <2>2. \A i \in 1 .. n : SubSeq(all, 1, n)[i] = all[i]
                          /\ SubSeq(more, 1, n)[i] = more[i]
    BY <2>1
  <2> QED BY <2>1, <2>2
<1>2. CASE HasID(ch, all)
  <2> DEFINE S == Identified(ch, all)
             T == Identified(ch, more)
  <2>1. S \in SUBSET Nat /\ T \in SUBSET Nat /\ S # {}
        /\ (\A i \in S : i <= n)
        /\ \A i \in Nat : i <= n => (i \in S <=> i \in T)
    <3>1. S # {}
      BY <1>2, IDFindsFirst
    <3>2. \A i \in 1 .. n : i \in S <=> i \in T
      BY <1>1 DEF Identified
    <3>3. S \subseteq 1 .. n /\ T \subseteq Nat \ {0}
      BY <1>1 DEF Identified
    <3> HIDE DEF S, T
    <3> QED BY <1>1, <3>1, <3>2, <3>3
  <2> HIDE DEF S, T
  <2>2. First(T) = First(S)
    BY <1>1, <2>1, FirstStays
  <2>3. First(S) \in S
    BY <2>1, FirstIsLeast
  <2>4. First(S) \in 1 .. n /\ T # {}
    BY <1>1, <2>1, <2>3 DEF S, Identified
  <2>5. HasID(ch, more) /\ Match(ch, more) = more[First(T)]
    BY <2>4, IDFindsFirst DEF T
  <2>6. Match(ch, all) = all[First(S)]
    BY <1>2, IDFindsFirst DEF S
  <2> QED BY <1>1, <2>2, <2>4, <2>5, <2>6 DEF Matched
<1>3. CASE ~HasID(ch, all) /\ ChannelID[ch] = Unset
  <2> DEFINE S == Named(ch, all)
             T == Named(ch, more)
  <2>1. Identified(ch, all) = {} /\ Identified(ch, more) = {}
    BY <1>3 DEF Identified, SameID
  <2>2. S \in SUBSET Nat /\ T \in SUBSET Nat /\ S # {}
        /\ (\A i \in S : i <= n)
        /\ \A i \in Nat : i <= n => (i \in S <=> i \in T)
    BY <1>1, <1>3 DEF Named, Matched
  <2>3. First(S) \in S
    BY <2>2, FirstIsLeast
  <2>4. First(S) \in 1 .. n /\ T # {}
    <3>1. S \subseteq 1 .. n
      BY <1>1 DEF Named
    <3> HIDE DEF S, T
    <3> QED BY <1>1, <2>2, <2>3, <3>1
  <2>5. First(T) = First(S)
    <3> HIDE DEF S, T
    <3> QED BY <1>1, <2>2, FirstStays
  <2>6. Match(ch, more) = more[First(T)] /\ Match(ch, all) = all[First(S)]
    BY <2>1, <2>2, <2>4, NameFindsFirst
  <2>7. ch \in Matched(more)
    BY <2>4, MatchedIs
  <2> QED BY <1>1, <2>4, <2>5, <2>6, <2>7
<1> QED BY <1>2, <1>3

(***************************************************************************)
(* A refresh that only adds entries after the others leaves every channel  *)
(* the stream it has, when it has it by its tvg-id or has no tvg_id: no    *)
(* session of such a channel is replaced (session.go:112-118).             *)
(***************************************************************************)
THEOREM LaterTakeNothing == Spec => LaterEntriesTakeNothing
<1>1. ASSUME IndInv, IndInv', IsPrefix(entries, entries'),
             NEW ch \in DOMAIN streams,
             HasID(ch, entries) \/ ChannelID[ch] = Unset
      PROVE  ch \in DOMAIN streams' /\ streams'[ch] = streams[ch]
  <2>1. entries \in Seq(Entry) /\ entries' \in Seq(Entry)
    BY <1>1 DEF IndInv, Entry
  <2>2. /\ ch \in Channels /\ ch \in Matched(entries)
        /\ streams[ch] = Match(ch, entries).stream
    BY <1>1 DEF IndInv, Matched
  <2>3. streams' = [c \in Matched(entries') |-> Match(c, entries').stream]
    BY <1>1 DEF IndInv, Matched, Match, HasID, ByTvgID, Index, Named, First,
                NoEntry
  <2>4. ch \in Matched(entries') /\ Match(ch, entries') = Match(ch, entries)
    BY <1>1, <2>1, <2>2, LaterChangeNothing
  <2> QED BY <2>2, <2>3, <2>4
<1>2. IndInv /\ IndInv' =>
        (IsPrefix(entries, entries')
           => \A ch \in DOMAIN streams :
                HasID(ch, entries) \/ ChannelID[ch] = Unset
                  => ch \in DOMAIN streams' /\ streams'[ch] = streams[ch])
  BY <1>1
<1> QED BY <1>2, IndInvHolds, PTL DEF LaterEntriesTakeNothing
=============================================================================
