----------------------------- MODULE GuideFiller -----------------------------
(***************************************************************************)
(* The schedule of one channel in /guide.xml: BuildChannelProgrammes of    *)
(* internal/guide, which clips the channel's programmes to the guide       *)
(* window, drops overlapping ones and fills the gaps, on every request.    *)
(*                                                                         *)
(* Times are integers, Second of which make a second: now has a fraction,  *)
(* an XMLTV timestamp has none.  The index is the set of the channel's     *)
(* programmes; what a programme says beside its times is left out, so that *)
(* two of the same times are one.                                          *)
(***************************************************************************)
EXTENDS Integers, SequencesExt

CONSTANTS
  Second,         \* units of time in a second
  Lookback,       \* GuideLookback
  Lookahead,      \* GuideLookahead
  MaxFillerBlock, \* MaxFillerBlockDuration
  Malformed,      \* a timestamp that does not parse
  Timestamps,     \* model bound: the times the programmes start and stop at
  MaxProgrammes,  \* model bound: programmes of the channel
  Nows            \* model bound: the times /guide.xml is requested at

ASSUME TimesAssumption ==
  /\ Second \in Nat \ {0}
  /\ \A d \in {Lookback, Lookahead, MaxFillerBlock} :
       d \in Nat \ {0} /\ d % Second = 0
  /\ Timestamps \subseteq Nat /\ Nows \subseteq Nat
  /\ \A t \in Timestamps : t % Second = 0
  /\ \A t \in Nows : t >= Lookback
  /\ MaxProgrammes \in Nat

VARIABLES
  index, \* ProgrammesByChannelID[tvgID]
  now,   \* time.Now() of the request
  guide  \* the channel's programmes in the answer

vars == <<index, now, guide>>

WindowStart == now - Lookback
WindowEnd == now + Lookahead

\* What a time has become once it is written with FormatTime and read again.
Formatted(t) == t - (t % Second)

\* An entry of the guide and the programme it shows; a filler block shows none.
Entry(start, stop, shows) ==
  [start |-> Formatted(start), stop |-> Formatted(stop), shows |-> shows]

-----------------------------------------------------------------------------
(* clipToWindow.                                                            *)

Parses(p) == p.start # Malformed /\ p.stop # Malformed

ClippedStart(p) == IF p.start < WindowStart THEN WindowStart ELSE p.start
ClippedStop(p) == IF p.stop > WindowEnd THEN WindowEnd ELSE p.stop

\* Mutant: a programme that ends before it starts is kept.
Airs_Backwards(p) ==
  Parses(p) /\ p.stop > WindowStart /\ p.start < WindowEnd

\* The programmes that are not skipped.
Airs(p) ==
  /\ Parses(p)
  /\ p.stop > WindowStart /\ p.start < WindowEnd
  /\ ClippedStart(p) < ClippedStop(p)

Clipped ==
  {Entry(ClippedStart(p), ClippedStop(p), {p}) : p \in {q \in index : Airs(q)}}

\* The orders sort.Slice, which is not stable, may leave the entries in.
Sorted ==
  {s \in SetToSeqs(Clipped) :
     \A i \in 1 .. Len(s) - 1 : s[i].start <= s[i + 1].start}

\* Mutant: an entry that starts where the one before it stops is dropped.
Overlaps_Adjacent(kept, e) == kept # <<>> /\ e.start <= Last(kept).stop

\* e starts before the last entry that was kept has stopped.
Overlaps(kept, e) == kept # <<>> /\ e.start < Last(kept).stop

\* One iteration of the loop over the sorted entries.
Keep(kept, e) == IF Overlaps(kept, e) THEN kept ELSE Append(kept, e)

\* What has been kept after each iteration.
Kept(s) ==
  LET kept[i \in 0 .. Len(s)] ==
        IF i = 0 THEN <<>> ELSE Keep(kept[i - 1], s[i])
  IN kept

\* The sorted entries without the overlapping ones.
Dedup(s) == Kept(s)[Len(s)]

-----------------------------------------------------------------------------
(* fillerBlocks and the loop of BuildChannelProgrammes.                     *)

\* Mutant: a gap is one block, however long.
BlockLength_Whole(start, stop) == stop - start

\* The length of the blocks a gap is split into, but for the last.
BlockLength(start, stop) == MaxFillerBlock

FillerBlocks(start, stop) ==
  LET step == BlockLength(start, stop)
  IN [k \in 1 .. (stop - start + step - 1) \div step |->
        Entry(start + (k - 1) * step,
              IF start + k * step > stop THEN stop ELSE start + k * step,
              {})]

\* The filler before time t; nothing if t is not after the cursor.
Gap(cursor, t) == IF t > cursor THEN FillerBlocks(cursor, t) ELSE <<>>

\* Mutant: the cursor stays where it is.
Advanced_Never(cursor, t) == cursor

\* The cursor after a programme that stops at t.
Advanced(cursor, t) == IF t > cursor THEN t ELSE cursor

\* One iteration of the loop over the clipped entries.
Place(acc, e) ==
  [out |-> acc.out \o Gap(acc.cursor, e.start) \o <<e>>,
   cursor |-> Advanced(acc.cursor, e.stop)]

\* The entries and the cursor after each iteration.
Placed(d) ==
  LET placed[i \in 0 .. Len(d)] ==
        IF i = 0 THEN [out |-> <<>>, cursor |-> WindowStart]
        ELSE Place(placed[i - 1], d[i])
  IN placed

\* The programmes and the filler around them, up to the end of the window.
Laid(d) ==
  LET end == Placed(d)[Len(d)] IN end.out \o Gap(end.cursor, WindowEnd)

\* BuildChannelProgrammes for one order of the clipped entries.
Build(s) == Laid(Dedup(s))

-----------------------------------------------------------------------------

Times == Timestamps \cup {Malformed}
Programmes == [start : Times, stop : Times]

\* Whatever the guide sources say of the channel, and whenever it is asked for.
Init ==
  /\ \E n \in 0 .. MaxProgrammes :
       \E s \in [1 .. n -> Programmes] : index = {s[i] : i \in 1 .. n}
  /\ now \in Nows
  /\ guide = <<>>

\* A request for /guide.xml.
Serve ==
  /\ \E s \in Sorted : guide' = Build(s)
  /\ UNCHANGED <<index, now>>

Spec == Init /\ [][Serve]_vars

-----------------------------------------------------------------------------
(* Properties.                                                              *)

Served == guide # <<>>
Shown == {guide[k] : k \in DOMAIN guide}

(***************************************************************************)
(* The guide holds whole seconds, and no programme that stops before it    *)
(* starts.                                                                 *)
(***************************************************************************)
TypeOK ==
  /\ now \in Nat
  /\ \A e \in Shown :
       /\ e.start % Second = 0 /\ e.stop % Second = 0
       /\ e.start <= e.stop
       /\ e.shows \subseteq index

(***************************************************************************)
(* "The full sequence of <programme> entries for one channel slot,         *)
(* covering [now-GuideLookback, now+GuideLookahead]" (filler.go:26-28):    *)
(* whatever the sources say, overlapping, malformed and clipped programmes *)
(* included, the guide starts and ends with the window, to the second, and *)
(* every entry starts where the one before it stops.                       *)
(***************************************************************************)
GuideCoversWindow ==
  Served =>
    /\ guide[1].start = Formatted(WindowStart)
    /\ Last(guide).stop = Formatted(WindowEnd)
    /\ \A k \in 1 .. Len(guide) - 1 : guide[k].stop = guide[k + 1].start

(***************************************************************************)
(* Filler comes in blocks of MaxFillerBlockDuration at most, and a short   *)
(* block ends its gap: it is followed by a programme or by nothing         *)
(* (filler.go:18-20, 124-147).                                             *)
(***************************************************************************)
FillerIsSplitEvenly ==
  \A k \in DOMAIN guide :
    guide[k].shows = {} =>
      /\ guide[k].stop - guide[k].start <= MaxFillerBlock
      /\ guide[k].stop - guide[k].start < MaxFillerBlock /\ k < Len(guide)
           => guide[k + 1].shows # {}

(***************************************************************************)
(* No programme is lost without a reason: one that airs in the window is   *)
(* shown, unless a programme that is shown is still on when it starts      *)
(* ("entries that start before the previous (sorted) entry's stop",        *)
(* filler.go:107-119).                                                     *)
(***************************************************************************)
AiringProgrammesAreShown ==
  Served =>
    \A c \in Clipped :
      \/ c \in Shown
      \/ \E e \in Shown :
           e.shows # {} /\ e.start <= c.start /\ c.start < e.stop

=============================================================================
