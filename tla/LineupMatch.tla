---------------------------- MODULE LineupMatch ----------------------------
(***************************************************************************)
(* internal/lineup's match of the configured channels against the merged   *)
(* playlist entries (match.go, Lineup.Rebuild).  PlaylistRefresh says when *)
(* it is computed and published, this module what it computes.             *)
(*                                                                         *)
(* An entry is its tvg-id as it is spelled, the name_match strings that    *)
(* its name or its tvg-name contains when case is ignored, and its stream  *)
(* (URL and headers).                                                      *)
(***************************************************************************)
EXTENDS Naturals, SequencesExt

CONSTANTS
  Channels,   \* the configured channel numbers
  ChannelID,  \* the tvg_id of each, as it is spelled
  NameMatch,  \* the name_match of each
  Spellings,  \* tvg-ids as they are spelled
  Normalize,  \* normalizeTvgID of each spelling
  Needles,    \* name_match strings
  Streams,    \* upstream URLs with their headers
  Unset,      \* the empty string
  MaxEntries  \* model bound: entries of the merged playlists

ASSUME ChannelsAssumption ==
  /\ ChannelID \in [Channels -> Spellings \cup {Unset}]
  /\ NameMatch \in [Channels -> Needles \cup {Unset}]
  /\ DOMAIN Normalize = Spellings
  /\ Unset \notin Spellings \cup Needles \cup Streams
  /\ MaxEntries \in Nat

VARIABLES
  entries, \* the entries Rebuild was called with
  streams  \* Snapshot.Streams, the match it has published

vars == <<entries, streams>>

Entry == [tvgID : Spellings \cup {Unset}, mentions : SUBSET Needles,
          stream : Streams]

\* playlist.Entry{}, what matchChannel returns with ok = false.
NoEntry == [tvgID |-> Unset, mentions |-> {}, stream |-> Unset]

-----------------------------------------------------------------------------

\* byTvgID[id] = e.
Assigned(byTvgID, id, e) ==
  [i \in DOMAIN byTvgID \cup {id} |-> IF i = id THEN e ELSE byTvgID[i]]

\* Mutant: the last of several entries with a tvg-id wins.
Indexed_Last(byTvgID, e) ==
  IF e.tvgID = Unset THEN byTvgID
  ELSE Assigned(byTvgID, Normalize[e.tvgID], e)

\* One iteration of buildMatchIndex: the first entry with a tvg-id wins.
Indexed(byTvgID, e) ==
  IF e.tvgID = Unset \/ Normalize[e.tvgID] \in DOMAIN byTvgID THEN byTvgID
  ELSE Assigned(byTvgID, Normalize[e.tvgID], e)

\* The index after each iteration.
Index(all) ==
  LET index[i \in 0 .. Len(all)] ==
        IF i = 0 THEN <<>> ELSE Indexed(index[i - 1], all[i])
  IN index

\* matchIndex.byTvgID.
ByTvgID(all) == Index(all)[Len(all)]

\* The channel's tvg_id finds an entry.
HasID(ch, all) ==
  ChannelID[ch] # Unset /\ Normalize[ChannelID[ch]] \in DOMAIN ByTvgID(all)

\* The positions of the entries the channel's name_match finds.
Named(ch, all) == {i \in DOMAIN all : NameMatch[ch] \in all[i].mentions}

First(positions) == CHOOSE i \in positions : \A j \in positions : i <= j

\* matchChannel.
Match(ch, all) ==
  IF HasID(ch, all) THEN ByTvgID(all)[Normalize[ChannelID[ch]]]
  ELSE IF Named(ch, all) # {} THEN all[First(Named(ch, all))]
  ELSE NoEntry

\* The channels for which matchChannel returns ok.
Matched(all) == {ch \in Channels : HasID(ch, all) \/ Named(ch, all) # {}}

-----------------------------------------------------------------------------

\* New: no match before the first Rebuild.
Init == entries = <<>> /\ streams = <<>>

Rebuild ==
  /\ \E n \in 0 .. MaxEntries : entries' \in [1 .. n -> Entry]
  /\ streams' = [ch \in Matched(entries') |-> Match(ch, entries').stream]

Spec == Init /\ [][Rebuild]_vars

-----------------------------------------------------------------------------
(* Properties.                                                              *)

\* How good entry i is for a channel: 0, the same tvg-id; 1, the name; 2, not.
Rank(ch, i) ==
  IF ChannelID[ch] # Unset /\ entries[i].tvgID # Unset
       /\ Normalize[ChannelID[ch]] = Normalize[entries[i].tvgID] THEN 0
  ELSE IF NameMatch[ch] \in entries[i].mentions THEN 1
  ELSE 2

(***************************************************************************)
(* The index and the fallback together pick the best entry: the first of   *)
(* those with the channel's tvg-id in any case, or else the first that has *)
(* its name; a channel without either has no stream (matchChannel,         *)
(* match.go:34-52, over the index of 17-32).                               *)
(***************************************************************************)
BestEntryMatched ==
  \A ch \in Channels :
    LET usable == {i \in DOMAIN entries : Rank(ch, i) < 2}
        best == {i \in usable :
                   \A j \in usable :
                     Rank(ch, i) < Rank(ch, j)
                       \/ (Rank(ch, i) = Rank(ch, j) /\ i <= j)}
    IN IF usable = {} THEN ch \notin DOMAIN streams
       ELSE /\ ch \in DOMAIN streams
            /\ \A i \in best : streams[ch] = entries[i].stream

(***************************************************************************)
(* Entries that come after the others, of a source configured later, take  *)
(* no channel away from an entry that has its tvg-id, nor from the one a   *)
(* channel without tvg_id has by name, so that no session on it is         *)
(* replaced (session.go:112-118).                                          *)
(***************************************************************************)
LaterEntriesTakeNothing ==
  [][IsPrefix(entries, entries') =>
       \A ch \in DOMAIN streams :
         HasID(ch, entries) \/ ChannelID[ch] = Unset
           => ch \in DOMAIN streams' /\ streams'[ch] = streams[ch]]_vars

=============================================================================
