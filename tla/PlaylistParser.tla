--------------------------- MODULE PlaylistParser ---------------------------
(***************************************************************************)
(* playlist.Parse: the automaton that pairs the #EXTINF lines of an M3U    *)
(* playlist with the URL lines that follow them, and collects the request  *)
(* headers of #EXTVLCOPT lines and of URL suffixes.                        *)
(*                                                                         *)
(* A line is abstracted to what Parse tells apart; an attribute, a URL or  *)
(* a header's value is abstracted to the number of the line it comes from. *)
(* Blank lines and comments are of kind "other".                           *)
(***************************************************************************)
EXTENDS Integers, Sequences

CONSTANTS
  Headers,    \* the HTTP headers that occur
  OptHeaders, \* vlcOptHeaders: those an #EXTVLCOPT line may set
  MaxLines    \* model bound: lines of a playlist

ASSUME HeadersAssumption == OptHeaders \subseteq Headers
ASSUME MaxLinesAssumption == MaxLines \in Nat

VARIABLES
  text,           \* the playlist
  isM3U,          \* it contains #EXTM3U
  isHLS,          \* it contains a tag of an HLS media playlist
  phase,          \* where Parse is
  pos,            \* the line to be scanned next
  haveExtinf,     \* as in the code
  pendingExtinf,  \* the #EXTINF line that waits for a URL, or None
  pendingHeaders, \* the line that has set each header, or None
  entries         \* what Parse will return

input == <<text, isM3U, isHLS>>
pending == <<haveExtinf, pendingExtinf, pendingHeaders>>
vars == <<input, phase, pos, pending, entries>>

None == 0
NoHeaders == [h \in Headers |-> None]

\* What matters of a line: whether an #EXTINF line names the channel, after
\* its comma or in tvg-name, and which headers an option or a suffix sets.
Line == [kind : {"extinf", "option", "url", "other", "long"},
         named : BOOLEAN, sets : SUBSET Headers]

Extinf(b) == [kind |-> "extinf", named |-> b, sets |-> {}]
Option(hs) == [kind |-> "option", named |-> FALSE, sets |-> hs]
URL(hs) == [kind |-> "url", named |-> FALSE, sets |-> hs]
Plain(k) == [kind |-> k, named |-> FALSE, sets |-> {}]

\* The lines of playlists: an option sets one header or, ignored, none; a line
\* of kind "long" exceeds the scanner's buffer.
Lines ==
  {Extinf(b) : b \in BOOLEAN}
    \cup {Option({h}) : h \in OptHeaders} \cup {Option({})}
    \cup {URL(hs) : hs \in SUBSET Headers}
    \cup {Plain("other"), Plain("long")}

Init ==
  /\ \E n \in 0 .. MaxLines : text \in [1 .. n -> Lines]
  /\ isM3U \in BOOLEAN /\ isHLS \in BOOLEAN
  /\ phase = "start"
  /\ pos = 1
  /\ haveExtinf = FALSE
  /\ pendingExtinf = None
  /\ pendingHeaders = NoHeaders
  /\ entries = <<>>

-----------------------------------------------------------------------------

\* The two checks before the scan.
Reject ==
  /\ phase = "start"
  /\ isHLS \/ ~isM3U
  /\ phase' = "failed"
  /\ UNCHANGED <<input, pos, pending, entries>>

Accept ==
  /\ phase = "start"
  /\ isM3U /\ ~isHLS
  /\ phase' = "scan"
  /\ UNCHANGED <<input, pos, pending, entries>>

\* scanner.Scan returns a line of kind k.
Scans(k) ==
  /\ phase = "scan"
  /\ pos <= Len(text)
  /\ text[pos].kind = k
  /\ pos' = pos + 1
  /\ UNCHANGED <<input, phase>>

\* Mutant: headers that were collected before stay.
HeadersAtExtinf_Kept == pendingHeaders

HeadersAtExtinf == NoHeaders

ReadExtinf ==
  /\ Scans("extinf")
  /\ pendingExtinf' = pos
  /\ pendingHeaders' = HeadersAtExtinf
  /\ haveExtinf' = TRUE
  /\ UNCHANGED entries

\* The lines that have set the headers, once line n has set those in hs.
Set(headers, hs, n) ==
  [h \in Headers |-> IF h \in hs THEN n ELSE headers[h]]

ReadOption ==
  /\ Scans("option")
  /\ pendingHeaders' = Set(pendingHeaders, text[pos].sets, pos)
  /\ UNCHANGED <<haveExtinf, pendingExtinf, entries>>

ReadOther ==
  /\ Scans("other")
  /\ UNCHANGED <<pending, entries>>

\* parseEntry with the suffix of the URL, which wins over the options.
ParsedEntry ==
  [extinf |-> pendingExtinf, url |-> pos,
   headers |-> Set(pendingHeaders, text[pos].sets, pos)]

ReadURL ==
  /\ Scans("url")
  /\ haveExtinf
  /\ entries' = IF text[pendingExtinf].named THEN Append(entries, ParsedEntry)
                ELSE entries
  /\ haveExtinf' = FALSE
  /\ pendingExtinf' = None
  /\ pendingHeaders' = NoHeaders

\* A URL without an #EXTINF line is ignored.
ReadStrayURL ==
  /\ Scans("url")
  /\ ~haveExtinf
  /\ UNCHANGED <<pending, entries>>

\* The scanner stops at a line it has no room for; Parse returns its error.
TooLong ==
  /\ phase = "scan"
  /\ pos <= Len(text)
  /\ text[pos].kind = "long"
  /\ phase' = "failed"
  /\ entries' = <<>>
  /\ UNCHANGED <<input, pos, pending>>

Finish ==
  /\ phase = "scan"
  /\ pos > Len(text)
  /\ phase' = "done"
  /\ UNCHANGED <<input, pos, pending, entries>>

Returned == phase \in {"failed", "done"} /\ UNCHANGED vars

Next ==
  \/ Reject \/ Accept
  \/ ReadExtinf \/ ReadOption \/ ReadOther \/ ReadURL \/ ReadStrayURL
  \/ TooLong \/ Finish
  \/ Returned

Spec == Init /\ [][Next]_vars

-----------------------------------------------------------------------------
(* Properties.                                                              *)

Position == 0 .. Len(text)
Entry == [extinf : Position, url : Position, headers : [Headers -> Position]]

TypeOK ==
  /\ text \in Seq(Line)
  /\ isM3U \in BOOLEAN /\ isHLS \in BOOLEAN
  /\ phase \in {"start", "scan", "failed", "done"}
  /\ pos \in 1 .. Len(text) + 1
  /\ haveExtinf \in BOOLEAN
  /\ pendingExtinf \in Position
  /\ pendingHeaders \in [Headers -> Position]
  /\ entries \in Seq(Entry)

\* Line e is the #EXTINF line that a URL in line u belongs to.
BelongsTo(e, u) ==
  /\ e \in 1 .. u - 1
  /\ text[e].kind = "extinf"
  /\ \A k \in e + 1 .. u - 1 : text[k].kind \notin {"extinf", "url"}

\* Of the options between lines e and u, k is the last that sets h.
LastOption(e, u, h, k) ==
  IF k = None
  THEN \A m \in e + 1 .. u - 1 : text[m].kind = "option" => h \notin text[m].sets
  ELSE /\ k \in e + 1 .. u - 1
       /\ text[k].kind = "option" /\ h \in text[k].sets
       /\ \A m \in k + 1 .. u - 1 :
            text[m].kind = "option" => h \notin text[m].sets

\* Entry x is what its two lines, and the options between them, say.
AsDeclared(x) ==
  /\ text[x.url].kind = "url"
  /\ BelongsTo(x.extinf, x.url)
  /\ text[x.extinf].named
  /\ \A h \in Headers :
       IF h \in text[x.url].sets THEN x.headers[h] = x.url
       ELSE LastOption(x.extinf, x.url, h, x.headers[h])

\* Every entry is as its lines, which have been read, declare it.
EntriesAreSound ==
  \A i \in 1 .. Len(entries) :
    entries[i].url \in 1 .. pos - 1 /\ AsDeclared(entries[i])

EntriesAreOrdered ==
  \A i \in 1 .. Len(entries), j \in 1 .. Len(entries) :
    i < j => entries[i].url < entries[j].url

\* No entry that the lines read so far declare is missing.
EntriesAreComplete ==
  \A u \in 1 .. pos - 1, e \in 1 .. pos - 1 :
    text[u].kind = "url" /\ BelongsTo(e, u) /\ text[e].named
      => \E i \in 1 .. Len(entries) : entries[i].url = u

(***************************************************************************)
(* The entries are those the playlist declares, in its order: a URL and    *)
(* the nearest #EXTINF line above it, if no other URL has used that and it *)
(* names the channel, with the headers of the options between the two,     *)
(* where a later option wins over an earlier and the suffix over both.     *)
(* Nothing leaks from an entry that is skipped, from an #EXTINF line       *)
(* without a URL, or from a URL without an #EXTINF line, and no entry is   *)
(* lost to them (Parse, parser.go:22-25, 48-80; splitURLHeaders, 151-154). *)
(***************************************************************************)
EntriesAreAsDeclared ==
  phase \in {"scan", "done"} =>
    EntriesAreSound /\ EntriesAreOrdered /\ EntriesAreComplete

=============================================================================
