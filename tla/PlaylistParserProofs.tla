------------------------ MODULE PlaylistParserProofs ------------------------
(***************************************************************************)
(* Proofs about PlaylistParser: for playlists of any length and any set of *)
(* headers, what Parse returns is what the playlist declares.              *)
(***************************************************************************)
EXTENDS PlaylistParser, TLAPS

\* What is pending is the last #EXTINF line, if no URL line follows it, with
\* the options that follow it; otherwise there is no such line.
PendingIsLast ==
  /\ haveExtinf => /\ BelongsTo(pendingExtinf, pos)
                   /\ \A h \in Headers :
                        LastOption(pendingExtinf, pos, h, pendingHeaders[h])
  /\ ~haveExtinf => \A e \in 1 .. pos - 1 : ~BelongsTo(e, pos)

\* Before the scan there are neither lines read nor entries.
Declared ==
  phase # "failed" =>
    EntriesAreSound /\ EntriesAreOrdered /\ EntriesAreComplete

IndInv == PendingIsLast /\ Declared

-----------------------------------------------------------------------------

(***************************************************************************)
(* The state variables stay within their types (Parse, parser.go:34-88).   *)
(***************************************************************************)
THEOREM TypeCorrect == Spec => []TypeOK
<1>1. Init => TypeOK
  <2> SUFFICES ASSUME Init PROVE TypeOK
    OBVIOUS
  <2>1. text \in Seq(Line)
    <3>1. PICK n \in 0 .. MaxLines : text \in [1 .. n -> Lines]
      BY DEF Init
    <3>2. ASSUME NEW l \in Lines PROVE l \in Line
      <4>1. CASE \E b \in BOOLEAN : l = Extinf(b)
        BY <4>1 DEF Line, Extinf
      <4>2. CASE \E h \in OptHeaders : l = Option({h})
        BY <4>2, HeadersAssumption DEF Line, Option
      <4>3. CASE l = Option({})
        BY <4>3 DEF Line, Option
      <4>4. CASE \E hs \in SUBSET Headers : l = URL(hs)
        BY <4>4 DEF Line, URL
      <4>5. CASE l = Plain("other")
        BY <4>5 DEF Line, Plain
      <4>6. CASE l = Plain("long")
        BY <4>6 DEF Line, Plain
      <4> QED
        BY <4>1, <4>2, <4>3, <4>4, <4>5, <4>6 DEF Lines
    <3>3. text \in Seq(Lines)
      BY <3>1, MaxLinesAssumption
    <3> QED
      BY <3>2, <3>3
  <2>2. pendingHeaders \in [Headers -> Position]
    BY <2>1 DEF Init, NoHeaders, None, Position
  <2>3. pos \in 1 .. Len(text) + 1 /\ pendingExtinf \in Position
    BY <2>1 DEF Init, None, Position
  <2>4. entries \in Seq(Entry)
    BY DEF Init
  <2>5. isM3U \in BOOLEAN /\ isHLS \in BOOLEAN /\ haveExtinf \in BOOLEAN
    BY DEF Init
  <2> QED
    BY <2>1, <2>2, <2>3, <2>4, <2>5, Zenon DEF Init, TypeOK
<1>2. TypeOK /\ [Next]_vars => TypeOK'
  <2> SUFFICES ASSUME TypeOK, [Next]_vars PROVE TypeOK'
    OBVIOUS
  <2> USE DEF TypeOK, Position, Entry, None, input, pending
  <2>1. ASSUME Reject PROVE TypeOK'
    BY <2>1 DEF Reject
  <2>2. ASSUME Accept PROVE TypeOK'
    BY <2>2 DEF Accept
  <2>3. ASSUME ReadExtinf PROVE TypeOK'
    BY <2>3 DEF ReadExtinf, Scans, HeadersAtExtinf, NoHeaders
  <2>4. ASSUME ReadOption PROVE TypeOK'
    BY <2>4 DEF ReadOption, Scans, Set
  <2>5. ASSUME ReadOther PROVE TypeOK'
    BY <2>5 DEF ReadOther, Scans
  <2>6. ASSUME ReadURL PROVE TypeOK'
    <3>1. ParsedEntry \in Entry
      BY <2>6 DEF ReadURL, Scans, ParsedEntry, Set
    <3>2. Entry' = Entry
      BY <2>6 DEF ReadURL, Scans
    <3> HIDE DEF Entry
    <3>3. entries' \in Seq(Entry)
      BY <2>6, <3>1 DEF ReadURL
    <3>4. /\ pos' \in 1 .. Len(text') + 1
          /\ pendingExtinf' \in Position'
          /\ pendingHeaders' \in [Headers -> Position']
      BY <2>6 DEF ReadURL, Scans, NoHeaders
    <3> QED
      BY <2>6, <3>2, <3>3, <3>4 DEF ReadURL, Scans
  <2>7. ASSUME ReadStrayURL PROVE TypeOK'
    BY <2>7 DEF ReadStrayURL, Scans
  <2>8. ASSUME TooLong PROVE TypeOK'
    BY <2>8 DEF TooLong
  <2>9. ASSUME Finish PROVE TypeOK'
    BY <2>9 DEF Finish
  <2>10. ASSUME UNCHANGED vars PROVE TypeOK'
    BY <2>10 DEF vars
  <2> QED
    BY <2>1, <2>2, <2>3, <2>4, <2>5, <2>6, <2>7, <2>8, <2>9, <2>10
    DEF Next, Returned
<1> QED
  BY <1>1, <1>2, PTL DEF Spec

-----------------------------------------------------------------------------
(* The two scans that the invariant quantifies over, one line further.      *)

\* Which #EXTINF line is pending after the line at pos (parser.go:48-80).
LEMMA BelongsNext ==
  ASSUME TypeOK, pos <= Len(text), NEW e \in 1 .. pos
  PROVE  BelongsTo(e, pos + 1) <=>
           IF text[pos].kind = "extinf" THEN e = pos
           ELSE e < pos /\ text[pos].kind # "url" /\ BelongsTo(e, pos)
<1>1. pos \in Nat /\ pos >= 1
  BY DEF TypeOK
<1>2. ASSUME e < pos
      PROVE  BelongsTo(e, pos + 1) <=>
               /\ text[pos].kind \notin {"extinf", "url"}
               /\ BelongsTo(e, pos)
  BY <1>1, <1>2 DEF BelongsTo
<1>3. ASSUME e = pos
      PROVE  BelongsTo(e, pos + 1) <=> text[pos].kind = "extinf"
  BY <1>1, <1>3 DEF BelongsTo
<1> QED
  BY <1>1, <1>2, <1>3

\* An option that sets h is the last one; any other line changes nothing.
LEMMA LastOptionNext ==
  ASSUME TypeOK, pos <= Len(text), NEW e \in 1 .. pos - 1, NEW h \in Headers,
         NEW k \in Position, LastOption(e, pos, h, k)
  PROVE  LastOption(e, pos + 1, h,
                    IF text[pos].kind = "option" /\ h \in text[pos].sets
                    THEN pos ELSE k)
<1>1. pos \in Nat /\ pos >= 1
  BY DEF TypeOK
<1>2. CASE text[pos].kind = "option" /\ h \in text[pos].sets
  BY <1>1, <1>2 DEF LastOption, None
<1>3. CASE ~(text[pos].kind = "option" /\ h \in text[pos].sets)
  BY <1>1, <1>3 DEF LastOption, None, Position
<1> QED
  BY <1>2, <1>3

-----------------------------------------------------------------------------

LEMMA PendingStep ==
  ASSUME TypeOK, TypeOK', PendingIsLast, [Next]_vars
  PROVE  PendingIsLast'
<1>1. pos \in Nat /\ pos >= 1 /\ pos <= Len(text) + 1 /\ Len(text) \in Nat
  BY DEF TypeOK
<1>2. ASSUME UNCHANGED <<text, pos, pending>> PROVE PendingIsLast'
  BY <1>2 DEF PendingIsLast, BelongsTo, LastOption, pending
<1>3. ASSUME ReadExtinf PROVE PendingIsLast'
  <2>1. pos' = pos + 1 /\ pendingExtinf' = pos /\ haveExtinf' /\ text' = text
    BY <1>3 DEF ReadExtinf, Scans, input
  <2>2. BelongsTo(pos, pos + 1)
    BY <1>1, <1>3, BelongsNext DEF ReadExtinf, Scans
  <2>3. \A h \in Headers : LastOption(pos, pos + 1, h, None)
    BY <1>1 DEF LastOption
  <2>4. \A h \in Headers : pendingHeaders'[h] = None
    BY <1>3 DEF ReadExtinf, HeadersAtExtinf, NoHeaders
  <2>5. BelongsTo(pendingExtinf, pos)'
    BY <2>1, <2>2 DEF BelongsTo
  <2>6. \A h \in Headers :
          LastOption(pendingExtinf, pos, h, pendingHeaders[h])'
    BY <2>1, <2>3, <2>4 DEF LastOption
  <2> QED
    BY <2>1, <2>5, <2>6 DEF PendingIsLast
<1>4. ASSUME ReadOption \/ ReadOther PROVE PendingIsLast'
  <2>1. /\ pos' = pos + 1 /\ text' = text /\ pos <= Len(text)
        /\ haveExtinf' = haveExtinf /\ pendingExtinf' = pendingExtinf
        /\ text[pos].kind \notin {"extinf", "url"}
    BY <1>4 DEF ReadOption, ReadOther, Scans, input, pending
  <2>2. \A h \in Headers :
          pendingHeaders'[h]
            = IF text[pos].kind = "option" /\ h \in text[pos].sets THEN pos
              ELSE pendingHeaders[h]
    BY <1>4 DEF ReadOption, ReadOther, Scans, Set, pending, TypeOK
  <2>3. ASSUME haveExtinf
        PROVE  /\ BelongsTo(pendingExtinf, pos)'
               /\ \A h \in Headers :
                    LastOption(pendingExtinf, pos, h, pendingHeaders[h])'
    <3>1. BelongsTo(pendingExtinf, pos) /\ pendingExtinf \in 1 .. pos - 1
      BY <2>3 DEF PendingIsLast, BelongsTo
    <3>2. BelongsTo(pendingExtinf, pos + 1)
      BY <1>1, <2>1, <3>1, BelongsNext
    <3>3. ASSUME NEW h \in Headers
          PROVE  LastOption(pendingExtinf, pos + 1, h, pendingHeaders'[h])
      <4>1. LastOption(pendingExtinf, pos, h, pendingHeaders[h])
        BY <2>3 DEF PendingIsLast
      <4>2. pendingHeaders[h] \in Position
        BY DEF TypeOK
      <4> QED
        BY <2>1, <2>2, <3>1, <4>1, <4>2, LastOptionNext
    <3> QED
      BY <2>1, <3>2, <3>3 DEF BelongsTo, LastOption
  <2>4. ASSUME ~haveExtinf, NEW e \in 1 .. pos PROVE ~BelongsTo(e, pos + 1)
    BY <1>1, <2>1, <2>4, BelongsNext DEF PendingIsLast
  <2>5. ~haveExtinf => \A e \in 1 .. pos' - 1 : ~BelongsTo(e, pos)'
    BY <1>1, <2>1, <2>4 DEF BelongsTo
  <2> QED
    BY <2>1, <2>3, <2>5 DEF PendingIsLast
<1>5. ASSUME ReadURL \/ ReadStrayURL PROVE PendingIsLast'
  <2>1. /\ pos' = pos + 1 /\ text' = text /\ pos <= Len(text)
        /\ ~haveExtinf' /\ text[pos].kind = "url"
    BY <1>5 DEF ReadURL, ReadStrayURL, Scans, input, pending
  <2>2. \A e \in 1 .. pos : ~BelongsTo(e, pos + 1)
    BY <1>1, <2>1, BelongsNext
  <2>3. \A e \in 1 .. pos' - 1 : ~BelongsTo(e, pos)'
    BY <1>1, <2>1, <2>2 DEF BelongsTo
  <2> QED
    BY <2>1, <2>3 DEF PendingIsLast
<1>6. ASSUME Reject \/ Accept \/ TooLong \/ Finish \/ UNCHANGED vars
      PROVE  UNCHANGED <<text, pos, pending>>
  BY <1>6 DEF Reject, Accept, TooLong, Finish, vars, input, pending
<1> QED
  BY <1>2, <1>3, <1>4, <1>5, <1>6 DEF Next, Returned

-----------------------------------------------------------------------------

\* A step that reads no line keeps the entries sound and complete.
LEMMA DeclaredPause ==
  ASSUME TypeOK, Declared, phase # "failed", UNCHANGED <<text, pos, entries>>
  PROVE  Declared'
BY DEF Declared, EntriesAreSound, EntriesAreOrdered, EntriesAreComplete,
       AsDeclared, BelongsTo, LastOption

\* A line that yields no entry does so if it is no URL, or one without an
\* #EXTINF line that names the channel.
LEMMA DeclaredSkip ==
  ASSUME TypeOK, Declared, phase # "failed",
         UNCHANGED <<text, entries>>, pos <= Len(text), pos' = pos + 1,
         \A e \in 1 .. pos - 1 :
           BelongsTo(e, pos) => text[pos].kind # "url" \/ ~text[e].named
  PROVE  Declared'
<1>1. pos \in Nat /\ pos >= 1
  BY DEF TypeOK
<1>2. EntriesAreSound'
  <2>1. ASSUME NEW i \in 1 .. Len(entries)
        PROVE  entries[i].url \in 1 .. pos /\ AsDeclared(entries[i])
    BY <1>1 DEF Declared, EntriesAreSound
  <2> QED
    BY <1>1, <2>1 DEF EntriesAreSound, AsDeclared, BelongsTo, LastOption
<1>3. EntriesAreOrdered'
  BY DEF Declared, EntriesAreOrdered
<1>4. EntriesAreComplete'
  <2> SUFFICES ASSUME NEW u \in 1 .. pos, NEW e \in 1 .. pos,
                      text[u].kind = "url", BelongsTo(e, u), text[e].named
               PROVE  \E i \in 1 .. Len(entries) : entries[i].url = u
    BY <1>1 DEF EntriesAreComplete, BelongsTo
  <2>1. e \in 1 .. u - 1
    BY DEF BelongsTo
  <2>2. u # pos
    BY <1>1, <2>1
  <2> QED
    BY <1>1, <2>1, <2>2 DEF Declared, EntriesAreComplete
<1> QED
  BY <1>2, <1>3, <1>4 DEF Declared

\* The entry that a URL line and the pending #EXTINF line make.
LEMMA ParsedEntryIsDeclared ==
  ASSUME TypeOK, PendingIsLast, ReadURL, text[pendingExtinf].named
  PROVE  AsDeclared(ParsedEntry)
<1>1. BelongsTo(pendingExtinf, pos) /\ text[pos].kind = "url"
  BY DEF PendingIsLast, ReadURL, Scans
<1>2. ASSUME NEW h \in Headers
      PROVE  IF h \in text[pos].sets THEN ParsedEntry.headers[h] = pos
             ELSE LastOption(pendingExtinf, pos, h, ParsedEntry.headers[h])
  BY DEF PendingIsLast, ReadURL, ParsedEntry, Set
<1> QED
  BY <1>1, <1>2 DEF AsDeclared, ParsedEntry

LEMMA DeclaredURL ==
  ASSUME TypeOK, TypeOK', PendingIsLast, Declared, ReadURL
  PROVE  Declared'
<1>1. /\ pos \in Nat /\ pos >= 1 /\ pos <= Len(text) /\ pos' = pos + 1
      /\ text' = text /\ phase = "scan" /\ phase' = "scan"
      /\ text[pos].kind = "url" /\ BelongsTo(pendingExtinf, pos)
  BY DEF ReadURL, Scans, TypeOK, input, PendingIsLast
<1>2. CASE ~text[pendingExtinf].named
  <2>1. entries' = entries
    BY <1>2 DEF ReadURL
  <2>2. ASSUME NEW e \in 1 .. pos - 1, BelongsTo(e, pos)
        PROVE  e = pendingExtinf
    BY <1>1, <2>2 DEF BelongsTo
  <2> QED
    BY <1>1, <1>2, <2>1, <2>2, DeclaredSkip
<1>3. CASE text[pendingExtinf].named
  <2> DEFINE n == Len(entries)
  <2>1. /\ n \in Nat /\ Len(entries') = n + 1
        /\ \A i \in 1 .. n : entries'[i] = entries[i]
        /\ entries'[n + 1] = ParsedEntry
        /\ ParsedEntry.url = pos
    BY <1>3 DEF ReadURL, TypeOK, ParsedEntry
  <2>2. AsDeclared(ParsedEntry)
    BY <1>3, ParsedEntryIsDeclared
  <2>3. \A i \in 1 .. n : entries[i].url \in 1 .. pos - 1
                          /\ AsDeclared(entries[i])
    BY <1>1 DEF Declared, EntriesAreSound
  <2> HIDE DEF n
  <2>4. EntriesAreSound'
    <3> SUFFICES ASSUME NEW i \in 1 .. n + 1
                 PROVE  /\ entries'[i].url \in 1 .. pos
                        /\ AsDeclared(entries'[i])
      BY <1>1, <2>1
      DEF EntriesAreSound, AsDeclared, BelongsTo, LastOption
    <3> QED
      BY <1>1, <2>1, <2>2, <2>3
  <2>5. EntriesAreOrdered'
    <3> SUFFICES ASSUME NEW i \in 1 .. n + 1, NEW j \in 1 .. n + 1, i < j
                 PROVE  entries'[i].url < entries'[j].url
      BY <2>1 DEF EntriesAreOrdered
    <3>1. CASE j = n + 1
      BY <1>1, <2>1, <2>3, <3>1
    <3>2. CASE j # n + 1
      BY <1>1, <2>1, <3>2 DEF Declared, EntriesAreOrdered, n
    <3> QED
      BY <3>1, <3>2
  <2>6. EntriesAreComplete'
    <3> SUFFICES ASSUME NEW u \in 1 .. pos, NEW e \in 1 .. pos,
                        text[u].kind = "url", BelongsTo(e, u), text[e].named
                 PROVE  \E i \in 1 .. n + 1 : entries'[i].url = u
      BY <1>1, <2>1 DEF EntriesAreComplete, BelongsTo
    <3>1. CASE u = pos
      BY <2>1, <3>1
    <3>2. CASE u # pos
      <4>1. u \in 1 .. pos - 1 /\ e \in 1 .. pos - 1
        BY <1>1, <3>2 DEF BelongsTo
      <4>2. PICK i \in 1 .. n : entries[i].url = u
        BY <1>1, <4>1 DEF Declared, EntriesAreComplete, n
      <4> QED
        BY <2>1, <4>2
    <3> QED
      BY <3>1, <3>2
  <2> QED
    BY <2>4, <2>5, <2>6 DEF Declared
<1> QED
  BY <1>2, <1>3

-----------------------------------------------------------------------------

LEMMA DeclaredStep ==
  ASSUME TypeOK, TypeOK', PendingIsLast, Declared, [Next]_vars
  PROVE  Declared'
<1>1. CASE phase' = "failed"
  BY <1>1 DEF Declared
<1>2. CASE ReadExtinf \/ ReadOption \/ ReadOther
  BY <1>2, DeclaredSkip
  DEF ReadExtinf, ReadOption, ReadOther, Scans, input
<1>3. CASE ReadURL
  BY <1>3, DeclaredURL
<1>4. CASE ReadStrayURL
  BY <1>4, DeclaredSkip DEF ReadStrayURL, Scans, input, PendingIsLast
<1>5. CASE Accept \/ Finish \/ (UNCHANGED vars /\ phase # "failed")
  BY <1>5, DeclaredPause DEF Accept, Finish, vars, input
<1>6. CASE Reject \/ TooLong \/ (UNCHANGED vars /\ phase = "failed")
  BY <1>6 DEF Reject, TooLong, vars, Declared
<1> QED
  BY <1>2, <1>3, <1>4, <1>5, <1>6 DEF Next, Returned

(***************************************************************************)
(* What Parse has collected is what the lines it has read declare, and     *)
(* nothing of one entry leaks into another (parser.go:42-81).              *)
(***************************************************************************)
THEOREM EntriesDeclared == Spec => []EntriesAreAsDeclared
<1>1. Init => IndInv
  <2> SUFFICES ASSUME Init PROVE IndInv
    OBVIOUS
  <2>1. PendingIsLast
    BY DEF Init, PendingIsLast
  <2>2. Declared
    BY DEF Init, Declared, EntriesAreSound, EntriesAreOrdered,
           EntriesAreComplete
  <2> QED
    BY <2>1, <2>2 DEF IndInv
<1>2. TypeOK /\ TypeOK' /\ IndInv /\ [Next]_vars => IndInv'
  BY PendingStep, DeclaredStep DEF IndInv
<1>3. IndInv => EntriesAreAsDeclared
  BY DEF IndInv, Declared, EntriesAreAsDeclared
<1> QED
  BY <1>1, <1>2, <1>3, TypeCorrect, PTL DEF Spec

=============================================================================
