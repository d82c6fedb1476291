# A verification of iptv2hdhr

iptv2hdhr turns M3U playlists into a virtual HDHomeRun tuner. This directory
holds TLA+ models of its concurrent parts, of its algorithms and of the life of
its process, three abstract specifications that they implement, TLC
configurations that check them on small instances, and TLAPS proofs of all the
safety properties, and of the refinements, for every instance.

All paths below are relative to the repository; `session.go` and `proxy.go`
are those of `internal/streamproxy`.

## 1. The system

| component | state it keeps | operations | modelled in |
|---|---|---|---|
| **stream proxy, fan-out of a session** (`session.go`, `proxy.go`) | `session.recent`/`recentStart`, `session.subs`, `session.closed`, and per client `subscriber.pending`, `closed`, `notify` | `broadcast`, `push`, `close`, `signal`, `take`, `subscribe`, `unsubscribe`, `stop`, the client loop of `ServeHTTP` | `StreamFanout`, which implements `SharedStream` |
| **stream proxy, life of a session** (same files) | `Handler.sessions`, `session.ready`, `err`, `closed`, `idleTimer`, `subs`, its context | `ServeHTTP`, `getOrCreateSession`, `endIfIdle`, `stop`, `fail`, `runSession` | `StreamSessions`, which implements `SharedSessions` |
| **ffmpeg remux** (`session.go`, `runRemux`) | an ffmpeg process and two helper goroutines | start, first output or timeout, pump, wait | in part, as phases of `StreamSessions` |
| **playlist fetcher** (`internal/playlist/fetcher.go`) | `lastGood`, `etags`, `lastModifieds`, `current` | `RefreshNow`, `Start`, `refreshSource`, `merge`, `Current` | `PlaylistRefresh`, which implements `SourceCache` |
| **conditional fetch** (`internal/fetchutil`) | none | `GetConditional` | its outcomes, in `PlaylistRefresh` |
| **lineup** (`internal/lineup`) | the static channels, `current` (the match snapshot) | `New`, `Rebuild`, `Stream`, `Stream.Equal` | `LineupMatch` (what is computed), `PlaylistRefresh` (when it is published), `StreamSessions` (how it is used) |
| **guide schedule** (`internal/guide/filler.go`, `xmltv/parse.go`) | none: computed at every request | `BuildChannelProgrammes` | `GuideFiller` |
| **playlist parser** (`internal/playlist/parser.go`) | none; a line automaton inside `Parse` | `Parse` | `PlaylistParser` |
| **guide fetcher** (`internal/guide/fetcher.go`) | as the playlist fetcher, with an `Index` | as the playlist fetcher, without a callback | `Process`, as an instance of `PlaylistRefresh` |
| **logo proxy** (`internal/logoproxy`) | `cache` | `ServeHTTP` | `LogoCache` |
| **config** (`internal/config`) | none after loading | `Load`, `applyDefaults`, `Validate` | `Config` |
| **process lifecycle** (`cmd/iptv2hdhr/main.go`) | the context, the server, the signal channel | start, signal, shutdown, return | `Process` |
| **ssdp** (`internal/ssdp`) | the advertisement and its goroutine | alive, byebye | `Process` |
| guide document (`internal/guide/merge.go`), hdhr handlers (`internal/hdhr`), server (`internal/server`) | none | formatting of static data, routes | not modelled |

**How they interact.** `main` refreshes both fetchers, calls `Rebuild`, starts
one goroutine per source and serves HTTP. A playlist goroutine ends each
refresh with a merge and calls `Lineup.Rebuild` with the merged entries; the
new match is published through an atomic pointer. A request to
`/stream/{number}` reads the match, and then, under `Handler.mu`, joins the
channel's session or makes one, replacing a session whose stream differs.
A session's goroutine connects, feeds every subscriber, and takes its
session out of the registry when the upstream ends; an idle timer does so when
the last subscriber has been gone for five seconds. A request to `/guide.xml`
reads the match snapshot and the guide index and computes the schedule.

**What is hard.** Three parties (request, timer, session goroutine) delete,
replace and stop sessions, each in several steps under two kinds of mutexes.
Clients join, take and leave in the middle of a broadcast, and are woken by a
token that is sent outside the lock. Buffers are trimmed relative to packet
boundaries of a stream of which a client may have read half a packet. Refresh
goroutines merge each other's results and publish through two atomic pointers
without a common lock. Signals may find the process in the middle of its start,
and `main` returns without waiting for what it has told to stop. The hazards,
each at its line, are in `PROJECT.json`.

**What makes each correct.** Fan-out: no gap or repetition at the live edge,
bounded queues, aligned skips, no lost wake-up, nobody left behind at the end.
Sessions: every request gets a session of its own stream, is heard and
answered, no session survives without an
owner, no upstream runs for nobody. Fetchers: last good entries survive
failures, no refresh is lost, nothing older comes back, what is published
catches up. Parser: every entry has its own headers. Logos: only whole logos
are cached. Process: what `Validate` accepts runs, and a signal ends it. Match:
the best and first entry wins. Guide: the window is covered without gaps, and what airs
is shown.

## 2. The modules

`MCStreamSessions`, `MCPlaylistRefresh`, `MCLineupMatch` and `MCProcess` extend
a module with the symmetry sets and constants its configurations use; the other
modules are run as they are. Definitions called `X_Y` next to an `X` are
mutants of it: plausible mistakes that the properties must, and do, notice.

### StreamFanout

One session, its producer, and a set `Clients` of requests. Bytes are offsets
in the session's output: `recent`, `pending[c]` and `taken[c]` are blocks
`[from, len]`. Appending adds to `len` only, so that a queue ends at the live
edge is a property and no convention. `mu` is `session.mu` and says which loop
holds it; `BroadcastPush(c)` and `StopClose(c)` are one iteration of that
loop, and `Signal(c)` the send that follows outside `subscriber.mu`. The
client's `pc` walks through `subscribe`, the `select`, `take`, `w.Write` and
the deferred `unsubscribe`; `taken[c]` holds what `take` returned while it is
being written. The iteration order of Go maps is any order of `todo`.
`PacketSize`, `MaxBacklog`, `JoinPrebuffer` and `CopyBuffer` are the constants
of the source; `SizesAssumption` says what their values (188, 16 MB, 4 MB,
64 KB) satisfy and the code relies on.

### StreamSessions

The requests, sessions and idle timers of one channel. A request makes at
most one session and arms at most one timer, so both are named after it.
`hmu` is the holder of `Handler.mu`. Each critical section of `session.mu` is
one step (`StreamFanout` looks inside). `getOrCreateSession` is `Lock`,
then `Join`, or `Replace`/`CancelReplaced` and `Create`; `endIfIdle` is the
four steps `Check`, `Remove`, `Stop`, `Cancel`, and the deferred function of
`runSession` is `Remove`, `StopSelf`, `CancelSelf`. `stop` is two steps
wherever it is called, since it calls `cancel` after it has released
`session.mu`. `Rematch` and `Shutdown` are the environment. A client may leave
at any time and an upstream may fail, delay or end in every phase. Whether an
upstream is a playlist (`isHLS`) is a free choice.

Other channels are left out: they share only `Handler.mu`, and every step
that holds it ends without waiting for anyone.

### PlaylistRefresh

`RefreshNow` (the counter `boot`), the initial `Rebuild`, and then one
goroutine per source. A playlist is who served it and which version it is;
the merged entries are the sources' playlists in order; `lineup` stands for
the match by the entries it was computed from. `Ask` reads the validators
under `f.mu`; the reply is the playlist, 304, or an error; a reply parses or
does not; `Store`, `Merge`, `Load` and `Rebuild` are the critical sections and
atomic accesses that follow. The provider is external: it answers 304 exactly
when the validators are those of what it has now. A provider with
`i \notin Tagged` sends no validators, as for `file://`.

`merge` and `onUpdate` run after every refresh, failed ones included, as in
`playlist/fetcher.go:73-78`, although the comment of `Start` speaks of
successful ones only; as a failed refresh changes nothing, the repetition is
harmless and no property is about it.

Entries and validators are stored by the configured name of the source, as in
the code. Names need not be unique (the default `playlist-2` may also be given
to another source, and `Validate` does not look), and two sources of one name
would overwrite each other's entries; the instance that is checked gives each
source a name of its own, and the theorems that need it assume `DistinctNames`.

With `OnUpdate = FALSE`, `Start` has no callback: that is the guide fetcher,
whose `refreshSource`, `merge` and goroutines are those of the playlist fetcher
line for line.

### SharedStream, SharedSessions and SourceCache

The abstract specifications. `SharedStream` is what a session promises its
viewers: one stream, everybody who watches is entitled at once to what is
sent, each is handed it in order, with gaps only of whole packets and only
after falling more than `MaxBacklog` behind, and is told of the end after the last
byte. It knows no queues, prebuffer, locks or tokens. `StreamFanout` implements
it with the mapping at its end: a viewer in `select` or `take` is "in", and
while a broadcast walks through the queues, a viewer it has not come to yet
counts as entitled to the chunk already (`Entitled`).

`SharedSessions` is what the proxy promises the clients of a channel: at most
one session is on offer; a request shares it if it has the stream that the
request looked up, and otherwise ends it and opens its own; any other session
that ends is no longer on offer, so that nobody is sent to a session that is
being taken apart. It knows no mutexes, timers or upstreams, and the several
steps of every stopper are one step of it or two. In `StreamSessions` a session
is on offer while it is registered and open (`Offered`). Two things are absent
on purpose, because the code does not do them: an end is not limited to sessions
without viewers (`Sessions_idle_kills_viewer`), nor a replacement to streams that
are out of date (`Sessions_stale_match`).

`SourceCache` is what a fetcher promises its readers: what is held for a source
only moves forward, and what is shown is what all sources held at one moment.
`PlaylistRefresh` implements it with `held <- Merged` and `shown <- current`.

### PlaylistParser

`Parse` over every sequence of lines up to a length. A line is an `#EXTINF` line
with or without a usable name, an option or a URL with the headers it sets, a
line that is skipped, or one that is too long for the scanner. An attribute,
URL or header value is the number of the line it was read from, so that
a value in the wrong entry is visible. `EntriesAreAsDeclared` says what the
result must be without an automaton: for every URL, the nearest `#EXTINF` above it
and the last option in between.

### GuideFiller

`BuildChannelProgrammes` as an operator from a set of programmes and a time to
a sequence of entries. Time is in units of which `Second` make a second, so
that `now` may have a fraction and a formatted timestamp (`Formatted`) has
none. `Clipped`, `Sorted`, `Dedup`, `Place`, `Gap` and `FillerBlocks` are the
stages of the code; `Kept` and `Placed` are the loops of `clipToWindow` and
`BuildChannelProgrammes` as recursive functions, whose values are what the
iterations have built so far. `sort.Slice` is not stable: `Sorted` is the set of orders
it may produce, and `Serve` picks any. The programmes' own times are whole seconds,
as XMLTV writes them; `time.Parse` would take a fraction as well.

### LineupMatch

`buildMatchIndex` (a recursive function over the entries) and `matchChannel`, and
`Rebuild`, which publishes their result. Strings are abstracted to what the
match tells apart: `Normalize` is `normalizeTvgID`, an entry's `mentions` are
the `name_match` strings its names contain.

### LogoCache

Handlers that look a logo up, fetch it and store it, with the two critical
sections of `h.mu` as separate steps, and servers that replace their logos.

### Config and Process

`Config` is `applyDefaults` and `Validate` over records in which a string is
only set or unset. `Process` has one step per stage of `main` up to
`ListenAndServe`, the goroutine that waits for a signal (`Cancel`, `Shutdown`),
the goroutine of `ssdp.Advertise` (`AliveFails`, `Bye`; an `Alive` that succeeds
changes nothing), and the guide fetcher as an instance of `PlaylistRefresh`.
Once the process has ended, in whichever way, nothing moves. `signal.Notify`
into a channel with room for one is `Delivered`; before it, a signal kills. The
steps of the playlist fetcher are left to `PlaylistRefresh` and the end of the
sessions to `StreamSessions`; what they share with the rest of the process is
the context. `Listen` may fail to bind, and `ServeFails` is a listener that gives
up later; `log.Fatalf` ends the process in both.

## 3. What the runs check

| run | bounds | distinct states | result |
|---|---|---|---|
| `Fanout` | 2 clients, packets of 2 bytes, reads of 1 or 2, prebuffer 2, backlog 4, 5 bytes of output | 0.57 M | 7 invariants, the refinement of `SharedStream` and 2 liveness properties hold |
| `Sessions` | 2 requests, 2 streams, 1 rematch, a shutdown | 292 k | 7 invariants, the refinement of `SharedSessions` and 2 liveness properties hold |
| `Refresh` | 2 sources, 2 new versions each | 41 k | 3 invariants, the refinement of `SourceCache` and 2 liveness properties hold |
| `Parser` | 5 lines of every kind, 2 headers | 1.4 M | 1 invariant holds |
| `Guide_window` | 3 programmes, 6 times and a malformed one, `now` whole or not | 80 k | 4 invariants hold |
| `Match_best` | 4 channels, 3 entries, 2 spellings, 2 streams | 1.9 k | 1 invariant and 1 action property hold |
| `Process` | 2 guides, 1 new version each, 2 signals, 18 configuration files | 83 k | 2 invariants, the refinement of `SourceCache` and 2 liveness properties hold |
| `Logos` | 3 handlers, 2 logos, 1 new version each | 25 k | 1 invariant and 1 liveness property hold |

**Why the bounds are enough.** *Fan-out:* packets of two bytes and reads
of one or two leave clients inside a packet and at its end; five bytes against
a prebuffer of two and a backlog of four suffice to trim, to skip with half a
packet left over, and to join after either. A second client adds the
interleavings inside one loop; the rest is proved for any number.
*Sessions:* two requests are a session that is idle, ending or failing, and
someone to join it, replace it or come too late; a third adds no new pair, and
the safety part is proved for any number.
*Refresh:* the races are between two goroutines, and two versions let an older
one come back. *Parser:* five lines hold two entries with an option between
them, or an entry that is skipped before one that is not; the result is proved
for playlists of every length. *Process:* two guides let merges overlap, two
signals find `sigCh` full or nobody there to receive; the files are one that is
right and every one that is wrong in a single place. *Logos:* one handler that
stores, one that overwrites it with an older logo, and one that finds either. *Guide:* three programmes are one that is kept, one that
overlaps it and one that overlaps either; the window is three filler blocks
long. *Match:* the three entries include a duplicate tvg-id, a duplicate name
and one of each.

Symmetry is used in the two runs of `StreamSessions` that look for a
disagreement only, over requests and streams, which `Init` and every action
treat alike.

### Runs that find a disagreement

Each of these runs checks one sentence of a comment or a test against what
the code does.

| run | the sentence | what happens |
|---|---|---|
| `Sessions_idle_kills_viewer` | `endIfIdle` "tears down s if it's still idle" (`session.go:177`) | a request joins after the check and before `stop`, and is cut off with the session |
| `Sessions_stale_match` | replaced "if the matched upstream URL/headers have changed" (`session.go:97-99`) | a request that read the match before a refresh replaces a session on the new upstream by one on the old |
| `Refresh_stale_lineup` | "the latest match snapshot" (`lineup.go:47`) | two `onUpdate` calls overtake each other; the older match stays until the next refresh |
| `Process_no_goodbye` | the advertisement "runs until ctx is done, at which point it sends a "byebye" notification" (`ssdp.go:22-23`) | `main` returns as soon as `Shutdown` is called and does not wait for the goroutine; or an `Alive` has failed and it is gone |

What the models show beyond these, without a run of its own: an idle timer that
has fired and not run yet outlives a viewer that joins and leaves, and cuts the
new grace period short (`session.go:151`, against 160-162); a replaced session
keeps its upstream until its goroutine notices, so that two connections of one
channel overlap (`session.go:117`, against 69-71); with a fraction of a second
in `now`, an entry at either end of the guide window is truncated to nothing
(`filler.go:97`, against `filler_test.go:43-45`); and one line of more than
1 MB fails a whole playlist (`parser.go:83`, against 22-25).

### Fairness

*Fan-out.* A loop that holds `session.mu` waits for nothing but
`subscriber.mu`, which is held for a few instructions: weak fairness. Clients
that can receive or take do so: weak fairness. `Unsubscribe` competes for
`session.mu` with the producer and is given strong fairness: Go's mutexes hand
over to a waiter that has starved for a millisecond. Nothing is assumed of
`w.Write` (the server sets no write timeout), of the upstream, or of `stop`
being called.

*Sessions.* Each step of a request that has `Handler.mu`, of a fired timer or
of `runSession` is weakly fair. `UpstreamFails` belongs to `runSession`'s fair
steps because dial, TLS handshake and response header have timeouts
(`proxy.go:66-70`), and `NoOutput` because of `ffmpegStartupTimeout`; the
choice between success and failure is not fair. A request takes `Handler.mu`
once, so that only finitely many steps can come before one that waits for it.
Nothing is assumed of requests arriving, clients leaving or upstreams ending.

*Refresh.* Goroutines run, tickers tick, requests return within the client's
60 s. `Exit` is strongly fair: `select` picks among its ready cases at random
and cannot prefer the ticker for ever. `LineupConverges` needs in addition that
a provider asked again and again does not fail every time
(`ProvidersRecover`); this is an assumption about the providers, not about the
code, and part of the property.

*Process.* `main`, the goroutines and requests go on; `Bye` is strongly fair, as
`select` cannot prefer the ticker for ever. Nothing obliges signals, providers,
failing announcements or a listener that gives up. `GuideConverges` needs, as
`LineupConverges` does, that providers do not always fail, and that the process
comes to serve and goes on serving.

*Logos.* A handler with a request goes on, and a fetch ends by the client's 30 s;
nothing is assumed of requests coming or of fetches succeeding.

## 4. What is proved

For every value of the constants, as `Spec => []Inv` or `Spec => Abstract!Spec`:

| module | theorems |
|---|---|
| `StreamFanoutProofs` | `TypeOK` and the six other invariants of `Fanout`, `ImplementsSharedStream`, and `EndedClientsAreDrained`, the part of it that says what a client has got when its session ends |
| `StreamSessionsProofs` | `TypeOK` and the six other invariants of `Sessions`, `ImplementsSharedSessions`, and that a session past its start has closed `ready` (`ReadyEndsStart`) and does not close it twice (`ReadyClosedOnce`) |
| `PlaylistRefreshProofs` | `TypeOK`, `CurrentHasLastGood`, `NotModifiedIsTrue`, `ImplementsSourceCache` |
| `PlaylistParserProofs` | `TypeOK`, `EntriesAreAsDeclared` |
| `GuideFillerProofs` | `TypeOK`, `GuideCoversWindow`, `FillerIsSplitEvenly`, `AiringProgrammesAreShown` |
| `LineupMatchProofs` | `BestEntryMatched`, `LaterEntriesTakeNothing` |
| `ProcessProofs` | `TypeOK`, `AcceptedConfigRuns`, `GuideIsSourceCache`, and that the process runs its guide fetcher as `PlaylistRefresh` describes |
| `LogoCacheProofs` | `OnlyLogosAreServed` |

The assumptions are the ones the modules name: `SizesAssumption`, that `None`
is neither a request nor a stream, `TimesAssumption` and `ChannelsAssumption`,
which give the types of the times, channels and names, that there is a source or guide at all (with none there is nothing to fetch),
and, for the second to fourth theorem about the fetcher and for
`GuideIsSourceCache`, that no two sources share a name.

*Fan-out.* The properties lean on each other, and on four facts that
`IndInv` adds: `LockSound` (what the loop that holds `session.mu` has done and
has left to do, and that nothing is left between two critical sections),
`ClientSound` (a client in its loop is a subscriber or has been closed, a
closed queue stays as it is, and what `take` said of the end is still true
while the data is written), `EmptyMeansSent` (a client whose queue is empty has
been sent all of it) and `WriterIsSignalled` (a client that is busy writing will
find the token it needs afterwards). Packet alignment needs arithmetic that SMT
does not do by itself: three lemmas about whole packets and one each on
`RoundUpToPacket`, `Skipped`, `TrimRecent` and `PushTo` say what a step does to
a buffer, and the lemmas for the actions cite these. `NoViewerLeftBehind`
follows from `IndInv` and is not part of it.

*Sessions.* That the registered session is open (`RegisteredIsOpen`) rests on
the order in which each stopper first takes the entry out and then closes;
`IndInv` states that order: a registered session has nobody in the steps after
the removal (`RegistrySound`), only the holder of `Handler.mu` may have closed
it (`EntryOpen`, `HolderSound`), a session exists from its creation on and its
subscribers know it (`RequestSound`), and a timer that is not off belongs to a
request that has returned and to the session it left last (`TimerSound`).
There is one lemma per action, or per
group of actions that change the same things; `IndInvStep` collects them.
`ReadyEndsStart` is inductive on top of `IndInv`, which says that a session that
is created has not been there before. Every step that closes `ready` starts in a
phase of the start, so that `ready` was open until then: `ReadyClosedOnce`.

*Refinement of `SharedStream`.* Each action has a lemma that says which abstract
step it is: `BroadcastStart` is `Emit`, the `BroadcastPush` steps that follow
stutter because `Entitled` already counts the chunk, `StopStart` is `Close`, a
take with data is `HandOver`, and one that learns of the end without any is
`Complete`. Besides the parts of `IndInv` that relate a queue to the live edge,
they need `RefInv`: a queue has a gap only when the client is more than
`MaxBacklog` bytes behind (`GapsAreDeserved`), and only a client between a take
and its write holds data (`OnlyWritersHold`).

*Refinement of `SharedSessions`.* `Lookup` is `Ask`, `Join` is `Share`, `Replace`
is `Supersede`, `Create` is `Open`, `Unsubscribe` is `Leave`; the two removals are
`Withdraw` when the entry is still there, the two stops are `End` when the session
is still open, and everything else stutters. `IndInv` says that what is found
open under `Handler.mu` is still open when it is joined (`HeldIsOpen`), and that a
session is stopped only after its entry has gone. Two more facts are needed:
what a request found out about the streams stays true until it acts on it,
because a stream is looked up once, before there is a session
(`StreamsCompared`), and a request is a subscriber of the one session that it
has joined (`SubscribersKnown`).

*Fetchers.* `IndInv` adds to the two invariants that everything stored, shown
or on its way was served by its source and in order (`ServedInOrder`), and
that validators never run ahead of entries (`TagsFollowEntries`). For the guide
fetcher nothing is proved again: `Sequenced` says that `main` starts it once and
that only the watcher cancels the context, from which `Process` implements the
fetcher's own specification, and the theorems of an instance of
`PlaylistRefreshProofs` apply.

*Parser.* The invariant says what waits for a URL (the last `#EXTINF` line, and
for each header the last option since) and that the entries so far are those
that the lines so far declare; every action lemma extends both by one line.

*Process.* Past `Load` the configuration is valid (`Validated`), and what is
valid has no interval a ticker panics for and no number twice.

*Guide.* A guide is the result of three loops, of any length, so that the proof
is by induction on iterations. `Covers(s, a, b)` (entries that follow each other
without a gap from `a` to `b`) and `Split(s)` compose: what covers one interval and
what covers the next cover both (`CoversTogether`, `SplitTogether`). A gap is
covered by its blocks (`BlocksCoverGap`, where the division of the last block is
the work). `KeptSoFar` is the invariant of the overlap rule: what is kept is
disjoint and in order, and what was dropped starts under something that was
kept. `PlacedSoFar` is that of `BuildChannelProgrammes`: the output covers the
window up to the cursor and shows what has been placed. Timestamps are
truncated to seconds on the way, which is monotone and leaves whole seconds
alone (`FormattedIsMonotone`, `WholeIsFormatted`).

*Lineup.* `IndexSoFar` says that after any number of entries the index holds, for
each tvg-id seen, the first entry that has it. With the name fallback, which is
a least element as well, `Match` is the first of the best (`MatchedIs`). Entries
appended behind leave both as they are (`FirstStays`).

*Induction.* The library's induction theorems have an operator as a parameter,
which the provers cannot instantiate. `Induction` states the principle for a
set of naturals instead, and follows from `NatLessThanWellFounded` and `WFMin`;
a recursive function is first shown to exist for every length (`KeptIs`,
`PlacedIs`, `IndexIs`) and then satisfies its own equation.

*Model-checked only.* The nine liveness properties (fairness and `ENABLED` are
out of the prover's reach): `LockIsReleased`, `ViewersAreServed`,
`RequestsAreAnswered`, `UnwantedSessionsEnd`, `LineupConverges`,
`GoroutinesStop`, `GuideConverges`, `SignalEndsProcess` and `FetchingEnds`.

## 5. What is not modelled, and what could come next

Not modelled: XML, JSON and M3U formatting, YAML decoding, gzip, routes and
logging, ffmpeg's arguments, and the guide document, the hdhr handlers and the
server. They keep no state beyond a response, and no state depends on them. Of
the remux, the goroutine that relays ffmpeg's stderr is left out, and with it
the pipe that may fill (`session.go:458`). Of the index that the guide fetcher
publishes, the choice of the first channel of an id and the order of programmes
are left out: the schedule sorts what it shows again.

What could come next:

1. `GuideIndex`: the merge of documents by channel id as an operator, and its
   result as the input of `GuideFiller`.
2. A composition of `PlaylistRefresh` with `StreamSessions`, where `Rematch` is
   the publication of a match, stale ones included.
3. The stderr relay of the remux with a bounded pipe.
4. The safety part of the liveness properties as invariants with proofs,
   as `ReadyEndsStart` is: that whoever waits for a lock waits for a holder with
   a step to take, so that only the fairness argument itself is left to the
   model checker.
