--------------------------- MODULE PlaylistRefresh ---------------------------
(***************************************************************************)
(* internal/playlist.Fetcher and what it drives: main's initial refresh,   *)
(* the refresh goroutine of every source, the merged snapshot f.current,   *)
(* and the match snapshot of internal/lineup that onUpdate (Lineup.Rebuild)*)
(* computes from it.                                                       *)
(*                                                                         *)
(* A playlist is abstracted to who served it and which version it is.  The *)
(* merged entries are the sequence of the sources' playlists; the match    *)
(* snapshot is a function of the entries it was computed from, and stands  *)
(* for them.  A source's ETag and Last-Modified are stored and sent        *)
(* together, and stand for the version they came with.                     *)
(*                                                                         *)
(* Atomicity: one step per critical section of f.mu and per load or store  *)
(* of an atomic pointer.  Goroutines interleave between any two of them.   *)
(***************************************************************************)
EXTENDS Integers

CONSTANTS
  N,         \* how many playlists are configured
  NameOf,    \* the configured name of each
  Tagged,    \* the sources whose server sends validators (never file://)
  OnUpdate,  \* whether Start is given a callback, which is Lineup.Rebuild
  Nothing,   \* no entries, no validators
  MaxVersion \* model bound: how often each playlist changes

Slots == 1 .. N
Names == {NameOf[i] : i \in Slots}

ASSUME SourcesAssumption ==
  /\ N \in Nat \ {0}          \* Validate wants at least one playlist
  /\ DOMAIN NameOf = Slots
  /\ Tagged \subseteq Slots
  /\ OnUpdate \in BOOLEAN
  /\ MaxVersion \in Nat

VARIABLES
  version,   \* the playlist each server has now
  lastGood,  \* f.lastGood
  tags,      \* f.etags and f.lastModifieds
  current,   \* f.current, as the playlist each source contributes
  lineup,    \* Lineup.current, as the entries it was computed from
  boot,      \* the source RefreshNow has come to, its merge, then Start
  pc,        \* where the refresh of each source is
  asked,     \* the validators it has read
  reply,     \* the playlist it has received
  loaded,    \* the snapshot it passes to onUpdate
  cancelled  \* ctx is done

fetcherVars == <<lastGood, tags, current>>
localVars == <<asked, reply, loaded>>
vars == <<version, fetcherVars, lineup, boot, pc, localVars, cancelled>>

Playlist == [src : Slots, ver : Nat] \cup {Nothing}
Serves(i) == [src |-> i, ver |-> version[i]]
Empty == [i \in Slots |-> Nothing]

ASSUME NothingAssumption == Nothing \notin [src : Slots, ver : Nat]

\* main has called Start.
Started == boot = N + 2

Init ==
  /\ version = [i \in Slots |-> 0]
  /\ lastGood = [n \in Names |-> Nothing]
  /\ tags = [n \in Names |-> Nothing]
  /\ current = Empty
  /\ lineup = Empty
  /\ boot = 1
  /\ pc = [i \in Slots |-> "idle"]
  /\ asked = Empty
  /\ reply = Empty
  /\ loaded = [i \in Slots |-> Empty]
  /\ cancelled = FALSE

-----------------------------------------------------------------------------
(* The environment.                                                         *)

\* A provider publishes a new playlist.
Publish(i) ==
  /\ version[i] < MaxVersion
  /\ version' = [version EXCEPT ![i] = @ + 1]
  /\ UNCHANGED <<fetcherVars, lineup, boot, pc, localVars, cancelled>>

\* The signal handler of main, which is installed after the initial refresh.
Cancel ==
  /\ Started
  /\ ~cancelled
  /\ cancelled' = TRUE
  /\ UNCHANGED <<version, fetcherVars, lineup, boot, pc, localVars>>

-----------------------------------------------------------------------------
(* refreshSource, called by RefreshNow for one source after the other and   *)
(* by each source's goroutine.                                              *)

\* Mutant: RefreshNow fetches the sources concurrently.
Turn_Any(i) == boot <= i \/ Started

\* RefreshNow has come to source i, or the goroutines are running.
Turn(i) == boot = i \/ Started

\* The validators are read under f.mu and the request is sent.  In a goroutine
\* the ticker has fired; the select may prefer it to a done ctx.
Ask(i) ==
  /\ Turn(i)
  /\ pc[i] = "idle"
  /\ asked' = [asked EXCEPT ![i] = tags[NameOf[i]]]
  /\ pc' = [pc EXCEPT ![i] = "asked"]
  /\ UNCHANGED <<version, fetcherVars, lineup, boot, reply, loaded, cancelled>>

\* The server has what the validators name.
Unmodified(i) == i \in Tagged /\ asked[i] = Serves(i)

\* 200 OK: the body, with new validators.
ReceivePlaylist(i) ==
  /\ pc[i] = "asked"
  /\ ~Unmodified(i)
  /\ reply' = [reply EXCEPT ![i] = Serves(i)]
  /\ asked' = [asked EXCEPT ![i] = Nothing]
  /\ pc' = [pc EXCEPT ![i] = "received"]
  /\ UNCHANGED <<version, fetcherVars, lineup, boot, loaded, cancelled>>

\* Mutant: the goroutine forgets to merge.
AfterRefresh_NoMerge == IF Started THEN "load" ELSE "idle"

\* Where refreshSource returns to: the goroutine's merge, or RefreshNow's loop.
AfterRefresh == IF Started THEN "merge" ELSE "idle"

\* refreshSource returns, whatever has become of the fetch.
Return(i) ==
  /\ pc' = [pc EXCEPT ![i] = AfterRefresh]
  /\ boot' = IF Started THEN boot ELSE boot + 1

\* 304 Not Modified.
NotModified(i) ==
  /\ pc[i] = "asked"
  /\ Unmodified(i)
  /\ asked' = [asked EXCEPT ![i] = Nothing]
  /\ Return(i)
  /\ UNCHANGED <<version, fetcherVars, lineup, reply, loaded, cancelled>>

\* Mutant: a failed refresh empties the source.
OnFailure_Emptied(i) == Nothing

\* What a failed refresh leaves of the source's entries.
OnFailure(i) == lastGood[NameOf[i]]

\* No answer, an error status, a broken body, or ctx done.
FetchFails(i) ==
  /\ pc[i] = "asked"
  /\ lastGood' = [lastGood EXCEPT ![NameOf[i]] = OnFailure(i)]
  /\ asked' = [asked EXCEPT ![i] = Nothing]
  /\ Return(i)
  /\ UNCHANGED <<version, tags, current, lineup, reply, loaded, cancelled>>

\* The validators of the response that is being stored.
NewTag(i) == IF i \in Tagged THEN reply[i] ELSE Nothing

\* Mutant: the validators are stored before the body is parsed.
OnBadParse_Stored(i) == NewTag(i)

\* What a body that does not parse leaves of the source's validators.
OnBadParse(i) == tags[NameOf[i]]

ParseFails(i) ==
  /\ pc[i] = "received"
  /\ tags' = [tags EXCEPT ![NameOf[i]] = OnBadParse(i)]
  /\ reply' = [reply EXCEPT ![i] = Nothing]
  /\ Return(i)
  /\ UNCHANGED <<version, lastGood, current, lineup, asked, loaded, cancelled>>

\* The entries and their validators, under f.mu.
Store(i) ==
  /\ pc[i] = "received"
  /\ lastGood' = [lastGood EXCEPT ![NameOf[i]] = reply[i]]
  /\ tags' = [tags EXCEPT ![NameOf[i]] = NewTag(i)]
  /\ reply' = [reply EXCEPT ![i] = Nothing]
  /\ Return(i)
  /\ UNCHANGED <<version, current, lineup, asked, loaded, cancelled>>

-----------------------------------------------------------------------------
(* What follows refreshSource: merge, and onUpdate(f.Current()).            *)

\* The merged entries: every source's last good ones, in configuration order.
Merged == [i \in Slots |-> lastGood[NameOf[i]]]

\* RefreshNow's merge, main's first Rebuild, and Start; nothing else runs yet.
BootMerge ==
  /\ boot = N + 1
  /\ current' = Merged
  /\ lineup' = IF OnUpdate THEN Merged ELSE lineup
  /\ boot' = N + 2
  /\ UNCHANGED <<version, lastGood, tags, pc, localVars, cancelled>>

\* Mutant: the callback is never called.
AfterMerge_Nil == "idle"

\* A goroutine calls onUpdate if it is not nil.
AfterMerge == IF OnUpdate THEN "load" ELSE "idle"

Merge(i) ==
  /\ pc[i] = "merge"
  /\ current' = Merged
  /\ pc' = [pc EXCEPT ![i] = AfterMerge]
  /\ UNCHANGED <<version, lastGood, tags, lineup, boot, localVars, cancelled>>

\* f.Current(), the argument of onUpdate.
Load(i) ==
  /\ pc[i] = "load"
  /\ loaded' = [loaded EXCEPT ![i] = current]
  /\ pc' = [pc EXCEPT ![i] = "rebuild"]
  /\ UNCHANGED <<version, fetcherVars, lineup, boot, asked, reply, cancelled>>

\* Lineup.Rebuild: the match is computed from the argument and published.
Rebuild(i) ==
  /\ pc[i] = "rebuild"
  /\ lineup' = loaded[i]
  /\ loaded' = [loaded EXCEPT ![i] = Empty]
  /\ pc' = [pc EXCEPT ![i] = "idle"]
  /\ UNCHANGED <<version, fetcherVars, boot, asked, reply, cancelled>>

\* Mutant: the goroutine waits for its ticker only.
SeesDone_Never == FALSE

\* The case <-ctx.Done() of the select.
SeesDone == cancelled

Exit(i) ==
  /\ pc[i] = "idle"
  /\ SeesDone
  /\ pc' = [pc EXCEPT ![i] = "stopped"]
  /\ UNCHANGED <<version, fetcherVars, lineup, boot, localVars, cancelled>>

-----------------------------------------------------------------------------

\* The request of source i comes back.
Answer(i) == ReceivePlaylist(i) \/ NotModified(i) \/ FetchFails(i)

Parsed(i) == Store(i) \/ ParseFails(i)

Refresh(i) ==
  \/ Ask(i) \/ Answer(i) \/ Parsed(i)
  \/ Merge(i) \/ Load(i) \/ Rebuild(i) \/ Exit(i)

\* Every goroutine has returned.
Finished == (\A i \in Slots : pc[i] = "stopped") /\ UNCHANGED vars

Next ==
  \/ \E i \in Slots : Publish(i) \/ Refresh(i)
  \/ BootMerge
  \/ Cancel
  \/ Finished

Spec == Init /\ [][Next]_vars

(***************************************************************************)
(* Fairness: goroutines that can run do; tickers fire; a request comes     *)
(* back, by client.Timeout (60 s) at the latest; select, which chooses at  *)
(* random among its ready cases, does not overlook a done ctx for ever.    *)
(***************************************************************************)
Fairness ==
  /\ WF_vars(BootMerge)
  /\ \A i \in Slots :
       /\ WF_vars(Ask(i)) /\ WF_vars(Answer(i)) /\ WF_vars(Parsed(i))
       /\ WF_vars(Merge(i)) /\ WF_vars(Load(i)) /\ WF_vars(Rebuild(i))
       /\ SF_vars(Exit(i))

FairSpec == Spec /\ Fairness

-----------------------------------------------------------------------------
(* Properties.                                                              *)

TypeOK ==
  /\ version \in [Slots -> Nat]
  /\ lastGood \in [Names -> Playlist]
  /\ tags \in [Names -> Playlist]
  /\ current \in [Slots -> Playlist]
  /\ lineup \in [Slots -> Playlist]
  /\ boot \in 1 .. N + 2
  /\ pc \in [Slots -> {"idle", "asked", "received", "merge", "load", "rebuild",
                      "stopped"}]
  /\ asked \in [Slots -> Playlist]
  /\ reply \in [Slots -> Playlist]
  /\ loaded \in [Slots -> [Slots -> Playlist]]
  /\ cancelled \in BOOLEAN
  /\ ~Started =>
       ~cancelled /\ \A i \in Slots : boot # i => pc[i] = "idle"

(***************************************************************************)
(* No refresh is lost in the merged snapshot: a source whose last good     *)
(* entries are not the ones in f.current is about to merge them, although  *)
(* other sources' merges run between its store and its own merge           *)
(* (playlist/fetcher.go:74-75, 108-112, 119-128).                          *)
(***************************************************************************)
CurrentHasLastGood ==
  Started =>
    \A i \in Slots : current[i] # lastGood[NameOf[i]] => pc[i] = "merge"

(***************************************************************************)
(* "The server confirmed the previously-fetched content ... is still       *)
(* current" (fetchutil.go:20-22): whenever a server may answer 304, the    *)
(* entries that refreshSource then keeps are the ones this server has now, *)
(* and not older ones whose validators ran ahead of them.                  *)
(***************************************************************************)
NotModifiedIsTrue ==
  \A i \in Slots :
    pc[i] = "asked" /\ Unmodified(i) => lastGood[NameOf[i]] = Serves(i)

\* What the sources hold, and the snapshot that readers load.
Cache == INSTANCE SourceCache WITH held <- Merged, shown <- current

(***************************************************************************)
(* The fetcher is a SourceCache: a refresh changes what one source holds,  *)
(* and never to something older; the snapshot becomes what all sources     *)
(* hold at one moment, so that no failure and no interleaving of merges    *)
(* takes entries away again or brings back older ones ("preserved across   *)
(* failed refreshes", playlist/fetcher.go:23; merge, 119-128).             *)
(***************************************************************************)
ImplementsSourceCache == Cache!Spec

\* A provider that is asked again and again does not fail, or send garbage,
\* every time.
ProvidersRecover ==
  \A i \in Slots :
    SF_vars(ReceivePlaylist(i) \/ NotModified(i)) /\ SF_vars(Store(i))

(***************************************************************************)
(* The channels follow the playlists: as long as providers recover from    *)
(* their failures, and once they stop changing their playlists, the match  *)
(* snapshot is the one of the newest playlists and stays so, however often *)
(* a goroutine has overwritten a newer snapshot (Start,                    *)
(* playlist/fetcher.go:66-85).                                             *)
(***************************************************************************)
LineupConverges ==
  ProvidersRecover /\ []~cancelled
    => <>[](\A i \in Slots : lineup[i] = Serves(i))

(***************************************************************************)
(* "Goroutines stop when ctx is done" (playlist/fetcher.go:65), whatever   *)
(* the providers do.                                                       *)
(***************************************************************************)
GoroutinesStop == cancelled ~> (\A i \in Slots : pc[i] = "stopped")

-----------------------------------------------------------------------------
(* What the comments of the code say, and the code does not do.             *)

(***************************************************************************)
(* "Lineup holds the immutable channel list and the latest match snapshot" *)
(* (lineup.go:47): while no refresh is in progress, the channels are       *)
(* matched against the current entries.                                    *)
(***************************************************************************)
LineupIsLatest ==
  Started /\ (\A i \in Slots : pc[i] = "idle") => lineup = current

=============================================================================
