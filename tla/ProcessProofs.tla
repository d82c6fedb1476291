--------------------------- MODULE ProcessProofs ---------------------------
(***************************************************************************)
(* Proofs about Process, for every configuration file, any number of       *)
(* guides whose names differ, and any number of signals.                   *)
(***************************************************************************)
EXTENDS Process, TLAPS

Fetcher == INSTANCE PlaylistRefreshProofs WITH
  OnUpdate <- FALSE,
  lineup <- [i \in Slots |-> Nothing],
  loaded <- [i \in Slots |-> [j \in Slots |-> Nothing]]

\* Once main is past Load, the configuration is a valid one.
Validated ==
  main \notin {"load", "failed", "crashed", "killed"} => Valid(config)

\* The fetcher's goroutines start once, after the initial refresh and before
\* anybody waits for a signal, and only the watcher cancels the context.
Sequenced ==
  /\ main \in {"load", "lineup", "playlists", "guides"} => boot # N + 2
  /\ main \in {"advertise", "notify"} => boot = N + 2
  /\ main \in {"load", "lineup", "playlists", "guides", "advertise", "notify"}
       => watcher = "none"
  /\ watcher # "none" => boot = N + 2
  /\ watcher \in {"none", "waits"} => ~cancelled

USE DEF processVars, guideVars, UnchangedButMain

-----------------------------------------------------------------------------

\* The defaults keep a configuration one.
LEMMA DefaultsType ==
  ASSUME NEW c \in ConfigType
  PROVE  ApplyDefaults(c) \in ConfigType
<1>1. \A x \in Int : OrDefault(x, DefaultTunerCount) \in Int
                     /\ OrDefault(x, DefaultHTTPPort) \in Int
                     /\ OrDefault(x, DefaultRefreshInterval) \in Int
  BY DEF OrDefault, DefaultTunerCount, DefaultHTTPPort,
         DefaultRefreshInterval
<1>2. ASSUME NEW s \in Seq(Source)
      PROVE  SourcesWithDefaults(s) \in Seq(Source)
  <2> DEFINE d(x) == [x EXCEPT !.interval = OrDefault(@,
                                                      DefaultRefreshInterval)]
  <2>1. ASSUME NEW x \in Source PROVE d(x) \in Source
    <3>1. x.interval \in Int
      BY DEF Source
    <3>2. OrDefault(x.interval, DefaultRefreshInterval) \in Int
      BY <1>1, <3>1
    <3> QED
      BY <3>2 DEF Source
  <2>2. SourcesWithDefaults(s) = [i \in 1 .. Len(s) |-> d(s[i])]
    BY DEF SourcesWithDefaults
  <2>3. \A i \in 1 .. Len(s) : d(s[i]) \in Source
    BY <2>1
  <2> HIDE DEF d
  <2> QED
    BY <2>2, <2>3
<1>3. c.port \in Int /\ c.tuners \in Int
      /\ c.playlists \in Seq(Source) /\ c.guides \in Seq(Source)
  BY DEF ConfigType
<1> QED
  BY <1>1, <1>2, <1>3 DEF ApplyDefaults, ConfigType

\* What Validate accepts has intervals that no ticker panics for.
LEMMA ValidTickers ==
  ASSUME config \in ConfigType, Valid(config) PROVE ~TickersPanic
<1>1. ASSUME NEW s \in Seq(Source), ValidSources(s), NEW i \in DOMAIN s
      PROVE  ~(s[i].interval <= 0)
  <2>1. s[i] \in Source
    OBVIOUS
  <2>2. s[i].interval >= MinRefreshInterval
    BY <1>1, Zenon DEF ValidSources, ValidSource
  <2>3. s[i].interval \in Int
    BY <2>1 DEF Source
  <2> QED
    BY <2>2, <2>3 DEF MinRefreshInterval
<1>2. config.playlists \in Seq(Source) /\ config.guides \in Seq(Source)
  BY DEF ConfigType
<1>3. ValidSources(config.playlists) /\ ValidSources(config.guides)
  BY DEF Valid
<1> QED
  BY <1>1, <1>2, <1>3, Zenon DEF TickersPanic

LEMMA ValidatedStep ==
  ASSUME config \in ConfigType, Validated, AcceptedConfigRuns, [Next]_vars
  PROVE  config' \in ConfigType /\ Validated' /\ AcceptedConfigRuns'
<1> USE DEF Validated, AcceptedConfigRuns
<1>1. CASE Load
  BY <1>1, DefaultsType DEF Load
<1>2. CASE BuildLineup
  <2>1. Valid(config)
    BY <1>2 DEF BuildLineup
  <2>2. ValidChannels(config.channels)
    BY <2>1 DEF Valid
  <2>3. ~\E i, j \in DOMAIN config.channels :
           /\ i # j
           /\ config.channels[i].number = config.channels[j].number
    BY <2>2, Zenon DEF ValidChannels
  <2>4. main' = "playlists" /\ config' = config
    BY <1>2, <2>3, Zenon DEF BuildLineup
  <2> QED
    BY <2>1, <2>4
<1>3. CASE StartFetchers
  BY <1>3, ValidTickers DEF StartFetchers
<1>4. CASE \/ RefreshPlaylists \/ Advertise \/ Notify
           \/ Listen \/ ServeReturns \/ ServeFails
  BY <1>4 DEF RefreshPlaylists, Advertise, Notify, Listen, ServeReturns,
              ServeFails
<1>5. CASE Interrupt \/ Cancel \/ Shutdown \/ AliveFails \/ Bye
  BY <1>5 DEF Interrupt, Cancel, Shutdown, AliveFails, Bye, Running, Ended
<1>6. CASE \E i \in Slots :
             \/ Publish(i) \/ Ask(i) \/ Answer(i) \/ Parsed(i)
             \/ Merge(i) \/ Exit(i)
  BY <1>6 DEF Publish, Ask, Answer, Parsed, Merge, Exit
<1>7. CASE UNCHANGED vars
  BY <1>7 DEF vars
<1> QED
  BY <1>1, <1>2, <1>3, <1>4, <1>5, <1>6, <1>7 DEF Next, Main, Over

(***************************************************************************)
(* No configuration that Validate accepts makes lineup.New fail or a       *)
(* ticker panic (config.go:167-231; lineup.go:62-64; fetcher.go:69, 88).   *)
(***************************************************************************)
THEOREM AcceptedConfigsRun == Spec => []AcceptedConfigRuns
<1> DEFINE Inv == config \in ConfigType /\ Validated /\ AcceptedConfigRuns
<1>1. Init => Inv
  BY ConfigsAssumption DEF Init, Validated, AcceptedConfigRuns
<1>2. Inv /\ [Next]_vars => Inv'
  BY ValidatedStep
<1> QED
  BY <1>1, <1>2, PTL DEF Spec

-----------------------------------------------------------------------------
(* The guide fetcher inside the process.                                    *)

LEMMA FetcherAssumptions ==
  Fetcher!SourcesAssumption /\ Fetcher!NothingAssumption
BY GuidesAssumption
DEF Fetcher!SourcesAssumption, Fetcher!NothingAssumption, Fetcher!Slots, Slots

LEMMA FetcherInit == Init => Fetcher!Init
BY DEF Init, Guides!Init, Fetcher!Init, Guides!Empty, Fetcher!Empty,
       Guides!Slots, Fetcher!Slots, Guides!Names, Fetcher!Names, Slots

\* The fetcher's actions in the process, under the names of its proofs.
LEMMA SameActions ==
  /\ Guides!BootMerge => Fetcher!BootMerge
  /\ \A i \in Slots :
       /\ Guides!Publish(i) => Fetcher!Publish(i)
       /\ Guides!Ask(i) => Fetcher!Ask(i)
       /\ Guides!Answer(i) => Fetcher!Answer(i)
       /\ Guides!Parsed(i) => Fetcher!Parsed(i)
       /\ Guides!Merge(i) => Fetcher!Merge(i)
       /\ Guides!Exit(i) => Fetcher!Exit(i)
<1> USE DEF Guides!Slots, Fetcher!Slots, Slots, Guides!Empty, Fetcher!Empty,
            Guides!fetcherVars, Fetcher!fetcherVars,
            Guides!localVars, Fetcher!localVars,
            Guides!Started, Fetcher!Started, Guides!Merged, Fetcher!Merged,
            Guides!Serves, Fetcher!Serves, Guides!Unmodified,
            Fetcher!Unmodified, Guides!Return, Fetcher!Return,
            Guides!AfterRefresh, Fetcher!AfterRefresh
<1>1. Guides!BootMerge => Fetcher!BootMerge
  BY DEF Guides!BootMerge, Fetcher!BootMerge
<1>2. ASSUME NEW i \in Slots
      PROVE  /\ Guides!Publish(i) => Fetcher!Publish(i)
             /\ Guides!Ask(i) => Fetcher!Ask(i)
             /\ Guides!Answer(i) => Fetcher!Answer(i)
             /\ Guides!Parsed(i) => Fetcher!Parsed(i)
             /\ Guides!Merge(i) => Fetcher!Merge(i)
             /\ Guides!Exit(i) => Fetcher!Exit(i)
  <2>1. Guides!Publish(i) => Fetcher!Publish(i)
    BY DEF Guides!Publish, Fetcher!Publish
  <2>2. Guides!Ask(i) => Fetcher!Ask(i)
    BY DEF Guides!Ask, Fetcher!Ask, Guides!Turn, Fetcher!Turn
  <2>3. Guides!ReceivePlaylist(i) => Fetcher!ReceivePlaylist(i)
    BY DEF Guides!ReceivePlaylist, Fetcher!ReceivePlaylist
  <2>4. Guides!NotModified(i) => Fetcher!NotModified(i)
    BY DEF Guides!NotModified, Fetcher!NotModified
  <2>5. Guides!FetchFails(i) => Fetcher!FetchFails(i)
    BY DEF Guides!FetchFails, Fetcher!FetchFails, Guides!OnFailure,
           Fetcher!OnFailure
  <2>6. Guides!Store(i) => Fetcher!Store(i)
    BY DEF Guides!Store, Fetcher!Store, Guides!NewTag, Fetcher!NewTag
  <2>7. Guides!ParseFails(i) => Fetcher!ParseFails(i)
    BY DEF Guides!ParseFails, Fetcher!ParseFails, Guides!OnBadParse,
           Fetcher!OnBadParse
  <2>8. Guides!Merge(i) => Fetcher!Merge(i)
    BY DEF Guides!Merge, Fetcher!Merge, Guides!AfterMerge, Fetcher!AfterMerge
  <2>9. Guides!Exit(i) => Fetcher!Exit(i)
    BY DEF Guides!Exit, Fetcher!Exit, Guides!SeesDone, Fetcher!SeesDone
  <2> QED
    BY <2>1, <2>2, <2>3, <2>4, <2>5, <2>6, <2>7, <2>8, <2>9
    DEF Guides!Answer, Fetcher!Answer, Guides!Parsed, Fetcher!Parsed
<1> QED
  BY <1>1, <1>2

\* Every step of the process is one of the fetcher or leaves it alone.
LEMMA FetcherStep ==
  ASSUME Sequenced, [Next]_vars
  PROVE  [Fetcher!Next]_(Fetcher!vars)
<1> USE SameActions DEF Fetcher!Slots, Slots
<1>1. CASE StartFetchers
  BY <1>1 DEF StartFetchers, Fetcher!Next
<1>2. CASE Cancel
  <2>1. boot = N + 2 /\ ~cancelled
    BY <1>2 DEF Cancel, Sequenced
  <2>2. Fetcher!Cancel
    BY <1>2, <2>1
    DEF Cancel, Fetcher!Cancel, Fetcher!Started, Fetcher!fetcherVars,
        Fetcher!localVars
  <2> QED
    BY <2>2 DEF Fetcher!Next
<1>3. ASSUME NEW i \in Slots,
             \/ Publish(i) \/ Ask(i) \/ Answer(i) \/ Parsed(i)
             \/ Merge(i) \/ Exit(i)
      PROVE  Fetcher!Next
  <2>1. Fetcher!Publish(i) \/ Fetcher!Refresh(i)
    BY <1>3
    DEF Publish, Ask, Answer, Parsed, Merge, Exit, Fetcher!Refresh
  <2> QED
    BY <2>1 DEF Fetcher!Next
<1>4. ASSUME UNCHANGED <<guideVars, cancelled>>
      PROVE  UNCHANGED Fetcher!vars
  BY <1>4 DEF Fetcher!vars, Fetcher!fetcherVars, Fetcher!localVars
<1>5. CASE Load \/ BuildLineup \/ RefreshPlaylists \/ Advertise \/ Notify
             \/ Listen \/ ServeReturns \/ ServeFails
  BY <1>4, <1>5
  DEF Load, BuildLineup, RefreshPlaylists, Advertise, Notify, Listen,
      ServeReturns, ServeFails
<1>6. CASE Interrupt \/ Shutdown \/ AliveFails \/ Bye
  BY <1>4, <1>6 DEF Interrupt, Shutdown, AliveFails, Bye
<1>7. CASE UNCHANGED vars
  BY <1>4, <1>7 DEF vars
<1> QED
  BY <1>1, <1>2, <1>3, <1>5, <1>6, <1>7 DEF Next, Main, Over

LEMMA SequencedStep ==
  ASSUME Fetcher!TypeOK, Sequenced, [Next]_vars
  PROVE  Sequenced'
<1> USE DEF Sequenced
<1>1. N \in Nat
  BY GuidesAssumption
<1>2. CASE StartFetchers
  BY <1>2 DEF StartFetchers, Guides!BootMerge
<1>3. ASSUME NEW i \in Slots,
             \/ Publish(i) \/ Ask(i) \/ Answer(i) \/ Parsed(i)
             \/ Merge(i) \/ Exit(i)
      PROVE  Sequenced'
  <2>1. UNCHANGED <<processVars, cancelled>>
    BY <1>3 DEF Publish, Ask, Answer, Parsed, Merge, Exit
  <2>2. boot' = boot \/ (boot # N + 2 /\ boot' = boot + 1 /\ boot = i)
    <3>1. CASE Publish(i) \/ Ask(i) \/ Merge(i) \/ Exit(i)
      BY <3>1
      DEF Publish, Ask, Merge, Exit, Guides!Publish, Guides!Ask, Guides!Merge,
          Guides!Exit
    <3>2. CASE Answer(i) \/ Parsed(i)
      <4>1. (pc[i] # "idle" /\ Guides!Return(i)) \/ boot' = boot
        BY <3>2
        DEF Answer, Parsed, Guides!Answer, Guides!Parsed,
            Guides!ReceivePlaylist, Guides!NotModified, Guides!FetchFails,
            Guides!Store, Guides!ParseFails
      <4> QED
        BY <4>1
        DEF Guides!Return, Guides!Started, Fetcher!TypeOK, Fetcher!Started,
            Fetcher!Slots, Slots
    <3> QED
      BY <1>3, <3>1, <3>2
  <2>3. i \in Nat /\ i # N + 1
    BY <1>1 DEF Slots
  <2> QED
    BY <1>1, <2>1, <2>2, <2>3
<1>4. CASE Load \/ BuildLineup \/ RefreshPlaylists \/ Advertise \/ Notify
             \/ Listen \/ ServeReturns \/ ServeFails
  BY <1>4
  DEF Load, BuildLineup, RefreshPlaylists, Advertise, Notify, Listen,
      ServeReturns, ServeFails
<1>5. CASE Interrupt \/ Cancel \/ Shutdown \/ AliveFails \/ Bye
  BY <1>5 DEF Interrupt, Cancel, Shutdown, AliveFails, Bye
<1>6. CASE UNCHANGED vars
  BY <1>6 DEF vars
<1> QED
  BY <1>2, <1>3, <1>4, <1>5, <1>6 DEF Next, Main, Over

(***************************************************************************)
(* The guide fetcher inside the process is the fetcher of PlaylistRefresh: *)
(* main's order of refresh, start and shutdown is one its own model allows *)
(* (main.go:44-73; guide/fetcher.go:60-100).                               *)
(***************************************************************************)
THEOREM FetcherInProcess == Spec => Fetcher!Spec
<1>1. Init => Fetcher!TypeOK /\ Sequenced
  <2>1. ASSUME Init PROVE Fetcher!TypeOK
    BY <2>1, FetcherInit, Fetcher!TypeInit, FetcherAssumptions
  <2>2. ASSUME Init PROVE Sequenced
    BY <2>2, GuidesAssumption DEF Init, Guides!Init, Sequenced
  <2> QED
    BY <2>1, <2>2
<1>2. Fetcher!TypeOK /\ Sequenced /\ [Next]_vars
        => Fetcher!TypeOK' /\ Sequenced'
  BY FetcherStep, SequencedStep, Fetcher!TypeStep, FetcherAssumptions
<1> QED
  BY <1>1, <1>2, FetcherInit, FetcherStep, PTL DEF Spec, Fetcher!Spec

(***************************************************************************)
(* In the whole process, through main's order of things and whatever       *)
(* signals do, the guide index is a SourceCache: nothing older comes back  *)
(* and no source is lost (guide/fetcher.go:45, 85-168).                    *)
(***************************************************************************)
THEOREM GuideRefinement ==
  Fetcher!DistinctNames => (Spec => GuideIsSourceCache)
<1>1. Fetcher!DistinctNames => (Fetcher!Spec => Fetcher!ImplementsSourceCache)
  BY Fetcher!Refinement, FetcherAssumptions
<1>2. Fetcher!Merged = Guides!Merged /\ Fetcher!Slots = Guides!Slots
  BY DEF Fetcher!Merged, Guides!Merged, Fetcher!Slots, Guides!Slots
<1>3. Fetcher!Cache!Init => Guides!Cache!Init
  BY <1>2 DEF Fetcher!Cache!Init, Guides!Cache!Init
<1>4. [Fetcher!Cache!Next]_(Fetcher!Cache!vars)
        => [Guides!Cache!Next]_(Guides!Cache!vars)
  BY <1>2
  DEF Fetcher!Cache!Next, Guides!Cache!Next, Fetcher!Cache!vars,
      Guides!Cache!vars, Fetcher!Cache!Fetch, Guides!Cache!Fetch,
      Fetcher!Cache!Publish, Guides!Cache!Publish, Fetcher!Cache!NoOlder,
      Guides!Cache!NoOlder, Fetcher!Merged, Guides!Merged,
      Fetcher!Slots, Guides!Slots
<1>5. Fetcher!ImplementsSourceCache => GuideIsSourceCache
  BY <1>3, <1>4, PTL
  DEF Fetcher!ImplementsSourceCache, GuideIsSourceCache,
      Guides!ImplementsSourceCache, Fetcher!Cache!Spec, Guides!Cache!Spec
<1> QED
  BY <1>1, <1>5, FetcherInProcess, PTL

(***************************************************************************)
(* Every variable of the process keeps its type; a configuration stays one *)
(* with the defaults (main.go:24-88; config.go:128-162).                   *)
(***************************************************************************)
THEOREM TypeCorrect == Spec => []TypeOK
<1> DEFINE Inv ==
      /\ config \in ConfigType
      /\ main \in {"load", "lineup", "playlists", "guides", "advertise",
                   "notify", "listen", "serves"} \cup Ended
      /\ sigCh \in 0 .. 1
      /\ signals \in 0 .. MaxSignals
      /\ watcher \in {"none", "waits", "cancelled", "done"}
      /\ shutdown \in BOOLEAN
      /\ ad \in {"none", "announced", "abandoned", "bye"}
<1>1. Init => Inv
  <2> SUFFICES ASSUME Init PROVE Inv
    OBVIOUS
  <2>1. config \in ConfigType
    BY ConfigsAssumption DEF Init
  <2>2. sigCh \in 0 .. 1 /\ signals \in 0 .. MaxSignals
    BY SignalsAssumption DEF Init
  <2>3. shutdown \in BOOLEAN
    BY DEF Init
  <2> QED
    BY <2>1, <2>2, <2>3 DEF Init
<1>2. Inv /\ [Next]_vars => Inv'
  <2> SUFFICES ASSUME Inv, [Next]_vars PROVE Inv'
    OBVIOUS
  <2>1. CASE Load
    BY <2>1, DefaultsType DEF Load, Ended
  <2>2. CASE BuildLineup \/ RefreshPlaylists \/ StartFetchers \/ Advertise
    BY <2>2 DEF BuildLineup, RefreshPlaylists, StartFetchers, Advertise, Ended
  <2>3. CASE Notify \/ Listen \/ ServeReturns \/ ServeFails
    BY <2>3 DEF Notify, Listen, ServeReturns, ServeFails, Ended
  <2>4. CASE Interrupt
    BY <2>4, SignalsAssumption DEF Interrupt, Delivered, Ended
  <2>5. CASE Cancel \/ Shutdown \/ AliveFails \/ Bye
    <3>1. sigCh' \in 0 .. 1
      BY <2>5 DEF Cancel, Shutdown, AliveFails, Bye
    <3>2. UNCHANGED <<config, main, signals>>
      BY <2>5 DEF Cancel, Shutdown, AliveFails, Bye
    <3>3. /\ watcher' \in {"none", "waits", "cancelled", "done"}
          /\ shutdown' \in BOOLEAN
          /\ ad' \in {"none", "announced", "abandoned", "bye"}
      BY <2>5 DEF Cancel, Shutdown, AliveFails, Bye
    <3> QED
      BY <3>1, <3>2, <3>3
  <2>6. CASE \E i \in Slots :
               \/ Publish(i) \/ Ask(i) \/ Answer(i) \/ Parsed(i)
               \/ Merge(i) \/ Exit(i)
    BY <2>6 DEF Publish, Ask, Answer, Parsed, Merge, Exit
  <2>7. CASE UNCHANGED vars
    BY <2>7 DEF vars
  <2> QED
    BY <2>1, <2>2, <2>3, <2>4, <2>5, <2>6, <2>7 DEF Next, Main, Over
<1>3. Fetcher!TypeOK => Guides!TypeOK
  BY DEF Fetcher!TypeOK, Guides!TypeOK, Fetcher!Slots, Guides!Slots,
         Fetcher!Names, Guides!Names, Fetcher!Playlist, Guides!Playlist,
         Fetcher!Started, Guides!Started
<1>4. Fetcher!Spec => []Fetcher!TypeOK
  BY Fetcher!TypeCorrect, FetcherAssumptions
<1>5. Inv /\ Guides!TypeOK => TypeOK
  BY DEF TypeOK
<1> QED
  BY <1>1, <1>2, <1>3, <1>4, <1>5, FetcherInProcess, PTL DEF Spec

=============================================================================
