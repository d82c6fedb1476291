------------------------------ MODULE Process ------------------------------
(***************************************************************************)
(* The process (cmd/iptv2hdhr/main.go) from reading its configuration to   *)
(* its end: main, the goroutine that waits for a signal, the goroutine     *)
(* that announces the device (internal/ssdp), and the guide fetcher        *)
(* (internal/guide/fetcher.go), which main starts and the context stops.   *)
(*                                                                         *)
(* The guide fetcher is the playlist fetcher without a callback, line for  *)
(* line but for what a document is, and is an instance of its model.  The  *)
(* index it publishes, channels and programmes by channel id, is a         *)
(* function of the sources' documents, and these stand for it.  The        *)
(* playlists' own refreshes are modelled in PlaylistRefresh, the sessions  *)
(* that the context ends in StreamSessions.                                *)
(***************************************************************************)
EXTENDS Config

CONSTANTS
  N,          \* how many guides are configured
  NameOf,     \* the configured name of each
  Tagged,     \* the guides whose server sends validators
  Nothing,    \* no document, no validators
  MaxVersion, \* model bound: how often each guide changes
  RawConfigs, \* the configuration files main may find
  MaxSignals  \* model bound: SIGINT and SIGTERM sent

VARIABLES
  config,   \* cfg; before Load, the file
  main,     \* where main is, or how the process has ended
  sigCh,    \* signals in sigCh, which has room for one
  signals,  \* how many were sent
  watcher,  \* the goroutine that receives from sigCh
  shutdown, \* httpServer.Shutdown has been called
  ad        \* the SSDP advertisement and its goroutine

VARIABLES version, lastGood, tags, current, boot, pc, asked, reply, cancelled

processVars == <<config, main, sigCh, signals, watcher, shutdown, ad>>
guideVars == <<version, lastGood, tags, current, boot, pc, asked, reply>>
vars == <<processVars, guideVars, cancelled>>

Slots == 1 .. N

\* gf: nothing follows its merges.
Guides == INSTANCE PlaylistRefresh WITH
  OnUpdate <- FALSE,
  lineup <- [i \in Slots |-> Nothing],
  loaded <- [i \in Slots |-> [j \in Slots |-> Nothing]]

\* At least one guide; with none there is nothing to fetch.
ASSUME GuidesAssumption ==
  /\ N \in Nat \ {0}
  /\ DOMAIN NameOf = Slots
  /\ Tagged \subseteq Slots
  /\ MaxVersion \in Nat
  /\ Nothing \notin [src : Slots, ver : Nat]

ASSUME SignalsAssumption == MaxSignals \in Nat

ASSUME ConfigsAssumption ==
  \A c \in RawConfigs : c \in ConfigType /\ Len(c.guides) = N

Ended == {"failed", "crashed", "killed", "returned"}
Running == main \notin Ended

Init ==
  /\ config \in RawConfigs
  /\ main = "load"
  /\ sigCh = 0
  /\ signals = 0
  /\ watcher = "none"
  /\ shutdown = FALSE
  /\ ad = "none"
  /\ Guides!Init

-----------------------------------------------------------------------------
(* main.  log.Fatal ends it as "failed" where the code expects it, and as   *)
(* "crashed" where Validate should have made it impossible.                 *)

UnchangedButMain ==
  UNCHANGED <<sigCh, signals, watcher, shutdown, ad, guideVars, cancelled>>

Load ==
  /\ main = "load"
  /\ config' = ApplyDefaults(config)
  /\ main' = IF Valid(config') THEN "lineup" ELSE "failed"
  /\ UnchangedButMain

\* lineup.New, which has its own check of the channel numbers.
BuildLineup ==
  /\ main = "lineup"
  /\ main' = IF \E i, j \in DOMAIN config.channels :
                  /\ i # j
                  /\ config.channels[i].number = config.channels[j].number
             THEN "crashed" ELSE "playlists"
  /\ UNCHANGED config
  /\ UnchangedButMain

\* pf.RefreshNow and the first Rebuild.
RefreshPlaylists ==
  /\ main = "playlists"
  /\ main' = "guides"
  /\ UNCHANGED config
  /\ UnchangedButMain

\* time.NewTicker panics for an interval that is not positive.
TickersPanic ==
  \/ \E i \in DOMAIN config.playlists : config.playlists[i].interval <= 0
  \/ \E i \in DOMAIN config.guides : config.guides[i].interval <= 0

\* gf.RefreshNow ends with a merge; the goroutines of both fetchers start.
StartFetchers ==
  /\ main = "guides"
  /\ Guides!BootMerge
  /\ main' = IF TickersPanic THEN "crashed" ELSE "advertise"
  /\ UNCHANGED <<config, sigCh, signals, watcher, shutdown, ad, cancelled>>

\* An error, of the outbound address or of the announcement, is logged.
Advertise ==
  /\ main = "advertise"
  /\ ad' \in {"none", "announced"}
  /\ main' = "notify"
  /\ UNCHANGED <<config, sigCh, signals, watcher, shutdown, guideVars,
                 cancelled>>

\* server.New, signal.Notify and the goroutine that waits for a signal.
Notify ==
  /\ main = "notify"
  /\ watcher' = "waits"
  /\ main' = "listen"
  /\ UNCHANGED <<config, sigCh, signals, shutdown, ad, guideVars, cancelled>>

\* ListenAndServe returns ErrServerClosed at once after a Shutdown.
Listen ==
  /\ main = "listen"
  /\ main' \in IF shutdown THEN {"returned"} ELSE {"serves", "failed"}
  /\ UNCHANGED config
  /\ UnchangedButMain

\* Shutdown makes ListenAndServe return, and main with it: whatever still
\* runs ends there.
ServeReturns ==
  /\ main = "serves"
  /\ shutdown
  /\ main' = "returned"
  /\ UNCHANGED config
  /\ UnchangedButMain

\* Accept fails for good, and ListenAndServe with it; after a Shutdown it
\* returns ErrServerClosed instead.
ServeFails ==
  /\ main = "serves"
  /\ ~shutdown
  /\ main' = "failed"
  /\ UNCHANGED config
  /\ UnchangedButMain

-----------------------------------------------------------------------------
(* Signals.                                                                 *)

\* Mutant: sigCh has no buffer, and a signal that finds nobody is dropped.
Delivered_Unbuffered == IF watcher = "waits" /\ main = "serves" THEN 1 ELSE 0

\* What sigCh holds after a signal: Notify does not block, and drops what it
\* has no room for.
Delivered == 1

\* Before signal.Notify a signal ends the process.
Interrupt ==
  /\ Running
  /\ signals < MaxSignals
  /\ signals' = signals + 1
  /\ IF watcher = "none"
     THEN main' = "killed" /\ UNCHANGED sigCh
     ELSE sigCh' = Delivered /\ UNCHANGED main
  /\ UNCHANGED <<config, watcher, shutdown, ad, guideVars, cancelled>>

\* The goroutine receives the signal and cancels the context.
Cancel ==
  /\ Running
  /\ watcher = "waits"
  /\ sigCh > 0
  /\ sigCh' = sigCh - 1
  /\ watcher' = "cancelled"
  /\ cancelled' = TRUE
  /\ UNCHANGED <<config, main, signals, shutdown, ad, guideVars>>

Shutdown ==
  /\ Running
  /\ watcher = "cancelled"
  /\ watcher' = "done"
  /\ shutdown' = TRUE
  /\ UNCHANGED <<config, main, sigCh, signals, ad, guideVars, cancelled>>

-----------------------------------------------------------------------------
(* The goroutine of ssdp.Advertise.                                         *)

\* An Alive fails: the goroutine returns, and nothing is sent any more.
AliveFails ==
  /\ Running
  /\ ad = "announced"
  /\ ad' = "abandoned"
  /\ UNCHANGED <<config, main, sigCh, signals, watcher, shutdown, guideVars,
                 cancelled>>

Bye ==
  /\ Running
  /\ ad = "announced"
  /\ cancelled
  /\ ad' = "bye"
  /\ UNCHANGED <<config, main, sigCh, signals, watcher, shutdown, guideVars,
                 cancelled>>

-----------------------------------------------------------------------------
(* The guide fetcher, while the process runs.                               *)

\* RefreshNow is in progress, or the goroutines are running.
Fetching == main = "guides" \/ (Guides!Started /\ Running)

Publish(i) ==
  /\ Fetching
  /\ Guides!Publish(i)
  /\ UNCHANGED <<processVars, cancelled>>

Ask(i) ==
  /\ Fetching
  /\ Guides!Ask(i)
  /\ UNCHANGED <<processVars, cancelled>>

Answer(i) ==
  /\ Fetching
  /\ Guides!Answer(i)
  /\ UNCHANGED <<processVars, cancelled>>

Parsed(i) ==
  /\ Fetching
  /\ Guides!Parsed(i)
  /\ UNCHANGED <<processVars, cancelled>>

Merge(i) ==
  /\ Fetching
  /\ Guides!Merge(i)
  /\ UNCHANGED <<processVars, cancelled>>

Exit(i) ==
  /\ Fetching
  /\ Guides!Exit(i)
  /\ UNCHANGED <<processVars, cancelled>>

-----------------------------------------------------------------------------

Main ==
  \/ Load \/ BuildLineup \/ RefreshPlaylists \/ StartFetchers
  \/ Advertise \/ Notify \/ Listen \/ ServeReturns

Over == ~Running /\ UNCHANGED vars

Next ==
  \/ Main \/ ServeFails
  \/ Interrupt \/ Cancel \/ Shutdown
  \/ AliveFails \/ Bye
  \/ \E i \in Slots :
       \/ Publish(i) \/ Ask(i) \/ Answer(i) \/ Parsed(i)
       \/ Merge(i) \/ Exit(i)
  \/ Over

Spec == Init /\ [][Next]_vars

(***************************************************************************)
(* Fairness: a goroutine that can run does, requests come back, tickers    *)
(* fire, and select does not overlook a done context for ever.  Nothing    *)
(* obliges signals, providers' changes, failing announcements or a failing *)
(* listener.                                                               *)
(***************************************************************************)
Fairness ==
  /\ WF_vars(Main) /\ WF_vars(Cancel) /\ WF_vars(Shutdown)
  /\ SF_vars(Bye)
  /\ \A i \in Slots :
       /\ WF_vars(Ask(i)) /\ WF_vars(Answer(i)) /\ WF_vars(Parsed(i))
       /\ WF_vars(Merge(i)) /\ SF_vars(Exit(i))

FairSpec == Spec /\ Fairness

-----------------------------------------------------------------------------
(* Properties.                                                              *)

TypeOK ==
  /\ config \in ConfigType
  /\ main \in {"load", "lineup", "playlists", "guides", "advertise", "notify",
              "listen", "serves"} \cup Ended
  /\ sigCh \in 0 .. 1
  /\ signals \in 0 .. MaxSignals
  /\ watcher \in {"none", "waits", "cancelled", "done"}
  /\ shutdown \in BOOLEAN
  /\ ad \in {"none", "announced", "abandoned", "bye"}
  /\ Guides!TypeOK

(***************************************************************************)
(* A configuration that Validate has accepted does not end the process     *)
(* later: lineup.New finds no duplicate, and no refresh goroutine starts a *)
(* ticker that panics (config.go:192-203, 210-218; lineup.go:62-64;        *)
(* playlist/fetcher.go:69; guide/fetcher.go:88).                           *)
(***************************************************************************)
AcceptedConfigRuns == main # "crashed"

(***************************************************************************)
(* The guide index never loses a source's programmes again and is never    *)
(* put together from documents of different moments, through main's        *)
(* initial refresh, concurrent refreshes and shutdown ("preserved across   *)
(* failed refreshes", guide/fetcher.go:45; merge, 133-168).                *)
(***************************************************************************)
GuideIsSourceCache == Guides!ImplementsSourceCache

\* The process has come to serve requests and nothing stops it.
Undisturbed == <>[](main = "serves")

\* No provider fails, or sends garbage, every time it is asked.
ProvidersRecover ==
  \A i \in Slots :
    /\ SF_vars(Answer(i) /\ ~Guides!FetchFails(i))
    /\ SF_vars(Parsed(i) /\ ~Guides!ParseFails(i))

(***************************************************************************)
(* While the process serves, the guide comes to show what the providers    *)
(* have, as long as they recover from their failures: no order of failed,  *)
(* unparsable, unmodified and concurrent refreshes leaves it on an older   *)
(* document for good (guide/fetcher.go:85-131).                            *)
(***************************************************************************)
GuideConverges ==
  Undisturbed /\ ProvidersRecover
    => <>[](\A i \in Slots : current[i] = Guides!Serves(i))

(***************************************************************************)
(* SIGINT and SIGTERM end the process whenever they arrive: during the     *)
(* initial refresh, between signal.Notify and ListenAndServe, while it     *)
(* serves, and however many there are (main.go:62-73).                     *)
(***************************************************************************)
SignalEndsProcess == (signals > 0) ~> ~Running

-----------------------------------------------------------------------------
(* What the comments of the code say, and the code does not do.             *)

(***************************************************************************)
(* "The advertisement runs until ctx is done, at which point it sends a    *)
(* "byebye" notification and stops" (ssdp.go:22-24): a process that a      *)
(* signal has shut down has withdrawn what it announced.                   *)
(***************************************************************************)
GoodbyeIsSent == main = "returned" => ad \in {"none", "bye"}

=============================================================================
