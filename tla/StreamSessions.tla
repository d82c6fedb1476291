--------------------------- MODULE StreamSessions ---------------------------
(***************************************************************************)
(* The control plane of internal/streamproxy for one channel number: the   *)
(* requests of Handler.ServeHTTP, the registry Handler.sessions, the       *)
(* goroutine runSession of every session, and the idle timers.  Channels   *)
(* share nothing but h.mu, which is held for finitely many steps, so that  *)
(* one channel is enough.                                                  *)
(*                                                                         *)
(* A request creates at most one session and arms at most one idle timer,  *)
(* so the request's name also names the session it created and the timer   *)
(* its unsubscribe armed.                                                  *)
(*                                                                         *)
(* Atomicity: session.mu is only ever held over code that waits for        *)
(* nothing, so that each of its critical sections is one step (their       *)
(* interior is StreamFanout).  h.mu is a variable, because                 *)
(* getOrCreateSession takes session.mu several times while holding it.     *)
(***************************************************************************)
EXTENDS Integers

CONSTANTS
  Requests,   \* the HTTP requests for the channel
  Streams,    \* the values of lineup.Stream the channel is matched to
  None,       \* no session, no request, no timer, no match
  MaxRematch, \* model bound: how often the channel's match changes
  MayShutDown \* model bound: whether the server may shut down

ASSUME NoneAssumption == None \notin Requests /\ None \notin Streams
ASSUME BoundsAssumption == MaxRematch \in Nat /\ MayShutDown \in BOOLEAN

VARIABLES
  match,      \* what lineup.Stream(number) returns
  rematches,  \* how often match has changed
  shutdown,   \* h.ctx is done
  hmu,        \* the request inside getOrCreateSession, which holds h.mu
  registry,   \* h.sessions[number]
  rpc,        \* where each request is
  stream,     \* the request's stream; also the stream of the session it made
  joined,     \* the session the request subscribed to
  phase,      \* where each session's runSession is
  ready,      \* session.ready is closed
  failed,     \* session.err is set
  closed,     \* session.closed
  cancelled,  \* session.cancel was called
  subs,       \* session.subs
  idleTimer,  \* session.idleTimer
  timer       \* where each idle timer and its endIfIdle is

lineupVars == <<match, rematches, shutdown>>
requestVars == <<rpc, stream, joined>>
producerVars == <<phase, ready, failed>>
sessionVars == <<closed, cancelled, subs, idleTimer>>
vars == <<lineupVars, hmu, registry, requestVars, producerVars, sessionVars,
          timer>>

Init ==
  /\ match \in Streams \cup {None}
  /\ rematches = 0
  /\ shutdown = FALSE
  /\ hmu = None
  /\ registry = None
  /\ rpc = [r \in Requests |-> "new"]
  /\ stream = [r \in Requests |-> None]
  /\ joined = [r \in Requests |-> None]
  /\ phase = [s \in Requests |-> "none"]
  /\ ready = [s \in Requests |-> FALSE]
  /\ failed = [s \in Requests |-> FALSE]
  /\ closed = [s \in Requests |-> FALSE]
  /\ cancelled = [s \in Requests |-> FALSE]
  /\ subs = [s \in Requests |-> {}]
  /\ idleTimer = [s \in Requests |-> None]
  /\ timer = [t \in Requests |-> "off"]

\* Mutant: the session's context does not derive from h.ctx.
CtxDone_OwnOnly(s) == cancelled[s]

\* The session's context: cancelled by stop, or by h.ctx at shutdown.
CtxDone(s) == cancelled[s] \/ shutdown

-----------------------------------------------------------------------------
(* The environment: a refresh changes the match, the server shuts down.     *)

Rematch ==
  /\ rematches < MaxRematch
  /\ \E m \in (Streams \cup {None}) \ {match} : match' = m
  /\ rematches' = rematches + 1
  /\ UNCHANGED <<shutdown, hmu, registry, requestVars, producerVars,
                 sessionVars, timer>>

Shutdown ==
  /\ MayShutDown
  /\ ~shutdown
  /\ shutdown' = TRUE
  /\ UNCHANGED <<match, rematches, hmu, registry, requestVars, producerVars,
                 sessionVars, timer>>

-----------------------------------------------------------------------------
(* session.stop and the idle timer.                                         *)

\* Mutant: the pending idle timer is not stopped.
Disarmed_Never(s) == timer

\* timer.Stop() on the session's idle timer: it only stops one not yet fired.
Disarmed(s) ==
  IF idleTimer[s] # None /\ timer[idleTimer[s]] = "armed"
  THEN [timer EXCEPT ![idleTimer[s]] = "off"]
  ELSE timer

\* The critical section of stop, on a session not yet closed.
MarkClosed(s) ==
  /\ closed' = [closed EXCEPT ![s] = TRUE]
  /\ subs' = [subs EXCEPT ![s] = {}]
  /\ idleTimer' = [idleTimer EXCEPT ![s] = None]

\* s.cancel(), which stop calls after it has released session.mu.
Cancel(s) == cancelled' = [cancelled EXCEPT ![s] = TRUE]

-----------------------------------------------------------------------------
(* The requests.                                                            *)

\* lineup.Stream(number): an unmatched channel is answered with 503.
Lookup(r) ==
  /\ rpc[r] = "new"
  /\ stream' = [stream EXCEPT ![r] = match]
  /\ rpc' = [rpc EXCEPT ![r] = IF match = None THEN "done" ELSE "tune"]
  /\ UNCHANGED <<lineupVars, hmu, registry, joined, producerVars, sessionVars,
                 timer>>

\* Mutant: any open session is joined, whichever stream it has.
SameStream_Any(s, r) == TRUE

\* s.stream.Equal(stream).
SameStream(s, r) == stream[s] = stream[r]

\* What getOrCreateSession does with the registry entry it finds.
Verdict(r) ==
  IF registry = None THEN "create"
  ELSE IF SameStream(registry, r) /\ ~closed[registry] THEN "join"
  ELSE "replace"

\* h.mu is taken, the registry read, which nobody else can change any more, and
\* then the entry's closed, under session.mu.
Lock(r) ==
  /\ rpc[r] = "tune"
  /\ hmu = None
  /\ hmu' = r
  /\ rpc' = [rpc EXCEPT ![r] = Verdict(r)]
  /\ joined' = [joined EXCEPT
                  ![r] = IF Verdict(r) = "join" THEN registry ELSE None]
  /\ UNCHANGED <<lineupVars, registry, stream, producerVars, sessionVars,
                 timer>>

\* Mutant: h.mu stays locked.
Unlock_Forgotten == UNCHANGED hmu

\* The deferred h.mu.Unlock().
Unlock == hmu' = None

\* subscribe: refused when the session was closed since Lock; else the idle
\* timer is stopped and the request added.  The deferred unlock follows.
Join(r) ==
  /\ rpc[r] = "join"
  /\ Unlock
  /\ LET s == joined[r] IN
       IF closed[s]
       THEN /\ rpc' = [rpc EXCEPT ![r] = "refused"]
            /\ UNCHANGED <<subs, idleTimer, timer>>
       ELSE /\ rpc' = [rpc EXCEPT ![r] = "wait"]
            /\ subs' = [subs EXCEPT ![s] = @ \cup {r}]
            /\ timer' = Disarmed(s)
            /\ idleTimer' = [idleTimer EXCEPT ![s] = None]
  /\ UNCHANGED <<lineupVars, registry, stream, joined, producerVars, closed,
                 cancelled>>

\* stop on the session to be replaced, up to its cancel.
Replace(r) ==
  /\ rpc[r] = "replace"
  /\ IF closed[registry]
     THEN /\ rpc' = [rpc EXCEPT ![r] = "create"]
          /\ UNCHANGED <<closed, subs, idleTimer, timer>>
     ELSE /\ rpc' = [rpc EXCEPT ![r] = "cancel"]
          /\ MarkClosed(registry)
          /\ timer' = Disarmed(registry)
  /\ UNCHANGED <<lineupVars, hmu, registry, stream, joined, producerVars,
                 cancelled>>

CancelReplaced(r) ==
  /\ rpc[r] = "cancel"
  /\ Cancel(registry)
  /\ rpc' = [rpc EXCEPT ![r] = "create"]
  /\ UNCHANGED <<lineupVars, hmu, registry, stream, joined, producerVars,
                 closed, subs, idleTimer, timer>>

\* Mutant: the request that creates a session subscribes to it later.
FirstSubs_None(r) == {}

\* The subscribers a session starts with.
FirstSubs(r) == {r}

\* A new session: its creator subscribed, registered, runSession started.
Create(r) ==
  /\ rpc[r] = "create"
  /\ subs' = [subs EXCEPT ![r] = FirstSubs(r)]
  /\ joined' = [joined EXCEPT ![r] = r]
  /\ registry' = r
  /\ phase' = [phase EXCEPT ![r] = "connect"]
  /\ Unlock
  /\ rpc' = [rpc EXCEPT ![r] = "wait"]
  /\ UNCHANGED <<lineupVars, stream, ready, failed, closed, cancelled,
                 idleTimer, timer>>

\* The request sees ready closed: a failed start is answered with 503.
SeeReady(r) ==
  /\ rpc[r] = "wait"
  /\ ready[joined[r]]
  /\ rpc' = [rpc EXCEPT ![r] = IF failed[joined[r]] THEN "leave" ELSE "stream"]
  /\ UNCHANGED <<lineupVars, hmu, registry, stream, joined, producerVars,
                 sessionVars, timer>>

\* The request's context is done, or a write to the client failed.
Disconnect(r) ==
  /\ rpc[r] \in {"wait", "stream"}
  /\ rpc' = [rpc EXCEPT ![r] = "leave"]
  /\ UNCHANGED <<lineupVars, hmu, registry, stream, joined, producerVars,
                 sessionVars, timer>>

\* take has returned closed: the session ended under the request.
SeeClosed(r) ==
  /\ rpc[r] = "stream"
  /\ closed[joined[r]]
  /\ rpc' = [rpc EXCEPT ![r] = "leave"]
  /\ UNCHANGED <<lineupVars, hmu, registry, stream, joined, producerVars,
                 sessionVars, timer>>

\* Mutant: unsubscribe leaves the idle timer alone.
ArmsTimer_Never(s, r) == FALSE

\* The last subscriber of an open session arms its idle timer.
ArmsTimer(s, r) == ~closed[s] /\ subs[s] = {r}

Unsubscribe(r) ==
  /\ rpc[r] = "leave"
  /\ rpc' = [rpc EXCEPT ![r] = "done"]
  /\ LET s == joined[r] IN
       /\ subs' = [subs EXCEPT ![s] = @ \ {r}]
       /\ idleTimer' =
            [idleTimer EXCEPT ![s] = IF ArmsTimer(s, r) THEN r ELSE @]
       /\ timer' = [timer EXCEPT ![r] = IF ArmsTimer(s, r) THEN "armed" ELSE @]
  /\ UNCHANGED <<lineupVars, hmu, registry, stream, joined, producerVars,
                 closed, cancelled>>

-----------------------------------------------------------------------------
(* endIfIdle, started by idle timer t of session joined[t].                 *)

TimerFires(t) ==
  /\ timer[t] = "armed"
  /\ timer' = [timer EXCEPT ![t] = "fired"]
  /\ UNCHANGED <<lineupVars, hmu, registry, requestVars, producerVars,
                 sessionVars>>

\* The condition of endIfIdle's check.
Idle(s) == ~closed[s] /\ subs[s] = {}

\* The check, under session.mu.
EndIfIdleCheck(t) ==
  /\ timer[t] = "fired"
  /\ timer' = [timer EXCEPT ![t] = IF Idle(joined[t]) THEN "remove" ELSE "off"]
  /\ UNCHANGED <<lineupVars, hmu, registry, requestVars, producerVars,
                 sessionVars>>

\* Mutant: the entry stays.
WithoutSession_Never(s) == registry

\* Mutant: the entry is deleted whichever session it holds.
WithoutSession_Any(s) == None

\* The registry after "if h.sessions[number] == s { delete }".
WithoutSession(s) == IF registry = s THEN None ELSE registry

EndIfIdleRemove(t) ==
  /\ timer[t] = "remove"
  /\ hmu = None
  /\ registry' = WithoutSession(joined[t])
  /\ timer' = [timer EXCEPT ![t] = "stop"]
  /\ UNCHANGED <<lineupVars, hmu, requestVars, producerVars, sessionVars>>

\* s.stop(), up to its cancel: nothing is left to do on a closed session.
EndIfIdleStop(t) ==
  /\ timer[t] = "stop"
  /\ LET s == joined[t] IN
       IF closed[s]
       THEN /\ timer' = [timer EXCEPT ![t] = "off"]
            /\ UNCHANGED <<closed, subs, idleTimer>>
       ELSE /\ MarkClosed(s)
            /\ timer' = [Disarmed(s) EXCEPT ![t] = "cancel"]
  /\ UNCHANGED <<lineupVars, hmu, registry, requestVars, producerVars,
                 cancelled>>

EndIfIdleCancel(t) ==
  /\ timer[t] = "cancel"
  /\ Cancel(joined[t])
  /\ timer' = [timer EXCEPT ![t] = "off"]
  /\ UNCHANGED <<lineupVars, hmu, registry, requestVars, producerVars, closed,
                 subs, idleTimer>>

-----------------------------------------------------------------------------
(* runSession.                                                              *)

\* A step of runSession that touches nothing but its own progress.
Proceed(s, from, to) ==
  /\ phase[s] = from
  /\ phase' = [phase EXCEPT ![s] = to]
  /\ UNCHANGED <<lineupVars, hmu, registry, requestVars, ready, failed,
                 sessionVars, timer>>

\* Mutant: startup that failed leaves ready open.
ReadyOnFailure_Never(s) == ready

\* fail closes ready.
ReadyOnFailure(s) == [ready EXCEPT ![s] = TRUE]

\* fail(err), and the return that runs the deferred function.
Fail(s, from) ==
  /\ phase[s] = from
  /\ phase' = [phase EXCEPT ![s] = "remove"]
  /\ failed' = [failed EXCEPT ![s] = TRUE]
  /\ ready' = ReadyOnFailure(s)
  /\ UNCHANGED <<lineupVars, hmu, registry, requestVars, sessionVars, timer>>

\* The session delivers data from now on.
BecomeReady(s, from) ==
  /\ phase[s] = from
  /\ phase' = [phase EXCEPT ![s] = "pump"]
  /\ ready' = [ready EXCEPT ![s] = TRUE]
  /\ UNCHANGED <<lineupVars, hmu, registry, requestVars, failed, sessionVars,
                 timer>>

\* No response: a bad URL, an error or timeout of Do, an error status, or the
\* context done.
UpstreamFails(s) == Fail(s, "connect")

\* Do returns a direct upstream, whose body is pumped, or an HLS playlist, the
\* body of which is closed.  The context may be done since.
UpstreamDirect(s) == BecomeReady(s, "connect")
UpstreamHLS(s) == Proceed(s, "connect", "ffmpeg")

\* cmd.Start: it fails when the context is done.
FFmpegStarts(s) == ~CtxDone(s) /\ Proceed(s, "ffmpeg", "firstread")
FFmpegFailsToStart(s) == Fail(s, "ffmpeg")

\* The first output within ffmpegStartupTimeout; otherwise ffmpeg is killed and
\* waited for.
FirstOutput(s) == BecomeReady(s, "firstread")
NoOutput(s) == Fail(s, "firstread")

\* pump returns when the upstream ends or the context is done; the body is
\* closed, or ffmpeg waited for.
UpstreamEnds(s) == Proceed(s, "pump", "remove")
PumpCancelled(s) == CtxDone(s) /\ Proceed(s, "pump", "remove")

\* The deferred function: the registry entry is deleted under h.mu ...
Remove(s) ==
  /\ phase[s] = "remove"
  /\ hmu = None
  /\ registry' = WithoutSession(s)
  /\ phase' = [phase EXCEPT ![s] = "stop"]
  /\ UNCHANGED <<lineupVars, hmu, requestVars, ready, failed, sessionVars,
                 timer>>

\* ... then the session is stopped, unless it already is, ...
StopSelf(s) ==
  /\ phase[s] = "stop"
  /\ IF closed[s]
     THEN /\ phase' = [phase EXCEPT ![s] = "over"]
          /\ UNCHANGED <<closed, subs, idleTimer, timer>>
     ELSE /\ phase' = [phase EXCEPT ![s] = "cancel"]
          /\ MarkClosed(s)
          /\ timer' = Disarmed(s)
  /\ UNCHANGED <<lineupVars, hmu, registry, requestVars, ready, failed,
                 cancelled>>

\* ... and its context released.
CancelSelf(s) ==
  /\ phase[s] = "cancel"
  /\ Cancel(s)
  /\ phase' = [phase EXCEPT ![s] = "over"]
  /\ UNCHANGED <<lineupVars, hmu, registry, requestVars, ready, failed, closed,
                 subs, idleTimer, timer>>

-----------------------------------------------------------------------------

\* The steps of a request that wait for nobody's client.
Tune(r) ==
  \/ Lock(r) \/ Join(r) \/ Replace(r) \/ CancelReplaced(r)
  \/ Create(r) \/ SeeReady(r) \/ Unsubscribe(r)

Request(r) == Lookup(r) \/ Tune(r) \/ Disconnect(r) \/ SeeClosed(r)

EndIfIdle(t) ==
  \/ TimerFires(t) \/ EndIfIdleCheck(t) \/ EndIfIdleRemove(t)
  \/ EndIfIdleStop(t) \/ EndIfIdleCancel(t)

\* The steps of runSession that come about by themselves or by a timeout.
Run(s) ==
  \/ UpstreamFails(s) \/ UpstreamDirect(s) \/ UpstreamHLS(s)
  \/ FFmpegStarts(s) \/ FFmpegFailsToStart(s) \/ FirstOutput(s) \/ NoOutput(s)
  \/ PumpCancelled(s) \/ Remove(s) \/ StopSelf(s) \/ CancelSelf(s)

\* Every request answered, every session over.
Finished ==
  /\ \A r \in Requests : rpc[r] \in {"done", "refused"}
  /\ \A s \in Requests : phase[s] \in {"none", "over"} /\ timer[s] = "off"
  /\ UNCHANGED vars

Next ==
  \/ Rematch
  \/ Shutdown
  \/ \E r \in Requests : Request(r)
  \/ \E t \in Requests : EndIfIdle(t)
  \/ \E s \in Requests : Run(s) \/ UpstreamEnds(s)
  \/ Finished

Spec == Init /\ [][Next]_vars

(***************************************************************************)
(* Fairness: goroutines that can run do.  Timers fire.  Connecting and     *)
(* waiting for the response are bounded by the transport's dial, TLS and   *)
(* header timeouts, the first output of ffmpeg by ffmpegStartupTimeout,    *)
(* and a cancelled context ends pump.  A request takes h.mu once, so weak  *)
(* fairness is enough for who waits for it.  Nothing is assumed of the     *)
(* arrival of requests, of clients leaving, or of the upstream ending.     *)
(***************************************************************************)
FairSpec ==
  /\ Spec
  /\ \A r \in Requests : WF_vars(Tune(r))
  /\ \A t \in Requests : WF_vars(EndIfIdle(t))
  /\ \A s \in Requests : WF_vars(Run(s))

-----------------------------------------------------------------------------
(* Properties.                                                              *)

Sessions == {s \in Requests : phase[s] # "none"}

\* Requests that take part in their session, and requests that hold h.mu.
Viewing == {"wait", "stream"}
Locked == {"join", "replace", "cancel", "create"}

TimerPhase == {"off", "armed", "fired", "remove", "stop", "cancel"}

TypeOK ==
  /\ match \in Streams \cup {None}
  /\ rematches \in Nat
  /\ shutdown \in BOOLEAN
  /\ hmu \in Requests \cup {None}
  /\ registry \in Requests \cup {None}
  /\ rpc \in [Requests -> Viewing \cup Locked \cup
                {"new", "tune", "leave", "done", "refused"}]
  /\ stream \in [Requests -> Streams \cup {None}]
  /\ joined \in [Requests -> Requests \cup {None}]
  /\ phase \in [Requests -> {"none", "connect", "ffmpeg",
                  "firstread", "pump", "remove", "stop", "cancel",
                  "over"}]
  /\ ready \in [Requests -> BOOLEAN]
  /\ failed \in [Requests -> BOOLEAN]
  /\ closed \in [Requests -> BOOLEAN]
  /\ cancelled \in [Requests -> BOOLEAN]
  /\ subs \in [Requests -> SUBSET Requests]
  /\ idleTimer \in [Requests -> Requests \cup {None}]
  /\ timer \in [Requests -> TimerPhase]
  /\ \A r \in Requests : (hmu = r) <=> (rpc[r] \in Locked)

(***************************************************************************)
(* Whenever h.mu is free, the registered session is open: every stopper    *)
(* first takes the entry out, or replaces it before it lets h.mu go        *)
(* (getOrCreateSession, endIfIdle and the defer of runSession against each *)
(* other).                                                                 *)
(***************************************************************************)
RegisteredIsOpen == hmu = None /\ registry # None => ~closed[registry]

(***************************************************************************)
(* The "rare race" of proxy.go:108-114 never happens: a session that was   *)
(* found open under h.mu is still open when it is joined under the same    *)
(* h.mu, so that no request is turned away with it.                        *)
(***************************************************************************)
JoinNeverRefused == \A r \in Requests : rpc[r] # "refused"

(***************************************************************************)
(* A request that waits for its session, or streams from it, is one of its *)
(* subscribers or will find it closed: nobody is forgotten by a session    *)
(* that ends, is replaced or has just been made (session.go:105-107).      *)
(***************************************************************************)
ViewersAreHeard ==
  \A r \in Requests :
    rpc[r] \in Viewing => r \in subs[joined[r]] \/ closed[joined[r]]

\* Somebody is about to call s.stop().
StopIsComing(s) ==
  \/ phase[s] \in {"remove", "stop"}
  \/ \E t \in Requests : joined[t] = s /\ timer[t] \in {"remove", "stop"}

\* Somebody is about to call s.cancel().
CancelIsComing(s) ==
  \/ phase[s] = "cancel"
  \/ \E t \in Requests : joined[t] = s /\ timer[t] = "cancel"
  \/ registry = s /\ \E r \in Requests : rpc[r] = "cancel"

(***************************************************************************)
(* No upstream connection is leaked: a session that can no longer be found *)
(* in the registry is being stopped, and one that is closed is cancelled   *)
(* or about to be.  Three parties delete or replace entries, each only if  *)
(* it still is the session it means (session.go:112-118, 187-193, 324-329).*)
(***************************************************************************)
NoOrphanSession ==
  \A s \in Sessions :
    /\ registry = s \/ closed[s] \/ StopIsComing(s)
    /\ closed[s] => cancelled[s] \/ CancelIsComing(s)

(***************************************************************************)
(* An open session without subscribers has somebody who will look after    *)
(* it: its idle timer is running, endIfIdle is at work, or its own         *)
(* goroutine is ending (unsubscribe, session.go:169-174, against subscribe,*)
(* which stops the timer, 150-153).                                        *)
(***************************************************************************)
IdleSessionIsWatched ==
  \A s \in Sessions :
    ~closed[s] /\ subs[s] = {} =>
      \/ StopIsComing(s)
      \/ \E t \in Requests : joined[t] = s /\ timer[t] \in {"armed", "fired"}

(***************************************************************************)
(* A running idle timer belongs to an open session without subscribers:    *)
(* every join and every stop has stopped it (session.go:150-153, 205-208). *)
(***************************************************************************)
ArmedTimersAreIdle ==
  \A t \in Requests : timer[t] = "armed" => Idle(joined[t])

\* The control plane as its clients see it: a request is tuning from its lookup
\* to its subscription, and served until it has unsubscribed; ...
Status ==
  [r \in Requests |->
     CASE rpc[r] \in {"tune"} \cup Locked -> "tuning"
       [] rpc[r] \in Viewing \cup {"leave"} -> "served"
       [] OTHER -> rpc[r]]

\* ... a session delivers to its viewers while it is open, ...
OpenSessions == {s \in Sessions : ~closed[s]}

\* ... and is on offer while it is registered as well.
Offered == IF registry \in OpenSessions THEN registry ELSE None

Shared ==
  INSTANCE SharedSessions WITH
    status <- Status, wants <- stream, offered <- Offered,
    open <- OpenSessions, viewers <- subs

(***************************************************************************)
(* The sessions are shared as SharedSessions says: a request is only let   *)
(* into an open session of the very stream it looked up, whatever          *)
(* refreshes and other requests do meanwhile; it opens one only when there *)
(* is none to share; and a session is closed only once nobody can be sent  *)
(* to it, or by a request for another stream (getOrCreateSession, 108-134  *)
(* of session.go, against endIfIdle, 179-194, and runSession, 324-329).    *)
(***************************************************************************)
ImplementsSharedSessions == Shared!Spec

(***************************************************************************)
(* Every request that tunes is answered: its session becomes ready or      *)
(* fails, even when it is stopped, replaced or shut down while it starts   *)
(* (ready is closed on every path of runSession and runRemux).             *)
(***************************************************************************)
RequestsAreAnswered ==
  \A r \in Requests :
    (rpc[r] \in {"tune", "wait"} \cup Locked)
      ~> (rpc[r] \in {"stream", "leave", "done"})

\* Nobody watches session s, or the server is shutting down.
Unwanted(s) == subs[s] = {} \/ shutdown

(***************************************************************************)
(* Unwanted sessions end: one without subscribers does unless somebody     *)
(* joins it (idleSessionGrace, session.go:61-65), and once h.ctx is        *)
(* cancelled every session does, whatever its phase and whatever its       *)
(* clients do (proxy.go:51-54).                                            *)
(***************************************************************************)
UnwantedSessionsEnd ==
  \A s \in Requests :
    (s \in Sessions /\ Unwanted(s)) ~> (~Unwanted(s) \/ phase[s] = "over")

-----------------------------------------------------------------------------
(* What the comments of the code say, and the code does not do.             *)

(***************************************************************************)
(* endIfIdle "tears down s if it's still idle (no subscribers)"            *)
(* (session.go:177-178): it stops no session that has subscribers.         *)
(***************************************************************************)
IdleTeardownSparesViewers ==
  [][\A t \in Requests :
       timer[t] = "stop" /\ timer'[t] = "cancel" => subs[joined[t]] = {}]_vars

(***************************************************************************)
(* An open session is replaced only "if the matched upstream URL/headers   *)
(* have changed since the existing session was started" (session.go:97-99).*)
(***************************************************************************)
ReplacedOnlyIfRematched ==
  [][\A s \in Sessions :
       hmu # None /\ registry = s /\ ~closed[s] /\ closed'[s]
         => stream[s] # match]_vars

=============================================================================
