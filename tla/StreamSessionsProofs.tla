------------------------ MODULE StreamSessionsProofs ------------------------
(***************************************************************************)
(* The safety properties of StreamSessions hold for every set of requests  *)
(* and streams, and without the bounds on rematches and shutdown.          *)
(*                                                                         *)
(* None of them is inductive by itself: that the registered session is     *)
(* open rests on the order in which the three stoppers act, that order on  *)
(* who may still change the registry, and that on which request holds      *)
(* h.mu.  IndInv names these facts one by one.  With them, and with what   *)
(* requests know of the streams they have compared, StreamSessions         *)
(* implements SharedSessions, step by step.                                *)
(***************************************************************************)
EXTENDS StreamSessions, TLAPS

\* Once a session's end has taken its registry entry out, it stays out; a
\* registered session is one whose goroutine has started.
RegistrySound ==
  registry # None =>
    /\ phase[registry] \notin {"none", "stop", "cancel", "over"}
    /\ \A t \in Requests :
         joined[t] = registry => timer[t] \notin {"stop", "cancel"}

\* Only the request that is about to replace a registered session closes it.
EntryOpen ==
  registry # None /\ closed[registry]
    => \E r \in Requests : rpc[r] \in {"cancel", "create"}

\* What the holder of h.mu knows of the registry.
HolderSound ==
  \A r \in Requests :
    /\ rpc[r] = "join" => registry # None /\ joined[r] = registry
    /\ rpc[r] \in {"replace", "cancel"} => registry # None
    /\ rpc[r] \in {"cancel", "create"} /\ registry # None => closed[registry]

\* Requests and the sessions they have made or joined.
RequestSound ==
  \A r \in Requests :
    /\ phase[r] # "none" => rpc[r] \in Viewing \cup {"leave", "done"}
    /\ phase[r] = "none" => ~closed[r]
    /\ joined[r] # None => phase[joined[r]] # "none"
    /\ rpc[r] \in Viewing \cup {"leave"} => joined[r] # None

\* A timer belongs to a session that a returned request was the last to leave.
TimerSound ==
  \A t \in Requests :
    /\ timer[t] # "off" => rpc[t] = "done" /\ joined[t] # None
    /\ idleTimer[t] # None =>
         rpc[idleTimer[t]] = "done" /\ joined[idleTimer[t]] = t
    /\ timer[t] = "armed" => idleTimer[joined[t]] = t

IndInv ==
  /\ TypeOK
  /\ RegistrySound
  /\ EntryOpen
  /\ HolderSound
  /\ RequestSound
  /\ TimerSound
  /\ JoinNeverRefused
  /\ ViewersAreHeard
  /\ NoOrphanSession
  /\ IdleSessionIsWatched
  /\ ArmedTimersAreIdle

USE NoneAssumption
DEF lineupVars, requestVars, producerVars, sessionVars, Viewing, Locked,
    TimerPhase

\* timer.Stop() leaves every timer in a phase it can be in.
LEMMA DisarmedType ==
  ASSUME TypeOK, NEW s \in Requests
  PROVE  Disarmed(s) \in [Requests -> TimerPhase]
BY DEF TypeOK, Disarmed

\* Stopping a session's idle timer does not touch the timers of the others.
LEMMA DisarmedOthers ==
  ASSUME TypeOK, TimerSound,
         NEW s \in Requests, NEW t \in Requests, joined[t] # s
  PROVE  Disarmed(s)[t] = timer[t]
BY DEF TimerSound, Disarmed

\* A rematch, a shutdown, or a step that changes nothing preserves it.
LEMMA EnvironmentStep ==
  ASSUME IndInv, Rematch \/ Shutdown \/ UNCHANGED vars
  PROVE  IndInv'
<1>1. TypeOK'
  <2>1. /\ match' \in Streams \cup {None}
        /\ rematches' \in Nat
        /\ shutdown' \in BOOLEAN
    <3>1. CASE Rematch
      BY <3>1 DEF IndInv, TypeOK, Rematch
    <3>2. CASE ~Rematch
      BY <3>2 DEF IndInv, TypeOK, Shutdown, vars
    <3> QED BY <3>1, <3>2
  <2>2. UNCHANGED <<hmu, registry, requestVars, producerVars, sessionVars,
                    timer>>
    BY DEF Rematch, Shutdown, vars
  <2> QED BY <2>1, <2>2 DEF IndInv, TypeOK
<1>2. RegistrySound' /\ EntryOpen' /\ HolderSound'
  BY DEF IndInv, RegistrySound, EntryOpen, HolderSound, Rematch, Shutdown, vars
<1>3. RequestSound' /\ TimerSound' /\ JoinNeverRefused'
  BY DEF IndInv, RequestSound, TimerSound, JoinNeverRefused, Rematch, Shutdown,
         vars
<1>4. ViewersAreHeard'
  BY DEF IndInv, ViewersAreHeard, Rematch, Shutdown, vars
<1>5. NoOrphanSession'
  BY DEF IndInv, NoOrphanSession, Sessions, StopIsComing, CancelIsComing,
         Rematch, Shutdown, vars
<1>6. IdleSessionIsWatched' /\ ArmedTimersAreIdle'
  BY DEF IndInv, ArmedTimersAreIdle, IdleSessionIsWatched, Idle, Sessions,
         StopIsComing, Rematch, Shutdown, vars
<1> QED BY <1>1, <1>2, <1>3, <1>4, <1>5, <1>6 DEF IndInv

\* Lookup preserves the inductive invariant.
LEMMA LookupStep ==
  ASSUME IndInv, NEW r \in Requests, Lookup(r)
  PROVE  IndInv'
<1>1. TypeOK'
  BY DEF IndInv, TypeOK, Lookup
<1>2. RegistrySound' /\ EntryOpen' /\ HolderSound'
  BY DEF IndInv, RegistrySound, EntryOpen, HolderSound, Lookup
<1>3. RequestSound' /\ TimerSound' /\ JoinNeverRefused'
  BY DEF IndInv, RequestSound, TimerSound, JoinNeverRefused, Lookup
<1>4. ViewersAreHeard'
  BY DEF IndInv, ViewersAreHeard, Lookup
<1>5. NoOrphanSession'
  BY DEF IndInv, NoOrphanSession, Sessions, StopIsComing, CancelIsComing,
         Lookup
<1>6. IdleSessionIsWatched' /\ ArmedTimersAreIdle'
  BY DEF IndInv, ArmedTimersAreIdle, IdleSessionIsWatched, Idle, Sessions,
         StopIsComing, Lookup
<1> QED BY <1>1, <1>2, <1>3, <1>4, <1>5, <1>6 DEF IndInv

\* Lock preserves the inductive invariant.
LEMMA LockStep ==
  ASSUME IndInv, NEW r \in Requests, Lock(r)
  PROVE  IndInv'
<1>1. TypeOK'
  BY DEF IndInv, TypeOK, Lock, Verdict
<1>2. RegistrySound' /\ EntryOpen' /\ HolderSound'
  BY DEF IndInv, TypeOK, RegistrySound, EntryOpen, HolderSound, TimerSound,
         Lock, Verdict
<1>3. RequestSound' /\ TimerSound' /\ JoinNeverRefused'
  BY DEF IndInv, RegistrySound, RequestSound, TimerSound, JoinNeverRefused,
         Lock, Verdict
<1>4. ViewersAreHeard'
  BY DEF IndInv, ViewersAreHeard, Lock, Verdict
<1>5. NoOrphanSession'
  BY DEF IndInv, TimerSound, NoOrphanSession, Sessions, StopIsComing,
         CancelIsComing, Lock
<1>6. IdleSessionIsWatched' /\ ArmedTimersAreIdle'
  BY DEF IndInv, TimerSound, ArmedTimersAreIdle, IdleSessionIsWatched, Idle,
         Sessions, StopIsComing, Lock
<1> QED BY <1>1, <1>2, <1>3, <1>4, <1>5, <1>6 DEF IndInv

\* Join preserves the inductive invariant.
LEMMA JoinStep ==
  ASSUME IndInv, NEW r \in Requests, Join(r)
  PROVE  IndInv'
<1>1. TypeOK'
  BY DEF IndInv, TypeOK, Join, Unlock, Disarmed
<1>2. RegistrySound' /\ EntryOpen' /\ HolderSound'
  BY DEF IndInv, TypeOK, RegistrySound, EntryOpen, HolderSound, Join, Disarmed
<1>3. RequestSound' /\ TimerSound' /\ JoinNeverRefused'
  BY DEF IndInv, TypeOK, EntryOpen, HolderSound, RequestSound, TimerSound,
         JoinNeverRefused, Join, Disarmed
<1>4. ViewersAreHeard'
  BY DEF IndInv, TypeOK, HolderSound, RequestSound, ViewersAreHeard, Join
<1>5. NoOrphanSession'
  BY DEF IndInv, TypeOK, NoOrphanSession, Sessions, StopIsComing,
         CancelIsComing, Join, Disarmed
<1>6. IdleSessionIsWatched'
  <2> SUFFICES ASSUME NEW s \in Sessions', ~closed'[s], subs'[s] = {}
               PROVE  \/ StopIsComing(s)'
                      \/ \E t \in Requests :
                           joined'[t] = s /\ timer'[t] \in {"armed", "fired"}
    BY DEF IdleSessionIsWatched
  <2>0. /\ joined[r] \in Requests /\ s \in Requests
        /\ UNCHANGED <<phase, joined, closed>>
    BY DEF IndInv, TypeOK, HolderSound, Join, Sessions
  <2>1. s # joined[r] /\ subs[s] = {}
    BY <2>0 DEF IndInv, TypeOK, Join
  <2>2. \A t \in Requests : joined[t] = s => timer'[t] = timer[t]
    BY <2>0, <2>1, DisarmedOthers DEF IndInv, Join
  <2> QED
    BY <2>0, <2>1, <2>2
    DEF IndInv, IdleSessionIsWatched, StopIsComing, Sessions
<1>7. ArmedTimersAreIdle'
  BY DEF IndInv, TypeOK, TimerSound, ArmedTimersAreIdle, Idle, Join, Disarmed
<1> QED BY <1>1, <1>2, <1>3, <1>4, <1>5, <1>6, <1>7 DEF IndInv

\* Replace preserves the inductive invariant.
LEMMA ReplaceStep ==
  ASSUME IndInv, NEW r \in Requests, Replace(r)
  PROVE  IndInv'
<1>1. TypeOK'
  <2>1. /\ registry \in Requests
        /\ Disarmed(registry) \in [Requests -> TimerPhase]
    BY DisarmedType DEF IndInv, TypeOK, HolderSound, Replace
  <2>2. /\ closed' \in [Requests -> BOOLEAN]
        /\ subs' \in [Requests -> SUBSET Requests]
    BY <2>1 DEF IndInv, TypeOK, Replace, MarkClosed
  <2>3. /\ idleTimer' \in [Requests -> Requests \cup {None}]
        /\ timer' \in [Requests -> TimerPhase]
    BY <2>1 DEF IndInv, TypeOK, Replace, MarkClosed
  <2>4. /\ rpc' \in [Requests -> Viewing \cup Locked \cup
                        {"new", "tune", "leave", "done", "refused"}]
        /\ \A q \in Requests : (hmu' = q) <=> (rpc'[q] \in Locked)
    BY DEF IndInv, TypeOK, Replace
  <2> QED BY <2>2, <2>3, <2>4 DEF IndInv, TypeOK, Replace
<1>2. RegistrySound' /\ EntryOpen' /\ HolderSound'
  BY DEF IndInv, TypeOK, RegistrySound, EntryOpen, HolderSound, Replace,
         MarkClosed, Disarmed
<1>3. RequestSound' /\ TimerSound' /\ JoinNeverRefused'
  BY DEF IndInv, TypeOK, RegistrySound, RequestSound, TimerSound,
         JoinNeverRefused, Replace, MarkClosed, Disarmed
<1>4. ViewersAreHeard'
  BY DEF IndInv, TypeOK, RequestSound, ViewersAreHeard, Replace, MarkClosed
<1>5. NoOrphanSession'
  BY DEF IndInv, TypeOK, NoOrphanSession, Sessions, StopIsComing,
         CancelIsComing, Replace, MarkClosed, Disarmed
<1>6. IdleSessionIsWatched' /\ ArmedTimersAreIdle'
  BY DEF IndInv, TypeOK, RegistrySound, EntryOpen, HolderSound, TimerSound,
         ArmedTimersAreIdle, IdleSessionIsWatched, Idle, Sessions,
         StopIsComing, Replace, MarkClosed, Disarmed
<1> QED BY <1>1, <1>2, <1>3, <1>4, <1>5, <1>6 DEF IndInv

\* CancelReplaced preserves the inductive invariant.
LEMMA CancelReplacedStep ==
  ASSUME IndInv, NEW r \in Requests, CancelReplaced(r)
  PROVE  IndInv'
<1>1. TypeOK'
  BY DEF IndInv, TypeOK, HolderSound, CancelReplaced, Cancel
<1>2. RegistrySound' /\ EntryOpen' /\ HolderSound'
  BY DEF IndInv, RegistrySound, EntryOpen, HolderSound, CancelReplaced
<1>3. RequestSound' /\ TimerSound' /\ JoinNeverRefused'
  BY DEF IndInv, RequestSound, TimerSound, JoinNeverRefused, CancelReplaced
<1>4. ViewersAreHeard'
  BY DEF IndInv, ViewersAreHeard, CancelReplaced
<1>5. NoOrphanSession'
  BY DEF IndInv, TypeOK, NoOrphanSession, Sessions, StopIsComing,
         CancelIsComing, CancelReplaced, Cancel
<1>6. IdleSessionIsWatched' /\ ArmedTimersAreIdle'
  BY DEF IndInv, EntryOpen, ArmedTimersAreIdle, IdleSessionIsWatched, Idle,
         Sessions, StopIsComing, CancelReplaced
<1> QED BY <1>1, <1>2, <1>3, <1>4, <1>5, <1>6 DEF IndInv

\* Create preserves the inductive invariant.
LEMMA CreateStep ==
  ASSUME IndInv, NEW r \in Requests, Create(r)
  PROVE  IndInv'
<1>1. TypeOK'
  BY DEF IndInv, TypeOK, Create, FirstSubs, Unlock
<1>2. RegistrySound' /\ EntryOpen' /\ HolderSound'
  BY DEF IndInv, TypeOK, RegistrySound, EntryOpen, HolderSound, RequestSound,
         TimerSound, Create
<1>3. RequestSound' /\ TimerSound' /\ JoinNeverRefused'
  BY DEF IndInv, TypeOK, RequestSound, TimerSound, JoinNeverRefused, Create
<1>4. ViewersAreHeard'
  BY DEF IndInv, TypeOK, RequestSound, ViewersAreHeard, Create, FirstSubs
<1>5. NoOrphanSession'
  BY DEF IndInv, TypeOK, HolderSound, RequestSound, TimerSound,
         NoOrphanSession, Sessions, StopIsComing, CancelIsComing, Create
<1>6. IdleSessionIsWatched'
  <2> SUFFICES ASSUME NEW s \in Sessions', ~closed'[s], subs'[s] = {}
               PROVE  \/ StopIsComing(s)'
                      \/ \E t \in Requests :
                           joined'[t] = s /\ timer'[t] \in {"armed", "fired"}
    BY DEF IdleSessionIsWatched
  <2>1. /\ s # r /\ s \in Sessions /\ subs[s] = {} /\ ~closed[s]
        /\ phase'[s] = phase[s]
    BY DEF IndInv, TypeOK, Create, FirstSubs, Sessions
  <2>2. /\ timer[r] = "off" /\ timer' = timer
        /\ \A t \in Requests \ {r} : joined'[t] = joined[t]
    BY DEF IndInv, TimerSound, Create
  <2> QED BY <2>1, <2>2 DEF IndInv, IdleSessionIsWatched, StopIsComing
<1>7. ArmedTimersAreIdle'
  BY DEF IndInv, RequestSound, TimerSound, ArmedTimersAreIdle, Idle, Create
<1> QED BY <1>1, <1>2, <1>3, <1>4, <1>5, <1>6, <1>7 DEF IndInv

\* A request that only moves on (SeeReady, Disconnect, SeeClosed) preserves it.
LEMMA MovingStep ==
  ASSUME IndInv, NEW r \in Requests,
         SeeReady(r) \/ Disconnect(r) \/ SeeClosed(r)
  PROVE  IndInv'
<1>1. TypeOK'
  BY DEF IndInv, TypeOK, SeeReady, Disconnect, SeeClosed
<1>2. RegistrySound' /\ EntryOpen' /\ HolderSound'
  BY DEF IndInv, TypeOK, RegistrySound, EntryOpen, HolderSound, SeeReady,
         Disconnect, SeeClosed
<1>3. RequestSound' /\ TimerSound' /\ JoinNeverRefused'
  BY DEF IndInv, TypeOK, RequestSound, TimerSound, JoinNeverRefused, SeeReady,
         Disconnect, SeeClosed
<1>4. ViewersAreHeard'
  BY DEF IndInv, TypeOK, ViewersAreHeard, SeeReady, Disconnect, SeeClosed
<1>5. NoOrphanSession'
  BY DEF IndInv, TypeOK, NoOrphanSession, Sessions, StopIsComing,
         CancelIsComing, SeeReady, Disconnect, SeeClosed
<1>6. IdleSessionIsWatched' /\ ArmedTimersAreIdle'
  BY DEF IndInv, ArmedTimersAreIdle, IdleSessionIsWatched, Idle, Sessions,
         StopIsComing, SeeReady, Disconnect, SeeClosed
<1> QED BY <1>1, <1>2, <1>3, <1>4, <1>5, <1>6 DEF IndInv

\* Unsubscribe preserves the inductive invariant.
LEMMA UnsubscribeStep ==
  ASSUME IndInv, NEW r \in Requests, Unsubscribe(r)
  PROVE  IndInv'
<1> DEFINE s == joined[r]
<1>0. s \in Requests /\ rpc[r] = "leave" /\ timer[r] = "off"
  BY DEF IndInv, TypeOK, RequestSound, TimerSound, Unsubscribe
<1>1. TypeOK'
  <2>1. rpc' \in [Requests -> Viewing \cup Locked \cup
                     {"new", "tune", "leave", "done", "refused"}]
        /\ timer' \in [Requests -> TimerPhase]
    BY DEF IndInv, TypeOK, Unsubscribe
  <2>2. subs' \in [Requests -> SUBSET Requests]
        /\ idleTimer' \in [Requests -> Requests \cup {None}]
    BY DEF IndInv, TypeOK, Unsubscribe
  <2>3. \A q \in Requests : (hmu' = q) <=> (rpc'[q] \in Locked)
    BY DEF IndInv, TypeOK, Unsubscribe
  <2> QED BY <2>1, <2>2, <2>3 DEF IndInv, TypeOK, Unsubscribe
<1>2. RegistrySound' /\ EntryOpen' /\ HolderSound'
  BY DEF IndInv, RegistrySound, EntryOpen, HolderSound, Unsubscribe
<1>3. RequestSound' /\ JoinNeverRefused'
  BY DEF IndInv, RequestSound, JoinNeverRefused, Unsubscribe
<1>7. TimerSound'
  <2>1. CASE ArmsTimer(s, r)
    <3>1. \A t \in Requests : joined[t] = s => timer[t] # "armed"
      BY <2>1 DEF IndInv, ArmedTimersAreIdle, Idle, ArmsTimer
    <3>2. /\ UNCHANGED joined
          /\ rpc' = [rpc EXCEPT ![r] = "done"]
          /\ idleTimer' = [idleTimer EXCEPT ![s] = r]
          /\ timer' = [timer EXCEPT ![r] = "armed"]
      BY <1>0, <2>1 DEF Unsubscribe
    <3> QED BY <1>0, <3>1, <3>2 DEF IndInv, TypeOK, TimerSound
  <2>2. CASE ~ArmsTimer(s, r)
    <3>1. /\ UNCHANGED <<joined, idleTimer, timer>>
          /\ rpc' = [rpc EXCEPT ![r] = "done"]
      BY <1>0, <2>2 DEF IndInv, TypeOK, Unsubscribe
    <3> QED BY <1>0, <3>1 DEF IndInv, TimerSound
  <2> QED BY <2>1, <2>2
<1>4. ViewersAreHeard'
  BY DEF IndInv, ViewersAreHeard, Unsubscribe
<1>5. NoOrphanSession'
  BY DEF IndInv, TimerSound, NoOrphanSession, Sessions, StopIsComing,
         CancelIsComing, Unsubscribe
<1>6. IdleSessionIsWatched' /\ ArmedTimersAreIdle'
  BY DEF IndInv, TypeOK, RequestSound, ArmedTimersAreIdle,
         IdleSessionIsWatched, Idle, Sessions, StopIsComing, Unsubscribe,
         ArmsTimer
<1> QED BY <1>1, <1>2, <1>3, <1>7, <1>4, <1>5, <1>6 DEF IndInv

\* TimerFires preserves the inductive invariant.
LEMMA TimerFiresStep ==
  ASSUME IndInv, NEW r \in Requests, TimerFires(r)
  PROVE  IndInv'
<1>1. TypeOK'
  BY DEF IndInv, TypeOK, TimerFires
<1>2. RegistrySound' /\ EntryOpen' /\ HolderSound'
  BY DEF IndInv, RegistrySound, EntryOpen, HolderSound, TimerFires
<1>3. RequestSound' /\ TimerSound' /\ JoinNeverRefused'
  BY DEF IndInv, RequestSound, TimerSound, JoinNeverRefused, TimerFires
<1>4. ViewersAreHeard'
  BY DEF IndInv, ViewersAreHeard, TimerFires
<1>5. NoOrphanSession'
  BY DEF IndInv, NoOrphanSession, Sessions, StopIsComing, CancelIsComing,
         TimerFires
<1>6. IdleSessionIsWatched' /\ ArmedTimersAreIdle'
  BY DEF IndInv, ArmedTimersAreIdle, IdleSessionIsWatched, Idle, Sessions,
         StopIsComing, TimerFires
<1> QED BY <1>1, <1>2, <1>3, <1>4, <1>5, <1>6 DEF IndInv

\* EndIfIdleCheck preserves the inductive invariant.
LEMMA EndIfIdleCheckStep ==
  ASSUME IndInv, NEW r \in Requests, EndIfIdleCheck(r)
  PROVE  IndInv'
<1>1. TypeOK'
  BY DEF IndInv, TypeOK, EndIfIdleCheck
<1>2. RegistrySound' /\ EntryOpen' /\ HolderSound'
  BY DEF IndInv, RegistrySound, EntryOpen, HolderSound, EndIfIdleCheck
<1>3. RequestSound' /\ TimerSound' /\ JoinNeverRefused'
  BY DEF IndInv, RequestSound, TimerSound, JoinNeverRefused, EndIfIdleCheck
<1>4. ViewersAreHeard'
  BY DEF IndInv, ViewersAreHeard, EndIfIdleCheck
<1>5. NoOrphanSession'
  BY DEF IndInv, NoOrphanSession, Sessions, StopIsComing, CancelIsComing,
         EndIfIdleCheck
<1>6. IdleSessionIsWatched' /\ ArmedTimersAreIdle'
  BY DEF IndInv, ArmedTimersAreIdle, IdleSessionIsWatched, Idle, Sessions,
         StopIsComing, EndIfIdleCheck
<1> QED BY <1>1, <1>2, <1>3, <1>4, <1>5, <1>6 DEF IndInv

\* EndIfIdleRemove preserves the inductive invariant.
LEMMA EndIfIdleRemoveStep ==
  ASSUME IndInv, NEW r \in Requests, EndIfIdleRemove(r)
  PROVE  IndInv'
<1>1. TypeOK'
  BY DEF IndInv, TypeOK, EndIfIdleRemove, WithoutSession
<1>2. RegistrySound' /\ EntryOpen' /\ HolderSound'
  BY DEF IndInv, TypeOK, RegistrySound, EntryOpen, HolderSound,
         EndIfIdleRemove, WithoutSession
<1>3. RequestSound' /\ TimerSound' /\ JoinNeverRefused'
  BY DEF IndInv, RequestSound, TimerSound, JoinNeverRefused, EndIfIdleRemove
<1>4. ViewersAreHeard'
  BY DEF IndInv, ViewersAreHeard, EndIfIdleRemove
<1>5. NoOrphanSession'
  BY DEF IndInv, TypeOK, NoOrphanSession, Sessions, StopIsComing,
         CancelIsComing, EndIfIdleRemove, WithoutSession
<1>6. IdleSessionIsWatched' /\ ArmedTimersAreIdle'
  BY DEF IndInv, ArmedTimersAreIdle, IdleSessionIsWatched, Idle, Sessions,
         StopIsComing, EndIfIdleRemove
<1> QED BY <1>1, <1>2, <1>3, <1>4, <1>5, <1>6 DEF IndInv

\* EndIfIdleStop preserves the inductive invariant.
LEMMA EndIfIdleStopStep ==
  ASSUME IndInv, NEW r \in Requests, EndIfIdleStop(r)
  PROVE  IndInv'
<1>1. TypeOK'
  <2>1. /\ joined[r] \in Requests
        /\ Disarmed(joined[r]) \in [Requests -> TimerPhase]
    BY DisarmedType DEF IndInv, TypeOK, TimerSound, EndIfIdleStop
  <2>2. /\ closed' \in [Requests -> BOOLEAN]
        /\ subs' \in [Requests -> SUBSET Requests]
    BY <2>1 DEF IndInv, TypeOK, EndIfIdleStop, MarkClosed
  <2>3. /\ idleTimer' \in [Requests -> Requests \cup {None}]
        /\ timer' \in [Requests -> TimerPhase]
    BY <2>1 DEF IndInv, TypeOK, EndIfIdleStop, MarkClosed
  <2> QED BY <2>2, <2>3 DEF IndInv, TypeOK, EndIfIdleStop
<1>2. RegistrySound' /\ EntryOpen' /\ HolderSound'
  BY DEF IndInv, TypeOK, RegistrySound, EntryOpen, HolderSound, EndIfIdleStop,
         MarkClosed, Disarmed
<1>3. RequestSound' /\ TimerSound' /\ JoinNeverRefused'
  BY DEF IndInv, TypeOK, RequestSound, TimerSound, JoinNeverRefused,
         EndIfIdleStop, MarkClosed, Disarmed
<1>4. ViewersAreHeard'
  BY DEF IndInv, TypeOK, RequestSound, ViewersAreHeard, EndIfIdleStop,
         MarkClosed
<1>5. NoOrphanSession'
  BY DEF IndInv, TypeOK, NoOrphanSession, Sessions, StopIsComing,
         CancelIsComing, EndIfIdleStop, MarkClosed, Disarmed
<1>6. IdleSessionIsWatched' /\ ArmedTimersAreIdle'
  BY DEF IndInv, TypeOK, RequestSound, TimerSound, ArmedTimersAreIdle,
         IdleSessionIsWatched, Idle, Sessions, StopIsComing, EndIfIdleStop,
         MarkClosed, Disarmed
<1> QED BY <1>1, <1>2, <1>3, <1>4, <1>5, <1>6 DEF IndInv

\* EndIfIdleCancel preserves the inductive invariant.
LEMMA EndIfIdleCancelStep ==
  ASSUME IndInv, NEW r \in Requests, EndIfIdleCancel(r)
  PROVE  IndInv'
<1>1. TypeOK'
  BY DEF IndInv, TypeOK, TimerSound, EndIfIdleCancel, Cancel
<1>2. RegistrySound' /\ EntryOpen' /\ HolderSound'
  BY DEF IndInv, RegistrySound, EntryOpen, HolderSound, EndIfIdleCancel
<1>3. RequestSound' /\ TimerSound' /\ JoinNeverRefused'
  BY DEF IndInv, RequestSound, TimerSound, JoinNeverRefused, EndIfIdleCancel
<1>4. ViewersAreHeard'
  BY DEF IndInv, ViewersAreHeard, EndIfIdleCancel
<1>5. NoOrphanSession'
  BY DEF IndInv, TypeOK, NoOrphanSession, Sessions, StopIsComing,
         CancelIsComing, EndIfIdleCancel, Cancel
<1>6. IdleSessionIsWatched' /\ ArmedTimersAreIdle'
  BY DEF IndInv, ArmedTimersAreIdle, IdleSessionIsWatched, Idle, Sessions,
         StopIsComing, EndIfIdleCancel
<1> QED BY <1>1, <1>2, <1>3, <1>4, <1>5, <1>6 DEF IndInv

\* A step of runSession that only moves on preserves the inductive invariant.
LEMMA ProceedStep ==
  ASSUME IndInv, NEW r \in Requests,
         NEW from \in {"connect", "ffmpeg", "firstread", "pump"},
         NEW to \in {"ffmpeg", "firstread", "remove"},
         Proceed(r, from, to)
  PROVE  IndInv'
<1>1. TypeOK'
  BY DEF IndInv, TypeOK, Proceed
<1>2. RegistrySound' /\ EntryOpen' /\ HolderSound'
  BY DEF IndInv, RegistrySound, EntryOpen, HolderSound, Proceed
<1>3. RequestSound' /\ TimerSound' /\ JoinNeverRefused'
  BY DEF IndInv, RequestSound, TimerSound, JoinNeverRefused, Proceed
<1>4. ViewersAreHeard'
  BY DEF IndInv, ViewersAreHeard, Proceed
<1>5. NoOrphanSession'
  BY DEF IndInv, NoOrphanSession, Sessions, StopIsComing, CancelIsComing,
         Proceed
<1>6. IdleSessionIsWatched' /\ ArmedTimersAreIdle'
  BY DEF IndInv, ArmedTimersAreIdle, IdleSessionIsWatched, Idle, Sessions,
         StopIsComing, Proceed
<1> QED BY <1>1, <1>2, <1>3, <1>4, <1>5, <1>6 DEF IndInv

\* fail, wherever runSession calls it, preserves the inductive invariant.
LEMMA FailStep ==
  ASSUME IndInv, NEW r \in Requests,
         NEW from \in {"connect", "ffmpeg", "firstread", "pump"},
         Fail(r, from)
  PROVE  IndInv'
<1>1. TypeOK'
  BY DEF IndInv, TypeOK, Fail, ReadyOnFailure
<1>2. RegistrySound' /\ EntryOpen' /\ HolderSound'
  BY DEF IndInv, RegistrySound, EntryOpen, HolderSound, Fail
<1>3. RequestSound' /\ TimerSound' /\ JoinNeverRefused'
  BY DEF IndInv, RequestSound, TimerSound, JoinNeverRefused, Fail
<1>4. ViewersAreHeard'
  BY DEF IndInv, ViewersAreHeard, Fail
<1>5. NoOrphanSession'
  BY DEF IndInv, NoOrphanSession, Sessions, StopIsComing, CancelIsComing, Fail
<1>6. IdleSessionIsWatched' /\ ArmedTimersAreIdle'
  BY DEF IndInv, ArmedTimersAreIdle, IdleSessionIsWatched, Idle, Sessions,
         StopIsComing, Fail
<1> QED BY <1>1, <1>2, <1>3, <1>4, <1>5, <1>6 DEF IndInv

\* Closing ready on success preserves the inductive invariant.
LEMMA BecomeReadyStep ==
  ASSUME IndInv, NEW r \in Requests,
         NEW from \in {"connect", "ffmpeg", "firstread", "pump"},
         BecomeReady(r, from)
  PROVE  IndInv'
<1>1. TypeOK'
  BY DEF IndInv, TypeOK, BecomeReady
<1>2. RegistrySound' /\ EntryOpen' /\ HolderSound'
  BY DEF IndInv, RegistrySound, EntryOpen, HolderSound, BecomeReady
<1>3. RequestSound' /\ TimerSound' /\ JoinNeverRefused'
  BY DEF IndInv, RequestSound, TimerSound, JoinNeverRefused, BecomeReady
<1>4. ViewersAreHeard'
  BY DEF IndInv, ViewersAreHeard, BecomeReady
<1>5. NoOrphanSession'
  BY DEF IndInv, NoOrphanSession, Sessions, StopIsComing, CancelIsComing,
         BecomeReady
<1>6. IdleSessionIsWatched' /\ ArmedTimersAreIdle'
  BY DEF IndInv, ArmedTimersAreIdle, IdleSessionIsWatched, Idle, Sessions,
         StopIsComing, BecomeReady
<1> QED BY <1>1, <1>2, <1>3, <1>4, <1>5, <1>6 DEF IndInv

\* Remove preserves the inductive invariant.
LEMMA RemoveStep ==
  ASSUME IndInv, NEW r \in Requests, Remove(r)
  PROVE  IndInv'
<1>1. TypeOK'
  BY DEF IndInv, TypeOK, Remove, WithoutSession
<1>2. RegistrySound' /\ EntryOpen' /\ HolderSound'
  BY DEF IndInv, TypeOK, RegistrySound, EntryOpen, HolderSound, Remove,
         WithoutSession
<1>3. RequestSound' /\ TimerSound' /\ JoinNeverRefused'
  BY DEF IndInv, RequestSound, TimerSound, JoinNeverRefused, Remove
<1>4. ViewersAreHeard'
  BY DEF IndInv, ViewersAreHeard, Remove
<1>5. NoOrphanSession'
  BY DEF IndInv, TypeOK, NoOrphanSession, Sessions, StopIsComing,
         CancelIsComing, Remove, WithoutSession
<1>6. IdleSessionIsWatched' /\ ArmedTimersAreIdle'
  BY DEF IndInv, ArmedTimersAreIdle, IdleSessionIsWatched, Idle, Sessions,
         StopIsComing, Remove
<1> QED BY <1>1, <1>2, <1>3, <1>4, <1>5, <1>6 DEF IndInv

\* StopSelf preserves the inductive invariant.
LEMMA StopSelfStep ==
  ASSUME IndInv, NEW r \in Requests, StopSelf(r)
  PROVE  IndInv'
<1>1. TypeOK'
  <2>1. r \in Requests /\ Disarmed(r) \in [Requests -> TimerPhase]
    BY DisarmedType DEF IndInv
  <2>2. /\ closed' \in [Requests -> BOOLEAN]
        /\ subs' \in [Requests -> SUBSET Requests]
    BY DEF IndInv, TypeOK, StopSelf, MarkClosed
  <2>3. /\ idleTimer' \in [Requests -> Requests \cup {None}]
        /\ timer' \in [Requests -> TimerPhase]
    BY <2>1 DEF IndInv, TypeOK, StopSelf, MarkClosed
  <2>4. phase' \in [Requests -> {"none", "connect", "ffmpeg", "firstread",
                                "pump", "remove", "stop", "cancel", "over"}]
    BY DEF IndInv, TypeOK, StopSelf
  <2> QED BY <2>2, <2>3, <2>4 DEF IndInv, TypeOK, StopSelf
<1>2. RegistrySound' /\ EntryOpen' /\ HolderSound'
  BY DEF IndInv, TypeOK, RegistrySound, EntryOpen, HolderSound, StopSelf,
         MarkClosed, Disarmed
<1>3. RequestSound' /\ TimerSound' /\ JoinNeverRefused'
  BY DEF IndInv, TypeOK, RequestSound, TimerSound, JoinNeverRefused, StopSelf,
         MarkClosed, Disarmed
<1>4. ViewersAreHeard'
  BY DEF IndInv, TypeOK, RequestSound, ViewersAreHeard, StopSelf, MarkClosed
<1>5. NoOrphanSession'
  BY DEF IndInv, TypeOK, NoOrphanSession, Sessions, StopIsComing,
         CancelIsComing, StopSelf, MarkClosed, Disarmed
<1>6. IdleSessionIsWatched' /\ ArmedTimersAreIdle'
  BY DEF IndInv, TypeOK, TimerSound, ArmedTimersAreIdle, IdleSessionIsWatched,
         Idle, Sessions, StopIsComing, StopSelf, MarkClosed, Disarmed
<1> QED BY <1>1, <1>2, <1>3, <1>4, <1>5, <1>6 DEF IndInv

\* CancelSelf preserves the inductive invariant.
LEMMA CancelSelfStep ==
  ASSUME IndInv, NEW r \in Requests, CancelSelf(r)
  PROVE  IndInv'
<1>1. TypeOK'
  BY DEF IndInv, TypeOK, CancelSelf, Cancel
<1>2. RegistrySound' /\ EntryOpen' /\ HolderSound'
  BY DEF IndInv, RegistrySound, EntryOpen, HolderSound, CancelSelf
<1>3. RequestSound' /\ TimerSound' /\ JoinNeverRefused'
  BY DEF IndInv, RequestSound, TimerSound, JoinNeverRefused, CancelSelf
<1>4. ViewersAreHeard'
  BY DEF IndInv, ViewersAreHeard, CancelSelf
<1>5. NoOrphanSession'
  BY DEF IndInv, TypeOK, NoOrphanSession, Sessions, StopIsComing,
         CancelIsComing, CancelSelf, Cancel
<1>6. IdleSessionIsWatched' /\ ArmedTimersAreIdle'
  BY DEF IndInv, ArmedTimersAreIdle, IdleSessionIsWatched, Idle, Sessions,
         StopIsComing, CancelSelf
<1> QED BY <1>1, <1>2, <1>3, <1>4, <1>5, <1>6 DEF IndInv

-----------------------------------------------------------------------------

\* Every step of one session's goroutine.
LEMMA RunStep ==
  ASSUME IndInv, NEW s \in Requests, Run(s) \/ UpstreamEnds(s)
  PROVE  IndInv'
<1>1. CASE \E from, to : /\ from \in {"connect", "ffmpeg", "firstread", "pump"}
                         /\ to \in {"ffmpeg", "firstread", "remove"}
                         /\ Proceed(s, from, to)
  BY <1>1, ProceedStep
<1>2. CASE \E from \in {"connect", "ffmpeg", "firstread"} : Fail(s, from)
  BY <1>2, FailStep
<1>3. CASE \E from \in {"connect", "firstread"} : BecomeReady(s, from)
  BY <1>3, BecomeReadyStep
<1>4. CASE Remove(s) \/ StopSelf(s) \/ CancelSelf(s)
  BY <1>4, RemoveStep, StopSelfStep, CancelSelfStep
<1> QED
  BY <1>1, <1>2, <1>3, <1>4
  DEF Run, UpstreamFails, UpstreamDirect, UpstreamHLS, FFmpegStarts,
      FFmpegFailsToStart, FirstOutput, NoOutput, PumpCancelled, UpstreamEnds

\* The initial states satisfy the inductive invariant.
LEMMA IndInvInit == Init => IndInv
<1> SUFFICES ASSUME Init PROVE IndInv
  OBVIOUS
<1>1. TypeOK
  BY DEF Init, TypeOK
<1>2. RegistrySound /\ EntryOpen /\ HolderSound /\ RequestSound /\ TimerSound
  BY DEF Init, RegistrySound, EntryOpen, HolderSound, RequestSound, TimerSound
<1>3. JoinNeverRefused /\ ViewersAreHeard /\ NoOrphanSession
      /\ IdleSessionIsWatched /\ ArmedTimersAreIdle
  BY DEF Init, JoinNeverRefused, ViewersAreHeard, NoOrphanSession,
         IdleSessionIsWatched, ArmedTimersAreIdle, Sessions
<1> QED BY <1>1, <1>2, <1>3 DEF IndInv

\* Every step preserves it.
LEMMA IndInvStep == IndInv /\ [Next]_vars => IndInv'
<1> SUFFICES ASSUME IndInv, [Next]_vars PROVE IndInv'
  OBVIOUS
<1>1. CASE Rematch \/ Shutdown \/ Finished \/ UNCHANGED vars
  BY <1>1, EnvironmentStep DEF Finished
<1>2. ASSUME NEW r \in Requests, Request(r) PROVE IndInv'
  BY <1>2, LookupStep, LockStep, JoinStep, ReplaceStep, CancelReplacedStep,
     CreateStep, MovingStep, UnsubscribeStep DEF Request, Tune
<1>3. ASSUME NEW t \in Requests, EndIfIdle(t) PROVE IndInv'
  BY <1>3, TimerFiresStep, EndIfIdleCheckStep, EndIfIdleRemoveStep,
     EndIfIdleStopStep, EndIfIdleCancelStep DEF EndIfIdle
<1>4. ASSUME NEW s \in Requests, Run(s) \/ UpstreamEnds(s) PROVE IndInv'
  BY <1>4, RunStep
<1> QED BY <1>1, <1>2, <1>3, <1>4 DEF Next

\* Every state the program reaches satisfies the inductive invariant.
THEOREM IndInvHolds == Spec => []IndInv
BY IndInvInit, IndInvStep, PTL DEF Spec

\* The state has the types the code gives it, and h.mu is held exactly by the
\* request that is inside getOrCreateSession.
THEOREM TypeCorrect == Spec => []TypeOK
BY IndInvHolds, PTL DEF IndInv

\* Whenever h.mu is free, the registered session is open: getOrCreateSession,
\* endIfIdle and runSession unregister a session before they close it, or
\* replace it under the same h.mu.
THEOREM RegisteredSessionOpen == Spec => []RegisteredIsOpen
<1>1. IndInv => RegisteredIsOpen
  BY DEF IndInv, TypeOK, EntryOpen, RegisteredIsOpen
<1> QED BY <1>1, IndInvHolds, PTL

\* subscribe never returns ok = false to getOrCreateSession: the answer of
\* proxy.go:108-114 is unreachable.
THEOREM NoRequestRefused == Spec => []JoinNeverRefused
BY IndInvHolds, PTL DEF IndInv

\* Every waiting or streaming request is subscribed, or its session closed.
THEOREM NobodyForgotten == Spec => []ViewersAreHeard
BY IndInvHolds, PTL DEF IndInv

\* A session that left the registry is being stopped, a closed one cancelled.
THEOREM NoConnectionLeaked == Spec => []NoOrphanSession
BY IndInvHolds, PTL DEF IndInv

\* An open session without subscribers has a timer, or is being ended.
THEOREM IdleSessionsWatched == Spec => []IdleSessionIsWatched
BY IndInvHolds, PTL DEF IndInv

\* A running idle timer belongs to an open session without subscribers.
THEOREM RunningTimersIdle == Spec => []ArmedTimersAreIdle
BY IndInvHolds, PTL DEF IndInv

-----------------------------------------------------------------------------
(* session.ready, which many ends of runSession's start close.              *)

(***************************************************************************)
(* A session has closed ready exactly when it is past its start, whether   *)
(* it delivers or has failed (session.go:221, 371, 480): nobody waits for  *)
(* a session whose goroutine has gone on or returned.                      *)
(***************************************************************************)
ReadyEndsStart ==
  \A s \in Requests :
    ready[s] <=> phase[s] \notin {"none", "connect", "ffmpeg", "firstread"}

\* The steps of runSession that call close(s.ready).
ClosesReady(s) ==
  \/ UpstreamFails(s) \/ UpstreamDirect(s)
  \/ FFmpegFailsToStart(s) \/ FirstOutput(s) \/ NoOutput(s)

(***************************************************************************)
(* No session closes ready twice, which would panic and end the process:   *)
(* whichever way its start goes, no second one can follow                  *)
(* (session.go:221, 371, 480).                                             *)
(***************************************************************************)
ReadyClosedOnce ==
  [][\A s \in Requests : ClosesReady(s) => ~ready[s]]_vars

\* Every step of a session's goroutine preserves ReadyEndsStart.
LEMMA RunKeepsReady ==
  ASSUME IndInv, ReadyEndsStart, NEW s \in Requests, Run(s) \/ UpstreamEnds(s)
  PROVE  ReadyEndsStart'
<1> USE DEF ReadyEndsStart, IndInv, TypeOK
<1>1. CASE UpstreamFails(s) \/ FFmpegFailsToStart(s) \/ NoOutput(s)
  BY <1>1 DEF UpstreamFails, FFmpegFailsToStart, NoOutput, Fail, ReadyOnFailure
<1>2. CASE UpstreamDirect(s) \/ FirstOutput(s)
  BY <1>2 DEF UpstreamDirect, FirstOutput, BecomeReady
<1>3. CASE UpstreamHLS(s) \/ FFmpegStarts(s)
  BY <1>3 DEF UpstreamHLS, FFmpegStarts, Proceed
<1>4. CASE PumpCancelled(s) \/ UpstreamEnds(s)
  BY <1>4 DEF PumpCancelled, UpstreamEnds, Proceed
<1>5. CASE Remove(s) \/ StopSelf(s) \/ CancelSelf(s)
  BY <1>5 DEF Remove, StopSelf, CancelSelf
<1> QED
  BY <1>1, <1>2, <1>3, <1>4, <1>5 DEF Run

\* Every step preserves it; of the other steps only Create starts a session,
\* and none closes ready.
LEMMA ReadyEndsStartStep ==
  IndInv /\ ReadyEndsStart /\ [Next]_vars => ReadyEndsStart'
<1> SUFFICES ASSUME IndInv, ReadyEndsStart, [Next]_vars PROVE ReadyEndsStart'
  OBVIOUS
<1>1. CASE UNCHANGED <<phase, ready>>
  BY <1>1 DEF ReadyEndsStart
<1>2. CASE \E r \in Requests : Create(r)
  <2>1. PICK r \in Requests : Create(r)
    BY <1>2
  <2>2. phase[r] = "none"
    BY <2>1 DEF IndInv, RequestSound, Create
  <2> QED
    BY <2>1, <2>2 DEF IndInv, TypeOK, ReadyEndsStart, Create
<1>3. CASE \E s \in Requests : Run(s) \/ UpstreamEnds(s)
  BY <1>3, RunKeepsReady
<1>4. CASE \E r \in Requests : Request(r) /\ ~Create(r)
  BY <1>1, <1>4 DEF Request, Tune, Lookup, Lock, Join, Replace,
     CancelReplaced, SeeReady, Unsubscribe, Disconnect, SeeClosed
<1>5. CASE \E t \in Requests : EndIfIdle(t)
  BY <1>1, <1>5 DEF EndIfIdle, TimerFires, EndIfIdleCheck, EndIfIdleRemove,
     EndIfIdleStop, EndIfIdleCancel
<1>6. CASE Rematch \/ Shutdown \/ Finished \/ UNCHANGED vars
  BY <1>1, <1>6 DEF Rematch, Shutdown, Finished, vars
<1> QED
  BY <1>2, <1>3, <1>4, <1>5, <1>6 DEF Next

\* A session has closed ready exactly when it is past its start.
THEOREM StartEndsReady == Spec => []ReadyEndsStart
<1>1. Init => ReadyEndsStart
  BY DEF Init, ReadyEndsStart
<1> QED
  BY <1>1, ReadyEndsStartStep, IndInvHolds, PTL DEF Spec

\* The half of "exactly once" that a wait for ready does not see: no session
\* closes ready a second time.
THEOREM ReadyNeverClosedTwice == Spec => ReadyClosedOnce
<1>1. ReadyEndsStart /\ [Next]_vars
        => [\A s \in Requests : ClosesReady(s) => ~ready[s]]_vars
  BY DEF ReadyEndsStart, ClosesReady, UpstreamFails, UpstreamDirect,
     FFmpegFailsToStart, FirstOutput, NoOutput, Fail, BecomeReady
<1> QED
  BY <1>1, StartEndsReady, PTL DEF Spec, ReadyClosedOnce

-----------------------------------------------------------------------------
(* The refinement of SharedSessions.                                        *)

\* What getOrCreateSession found out about the streams is still true when it
\* acts on it: a request looks its stream up once, before it makes a session.
StreamsCompared ==
  \A r \in Requests :
    /\ rpc[r] = "join" => stream[registry] = stream[r]
    /\ rpc[r] = "replace" => stream[registry] # stream[r]

\* A request is a subscriber of at most one session, while it takes part in it.
SubscribersKnown ==
  \A s, r \in Requests :
    r \in subs[s] => joined[r] = s /\ rpc[r] \in Viewing \cup {"leave"}

\* Nobody sees a difference.
Stutter == UNCHANGED <<match, Status, stream, Offered, OpenSessions, subs>>

\* Nobody else closes or unregisters a session while a request joins it or is
\* about to replace it.
LEMMA HeldIsOpen ==
  ASSUME IndInv, NEW r \in Requests, rpc[r] \in {"join", "replace"}
  PROVE  registry \in OpenSessions /\ Offered = registry
BY DEF IndInv, TypeOK, RegistrySound, EntryOpen, HolderSound, OpenSessions,
       Offered, Sessions

\* While h.mu is free, what is registered is on offer.
LEMMA RegisteredIsOffered ==
  ASSUME IndInv, hmu = None
  PROVE  Offered = registry
BY DEF IndInv, TypeOK, RegistrySound, EntryOpen, OpenSessions, Offered,
       Sessions

\* The initial states satisfy the facts that the refinement needs.
LEMMA RefInvInit == Init => StreamsCompared /\ SubscribersKnown
BY DEF Init, StreamsCompared, SubscribersKnown

\* Every step of a request preserves what it knows of the streams.
LEMMA StreamsComparedStep ==
  ASSUME IndInv, StreamsCompared, [Next]_vars
  PROVE  StreamsCompared'
<1>0. \A r \in Requests : rpc[r] \in Locked => hmu = r
  BY DEF IndInv, TypeOK
<1>1. registry # None => registry \in Requests /\ rpc[registry] # "new"
  BY DEF IndInv, TypeOK, RegistrySound, RequestSound
<1>2. ASSUME NEW q \in Requests, Lookup(q) PROVE StreamsCompared'
  BY <1>1, <1>2 DEF IndInv, TypeOK, HolderSound, StreamsCompared, Lookup
<1>3. ASSUME NEW q \in Requests, Lock(q) PROVE StreamsCompared'
  <2>1. registry # None => ~closed[registry]
    BY <1>0, <1>3 DEF IndInv, EntryOpen, Lock
  <2> QED
    BY <1>0, <1>3, <2>1
    DEF IndInv, TypeOK, StreamsCompared, Lock, Verdict, SameStream
<1>4. ASSUME NEW q \in Requests,
             \/ Join(q) \/ Replace(q) \/ CancelReplaced(q) \/ Create(q)
             \/ SeeReady(q) \/ Unsubscribe(q) \/ Disconnect(q) \/ SeeClosed(q)
      PROVE  StreamsCompared'
  <2>1. UNCHANGED stream
    BY <1>4 DEF Join, Replace, CancelReplaced, Create, SeeReady,
       Unsubscribe, Disconnect, SeeClosed
  <2>2. \A r \in Requests :
          rpc'[r] \in {"join", "replace"} =>
            rpc'[r] = rpc[r] /\ UNCHANGED registry
    BY <1>0, <1>4 DEF IndInv, TypeOK, Join, Replace, CancelReplaced, Create,
       SeeReady, Unsubscribe, Disconnect, SeeClosed
  <2> QED BY <2>1, <2>2 DEF StreamsCompared
<1>5. CASE \/ Rematch \/ Shutdown \/ Finished \/ UNCHANGED vars
           \/ \E t \in Requests : EndIfIdle(t) \/ Run(t) \/ UpstreamEnds(t)
  <2>1. /\ UNCHANGED <<rpc, stream>>
        /\ UNCHANGED registry \/ hmu = None
    BY <1>5 DEF Rematch, Shutdown, Finished, vars, EndIfIdle, TimerFires,
       EndIfIdleCheck, EndIfIdleRemove, EndIfIdleStop, EndIfIdleCancel, Run,
       UpstreamFails, UpstreamDirect, UpstreamHLS, FFmpegStarts,
       FFmpegFailsToStart, FirstOutput, NoOutput, PumpCancelled, UpstreamEnds,
       Proceed, Fail, BecomeReady, Remove, StopSelf, CancelSelf
  <2> QED BY <1>0, <2>1 DEF StreamsCompared
<1> QED BY <1>2, <1>3, <1>4, <1>5 DEF Next, Request, Tune

\* Every step keeps the subscribers of a session its own.
LEMMA SubscribersKnownStep ==
  ASSUME IndInv, SubscribersKnown, [Next]_vars
  PROVE  SubscribersKnown'
<1>1. ASSUME NEW q \in Requests, Lookup(q) \/ Lock(q) PROVE SubscribersKnown'
  BY <1>1 DEF IndInv, TypeOK, SubscribersKnown, Lookup, Lock
<1>2. ASSUME NEW q \in Requests, Join(q) PROVE SubscribersKnown'
  BY <1>2 DEF IndInv, TypeOK, HolderSound, SubscribersKnown, Join
<1>3. ASSUME NEW q \in Requests, Replace(q) \/ CancelReplaced(q)
      PROVE  SubscribersKnown'
  BY <1>3 DEF IndInv, TypeOK, HolderSound, SubscribersKnown, Replace,
     CancelReplaced, MarkClosed
<1>4. ASSUME NEW q \in Requests, Create(q) PROVE SubscribersKnown'
  BY <1>4 DEF IndInv, TypeOK, SubscribersKnown, Create, FirstSubs
<1>5. ASSUME NEW q \in Requests,
             SeeReady(q) \/ Disconnect(q) \/ SeeClosed(q)
      PROVE  SubscribersKnown'
  BY <1>5 DEF IndInv, TypeOK, SubscribersKnown, SeeReady, Disconnect, SeeClosed
<1>6. ASSUME NEW q \in Requests, Unsubscribe(q) PROVE SubscribersKnown'
  BY <1>6 DEF IndInv, TypeOK, RequestSound, SubscribersKnown, Unsubscribe
<1>7. CASE \/ Rematch \/ Shutdown \/ Finished \/ UNCHANGED vars
           \/ \E t \in Requests : EndIfIdle(t) \/ Run(t) \/ UpstreamEnds(t)
  <2>1. /\ UNCHANGED <<rpc, joined>>
        /\ \/ UNCHANGED subs
           \/ \E s \in Requests \cup {None} : subs' = [subs EXCEPT ![s] = {}]
    BY <1>7 DEF IndInv, TypeOK, Rematch, Shutdown, Finished, vars, EndIfIdle,
       TimerFires, EndIfIdleCheck, EndIfIdleRemove, EndIfIdleStop,
       EndIfIdleCancel, Run, UpstreamFails, UpstreamDirect, UpstreamHLS,
       FFmpegStarts, FFmpegFailsToStart, FirstOutput, NoOutput, PumpCancelled,
       UpstreamEnds, Proceed, Fail, BecomeReady, Remove, StopSelf, CancelSelf,
       MarkClosed
  <2> QED BY <2>1 DEF IndInv, TypeOK, SubscribersKnown
<1> QED BY <1>1, <1>2, <1>3, <1>4, <1>5, <1>6, <1>7 DEF Next, Request, Tune

\* The facts that the refinement needs hold in every reachable state.
LEMMA RefInvHolds == Spec => [](StreamsCompared /\ SubscribersKnown)
<1>1. IndInv /\ StreamsCompared /\ SubscribersKnown /\ [Next]_vars
        => (StreamsCompared /\ SubscribersKnown)'
  BY StreamsComparedStep, SubscribersKnownStep
<1> QED BY RefInvInit, <1>1, IndInvHolds, PTL DEF Spec

\* The initial states are initial states of SharedSessions.
LEMMA InitRefines == Init => Shared!Init
BY DEF Init, Shared!Init, Status, Offered, OpenSessions, Sessions

\* A rematch is one; a shutdown shows only in what follows from it.
LEMMA EnvironmentRefines ==
  ASSUME Rematch \/ Shutdown \/ Finished \/ UNCHANGED vars
  PROVE  [Shared!Next]_Shared!vars
<1>1. UNCHANGED <<Status, stream, Offered, OpenSessions, subs>>
  BY DEF Rematch, Shutdown, Finished, vars, Status, Offered, OpenSessions,
         Sessions
<1>2. CASE Rematch
  BY <1>1, <1>2 DEF Rematch, Shared!Next, Shared!Rematch
<1>3. CASE ~Rematch
  BY <1>1, <1>3 DEF Shutdown, Finished, vars, Shared!vars
<1> QED BY <1>2, <1>3

\* Lookup is Ask.
LEMMA LookupRefines ==
  ASSUME IndInv, NEW r \in Requests, Lookup(r)
  PROVE  Shared!Ask(r)
<1>1. /\ Status[r] = "new"
      /\ Status' = [Status EXCEPT ![r] = IF match = None THEN "done"
                                         ELSE "tuning"]
  BY DEF IndInv, TypeOK, Lookup, Status
<1>2. UNCHANGED <<match, Offered, OpenSessions, subs>>
  BY DEF Lookup, Offered, OpenSessions, Sessions
<1> QED BY <1>1, <1>2 DEF Shared!Ask, Lookup

\* The steps of a request that its client does not see: taking h.mu,
\* cancelling the session it replaces, and those that lead to its unsubscribe.
LEMMA QuietRequestRefines ==
  ASSUME IndInv, NEW r \in Requests,
         \/ Lock(r) \/ CancelReplaced(r) \/ SeeReady(r) \/ Disconnect(r)
         \/ SeeClosed(r)
  PROVE  Stutter
<1>1. UNCHANGED <<match, stream, registry, phase, closed, subs>>
  BY DEF Lock, CancelReplaced, SeeReady, Disconnect, SeeClosed
<1>2. Status' = Status
  BY DEF IndInv, TypeOK, Status, Lock, Verdict, CancelReplaced, SeeReady,
         Disconnect, SeeClosed
<1> QED BY <1>1, <1>2 DEF Stutter, Offered, OpenSessions, Sessions

\* Join is Share.
LEMMA JoinRefines ==
  ASSUME IndInv, StreamsCompared, NEW r \in Requests, Join(r)
  PROVE  Shared!Share(r)
<1>1. /\ registry \in OpenSessions /\ Offered = registry
      /\ joined[r] = registry /\ ~closed[registry]
  BY HeldIsOpen DEF IndInv, HolderSound, Join, OpenSessions
<1>2. /\ Status[r] = "tuning"
      /\ Status' = [Status EXCEPT ![r] = "served"]
  BY <1>1 DEF IndInv, TypeOK, Join, Status
<1>3. UNCHANGED <<match, stream, Offered, OpenSessions>>
  BY DEF Join, Offered, OpenSessions, Sessions
<1>4. subs' = [subs EXCEPT ![Offered] = @ \cup {r}]
  BY <1>1 DEF Join
<1>5. stream[Offered] = stream[r]
  BY <1>1 DEF StreamsCompared, Join
<1> QED BY <1>1, <1>2, <1>3, <1>4, <1>5 DEF Shared!Share, Shared!Watch

\* Replace is Supersede.
LEMMA ReplaceRefines ==
  ASSUME IndInv, StreamsCompared, NEW r \in Requests, Replace(r)
  PROVE  Shared!Supersede(r)
<1>1. registry \in OpenSessions /\ Offered = registry /\ ~closed[registry]
  BY HeldIsOpen DEF Replace, OpenSessions
<1>2. Status[r] = "tuning" /\ Status' = Status
  BY <1>1 DEF IndInv, TypeOK, Replace, Status
<1>3. UNCHANGED <<match, stream>> /\ subs' = [subs EXCEPT ![Offered] = {}]
  BY <1>1 DEF Replace, MarkClosed
<1>4. OpenSessions' = OpenSessions \ {Offered} /\ Offered' = None
  BY <1>1 DEF IndInv, TypeOK, Replace, MarkClosed, Offered, OpenSessions,
     Sessions
<1>5. stream[Offered] # stream[r]
  BY <1>1 DEF StreamsCompared, Replace
<1> QED
  BY <1>1, <1>2, <1>3, <1>4, <1>5 DEF Shared!Supersede, Shared!Close

\* Create is Open.
LEMMA CreateRefines ==
  ASSUME IndInv, SubscribersKnown, NEW r \in Requests, Create(r)
  PROVE  Shared!Open(r)
<1>1. phase[r] = "none" /\ ~closed[r] /\ Offered = None
  BY DEF IndInv, RequestSound, HolderSound, Create, Offered, OpenSessions,
         Sessions
<1>2. /\ Status[r] = "tuning"
      /\ Status' = [Status EXCEPT ![r] = "served"]
  BY DEF IndInv, TypeOK, Create, Status
<1>3. /\ r \notin OpenSessions
      /\ OpenSessions' = OpenSessions \cup {r}
      /\ Offered' = r
  BY <1>1 DEF IndInv, TypeOK, Create, Offered, OpenSessions, Sessions
<1>4. subs' = [subs EXCEPT ![r] = @ \cup {r}]
  <2>1. subs[r] = {}
    BY <1>1 DEF IndInv, TypeOK, RequestSound, SubscribersKnown
  <2> QED BY <2>1 DEF Create, FirstSubs
<1> QED BY <1>1, <1>2, <1>3, <1>4 DEF Shared!Open, Shared!Watch, Create

\* Unsubscribe is Leave.
LEMMA UnsubscribeRefines ==
  ASSUME IndInv, SubscribersKnown, NEW r \in Requests, Unsubscribe(r)
  PROVE  Shared!Leave(r)
<1>1. /\ Status[r] = "served"
      /\ Status' = [Status EXCEPT ![r] = "done"]
  BY DEF IndInv, TypeOK, Unsubscribe, Status
<1>2. UNCHANGED <<match, stream, Offered, OpenSessions>>
  BY DEF Unsubscribe, Offered, OpenSessions, Sessions
<1>3. subs' = [s \in Requests |-> subs[s] \ {r}]
  <2>1. /\ subs = [s \in Requests |-> subs[s]]
        /\ subs' = [subs EXCEPT ![joined[r]] = @ \ {r}]
    BY DEF IndInv, TypeOK, Unsubscribe
  <2>2. \A s \in Requests : s # joined[r] => subs[s] = subs[s] \ {r}
    BY DEF SubscribersKnown
  <2> QED BY <2>1, <2>2
<1> QED BY <1>1, <1>2, <1>3 DEF Shared!Leave

\* Taking the session out of the registry, by whomever, is Withdraw, or nothing
\* when it no longer is there.
LEMMA RemovalRefines ==
  ASSUME IndInv, NEW s \in Requests, hmu = None,
         registry' = WithoutSession(s),
         UNCHANGED <<match, rpc, stream, closed, subs>>,
         Sessions' = Sessions
  PROVE  Shared!Withdraw \/ Stutter
<1>1. UNCHANGED <<Status, OpenSessions>>
  BY DEF Status, OpenSessions
<1>2. CASE registry = s
  <2>1. Offered = s /\ s \in OpenSessions /\ Offered' = None
    BY <1>1, <1>2, RegisteredIsOffered
    DEF WithoutSession, Offered
  <2> QED BY <1>1, <2>1 DEF Shared!Withdraw
<1>3. CASE registry # s
  BY <1>1, <1>3 DEF Stutter, WithoutSession, Offered
<1> QED BY <1>2, <1>3

\* The end of a session that is no longer registered, by whomever, is End.
LEMMA StopRefines ==
  ASSUME IndInv, NEW s \in Sessions, ~closed[s], registry # s, MarkClosed(s),
         UNCHANGED <<match, rpc, stream, registry>>,
         Sessions' = Sessions
  PROVE  Shared!End(s)
<1>1. OpenSessions' = OpenSessions \ {s} /\ s \in OpenSessions
  BY DEF IndInv, TypeOK, MarkClosed, OpenSessions, Sessions
<1>2. Offered' = Offered /\ s # Offered
  BY <1>1 DEF Offered, Sessions
<1>3. Status' = Status
  BY DEF Status
<1> QED BY <1>1, <1>2, <1>3 DEF Shared!End, Shared!Close, MarkClosed

\* endIfIdle withdraws its session, then ends it.
LEMMA EndIfIdleRefines ==
  ASSUME IndInv, NEW t \in Requests, EndIfIdle(t)
  PROVE  Shared!Withdraw \/ Stutter \/ \E s \in Requests : Shared!End(s)
<1>1. CASE TimerFires(t) \/ EndIfIdleCheck(t) \/ EndIfIdleCancel(t)
  BY <1>1 DEF TimerFires, EndIfIdleCheck, EndIfIdleCancel, Stutter, Status,
     Offered, OpenSessions, Sessions
<1>2. CASE EndIfIdleRemove(t)
  <2>1. joined[t] \in Requests
    BY <1>2 DEF IndInv, TypeOK, TimerSound, EndIfIdleRemove
  <2> QED BY <1>2, <2>1, RemovalRefines DEF EndIfIdleRemove, Sessions
<1>3. CASE EndIfIdleStop(t)
  <2>1. joined[t] \in Sessions /\ registry # joined[t]
    BY <1>3 DEF IndInv, TypeOK, TimerSound, RequestSound, RegistrySound,
       EndIfIdleStop, Sessions
  <2>2. CASE closed[joined[t]]
    BY <1>3, <2>2 DEF EndIfIdleStop, Stutter, Status, Offered, OpenSessions,
       Sessions
  <2>3. CASE ~closed[joined[t]]
    BY <1>3, <2>1, <2>3, StopRefines DEF EndIfIdleStop, Sessions
  <2> QED BY <2>2, <2>3
<1> QED BY <1>1, <1>2, <1>3 DEF EndIfIdle

\* So does runSession; nobody sees its other steps.
LEMMA RunRefines ==
  ASSUME IndInv, NEW s \in Requests, Run(s) \/ UpstreamEnds(s)
  PROVE  Shared!Withdraw \/ Stutter \/ Shared!End(s)
<1>1. CASE Remove(s)
  <2>1. Sessions' = Sessions
    BY <1>1 DEF IndInv, TypeOK, Remove, Sessions
  <2> QED BY <1>1, <2>1, RemovalRefines DEF Remove
<1>2. CASE StopSelf(s)
  <2>1. s \in Sessions /\ registry # s /\ Sessions' = Sessions
    BY <1>2 DEF IndInv, TypeOK, RegistrySound, StopSelf, Sessions
  <2>2. CASE closed[s]
    BY <1>2, <2>1, <2>2 DEF StopSelf, Stutter, Status, Offered, OpenSessions
  <2>3. CASE ~closed[s]
    BY <1>2, <2>1, <2>3, StopRefines DEF StopSelf
  <2> QED BY <2>2, <2>3
<1>3. CASE ~Remove(s) /\ ~StopSelf(s)
  <2>1. UNCHANGED <<match, rpc, stream, registry, closed, subs>>
    BY <1>3 DEF Run, UpstreamFails, UpstreamDirect, UpstreamHLS, FFmpegStarts,
       FFmpegFailsToStart, FirstOutput, NoOutput, PumpCancelled, UpstreamEnds,
       Proceed, Fail, BecomeReady, CancelSelf
  <2>2. Sessions' = Sessions
    BY <1>3 DEF IndInv, TypeOK, Run, UpstreamFails, UpstreamDirect,
       UpstreamHLS, FFmpegStarts, FFmpegFailsToStart, FirstOutput, NoOutput,
       PumpCancelled, UpstreamEnds, Proceed, Fail, BecomeReady, CancelSelf,
       Sessions
  <2> QED BY <2>1, <2>2 DEF Stutter, Status, Offered, OpenSessions
<1> QED BY <1>1, <1>2, <1>3

\* Every step is a step of SharedSessions, or shows nothing.
LEMMA StepRefines ==
  ASSUME IndInv, StreamsCompared, SubscribersKnown, [Next]_vars
  PROVE  [Shared!Next]_Shared!vars
<1>1. CASE Rematch \/ Shutdown \/ Finished \/ UNCHANGED vars
  BY <1>1, EnvironmentRefines
<1>2. ASSUME NEW r \in Requests, Request(r)
      PROVE  Shared!Request(r) \/ Stutter
  BY <1>2, LookupRefines, QuietRequestRefines, JoinRefines, ReplaceRefines,
     CreateRefines, UnsubscribeRefines DEF Request, Tune, Shared!Request
<1>3. CASE \E t \in Requests : EndIfIdle(t) \/ Run(t) \/ UpstreamEnds(t)
  BY <1>3, EndIfIdleRefines, RunRefines DEF Stutter, Shared!Next, Shared!vars
<1>4. CASE \E r \in Requests : Request(r)
  BY <1>2, <1>4 DEF Stutter, Shared!Next, Shared!vars
<1> QED BY <1>1, <1>3, <1>4 DEF Next

\* However refreshes, requests, idle timers and ending sessions interleave, and
\* for any number of them, the sessions of a channel are shared as
\* SharedSessions says.
THEOREM Refinement == Spec => ImplementsSharedSessions
<1>1. Spec => Shared!Spec
  BY InitRefines, StepRefines, IndInvHolds, RefInvHolds, PTL
  DEF Spec, Shared!Spec
<1> QED BY <1>1 DEF ImplementsSharedSessions

=============================================================================
