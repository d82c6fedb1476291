---------------------------- MODULE StreamFanout ----------------------------
(***************************************************************************)
(* The data plane of one stream session of internal/streamproxy: the       *)
(* goroutine that pumps the upstream into session.broadcast, the join      *)
(* prebuffer session.recent, the per-client queues (type subscriber), and  *)
(* the loop of Handler.ServeHTTP that drains a queue into the response.    *)
(*                                                                         *)
(* Bytes are abstracted to their offsets in the session's output.  A       *)
(* buffer is a block [from, len]: the bytes from .. from+len-1.  Appending *)
(* a chunk to a block only adds to len, exactly as append() does, so that  *)
(* the last byte of a queue really is the last byte of the session's       *)
(* output is an invariant to be checked, not a convention of the model.    *)
(*                                                                         *)
(* Atomicity follows the two mutexes.  session.mu is held over a whole     *)
(* broadcast and over the closing loop of stop; subscriber.mu only over    *)
(* one append, one take or one close.  A client may therefore act between  *)
(* any two appends of one broadcast, and between an append (or a close)    *)
(* and the signal that follows it outside subscriber.mu.                   *)
(***************************************************************************)
EXTENDS Integers

CONSTANTS
  Clients,        \* HTTP requests tuned to this session
  PacketSize,     \* tsPacketSize
  MaxBacklog,     \* maxSubscriberBacklog
  JoinPrebuffer,  \* joinPrebufferSize
  CopyBuffer,     \* copyBufferSize: the most one Read returns
  MaxOutput       \* model bound: bytes the upstream sends in one run

(***************************************************************************)
(* What the constants of the source satisfy (188, 16MB, 4MB, 64KB) and the *)
(* code relies on: trimming a prebuffer to whole packets never needs more  *)
(* bytes than it has, and a queue cut back to less than one packet has     *)
(* room for one chunk.                                                     *)
(***************************************************************************)
ASSUME SizesAssumption ==
  /\ PacketSize \in Nat \ {0}
  /\ CopyBuffer \in Nat \ {0}
  /\ MaxBacklog \in Nat
  /\ JoinPrebuffer \in Nat
  /\ MaxOutput \in Nat
  /\ JoinPrebuffer >= PacketSize
  /\ MaxBacklog >= JoinPrebuffer
  /\ MaxBacklog >= PacketSize + CopyBuffer

VARIABLES
  mu,          \* session.mu: "free", or the loop that holds it
  closed,      \* session.closed
  subs,        \* session.subs
  recent,      \* session.recent with session.recentStart, as a block
  output,      \* bytes handed to broadcast so far
  chunk,       \* length of the chunk being broadcast
  todo,        \* subscribers the loop holding session.mu has not reached
  unsignalled, \* subscriber appended to or closed, and not yet signalled
  pending,     \* subscriber.pending, as a block
  ended,       \* subscriber.closed
  notify,      \* subscriber.notify holds a token
  pc,          \* where each client's request is
  taken,       \* the client's local data and closed, until they are written
  written      \* offset that follows the last byte written to the client

sessionVars == <<mu, closed, subs, recent, output, chunk, todo, unsignalled>>
queueVars == <<pending, ended, notify>>
clientVars == <<pc, taken, written>>
vars == <<sessionVars, queueVars, clientVars>>

Block == [from : Nat, len : Nat]
NothingTaken == [from |-> 0, len |-> 0, closed |-> FALSE]
EmptyAt(n) == [from |-> n, len |-> 0]
End(b) == b.from + b.len
InLoop == {"select", "take", "write"}

(***************************************************************************)
(* Buffer arithmetic.                                                      *)
(***************************************************************************)

\* Mutant: the prebuffer is cut at the exact byte.
RoundUpToPacket_Exact(n) == n

\* The least multiple of PacketSize that is not below n.
RoundUpToPacket(n) ==
  IF n % PacketSize = 0 THEN n ELSE n + (PacketSize - (n % PacketSize))

\* session.recent after the append of a chunk and the trim to its size limit.
TrimRecent(r, n) ==
  LET grown  == r.len + n
      excess == grown - JoinPrebuffer
      newEnd == RoundUpToPacket(r.from + excess)
  IN IF excess > 0
     THEN [from |-> newEnd, len |-> grown - (newEnd - r.from)]
     ELSE [from |-> r.from, len |-> grown]

\* Mutant: the whole queue is discarded, whatever its length.
Skipped_All(len, n) == IF len + n > MaxBacklog THEN len ELSE 0

\* Mutant: the limit is tested before the chunk is counted.
Skipped_Late(len, n) ==
  IF len > MaxBacklog THEN len - (len % PacketSize) ELSE 0

\* Mutant: the backlog with the chunk is discarded, in whole packets.
Skipped_RoundedUp(len, n) ==
  IF len + n > MaxBacklog THEN RoundUpToPacket(len + n) ELSE 0

\* How much of a queue of length len push discards for a chunk of length n.
Skipped(len, n) ==
  IF len + n > MaxBacklog THEN len - (len % PacketSize) ELSE 0

\* Mutant: a chunk that does not fit is dropped instead of the backlog.
PushTo_DropNew(b, n) ==
  IF b.len + n > MaxBacklog THEN b ELSE [from |-> b.from, len |-> b.len + n]

\* subscriber.pending after push of a chunk of length n.
PushTo(b, n) ==
  LET skip == Skipped(b.len, n)
  IN [from |-> b.from + skip, len |-> b.len - skip + n]

(***************************************************************************)
(* getOrCreateSession registers the subscriber of the request that creates *)
(* the session before the producer starts: that request is the first       *)
(* member of subs.                                                         *)
(***************************************************************************)
Init ==
  \E first \in Clients :
    /\ mu = "free"
    /\ closed = FALSE
    /\ subs = {first}
    /\ recent = EmptyAt(0)
    /\ output = 0
    /\ chunk = 0
    /\ todo = {}
    /\ unsignalled = {}
    /\ pending = [c \in Clients |-> EmptyAt(0)]
    /\ ended = [c \in Clients |-> FALSE]
    /\ notify = [c \in Clients |-> FALSE]
    /\ pc = [c \in Clients |-> IF c = first THEN "select" ELSE "new"]
    /\ taken = [c \in Clients |-> NothingTaken]
    /\ written = [c \in Clients |-> 0]

-----------------------------------------------------------------------------
(* The producer: pump reads a chunk and broadcasts it.                      *)

\* broadcast takes session.mu, appends the chunk to the prebuffer and starts
\* its loop over the subscribers.
BroadcastStart(n) ==
  /\ mu = "free"
  /\ output + n <= MaxOutput
  /\ mu' = "broadcast"
  /\ chunk' = n
  /\ output' = output + n
  /\ recent' = TrimRecent(recent, n)
  /\ todo' = subs
  /\ UNCHANGED <<closed, subs, unsignalled, queueVars, clientVars>>

\* One iteration of the loop, up to the unlock of subscriber.mu in push.
BroadcastPush(c) ==
  /\ mu = "broadcast"
  /\ unsignalled = {}
  /\ c \in todo
  /\ pending' = [pending EXCEPT ![c] = PushTo(@, chunk)]
  /\ todo' = todo \ {c}
  /\ unsignalled' = {c}
  /\ UNCHANGED <<mu, closed, subs, recent, output, chunk, ended, notify,
                 clientVars>>

\* Mutant: signal is a plain send on the channel of capacity one.
CanSignal_Blocking(c) == ~notify[c]

\* signal never waits: a token already in the channel is enough.
CanSignal(c) == TRUE

\* Mutant: notify is made without a buffer, so that a token is lost unless
\* the client is in its select.
Signal_Unbuffered(c) ==
  /\ c \in unsignalled
  /\ notify' = [notify EXCEPT ![c] = @ \/ pc[c] = "select"]
  /\ unsignalled' = unsignalled \ {c}
  /\ UNCHANGED <<mu, closed, subs, recent, output, chunk, todo,
                 pending, ended, clientVars>>

\* The non-blocking send of signal, after push or close released its mutex.
Signal(c) ==
  /\ c \in unsignalled
  /\ CanSignal(c)
  /\ notify' = [notify EXCEPT ![c] = TRUE]
  /\ unsignalled' = unsignalled \ {c}
  /\ UNCHANGED <<mu, closed, subs, recent, output, chunk, todo,
                 pending, ended, clientVars>>

\* The loop is over: broadcast releases session.mu.
BroadcastDone ==
  /\ mu = "broadcast"
  /\ todo = {}
  /\ unsignalled = {}
  /\ mu' = "free"
  /\ UNCHANGED <<closed, subs, recent, output, chunk, todo, unsignalled,
                 queueVars, clientVars>>

-----------------------------------------------------------------------------
(* stop, called by endIfIdle, by getOrCreateSession for a session it        *)
(* replaces, and by runSession when the upstream has ended.                 *)

\* stop takes session.mu; it returns at once on a session already closed.
StopStart ==
  /\ mu = "free"
  /\ ~closed
  /\ mu' = "stop"
  /\ closed' = TRUE
  /\ todo' = subs
  /\ UNCHANGED <<subs, recent, output, chunk, unsignalled, queueVars,
                 clientVars>>

\* Mutant: close forgets to signal the subscriber.
SignalledByClose_Never(c) == {}

\* The subscribers close still has to signal.
SignalledByClose(c) == {c}

\* One iteration of the loop: subscriber.close up to its unlock.
StopClose(c) ==
  /\ mu = "stop"
  /\ unsignalled = {}
  /\ c \in todo
  /\ ended' = [ended EXCEPT ![c] = TRUE]
  /\ todo' = todo \ {c}
  /\ unsignalled' = SignalledByClose(c)
  /\ UNCHANGED <<mu, closed, subs, recent, output, chunk, pending, notify,
                 clientVars>>

\* The subscriber set is dropped and session.mu released.
StopDone ==
  /\ mu = "stop"
  /\ todo = {}
  /\ unsignalled = {}
  /\ subs' = {}
  /\ mu' = "free"
  /\ UNCHANGED <<closed, recent, output, chunk, todo, unsignalled, queueVars,
                 clientVars>>

-----------------------------------------------------------------------------
(* The clients: subscribe, the loop of ServeHTTP, unsubscribe.              *)

\* Mutant: subscribe does not look at session.closed.
Joinable_Always == TRUE

\* The guard of subscribe.
Joinable == ~closed

\* subscribe on an open session: the new queue starts as the prebuffer.
Subscribe(c) ==
  /\ pc[c] = "new"
  /\ mu = "free"
  /\ Joinable
  /\ subs' = subs \cup {c}
  /\ pending' = [pending EXCEPT
                   ![c] = PushTo(EmptyAt(recent.from), recent.len)]
  /\ notify' = [notify EXCEPT ![c] = recent.len > 0]
  /\ written' = [written EXCEPT ![c] = recent.from]
  /\ pc' = [pc EXCEPT ![c] = "select"]
  /\ UNCHANGED <<mu, closed, recent, output, chunk, todo, unsignalled, ended,
                 taken>>

\* subscribe on a closed session returns ok = false: the request is over.
SubscribeRefused(c) ==
  /\ pc[c] = "new"
  /\ mu = "free"
  /\ ~Joinable
  /\ pc' = [pc EXCEPT ![c] = "left"]
  /\ UNCHANGED <<sessionVars, queueVars, taken, written>>

\* The select of the loop receives the token from notify.
ReceiveNotify(c) ==
  /\ pc[c] = "select"
  /\ notify[c]
  /\ notify' = [notify EXCEPT ![c] = FALSE]
  /\ pc' = [pc EXCEPT ![c] = "take"]
  /\ UNCHANGED <<sessionVars, pending, ended, taken, written>>

\* Where the loop goes once a take has been dealt with.
AfterTake(isClosed) == IF isClosed THEN "ended" ELSE "select"

\* Mutant: the loop returns on closed before it writes what take returned.
NextAfterTake_ClosedFirst(len, isClosed) ==
  IF isClosed THEN "ended" ELSE IF len > 0 THEN "write" ELSE "select"

\* take returned len bytes: they are written before closed is looked at.
NextAfterTake(len, isClosed) ==
  IF len > 0 THEN "write" ELSE AfterTake(isClosed)

\* A queue after take: nothing pending, the next byte is the one that follows.
Emptied(b) == EmptyAt(End(b))

\* take: data and closed are read, and the queue emptied, under subscriber.mu.
Take(c) ==
  /\ pc[c] = "take"
  /\ taken' = [taken EXCEPT ![c] =
                  IF pending[c].len > 0
                  THEN [from |-> pending[c].from, len |-> pending[c].len,
                        closed |-> ended[c]]
                  ELSE NothingTaken]
  /\ pending' = [pending EXCEPT ![c] = Emptied(@)]
  /\ pc' = [pc EXCEPT ![c] = NextAfterTake(pending[c].len, ended[c])]
  /\ UNCHANGED <<sessionVars, ended, notify, written>>

\* w.Write succeeds; the loop then returns if take said closed.
Write(c) ==
  /\ pc[c] = "write"
  /\ written' = [written EXCEPT ![c] = End(taken[c])]
  /\ pc' = [pc EXCEPT ![c] = AfterTake(taken[c].closed)]
  /\ taken' = [taken EXCEPT ![c] = NothingTaken]
  /\ UNCHANGED <<sessionVars, queueVars>>

\* w.Write fails, or the select sees the request's context done.
Disconnect(c) ==
  /\ pc[c] \in {"select", "write"}
  /\ pc' = [pc EXCEPT ![c] = "gone"]
  /\ taken' = [taken EXCEPT ![c] = NothingTaken]
  /\ UNCHANGED <<sessionVars, queueVars, written>>

\* The deferred unsubscribe, under session.mu.
Unsubscribe(c) ==
  /\ pc[c] \in {"ended", "gone"}
  /\ mu = "free"
  /\ subs' = IF closed THEN subs ELSE subs \ {c}
  /\ pc' = [pc EXCEPT ![c] = "left"]
  /\ UNCHANGED <<mu, closed, recent, output, chunk, todo, unsignalled,
                 queueVars, taken, written>>

-----------------------------------------------------------------------------

Broadcast ==
  \/ \E n \in 1 .. CopyBuffer : BroadcastStart(n)
  \/ \E c \in Clients : BroadcastPush(c)
  \/ BroadcastDone

Stop == StopStart \/ (\E c \in Clients : StopClose(c)) \/ StopDone

\* One client's request.
Client(c) ==
  \/ Subscribe(c) \/ SubscribeRefused(c)
  \/ ReceiveNotify(c) \/ Take(c) \/ Write(c) \/ Disconnect(c)
  \/ Unsubscribe(c)

\* A session that is over, with every request returned.
Finished ==
  /\ closed
  /\ mu = "free"
  /\ \A c \in Clients : pc[c] = "left"
  /\ UNCHANGED vars

Next ==
  \/ Broadcast
  \/ Stop
  \/ \E c \in Clients : Signal(c)
  \/ \E c \in Clients : Client(c)
  \/ Finished

Spec == Init /\ [][Next]_vars

(***************************************************************************)
(* Fairness: the Go scheduler runs every goroutine that is not blocked.    *)
(* Whoever holds session.mu goes on; a client that can receive, take or    *)
(* unsubscribe does so.  Nothing is assumed of the upstream, of stop being *)
(* called, or of w.Write: the server sets no write timeout, so a Write to  *)
(* a client that has stopped reading may block for ever.                   *)
(***************************************************************************)
LockHolder ==
  \/ \E c \in Clients : BroadcastPush(c) \/ StopClose(c) \/ Signal(c)
  \/ BroadcastDone \/ StopDone

Fairness ==
  /\ WF_vars(LockHolder)
  /\ \A c \in Clients :
       /\ WF_vars(ReceiveNotify(c))
       /\ WF_vars(Take(c))
       /\ SF_vars(Unsubscribe(c))

FairSpec == Spec /\ Fairness

-----------------------------------------------------------------------------
(* Properties.                                                              *)

TypeOK ==
  /\ mu \in {"free", "broadcast", "stop"}
  /\ closed \in BOOLEAN
  /\ subs \subseteq Clients
  /\ recent \in Block
  /\ output \in Nat
  /\ chunk \in Nat
  /\ todo \subseteq Clients
  /\ unsignalled \subseteq Clients
  /\ pending \in [Clients -> Block]
  /\ ended \in [Clients -> BOOLEAN]
  /\ notify \in [Clients -> BOOLEAN]
  /\ pc \in [Clients -> InLoop \cup {"new", "ended", "gone", "left"}]
  /\ taken \in [Clients -> [from : Nat, len : Nat, closed : BOOLEAN]]
  /\ written \in [Clients -> Nat]

\* The offset a client's queue has to reach: the whole output, but for the
\* chunk a running broadcast has not yet given to it.
Owed(c) == IF mu = "broadcast" /\ c \in todo THEN output - chunk ELSE output

(***************************************************************************)
(* No gap and no duplicate at the live edge: whatever the interleaving of  *)
(* joins, takes and a broadcast in progress, a registered subscriber's     *)
(* queue ends exactly where the session's output ends (subscribe and       *)
(* broadcast, session.go:144-158 and 228-250).                             *)
(***************************************************************************)
QueuesReachLiveEdge == \A c \in subs : End(pending[c]) = Owed(c)

(***************************************************************************)
(* The prebuffer is the newest output: it ends at the live edge, begins on *)
(* a packet boundary and holds at most joinPrebufferSize bytes, and less   *)
(* than that by a packet at most once the session has sent that much       *)
(* (broadcast, session.go:232-243; recentStart's comment, 88-90).          *)
(***************************************************************************)
PrebufferIsNewestOutput ==
  /\ End(recent) = output
  /\ recent.from % PacketSize = 0
  /\ recent.len <= JoinPrebuffer
  /\ recent.from > 0 => recent.len > JoinPrebuffer - PacketSize

(***************************************************************************)
(* A slow client's queue never outgrows maxSubscriberBacklog, however the  *)
(* prebuffer it joined with and the chunks since add up (push).            *)
(***************************************************************************)
BacklogBounded == \A c \in Clients : pending[c].len <= MaxBacklog

\* The offset of the byte that follows what the client has, or is being sent.
Sent(c) == IF pc[c] = "write" THEN End(taken[c]) ELSE written[c]

(***************************************************************************)
(* "Discarded backlog is always a whole number of packets, so the client's *)
(* demuxer stays aligned to packet boundaries across the gap"              *)
(* (session.go:34-37): what is queued, and what is being written, always   *)
(* continues the client's stream a whole number of packets further on,     *)
(* even when the last write ended inside a packet.                         *)
(***************************************************************************)
GapsAreWholePackets ==
  \A c \in Clients :
    /\ pc[c] \in InLoop =>
         /\ pending[c].from >= Sent(c)
         /\ (pending[c].from - Sent(c)) % PacketSize = 0
    /\ pc[c] = "write" =>
         /\ taken[c].from >= written[c]
         /\ (taken[c].from - written[c]) % PacketSize = 0

(***************************************************************************)
(* No lost wake-up: a client never waits in its select with data queued or *)
(* its queue closed, unless its token is in the channel or about to be put *)
(* there.  push and close signal after they release subscriber.mu, and a   *)
(* token may already have been consumed by a take that saw nothing         *)
(* (push, close, signal, take, session.go:274-314).                        *)
(***************************************************************************)
NoLostWakeup ==
  \A c \in Clients :
    pc[c] = "select" /\ (pending[c].len > 0 \/ ended[c])
      => notify[c] \/ c \in unsignalled

(***************************************************************************)
(* "Data already queued is still returned by take" (session.go:290-291): a *)
(* request that returns because the session ended has written everything   *)
(* that was queued for it, to the last byte.  This is what                 *)
(* ImplementsSharedStream, which the run checks, says of Complete, in the  *)
(* terms of the queues; the proofs rest on it.                             *)
(***************************************************************************)
EndedClientsAreDrained ==
  \A c \in Clients :
    pc[c] = "ended" => pending[c].len = 0 /\ written[c] = pending[c].from

(***************************************************************************)
(* stop reaches every viewer: once it has released session.mu, no request  *)
(* is still in its loop with a queue nobody will ever close (subscribe     *)
(* against stop, session.go:144-158 and 198-215).                          *)
(***************************************************************************)
NoViewerLeftBehind ==
  closed /\ mu # "stop" => \A c \in Clients : pc[c] \in InLoop => ended[c]

(***************************************************************************)
(* A client cannot hold up the session: a loop that holds session.mu lets  *)
(* it go although no client is assumed to read, take or return (the non-   *)
(* blocking send of signal, session.go:299-304).                           *)
(***************************************************************************)
LockIsReleased == (mu # "free") ~> (mu = "free")

-----------------------------------------------------------------------------
(* StreamFanout implements SharedStream.                                    *)

\* What has become of a viewer, without the steps of its loop.
Status(c) ==
  CASE pc[c] = "new" -> "out"
    [] pc[c] \in {"select", "take"} -> "in"
    [] pc[c] = "write" -> "writing"
    [] pc[c] = "ended" -> "complete"
    [] pc[c] = "gone" -> "gone"
    [] OTHER -> "over"

\* What a viewer will have been sent once the broadcast in progress is over.
Entitled(c) ==
  IF pc[c] \notin InLoop THEN 0
  ELSE IF mu = "broadcast" /\ c \in todo THEN End(pending[c]) + chunk
  ELSE End(pending[c])

\* The block that is being written.
InWrite(c) == [from |-> taken[c].from, len |-> taken[c].len]

Statuses == [c \in Clients |-> Status(c)]
Entitlements == [c \in Clients |-> Entitled(c)]
Parts == [c \in Clients |-> InWrite(c)]

Shared ==
  INSTANCE SharedStream WITH
    open <- ~closed, status <- Statuses, seen <- written,
    owed <- Entitlements, part <- Parts

(***************************************************************************)
(* Mutexes, queues, prebuffer and wake-ups together give every viewer the  *)
(* stream that SharedStream describes: a broadcast that reaches one queue  *)
(* after the other, while others take, join and leave, looks like one      *)
(* step in which everybody becomes entitled to the chunk; whatever is      *)
(* written next to a client continues its stream, or skips whole packets   *)
(* of a backlog that was too long; and a request that completes has        *)
(* written everything that was sent before stop (session.go:144-158,       *)
(* 198-215, 228-314; proxy.go:128-152).                                    *)
(***************************************************************************)
ImplementsSharedStream == Shared!Spec

(***************************************************************************)
(* No client waits in vain: what it is entitled to is handed to it, the    *)
(* end of the session is told to it, and its request returns once it is    *)
(* over, however broadcasts, stop, takes and tokens interleave.  Only a    *)
(* request blocked in its own w.Write is excepted (signal,                 *)
(* session.go:299-304; stop, 196-197: "closes every subscriber so their    *)
(* requests complete").                                                    *)
(***************************************************************************)
ViewersAreServed == Shared!NobodyWaitsInVain

=============================================================================
