------------------------- MODULE StreamFanoutProofs -------------------------
(***************************************************************************)
(* The safety properties of StreamFanout hold for every set of clients and *)
(* all sizes that satisfy SizesAssumption, among them those of the source, *)
(* and however much the upstream sends; and StreamFanout implements        *)
(* SharedStream.                                                           *)
(***************************************************************************)
EXTENDS StreamFanout, TLAPS

-----------------------------------------------------------------------------
(* Division into packets.                                                   *)

\* The remainder by PacketSize, and what it is made of.
LEMMA Remainder ==
  ASSUME NEW n \in Nat
  PROVE  /\ n % PacketSize \in 0 .. (PacketSize - 1)
         /\ n \div PacketSize \in Nat
         /\ n % PacketSize = n - PacketSize * (n \div PacketSize)
BY SizesAssumption

\* A multiple of PacketSize is a whole number of packets.
LEMMA WholePackets ==
  ASSUME NEW k \in Nat
  PROVE  (k * PacketSize) % PacketSize = 0
BY SizesAssumption

\* Whole packets and whole packets are whole packets.
LEMMA SumOfPackets ==
  ASSUME NEW m \in Nat, NEW n \in Nat, m % PacketSize = 0, n % PacketSize = 0
  PROVE  (m + n) % PacketSize = 0
<1> DEFINE j == m \div PacketSize
           k == n \div PacketSize
<1>1. j \in Nat /\ k \in Nat /\ m = PacketSize * j /\ n = PacketSize * k
  BY Remainder, SizesAssumption
<1> HIDE DEF j, k
<1>2. m + n = (j + k) * PacketSize
  BY <1>1, SizesAssumption
<1> QED BY <1>1, <1>2, WholePackets

\* What RoundUpToPacket returns: the next packet boundary.
LEMMA RoundUpProperties ==
  ASSUME NEW n \in Nat
  PROVE  /\ RoundUpToPacket(n) \in n .. (n + PacketSize - 1)
         /\ RoundUpToPacket(n) % PacketSize = 0
<1> DEFINE q == n \div PacketSize
<1>1. CASE n % PacketSize = 0
  BY <1>1, SizesAssumption DEF RoundUpToPacket
<1>2. CASE n % PacketSize # 0
  <2>1. /\ q \in Nat
        /\ n % PacketSize = n - PacketSize * q
        /\ n % PacketSize \in 1 .. (PacketSize - 1)
    BY <1>2, Remainder
  <2>2. RoundUpToPacket(n) = n + (PacketSize - (n % PacketSize))
    BY <1>2 DEF RoundUpToPacket
  <2>3. RoundUpToPacket(n) = (q + 1) * PacketSize
    BY <2>1, <2>2, SizesAssumption
  <2>4. RoundUpToPacket(n) % PacketSize = 0
    <3> HIDE DEF q
    <3> QED BY <2>1, <2>3, WholePackets
  <2> QED BY <2>1, <2>2, <2>4, SizesAssumption
<1> QED BY <1>1, <1>2

\* What push discards: whole packets of the backlog, all but a part of one.
LEMMA SkippedProperties ==
  ASSUME NEW len \in Nat, NEW n \in Nat
  PROVE  /\ Skipped(len, n) \in 0 .. len
         /\ Skipped(len, n) % PacketSize = 0
         /\ len + n > MaxBacklog => len - Skipped(len, n) < PacketSize
         /\ len + n <= MaxBacklog => Skipped(len, n) = 0
<1> DEFINE q == len \div PacketSize
<1>1. /\ q \in Nat
      /\ len % PacketSize = len - PacketSize * q
      /\ len % PacketSize \in 0 .. (PacketSize - 1)
  BY Remainder
<1>2. CASE len + n > MaxBacklog
  <2>1. Skipped(len, n) = len - (len % PacketSize)
    BY <1>2 DEF Skipped
  <2>2. Skipped(len, n) = q * PacketSize
    BY <1>1, <2>1, SizesAssumption
  <2>3. Skipped(len, n) % PacketSize = 0
    <3> HIDE DEF q
    <3> QED BY <1>1, <2>2, WholePackets
  <2>4. Skipped(len, n) \in 0 .. len
    BY <1>1, <2>1, <2>2, SizesAssumption
  <2> QED BY <1>1, <1>2, <2>1, <2>3, <2>4, SizesAssumption
<1>3. CASE ~(len + n > MaxBacklog)
  BY <1>3, SizesAssumption DEF Skipped
<1> QED BY <1>2, <1>3

\* What broadcast leaves in the prebuffer.
LEMMA TrimProperties ==
  ASSUME NEW r \in Block, NEW n \in Nat,
         r.len <= JoinPrebuffer, r.from % PacketSize = 0,
         r.from > 0 => r.len > JoinPrebuffer - PacketSize
  PROVE  LET t == TrimRecent(r, n)
         IN /\ t \in Block
            /\ End(t) = End(r) + n
            /\ t.len <= JoinPrebuffer
            /\ t.from % PacketSize = 0
            /\ t.from > 0 => t.len > JoinPrebuffer - PacketSize
<1> DEFINE grown == r.len + n
           excess == grown - JoinPrebuffer
           newEnd == RoundUpToPacket(r.from + excess)
<1>1. CASE excess > 0
  <2>1. r.from + excess \in Nat /\ r.from \in Nat /\ grown \in Nat
    BY <1>1, SizesAssumption DEF Block
  <2>2. /\ newEnd \in (r.from + excess) .. (r.from + excess + PacketSize - 1)
        /\ newEnd % PacketSize = 0
    BY <2>1, RoundUpProperties
  <2>3. TrimRecent(r, n) = [from |-> newEnd, len |-> grown - (newEnd - r.from)]
    BY <1>1 DEF TrimRecent
  <2> HIDE DEF newEnd
  <2>4. grown - (newEnd - r.from)
          \in (JoinPrebuffer - PacketSize + 1) .. JoinPrebuffer
    BY <2>1, <2>2, SizesAssumption
  <2> HIDE DEF grown
  <2>5. TrimRecent(r, n) \in Block /\ End(TrimRecent(r, n)) = r.from + grown
    BY <2>1, <2>2, <2>3, <2>4, SizesAssumption DEF Block, End
  <2>6. r.from + grown = End(r) + n
    BY <2>1 DEF grown, End, Block
  <2>7. /\ TrimRecent(r, n).len
             \in (JoinPrebuffer - PacketSize + 1) .. JoinPrebuffer
        /\ TrimRecent(r, n).from % PacketSize = 0
    BY <2>2, <2>3, <2>4
  <2> QED BY <2>5, <2>6, <2>7, SizesAssumption
<1>2. CASE ~(excess > 0)
  <2>1. TrimRecent(r, n) = [from |-> r.from, len |-> grown]
    BY <1>2 DEF TrimRecent
  <2> QED BY <1>2, <2>1, SizesAssumption DEF Block, End
<1> QED BY <1>1, <1>2

\* What push leaves in a queue, for a chunk of a broadcast or a prebuffer.
LEMMA PushProperties ==
  ASSUME NEW b \in Block, NEW n \in Nat,
         n <= CopyBuffer \/ (b.len = 0 /\ n <= JoinPrebuffer),
         b.len <= MaxBacklog
  PROVE  LET p == PushTo(b, n)
         IN /\ p \in Block
            /\ End(p) = End(b) + n
            /\ p.len <= MaxBacklog
            /\ p.len >= n
            /\ p.from >= b.from
            /\ (p.from - b.from) % PacketSize = 0
            /\ b.len = 0 => p.from = b.from
<1> DEFINE skip == Skipped(b.len, n)
<1>1. b.len \in Nat /\ b.from \in Nat
  BY DEF Block
<1>2. /\ skip \in 0 .. b.len
      /\ skip % PacketSize = 0
      /\ b.len + n > MaxBacklog => b.len - skip < PacketSize
      /\ b.len + n <= MaxBacklog => skip = 0
  BY <1>1, SkippedProperties
<1>3. PushTo(b, n) = [from |-> b.from + skip, len |-> b.len - skip + n]
  BY DEF PushTo
<1> HIDE DEF skip
<1>4. (b.from + skip) - b.from = skip
  BY <1>1, <1>2
<1> QED BY <1>1, <1>2, <1>3, <1>4, SizesAssumption DEF Block, End

-----------------------------------------------------------------------------
(* The inductive invariant.                                                 *)

\* What whoever holds session.mu has done so far, and what holds between two
\* critical sections.
LockSound ==
  /\ mu = "free" => todo = {} /\ unsignalled = {}
  /\ todo \subseteq subs
  /\ mu = "broadcast" => chunk \in 1 .. CopyBuffer /\ chunk <= output
  /\ mu = "stop" => closed /\ \A c \in subs \ todo : ended[c]
  /\ closed /\ mu # "stop" => subs = {}

\* A client in its loop is a subscriber or has been closed; a closed queue is
\* never appended to again.
ClientSound ==
  \A c \in Clients :
    /\ pc[c] \in InLoop => c \in subs \/ ended[c]
    /\ pc[c] = "ended" => ended[c]
    /\ ended[c] => closed
    /\ taken[c].closed => pc[c] = "write" /\ ended[c] /\ pending[c].len = 0

\* A client whose queue is empty has been sent all of it.
EmptyMeansSent ==
  \A c \in Clients :
    pc[c] \in InLoop /\ pending[c].len = 0 => Sent(c) = pending[c].from

\* A client that is busy writing will find the token it needs afterwards.
WriterIsSignalled ==
  \A c \in Clients :
    pc[c] = "write" /\ (pending[c].len > 0 \/ (ended[c] /\ ~taken[c].closed))
      => notify[c] \/ c \in unsignalled

IndInv ==
  /\ TypeOK
  /\ LockSound
  /\ ClientSound
  /\ EmptyMeansSent
  /\ WriterIsSignalled
  /\ QueuesReachLiveEdge
  /\ PrebufferIsNewestOutput
  /\ BacklogBounded
  /\ GapsAreWholePackets
  /\ NoLostWakeup
  /\ EndedClientsAreDrained

\* The tuples of variables that UNCHANGED lists are always expanded.
USE DEF sessionVars, queueVars, clientVars

\* BroadcastStart preserves the inductive invariant.
LEMMA BroadcastStartStep ==
  ASSUME IndInv, NEW n \in 1 .. CopyBuffer, BroadcastStart(n)
  PROVE  IndInv'
<1> DEFINE t == TrimRecent(recent, n)
<1>00. n \in Nat /\ n <= CopyBuffer /\ output \in Nat
  BY DEF IndInv, TypeOK
<1>0. /\ recent' = t
      /\ t \in Block
      /\ End(t) = End(recent) + n
      /\ t.len <= JoinPrebuffer
      /\ t.from % PacketSize = 0
      /\ t.from > 0 => t.len > JoinPrebuffer - PacketSize
  BY <1>00, TrimProperties
  DEF IndInv, TypeOK, PrebufferIsNewestOutput, BroadcastStart
<1>1. TypeOK'
  BY <1>0, <1>00 DEF IndInv, TypeOK, BroadcastStart
<1>2. LockSound'
  BY <1>00 DEF IndInv, LockSound, BroadcastStart
<1>3. ClientSound'
  BY DEF IndInv, ClientSound, BroadcastStart
<1>4. EmptyMeansSent'
  BY DEF IndInv, EmptyMeansSent, Sent, BroadcastStart
<1>5. WriterIsSignalled'
  BY DEF IndInv, WriterIsSignalled, BroadcastStart
<1>6. QueuesReachLiveEdge'
  BY DEF IndInv, TypeOK, QueuesReachLiveEdge, Owed, BroadcastStart
<1>7. PrebufferIsNewestOutput'
  BY <1>0, <1>00 DEF IndInv, PrebufferIsNewestOutput, BroadcastStart
<1>8. BacklogBounded'
  BY DEF IndInv, BacklogBounded, BroadcastStart
<1>9. GapsAreWholePackets'
  BY DEF IndInv, GapsAreWholePackets, Sent, BroadcastStart
<1>10. NoLostWakeup'
  BY DEF IndInv, NoLostWakeup, BroadcastStart
<1>11. EndedClientsAreDrained'
  BY DEF IndInv, EndedClientsAreDrained, BroadcastStart
<1> QED
  BY <1>1, <1>2, <1>3, <1>4, <1>5, <1>6, <1>7, <1>8, <1>9, <1>10, <1>11
  DEF IndInv

\* BroadcastPush preserves the inductive invariant.
LEMMA BroadcastPushStep ==
  ASSUME IndInv, NEW c \in Clients, BroadcastPush(c)
  PROVE  IndInv'
<1> DEFINE b == pending[c]
           p == PushTo(b, chunk)
<1>00. /\ b \in Block /\ b.len <= MaxBacklog
       /\ chunk \in 1 .. CopyBuffer /\ output \in Nat
       /\ c \in todo /\ c \in subs /\ ~closed /\ ~ended[c]
  BY DEF IndInv, TypeOK, LockSound, ClientSound, BacklogBounded, BroadcastPush
<1>0. /\ p \in Block
      /\ End(p) = End(b) + chunk
      /\ p.len <= MaxBacklog
      /\ p.len > 0
      /\ p.from >= b.from
      /\ (p.from - b.from) % PacketSize = 0
  BY <1>00, PushProperties DEF Block
<1>000. pending' = [pending EXCEPT ![c] = p]
  BY DEF BroadcastPush
<1> HIDE DEF p
<1>1. TypeOK'
  BY <1>0, <1>00, <1>000 DEF IndInv, TypeOK, BroadcastPush
<1>2. LockSound'
  BY DEF IndInv, LockSound, BroadcastPush
<1>3. ClientSound'
  BY DEF IndInv, LockSound, ClientSound, BroadcastPush
<1>4. EmptyMeansSent'
  BY <1>0, <1>00, <1>000 DEF IndInv, EmptyMeansSent, Sent, BroadcastPush
<1>5. WriterIsSignalled'
  BY DEF IndInv, WriterIsSignalled, BroadcastPush
<1>6. QueuesReachLiveEdge'
  BY <1>0, <1>00, <1>000
  DEF IndInv, TypeOK, QueuesReachLiveEdge, Owed, BroadcastPush
<1>7. PrebufferIsNewestOutput'
  BY DEF IndInv, PrebufferIsNewestOutput, BroadcastPush
<1>8. BacklogBounded'
  BY <1>0, <1>00, <1>000 DEF IndInv, BacklogBounded
<1>9. GapsAreWholePackets'
  <2>1. UNCHANGED <<pc, taken, written>>
    BY DEF BroadcastPush
  <2>2. \A d \in Clients : d # c => pending'[d] = pending[d]
    BY <1>000 DEF TypeOK
  <2>3. ASSUME pc[c] \in InLoop
        PROVE  p.from >= Sent(c) /\ (p.from - Sent(c)) % PacketSize = 0
    <3> DEFINE m == p.from - b.from
               k == b.from - Sent(c)
    <3>1. Sent(c) \in Nat /\ p.from \in Nat /\ b.from \in Nat
      BY <1>0, <1>00 DEF IndInv, TypeOK, Sent, End, Block
    <3>2. m \in Nat /\ k \in Nat /\ m % PacketSize = 0 /\ k % PacketSize = 0
      BY <1>0, <2>3, <3>1 DEF IndInv, GapsAreWholePackets
    <3>3. p.from - Sent(c) = m + k
      BY <3>1
    <3>4. (m + k) % PacketSize = 0
      <4> HIDE DEF m, k
      <4> QED BY <3>2, SumOfPackets
    <3> QED BY <3>1, <3>2, <3>3, <3>4
  <2>4. pending'[c] = p
    BY <1>000 DEF IndInv, TypeOK
  <2> QED BY <2>1, <2>2, <2>3, <2>4 DEF IndInv, GapsAreWholePackets, Sent
<1>10. NoLostWakeup'
  BY DEF IndInv, NoLostWakeup, BroadcastPush
<1>11. EndedClientsAreDrained'
  BY DEF IndInv, LockSound, ClientSound, EndedClientsAreDrained, BroadcastPush
<1> QED
  BY <1>1, <1>2, <1>3, <1>4, <1>5, <1>6, <1>7, <1>8, <1>9, <1>10, <1>11
  DEF IndInv

\* Signal preserves the inductive invariant.
LEMMA SignalStep ==
  ASSUME IndInv, NEW c \in Clients, Signal(c)
  PROVE  IndInv'
<1>1. TypeOK'
  BY DEF IndInv, TypeOK, Signal
<1>2. LockSound'
  BY DEF IndInv, LockSound, Signal
<1>3. ClientSound'
  BY DEF IndInv, ClientSound, Signal
<1>4. EmptyMeansSent'
  BY DEF IndInv, EmptyMeansSent, Sent, Signal
<1>5. WriterIsSignalled'
  BY DEF IndInv, TypeOK, WriterIsSignalled, Signal
<1>6. QueuesReachLiveEdge'
  BY DEF IndInv, QueuesReachLiveEdge, Owed, Signal
<1>7. PrebufferIsNewestOutput'
  BY DEF IndInv, PrebufferIsNewestOutput, Signal
<1>8. BacklogBounded'
  BY DEF IndInv, BacklogBounded, Signal
<1>9. GapsAreWholePackets'
  BY DEF IndInv, GapsAreWholePackets, Sent, Signal
<1>10. NoLostWakeup'
  BY DEF IndInv, TypeOK, NoLostWakeup, Signal
<1>11. EndedClientsAreDrained'
  BY DEF IndInv, EndedClientsAreDrained, Signal
<1> QED
  BY <1>1, <1>2, <1>3, <1>4, <1>5, <1>6, <1>7, <1>8, <1>9, <1>10, <1>11
  DEF IndInv

\* BroadcastDone preserves the inductive invariant.
LEMMA BroadcastDoneStep ==
  ASSUME IndInv, BroadcastDone
  PROVE  IndInv'
<1>1. TypeOK'
  BY DEF IndInv, TypeOK, BroadcastDone
<1>2. LockSound'
  BY DEF IndInv, LockSound, BroadcastDone
<1>3. ClientSound'
  BY DEF IndInv, ClientSound, BroadcastDone
<1>4. EmptyMeansSent'
  BY DEF IndInv, EmptyMeansSent, Sent, BroadcastDone
<1>5. WriterIsSignalled'
  BY DEF IndInv, WriterIsSignalled, BroadcastDone
<1>6. QueuesReachLiveEdge'
  BY DEF IndInv, QueuesReachLiveEdge, Owed, BroadcastDone
<1>7. PrebufferIsNewestOutput'
  BY DEF IndInv, PrebufferIsNewestOutput, BroadcastDone
<1>8. BacklogBounded'
  BY DEF IndInv, BacklogBounded, BroadcastDone
<1>9. GapsAreWholePackets'
  BY DEF IndInv, GapsAreWholePackets, Sent, BroadcastDone
<1>10. NoLostWakeup'
  BY DEF IndInv, NoLostWakeup, BroadcastDone
<1>11. EndedClientsAreDrained'
  BY DEF IndInv, EndedClientsAreDrained, BroadcastDone
<1> QED
  BY <1>1, <1>2, <1>3, <1>4, <1>5, <1>6, <1>7, <1>8, <1>9, <1>10, <1>11
  DEF IndInv

\* StopStart preserves the inductive invariant.
LEMMA StopStartStep ==
  ASSUME IndInv, StopStart
  PROVE  IndInv'
<1>1. TypeOK'
  BY DEF IndInv, TypeOK, StopStart
<1>2. LockSound'
  BY DEF LockSound, StopStart
<1>3. ClientSound'
  BY DEF IndInv, ClientSound, StopStart
<1>4. EmptyMeansSent'
  BY DEF IndInv, EmptyMeansSent, Sent, StopStart
<1>5. WriterIsSignalled'
  BY DEF IndInv, WriterIsSignalled, StopStart
<1>6. QueuesReachLiveEdge'
  BY DEF IndInv, QueuesReachLiveEdge, Owed, StopStart
<1>7. PrebufferIsNewestOutput'
  BY DEF IndInv, PrebufferIsNewestOutput, StopStart
<1>8. BacklogBounded'
  BY DEF IndInv, BacklogBounded, StopStart
<1>9. GapsAreWholePackets'
  BY DEF IndInv, GapsAreWholePackets, Sent, StopStart
<1>10. NoLostWakeup'
  BY DEF IndInv, NoLostWakeup, StopStart
<1>11. EndedClientsAreDrained'
  BY DEF IndInv, EndedClientsAreDrained, StopStart
<1> QED
  BY <1>1, <1>2, <1>3, <1>4, <1>5, <1>6, <1>7, <1>8, <1>9, <1>10, <1>11
  DEF IndInv

\* StopClose preserves the inductive invariant.
LEMMA StopCloseStep ==
  ASSUME IndInv, NEW c \in Clients, StopClose(c)
  PROVE  IndInv'
<1>1. TypeOK'
  BY DEF IndInv, TypeOK, StopClose, SignalledByClose
<1>2. LockSound'
  BY DEF IndInv, TypeOK, LockSound, StopClose
<1>3. ClientSound'
  BY DEF IndInv, LockSound, ClientSound, StopClose
<1>4. EmptyMeansSent'
  BY DEF IndInv, EmptyMeansSent, Sent, StopClose
<1>5. WriterIsSignalled'
  BY DEF IndInv, WriterIsSignalled, StopClose, SignalledByClose
<1>6. QueuesReachLiveEdge'
  BY DEF IndInv, QueuesReachLiveEdge, Owed, StopClose
<1>7. PrebufferIsNewestOutput'
  BY DEF IndInv, PrebufferIsNewestOutput, StopClose
<1>8. BacklogBounded'
  BY DEF IndInv, BacklogBounded, StopClose
<1>9. GapsAreWholePackets'
  BY DEF IndInv, GapsAreWholePackets, Sent, StopClose
<1>10. NoLostWakeup'
  BY DEF IndInv, NoLostWakeup, StopClose, SignalledByClose
<1>11. EndedClientsAreDrained'
  BY DEF IndInv, EndedClientsAreDrained, StopClose
<1> QED
  BY <1>1, <1>2, <1>3, <1>4, <1>5, <1>6, <1>7, <1>8, <1>9, <1>10, <1>11
  DEF IndInv

\* StopDone preserves the inductive invariant.
LEMMA StopDoneStep ==
  ASSUME IndInv, StopDone
  PROVE  IndInv'
<1>1. TypeOK'
  BY DEF IndInv, TypeOK, StopDone
<1>2. LockSound'
  BY DEF LockSound, StopDone
<1>3. ClientSound'
  BY DEF IndInv, LockSound, ClientSound, StopDone
<1>4. EmptyMeansSent'
  BY DEF IndInv, EmptyMeansSent, Sent, StopDone
<1>5. WriterIsSignalled'
  BY DEF IndInv, WriterIsSignalled, StopDone
<1>6. QueuesReachLiveEdge'
  BY DEF QueuesReachLiveEdge, StopDone
<1>7. PrebufferIsNewestOutput'
  BY DEF IndInv, PrebufferIsNewestOutput, StopDone
<1>8. BacklogBounded'
  BY DEF IndInv, BacklogBounded, StopDone
<1>9. GapsAreWholePackets'
  BY DEF IndInv, GapsAreWholePackets, Sent, StopDone
<1>10. NoLostWakeup'
  BY DEF IndInv, NoLostWakeup, StopDone
<1>11. EndedClientsAreDrained'
  BY DEF IndInv, EndedClientsAreDrained, StopDone
<1> QED
  BY <1>1, <1>2, <1>3, <1>4, <1>5, <1>6, <1>7, <1>8, <1>9, <1>10, <1>11
  DEF IndInv

\* Subscribe preserves the inductive invariant.
LEMMA SubscribeStep ==
  ASSUME IndInv, NEW c \in Clients, Subscribe(c)
  PROVE  IndInv'
<1> DEFINE p == PushTo(EmptyAt(recent.from), recent.len)
<1>00. /\ recent \in Block /\ recent.from \in Nat /\ recent.len \in Nat
       /\ recent.len <= JoinPrebuffer /\ End(recent) = output
       /\ ~closed /\ mu = "free" /\ todo = {} /\ pc[c] = "new" /\ ~ended[c]
       /\ EmptyAt(recent.from) \in Block /\ EmptyAt(recent.from).len = 0
       /\ EmptyAt(recent.from).from = recent.from
  BY DEF IndInv, TypeOK, LockSound, ClientSound, PrebufferIsNewestOutput,
         Subscribe, Joinable, Block, EmptyAt
<1>0. /\ p \in Block
      /\ p.from = recent.from
      /\ End(p) = recent.from + recent.len
      /\ p.len <= MaxBacklog
  BY <1>00, PushProperties, SizesAssumption DEF End
<1>0000. End(p) = output /\ p.len = recent.len
  BY <1>00, <1>0 DEF End, Block
<1>000. /\ pending' = [pending EXCEPT ![c] = p]
        /\ written' = [written EXCEPT ![c] = recent.from]
        /\ pc' = [pc EXCEPT ![c] = "select"]
        /\ notify' = [notify EXCEPT ![c] = recent.len > 0]
        /\ subs' = subs \cup {c}
        /\ UNCHANGED <<mu, closed, recent, output, chunk, todo, unsignalled,
                       ended, taken>>
  BY DEF Subscribe
<1> HIDE DEF p
<1>1. TypeOK'
  <2>1. notify' \in [Clients -> BOOLEAN]
    BY <1>000 DEF IndInv, TypeOK
  <2>2. pc' \in [Clients -> InLoop \cup {"new", "ended", "gone", "left"}]
    BY <1>000 DEF IndInv, TypeOK, InLoop
  <2> QED BY <1>0, <1>00, <1>000, <1>0000, <2>1, <2>2 DEF IndInv, TypeOK
<1>2. LockSound'
  BY DEF IndInv, LockSound, Subscribe, Joinable
<1>3. ClientSound'
  BY DEF IndInv, ClientSound, Subscribe
<1>4. EmptyMeansSent'
  BY <1>0, <1>00, <1>000, <1>0000 DEF IndInv, TypeOK, EmptyMeansSent, Sent
<1>5. WriterIsSignalled'
  BY DEF IndInv, WriterIsSignalled, Subscribe
<1>6. QueuesReachLiveEdge'
  BY <1>0, <1>00, <1>000, <1>0000 DEF IndInv, TypeOK, QueuesReachLiveEdge, Owed
<1>7. PrebufferIsNewestOutput'
  BY DEF IndInv, PrebufferIsNewestOutput, Subscribe
<1>8. BacklogBounded'
  BY <1>0, <1>00, <1>000, <1>0000 DEF IndInv, BacklogBounded
<1>9. GapsAreWholePackets'
  <2>1. recent.from - recent.from = 0 * PacketSize
    BY <1>00, SizesAssumption
  <2>2. (recent.from - recent.from) % PacketSize = 0
    BY <2>1, WholePackets
  <2> QED
    BY <1>0, <1>00, <1>000, <1>0000, <2>2
    DEF IndInv, TypeOK, GapsAreWholePackets, Sent
<1>10. NoLostWakeup'
  <2>1. ASSUME NEW d \in Clients, d # c
        PROVE  UNCHANGED <<pc[d], pending[d], notify[d], ended[d]>>
    BY <2>1, <1>000 DEF TypeOK
  <2>2. pending'[c].len > 0 => notify'[c]
    BY <1>0, <1>00, <1>000, <1>0000 DEF IndInv, TypeOK
  <2> QED BY <1>0, <1>00, <1>000, <1>0000, <2>1, <2>2 DEF IndInv, NoLostWakeup
<1>11. EndedClientsAreDrained'
  BY DEF IndInv, EndedClientsAreDrained, Subscribe
<1> QED
  BY <1>1, <1>2, <1>3, <1>4, <1>5, <1>6, <1>7, <1>8, <1>9, <1>10, <1>11
  DEF IndInv

\* SubscribeRefused preserves the inductive invariant.
LEMMA SubscribeRefusedStep ==
  ASSUME IndInv, NEW c \in Clients, SubscribeRefused(c)
  PROVE  IndInv'
<1>1. TypeOK'
  BY DEF IndInv, TypeOK, SubscribeRefused
<1>2. LockSound'
  BY DEF IndInv, LockSound, SubscribeRefused
<1>3. ClientSound'
  BY DEF IndInv, ClientSound, SubscribeRefused, InLoop
<1>4. EmptyMeansSent'
  BY DEF IndInv, EmptyMeansSent, Sent, SubscribeRefused, InLoop
<1>5. WriterIsSignalled'
  BY DEF IndInv, WriterIsSignalled, SubscribeRefused
<1>6. QueuesReachLiveEdge'
  BY DEF IndInv, QueuesReachLiveEdge, Owed, SubscribeRefused
<1>7. PrebufferIsNewestOutput'
  BY DEF IndInv, PrebufferIsNewestOutput, SubscribeRefused
<1>8. BacklogBounded'
  BY DEF IndInv, BacklogBounded, SubscribeRefused
<1>9. GapsAreWholePackets'
  BY DEF IndInv, GapsAreWholePackets, Sent, SubscribeRefused, InLoop
<1>10. NoLostWakeup'
  BY DEF IndInv, NoLostWakeup, SubscribeRefused
<1>11. EndedClientsAreDrained'
  BY DEF IndInv, EndedClientsAreDrained, SubscribeRefused
<1> QED
  BY <1>1, <1>2, <1>3, <1>4, <1>5, <1>6, <1>7, <1>8, <1>9, <1>10, <1>11
  DEF IndInv

\* ReceiveNotify preserves the inductive invariant.
LEMMA ReceiveNotifyStep ==
  ASSUME IndInv, NEW c \in Clients, ReceiveNotify(c)
  PROVE  IndInv'
<1>1. TypeOK'
  BY DEF IndInv, TypeOK, ReceiveNotify, InLoop
<1>2. LockSound'
  BY DEF IndInv, LockSound, ReceiveNotify
<1>3. ClientSound'
  BY DEF IndInv, ClientSound, ReceiveNotify, InLoop
<1>4. EmptyMeansSent'
  BY DEF IndInv, EmptyMeansSent, Sent, ReceiveNotify, InLoop
<1>5. WriterIsSignalled'
  BY DEF IndInv, WriterIsSignalled, ReceiveNotify
<1>6. QueuesReachLiveEdge'
  BY DEF IndInv, QueuesReachLiveEdge, Owed, ReceiveNotify
<1>7. PrebufferIsNewestOutput'
  BY DEF IndInv, PrebufferIsNewestOutput, ReceiveNotify
<1>8. BacklogBounded'
  BY DEF IndInv, BacklogBounded, ReceiveNotify
<1>9. GapsAreWholePackets'
  BY DEF IndInv, GapsAreWholePackets, Sent, ReceiveNotify, InLoop
<1>10. NoLostWakeup'
  BY DEF IndInv, TypeOK, NoLostWakeup, ReceiveNotify
<1>11. EndedClientsAreDrained'
  BY DEF IndInv, EndedClientsAreDrained, ReceiveNotify
<1> QED
  BY <1>1, <1>2, <1>3, <1>4, <1>5, <1>6, <1>7, <1>8, <1>9, <1>10, <1>11
  DEF IndInv

\* Take preserves the inductive invariant.
LEMMA TakeStep ==
  ASSUME IndInv, NEW c \in Clients, Take(c)
  PROVE  IndInv'
<1> DEFINE b == pending[c]
<1>00. /\ b \in Block /\ b.from \in Nat /\ b.len \in Nat
       /\ pc[c] = "take" /\ Sent(c) = written[c]
  BY DEF IndInv, TypeOK, Take, Block, Sent
<1>0. /\ pending' =
           [pending EXCEPT ![c] = [from |-> b.from + b.len, len |-> 0]]
      /\ taken' = [taken EXCEPT ![c] =
                     IF b.len > 0
                     THEN [from |-> b.from, len |-> b.len, closed |-> ended[c]]
                     ELSE [from |-> 0, len |-> 0, closed |-> FALSE]]
      /\ pc' = [pc EXCEPT ![c] = IF b.len > 0 THEN "write"
                                 ELSE IF ended[c] THEN "ended" ELSE "select"]
      /\ UNCHANGED <<sessionVars, ended, notify, written>>
  BY DEF Take, Emptied, EmptyAt, End, NextAfterTake, AfterTake, NothingTaken
<1>000. b.len = 0 => written[c] = b.from
  BY <1>00 DEF IndInv, EmptyMeansSent, InLoop
<1>1. TypeOK'
  <2>1. pending' \in [Clients -> Block]
    BY <1>0, <1>00 DEF IndInv, TypeOK, Block
  <2>2. taken' \in [Clients -> [from : Nat, len : Nat, closed : BOOLEAN]]
    BY <1>0, <1>00 DEF IndInv, TypeOK
  <2>3. pc' \in [Clients -> InLoop \cup {"new", "ended", "gone", "left"}]
    BY <1>0 DEF IndInv, TypeOK, InLoop
  <2> QED BY <1>0, <2>1, <2>2, <2>3 DEF IndInv, TypeOK
<1>2. LockSound'
  BY DEF IndInv, LockSound, Take
<1>3. ClientSound'
  BY DEF IndInv, TypeOK, ClientSound, Take, NextAfterTake, AfterTake, Emptied,
         EmptyAt, NothingTaken
<1>4. EmptyMeansSent'
  <2>1. b.len = 0 => b.from + b.len = b.from
    BY <1>00
  <2> QED
    BY <1>0, <1>00, <1>000, <2>1
    DEF IndInv, TypeOK, EmptyMeansSent, Sent, End
<1>5. WriterIsSignalled'
  BY DEF IndInv, TypeOK, WriterIsSignalled, Take, NextAfterTake, AfterTake,
         Emptied, EmptyAt
<1>6. QueuesReachLiveEdge'
  BY DEF IndInv, TypeOK, QueuesReachLiveEdge, Owed, Take, Emptied, EmptyAt, End
<1>7. PrebufferIsNewestOutput'
  BY DEF IndInv, PrebufferIsNewestOutput, Take
<1>8. BacklogBounded'
  BY SizesAssumption DEF IndInv, BacklogBounded, Take, Emptied, EmptyAt
<1>9. GapsAreWholePackets'
  <2>1. (b.from + b.len) - (b.from + b.len) = 0 * PacketSize
        /\ b.from + 0 = b.from
    BY <1>00, SizesAssumption
  <2>2. 0 * PacketSize % PacketSize = 0
    BY WholePackets
  <2>3. /\ written[c] \in Nat /\ b.from >= written[c]
        /\ (b.from - written[c]) % PacketSize = 0
    BY <1>00 DEF IndInv, TypeOK, GapsAreWholePackets, InLoop
  <2>4. ASSUME NEW d \in Clients, d # c
        PROVE  UNCHANGED <<pc[d], pending[d], taken[d], written[d]>>
    BY <2>4, <1>0 DEF TypeOK
  <2>5. written'[c] = written[c] /\ pending'[c].from = b.from + b.len
    BY <1>0 DEF IndInv, TypeOK
  <2>6. CASE b.len > 0
    <3>1. pc'[c] = "write" /\ taken'[c].from = b.from /\ taken'[c].len = b.len
      BY <1>0, <2>6 DEF IndInv, TypeOK
    <3> QED
      BY <1>00, <2>1, <2>2, <2>3, <2>4, <2>5, <3>1
      DEF IndInv, GapsAreWholePackets, Sent, End
  <2>7. CASE b.len = 0
    <3>1. pc'[c] # "write"
      BY <1>0, <2>7 DEF IndInv, TypeOK
    <3> QED
      BY <1>00, <2>3, <2>4, <2>5, <2>7, <3>1
      DEF IndInv, GapsAreWholePackets, Sent
  <2> QED BY <1>00, <2>6, <2>7
<1>10. NoLostWakeup'
  BY DEF IndInv, TypeOK, LockSound, ClientSound, NoLostWakeup, Take,
         NextAfterTake, AfterTake, Emptied, EmptyAt, End, NothingTaken, InLoop
<1>11. EndedClientsAreDrained'
  <2>1. b.len = 0 => b.from + b.len = b.from
    BY <1>00
  <2> QED
    BY <1>0, <1>00, <1>000, <2>1
    DEF IndInv, TypeOK, EndedClientsAreDrained
<1> QED
  BY <1>1, <1>2, <1>3, <1>4, <1>5, <1>6, <1>7, <1>8, <1>9, <1>10, <1>11
  DEF IndInv

\* Write preserves the inductive invariant.
LEMMA WriteStep ==
  ASSUME IndInv, NEW c \in Clients, Write(c)
  PROVE  IndInv'
<1>1. TypeOK'
  BY DEF IndInv, TypeOK, Write, AfterTake, NothingTaken, End, InLoop
<1>2. LockSound'
  BY DEF IndInv, LockSound, Write
<1>3. ClientSound'
  BY DEF IndInv, TypeOK, ClientSound, Write, AfterTake, NothingTaken
<1>4. EmptyMeansSent'
  BY DEF IndInv, TypeOK, EmptyMeansSent, Sent, Write, AfterTake
<1>5. WriterIsSignalled'
  BY DEF IndInv, TypeOK, WriterIsSignalled, Write, AfterTake
<1>6. QueuesReachLiveEdge'
  BY DEF IndInv, QueuesReachLiveEdge, Owed, Write
<1>7. PrebufferIsNewestOutput'
  BY DEF IndInv, PrebufferIsNewestOutput, Write
<1>8. BacklogBounded'
  BY DEF IndInv, BacklogBounded, Write
<1>9. GapsAreWholePackets'
  BY DEF IndInv, TypeOK, GapsAreWholePackets, Sent, Write, AfterTake
<1>10. NoLostWakeup'
  BY DEF IndInv, NoLostWakeup, WriterIsSignalled, Write, AfterTake
<1>11. EndedClientsAreDrained'
  BY DEF IndInv, TypeOK, ClientSound, EndedClientsAreDrained, EmptyMeansSent,
         Sent, Write, AfterTake
<1> QED
  BY <1>1, <1>2, <1>3, <1>4, <1>5, <1>6, <1>7, <1>8, <1>9, <1>10, <1>11
  DEF IndInv

\* Disconnect preserves the inductive invariant.
LEMMA DisconnectStep ==
  ASSUME IndInv, NEW c \in Clients, Disconnect(c)
  PROVE  IndInv'
<1>1. TypeOK'
  BY DEF IndInv, TypeOK, Disconnect, NothingTaken
<1>2. LockSound'
  BY DEF IndInv, LockSound, Disconnect
<1>3. ClientSound'
  BY DEF IndInv, TypeOK, ClientSound, Disconnect, NothingTaken
<1>4. EmptyMeansSent'
  BY DEF IndInv, TypeOK, EmptyMeansSent, Sent, Disconnect, InLoop
<1>5. WriterIsSignalled'
  BY DEF IndInv, TypeOK, WriterIsSignalled, Disconnect
<1>6. QueuesReachLiveEdge'
  BY DEF IndInv, QueuesReachLiveEdge, Owed, Disconnect
<1>7. PrebufferIsNewestOutput'
  BY DEF IndInv, PrebufferIsNewestOutput, Disconnect
<1>8. BacklogBounded'
  BY DEF IndInv, BacklogBounded, Disconnect
<1>9. GapsAreWholePackets'
  BY DEF IndInv, TypeOK, GapsAreWholePackets, Sent, Disconnect, InLoop
<1>10. NoLostWakeup'
  BY DEF IndInv, NoLostWakeup, Disconnect
<1>11. EndedClientsAreDrained'
  BY DEF IndInv, EndedClientsAreDrained, Disconnect
<1> QED
  BY <1>1, <1>2, <1>3, <1>4, <1>5, <1>6, <1>7, <1>8, <1>9, <1>10, <1>11
  DEF IndInv

\* Unsubscribe preserves the inductive invariant.
LEMMA UnsubscribeStep ==
  ASSUME IndInv, NEW c \in Clients, Unsubscribe(c)
  PROVE  IndInv'
<1>1. TypeOK'
  BY DEF IndInv, TypeOK, Unsubscribe
<1>2. LockSound'
  BY DEF IndInv, LockSound, Unsubscribe
<1>3. ClientSound'
  BY DEF IndInv, ClientSound, Unsubscribe, InLoop
<1>4. EmptyMeansSent'
  BY DEF IndInv, EmptyMeansSent, Sent, Unsubscribe, InLoop
<1>5. WriterIsSignalled'
  BY DEF IndInv, WriterIsSignalled, Unsubscribe
<1>6. QueuesReachLiveEdge'
  BY DEF IndInv, QueuesReachLiveEdge, Owed, Unsubscribe
<1>7. PrebufferIsNewestOutput'
  BY DEF IndInv, PrebufferIsNewestOutput, Unsubscribe
<1>8. BacklogBounded'
  BY DEF IndInv, BacklogBounded, Unsubscribe
<1>9. GapsAreWholePackets'
  BY DEF IndInv, GapsAreWholePackets, Sent, Unsubscribe, InLoop
<1>10. NoLostWakeup'
  BY DEF IndInv, NoLostWakeup, Unsubscribe
<1>11. EndedClientsAreDrained'
  BY DEF IndInv, EndedClientsAreDrained, Unsubscribe
<1> QED
  BY <1>1, <1>2, <1>3, <1>4, <1>5, <1>6, <1>7, <1>8, <1>9, <1>10, <1>11
  DEF IndInv

-----------------------------------------------------------------------------

\* The initial states satisfy the inductive invariant.
LEMMA IndInvInit == Init => IndInv
<1> SUFFICES ASSUME Init PROVE IndInv
  OBVIOUS
<1>1. TypeOK
  <2>1. pc \in [Clients -> InLoop \cup {"new", "ended", "gone", "left"}]
    BY DEF Init, InLoop
  <2>2. pending \in [Clients -> Block] /\ recent \in Block
    BY DEF Init, Block, EmptyAt
  <2>3. taken \in [Clients -> [from : Nat, len : Nat, closed : BOOLEAN]]
    BY DEF Init, NothingTaken
  <2>4. subs \subseteq Clients
    BY DEF Init
  <2>5. /\ mu = "free" /\ closed = FALSE /\ output = 0 /\ chunk = 0
        /\ todo = {} /\ unsignalled = {}
        /\ ended = [c \in Clients |-> FALSE]
        /\ notify = [c \in Clients |-> FALSE]
        /\ written = [c \in Clients |-> 0]
    BY DEF Init
  <2> QED BY <2>1, <2>2, <2>3, <2>4, <2>5 DEF TypeOK
<1>2. LockSound /\ ClientSound /\ EmptyMeansSent /\ WriterIsSignalled
  BY DEF Init, LockSound, ClientSound, EmptyMeansSent, WriterIsSignalled, Sent,
         EmptyAt, NothingTaken, InLoop
<1>3. /\ QueuesReachLiveEdge /\ BacklogBounded
      /\ NoLostWakeup /\ EndedClientsAreDrained
  BY SizesAssumption
  DEF Init, QueuesReachLiveEdge, Owed, End, BacklogBounded, NoLostWakeup,
      EndedClientsAreDrained, EmptyAt
<1>4. 0 % PacketSize = 0
  BY SizesAssumption
<1>5. PrebufferIsNewestOutput
  BY <1>4, SizesAssumption DEF Init, PrebufferIsNewestOutput, End, EmptyAt
<1>6. GapsAreWholePackets
  <2>1. /\ pending = [c \in Clients |-> [from |-> 0, len |-> 0]]
        /\ written = [c \in Clients |-> 0]
    BY DEF Init, EmptyAt
  <2>2. \A c \in Clients : pc[c] # "write"
    BY DEF Init
  <2>3. \A c \in Clients : pending[c].from = 0 /\ written[c] = 0
    BY <2>1
  <2>4. \A c \in Clients : Sent(c) = 0
    BY <2>2, <2>3 DEF Sent
  <2> HIDE DEF Sent
  <2>5. ASSUME NEW c \in Clients
        PROVE  /\ pending[c].from >= Sent(c)
               /\ (pending[c].from - Sent(c)) % PacketSize = 0
    <3>1. pending[c].from = 0 /\ Sent(c) = 0
      BY <2>3, <2>4
    <3>2. pending[c].from >= Sent(c) /\ pending[c].from - Sent(c) = 0
      BY <3>1
    <3> QED BY <1>4, <3>2
  <2> QED BY <2>2, <2>5 DEF GapsAreWholePackets
<1> QED BY <1>1, <1>2, <1>3, <1>5, <1>6 DEF IndInv

\* A step that changes nothing.
LEMMA StutterStep ==
  ASSUME IndInv, UNCHANGED vars
  PROVE  IndInv'
<1>1. /\ TypeOK' /\ LockSound' /\ ClientSound'
      /\ BacklogBounded' /\ PrebufferIsNewestOutput'
  BY DEF IndInv, vars, TypeOK, LockSound, ClientSound, BacklogBounded,
         PrebufferIsNewestOutput
<1>2. EmptyMeansSent' /\ WriterIsSignalled' /\ QueuesReachLiveEdge'
  BY DEF IndInv, vars, EmptyMeansSent, Sent, WriterIsSignalled,
         QueuesReachLiveEdge, Owed
<1>3. GapsAreWholePackets' /\ NoLostWakeup' /\ EndedClientsAreDrained'
  BY DEF IndInv, vars, GapsAreWholePackets, Sent, NoLostWakeup,
         EndedClientsAreDrained
<1> QED BY <1>1, <1>2, <1>3 DEF IndInv

\* Every step preserves it.
LEMMA IndInvStep == IndInv /\ [Next]_vars => IndInv'
<1> SUFFICES ASSUME IndInv, [Next]_vars PROVE IndInv'
  OBVIOUS
<1>1. CASE Broadcast
  BY <1>1, BroadcastStartStep, BroadcastPushStep, BroadcastDoneStep
  DEF Broadcast
<1>2. CASE Stop
  BY <1>2, StopStartStep, StopCloseStep, StopDoneStep DEF Stop
<1>3. CASE \E c \in Clients : Signal(c)
  BY <1>3, SignalStep
<1>4. ASSUME NEW c \in Clients, Client(c) PROVE IndInv'
  BY <1>4, SubscribeStep, SubscribeRefusedStep, ReceiveNotifyStep, TakeStep,
     WriteStep, DisconnectStep, UnsubscribeStep DEF Client
<1>5. CASE Finished \/ UNCHANGED vars
  BY <1>5, StutterStep DEF Finished
<1> QED BY <1>1, <1>2, <1>3, <1>4, <1>5 DEF Next

\* Every state the program reaches satisfies the inductive invariant.
THEOREM IndInvHolds == Spec => []IndInv
BY IndInvInit, IndInvStep, PTL DEF Spec

\* The state has the types the code gives it: in particular no length is ever
\* negative, so that none of the slice expressions of broadcast and push is out
\* of range.
THEOREM TypeCorrect == Spec => []TypeOK
BY IndInvHolds, PTL DEF IndInv

\* Whatever the interleaving of joins, takes and broadcasts, every subscriber's
\* queue ends at the live edge of the session's output.
THEOREM LiveEdge == Spec => []QueuesReachLiveEdge
BY IndInvHolds, PTL DEF IndInv

\* The join prebuffer is the newest output, from a packet boundary.
THEOREM Prebuffer == Spec => []PrebufferIsNewestOutput
BY IndInvHolds, PTL DEF IndInv

\* maxSubscriberBacklog bounds every queue.
THEOREM Backlog == Spec => []BacklogBounded
BY IndInvHolds, PTL DEF IndInv

\* What a slow client misses is always a whole number of packets.
THEOREM PacketAlignment == Spec => []GapsAreWholePackets
BY IndInvHolds, PTL DEF IndInv

\* No wake-up of a client waiting in its select is lost.
THEOREM Wakeups == Spec => []NoLostWakeup
BY IndInvHolds, PTL DEF IndInv

\* A request that returns because the session ended has written all it had.
THEOREM Drained == Spec => []EndedClientsAreDrained
BY IndInvHolds, PTL DEF IndInv

\* Once stop is through, no request is left waiting on an open queue: a client
\* in its loop is a subscriber or closed, and a stopped session has no
\* subscribers.
THEOREM StopReachesViewers == Spec => []NoViewerLeftBehind
<1>1. IndInv => NoViewerLeftBehind
  BY DEF IndInv, LockSound, ClientSound, NoViewerLeftBehind
<1> QED BY <1>1, IndInvHolds, PTL

-----------------------------------------------------------------------------
(***************************************************************************)
(* StreamFanout implements SharedStream: its initial states are initial    *)
(* states of SharedStream, and each of its steps is a step of SharedStream *)
(* or leaves the state of SharedStream as it is.                           *)
(***************************************************************************)

USE DEF sessionVars, queueVars, clientVars

\* A gap before what is queued is there because the client had fallen more
\* than MaxBacklog behind, and still is.
GapsAreDeserved ==
  \A c \in Clients :
    pc[c] \in InLoop /\ pending[c].from > Sent(c)
      => End(pending[c]) - Sent(c) > MaxBacklog

\* Only a client that is writing has something in hand.
OnlyWritersHold ==
  \A c \in Clients : pc[c] # "write" => taken[c] = NothingTaken

\* What the refinement needs besides IndInv.
RefInv == GapsAreDeserved /\ OnlyWritersHold

-----------------------------------------------------------------------------
(* RefInv is an invariant.                                                  *)

\* In the initial states nothing is queued.
LEMMA RefInvInit == Init => RefInv
<1> SUFFICES ASSUME Init PROVE RefInv
  OBVIOUS
<1>1. OnlyWritersHold
  BY DEF Init, OnlyWritersHold
<1>2. ASSUME NEW c \in Clients PROVE pending[c].from = 0 /\ Sent(c) = 0
  <2>1. pc[c] # "write" /\ written[c] = 0 /\ pending[c] = EmptyAt(0)
    BY DEF Init
  <2> QED BY <2>1 DEF Sent, EmptyAt
<1>3. GapsAreDeserved
  BY <1>2 DEF GapsAreDeserved
<1> QED BY <1>1, <1>3 DEF RefInv

\* A push skips part of a queue only if it would be longer than MaxBacklog.
LEMMA BroadcastPushGap ==
  ASSUME IndInv, RefInv, NEW c \in Clients, BroadcastPush(c)
  PROVE  RefInv'
<1> DEFINE b == pending[c]
           p == PushTo(b, chunk)
<1>1. /\ b \in Block /\ b.from \in Nat /\ b.len \in Nat
      /\ b.len <= MaxBacklog
      /\ chunk \in Nat /\ chunk <= CopyBuffer
      /\ Sent(c) \in Nat
  BY SizesAssumption
  DEF IndInv, TypeOK, LockSound, BacklogBounded, BroadcastPush, Block, Sent,
      End
<1>2. pending' = [pending EXCEPT ![c] = p] /\ UNCHANGED <<pc, taken, written>>
  BY DEF BroadcastPush
<1>3. p \in Block /\ End(p) = End(b) + chunk
  BY <1>1, PushProperties
<1>4. p.from > b.from => b.len + chunk > MaxBacklog
  <2>1. b.len + chunk <= MaxBacklog => Skipped(b.len, chunk) = 0
    BY <1>1, SkippedProperties
  <2>2. p.from = b.from + Skipped(b.len, chunk)
    BY DEF PushTo
  <2> QED BY <1>1, <2>1, <2>2, SizesAssumption
<1> HIDE DEF p
<1>5. ASSUME pc[c] \in InLoop, p.from > Sent(c)
      PROVE  End(p) - Sent(c) > MaxBacklog
  <2>1. b.from >= Sent(c)
    BY <1>5 DEF IndInv, GapsAreWholePackets
  <2>2. p.from <= b.from \/ p.from > b.from
    BY <1>1, <1>3 DEF Block
  <2>3. CASE p.from > b.from
    BY <1>1, <1>3, <1>4, <2>1, <2>3, SizesAssumption DEF End
  <2>4. CASE p.from <= b.from
    BY <1>1, <1>3, <1>5, <2>1, <2>4, SizesAssumption
    DEF End, Block, RefInv, GapsAreDeserved
  <2> QED BY <2>2, <2>3, <2>4
<1>6. GapsAreDeserved'
  <2>1. \A d \in Clients : Sent(d)' = Sent(d)
    BY <1>2 DEF Sent, End
  <2>2. pending'[c] = p /\ \A d \in Clients : d # c => pending'[d] = pending[d]
    BY <1>2 DEF IndInv, TypeOK
  <2> QED BY <1>2, <1>5, <2>1, <2>2 DEF RefInv, GapsAreDeserved, End
<1>7. OnlyWritersHold'
  BY <1>2 DEF RefInv, OnlyWritersHold
<1> QED BY <1>6, <1>7 DEF RefInv

\* A new queue starts with the first byte of the prebuffer.
LEMMA SubscribeGap ==
  ASSUME IndInv, RefInv, NEW c \in Clients, Subscribe(c)
  PROVE  RefInv'
<1> DEFINE p == PushTo(EmptyAt(recent.from), recent.len)
<1>1. /\ EmptyAt(recent.from) \in Block /\ recent.len \in Nat
      /\ EmptyAt(recent.from).len = 0
      /\ EmptyAt(recent.from).from = recent.from
      /\ recent.len <= JoinPrebuffer
  BY DEF IndInv, TypeOK, PrebufferIsNewestOutput, Block, EmptyAt
<1>2. p.from = recent.from
  BY <1>1, PushProperties, SizesAssumption
<1>3. /\ pending' = [pending EXCEPT ![c] = p]
      /\ written' = [written EXCEPT ![c] = recent.from]
      /\ pc' = [pc EXCEPT ![c] = "select"]
      /\ UNCHANGED taken
  BY DEF Subscribe
<1> HIDE DEF p
<1>4. pending'[c].from = recent.from /\ Sent(c)' = recent.from
  BY <1>2, <1>3 DEF IndInv, TypeOK, Sent
<1>5. \A d \in Clients :
        d # c => /\ pending'[d] = pending[d] /\ pc'[d] = pc[d]
                 /\ Sent(d)' = Sent(d)
  BY <1>3 DEF IndInv, TypeOK, Sent, End
<1>6. recent.from \in Nat
  BY DEF IndInv, TypeOK, Block
<1>7. GapsAreDeserved'
  BY <1>4, <1>5, <1>6 DEF RefInv, GapsAreDeserved, End
<1>8. OnlyWritersHold'
  BY <1>3 DEF IndInv, TypeOK, RefInv, OnlyWritersHold, Subscribe
<1> QED BY <1>7, <1>8 DEF RefInv

\* take empties the queue; what follows starts where the taken block ends.
LEMMA TakeGap ==
  ASSUME IndInv, RefInv, NEW c \in Clients, Take(c)
  PROVE  RefInv'
<1>1. /\ pending' = [pending EXCEPT ![c] = EmptyAt(End(pending[c]))]
      /\ UNCHANGED written
  BY DEF Take, Emptied
<1>2. /\ pc \in [Clients -> InLoop \cup {"new", "ended", "gone", "left"}]
      /\ pc[c] = "take" /\ pending[c].from \in Nat /\ pending[c].len \in Nat
      /\ pending \in [Clients -> Block]
      /\ taken \in [Clients -> [from : Nat, len : Nat, closed : BOOLEAN]]
  BY DEF IndInv, TypeOK, Take, Block
<1>3. \A d \in Clients :
        d # c => /\ pending'[d] = pending[d] /\ pc'[d] = pc[d]
                 /\ taken'[d] = taken[d] /\ Sent(d)' = Sent(d)
  BY <1>1, <1>2 DEF Take, Sent, End
<1>4. pending'[c].from = End(pending[c]) /\ End(pending[c]) \in Nat
  BY <1>1, <1>2 DEF EmptyAt, End
<1>5. pc'[c] \in InLoop => Sent(c)' = End(pending[c])
  <2>1. CASE pending[c].len > 0
    BY <1>1, <1>2, <2>1 DEF Take, Sent, NextAfterTake, End
  <2>2. CASE ~(pending[c].len > 0)
    <3>1. pending[c].len = 0 /\ End(pending[c]) = pending[c].from
      BY <1>2, <2>2 DEF End
    <3>2. Sent(c) = pending[c].from /\ Sent(c) = written[c]
      BY <1>2, <3>1 DEF IndInv, EmptyMeansSent, InLoop, Sent
    <3>3. pc'[c] # "write"
      BY <1>2, <2>2 DEF Take, NextAfterTake, AfterTake
    <3> QED BY <1>1, <3>1, <3>2, <3>3 DEF Sent
  <2> QED BY <2>1, <2>2
<1>6. GapsAreDeserved'
  <2>1. ASSUME NEW d \in Clients, pc'[d] \in InLoop,
               pending'[d].from > Sent(d)'
        PROVE  End(pending'[d]) - Sent(d)' > MaxBacklog
    <3>1. d # c
      BY <1>4, <1>5, <2>1
    <3> QED BY <1>3, <2>1, <3>1 DEF RefInv, GapsAreDeserved
  <2> QED BY <2>1 DEF GapsAreDeserved, End
<1>7. OnlyWritersHold'
  <2>1. pc'[c] # "write" => taken'[c] = NothingTaken
    BY <1>2 DEF Take, NextAfterTake, AfterTake
  <2> QED BY <1>3, <2>1 DEF RefInv, OnlyWritersHold
<1> QED BY <1>6, <1>7 DEF RefInv

\* What has been written counts as sent, as it did while it was being written.
LEMMA WriteGap ==
  ASSUME IndInv, RefInv, NEW c \in Clients, Write(c)
  PROVE  RefInv'
<1>1. /\ pc[c] = "write" /\ UNCHANGED pending
      /\ pc' = [pc EXCEPT ![c] = AfterTake(taken[c].closed)]
      /\ written' = [written EXCEPT ![c] = End(taken[c])]
      /\ taken' = [taken EXCEPT ![c] = NothingTaken]
  BY DEF Write
<1>2. AfterTake(taken[c].closed) \in {"select", "ended"}
  BY DEF AfterTake
<1>3. \A d \in Clients : Sent(d)' = Sent(d)
  BY <1>1, <1>2 DEF IndInv, TypeOK, Sent, End
<1>4. GapsAreDeserved'
  BY <1>1, <1>2, <1>3 DEF IndInv, TypeOK, InLoop, RefInv, GapsAreDeserved, End
<1>5. OnlyWritersHold'
  BY <1>1 DEF IndInv, TypeOK, RefInv, OnlyWritersHold
<1> QED BY <1>4, <1>5 DEF RefInv

\* The other steps of a client move no queue and write nothing.
LEMMA OtherGaps ==
  ASSUME IndInv, RefInv, NEW c \in Clients,
         \/ SubscribeRefused(c) \/ ReceiveNotify(c) \/ Disconnect(c)
         \/ Unsubscribe(c)
  PROVE  RefInv'
<1>1. /\ UNCHANGED <<pending, written>>
      /\ \A d \in Clients : d # c => pc'[d] = pc[d] /\ taken'[d] = taken[d]
      /\ pc'[c] # "write"
      /\ taken'[c] = NothingTaken
      /\ pc'[c] \in InLoop => pc[c] = "select"
  BY DEF IndInv, TypeOK, RefInv, OnlyWritersHold, SubscribeRefused,
         ReceiveNotify, Disconnect, Unsubscribe, InLoop
<1>2. \A d \in Clients : pc'[d] \in InLoop => pc[d] \in InLoop
  BY <1>1 DEF InLoop
<1>3. \A d \in Clients : pc'[d] \in InLoop => Sent(d)' = Sent(d)
  BY <1>1 DEF Sent, End
<1>4. GapsAreDeserved'
  BY <1>1, <1>2, <1>3 DEF RefInv, GapsAreDeserved, End
<1>5. OnlyWritersHold'
  BY <1>1 DEF RefInv, OnlyWritersHold
<1> QED BY <1>4, <1>5 DEF RefInv

\* Every step preserves RefInv.
LEMMA RefInvStep == IndInv /\ RefInv /\ [Next]_vars => RefInv'
<1> SUFFICES ASSUME IndInv, RefInv, [Next]_vars PROVE RefInv'
  OBVIOUS
<1>1. ASSUME UNCHANGED <<pc, pending, taken, written>> PROVE RefInv'
  BY <1>1 DEF RefInv, GapsAreDeserved, OnlyWritersHold, Sent, End
<1>2. CASE Broadcast
  BY <1>1, <1>2, BroadcastPushGap DEF Broadcast, BroadcastStart, BroadcastDone
<1>3. CASE Stop
  BY <1>1, <1>3 DEF Stop, StopStart, StopClose, StopDone
<1>4. CASE \E c \in Clients : Signal(c)
  BY <1>1, <1>4 DEF Signal
<1>5. ASSUME NEW c \in Clients, Client(c) PROVE RefInv'
  BY <1>5, SubscribeGap, TakeGap, WriteGap, OtherGaps DEF Client
<1>6. CASE Finished \/ UNCHANGED vars
  BY <1>1, <1>6 DEF Finished, vars
<1> QED BY <1>2, <1>3, <1>4, <1>5, <1>6 DEF Next

\* RefInv holds in every state the program reaches.
LEMMA RefInvHolds == Spec => []RefInv
BY IndInvHolds, RefInvInit, RefInvStep, PTL DEF Spec

-----------------------------------------------------------------------------
(* Every step is a step of SharedStream, or none.                           *)

\* A viewer's state changes alone.
LEMMA OnlyOne ==
  ASSUME NEW c \in Clients
  PROVE  /\ (\A d \in Clients : d # c => Status(d)' = Status(d))
              => Statuses' = [Statuses EXCEPT ![c] = Status(c)']
         /\ (\A d \in Clients : d # c => Entitled(d)' = Entitled(d))
              => Entitlements' = [Entitlements EXCEPT ![c] = Entitled(c)']
         /\ (\A d \in Clients : d # c => InWrite(d)' = InWrite(d))
              => Parts' = [Parts EXCEPT ![c] = InWrite(c)']
BY DEF Statuses, Entitlements, Parts

\* Nothing changes for any viewer.
LEMMA Nobody ==
  /\ (\A d \in Clients : Status(d)' = Status(d)) => UNCHANGED Statuses
  /\ (\A d \in Clients : Entitled(d)' = Entitled(d)) => UNCHANGED Entitlements
  /\ (\A d \in Clients : InWrite(d)' = InWrite(d)) => UNCHANGED Parts
BY DEF Statuses, Entitlements, Parts

\* Between two critical sections a subscriber is entitled to the whole output,
\* and a viewer of an open session is a subscriber.
LEMMA EntitledToOutput ==
  ASSUME IndInv, NEW c \in Clients
  PROVE  /\ mu = "free" /\ c \in subs => End(pending[c]) = output
         /\ pc[c] \in InLoop /\ ~closed => c \in subs
         /\ closed /\ mu # "stop" => c \notin subs
         /\ closed => Entitled(c) = IF pc[c] \in InLoop THEN End(pending[c])
                                   ELSE 0
BY DEF IndInv, QueuesReachLiveEdge, Owed, LockSound, ClientSound, Entitled

\* The start of a broadcast is Emit.
LEMMA BroadcastStartRefines ==
  ASSUME IndInv, NEW n \in 1 .. CopyBuffer, BroadcastStart(n)
  PROVE  Shared!Emit
<1>1. /\ mu = "free" /\ mu' = "broadcast" /\ chunk' = n /\ todo' = subs
      /\ output' = output + n /\ output \in Nat /\ n \in Nat /\ n > 0
      /\ UNCHANGED <<closed, pending, pc, taken, written>>
  BY SizesAssumption DEF BroadcastStart, IndInv, TypeOK
<1>2. UNCHANGED <<Statuses, Parts>>
  BY <1>1 DEF Statuses, Parts, Status, InWrite
<1>3. ASSUME NEW c \in Clients
      PROVE  Entitled(c)' = IF ~closed /\ Shared!Watching(c) THEN output'
                            ELSE Entitlements[c]
  <2>1. Shared!Watching(c) <=> pc[c] \in InLoop
    BY DEF Shared!Watching, Statuses, Status, InLoop
  <2>2. Entitlements[c] = IF pc[c] \in InLoop THEN End(pending[c]) ELSE 0
    BY <1>1 DEF Entitlements, Entitled
  <2>3. Entitled(c)' = IF pc[c] \notin InLoop THEN 0
                       ELSE IF c \in subs THEN End(pending[c]) + n
                       ELSE End(pending[c])
    BY <1>1 DEF Entitled, End
  <2>4. CASE closed
    BY <1>1, <2>2, <2>3, <2>4, EntitledToOutput
  <2>5. CASE ~closed
    BY <1>1, <2>1, <2>2, <2>3, <2>5, EntitledToOutput
  <2> QED BY <2>4, <2>5
<1>4. Entitlements' = [c \in Clients |->
                         IF ~closed /\ Shared!Watching(c) THEN output'
                         ELSE Entitlements[c]]
  BY <1>3 DEF Entitlements
<1> QED BY <1>1, <1>2, <1>4 DEF Shared!Emit

\* The appends, signals and unlocks of a broadcast or of stop change nothing.
LEMMA LoopRefines ==
  ASSUME IndInv,
         \/ \E c \in Clients : BroadcastPush(c) \/ StopClose(c) \/ Signal(c)
         \/ BroadcastDone \/ StopDone
  PROVE  UNCHANGED Shared!vars
<1>1. UNCHANGED <<closed, output, pc, taken, written>>
  BY DEF BroadcastPush, StopClose, Signal, BroadcastDone, StopDone
<1>2. UNCHANGED <<Statuses, Parts>>
  BY <1>1 DEF Statuses, Parts, Status, InWrite
<1>3. ASSUME NEW c \in Clients, BroadcastPush(c)
      PROVE  \A d \in Clients : Entitled(d)' = Entitled(d)
  <2>1. /\ pending[c] \in Block /\ pending[c].len <= MaxBacklog
        /\ chunk \in Nat /\ chunk <= CopyBuffer
        /\ pending \in [Clients -> Block]
    BY <1>3, SizesAssumption
    DEF IndInv, TypeOK, LockSound, BacklogBounded, BroadcastPush, Block
  <2>2. End(PushTo(pending[c], chunk)) = End(pending[c]) + chunk
    BY <2>1, PushProperties
  <2>3. /\ pending' = [pending EXCEPT ![c] = PushTo(pending[c], chunk)]
        /\ todo' = todo \ {c} /\ c \in todo
        /\ mu = "broadcast" /\ UNCHANGED <<mu, chunk>>
    BY <1>3 DEF BroadcastPush
  <2>4. /\ End(pending'[c]) = End(pending[c]) + chunk
        /\ \A d \in Clients : d # c => pending'[d] = pending[d]
    BY <2>1, <2>2, <2>3
  <2> QED BY <1>1, <2>3, <2>4 DEF Entitled, End
<1>4. ASSUME NEW c \in Clients, StopClose(c) \/ Signal(c)
      PROVE  \A d \in Clients : Entitled(d)' = Entitled(d)
  BY <1>1, <1>4 DEF Entitled, End, StopClose, Signal
<1>5. ASSUME BroadcastDone \/ StopDone
      PROVE  \A d \in Clients : Entitled(d)' = Entitled(d)
  BY <1>1, <1>5 DEF Entitled, End, BroadcastDone, StopDone
<1>6. UNCHANGED Entitlements
  BY <1>3, <1>4, <1>5, Nobody
<1> QED BY <1>1, <1>2, <1>6 DEF Shared!vars

\* The start of stop is Close.
LEMMA StopStartRefines ==
  ASSUME IndInv, StopStart
  PROVE  Shared!Close
<1>1. /\ ~closed /\ closed' = TRUE /\ mu = "free" /\ mu' = "stop"
      /\ UNCHANGED <<output, chunk, pending, pc, taken, written>>
  BY DEF StopStart
<1>2. UNCHANGED <<Statuses, Parts>>
  BY <1>1 DEF Statuses, Parts, Status, InWrite
<1>3. \A c \in Clients : Entitled(c)' = Entitled(c)
  BY <1>1 DEF Entitled, End
<1>4. UNCHANGED Entitlements
  BY <1>3, Nobody
<1> QED BY <1>1, <1>2, <1>4 DEF Shared!Close

\* subscribe lets a viewer in at the start of the prebuffer.
LEMMA SubscribeRefines ==
  ASSUME IndInv, RefInv, NEW c \in Clients, Subscribe(c)
  PROVE  Shared!Join(c)
<1> DEFINE p == PushTo(EmptyAt(recent.from), recent.len)
           s == recent.from
<1>1. /\ pc[c] = "new" /\ mu = "free" /\ ~closed
      /\ pending' = [pending EXCEPT ![c] = p]
      /\ written' = [written EXCEPT ![c] = s]
      /\ pc' = [pc EXCEPT ![c] = "select"]
      /\ UNCHANGED <<mu, closed, output, chunk, todo, taken>>
  BY DEF Subscribe, Joinable
<1>2. /\ EmptyAt(s) \in Block /\ recent.len \in Nat /\ s \in Nat
      /\ EmptyAt(s).len = 0 /\ End(EmptyAt(s)) = s
      /\ recent.len <= JoinPrebuffer /\ s % PacketSize = 0
      /\ s > 0 => recent.len > JoinPrebuffer - PacketSize
      /\ s + recent.len = output
  BY DEF IndInv, TypeOK, PrebufferIsNewestOutput, Block, EmptyAt, End
<1>3. End(p) = output
  BY <1>2, PushProperties, SizesAssumption
<1> HIDE DEF p
<1>4. /\ pc \in [Clients -> InLoop \cup {"new", "ended", "gone", "left"}]
      /\ pending \in [Clients -> Block]
  BY DEF IndInv, TypeOK
<1>5. /\ pc'[c] = "select" /\ pending'[c] = p
      /\ \A d \in Clients : d # c => pc'[d] = pc[d] /\ pending'[d] = pending[d]
  BY <1>1, <1>4
<1>6. /\ Statuses[c] = "out"
      /\ Statuses' = [Statuses EXCEPT ![c] = "in"]
  <2>1. Status(c) = "out" /\ Status(c)' = "in"
    BY <1>1, <1>5 DEF Status
  <2>2. \A d \in Clients : d # c => Status(d)' = Status(d)
    BY <1>5 DEF Status
  <2> QED BY <2>1, <2>2, OnlyOne DEF Statuses
<1>7. Entitlements' = [Entitlements EXCEPT ![c] = output]
  <2>1. Entitled(c)' = output
    BY <1>1, <1>3, <1>5 DEF Entitled, InLoop, End
  <2>2. \A d \in Clients : d # c => Entitled(d)' = Entitled(d)
    BY <1>1, <1>5 DEF Entitled, End
  <2> QED BY <2>1, <2>2, OnlyOne
<1>8. UNCHANGED Parts
  BY <1>1 DEF Parts, InWrite
<1>9. /\ s \in 0 .. output /\ output - s <= JoinPrebuffer
      /\ s > 0 => output - s > JoinPrebuffer - PacketSize
  <2>1. output - s = recent.len /\ s <= output
    BY <1>2 DEF IndInv, TypeOK
  <2> QED BY <1>2, <2>1 DEF IndInv, TypeOK
<1> QED BY <1>1, <1>2, <1>6, <1>7, <1>8, <1>9 DEF Shared!Join

\* A client's step within its loop, or out of it, changes no one else's state.
LEMMA OthersStay ==
  ASSUME IndInv, NEW c \in Clients,
         \/ SubscribeRefused(c) \/ ReceiveNotify(c) \/ Take(c) \/ Write(c)
         \/ Disconnect(c) \/ Unsubscribe(c)
  PROVE  /\ UNCHANGED <<closed, output, mu, chunk, todo>>
         /\ Statuses' = [Statuses EXCEPT ![c] = Status(c)']
         /\ Entitlements' = [Entitlements EXCEPT ![c] = Entitled(c)']
         /\ Parts' = [Parts EXCEPT ![c] = InWrite(c)']
<1>1. UNCHANGED <<closed, output, mu, chunk, todo>>
  BY DEF SubscribeRefused, ReceiveNotify, Take, Write, Disconnect, Unsubscribe
<1>2. ASSUME NEW d \in Clients, d # c
      PROVE  pc'[d] = pc[d] /\ pending'[d] = pending[d] /\ taken'[d] = taken[d]
  BY <1>2
  DEF IndInv, TypeOK, SubscribeRefused, ReceiveNotify, Take, Write, Disconnect,
      Unsubscribe
<1>3. ASSUME NEW d \in Clients, d # c
      PROVE  /\ Status(d)' = Status(d) /\ Entitled(d)' = Entitled(d)
             /\ InWrite(d)' = InWrite(d)
  BY <1>1, <1>2, <1>3 DEF Status, Entitled, InWrite, End
<1> QED BY <1>1, <1>3, OnlyOne

\* take hands the queue over, says that the session is over, or does nothing.
LEMMA TakeRefines ==
  ASSUME IndInv, RefInv, NEW c \in Clients, Take(c)
  PROVE  Shared!HandOver(c) \/ Shared!Complete(c) \/ UNCHANGED Shared!vars
<1> DEFINE b == pending[c]
<1>1. /\ pc[c] = "take" /\ b.from \in Nat /\ b.len \in Nat
      /\ written[c] \in Nat /\ b.len <= MaxBacklog
      /\ pc \in [Clients -> InLoop \cup {"new", "ended", "gone", "left"}]
      /\ pending \in [Clients -> Block] /\ chunk \in Nat
      /\ taken \in [Clients -> [from : Nat, len : Nat, closed : BOOLEAN]]
  BY DEF IndInv, TypeOK, BacklogBounded, Take, Block
<1>2. /\ UNCHANGED <<closed, output, mu, chunk, todo, written>>
      /\ Statuses' = [Statuses EXCEPT ![c] = Status(c)']
      /\ Entitlements' = [Entitlements EXCEPT ![c] = Entitled(c)']
      /\ Parts' = [Parts EXCEPT ![c] = InWrite(c)']
  BY OthersStay DEF Take
<1>3. /\ Statuses[c] = "in" /\ Parts[c] = [from |-> 0, len |-> 0]
      /\ Entitlements[c] = Entitled(c) /\ written[c] = Sent(c)
  BY <1>1 DEF Statuses, Status, Parts, InWrite, Entitlements, Sent, RefInv,
              OnlyWritersHold, NothingTaken
<1>4. /\ End(pending'[c]) = End(b) /\ pc'[c] = NextAfterTake(b.len, ended[c])
      /\ pending'[c] = EmptyAt(End(b))
  BY <1>1 DEF Take, Emptied, EmptyAt, End
<1>5. pc'[c] \in InLoop => Entitled(c)' = Entitled(c)
  BY <1>1, <1>2, <1>4 DEF Entitled, InLoop, End
<1>6. Entitled(c) >= End(b)
  BY <1>1 DEF Entitled, InLoop, End
<1>7. CASE b.len > 0
  <2>1. /\ pc'[c] = "write" /\ taken'[c].from = b.from /\ taken'[c].len = b.len
    BY <1>1, <1>4, <1>7 DEF NextAfterTake, Take
  <2>2. /\ Statuses' = [Statuses EXCEPT ![c] = "writing"]
        /\ UNCHANGED Entitlements
        /\ Parts'[c] = [from |-> b.from, len |-> b.len]
        /\ Parts' = [Parts EXCEPT ![c] = Parts'[c]]
    BY <1>2, <1>3, <1>5, <2>1 DEF Status, InLoop, InWrite, Entitlements, Parts
  <2>3. \/ b.from = written[c]
        \/ /\ b.from > written[c]
           /\ (b.from - written[c]) % PacketSize = 0
           /\ Entitled(c) - written[c] > MaxBacklog
    <3>0. b.from >= written[c]
      BY <1>1, <1>3 DEF IndInv, GapsAreWholePackets, InLoop
    <3>1. (b.from - written[c]) % PacketSize = 0
      BY <1>1, <1>3 DEF IndInv, GapsAreWholePackets, InLoop
    <3>2. b.from > written[c] => End(b) - written[c] > MaxBacklog
      BY <1>1, <1>3 DEF RefInv, GapsAreDeserved, InLoop
    <3>3. Entitled(c) \in Nat /\ End(b) \in Nat
      BY <1>1 DEF Entitled, End
    <3>4. b.from > written[c] => Entitled(c) - written[c] > MaxBacklog
      BY <1>1, <1>6, <3>2, <3>3, SizesAssumption
    <3>5. b.from = written[c] \/ b.from > written[c]
      <4>1. b.from \in Nat /\ written[c] \in Nat
        BY <1>1
      <4> HIDE DEF b
      <4> QED BY <3>0, <4>1
    <3> QED BY <3>1, <3>4, <3>5, Zenon
  <2>4. Shared!Continues(c, Parts'[c])
    BY <1>1, <1>3, <1>6, <1>7, <2>2, <2>3 DEF Shared!Continues, End
  <2> QED BY <1>2, <1>3, <2>2, <2>4 DEF Shared!HandOver
<1>8. CASE ~(b.len > 0)
  <2>1. b.len = 0 /\ End(b) = b.from /\ written[c] = b.from
    BY <1>1, <1>3, <1>8 DEF IndInv, EmptyMeansSent, InLoop, End
  <2>2. /\ pc'[c] = AfterTake(ended[c])
        /\ taken'[c] = NothingTaken
        /\ UNCHANGED Parts
    BY <1>1, <1>2, <1>3, <1>4, <1>8
    DEF NextAfterTake, Take, InWrite, NothingTaken, Parts
  <2>3. CASE ended[c]
    <3>1. closed /\ Entitled(c) = written[c]
      BY <1>1, <2>1, <2>3, EntitledToOutput DEF IndInv, ClientSound, InLoop
    <3>2. /\ Statuses' = [Statuses EXCEPT ![c] = "complete"]
          /\ Entitlements' = [Entitlements EXCEPT ![c] = 0]
      BY <1>2, <2>2, <2>3 DEF AfterTake, Status, Entitled, InLoop
    <3> QED BY <1>2, <1>3, <2>2, <3>1, <3>2
            DEF Shared!Complete, Shared!Served
  <2>4. CASE ~ended[c]
    <3>1. pc'[c] = "select"
      BY <2>2, <2>4 DEF AfterTake
    <3>2. Status(c)' = Statuses[c] /\ Entitled(c)' = Entitlements[c]
      BY <1>3, <1>5, <3>1 DEF Status, InLoop
    <3>3. UNCHANGED <<Statuses, Entitlements>>
      BY <1>2, <3>2 DEF Statuses, Entitlements
    <3> QED BY <1>2, <2>2, <3>3 DEF Shared!vars
  <2> QED BY <2>3, <2>4
<1> QED BY <1>7, <1>8

\* w.Write that succeeds is Written.
LEMMA WriteRefines ==
  ASSUME IndInv, RefInv, NEW c \in Clients, Write(c)
  PROVE  Shared!Written(c)
<1> DEFINE upTo == Parts[c].from + Parts[c].len
<1>1. /\ pc[c] = "write" /\ taken' = [taken EXCEPT ![c] = NothingTaken]
      /\ written' = [written EXCEPT ![c] = End(taken[c])]
      /\ pc' = [pc EXCEPT ![c] = AfterTake(taken[c].closed)]
      /\ UNCHANGED pending
      /\ pc \in [Clients -> InLoop \cup {"new", "ended", "gone", "left"}]
      /\ taken \in [Clients -> [from : Nat, len : Nat, closed : BOOLEAN]]
  BY DEF Write, IndInv, TypeOK
<1>2. /\ UNCHANGED <<closed, output, mu, chunk, todo>>
      /\ Statuses' = [Statuses EXCEPT ![c] = Status(c)']
      /\ Entitlements' = [Entitlements EXCEPT ![c] = Entitled(c)']
      /\ Parts' = [Parts EXCEPT ![c] = InWrite(c)']
  BY OthersStay
<1>3. /\ Statuses[c] = "writing" /\ Entitlements[c] = Entitled(c)
      /\ upTo = End(taken[c])
      /\ Parts' = [Parts EXCEPT ![c] = Shared!NoPart]
      /\ pc'[c] = AfterTake(taken[c].closed)
  BY <1>1, <1>2 DEF Statuses, Status, Entitlements, Parts, InWrite, End,
                    NothingTaken, Shared!NoPart
<1>4. CASE taken[c].closed
  <2>1. /\ ended[c] /\ closed /\ pending[c].len = 0
        /\ pending[c].from \in Nat
        /\ Entitled(c) = End(pending[c])
    BY <1>1, <1>4, EntitledToOutput
    DEF IndInv, TypeOK, ClientSound, InLoop, Block
  <2>2. End(pending[c]) = End(taken[c])
    BY <1>1, <2>1 DEF IndInv, EmptyMeansSent, Sent, InLoop, End
  <2>3. Status(c)' = "complete" /\ Entitled(c)' = 0
    BY <1>3, <1>4 DEF AfterTake, Status, Entitled, InLoop
  <2> QED BY <1>1, <1>2, <1>3, <2>1, <2>2, <2>3
          DEF Shared!Written, Shared!Served
<1>5. CASE ~taken[c].closed
  <2>1. pc'[c] = "select"
    BY <1>3, <1>5 DEF AfterTake
  <2>2. Status(c)' = "in" /\ Entitled(c)' = Entitlements[c]
    BY <1>1, <1>2, <1>3, <2>1 DEF Status, Entitled, InLoop, End
  <2>3. UNCHANGED Entitlements
    BY <1>2, <2>2 DEF Entitlements
  <2> QED BY <1>1, <1>2, <1>3, <2>2, <2>3 DEF Shared!Written
<1> QED BY <1>4, <1>5

\* The token is received unnoticed; the other steps refuse, leave or return.
LEMMA OtherRefines ==
  ASSUME IndInv, RefInv, NEW c \in Clients
  PROVE  /\ ReceiveNotify(c) => UNCHANGED Shared!vars
         /\ SubscribeRefused(c) => Shared!Refuse(c)
         /\ Disconnect(c) => Shared!Leave(c)
         /\ Unsubscribe(c) => Shared!Return(c)
<1>1. pc \in [Clients -> InLoop \cup {"new", "ended", "gone", "left"}]
  BY DEF IndInv, TypeOK
<1>2. /\ Statuses[c] = Status(c) /\ Entitlements[c] = Entitled(c)
      /\ Parts[c] = InWrite(c)
  BY DEF Statuses, Entitlements, Parts
<1>3. ASSUME ReceiveNotify(c) PROVE UNCHANGED Shared!vars
  <2>1. /\ pc[c] = "select" /\ pc'[c] = "take"
        /\ UNCHANGED <<pending, taken, written, closed, output, mu, chunk,
                        todo>>
    BY <1>1, <1>3 DEF ReceiveNotify
  <2>2. /\ Status(c)' = Statuses[c] /\ Entitled(c)' = Entitlements[c]
        /\ InWrite(c)' = Parts[c]
    BY <1>2, <2>1 DEF Status, Entitled, InWrite, InLoop, End
  <2>3. UNCHANGED <<Statuses, Entitlements, Parts>>
    BY <1>3, <2>2, OthersStay DEF Statuses, Entitlements, Parts
  <2> QED BY <2>1, <2>3 DEF Shared!vars
<1>4. ASSUME SubscribeRefused(c) PROVE Shared!Refuse(c)
  <2>1. /\ pc[c] = "new" /\ pc'[c] = "left" /\ closed
        /\ UNCHANGED <<pending, taken, written, closed, output, mu, chunk,
                        todo>>
    BY <1>1, <1>4 DEF SubscribeRefused, Joinable
  <2>2. /\ Statuses[c] = "out" /\ Status(c)' = "over"
        /\ Entitled(c)' = Entitlements[c] /\ InWrite(c)' = Parts[c]
    BY <1>2, <2>1 DEF Status, Entitled, InWrite, InLoop
  <2>3. /\ Statuses' = [Statuses EXCEPT ![c] = "over"]
        /\ UNCHANGED <<Entitlements, Parts>>
    BY <1>4, <2>2, OthersStay DEF Entitlements, Parts
  <2> QED BY <2>1, <2>2, <2>3 DEF Shared!Refuse
<1>5. ASSUME Disconnect(c) PROVE Shared!Leave(c)
  <2>1. /\ pc[c] \in {"select", "write"} /\ pc'[c] = "gone"
        /\ taken' = [taken EXCEPT ![c] = NothingTaken]
        /\ UNCHANGED <<pending, written, closed, output, mu, chunk, todo>>
    BY <1>1, <1>5 DEF Disconnect
  <2>2. /\ Statuses[c] \in {"in", "writing"} /\ Status(c)' = "gone"
        /\ Entitled(c)' = 0
    BY <1>2, <2>1 DEF Status, Entitled, InLoop
  <2>3. InWrite(c)' = Shared!NoPart
    BY <2>1 DEF IndInv, TypeOK, InWrite, NothingTaken, Shared!NoPart
  <2> QED BY <1>5, <2>1, <2>2, <2>3, OthersStay
          DEF Shared!Leave, Shared!Watching
<1>6. ASSUME Unsubscribe(c) PROVE Shared!Return(c)
  <2>1. /\ pc[c] \in {"ended", "gone"} /\ pc'[c] = "left"
        /\ UNCHANGED <<pending, taken, written, closed, output, mu, chunk,
                        todo>>
    BY <1>1, <1>6 DEF Unsubscribe
  <2>2. /\ Statuses[c] \in {"complete", "gone"} /\ Status(c)' = "over"
        /\ Entitled(c)' = Entitlements[c] /\ InWrite(c)' = Parts[c]
    BY <1>2, <2>1 DEF Status, Entitled, InWrite, InLoop
  <2>3. /\ Statuses' = [Statuses EXCEPT ![c] = "over"]
        /\ UNCHANGED <<Entitlements, Parts>>
    BY <1>6, <2>2, OthersStay DEF Entitlements, Parts
  <2> QED BY <2>1, <2>2, <2>3 DEF Shared!Return
<1> QED BY <1>3, <1>4, <1>5, <1>6

-----------------------------------------------------------------------------

\* The initial states are initial states of SharedStream.
LEMMA InitRefines == Init => Shared!Init
<1> SUFFICES ASSUME Init PROVE Shared!Init
  OBVIOUS
<1>1. PICK first \in Clients :
        pc = [c \in Clients |-> IF c = first THEN "select" ELSE "new"]
  BY DEF Init
<1>2. Statuses = [c \in Clients |-> IF c = first THEN "in" ELSE "out"]
  BY <1>1 DEF Statuses, Status
<1>3. ASSUME NEW c \in Clients PROVE Entitled(c) = 0
  <2>1. mu = "free" /\ pending[c] = EmptyAt(0)
    BY DEF Init
  <2> QED BY <2>1 DEF Entitled, End, EmptyAt
<1>4. Entitlements = [c \in Clients |-> 0]
  BY <1>3 DEF Entitlements
<1>5. ASSUME NEW c \in Clients PROVE InWrite(c) = Shared!NoPart
  <2>1. taken[c] = NothingTaken
    BY DEF Init
  <2> QED BY <2>1 DEF InWrite, NothingTaken, Shared!NoPart
<1>6. Parts = [c \in Clients |-> Shared!NoPart]
  BY <1>5 DEF Parts
<1>7. closed = FALSE /\ output = 0 /\ written = [c \in Clients |-> 0]
  BY DEF Init
<1> QED BY <1>2, <1>4, <1>6, <1>7 DEF Shared!Init

\* Every step is one of SharedStream's, or none.
LEMMA StepRefines ==
  IndInv /\ RefInv /\ [Next]_vars => [Shared!Next]_(Shared!vars)
<1> SUFFICES ASSUME IndInv, RefInv, [Next]_vars
             PROVE  Shared!Next \/ UNCHANGED Shared!vars
  OBVIOUS
<1>1. CASE Broadcast
  BY <1>1, BroadcastStartRefines, LoopRefines DEF Broadcast, Shared!Next
<1>2. CASE Stop
  BY <1>2, StopStartRefines, LoopRefines DEF Stop, Shared!Next
<1>3. CASE \E c \in Clients : Signal(c)
  BY <1>3, LoopRefines
<1>4. ASSUME NEW c \in Clients, Client(c)
      PROVE  Shared!Viewer(c) \/ UNCHANGED Shared!vars
  BY <1>4, SubscribeRefines, TakeRefines, WriteRefines, OtherRefines
  DEF Client, Shared!Viewer
<1>5. CASE Finished \/ UNCHANGED vars
  BY <1>5 DEF Finished, vars, Shared!vars, Statuses, Entitlements, Parts,
              Status, Entitled, InWrite, End
<1> QED BY <1>1, <1>2, <1>3, <1>4, <1>5 DEF Next, Shared!Next

\* StreamFanout implements SharedStream: mutexes, queues and tokens give every
\* viewer its part of one stream, in order, complete but for whole packets of
\* an overlong backlog, and tell it the end after the last byte.
THEOREM Refinement == Spec => ImplementsSharedStream
<1>1. Spec => Shared!Spec
  BY InitRefines, StepRefines, IndInvHolds, RefInvHolds, PTL
  DEF Spec, Shared!Spec
<1> QED BY <1>1 DEF ImplementsSharedStream

=============================================================================
