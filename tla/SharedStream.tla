---------------------------- MODULE SharedStream ----------------------------
(***************************************************************************)
(* What one stream session promises to the viewers that share it, without  *)
(* prebuffer, queues, mutexes or wake-ups: the upstream's output is one    *)
(* stream of bytes, a viewer is let in close to its live edge and from     *)
(* then on is entitled to everything that is sent while the session is     *)
(* open.  It is handed that in order, without repetition and without a     *)
(* gap, unless it has fallen more than MaxBacklog behind: then a whole     *)
(* number of packets may be missing.  A viewer whose session ends is told  *)
(* so after the last byte it is entitled to.  StreamFanout implements this *)
(* specification.                                                          *)
(***************************************************************************)
EXTENDS Integers

CONSTANTS
  Clients,       \* HTTP requests tuned to this session
  PacketSize,    \* tsPacketSize
  MaxBacklog,    \* maxSubscriberBacklog
  JoinPrebuffer  \* joinPrebufferSize

VARIABLES
  open,    \* the session takes viewers and sends to them
  output,  \* bytes of the upstream so far
  status,  \* what has become of each viewer
  seen,    \* offset that follows the last byte written to the viewer
  owed,    \* offset up to which the viewer is entitled to the output
  part     \* the block that is being written to the viewer

vars == <<open, output, status, seen, owed, part>>

NoPart == [from |-> 0, len |-> 0]

\* Viewers that are entitled to what is sent.
Watching(c) == status[c] \in {"in", "writing"}

Init ==
  /\ open = TRUE
  /\ output = 0
  /\ \E first \in Clients :
       status = [c \in Clients |-> IF c = first THEN "in" ELSE "out"]
  /\ seen = [c \in Clients |-> 0]
  /\ owed = [c \in Clients |-> 0]
  /\ part = [c \in Clients |-> NoPart]

\* The upstream sends: at once, everybody who watches is entitled to it.
Emit ==
  /\ output' > output
  /\ owed' = [c \in Clients |->
                IF open /\ Watching(c) THEN output' ELSE owed[c]]
  /\ UNCHANGED <<open, status, seen, part>>

\* The session ends: nobody is entitled to what the upstream still sends.
Close ==
  /\ open
  /\ open' = FALSE
  /\ UNCHANGED <<output, status, seen, owed, part>>

\* A viewer is let in at a packet boundary, as far back as JoinPrebuffer lets.
Join(c) ==
  /\ status[c] = "out"
  /\ open
  /\ \E s \in 0 .. output :
       /\ s % PacketSize = 0
       /\ output - s <= JoinPrebuffer
       /\ s > 0 => output - s > JoinPrebuffer - PacketSize
       /\ seen' = [seen EXCEPT ![c] = s]
  /\ owed' = [owed EXCEPT ![c] = output]
  /\ status' = [status EXCEPT ![c] = "in"]
  /\ UNCHANGED <<open, output, part>>

\* The session has ended before the viewer came.
Refuse(c) ==
  /\ status[c] = "out"
  /\ ~open
  /\ status' = [status EXCEPT ![c] = "over"]
  /\ UNCHANGED <<open, output, seen, owed, part>>

\* Block b is what comes next for the viewer, or what comes after a gap.
Continues(c, b) ==
  /\ b.len > 0 /\ b.len <= MaxBacklog
  /\ b.from + b.len <= owed[c]
  /\ \/ b.from = seen[c]
     \/ /\ b.from > seen[c]
        /\ (b.from - seen[c]) % PacketSize = 0
        /\ owed[c] - seen[c] > MaxBacklog

HandOver(c) ==
  /\ status[c] = "in"
  /\ Continues(c, part'[c])
  /\ part' = [part EXCEPT ![c] = part'[c]]
  /\ status' = [status EXCEPT ![c] = "writing"]
  /\ UNCHANGED <<open, output, seen, owed>>

\* The viewer has got all it is entitled to of a session that is over.
Served(c, upTo) == ~open /\ upTo = owed[c]

\* The block has been written.
Written(c) ==
  LET upTo == part[c].from + part[c].len
  IN /\ status[c] = "writing"
     /\ seen' = [seen EXCEPT ![c] = upTo]
     /\ part' = [part EXCEPT ![c] = NoPart]
     /\ \/ /\ status' = [status EXCEPT ![c] = "in"]
           /\ UNCHANGED owed
        \/ /\ Served(c, upTo)
           /\ status' = [status EXCEPT ![c] = "complete"]
           /\ owed' = [owed EXCEPT ![c] = 0]
     /\ UNCHANGED <<open, output>>

Complete(c) ==
  /\ status[c] = "in"
  /\ Served(c, seen[c])
  /\ status' = [status EXCEPT ![c] = "complete"]
  /\ owed' = [owed EXCEPT ![c] = 0]
  /\ UNCHANGED <<open, output, seen, part>>

\* The viewer disconnects.
Leave(c) ==
  /\ Watching(c)
  /\ status' = [status EXCEPT ![c] = "gone"]
  /\ owed' = [owed EXCEPT ![c] = 0]
  /\ part' = [part EXCEPT ![c] = NoPart]
  /\ UNCHANGED <<open, output, seen>>

\* The request returns.
Return(c) ==
  /\ status[c] \in {"complete", "gone"}
  /\ status' = [status EXCEPT ![c] = "over"]
  /\ UNCHANGED <<open, output, seen, owed, part>>

Viewer(c) ==
  \/ Join(c) \/ Refuse(c) \/ HandOver(c) \/ Written(c) \/ Complete(c)
  \/ Leave(c) \/ Return(c)

Next == Emit \/ Close \/ \E c \in Clients : Viewer(c)

Spec == Init /\ [][Next]_vars

\* There is something to hand to the viewer or to tell it.
Expecting(c) ==
  \/ status[c] = "in" /\ (seen[c] < owed[c] \/ ~open)
  \/ status[c] \in {"complete", "gone"}

(***************************************************************************)
(* A viewer gets what it is entitled to, and its request returns when      *)
(* there is nothing more to come; only its own slowness is excepted.       *)
(***************************************************************************)
NobodyWaitsInVain ==
  \A c \in Clients : Expecting(c) ~> (status[c] \in {"writing", "over"})

=============================================================================
