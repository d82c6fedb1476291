\* Packets of 2 bytes and reads of 1 or 2: joins inside a packet, trims and
\* skips all happen within 5 bytes.  No symmetry: liveness is checked.
SPECIFICATION FairSpec
CONSTANTS
  Clients = {c1, c2}
  PacketSize = 2
  CopyBuffer = 2
  JoinPrebuffer = 2
  MaxBacklog = 4
  MaxOutput = 5
INVARIANTS
  TypeOK
  QueuesReachLiveEdge
  PrebufferIsNewestOutput
  BacklogBounded
  GapsAreWholePackets
  NoLostWakeup
  NoViewerLeftBehind
PROPERTIES
  LockIsReleased
  ImplementsSharedStream
  ViewersAreServed
