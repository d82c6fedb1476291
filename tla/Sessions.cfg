\* Two requests, a rematch and a shutdown.  No symmetry: liveness is checked.
SPECIFICATION FairSpec
CONSTANTS
  Requests = {r1, r2}
  Streams = {a, b}
  None = None
  MaxRematch = 1
  MayShutDown = TRUE
INVARIANTS
  TypeOK
  RegisteredIsOpen
  JoinNeverRefused
  ViewersAreHeard
  NoOrphanSession
  IdleSessionIsWatched
  ArmedTimersAreIdle
PROPERTIES
  ImplementsSharedSessions
  RequestsAreAnswered
  UnwantedSessionsEnd
