--------------------------- MODULE SharedSessions ---------------------------
(***************************************************************************)
(* What the proxy promises the clients of one channel, without mutexes,    *)
(* timers, upstream connections or the order in which a session is taken   *)
(* apart: at most one session is on offer.  A request that finds the       *)
(* channel unmatched is turned away; any other gets exactly one session,   *)
(* of the stream the channel was matched to when it asked: it shares the   *)
(* one on offer, or, when that has another stream, ends it and opens its   *)
(* own.  Otherwise a session only ends once it is no longer on offer, so   *)
(* that nobody is sent to a session that is ending.  StreamSessions        *)
(* implements this specification.                                          *)
(***************************************************************************)

CONSTANTS
  Requests,  \* the requests for the channel; also the sessions they open
  Streams,   \* what the channel may be matched to
  None       \* no session, no match

VARIABLES
  match,    \* what the channel is matched to
  status,   \* what has become of each request
  wants,    \* the stream of each request, and of the session it opened
  offered,  \* the session that requests are let into
  open,     \* the sessions that deliver to their viewers
  viewers   \* the requests that each session delivers to

vars == <<match, status, wants, offered, open, viewers>>

Init ==
  /\ match \in Streams \cup {None}
  /\ status = [r \in Requests |-> "new"]
  /\ wants = [r \in Requests |-> None]
  /\ offered = None
  /\ open = {}
  /\ viewers = [s \in Requests |-> {}]

\* A refresh of the playlists.
Rematch ==
  /\ match' \in Streams \cup {None}
  /\ UNCHANGED <<status, wants, offered, open, viewers>>

\* A request arrives; what it asks for does not change any more.
Ask(r) ==
  /\ status[r] = "new"
  /\ wants' = [wants EXCEPT ![r] = match]
  /\ status' = [status EXCEPT ![r] = IF match = None THEN "done" ELSE "tuning"]
  /\ UNCHANGED <<match, offered, open, viewers>>

\* The request gets session s.
Watch(r, s) ==
  /\ status[r] = "tuning"
  /\ status' = [status EXCEPT ![r] = "served"]
  /\ viewers' = [viewers EXCEPT ![s] = @ \cup {r}]

Share(r) ==
  /\ offered \in open
  /\ wants[offered] = wants[r]
  /\ Watch(r, offered)
  /\ UNCHANGED <<match, wants, offered, open>>

Open(r) ==
  /\ offered = None
  /\ offered' = r
  /\ r \notin open
  /\ open' = open \cup {r}
  /\ Watch(r, r)
  /\ UNCHANGED <<match, wants>>

\* Session s delivers nothing any more.
Close(s) ==
  /\ s \in open
  /\ open' = open \ {s}
  /\ viewers' = [viewers EXCEPT ![s] = {}]

\* The request finds a session of another stream.
Supersede(r) ==
  /\ status[r] = "tuning"
  /\ offered \in open
  /\ wants[offered] # wants[r]
  /\ Close(offered)
  /\ offered' = None
  /\ UNCHANGED <<match, status, wants>>

\* The upstream has ended, or nobody has watched for a while.
Withdraw ==
  /\ offered \in open
  /\ offered' = None
  /\ UNCHANGED <<match, status, wants, open, viewers>>

End(s) ==
  /\ s # offered
  /\ Close(s)
  /\ UNCHANGED <<match, status, wants, offered>>

\* The client leaves, or learns that its session is over.
Leave(r) ==
  /\ status[r] = "served"
  /\ status' = [status EXCEPT ![r] = "done"]
  /\ viewers' = [s \in Requests |-> viewers[s] \ {r}]
  /\ UNCHANGED <<match, wants, offered, open>>

Request(r) == Ask(r) \/ Share(r) \/ Open(r) \/ Supersede(r) \/ Leave(r)

Next == Rematch \/ Withdraw \/ \E r \in Requests : Request(r) \/ End(r)

Spec == Init /\ [][Next]_vars

=============================================================================
