----------------------------- MODULE LogoCache -----------------------------
(***************************************************************************)
(* internal/logoproxy: requests for /logo/{number}, which fetch a logo     *)
(* that is not cached yet.  A logo is abstracted to its channel and the    *)
(* version its server had; Broken stands for every answer fetch rejects:   *)
(* another status than 200, or a body that ends early.  The server's       *)
(* goroutines serve one request after the other.                           *)
(***************************************************************************)
EXTENDS Integers

CONSTANTS
  Handlers,   \* the goroutines that serve requests
  WithLogo,   \* the numbers of the configured channels that have a logo
  None,       \* no logo
  Broken,     \* an answer that is none
  MaxVersion  \* model bound: how often a logo changes at its server

ASSUME VersionAssumption == MaxVersion \in Nat

VARIABLES
  version, \* the logo each server has now
  cache,   \* h.cache
  pc,      \* where each handler is
  number,  \* the number it has been asked for
  logo     \* its local variable

vars == <<version, cache, pc, number, logo>>

Logo == [of : WithLogo, ver : 0 .. MaxVersion]
Upstream(n) == [of |-> n, ver |-> version[n]]

Init ==
  /\ version = [n \in WithLogo |-> 0]
  /\ cache = [n \in WithLogo |-> None]
  /\ pc = [h \in Handlers |-> "idle"]
  /\ number = [h \in Handlers |-> None]
  /\ logo = [h \in Handlers |-> None]

\* The owner of a logo replaces it.
Redesign(n) ==
  /\ version[n] < MaxVersion
  /\ version' = [version EXCEPT ![n] = @ + 1]
  /\ UNCHANGED <<cache, pc, number, logo>>

\* The handler has answered: 502, or a logo.
Done(h) ==
  /\ pc' = [pc EXCEPT ![h] = "idle"]
  /\ number' = [number EXCEPT ![h] = None]
  /\ logo' = [logo EXCEPT ![h] = None]

\* Any other request is answered 404 at once.
Request(h, n) ==
  /\ pc[h] = "idle"
  /\ pc' = [pc EXCEPT ![h] = "lookup"]
  /\ number' = [number EXCEPT ![h] = n]
  /\ UNCHANGED <<version, cache, logo>>

\* Mutant: the cache is never asked.
Cached_Never(n) == FALSE

Cached(n) == cache[n] # None

\* The first critical section of h.mu.
Lookup(h) ==
  /\ pc[h] = "lookup"
  /\ IF Cached(number[h])
     THEN /\ logo' = [logo EXCEPT ![h] = cache[number[h]]]
          /\ pc' = [pc EXCEPT ![h] = "reply"]
     ELSE pc' = [pc EXCEPT ![h] = "fetch"] /\ UNCHANGED logo
  /\ UNCHANGED <<version, cache, number>>

\* Mutant: the status of the answer, or the error of its body, is ignored.
Accepted_Any(n) == {Upstream(n), Broken}

\* The answers that fetch takes for a logo.
Accepted(n) == {Upstream(n)}

FetchSucceeds(h) ==
  /\ pc[h] = "fetch"
  /\ \E answer \in Accepted(number[h]) : logo' = [logo EXCEPT ![h] = answer]
  /\ pc' = [pc EXCEPT ![h] = "store"]
  /\ UNCHANGED <<version, cache, number>>

\* 502: no or a broken answer, client.Timeout, or the client has gone.
FetchFails(h) ==
  /\ pc[h] = "fetch"
  /\ Done(h)
  /\ UNCHANGED <<version, cache>>

\* The second critical section, whatever has been cached in between.
Store(h) ==
  /\ pc[h] = "store"
  /\ cache' = [cache EXCEPT ![number[h]] = logo[h]]
  /\ pc' = [pc EXCEPT ![h] = "reply"]
  /\ UNCHANGED <<version, number, logo>>

Reply(h) ==
  /\ pc[h] = "reply"
  /\ Done(h)
  /\ UNCHANGED <<version, cache>>

Serve(h) ==
  Lookup(h) \/ FetchSucceeds(h) \/ FetchFails(h) \/ Store(h) \/ Reply(h)

Next ==
  \/ \E n \in WithLogo : Redesign(n)
  \/ \E h \in Handlers : Serve(h) \/ \E n \in WithLogo : Request(h, n)

Spec == Init /\ [][Next]_vars

\* A handler that has a request goes on; a fetch ends, by client.Timeout (30 s)
\* at the latest.
FairSpec == Spec /\ \A h \in Handlers : WF_vars(Serve(h))

-----------------------------------------------------------------------------
(* Properties.                                                              *)

(***************************************************************************)
(* A client is only ever sent a logo of the channel it asked for, whole,   *)
(* and the cache holds nothing else: an answer that is no logo must not be *)
(* remembered for good (logoproxy.go:58-69, 82-102).                       *)
(***************************************************************************)
OnlyLogosAreServed ==
  /\ \A n \in WithLogo : cache[n] \in {None} \cup {l \in Logo : l.of = n}
  /\ \A h \in Handlers :
       pc[h] \in {"store", "reply"}
         => logo[h] \in {l \in Logo : l.of = number[h]}

Fetches(n) == \E h \in Handlers : pc[h] = "fetch" /\ number[h] = n

(***************************************************************************)
(* Concurrent misses each fetch a logo and overwrite each other's, but     *)
(* that ends: from some time after the first is stored, nobody asks the    *)
(* upstream for this logo again, and all are served the same one           *)
(* (logoproxy.go:1-3, 54-69).                                              *)
(***************************************************************************)
FetchingEnds ==
  \A n \in WithLogo :
    (cache[n] # None)
      ~> (\E l \in Logo : [](cache[n] = l /\ ~Fetches(n)))

=============================================================================
