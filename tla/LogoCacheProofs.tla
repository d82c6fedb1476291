-------------------------- MODULE LogoCacheProofs --------------------------
(***************************************************************************)
(* Proofs about LogoCache, for any number of handlers, channels and        *)
(* versions of their logos.                                                *)
(***************************************************************************)
EXTENDS LogoCache, TLAPS

LogosOf(n) == {l \in Logo : l.of = n}

\* Every handler that is at work knows what it has been asked for.
Typed ==
  /\ version \in [WithLogo -> 0 .. MaxVersion]
  /\ cache \in [WithLogo -> Logo \cup {None}]
  /\ pc \in [Handlers -> {"idle", "lookup", "fetch", "store", "reply"}]
  /\ number \in [Handlers -> WithLogo \cup {None}]
  /\ logo \in [Handlers -> Logo \cup {None}]
  /\ \A h \in Handlers : pc[h] # "idle" => number[h] \in WithLogo

IndInv == Typed /\ OnlyLogosAreServed

-----------------------------------------------------------------------------

LEMMA UpstreamIsLogo ==
  ASSUME Typed, NEW n \in WithLogo PROVE Upstream(n) \in LogosOf(n)
BY DEF Typed, Upstream, LogosOf, Logo

LEMMA RequestStep ==
  ASSUME IndInv, NEW h \in Handlers, NEW n \in WithLogo, Request(h, n)
  PROVE  IndInv'
BY DEF IndInv, Typed, OnlyLogosAreServed, Request

\* What is found in the cache is a logo of the number it is found under.
LEMMA LookupStep ==
  ASSUME IndInv, NEW h \in Handlers, Lookup(h)
  PROVE  IndInv'
<1>1. number[h] \in WithLogo
  BY DEF IndInv, Typed, Lookup
<1>2. CASE Cached(number[h])
  <2>1. cache[number[h]] \in LogosOf(number[h])
    BY <1>1, <1>2 DEF IndInv, OnlyLogosAreServed, Cached, LogosOf
  <2>2. Typed'
    BY <1>1, <1>2, <2>1 DEF IndInv, Typed, Lookup, LogosOf
  <2>3. OnlyLogosAreServed'
    BY <1>2, <2>1 DEF IndInv, Typed, OnlyLogosAreServed, Lookup, LogosOf
  <2> QED
    BY <2>2, <2>3 DEF IndInv
<1>3. CASE ~Cached(number[h])
  BY <1>3 DEF IndInv, Typed, OnlyLogosAreServed, Lookup
<1> QED
  BY <1>2, <1>3

LEMMA FetchStep ==
  ASSUME IndInv, NEW h \in Handlers, FetchSucceeds(h)
  PROVE  IndInv'
<1>1. number[h] \in WithLogo
  BY DEF IndInv, Typed, FetchSucceeds
<1>2. logo' = [logo EXCEPT ![h] = Upstream(number[h])]
  BY DEF FetchSucceeds, Accepted
<1>3. Upstream(number[h]) \in LogosOf(number[h])
  BY <1>1, UpstreamIsLogo DEF IndInv
<1>4. Typed'
  BY <1>1, <1>2, <1>3 DEF IndInv, Typed, FetchSucceeds, LogosOf
<1>5. OnlyLogosAreServed'
  BY <1>2, <1>3
  DEF IndInv, Typed, OnlyLogosAreServed, FetchSucceeds, LogosOf
<1> QED
  BY <1>4, <1>5 DEF IndInv

LEMMA StoreStep ==
  ASSUME IndInv, NEW h \in Handlers, Store(h)
  PROVE  IndInv'
<1>1. logo[h] \in LogosOf(number[h]) /\ number[h] \in WithLogo
  BY DEF IndInv, Typed, OnlyLogosAreServed, Store, LogosOf
<1>2. Typed'
  BY <1>1 DEF IndInv, Typed, Store, LogosOf
<1>3. OnlyLogosAreServed'
  BY <1>1 DEF IndInv, Typed, OnlyLogosAreServed, Store, LogosOf
<1> QED
  BY <1>2, <1>3 DEF IndInv

LEMMA DoneStep ==
  ASSUME IndInv, NEW h \in Handlers, FetchFails(h) \/ Reply(h)
  PROVE  IndInv'
BY DEF IndInv, Typed, OnlyLogosAreServed, FetchFails, Reply, Done

LEMMA RedesignStep ==
  ASSUME IndInv, NEW n \in WithLogo, Redesign(n)
  PROVE  IndInv'
<1>1. version' \in [WithLogo -> 0 .. MaxVersion]
  BY VersionAssumption DEF IndInv, Typed, Redesign
<1> QED
  BY <1>1 DEF IndInv, Typed, OnlyLogosAreServed, Redesign

(***************************************************************************)
(* However many handlers fetch one logo at the same time, only whole logos *)
(* of the channel asked for are cached and served (logoproxy.go:45-102).   *)
(***************************************************************************)
THEOREM LogosOnly == Spec => []OnlyLogosAreServed
<1>1. Init => IndInv
  <2>1. 0 \in 0 .. MaxVersion
    BY VersionAssumption
  <2> QED
    BY <2>1 DEF Init, IndInv, Typed, OnlyLogosAreServed
<1>2. IndInv /\ [Next]_vars => IndInv'
  <2> SUFFICES ASSUME IndInv, [Next]_vars PROVE IndInv'
    OBVIOUS
  <2>1. CASE UNCHANGED vars
    BY <2>1 DEF vars, IndInv, Typed, OnlyLogosAreServed
  <2> QED
    BY <2>1, RequestStep, LookupStep, FetchStep, StoreStep, DoneStep,
       RedesignStep
    DEF Next, Serve
<1>3. IndInv => OnlyLogosAreServed
  BY DEF IndInv
<1> QED
  BY <1>1, <1>2, <1>3, PTL DEF Spec

=============================================================================
