----------------------- MODULE PlaylistRefreshProofs -----------------------
(***************************************************************************)
(* Proofs about PlaylistRefresh, for any number of sources whose names     *)
(* differ, and playlists that change any number of times.                  *)
(***************************************************************************)
EXTENDS PlaylistRefresh, TLAPS

\* No two sources share a name, and so their entries and validators.
DistinctNames ==
  \A i \in Slots, j \in Slots : NameOf[i] = NameOf[j] => i = j

\* What source i holds.
Held(i) == lastGood[NameOf[i]]

\* p is a playlist that source i has served by now, or none.
Served(i, p) ==
  p = Nothing \/ (p # Nothing /\ p.src = i /\ p.ver <= version[i])

\* Everything that is stored or shown for a source came from it, and what a
\* request carries or brings is no older than what is shown.
ServedInOrder ==
  \A i \in Slots :
    /\ Served(i, Held(i)) /\ Served(i, current[i])
    /\ Cache!NoOlder(current[i], Held(i))
    /\ pc[i] = "received" =>
         /\ reply[i] # Nothing
         /\ Served(i, reply[i]) /\ Cache!NoOlder(Held(i), reply[i])

\* The validators never run ahead of the entries.
TagsFollowEntries ==
  \A i \in Slots :
    /\ tags[NameOf[i]] \in {Nothing, Held(i)}
    /\ pc[i] = "asked" => asked[i] \in {Nothing, Held(i)}

\* The snapshot is that of the sources as they are, but for those that are
\* about to merge; before Start there is none yet.
SnapshotIsMerged ==
  /\ ~Started => current = Empty /\ \A i \in Slots : pc[i] # "merge"
  /\ CurrentHasLastGood

IndInv == ServedInOrder /\ TagsFollowEntries /\ SnapshotIsMerged

USE DEF fetcherVars, localVars

-----------------------------------------------------------------------------

LEMMA SlotFacts ==
  /\ N \in Nat /\ N >= 1
  /\ \A i \in Slots : i \in Nat /\ i >= 1 /\ i <= N /\ NameOf[i] \in Names
BY SourcesAssumption DEF Slots, Names

LEMMA ServesIsPlaylist ==
  ASSUME TypeOK, NEW i \in Slots
  PROVE  Serves(i) \in Playlist /\ Serves(i) # Nothing
BY NothingAssumption DEF TypeOK, Serves, Playlist

LEMMA TypeStep ==
  ASSUME TypeOK, [Next]_vars
  PROVE  TypeOK'
<1> USE SlotFacts
<1>1. ASSUME NEW i \in Slots, Publish(i) PROVE TypeOK'
  BY <1>1 DEF Publish, TypeOK, Playlist, Started
<1>2. ASSUME NEW i \in Slots, Ask(i) PROVE TypeOK'
  BY <1>2 DEF Ask, TypeOK, Started, Turn
<1>3. ASSUME NEW i \in Slots, ReceivePlaylist(i) PROVE TypeOK'
  BY <1>3, ServesIsPlaylist
  DEF ReceivePlaylist, TypeOK, Playlist, Started
<1>4. ASSUME NEW i \in Slots, NotModified(i) PROVE TypeOK'
  BY <1>4
  DEF NotModified, Return, AfterRefresh, TypeOK, Playlist, Started
<1>5. ASSUME NEW i \in Slots, FetchFails(i) PROVE TypeOK'
  BY <1>5
  DEF FetchFails, OnFailure, Return, AfterRefresh, TypeOK, Playlist, Started
<1>6. ASSUME NEW i \in Slots, ParseFails(i) PROVE TypeOK'
  BY <1>6
  DEF ParseFails, OnBadParse, Return, AfterRefresh, TypeOK, Playlist, Started
<1>7. ASSUME NEW i \in Slots, Store(i) PROVE TypeOK'
  BY <1>7
  DEF Store, NewTag, Return, AfterRefresh, TypeOK, Playlist, Started
<1>8. ASSUME BootMerge PROVE TypeOK'
  BY <1>8 DEF BootMerge, Merged, TypeOK, Started
<1>9. ASSUME NEW i \in Slots, Merge(i) PROVE TypeOK'
  BY <1>9 DEF Merge, AfterMerge, Merged, TypeOK, Started
<1>10. ASSUME NEW i \in Slots, Load(i) PROVE TypeOK'
  BY <1>10 DEF Load, TypeOK, Started
<1>11. ASSUME NEW i \in Slots, Rebuild(i) PROVE TypeOK'
  <2>1. /\ lineup' \in [Slots -> Playlist]
        /\ loaded' \in [Slots -> [Slots -> Playlist]]
        /\ pc' = [pc EXCEPT ![i] = "idle"]
    BY <1>11 DEF Rebuild, Empty, Playlist, TypeOK
  <2> QED
    BY <1>11, <2>1 DEF Rebuild, TypeOK, Started
<1>12. ASSUME NEW i \in Slots, Exit(i) PROVE TypeOK'
  BY <1>12 DEF Exit, SeesDone, TypeOK, Started
<1>13. ASSUME Cancel PROVE TypeOK'
  BY <1>13 DEF Cancel, TypeOK, Started
<1>14. ASSUME UNCHANGED vars PROVE TypeOK'
  BY <1>14 DEF vars, TypeOK, Started
<1> QED
  BY <1>1, <1>2, <1>3, <1>4, <1>5, <1>6, <1>7, <1>8, <1>9, <1>10, <1>11,
     <1>12, <1>13, <1>14
  DEF Next, Refresh, Answer, Parsed, Finished

\* What NewFetcher makes and main starts with.
LEMMA TypeInit ==
  ASSUME Init PROVE TypeOK
<1>1. Empty \in [Slots -> Playlist]
  BY DEF Empty, Playlist
<1>2. /\ version \in [Slots -> Nat]
      /\ lastGood \in [Names -> Playlist] /\ tags \in [Names -> Playlist]
      /\ loaded \in [Slots -> [Slots -> Playlist]]
  BY <1>1 DEF Init, Playlist
<1>3. /\ boot \in 1 .. N + 2
      /\ pc \in [Slots -> {"idle", "asked", "received", "merge", "load",
                           "rebuild", "stopped"}]
      /\ \A i \in Slots : pc[i] = "idle"
  BY SlotFacts DEF Init
<1>4. cancelled \in BOOLEAN /\ ~cancelled
  BY DEF Init
<1> QED
  BY <1>1, <1>2, <1>3, <1>4, Zenon DEF Init, TypeOK

(***************************************************************************)
(* The state variables stay within their types, and before Start only the  *)
(* source that RefreshNow has come to is being refreshed                   *)
(* (playlist/fetcher.go:51-60).                                            *)
(***************************************************************************)
THEOREM TypeCorrect == Spec => []TypeOK
<1>1. Init => TypeOK
  BY TypeInit
<1>2. TypeOK /\ [Next]_vars => TypeOK'
  BY TypeStep
<1> QED
  BY <1>1, <1>2, PTL DEF Spec

-----------------------------------------------------------------------------

LEMMA OrderIsTransitive ==
  ASSUME NEW p \in Playlist, NEW q \in Playlist, NEW r \in Playlist,
         Cache!NoOlder(p, q), Cache!NoOlder(q, r)
  PROVE  Cache!NoOlder(p, r)
BY NothingAssumption DEF Cache!NoOlder, Playlist

LEMMA OrderIsReflexive ==
  ASSUME NEW p \in Playlist
  PROVE  Cache!NoOlder(p, p)
BY NothingAssumption DEF Cache!NoOlder, Playlist

LEMMA HeldIsPlaylist ==
  ASSUME TypeOK, NEW i \in Slots
  PROVE  /\ Held(i) \in Playlist /\ current[i] \in Playlist
         /\ reply[i] \in Playlist
BY SlotFacts DEF TypeOK, Held

\* A step of source i, or of none, that touches no entries.
LEMMA OrderUntouched ==
  ASSUME TypeOK, ServedInOrder, NEW i \in Slots,
         UNCHANGED <<version, lastGood, current, reply>>,
         \A j \in Slots : pc'[j] = "received" => pc[j] = "received"
  PROVE  ServedInOrder'
BY DEF ServedInOrder, Served, Held, Cache!NoOlder

LEMMA OrderStep ==
  ASSUME DistinctNames, TypeOK, IndInv, [Next]_vars
  PROVE  ServedInOrder'
<1> USE SlotFacts DEF IndInv
<1>1. ASSUME NEW i \in Slots, Publish(i) PROVE ServedInOrder'
  BY <1>1
  DEF Publish, ServedInOrder, Served, Held, Cache!NoOlder, TypeOK, Playlist
<1>2. ASSUME NEW i \in Slots,
             Ask(i) \/ NotModified(i) \/ Load(i) \/ Rebuild(i) \/ Exit(i)
      PROVE  ServedInOrder'
  <2>1. \A j \in Slots : pc'[j] = "received" => pc[j] = "received"
    BY <1>2 DEF Ask, NotModified, Return, AfterRefresh, Load, Rebuild, Exit,
                TypeOK
  <2> QED
    BY <1>2, <2>1, OrderUntouched
    DEF Ask, NotModified, Load, Rebuild, Exit
<1>3. ASSUME NEW i \in Slots, ReceivePlaylist(i) PROVE ServedInOrder'
  <2>1. /\ pc' = [pc EXCEPT ![i] = "received"]
        /\ reply' = [reply EXCEPT ![i] = Serves(i)]
        /\ UNCHANGED <<version, lastGood, current>>
    BY <1>3 DEF ReceivePlaylist
  <2>2. Served(i, Serves(i)) /\ Cache!NoOlder(Held(i), Serves(i))
    BY ServesIsPlaylist
    DEF ServedInOrder, Served, Serves, Cache!NoOlder, TypeOK
  <2> QED
    BY <2>1, <2>2, ServesIsPlaylist
    DEF ServedInOrder, Served, Held, Cache!NoOlder, TypeOK
<1>4. ASSUME NEW i \in Slots, FetchFails(i) \/ ParseFails(i)
      PROVE  ServedInOrder'
  <2>1. /\ UNCHANGED <<version, current>>
        /\ \A j \in Slots : Held(j)' = Held(j)
        /\ \A j \in Slots : pc'[j] = "received" =>
             pc[j] = "received" /\ reply'[j] = reply[j]
    BY <1>4 DEF FetchFails, ParseFails, OnFailure, Return, AfterRefresh, Held,
                TypeOK
  <2> QED
    BY <2>1 DEF ServedInOrder, Served, Cache!NoOlder
<1>5. ASSUME NEW i \in Slots, Store(i) PROVE ServedInOrder'
  <2>1. /\ UNCHANGED <<version, current>> /\ pc[i] = "received"
        /\ Held(i)' = reply[i]
        /\ \A j \in Slots \ {i} : Held(j)' = Held(j)
        /\ pc'[i] # "received"
        /\ \A j \in Slots : pc'[j] = "received" =>
             pc[j] = "received" /\ reply'[j] = reply[j]
    BY <1>5 DEF Store, Return, AfterRefresh, Held, TypeOK, DistinctNames
  <2>2. Served(i, reply[i]) /\ Cache!NoOlder(current[i], reply[i])
    BY <2>1, OrderIsTransitive, HeldIsPlaylist DEF ServedInOrder
  <2> QED
    BY <2>1, <2>2 DEF ServedInOrder, Served, Cache!NoOlder
<1>6. ASSUME NEW i \in Slots, BootMerge \/ Merge(i) PROVE ServedInOrder'
  <2>1. /\ UNCHANGED <<version, lastGood, reply>>
        /\ current' = Merged
        /\ \A j \in Slots : pc'[j] = "received" => pc[j] = "received"
    BY <1>6 DEF BootMerge, Merge, AfterMerge, TypeOK
  <2>2. \A j \in Slots : current'[j] = Held(j) /\ Held(j)' = Held(j)
    BY <2>1 DEF Merged, Held
  <2> QED
    BY <2>1, <2>2, OrderIsReflexive, HeldIsPlaylist
    DEF ServedInOrder, Served, Cache!NoOlder
<1>7. ASSUME Cancel \/ UNCHANGED vars PROVE ServedInOrder'
  BY <1>7 DEF Cancel, vars, ServedInOrder, Served, Held, Cache!NoOlder
<1>8. 1 \in Slots
  BY DEF Slots
<1> QED
  BY <1>1, <1>2, <1>3, <1>4, <1>5, <1>6, <1>7, <1>8
  DEF Next, Refresh, Answer, Parsed, Finished

LEMMA TagsStep ==
  ASSUME DistinctNames, TypeOK, IndInv, [Next]_vars
  PROVE  TagsFollowEntries'
<1> USE SlotFacts DEF IndInv
<1>1. ASSUME UNCHANGED <<lastGood, tags, asked>>,
             \A j \in Slots : pc'[j] = "asked" => pc[j] = "asked"
      PROVE  TagsFollowEntries'
  BY <1>1 DEF TagsFollowEntries, Held
<1>2. ASSUME NEW i \in Slots, Ask(i) PROVE TagsFollowEntries'
  BY <1>2 DEF Ask, TagsFollowEntries, Held, TypeOK
<1>3. ASSUME NEW i \in Slots,
             ReceivePlaylist(i) \/ NotModified(i) \/ FetchFails(i)
               \/ ParseFails(i)
      PROVE  TagsFollowEntries'
  <2>1. \A j \in Slots :
          /\ Held(j)' = Held(j) /\ tags'[NameOf[j]] = tags[NameOf[j]]
          /\ pc'[j] = "asked" => pc[j] = "asked" /\ asked'[j] = asked[j]
    BY <1>3 DEF ReceivePlaylist, NotModified, FetchFails, ParseFails,
                OnFailure, OnBadParse, Return, AfterRefresh, Held, TypeOK
  <2> QED
    BY <2>1 DEF TagsFollowEntries
<1>4. ASSUME NEW i \in Slots, Store(i) PROVE TagsFollowEntries'
  <2>1. /\ Held(i)' = reply[i] /\ tags'[NameOf[i]] \in {Nothing, reply[i]}
        /\ pc'[i] # "asked"
    BY <1>4 DEF Store, NewTag, Return, AfterRefresh, Held, TypeOK
  <2>2. \A j \in Slots \ {i} :
          /\ Held(j)' = Held(j) /\ tags'[NameOf[j]] = tags[NameOf[j]]
          /\ pc'[j] = pc[j] /\ asked'[j] = asked[j]
    BY <1>4 DEF Store, Return, Held, TypeOK, DistinctNames
  <2> QED
    BY <2>1, <2>2 DEF TagsFollowEntries
<1>5. ASSUME NEW i \in Slots,
             Publish(i) \/ BootMerge \/ Merge(i) \/ Load(i) \/ Rebuild(i)
               \/ Exit(i) \/ Cancel \/ UNCHANGED vars
      PROVE  /\ UNCHANGED <<lastGood, tags, asked>>
             /\ \A j \in Slots : pc'[j] = "asked" => pc[j] = "asked"
  BY <1>5 DEF Publish, BootMerge, Merge, AfterMerge, Load, Rebuild, Exit,
              Cancel, vars, TypeOK
<1>6. 1 \in Slots
  BY DEF Slots
<1> QED
  BY <1>1, <1>2, <1>3, <1>4, <1>5, <1>6
  DEF Next, Refresh, Answer, Parsed, Finished

LEMMA SnapshotStep ==
  ASSUME DistinctNames, TypeOK, IndInv, [Next]_vars
  PROVE  SnapshotIsMerged'
<1> USE SlotFacts DEF IndInv
\* What is held and shown stays as it is, and no merge that was due is dropped.
<1>1. ASSUME UNCHANGED <<lastGood, current>>, Started' = Started,
             \A j \in Slots : pc[j] = "merge" <=> pc'[j] = "merge"
      PROVE  SnapshotIsMerged'
  BY <1>1 DEF SnapshotIsMerged, CurrentHasLastGood, Held
<1>2. ASSUME NEW i \in Slots, Ask(i) \/ ReceivePlaylist(i) \/ Load(i)
                                \/ Rebuild(i) \/ Exit(i) \/ Publish(i)
      PROVE  SnapshotIsMerged'
  BY <1>1, <1>2
  DEF Ask, ReceivePlaylist, Load, Rebuild, Exit, Publish, Started, TypeOK
\* A refresh returns: to the goroutine's merge, or to RefreshNow.
<1>3. ASSUME NEW i \in Slots, NotModified(i) \/ FetchFails(i) \/ ParseFails(i)
      PROVE  SnapshotIsMerged'
  <2>1. /\ UNCHANGED current
        /\ \A j \in Slots : lastGood'[NameOf[j]] = lastGood[NameOf[j]]
        /\ pc' = [pc EXCEPT ![i] = AfterRefresh]
        /\ boot' = IF Started THEN boot ELSE boot + 1
        /\ pc[i] \in {"asked", "received"}
    BY <1>3 DEF NotModified, FetchFails, ParseFails, OnFailure, Return, TypeOK
  <2>2. CASE Started
    BY <2>1, <2>2
    DEF AfterRefresh, SnapshotIsMerged, CurrentHasLastGood, Started, TypeOK
  <2>3. CASE ~Started
    <3>1. boot = i /\ ~Started'
      BY <2>1, <2>3 DEF TypeOK, Started
    <3> QED
      BY <2>1, <2>3, <3>1
      DEF AfterRefresh, SnapshotIsMerged, CurrentHasLastGood, TypeOK
  <2> QED
    BY <2>2, <2>3
<1>4. ASSUME NEW i \in Slots, Store(i) PROVE SnapshotIsMerged'
  <2>1. /\ UNCHANGED current
        /\ \A j \in Slots \ {i} : lastGood'[NameOf[j]] = lastGood[NameOf[j]]
        /\ pc' = [pc EXCEPT ![i] = AfterRefresh]
        /\ boot' = IF Started THEN boot ELSE boot + 1
        /\ pc[i] = "received"
    BY <1>4 DEF Store, Return, TypeOK, DistinctNames
  <2>2. CASE Started
    BY <2>1, <2>2
    DEF AfterRefresh, SnapshotIsMerged, CurrentHasLastGood, Started, TypeOK
  <2>3. CASE ~Started
    <3>1. boot = i /\ ~Started'
      BY <2>1, <2>3 DEF TypeOK, Started
    <3> QED
      BY <2>1, <2>3, <3>1
      DEF AfterRefresh, SnapshotIsMerged, CurrentHasLastGood, TypeOK
  <2> QED
    BY <2>2, <2>3
<1>5. ASSUME BootMerge PROVE SnapshotIsMerged'
  BY <1>5
  DEF BootMerge, Merged, SnapshotIsMerged, CurrentHasLastGood, Started
<1>6. ASSUME NEW i \in Slots, Merge(i) PROVE SnapshotIsMerged'
  <2>1. Started
    BY <1>6 DEF Merge, SnapshotIsMerged, TypeOK, Started
  <2> QED
    BY <1>6, <2>1
    DEF Merge, Merged, SnapshotIsMerged, CurrentHasLastGood, Started
<1>7. ASSUME Cancel \/ UNCHANGED vars PROVE SnapshotIsMerged'
  BY <1>1, <1>7 DEF Cancel, vars, Started
<1> QED
  BY <1>2, <1>3, <1>4, <1>5, <1>6, <1>7
  DEF Next, Refresh, Answer, Parsed, Finished

LEMMA Invariance ==
  ASSUME DistinctNames
  PROVE  Spec => []IndInv
<1>1. Init => IndInv
  BY SlotFacts, NothingAssumption
  DEF Init, IndInv, ServedInOrder, Served, Held, Cache!NoOlder, Playlist,
      TagsFollowEntries, SnapshotIsMerged, CurrentHasLastGood, Empty, Started
<1>2. TypeOK /\ IndInv /\ [Next]_vars => IndInv'
  BY OrderStep, TagsStep, SnapshotStep DEF IndInv
<1> QED
  BY <1>1, <1>2, TypeCorrect, PTL DEF Spec

-----------------------------------------------------------------------------

(***************************************************************************)
(* No source's refresh is ever lost in the merged snapshot, however many   *)
(* sources merge at the same time (playlist/fetcher.go:108-128).           *)
(***************************************************************************)
THEOREM NoRefreshIsLost ==
  ASSUME DistinctNames
  PROVE  Spec => []CurrentHasLastGood
<1>1. IndInv => CurrentHasLastGood
  BY DEF IndInv, SnapshotIsMerged
<1> QED
  BY <1>1, Invariance, PTL

(***************************************************************************)
(* A 304 is only ever answered when the entries that are kept are the ones *)
(* the server has (fetchutil.go:20-22; playlist/fetcher.go:88-112).        *)
(***************************************************************************)
THEOREM NotModifiedKeepsCurrent ==
  ASSUME DistinctNames
  PROVE  Spec => []NotModifiedIsTrue
<1>1. TypeOK /\ IndInv => NotModifiedIsTrue
  BY ServesIsPlaylist
  DEF IndInv, TagsFollowEntries, NotModifiedIsTrue, Unmodified, Held
<1> QED
  BY <1>1, Invariance, TypeCorrect, PTL

(***************************************************************************)
(* The fetcher implements SourceCache: every step is one of its steps, or  *)
(* leaves what is held and shown alone (playlist/fetcher.go:87-128).       *)
(***************************************************************************)
THEOREM Refinement == DistinctNames => (Spec => ImplementsSourceCache)
<1> SUFFICES ASSUME DistinctNames PROVE Spec => ImplementsSourceCache
  OBVIOUS
<1>1. Init => Cache!Init
  BY SlotFacts DEF Init, Cache!Init, Merged, Empty
<1>2. TypeOK /\ IndInv /\ [Next]_vars => [Cache!Next]_(Cache!vars)
  <2> SUFFICES ASSUME TypeOK, IndInv, [Next]_vars
               PROVE  [Cache!Next]_(Cache!vars)
    OBVIOUS
  <2> USE SlotFacts
  <2>1. ASSUME Merged' = Merged, current' = current
        PROVE  UNCHANGED Cache!vars
    BY <2>1 DEF Cache!vars
  <2>2. ASSUME UNCHANGED <<lastGood, current>> PROVE UNCHANGED Cache!vars
    BY <2>1, <2>2 DEF Merged
  <2>3. ASSUME NEW i \in Slots, FetchFails(i) PROVE UNCHANGED Cache!vars
    <3>1. lastGood' = lastGood
      BY <2>3 DEF FetchFails, OnFailure, TypeOK
    <3> QED
      BY <2>2, <2>3, <3>1 DEF FetchFails
  <2>4. ASSUME NEW i \in Slots, Store(i) PROVE Cache!Fetch(i)
    <3>1. /\ current' = current
          /\ Merged'[i] = reply[i] /\ Merged[i] = Held(i)
          /\ \A j \in Slots \ {i} : Merged'[j] = Merged[j]
      BY <2>4 DEF Store, Merged, Held, TypeOK, DistinctNames
    <3>2. Merged' = [Merged EXCEPT ![i] = Merged'[i]]
      BY <3>1 DEF Merged
    <3>3. Cache!NoOlder(Merged[i], Merged'[i])
      BY <2>4, <3>1 DEF Store, IndInv, ServedInOrder
    <3> QED
      BY <3>1, <3>2, <3>3 DEF Cache!Fetch
  <2>5. ASSUME NEW i \in Slots, BootMerge \/ Merge(i) PROVE Cache!Publish
    BY <2>5 DEF BootMerge, Merge, Merged, Cache!Publish
  <2>6. ASSUME NEW i \in Slots,
               Publish(i) \/ Ask(i) \/ ReceivePlaylist(i) \/ NotModified(i)
                 \/ ParseFails(i) \/ Load(i) \/ Rebuild(i) \/ Exit(i)
                 \/ Cancel \/ UNCHANGED vars
        PROVE  UNCHANGED <<lastGood, current>>
    BY <2>6 DEF Publish, Ask, ReceivePlaylist, NotModified, ParseFails, Load,
                Rebuild, Exit, Cancel, vars
  <2>7. 1 \in Slots
    BY DEF Slots
  <2> QED
    BY <2>2, <2>3, <2>4, <2>5, <2>6, <2>7
    DEF Next, Refresh, Answer, Parsed, Finished, Cache!Next
<1> QED
  BY <1>1, <1>2, Invariance, TypeCorrect, PTL
  DEF Spec, ImplementsSourceCache, Cache!Spec

=============================================================================
