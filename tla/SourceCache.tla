---------------------------- MODULE SourceCache ----------------------------
(***************************************************************************)
(* What playlist.Fetcher and guide.Fetcher promise their readers: a view   *)
(* of all sources that is never torn and never goes back, whatever the     *)
(* sources and the order of their refreshes do ("preserved across failed   *)
(* refreshes", "per-source errors are logged; a failing source simply      *)
(* keeps its previous data").                                              *)
(***************************************************************************)
EXTENDS Integers

CONSTANTS
  Slots,   \* the configured sources
  Nothing  \* what a source holds before its first good fetch

VARIABLES
  held,  \* the last good fetch of each source
  shown  \* the view that readers load

vars == <<held, shown>>

\* q is p or a later version of the same source's document.
NoOlder(p, q) ==
  p = Nothing \/ (q # Nothing /\ q.src = p.src /\ q.ver >= p.ver)

Init ==
  /\ held = [i \in Slots |-> Nothing]
  /\ shown = held

\* A fetch of source i succeeds; the other sources keep what they hold.
Fetch(i) ==
  /\ NoOlder(held[i], held'[i])
  /\ held' = [held EXCEPT ![i] = held'[i]]
  /\ UNCHANGED shown

\* The view becomes what all sources hold at one moment.
Publish ==
  /\ shown' = held
  /\ UNCHANGED held

Next == Publish \/ \E i \in Slots : Fetch(i)

Spec == Init /\ [][Next]_vars

=============================================================================
