------------------------- MODULE MCPlaylistRefresh -------------------------
(* Instances of PlaylistRefresh for TLC.                                    *)
EXTENDS PlaylistRefresh

\* Every playlist has a name of its own.
OwnNames == [i \in Slots |-> i]

=============================================================================
