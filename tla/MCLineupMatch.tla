--------------------------- MODULE MCLineupMatch ---------------------------
(* An instance of LineupMatch for TLC.                                      *)
EXTENDS LineupMatch

\* A channel with a tvg_id, one with a name_match, one with both, and a
\* reserved slot with neither.
ConfiguredIDs ==
  [ch \in Channels |-> IF ch \in {"id", "both"} THEN "Espn.us" ELSE Unset]
ConfiguredNames ==
  [ch \in Channels |-> IF ch \in {"name", "both"} THEN "espn" ELSE Unset]

\* Every spelling is one of the same tvg-id.
Normalized == [s \in Spellings |-> "espn.us"]

=============================================================================
