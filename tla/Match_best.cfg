\* Up to three entries, each with one of two spellings of the channels' tvg_id
\* or none, with or without their name.
SPECIFICATION Spec
CONSTANTS
  Channels = {"id", "name", "both", "reserved"}
  ChannelID <- ConfiguredIDs
  NameMatch <- ConfiguredNames
  Spellings = {"Espn.us", "ESPN.US"}
  Normalize <- Normalized
  Needles = {"espn"}
  Streams = {s1, s2}
  Unset = Unset
  MaxEntries = 3
INVARIANT BestEntryMatched
PROPERTY LaterEntriesTakeNothing
