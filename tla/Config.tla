------------------------------- MODULE Config -------------------------------
(***************************************************************************)
(* config.Load after the YAML is decoded: the defaults, and what Validate  *)
(* accepts.  A URL or a name is abstracted to whether it is set, a device  *)
(* id to its form, a channel number to a natural number; 0 and "unset"     *)
(* stand for a key that is missing or empty.  Durations are in seconds.    *)
(***************************************************************************)
EXTENDS Integers, Sequences

DefaultTunerCount == 4
DefaultHTTPPort == 8080
DefaultRefreshInterval == 1800
MinRefreshInterval == 60

Source == [url : BOOLEAN, interval : Int]
Channel == [number : Nat, named : BOOLEAN]
ConfigType ==
  [port : Int, tuners : Int, deviceID : {"unset", "hex", "other"},
   playlists : Seq(Source), guides : Seq(Source), channels : Seq(Channel)]

OrDefault(x, default) == IF x = 0 THEN default ELSE x

SourcesWithDefaults(sources) ==
  [i \in DOMAIN sources |->
     [sources[i] EXCEPT !.interval = OrDefault(@, DefaultRefreshInterval)]]

ApplyDefaults(c) ==
  [c EXCEPT !.tuners = OrDefault(@, DefaultTunerCount),
            !.port = OrDefault(@, DefaultHTTPPort),
            !.playlists = SourcesWithDefaults(@),
            !.guides = SourcesWithDefaults(@)]

\* Mutant: an interval need only be set, and a negative one is.
ValidSource_SetOnly(s) == s.url /\ s.interval # 0

ValidSource(s) == s.url /\ s.interval >= MinRefreshInterval

ValidSources(sources) == \A i \in DOMAIN sources : ValidSource(sources[i])

\* No number is empty or given twice.
ValidChannels(channels) ==
  /\ \A i \in DOMAIN channels : channels[i].number # 0 /\ channels[i].named
  /\ \A i, j \in DOMAIN channels :
       i # j => channels[i].number # channels[j].number

Valid(c) ==
  /\ c.port >= 1 /\ c.port <= 65535
  /\ c.tuners >= 1
  /\ c.deviceID = "hex"
  /\ c.playlists # <<>> /\ ValidSources(c.playlists)
  /\ ValidSources(c.guides)
  /\ c.channels # <<>> /\ ValidChannels(c.channels)

=============================================================================
