-------------------------- MODULE MCStreamSessions --------------------------
(* Instances of StreamSessions for TLC.                                     *)
EXTENDS StreamSessions, TLC

\* Requests are interchangeable, and so are the streams.
SessionSymmetry == Permutations(Requests) \cup Permutations(Streams)

=============================================================================
