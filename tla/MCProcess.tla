----------------------------- MODULE MCProcess -----------------------------
(* An instance of Process for TLC.                                          *)
EXTENDS Process

\* Every guide has a name of its own.
OwnNames == [i \in Slots |-> i]

Every(seconds) == [url |-> TRUE, interval |-> seconds]
Numbered(n) == [number |-> n, named |-> TRUE]

\* A file that leaves to the defaults what it can, and else is at the limits.
Plain ==
  [port |-> 0, tuners |-> 0, deviceID |-> "hex",
   playlists |-> <<Every(60)>>, guides |-> <<Every(0), Every(60)>>,
   channels |-> <<Numbered(1), Numbered(2)>>]

TooShort == {-1, 1, 59}

\* That file and those that are wrong in one place.
Files ==
  {Plain}
    \cup {[Plain EXCEPT !.port = p] : p \in {-1, 65536}}
    \cup {[Plain EXCEPT !.tuners = -1]}
    \cup {[Plain EXCEPT !.deviceID = d] : d \in {"unset", "other"}}
    \cup {[Plain EXCEPT !.playlists = <<Every(s)>>] : s \in TooShort}
    \cup {[Plain EXCEPT !.guides[1] = Every(s)] : s \in TooShort}
    \cup {[Plain EXCEPT !.guides[2].url = FALSE],
          [Plain EXCEPT !.playlists = <<>>],
          [Plain EXCEPT !.channels = <<>>]}
    \cup {[Plain EXCEPT !.channels[2] = c] :
            c \in {Numbered(0), Numbered(1),
                   [number |-> 2, named |-> FALSE]}}

=============================================================================
