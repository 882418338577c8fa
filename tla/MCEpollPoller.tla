---------------------------- MODULE MCEpollPoller ----------------------------
(* Two descriptors for EpollPoller: a borrowed one that is read              *)
(* level-triggered and may hang up, and one used edge-triggered both ways.   *)
EXTENDS EpollPoller

CONSTANTS a, b

MCTransports == {a, b}
MCBorrowed   == {a}
MCConditions == [t \in MCTransports |-> IF t = a THEN {"in", "hup"} ELSE {"in", "out"}]
MCUsedModes  == [t \in MCTransports |-> IF t = a THEN {"Level"} ELSE {"ETS"}]
MCUsedEvents == [t \in MCTransports |->
                   IF t = a THEN {{"Reading"}} ELSE {{"Reading"}, {"Reading", "Writing"}}]
MCReattached == {a}

\* For liveness: two descriptors without hangups, and a buffer of one entry.
LiveConditions == [t \in MCTransports |-> IF t = a THEN {"in"} ELSE {"in", "out"}]
LiveUsedEvents == [t \in MCTransports |->
                     IF t = a THEN {{"Reading"}} ELSE {{"Reading", "Writing"}}]
==============================================================================
