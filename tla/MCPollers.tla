------------------------------ MODULE MCPollers ------------------------------
(* The five pollers that are not epoll, each with two descriptors: 1 is used *)
(* for input, level-triggered or not, and may hang up, 0 edge-triggered both *)
(* ways.                                                                     *)
EXTENDS DescriptorPoller

CONSTANT SetSize        \* of SelectPoller

ASSUME SetSizeAssumption == SetSize \in Nat

Poll    == INSTANCE PollPoller
Select  == INSTANCE SelectPoller
Kqueue  == INSTANCE KqueuePoller
DevPoll == INSTANCE DevPoller
Port    == INSTANCE PortPoller

Init ==
  /\ backend \in Backends
  /\ Poll!Init \/ Select!Init \/ Kqueue!Init \/ DevPoll!Init \/ Port!Init

Next ==
  \/ backend = "poll" /\ Poll!Next
  \/ backend = "select" /\ Select!Next
  \/ backend = "kqueue" /\ Kqueue!Next
  \/ backend = "devpoll" /\ DevPoll!Next
  \/ backend = "port" /\ Port!Next

Spec == Init /\ [][Next]_vars

MCTransports == {0, 1}
MCConditions == [t \in MCTransports |-> IF t = 1 THEN {"in", "hup"} ELSE {"out", "err"}]
MCUsedModes  == [t \in MCTransports |-> IF t = 1 THEN {"Level", "ETS"} ELSE {"ETS"}]
MCUsedEvents == [t \in MCTransports |->
                   IF t = 1 THEN {{"Reading"}} ELSE {{"Reading", "Writing"}}]
==============================================================================
