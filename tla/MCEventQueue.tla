---------------------------- MODULE MCEventQueue ----------------------------
(* Two transports and two attachments in all, so that a transport can be    *)
(* attached again while the delegate of its first attachment still waits.   *)
EXTENDS EventQueue

MCUsedEvents == {{"Read"}, {"Read", "Write"}}
==============================================================================
