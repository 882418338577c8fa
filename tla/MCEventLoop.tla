----------------------------- MODULE MCEventLoop -----------------------------
(* One thread that posts and the loop's own, three tasks, a pipe that is full  *)
(* after two bytes, one level-triggered and one edge-triggered transport.      *)
EXTENDS EventLoop
==============================================================================
