------------------------------ MODULE MCWindows -------------------------------
(* Two threads make requests and two poll, with a file and a socket, two       *)
(* contexts of the users, and one more for the server.                         *)
EXTENDS Windows

CONSTANTS u1, u2, p1, p2, file, socket, client, c1, c2, c3, wakeup

MCUsers == {u1, u2}
MCPollers == {p1, p2}
MCTransports == {file, socket, client}
MCFiles == {file}
MCUserTransports == {file, socket}
MCContexts == {c1, c2, c3}
MCUserContexts == {c1, c2}
MCMessageLimit == [t \in MCUserTransports |-> IF t = file THEN 2 ELSE 0]
MCListeners == {wakeup}
MCSymmetry == Permutations(MCUsers) \cup Permutations(MCUserContexts)
==============================================================================
