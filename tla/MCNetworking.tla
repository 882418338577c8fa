----------------------------- MODULE MCNetworking -----------------------------
(* A client of Client::Create(), and a socket made in the other ways, with     *)
(* which the first may have to share the backlog.                              *)
EXTENDS Networking

CONSTANTS c1, c2
MCClients == {c1, c2}
MCWays == [c \in MCClients |->
             IF c = c1 THEN {"Create"} ELSE {"ConnectTo", "CreateSocket"}]

\* Hosts with colons at the start, in the middle and at the end, also all colons.
MCNames == {"localhost", "fe80", "1", "path"}
MCHosts == [IPv4 |-> {<<"localhost">>},
            IPv6 |-> {<<":", ":">>, <<":", ":", "1">>, <<"fe80", ":", ":">>,
                      <<"fe80", ":", ":", "1">>, <<"1", ":", "1">>},
            Unix |-> {<<"path">>, <<"path", ":", "1">>}]
MCPorts == {"80", "8080", "1"}
==============================================================================
