------------------------------ MODULE NetAddress ------------------------------
(***************************************************************************)
(* Addresses as text (shared/shared-net.cc, UnixAddress in                 *)
(* posix/posix-net.cc) and the sockets made for them.                      *)
(*                                                                         *)
(* A text is a sequence of tokens: the punctuation that the parser cuts    *)
(* at, numerals of ports, and names.  Hosts are those that inet_ntop()     *)
(* prints, which getaddrinfo() takes back; an IPv6 host has colons.  That  *)
(* a name resolves to such a host is left out.                             *)
(***************************************************************************)
EXTENDS Naturals, Sequences

CONSTANTS
  Error,        \* an IOError is returned, or there is no such thing
  Names,        \* what texts have beside punctuation and ports
  Hosts,        \* [Families -> SUBSET Seq(Names \cup {":"})]; of "Unix", the paths
  Ports         \* numerals of ports that are not zero

Families  == {"IPv4", "IPv6", "Unix"}
Protocols == {"TCP", "UDP", "Stream", "Datagram"}

ASSUME NamesAssumption == Names \cap {":", "[", "]"} = {}
ASSUME HostsAssumption ==
  /\ Hosts["IPv4"] \subseteq Seq(Names)
  /\ Hosts["IPv6"] \subseteq Seq(Names \cup {":"})
ASSUME PortsAssumption == Ports \cap {"0", ":", "[", "]"} = {}

Services == {<<p>> : p \in Ports \cup {"0"}}
PortOf(service) == IF service = <<>> THEN "0" ELSE Head(service)
ServiceOf(port) == <<port>>

Addresses ==
  [family : {"IPv4"}, host : Hosts["IPv4"], port : Ports \cup {"0"}]
    \cup [family : {"IPv6"}, host : Hosts["IPv6"], port : Ports \cup {"0"}]
    \cup [family : {"Unix"}, host : Hosts["Unix"], port : {"0"}]

\* getaddrinfo(), given no service when it is <<>>.
Lookup(family, host, service) ==
  IF host \in Hosts[family] /\ service \in Services \cup {<<>>}
    THEN [family |-> family, host |-> host, port |-> PortOf(service)]
    ELSE Error

First(token, text) ==
  LET found == {i \in DOMAIN text : text[i] = token} IN
    IF found = {} THEN 0 ELSE CHOOSE i \in found : \A j \in found : i <= j
From(i, text) == SubSeq(text, i, Len(text))

\* What follows the colon, but for ":0".
ServiceAfter(colon, text) ==
  IF colon = 0 \/ From(colon, text) = <<":", "0">> THEN <<>> ELSE From(colon + 1, text)

ResolveIPv4(text) ==
  LET colon == First(":", text) IN
    Lookup("IPv4", IF colon = 0 THEN text ELSE SubSeq(text, 1, colon - 1),
           ServiceAfter(colon, text))

\* Only within brackets is the host cut off.
CutsAtFirstColon(text) ==                         \* fault: as for IPv4
  LET colon == First(":", text) IN
    Lookup("IPv6", SubSeq(text, 1, colon - 1), ServiceAfter(colon, text))
ResolveIPv6(text) ==
  LET close == First("]", text)
      tail  == From(close, text) IN
    IF close # 0 /\ text[1] = "["
      THEN Lookup("IPv6", SubSeq(text, 2, close - 1), ServiceAfter(First(":", tail), tail))
      ELSE Lookup("IPv6", text, <<>>)

\* The length limit of a path is not a matter of its tokens.
ResolveUnix(text) ==
  IF text \in Hosts["Unix"] THEN [family |-> "Unix", host |-> text, port |-> "0"] ELSE Error

Resolve(family, text) ==
  CASE family = "IPv4" -> ResolveIPv4(text)
    [] family = "IPv6" -> ResolveIPv6(text)
    [] family = "Unix" -> ResolveUnix(text)

ToString4(a) == a.host \o IF a.port = "0" THEN <<>> ELSE <<":">> \o ServiceOf(a.port)
ToString6(a) ==
  IF a.port = "0" THEN a.host
                  ELSE <<"[">> \o a.host \o <<"]", ":">> \o ServiceOf(a.port)

ToString(a) ==
  CASE a.family = "IPv4" -> ToString4(a)
    [] a.family = "IPv6" -> ToString6(a)
    [] a.family = "Unix" -> a.host

\* SocketForAddress(): TCP and UDP are for IP only.
SocketSupported(family, protocol) == protocol \in {"TCP", "UDP"} => family # "Unix"
==============================================================================
