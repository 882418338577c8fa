--------------------------- MODULE PosixTransport ---------------------------
(***************************************************************************)
(* PosixTransport (posix/posix-transport.{h,cc}) and the checks that       *)
(* PosixPoller (posix/posix-base-poller.cc) makes before it hands a        *)
(* transport to a backend.  The backends (EpollPoller, ...) extend this    *)
(* module with their own tables.                                           *)
(*                                                                         *)
(* A transport is one descriptor; flags_ is the set of its bits.  One      *)
(* poller is modelled, so poller_ is either null or that poller, and       *)
(* listener_ is non-null exactly when poller_ is (attach() and detach()    *)
(* set both).                                                              *)
(***************************************************************************)
EXTENDS Naturals

CONSTANTS
  Transports,
  Borrowed,       \* those created with kTransportNoAutoClose
  EdgeSupported   \* SupportsEdgeTriggering() of the backend

ASSUME BorrowedAssumption == Borrowed \subseteq Transports
ASSUME EdgeAssumption == EdgeSupported \in BOOLEAN

EventBits == {"Reading", "Writing"}          \* kTransportEventMask
ModeBits  == {"LT", "ET"}
UserBits  == {"NoAutoClose"}                 \* kTransportClearMask
Bits      == EventBits \cup ModeBits \cup UserBits
Modes     == {"Level", "Edge", "ETS", "Default"}

VARIABLES
  fd,           \* "open", "closed" by Close(), or gone with the object:
                \*   "left" open for its owner, or "autoclosed"
  attached,     \* transports whose poller_ and listener_ are set
  flags,        \* flags_
  detachedOnce  \* history: transports that were detached at least once

transportVars == <<fd, attached, flags, detachedOnce>>

TransportTypeOK ==
  /\ fd \in [Transports -> {"open", "closed", "left", "autoclosed"}]
  /\ attached \subseteq Transports
  /\ flags \in [Transports -> SUBSET Bits]
  /\ detachedOnce \subseteq Transports

TransportInit ==
  /\ fd = [t \in Transports |-> "open"]
  /\ attached = {}
  /\ flags = [t \in Transports |-> IF t \in Borrowed THEN UserBits ELSE {}]
  /\ detachedOnce = {}

\* ETS is turned into Edge before the backend sees it; Default has no bit.
ModeFlags(mode) ==
  CASE mode = "Level" -> {"LT"}
    [] mode \in {"Edge", "ETS"} -> {"ET"}
    [] mode = "Default" -> {}

\* Attach() refuses.
AttachRefused(t, mode) ==
  \/ t \in attached
  \/ fd[t] # "open"
  \/ mode = "Edge" /\ ~EdgeSupported

\* ChangeEvents(), AddEvents() and RemoveEvents() refuse: the transport is
\* closed or its poller is another one.
ChangeRefused(t) == fd[t] # "open" \/ t \notin attached

\* attach(), and the backend's flags() |= flags.
TransportAttach(t, bits) ==
  /\ attached' = attached \cup {t}
  /\ flags' = [flags EXCEPT ![t] = @ \cup bits]
  /\ UNCHANGED detachedOnce

\* detach() of every transport of S: the user's bits go, the poller's stay.
TransportDetach(S) ==
  /\ attached' = attached \ S
  /\ flags' = [t \in Transports |-> IF t \in S THEN flags[t] \ UserBits ELSE flags[t]]
  /\ detachedOnce' = detachedOnce \cup S

\* The backend's flags() &= ~kTransportEventMask; flags() |= bits.
TransportSetEvents(t, bits) ==
  /\ flags' = [flags EXCEPT ![t] = (@ \ EventBits) \cup bits]
  /\ UNCHANGED <<fd, attached, detachedOnce>>

\* ~PosixTransport(), run when nobody holds a reference any more.
AlwaysCloses(t) == TRUE                      \* fault: kTransportNoAutoClose not tested
ClosesItself(t) == "NoAutoClose" \notin flags[t]

TransportDestroy(t) ==
  /\ fd[t] = "open" /\ t \notin attached
  /\ fd' = [fd EXCEPT ![t] = IF ClosesItself(t) THEN "autoclosed" ELSE "left"]
  /\ UNCHANGED <<attached, flags, detachedOnce>>
==============================================================================
