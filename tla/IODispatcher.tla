---------------------------- MODULE IODispatcher ----------------------------
(***************************************************************************)
(* What a dispatcher promises its user (include/amio-posix.h, IODispatcher *)
(* and StatusListener), whatever polling system is behind it:              *)
(*                                                                         *)
(*   - a listener is called only about a transport that is attached, for a *)
(*     condition that the system reported for this very registration, and  *)
(*     at most once per report;                                            *)
(*   - reports are about conditions that hold and events asked for;        *)
(*   - a level-triggered transport is not called for events it no longer   *)
(*     asks for; of another one, a dispatcher that emulates edges may stop *)
(*     asking for the event it calls about;                                *)
(*   - a hangup detaches the transport before the listener is told.        *)
(*                                                                         *)
(* The user may attach, detach and change events at any time, also from    *)
(* inside a call.                                                          *)
(***************************************************************************)
CONSTANTS Transports, NoCall

VARIABLES
  attached,   \* transports attached to the dispatcher
  level,      \* those among them attached level-triggered
  want,       \* events each transport asks for, of {"read", "write"}
  holds,      \* conditions that hold: "read", "write", "hangup"
  reported,   \* conditions reported and not yet passed on
  call        \* the listener call in progress, [to |-> t, kind |-> k], or NoCall

vars == <<attached, level, want, holds, reported, call>>

Kinds == {"read", "write", "hangup"}

Nothing == [t \in Transports |-> {}]

Init ==
  /\ attached = {} /\ level = {} /\ want = Nothing
  /\ holds \in [Transports -> SUBSET Kinds]
  /\ reported = Nothing
  /\ call = NoCall

Environment ==
  /\ holds' \in [Transports -> SUBSET Kinds]
  /\ UNCHANGED <<attached, level, want, reported, call>>

Attach(t) ==
  /\ t \notin attached
  /\ attached' = attached \cup {t}
  /\ level' \in {level, level \cup {t}}
  /\ want'[t] \subseteq {"read", "write"}
  /\ want' = [want EXCEPT ![t] = want'[t]]
  /\ UNCHANGED <<holds, reported, call>>

\* Also the end of a transport that is closed, and of all of them at shutdown.
Detach(S) ==
  /\ S # {} /\ S \subseteq attached
  /\ attached' = attached \ S
  /\ level' = level \ S
  /\ want' = [t \in Transports |-> IF t \in S THEN {} ELSE want[t]]
  /\ reported' = [t \in Transports |-> IF t \in S THEN {} ELSE reported[t]]
  /\ holds' \in [Transports -> SUBSET Kinds]
  /\ \A t \in Transports \ S : holds'[t] = holds[t]
  /\ UNCHANGED call

Change(t) ==
  /\ t \in attached
  /\ want'[t] \subseteq {"read", "write"}
  /\ want' = [want EXCEPT ![t] = want'[t]]
  /\ UNCHANGED <<attached, level, holds, reported, call>>

\* A new look at the system, between calls.
Report ==
  /\ call = NoCall /\ reported = Nothing
  /\ reported' \in [Transports -> SUBSET Kinds]
  /\ \A t \in Transports :
       reported'[t] \subseteq
         IF t \in attached THEN holds[t] \cap (want[t] \cup {"hangup"}) ELSE {}
  /\ UNCHANGED <<attached, level, want, holds, call>>

\* A report need not be passed on.
Drop(t) ==
  /\ reported'[t] \subseteq reported[t]
  /\ reported' = [reported EXCEPT ![t] = reported'[t]]
  /\ UNCHANGED <<attached, level, want, holds, call>>

Ready(t, kind) ==
  /\ call = NoCall
  /\ t \in attached /\ kind \in reported[t] \ {"hangup"}
  /\ t \in level => kind \in want[t]
  /\ call' = [to |-> t, kind |-> kind]
  /\ reported'[t] \subseteq reported[t] \ {kind}
  /\ reported' = [reported EXCEPT ![t] = reported'[t]]
  /\ want' \in {want, [want EXCEPT ![t] = @ \ {kind}]}
  /\ t \in level => want' = want
  /\ UNCHANGED <<attached, level, holds>>

Hangup(t) ==
  /\ call = NoCall
  /\ t \in attached /\ "hangup" \in reported[t]
  /\ call' = [to |-> t, kind |-> "hangup"]
  /\ attached' = attached \ {t}
  /\ level' = level \ {t}
  /\ want' = [want EXCEPT ![t] = {}]
  /\ reported' = [reported EXCEPT ![t] = {}]
  /\ UNCHANGED holds

Return ==
  /\ call # NoCall
  /\ call' = NoCall
  /\ UNCHANGED <<attached, level, want, holds, reported>>

Next ==
  \/ Environment
  \/ \E t \in Transports : Attach(t) \/ Change(t) \/ Drop(t) \/ Hangup(t)
  \/ \E t \in Transports, kind \in Kinds : Ready(t, kind)
  \/ \E S \in SUBSET Transports : Detach(S)
  \/ Report
  \/ Return

Spec == Init /\ [][Next]_vars
==============================================================================
