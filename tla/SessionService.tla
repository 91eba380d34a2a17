--------------------------- MODULE SessionService ---------------------------
(***************************************************************************)
(* What the relay promises about sessions, without its maps, queues and    *)
(* tasks: a session is established between two connections neither of      *)
(* which is finished, within the limits, under an id that was never used;  *)
(* it ends once; and a connection finishes only when no session is bound   *)
(* to it.                                                                  *)
(***************************************************************************)
EXTENDS Integers, FiniteSets

CONSTANTS Conns, MaxPerUser, MaxPerDevice

VARIABLES
  established,  \* the sessions that are up
  finished,     \* connections that are over
  nextId        \* ids below it are settled: established before, or never

vars == <<established, finished, nextId>>

Ends(s) == {s.initiator_conn, s.device_conn}

Init == established = {} /\ finished = {} /\ nextId = 0

Establish(s) ==
  /\ s.id >= nextId
  /\ Ends(s) \cap finished = {}
  /\ Cardinality({t \in established : t.initiator_id = s.initiator_id}) < MaxPerUser
  /\ Cardinality({t \in established : t.device_id = s.device_id}) < MaxPerDevice
  /\ established' = established \cup {s}
  /\ nextId' = s.id + 1
  /\ UNCHANGED finished

End(s) ==
  /\ established' = established \ {s}
  /\ UNCHANGED <<finished, nextId>>

\* A request was refused, or its session undone before it was up.
Refuse ==
  /\ nextId' > nextId
  /\ UNCHANGED <<established, finished>>

Finish(c) ==
  /\ \A s \in established : c \notin Ends(s)
  /\ finished' = finished \cup {c}
  /\ UNCHANGED <<established, nextId>>

\* Establish names the one session that is new in the next state.
Next == \/ \E s \in established' \ established : Establish(s)
        \/ \E s \in established : End(s)
        \/ Refuse
        \/ \E c \in Conns : Finish(c)

Spec == Init /\ [][Next]_vars
=============================================================================
