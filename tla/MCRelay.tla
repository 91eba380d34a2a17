------------------------------ MODULE MCRelay ------------------------------
(* Instances of Relay: who authenticates on which connection. *)
EXTENDS Relay, TLC
CONSTANTS u1, u2, d1, d2,      \* connections
          alice, bob, host     \* principals

\* alice and the host share an organisation, bob belongs to another.
MCPrincipal == [c \in Conns |-> CASE c = u1 -> alice
                                  [] c = u2 -> IF bob \in Users THEN bob ELSE alice
                                  [] c \in {d1, d2} -> host]
MCOrg == [p \in Users \cup Devices |-> IF p = bob THEN "other" ELSE "home"]
=============================================================================
