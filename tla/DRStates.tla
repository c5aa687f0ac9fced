------------------------------ MODULE DRStates ------------------------------
(***************************************************************************)
(* The vocabulary of the disaster-recovery state machine of one business   *)
(* unit (BU): its two Kafka clusters, its four DR states, the graph of     *)
(* transitions the StateMachine accepts and the mapping between states and *)
(* clusters (internal/failover/state.go, internal/proxy/dr_coordinator.go).*)
(***************************************************************************)

\* The two clusters of a BU ("primary"/"secondary" in the configuration).
Cluster == {"primary", "secondary"}

\* The DR states of a BU.
BUState == {"PRIMARIO", "SECUNDARIO", "DRAINING", "BOTH_DOWN"}

\* "No cluster" (the empty string of the code) and "no transition requested".
NoCluster == "none"
NoState   == "none"

Opposite(c) == IF c = "primary" THEN "secondary" ELSE "primary"

\* The DR state in which cluster c serves the BU.
StateOf(c) == IF c = "primary" THEN "PRIMARIO" ELSE "SECUNDARIO"

\* The graph of permitted transitions; self-transitions are not in it.
isValidTransition(from, to) ==
    \/ from = "PRIMARIO"   /\ to \in {"SECUNDARIO", "DRAINING", "BOTH_DOWN"}
    \/ from = "SECUNDARIO" /\ to \in {"PRIMARIO", "DRAINING", "BOTH_DOWN"}
    \/ from = "DRAINING"   /\ to \in {"PRIMARIO", "SECUNDARIO", "BOTH_DOWN"}
    \/ from = "BOTH_DOWN"  /\ to \in {"PRIMARIO", "SECUNDARIO"}

\* The cluster a state stands for; everything but SECUNDARIO is "primary".
stateToTarget(state) == IF state = "SECUNDARIO" THEN "secondary" ELSE "primary"
=============================================================================
