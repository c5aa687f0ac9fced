------------------------ MODULE MCLegacyRebalancer ------------------------
(* Instances of LegacyRebalancer for TLC. *)
EXTENDS LegacyRebalancer

Split == [c \in Cluster |-> IF c = "primary" THEN 2 ELSE 1]
=============================================================================
