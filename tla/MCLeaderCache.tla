--------------------------- MODULE MCLeaderCache ---------------------------
(* Instances of LeaderCache for TLC. *)
EXTENDS LeaderCache

\* Every reload may add or remove every cluster.
AllConfigs == SUBSET Cluster
=============================================================================
