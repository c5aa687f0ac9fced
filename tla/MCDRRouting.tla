----------------------------- MODULE MCDRRouting -----------------------------
(* Instances of DRRouting for TLC. *)
EXTENDS DRRouting, TLC

AutoPrimary    == [active |-> "primary", auto |-> TRUE]
PlainPrimary   == [active |-> "primary", auto |-> FALSE]
PlainSecondary == [active |-> "secondary", auto |-> FALSE]

SwitchConfigs == {PlainPrimary, PlainSecondary}
NoConfigs     == {}
AllClusters   == Cluster
NoClusters    == {}

Symmetry == Permutations(TimerIds) \cup Permutations(Conns)
=============================================================================
