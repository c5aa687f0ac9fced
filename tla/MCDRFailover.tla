---------------------------- MODULE MCDRFailover ----------------------------
(* Instances of DRFailover for TLC. *)
EXTENDS DRFailover, TLC

AutoPrimary    == [active |-> "primary", auto |-> TRUE]
AutoSecondary  == [active |-> "secondary", auto |-> TRUE]
PlainPrimary   == [active |-> "primary", auto |-> FALSE]
PlainSecondary == [active |-> "secondary", auto |-> FALSE]
Missing        == NoConfig

AutoConfigs   == {AutoPrimary, AutoSecondary}
SwitchConfigs == {PlainPrimary, PlainSecondary}
NoConfigs     == {}

AllClusters == Cluster
NoClusters  == {}

Symmetry == Permutations(TimerIds) \cup Permutations(ReloadIds)
=============================================================================
