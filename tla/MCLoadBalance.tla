--------------------------- MODULE MCLoadBalance ---------------------------
(* Instances of LoadBalance for TLC. *)
EXTENDS LoadBalance

Auto   == [w |-> 7, auto |-> TRUE]
Manual == [w |-> 7, auto |-> FALSE]

AllConfigs  == {Auto, Manual}
AutoConfigs == {Auto}
=============================================================================
