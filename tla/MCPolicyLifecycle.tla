------------------------- MODULE MCPolicyLifecycle --------------------------
(* Instances of PolicyLifecycle for TLC: one policy, one request at a time. *)
EXTENDS PolicyLifecycle

CONSTANTS p1, a1
=============================================================================
