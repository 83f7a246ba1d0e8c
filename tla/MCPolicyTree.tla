---------------------------- MODULE MCPolicyTree ----------------------------
(* Instances of the client's tree for TLC. *)
EXTENDS PolicyTree

CONSTANTS c1, c2, p1, p2
=============================================================================
