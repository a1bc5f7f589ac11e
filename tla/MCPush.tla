------------------------------- MODULE MCPush -------------------------------
(* A browser shared by two members, whose other devices only remove rows.      *)
EXTENDS Push, TLC

CONSTANTS m1, m2, b1

MCHomeOf == b1 :> m1

=============================================================================
