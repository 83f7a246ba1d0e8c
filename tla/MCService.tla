------------------------------- MODULE MCService -------------------------------
(* An instance of requests that read trees, for TLC. *)
EXTENDS Service

CONSTANTS t1, t2, k1, k2

OwnKeys == [d \in Dids |-> IF d = t1 THEN k1 ELSE k2]
AllOwnerships == {{k1}, {k2}, {t2}}

Block(name, signer, owner, node) ==
    [name |-> name, signer |-> signer, owners |-> owner, writesPolicy |-> node # Empty,
     policies |-> node, value |-> "keep"]

\* only the tree itself reads it, and it belongs to the owners of the other tree
Gives == Block("gives", k1, {t2}, PolicyMap("allow", "none", "selfOnly", "none"))
\* nothing changes but the tip
Plays == Block("plays", k2, {}, Empty)
\* another owner
Moves == Block("moves", k2, {k1}, Empty)

ServiceBlocks == {Gives, Plays, Moves}
=============================================================================
