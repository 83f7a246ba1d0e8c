------------------------------- MODULE MCReader -------------------------------
(* Instances of the aggregator with readers, for TLC. *)
EXTENDS Reader

CONSTANTS d2, k2, h1, r1, s1, s2

OwnKeys == [d \in Dids |-> k2]

Write(name, policies, value) ==
    [name |-> name, signer |-> k2, owners |-> {}, writesPolicy |-> policies # Empty,
     policies |-> policies, value |-> value]

\* no reads of a locked tree, and locks it
Hides   == Write("hides", PolicyMap("allow", "path", "unlessLocked", "path"), "locked")
\* reads while the tree is open, but it is looked up by its name, so as it is by then
Latest  == Write("latest", PolicyMap("allow", "otherPath", "ifOpen", "otherPath"), "open")

ReadBlocks == {Hides, Latest}

TwoServers == [h \in Handlers |-> IF h = h1 THEN s1 ELSE s2]
FromSecond == [r \in Readers |-> s2]
=============================================================================
