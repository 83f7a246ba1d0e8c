---------------------------- MODULE MCAggregator ----------------------------
(***************************************************************************)
(* Instances of the aggregator for TLC: the blocks clients may send, and   *)
(* where the handlers run.                                                 *)
(***************************************************************************)
EXTENDS AggregatorProps

CONSTANTS d1, d2, k1, k2, h1, h2, s1, s2

OwnKeys == [d \in Dids |-> IF d = d1 THEN k1 ELSE k2]

Block(name, signer, value) ==
    [name |-> name, signer |-> signer, owners |-> {}, writesPolicy |-> FALSE,
     policies |-> Empty, value |-> value]
PolicyBlock(name, signer, policies) ==
    [Block(name, signer, "keep") EXCEPT !.writesPolicy = TRUE, !.policies = policies]

Opens1    == Block("opens1", k1, "open")
Opens     == Block("opens", k2, "open")
\* only allows blocks once the tree is open
Guarded   == PolicyBlock("guarded", k1, PolicyMap("ifOpen", "path", "none", "none"))
\* the policies stay as they are, and look at the other tree, whose owners own this one
Shared    == [PolicyBlock("shared", k1, PolicyMap("noPolicyChange", "otherPath", "none", "none"))
                 EXCEPT !.owners = {k1, d2}]
\* refuses blocks while the tree is locked
Unlocked  == PolicyBlock("unlocked", k2, PolicyMap("unlessLocked", "path", "none", "none"))
\* refuses blocks while the other tree is locked
Elsewhere == PolicyBlock("elsewhere", k2, PolicyMap("unlessLocked", "otherPath", "none", "none"))
\* the same, and opens the tree itself
Watched   == [Elsewhere EXCEPT !.name = "watched", !.value = "open"]
\* makes its signer the owner of the tree
Taken     == [Block("taken", k1, "open") EXCEPT !.owners = {k1}]
\* the map of policies is removed again
Removed   == PolicyBlock("removed", k2, Empty)
\* policies for writing and for reading
Both      == PolicyBlock("both", k2, PolicyMap("allow", "none", "deny", "none"))
\* wants that are no strings: Validate and the global check panic on them
NotStrings == PolicyBlock("notStrings", k2, PolicyMap("allow", "notStrings", "none", "none"))

CrossBlocks    == {Opens, Shared}
ChainBlocks    == {Watched, Taken}
ConfigBlocks   == {Opens1, Both, Elsewhere, NotStrings, Removed}
GlobalBlocks   == {Opens, Unlocked, Removed}
ConflictBlocks == {Opens1, Guarded}

OneServer  == [h \in Handlers |-> s1]
TwoServers == [h \in Handlers |-> IF h = h1 THEN s1 ELSE s2]
=============================================================================
