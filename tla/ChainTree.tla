------------------------------ MODULE ChainTree ------------------------------
(***************************************************************************)
(* ChainTrees as the aggregator sees them.  The library that builds them   *)
(* (quorumcontrol/chaintree, tupelo's gossip.TransactionValidator) is not  *)
(* part of the repository: what follows is what the aggregator uses of it. *)
(*                                                                         *)
(* A tip is a content address, so two trees have the same tip exactly when *)
(* they have the same history: a tip is the sequence of the blocks played  *)
(* since genesis, and its height is the length of that sequence.           *)
(*                                                                         *)
(* A tree may depend on one other: its policies may want a path of it, and *)
(* its ownership may be grafted from it.  The aggregator reads that tree   *)
(* through a getter (NotaryGroup.DagGetter, the Aggregator itself) when it *)
(* needs it; "other" below is the tip it finds then, or <<>> when there is *)
(* no such tree or it cannot be had.                                       *)
(***************************************************************************)
EXTENDS Naturals, Sequences, FiniteSetsExt, Policy

CONSTANTS
    Dids,        \* the objects (ChainTrees) clients write
    Keys,        \* the keys of clients; a key's address is the key
    KeyOf,       \* the key whose address is in the name of each object
    OtherDid,    \* the tree others may depend on; Undef for none
    Blocks,      \* the blocks clients may propose
    Undef        \* cid.Undef, the tip of an object nobody has written; nobody

(***************************************************************************)
(* name          tells apart blocks that are otherwise alike               *)
(* signer        whose signature it has; nobody's when it was tampered with*)
(* owners        the authentications it sets: keys, and trees whose owners *)
(*               are owners too; {} when it leaves them                    *)
(* writesPolicy  whether a transaction of the block sets the policies, to  *)
(*               the node "policies"                                       *)
(* value         what the block writes at the path policies want, or "keep"*)
(***************************************************************************)
BlockShape == [name : STRING, signer : Keys \cup {Undef},
               owners : SUBSET (Keys \cup (Dids \cap {OtherDid})),
               writesPolicy : BOOLEAN, policies : PolicyNodes,
               value : WantedValues \cup {"keep"}]

ASSUME BlocksAssumption == Blocks \subseteq BlockShape
ASSUME TreesAssumption  == KeyOf \in [Dids -> Keys] /\ OtherDid \in Dids \cup {Undef}

Tips      == Seq(Blocks)
MaybeTips == Tips \cup {Undef}

ASSUME UndefAssumption == Undef \notin Dids /\ Undef \notin Keys /\ Undef \notin Tips

ChainOf(tip) == IF tip = Undef THEN <<>> ELSE tip

LastOf(tip, S) == tip[Max(S)]

\* The node at tree/data/.well-known/policies of the tree with this tip.
PoliciesAt(tip) ==
    LET writes == {i \in DOMAIN tip : tip[i].writesPolicy}
    IN  IF writes = {} THEN Empty ELSE LastOf(tip, writes).policies

\* What the wanted path holds there.
ValueAt(tip) ==
    LET writes == {i \in DOMAIN tip : tip[i].value # "keep"}
    IN  IF writes = {} THEN "locked" ELSE LastOf(tip, writes).value

\* The authentications of the object d with this tip.
OwnersAt(d, tip) ==
    LET writes == {i \in DOMAIN tip : tip[i].owners # {}}
    IN  IF writes = {} THEN {KeyOf[d]} ELSE LastOf(tip, writes).owners

\* The keys that own it, those of the other tree looked up there if ownership is
\* grafted from it.  A tree that cannot be had is an error, here no owners at all.
IsGrafted(d, tip) == OtherDid \in OwnersAt(d, tip)

GraftedOwners(d, tip, other) ==
    CASE ~IsGrafted(d, tip)                 -> OwnersAt(d, tip)
      [] IsGrafted(d, tip) /\ other = <<>>  -> {}
      [] OTHER -> (OwnersAt(d, tip) \cup OwnersAt(OtherDid, other)) \cap Keys

(***************************************************************************)
(* ValidateAbr: play the block on the tree the request carries the state   *)
(* of, under the validators of the notary group.  The first wants an owner *)
(* of the tree as it was before the block, the last is policy.Validator on *)
(* that tree.                                                              *)
(***************************************************************************)
Authentic(d, prev, block, other) == block.signer \in GraftedOwners(d, prev, other)

\* The input a policy of the tree holder is given for a block.
InputOf(holder, block, other) ==
    [writesPolicy |-> block.writesPolicy, self |-> FALSE, own |-> ValueAt(holder),
     other |-> IF other = <<>> THEN "missing" ELSE ValueAt(other)]

\* MUTANT: the notary group is not given the validator of policies.
ValidateAbr_NoPolicies(prev, block, other) == "valid"

ValidateAbr(prev, block, other) == Validator(PoliciesAt(prev), InputOf(prev, block, other))
=============================================================================
