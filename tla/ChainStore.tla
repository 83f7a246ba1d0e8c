------------------------------ MODULE ChainStore ------------------------------
(***************************************************************************)
(* What the aggregator promises of the objects it keeps: each is one chain *)
(* of blocks, and the only thing that ever happens to it is that a block   *)
(* acceptable after the ones it holds is added at its end.  The first      *)
(* block is added to a chain its client brings, which nobody checks.  What *)
(* is acceptable may depend on the chain of another object, as it is or    *)
(* was.                                                                    *)
(***************************************************************************)
EXTENDS Sequences, SequencesExt

CONSTANTS
    Dids,
    Blocks,
    OtherDid,                   \* the object others may depend on
    Bases,                      \* the chains a client may bring for its first block
    Acceptable(_, _, _, _, _)   \* whether a block may follow the chain of an object,
                                \* and what is looked up twice of the other one

VARIABLE chain                  \* the blocks of each object, <<>> before the first

Init == chain = [d \in Dids |-> <<>>]

\* What the other object's chain may have been, or been missing for.
Evidence == IF OtherDid \in Dids THEN Prefixes(chain[OtherDid]) ELSE {<<>>}

\* A block after these.
Put(d, prev) == \E b \in Blocks :
    /\ \E e1, e2 \in Evidence : Acceptable(d, prev, b, e1, e2)
    /\ chain' = [chain EXCEPT ![d] = Append(prev, b)]

Begin(d)  == chain[d] = <<>> /\ \E base \in Bases : Put(d, base)
Extend(d) == chain[d] # <<>> /\ Put(d, chain[d])

Next == \E d \in Dids : Begin(d) \/ Extend(d)

Spec == Init /\ [][Next]_chain
=============================================================================
