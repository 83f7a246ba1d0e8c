--------------------------- MODULE AggregatorProps ---------------------------
(***************************************************************************)
(* What the write path of the aggregator must keep true.  Which properties *)
(* hold depends on the environment (Serial, Durable, Faults): the runs     *)
(* say under which assumptions each one is checked.                        *)
(***************************************************************************)
EXTENDS Aggregator, PolicyDoc

TypeOK ==
    /\ tips \in [Dids -> MaybeTips]
    /\ nodes \in [Dids -> SUBSET Tips]
    /\ seen \in [Dids -> SUBSET Tips]
    /\ published \in [Dids -> MaybeTips]
    /\ agg \in [Servers -> Aggregators]
    /\ pc \in [Handlers -> Labels]
    /\ abr \in [Handlers -> Requests]
    /\ query \in [Handlers -> Queries]
    /\ tree \in [Handlers -> Tips]
    /\ resp \in [Handlers -> Replies]

-----------------------------------------------------------------------------
(***************************************************************************)
(* The chains.                                                             *)
(***************************************************************************)
\* What can have been found when the tree others depend on was looked up.
Evidence == {<<>>} \cup IF OtherDid \in Dids THEN seen[OtherDid] ELSE {}

\* A block an owner signed, and that the policies the tree has before it allow; the
\* owners and the policies may each depend on the other tree.
Acceptable(d, prev, block, e1, e2) ==
    /\ Authentic(d, prev, block, e1)
    /\ Allows(PoliciesAt(prev), WritePolicy, InputOf(prev, block, e2))

Store == INSTANCE ChainStore WITH
             Bases <- IF KnownTips THEN {<<>>} ELSE Drafts,
             chain <- [d \in Dids |-> ChainOf(tips[d])]

\* The aggregator implements a store of append-only chains: from its first one on, a
\* tip never goes back, never forks, and only takes acceptable blocks (Add, GetTip to
\* Put).  The first block of an object comes on a tree of the client's.
ImplementsChainStore == Store!Spec

\* The block at this height was let onto the blocks before it.
BlockEarned(d, tip, i) ==
    \E e1, e2 \in Evidence : Acceptable(d, SubSeq(tip, 1, i - 1), tip[i], e1, e2)

\* Whatever the requests in flight do to each other, and whatever trees clients bring
\* for objects the store does not know, a tip an object ever had ends in a block that
\* an owner of the tree before it signed, and that the policies of that tree allow.
TipsEarned == \A d \in Dids : \A tip \in seen[d] : tip # <<>> /\ BlockEarned(d, tip, Len(tip))

\* When clients build on tips the object has had (KnownTips), that is so of every block
\* of its history, also when the store forgets everything in a restart.  Add does not
\* make them: while it has no tip to compare with (aggregator.go:293), the history a
\* request builds on is what the client says it is.
ValidChain(d, tip) == \A i \in 1 .. Len(tip) : BlockEarned(d, tip, i)

ChainsValid == \A d \in Dids : \A tip \in seen[d] : ValidChain(d, tip)

\* A client takes a payload for a new tip when it is valid and has one.
Acked(h) == resp[h].valid /\ resp[h].newTip # Undef

\* An update a client was told is valid is never lost: it stays in the history
\* of the object through crashes, restarts and later requests.
AckedDurable == \A h \in Handlers :
    Acked(h) => /\ tips[resp[h].did] # Undef
                /\ IsPrefix(resp[h].newTip, tips[resp[h].did])

\* "conflicting ABR errors" (aggregator/aggregator_test.go): of two updates that
\* are not part of one history, at most one is answered as valid.
NoConflictingAcks == \A g, h \in Handlers :
    Acked(g) /\ Acked(h) /\ resp[g].did = resp[h].did
        => \/ IsPrefix(resp[g].newTip, resp[h].newTip)
           \/ IsPrefix(resp[h].newTip, resp[g].newTip)

-----------------------------------------------------------------------------
(***************************************************************************)
(* The nodes.                                                              *)
(***************************************************************************)
\* "saves state" (aggregator/aggregator_test.go): the tree an object's tip points
\* to can be loaded whole, at every moment, because the nodes are stored before
\* the tip and those of its ancestors before them: by earlier requests, if clients
\* build on tips the object has had (KnownTips).
TipsLoadable == \A d \in Dids : tips[d] # Undef => Loadable(d, tips[d])

-----------------------------------------------------------------------------
(***************************************************************************)
(* The messages.                                                           *)
(***************************************************************************)
\* Subscribers of an object are told of later and later tips of one history: no
\* message takes them back, or to another branch.
PublishedInOrder ==
    [][\A d \in Dids : published'[d] # published[d]
          => /\ published'[d] # Undef
             /\ published[d] # Undef => IsStrictPrefix(published[d], published'[d])]_published

InFlight(d) == \E h \in Handlers : Busy(h) /\ abr[h].did = d

\* "AddBlockMessage is sent to the message queue for every update"
\* (aggregator/api/publisher/publisher.go): while nothing fails, the last message
\* of an object with no request in flight announced the tip it has.
UpdatesPublished == \A d \in Dids : ~InFlight(d) => published[d] = tips[d]

\* And whatever crashes: when a client has been told that its update is valid,
\* the subscribers have been told of it, or of a later one.
AckedPublished == \A h \in Handlers :
    Acked(h) => /\ published[resp[h].did] # Undef
                /\ IsPrefix(resp[h].newTip, published[resp[h].did])

-----------------------------------------------------------------------------
(***************************************************************************)
(* The global policies.                                                    *)
(***************************************************************************)
\* "installs new global policy on tree updates" (aggregator/aggregator_test.go):
\* with no update of the config tree in flight, each running aggregator has the
\* policies of one version of it, whole, and the one that took the last update
\* has those of the last version (or has stopped, and loads them as it starts).
PolicyFresh ==
    ConfigTip # Undef /\ ~InFlight(ConfigDid) /\ Installable(ConfigTip)
    => /\ \A s \in Servers : agg[s].configTree # Undef => agg[s] = Configured(agg[s].configTree)
       /\ \E s \in Servers : ~agg[s].up \/ agg[s] = Configured(ConfigTip)

PassesGlobalCheck(h) ==
    pc[h] \in {"loadWants", "evaluateGlobal"} /\ pc'[h] = "authenticate"

\* "now test that policy is enforced" (aggregator/aggregator_test.go): a write is
\* let through only if some version of the config tree allows it, never thanks to
\* a mixture of two versions.
PolicyEnforced ==
    [][\A h \in Handlers : PassesGlobalCheck(h) =>
          \E v \in seen[ConfigDid] :
             /\ PoliciesAt(v).kind # "absent"
             /\ \E e \in Evidence :
                  Allows(PoliciesAt(v), WritePolicy, InputOf(v, abr[h].block, e))]_vars

-----------------------------------------------------------------------------
\* Every request is answered (or dies with its server): no handler waits for
\* another one, nor for a call that has failed.
EveryRequestEnds == \A h \in Handlers : Busy(h) ~> ~Busy(h)
=============================================================================
