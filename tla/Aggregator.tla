----------------------------- MODULE Aggregator -----------------------------
(***************************************************************************)
(* The write path of the aggregator (aggregator/aggregator.go).            *)
(*                                                                         *)
(* Requests are served concurrently: every handler below is a goroutine or *)
(* a Lambda invocation running Add.  Nothing in an Aggregator is locked,   *)
(* so a step ends wherever the code reads or writes something another      *)
(* handler may write: the store of tips, the store of nodes, the fields of *)
(* the Aggregator, the message queue.                                      *)
(***************************************************************************)
EXTENDS ChainTree, SequencesExt

CONSTANTS
    ConfigDid,   \* AggregatorConfig.ConfigTree; Undef for the empty string
    Servers,     \* processes holding an Aggregator, all on one store
    Handlers,    \* request handlers
    Host,        \* the server each handler runs on
    MaxHeight,   \* bound: requests build on tips below this height
    Serial,      \* clients have at most one request in flight per object
    KnownTips,   \* clients build on tips an object had, or on the empty tree
    Durable,     \* the store outlives the processes (NewMemoryStore does not)
    MayCrash,    \* processes may stop at any moment and start again
    Faults       \* the calls that may fail

ASSUME HostAssumption   == Host \in [Handlers -> Servers]
ASSUME ConfigAssumption == ConfigDid \in Dids \cup {Undef}
ASSUME SwitchAssumption == /\ {Serial, KnownTips, Durable, MayCrash} \subseteq BOOLEAN
                           /\ Faults \subseteq {"store", "publish"}
                           /\ MaxHeight \in Nat
ASSUME NonEmptyAssumption == Dids # {} /\ Blocks # {}

VARIABLES
    \* the store and the queue, shared by all servers
    tips,        \* keyValueStore: the tip of each object
    nodes,       \* DagStore: the tips whose own nodes are stored
    seen,        \* every tip an object ever had (what clients know)
    published,   \* the last message sent on each object's topic
    agg,         \* the process of each server and the fields of its Aggregator
    \* the locals of each handler
    pc,
    abr,         \* the AddBlockRequest being served
    query,       \* the query evaluateGlobalWritePolicy dereferenced
    tree,        \* the config tree it evaluates it on, or setupConfigTree loaded
    resp         \* the answer to the handler's last request

storeVars   == <<tips, nodes, seen, published>>
handlerVars == <<pc, abr, query, tree, resp>>
vars        == <<storeVars, agg, handlerVars>>

Labels == {"idle", "checkGlobal", "loadGlobal", "loadTree", "loadWants", "evaluateGlobal",
           "authenticate", "validate", "checkTip", "storeState", "putTip", "loadConfig",
           "installWrite", "installWriteWants", "installRead", "installReadWants", "publish"}

Requests == [did : Dids, prev : Tips, block : Blocks]
Replies  == [status : {"none", "ok", "error"}, did : Dids \cup {Undef},
             valid : BOOLEAN, newTip : MaybeTips]
Aggregators == [up : BOOLEAN, configTree : MaybeTips,
                globalWritePolicy : Queries, hasWriteWants : BOOLEAN,
                globalReadPolicy : Queries, hasReadWants : BOOLEAN]

\* An Aggregator nothing has been installed in.
Blank(up) == [up |-> up, configTree |-> Undef,
              globalWritePolicy |-> NoQuery, hasWriteWants |-> FALSE,
              globalReadPolicy |-> NoQuery, hasReadWants |-> FALSE]

NewTip(h) == Append(abr[h].prev, abr[h].block)
Busy(h)   == pc[h] # "idle"

-----------------------------------------------------------------------------
(***************************************************************************)
(* What Resolver.AddBlock answers.  ErrInvalidBlock is "not valid"; an     *)
(* AddResponse is "valid", also the one that has IsValid FALSE and no tip  *)
(* because the global policy refused the block; "did" is the object of a   *)
(* new tip.                                                                *)
(***************************************************************************)
Payload(status, did, valid, tip) ==
    [status |-> status, did |-> did, valid |-> valid, newTip |-> tip]
NoReply      == Payload("none", Undef, FALSE, Undef)
ErrorReply   == Payload("error", Undef, FALSE, Undef)
InvalidReply == Payload("ok", Undef, FALSE, Undef)
PolicyReply  == Payload("ok", Undef, TRUE, Undef)
\* MUTANT: the parts are in the wrong order.
Committed_Swapped(did, tip) == Payload("ok", tip, TRUE, did)

Committed(did, tip) == Payload("ok", did, TRUE, tip)

NoRequest == CHOOSE r \in [did : Dids, prev : {<<>>}, block : Blocks] : TRUE

Init ==
    /\ tips = [d \in Dids |-> Undef]
    /\ nodes = [d \in Dids |-> {}]
    /\ seen = [d \in Dids |-> {}]
    /\ published = [d \in Dids |-> Undef]
    /\ agg = [s \in Servers |-> Blank(TRUE)]
    /\ pc = [h \in Handlers |-> "idle"]
    /\ abr = [h \in Handlers |-> NoRequest]
    /\ query = [h \in Handlers |-> NoQuery]
    /\ tree = [h \in Handlers |-> <<>>]
    /\ resp = [h \in Handlers |-> NoReply]

-----------------------------------------------------------------------------
Goto(h, label) ==
    /\ pc' = [pc EXCEPT ![h] = label]
    /\ UNCHANGED <<abr, query, tree, resp>>

\* Answer the request; the locals that die with it go back to their first value.
Reply(h, r) ==
    /\ pc' = [pc EXCEPT ![h] = "idle"]
    /\ resp' = [resp EXCEPT ![h] = r]
    /\ query' = [query EXCEPT ![h] = NoQuery]
    /\ tree' = [tree EXCEPT ![h] = <<>>]
    /\ abr' = [abr EXCEPT ![h] = NoRequest]

\* Every tip a client can make up, with the State that goes with it; nobody asks
\* who signed the blocks of that history.
Drafts == SeqOf(Blocks, MaxHeight - 1)

\* The tips a client may build on: when it knows the object, those it has had (the
\* latest it saw, or an older one: a stale client, or a request sent again).
Parents(d) ==
    IF KnownTips THEN {prev \in seen[d] \cup {<<>>} : Len(prev) < MaxHeight} ELSE Drafts

\* A client sends a block.
Receive(h) ==
    /\ pc[h] = "idle" /\ agg[Host[h]].up
    /\ \E d \in Dids, b \in Blocks : \E prev \in Parents(d) :
         /\ Serial => \A g \in Handlers : Busy(g) => abr[g].did # d
         /\ abr' = [abr EXCEPT ![h] = [did |-> d, prev |-> prev, block |-> b]]
    /\ pc' = [pc EXCEPT ![h] = "checkGlobal"]
    /\ resp' = [resp EXCEPT ![h] = NoReply]
    /\ UNCHANGED <<storeVars, agg, query, tree>>

-----------------------------------------------------------------------------
\* Every node of a tree is stored: its own and those of its ancestors.
Loadable(d, tip) == \A n \in 1 .. Len(tip) : SubSeq(tip, 1, n) \in nodes[d]

\* A node that is read may not be there, or the store not give it.
MayMiss(d, tip) == ~Loadable(d, tip) \/ "store" \in Faults

\* getter.GetLatest of the tree that others depend on, and the path wanted of it, at
\* this moment.
LatestOther ==
    LET found == OtherDid \in Dids /\ tips[OtherDid] \in nodes[OtherDid]
    IN  IF ~found THEN {<<>>}
        ELSE {tips[OtherDid]} \cup IF MayMiss(OtherDid, tips[OtherDid]) THEN {<<>>} ELSE {}

\* MUTANT: what could not be evaluated passes.
Passes_Errors(verdict) == verdict \in {"valid", "error"}

Passes(verdict) == verdict = "valid"

\* Go on when the verdict is good, with what it was found from forgotten; a panic is
\* recovered into an error by the GraphQL server.
Pass(h, label) ==
    /\ pc' = [pc EXCEPT ![h] = label]
    /\ query' = [query EXCEPT ![h] = NoQuery]
    /\ tree' = [tree EXCEPT ![h] = <<>>]
    /\ UNCHANGED <<abr, resp>>

Decide(h, verdict, label, refusal) ==
    \/ Passes(verdict) /\ Pass(h, label)
    \/ ~Passes(verdict) /\ verdict # "panic" /\ Reply(h, refusal)
    \/ verdict = "panic" /\ Reply(h, ErrorReply)

\* evaluateGlobalWritePolicy: "a.globalWritePolicy != nil" ...
CheckGlobalPolicy(h) ==
    /\ pc[h] = "checkGlobal"
    /\ Goto(h, IF agg[Host[h]].globalWritePolicy = NoQuery THEN "authenticate" ELSE "loadGlobal")
    /\ UNCHANGED <<storeVars, agg>>

\* ... "*a.globalWritePolicy", read again: a handler of the config tree may have
\* cleared it since, and the nil dereference panics ...
LoadGlobalPolicy(h) ==
    LET policy == agg[Host[h]].globalWritePolicy
    IN  /\ pc[h] = "loadGlobal"
        /\ \/ /\ policy # NoQuery
              /\ query' = [query EXCEPT ![h] = policy]
              /\ pc' = [pc EXCEPT ![h] = "loadTree"]
              /\ UNCHANGED <<abr, tree, resp>>
           \/ policy = NoQuery /\ Reply(h, ErrorReply)
        /\ UNCHANGED <<storeVars, agg>>

\* ... then "a.configTree", which is never nil once there has been a policy ...
LoadGlobalTree(h) ==
    /\ pc[h] = "loadTree"
    /\ tree' = [tree EXCEPT ![h] = ChainOf(agg[Host[h]].configTree)]
    /\ pc' = [pc EXCEPT ![h] = "loadWants"]
    /\ UNCHANGED <<storeVars, agg, abr, query, resp>>

\* A block the policy does not allow, and one it cannot be evaluated for, get the
\* same answer, and no error.
DecideGlobal(h, hasWants, other) ==
    Decide(h, PolicyValidator(query[h], hasWants, InputOf(tree[h], abr[h].block, other)),
           "authenticate", PolicyReply)

\* MUTANT: the wants of the policy are not looked up.
HasWriteWants_Never(h) == FALSE

HasWriteWants(h) == agg[Host[h]].hasWriteWants

\* ... and "a.hasWriteWants": without wants the policy is evaluated on the block
\* alone ...
LoadGlobalWants(h) ==
    /\ pc[h] = "loadWants"
    /\ \/ HasWriteWants(h) /\ Goto(h, "evaluateGlobal")
       \/ ~HasWriteWants(h) /\ DecideGlobal(h, FALSE, <<>>)
    /\ UNCHANGED <<storeVars, agg>>

\* ... with wants, on what they name in the config tree and in the other one.
EvaluateGlobalPolicy(h) ==
    /\ pc[h] = "evaluateGlobal"
    /\ \/ \E other \in LatestOther : DecideGlobal(h, TRUE, other)
       \/ MayMiss(ConfigDid, tree[h]) /\ Reply(h, PolicyReply)
    /\ UNCHANGED <<storeVars, agg>>

\* MUTANT: the owners are those the block leaves behind.
Authenticate_After(h) ==
    /\ pc[h] = "authenticate"
    /\ \E other \in LatestOther :
         IF abr[h].block.signer \in GraftedOwners(abr[h].did, NewTip(h), other)
         THEN Goto(h, "validate") ELSE Reply(h, InvalidReply)
    /\ UNCHANGED <<storeVars, agg>>

\* ValidateAbr, first the signature and the owners ...
Authenticate(h) ==
    LET r == abr[h]
    IN  /\ pc[h] = "authenticate"
        /\ \E other \in LatestOther :
             IF Authentic(r.did, r.prev, r.block, other)
             THEN Goto(h, "validate") ELSE Reply(h, InvalidReply)
        /\ UNCHANGED <<storeVars, agg>>

\* ... then the policies of the tree; whatever makes the block invalid, the answer
\* is ErrInvalidBlock.
Validate(h) ==
    /\ pc[h] = "validate"
    /\ \E other \in LatestOther :
         Decide(h, ValidateAbr(abr[h].prev, abr[h].block, other), "checkTip", InvalidReply)
    /\ UNCHANGED <<storeVars, agg>>

\* MUTANT: the request's tip is not compared.
TipMatches_Any(h) == TRUE

\* GetTip, and the comparison with the tip the request builds on.
TipMatches(h) == tips[abr[h].did] \in {Undef, abr[h].prev}

\* MUTANT: a request on another tip waits for its turn.
Mismatch_Waits(h) == FALSE

Mismatch(h) == ~TipMatches(h) \/ "store" \in Faults

CheckTip(h) ==
    /\ pc[h] = "checkTip"
    /\ \/ TipMatches(h) /\ Goto(h, "storeState")
       \/ Mismatch(h) /\ Reply(h, ErrorReply)
    /\ UNCHANGED <<storeVars, agg>>

\* What the State of the request has of the tree it builds on: the whole tree, or no
\* more than the block needs.
States(h) == {{}, Prefixes(abr[h].prev) \ {<<>>}}

\* MUTANT: the state of the request is stored, without the new nodes.
NewNodes_None(h) == {}

NewNodes(h) == {NewTip(h)}

\* storeState; Add does not look at the error it returns.
StoreState(h) ==
    /\ pc[h] = "storeState"
    /\ \/ \E state \in States(h) :
            nodes' = [nodes EXCEPT ![abr[h].did] = @ \cup state \cup NewNodes(h)]
       \/ "store" \in Faults /\ UNCHANGED nodes
    /\ Goto(h, "putTip")
    /\ UNCHANGED <<tips, seen, published, agg>>

\* keyValueStore.Put.
Put(d, tip) ==
    /\ tips' = [tips EXCEPT ![d] = tip]
    /\ seen' = [seen EXCEPT ![d] = @ \cup {tip}]

\* MUTANT: the error of Put is not looked at.
PutFails_Ignored(h) == UNCHANGED <<tips, seen>> /\ Goto(h, "publish")

\* A Put that fails may or may not have reached the store.
PutFails(h) ==
    /\ Put(abr[h].did, NewTip(h)) \/ UNCHANGED <<tips, seen>>
    /\ Reply(h, ErrorReply)

PutTip(h) ==
    /\ pc[h] = "putTip"
    /\ \/ /\ Put(abr[h].did, NewTip(h))
          /\ Goto(h, IF abr[h].did = ConfigDid THEN "loadConfig" ELSE "publish")
       \/ "store" \in Faults /\ PutFails(h)
    /\ UNCHANGED <<nodes, published, agg>>

-----------------------------------------------------------------------------
Installing(h, policyName) == PolicyFromTree(PoliciesAt(tree[h]), policyName)

Install(h, field, value, label) ==
    /\ agg' = [agg EXCEPT ![Host[h]][field] = value]
    /\ Goto(h, label)
    /\ UNCHANGED storeVars

\* setupConfigTree: GetLatest; a tip the store has forgotten since the Put is no error ...
LoadConfig(h) ==
    LET tip == tips[ConfigDid]
    IN  /\ pc[h] = "loadConfig"
        /\ \/ /\ tip \in nodes[ConfigDid]
              /\ agg' = [agg EXCEPT ![Host[h]].configTree = tip]
              /\ tree' = [tree EXCEPT ![h] = tip]
              /\ pc' = [pc EXCEPT ![h] = "installWrite"]
              /\ UNCHANGED <<abr, query, resp>>
           \/ tip = Undef /\ Goto(h, "publish") /\ UNCHANGED agg
           \/ /\ (tip # Undef /\ tip \notin nodes[ConfigDid]) \/ "store" \in Faults
              /\ Reply(h, ErrorReply) /\ UNCHANGED agg
        /\ UNCHANGED storeVars

\* An error leaves the policies not yet installed as they were, beside the new
\* configTree, and answers a request that has been committed.
InstallFails(h) == Reply(h, ErrorReply) /\ UNCHANGED <<storeVars, agg>>

\* ... the write policy ...
InstallWritePolicy(h) ==
    LET write == Installing(h, WritePolicy)
    IN  /\ pc[h] = "installWrite"
        /\ \/ write.status = "ok" /\ Install(h, "globalWritePolicy", write.query, "installWriteWants")
           \/ (write.status # "ok" \/ MayMiss(ConfigDid, tree[h])) /\ InstallFails(h)

\* MUTANT: hasWriteWants keeps its value.
InstallWriteWants_Kept(h) ==
    /\ pc[h] = "installWriteWants"
    /\ Goto(h, "installRead") /\ UNCHANGED <<storeVars, agg>>

InstallWriteWants(h) ==
    /\ pc[h] = "installWriteWants"
    /\ Install(h, "hasWriteWants", Installing(h, WritePolicy).hasWants, "installRead")

\* ... and the read policy, which compiles when the write policy did.
InstallReadPolicy(h) ==
    /\ pc[h] = "installRead"
    /\ \/ Install(h, "globalReadPolicy", Installing(h, ReadPolicy).query, "installReadWants")
       \/ MayMiss(ConfigDid, tree[h]) /\ InstallFails(h)

InstallReadWants(h) ==
    /\ pc[h] = "installReadWants"
    /\ Install(h, "hasReadWants", Installing(h, ReadPolicy).hasWants, "publish")

-----------------------------------------------------------------------------
\* MUTANT: the message announces the previous tip.
Announced_Previous(h) == abr[h].prev

Announced(h) == NewTip(h)

\* updateFunc (a failed publication is only logged), then the reply.
Publish(h) ==
    /\ pc[h] = "publish"
    /\ \/ published' = [published EXCEPT ![abr[h].did] = Announced(h)]
       \/ "publish" \in Faults /\ UNCHANGED published
    /\ Reply(h, Committed(abr[h].did, NewTip(h)))
    /\ UNCHANGED <<tips, nodes, seen, agg>>

-----------------------------------------------------------------------------
\* What is left of the store: everything, or nothing when it was in memory.
KeepStore ==
    IF Durable THEN UNCHANGED <<tips, nodes>>
    ELSE /\ tips' = [d \in Dids |-> Undef]
         /\ nodes' = [d \in Dids |-> {}]

\* The process stops: its requests are lost with the fields of its Aggregator.
\* Replies already sent stay.
Crash(s) ==
    LET lost == {h \in Handlers : Host[h] = s /\ Busy(h)}
    IN  /\ MayCrash /\ agg[s].up
        /\ agg' = [agg EXCEPT ![s] = Blank(FALSE)]
        /\ pc' = [h \in Handlers |-> IF h \in lost THEN "idle" ELSE pc[h]]
        /\ abr' = [h \in Handlers |-> IF h \in lost THEN NoRequest ELSE abr[h]]
        /\ query' = [h \in Handlers |-> IF h \in lost THEN NoQuery ELSE query[h]]
        /\ tree' = [h \in Handlers |-> IF h \in lost THEN <<>> ELSE tree[h]]
        /\ KeepStore
        /\ UNCHANGED <<seen, published, resp>>

ConfigTip == IF ConfigDid = Undef THEN Undef ELSE tips[ConfigDid]

\* MUTANT: the read policy is not installed.
Configured_WriteOnly(tip) ==
    LET write == PolicyFromTree(PoliciesAt(tip), WritePolicy)
    IN  [Blank(TRUE) EXCEPT !.configTree = tip,
             !.globalWritePolicy = write.query, !.hasWriteWants = write.hasWants]

\* The Aggregator setupConfigTree leaves behind when it has loaded this tip.
Configured(tip) ==
    LET write == PolicyFromTree(PoliciesAt(tip), WritePolicy)
        read  == PolicyFromTree(PoliciesAt(tip), ReadPolicy)
    IN  [Blank(TRUE) EXCEPT !.configTree = tip,
             !.globalWritePolicy = write.query, !.hasWriteWants = write.hasWants,
             !.globalReadPolicy = read.query, !.hasReadWants = read.hasWants]

Installable(tip) == PolicyFromTree(PoliciesAt(tip), WritePolicy).status = "ok"

\* NewAggregator; an error of setupConfigTree is fatal, and the process is down
\* until the next attempt.
Restart(s) ==
    /\ ~agg[s].up
    /\ ConfigTip # Undef => ConfigTip \in nodes[ConfigDid] /\ Installable(ConfigTip)
    /\ agg' = [agg EXCEPT ![s] = IF ConfigTip = Undef THEN Blank(TRUE) ELSE Configured(ConfigTip)]
    /\ UNCHANGED <<storeVars, handlerVars>>

-----------------------------------------------------------------------------
Serve(h) ==
    \/ CheckGlobalPolicy(h) \/ LoadGlobalPolicy(h) \/ LoadGlobalTree(h)
    \/ LoadGlobalWants(h) \/ EvaluateGlobalPolicy(h)
    \/ Authenticate(h) \/ Validate(h) \/ CheckTip(h) \/ StoreState(h) \/ PutTip(h)
    \/ LoadConfig(h) \/ InstallWritePolicy(h) \/ InstallWriteWants(h)
    \/ InstallReadPolicy(h) \/ InstallReadWants(h) \/ Publish(h)

Next ==
    \/ \E h \in Handlers : Receive(h) \/ Serve(h)
    \/ \E s \in Servers : Crash(s) \/ Restart(s)

Spec == Init /\ [][Next]_vars

\* A goroutine that can run does; nothing obliges a client to send a request.
FairSpec == Spec /\ \A h \in Handlers : WF_vars(Serve(h))
=============================================================================
