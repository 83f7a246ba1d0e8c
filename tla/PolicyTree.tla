----------------------------- MODULE PolicyTree -----------------------------
(***************************************************************************)
(* A client's copy of a tree that lives on the server (src/community and   *)
(* src/chaintree): what it subscribes to, how it fetches what it lacks,    *)
(* and how it plays its own transactions.                                  *)
(*                                                                         *)
(* The server keeps one chain for the object (ChainStore), so a tip is     *)
(* known by the number of its blocks; the block numbered n has the height  *)
(* n - 1 in the code, where a tree without blocks counts as height 0.      *)
(* JavaScript runs one callback at a time up to its next await: a step     *)
(* below is what runs between two awaits.                                  *)
(***************************************************************************)
EXTENDS Naturals, Sequences, SequencesExt

CONSTANTS
    Callbacks,    \* invocations of subscribe's "next" that may overlap
    Players,      \* invocations of playTransactions that may overlap
    Others,       \* other clients write the object too
    MaxHeight,    \* bound: blocks the object may get, and players start below it
    OneAtATime,   \* each message is handled before the next one arrives
    Reorder,      \* the queue may deliver a later message first
    Redeliver,    \* bound: messages the queue may deliver twice (QoS 1)
    Faults        \* requests to the server may fail

ASSUME BoundsAssumption == MaxHeight \in Nat \ {0} /\ Redeliver \in Nat
ASSUME SwitchAssumption == {Others, OneAtATime, Reorder, Faults} \subseteq BOOLEAN

VARIABLES
    head,       \* blocks of the object on the server
    queue,      \* messages published and not delivered yet
    redelivered,
    tip,        \* ChainTree.tip
    local,      \* the nodes in the client's store
    landing,    \* nodes of a putMany that nobody awaits
    at,         \* per callback: the tip its first resolve started from,
    curr,       \*   what that resolve said of the height
    msg,        \*   and the message
    cpc,        \* where each callback is
    ppc,        \* where each player is
    abr,        \* the request each player builds,
    state,      \*   the nodes it collects for it,
    newTip      \*   and the tip of the reply; 0 for cid.Undef

serverVars   == <<head, queue, redelivered>>
treeVars     == <<tip, local, landing>>
callbackVars == <<at, curr, msg, cpc>>
playerVars   == <<ppc, abr, state, newTip>>
vars         == <<serverVars, treeVars, callbackVars, playerVars>>

Heights == 0 .. MaxHeight

\* What a resolve of "/" and one of "/chain/end" touch of the tree at a tip.
Nodes   == {"root", "end"} \X Heights
RootOf(n) == {<<"root", n>>}
EndOf(n)  == {<<"root", n>>, <<"end", n>>}

\* Dag.resolveAt finds the end of the chain of a tip in the client's store.
HasEnd(n) == EndOf(n) \subseteq local

\* The fields newAddBlockRequest fills in, each after another await.
Requests  == [height : Heights, previousTip : Heights, signedTip : Heights,
              previousBlock : Heights]
NoRequest == [height |-> 0, previousTip |-> 0, signedTip |-> 0, previousBlock |-> 0]

CallbackLabels == {"idle", "resolve", "compare", "fetchRoot", "fetchEnd"}
PlayerLabels   == {"idle", "setTip", "collect", "collectData", "sign", "resolveChain", "getMany",
                   "send", "sent", "update"}

Handling == \E c \in Callbacks : cpc[c] # "idle"

\* The client has made the tree (newEmptyTree), or got the latest tip of one
\* (Community.getLatest, which stores the root and nothing else).
Init ==
    /\ head \in {0, 1}
    /\ tip = head
    /\ local = IF head = 0 THEN EndOf(0) ELSE RootOf(head)
    /\ landing = {}
    /\ queue = <<>> /\ redelivered = 0
    /\ at = [c \in Callbacks |-> 0]
    /\ curr = [c \in Callbacks |-> 0]
    /\ msg = [c \in Callbacks |-> 0]
    /\ cpc = [c \in Callbacks |-> "idle"]
    /\ ppc = [p \in Players |-> "idle"]
    /\ abr = [p \in Players |-> NoRequest]
    /\ state = [p \in Players |-> {}]
    /\ newTip = [p \in Players |-> 0]

-----------------------------------------------------------------------------
\* MUTANT: the message's height is one too high.
Announced_TooHigh == head + 2

Announced == head + 1

\* The server takes a block and publishes it.
Grow ==
    /\ head < MaxHeight
    /\ head' = head + 1
    /\ queue' = Append(queue, Announced)

\* Another client adds a block.
Update ==
    /\ Others /\ Grow
    /\ UNCHANGED <<redelivered, treeVars, callbackVars, playerVars>>

\* A message arrives: "next" runs up to the await of its first resolve, which
\* has read this.tip.
Deliver(c) ==
    /\ cpc[c] = "idle" /\ queue # <<>>
    /\ OneAtATime => ~Handling
    /\ \E i \in IF Reorder THEN DOMAIN queue ELSE {1} :
         /\ msg' = [msg EXCEPT ![c] = queue[i]]
         /\ \/ queue' = RemoveAt(queue, i) /\ UNCHANGED redelivered
            \/ /\ redelivered < Redeliver
               /\ redelivered' = redelivered + 1
               /\ UNCHANGED queue
    /\ at' = [at EXCEPT ![c] = tip]
    /\ cpc' = [cpc EXCEPT ![c] = "resolve"]
    /\ UNCHANGED <<head, treeVars, curr, playerVars>>

Finish(c) ==
    /\ cpc' = [cpc EXCEPT ![c] = "idle"]
    /\ at' = [at EXCEPT ![c] = 0]
    /\ curr' = [curr EXCEPT ![c] = 0]
    /\ msg' = [msg EXCEPT ![c] = 0]

\* An exception: the promise of "next" is rejected and nobody looks at it.
Fail(c) ==
    /\ Faults /\ Finish(c)
    /\ UNCHANGED <<serverVars, treeVars, playerVars>>

\* PolicyTree.resolve("/chain/end/height"): from the client's own nodes if they
\* are there; if not, the answer is of the server's tree, not of this one.
Resolve(c) ==
    /\ cpc[c] = "resolve"
    /\ \/ /\ curr' = [curr EXCEPT ![c] = IF HasEnd(at[c]) THEN at[c] ELSE head]
          /\ landing' = IF HasEnd(at[c]) THEN landing ELSE landing \cup EndOf(head)
          /\ cpc' = [cpc EXCEPT ![c] = "compare"]
          /\ UNCHANGED <<serverVars, tip, local, at, msg, playerVars>>
       \/ ~HasEnd(at[c]) /\ Fail(c)

\* MUTANT: every message is followed.
Follows_Always(c) == TRUE

\* MUTANT: ">" instead of ">=".
Follows_Strict(c) == msg[c] > curr[c]

Follows(c) == msg[c] >= curr[c]

\* "if (msg.value.height >= currHeight) this.tip = ..."
Compare(c) ==
    /\ cpc[c] = "compare"
    /\ \/ /\ Follows(c)
          /\ tip' = msg[c]
          /\ cpc' = [cpc EXCEPT ![c] = "fetchRoot"]
          /\ UNCHANGED <<at, curr, msg>>
       \/ ~Follows(c) /\ Finish(c) /\ UNCHANGED tip
    /\ UNCHANGED <<serverVars, local, landing, playerVars>>

\* The two requests for "/" and "/chain/end" are answered with the nodes of the
\* tip the server has by then, and put into the store without waiting for it.
FetchRoot(c) ==
    /\ cpc[c] = "fetchRoot"
    /\ \/ /\ landing' = landing \cup RootOf(head)
          /\ cpc' = [cpc EXCEPT ![c] = "fetchEnd"]
          /\ UNCHANGED <<serverVars, tip, local, at, curr, msg, playerVars>>
       \/ Fail(c)

\* MUTANT: "/" is fetched twice.
SecondFetch_Root == RootOf(head)

SecondFetch == EndOf(head)

FetchEnd(c) ==
    /\ cpc[c] = "fetchEnd"
    /\ \/ /\ landing' = landing \cup SecondFetch
          /\ Finish(c)
          /\ UNCHANGED <<serverVars, tip, local, playerVars>>
       \/ Fail(c)

\* A putMany comes to its end.
Land ==
    /\ landing # {}
    /\ local' = local \cup landing
    /\ landing' = {}
    /\ UNCHANGED <<serverVars, tip, callbackVars, playerVars>>

-----------------------------------------------------------------------------
(***************************************************************************)
(* Community.playTransactions.  newAddBlockRequest reads the tip, or       *)
(* resolves paths from it, at six moments with awaits in between, and asks *)
(* its store in the end for the nodes that the resolves have touched.      *)
(***************************************************************************)
\* playTransactions throws.
Throw(p) ==
    /\ ppc' = [ppc EXCEPT ![p] = "idle"]
    /\ abr' = [abr EXCEPT ![p] = NoRequest]
    /\ state' = [state EXCEPT ![p] = {}]
    /\ newTip' = [newTip EXCEPT ![p] = 0]
    /\ UNCHANGED <<treeVars, callbackVars>>

Continue(p, label) == ppc' = [ppc EXCEPT ![p] = label] /\ UNCHANGED <<callbackVars, newTip>>

\* PolicyTree.resolve from a tip: the tree whose nodes it touches.
Touched(n) == IF HasEnd(n) THEN n ELSE head

Resolved(p, field, next) ==
    \/ /\ abr' = [abr EXCEPT ![p][field] = Touched(tip)]
       /\ landing' = IF HasEnd(tip) THEN landing ELSE landing \cup EndOf(head)
       /\ Continue(p, next)
       /\ UNCHANGED <<serverVars, tip, local, state>>
    \/ Faults /\ ~HasEnd(tip) /\ Throw(p) /\ UNCHANGED serverVars

Took(p, field, next) ==
    /\ abr' = [abr EXCEPT ![p][field] = tip]
    /\ Continue(p, next)
    /\ UNCHANGED <<serverVars, treeVars, state>>

\* MUTANT: the end of the chain is not asked for.
Collected_Root(n) == RootOf(n)

Collected(n) == EndOf(n)

Collects(p, from, next) ==
    \/ /\ state' = [state EXCEPT ![p] = @ \cup Collected(Touched(from))]
       /\ landing' = IF HasEnd(from) THEN landing ELSE landing \cup EndOf(head)
       /\ Continue(p, next)
       /\ UNCHANGED <<serverVars, tip, local, abr>>
    \/ Faults /\ ~HasEnd(from) /\ Throw(p) /\ UNCHANGED serverVars

\* nextHeight, from "/chain/end"
Play(p)         == ppc[p] = "idle" /\ head < MaxHeight /\ Resolved(p, "height", "setTip")
\* abr.setPreviousTip(this.tip.buffer); the first state is resolved from the same tip
SetTip(p)       == ppc[p] = "setTip" /\ Took(p, "previousTip", "collect")
Collect(p)      == ppc[p] = "collect" /\ Collects(p, abr[p].previousTip, "collectData")
\* what the transactions set, from the tip by then
CollectData(p)  == ppc[p] = "collectData" /\ Collects(p, tip, "sign")
\* block.previousTip = this.tip, and the block is signed
Sign(p)         == ppc[p] = "sign" /\ Took(p, "signedTip", "resolveChain")
\* previousBlock, from "chain"
ResolveChain(p) == ppc[p] = "resolveChain" /\ Resolved(p, "previousBlock", "getMany")

\* store.getMany throws when a putMany that nobody awaits has not come to its end.
GetMany(p) ==
    /\ ppc[p] = "getMany"
    /\ \/ state[p] \subseteq local /\ Continue(p, "send") /\ UNCHANGED <<treeVars, abr, state>>
       \/ ~(state[p] \subseteq local) /\ Throw(p)
    /\ UNCHANGED serverVars

\* client.addBlock: the request is on its way, or lost.
Send(p) ==
    /\ ppc[p] = "send"
    /\ \/ Continue(p, "sent") /\ UNCHANGED <<treeVars, abr, state>>
       \/ Faults /\ Throw(p)
    /\ UNCHANGED serverVars

Replied(p, n) ==
    /\ newTip' = [newTip EXCEPT ![p] = n]
    /\ ppc' = [ppc EXCEPT ![p] = "update"]
    /\ abr' = [abr EXCEPT ![p] = NoRequest]
    /\ state' = [state EXCEPT ![p] = {}]
    /\ UNCHANGED <<treeVars, callbackVars>>

Accept(p) == Grow /\ Replied(p, head + 1)

\* The server takes a request whose tips and height are those of its tree, and answers
\* others with an error, on which playTransactions throws; whether it looks at
\* previousBlock is up to the chaintree library.  A policy may refuse any request,
\* which is no error, but a reply without a tip, valid or not.
Serve(p) ==
    LET required == {"height", "previousTip", "signedTip"}
        matches(fields) == \A f \in fields : abr[p][f] = head
    IN  /\ ppc[p] = "sent"
        /\ \/ matches(required) /\ Accept(p)
           \/ ~matches(DOMAIN abr[p]) /\ Throw(p) /\ UNCHANGED <<head, queue>>
           \/ Replied(p, 0) /\ UNCHANGED <<head, queue>>
        /\ UNCHANGED redelivered

\* MUTANT: a CID is made of anything.
IsCID_Any(n) == TRUE

\* new CID("b"), the string of cid.Undef, throws; nobody looks at "valid".
IsCID(n) == n # 0

\* updateChainTreeWithResponse: the new nodes are stored, then the tip is set.
\* The reply may be lost, and then the tree does not know of its own block.
UpdateTree(p) ==
    /\ ppc[p] = "update"
    /\ \/ /\ IsCID(newTip[p])
          /\ local' = local \cup EndOf(newTip[p])
          /\ tip' = newTip[p]
          /\ newTip' = [newTip EXCEPT ![p] = 0]
          /\ ppc' = [ppc EXCEPT ![p] = "idle"]
          /\ UNCHANGED <<landing, callbackVars, abr, state>>
       \/ (~IsCID(newTip[p]) \/ Faults) /\ Throw(p)
    /\ UNCHANGED serverVars

-----------------------------------------------------------------------------
Playing(p) ==
    \/ SetTip(p) \/ Collect(p) \/ CollectData(p) \/ Sign(p) \/ ResolveChain(p) \/ GetMany(p)
    \/ Send(p) \/ Serve(p) \/ UpdateTree(p)

Next ==
    \/ Update \/ Land
    \/ \E c \in Callbacks :
         Deliver(c) \/ Resolve(c) \/ Compare(c) \/ FetchRoot(c) \/ FetchEnd(c)
    \/ \E p \in Players : Play(p) \/ Playing(p)

Spec == Init /\ [][Next]_vars

\* The queue delivers, requests are answered and callbacks run; nobody has to
\* write.
Running ==
    /\ WF_vars(Land)
    /\ \A c \in Callbacks : /\ WF_vars(Deliver(c)) /\ WF_vars(Resolve(c)) /\ WF_vars(Compare(c))
                            /\ WF_vars(FetchRoot(c)) /\ WF_vars(FetchEnd(c))
    /\ \A p \in Players : WF_vars(Playing(p))

FairSpec == Spec /\ Running

-----------------------------------------------------------------------------
TypeOK ==
    /\ head \in Heights /\ tip \in Heights /\ redelivered \in 0 .. Redeliver
    /\ queue \in Seq(Heights)
    /\ local \subseteq Nodes /\ landing \subseteq Nodes
    /\ {at, curr, msg} \subseteq [Callbacks -> Heights]
    /\ cpc \in [Callbacks -> CallbackLabels] /\ ppc \in [Players -> PlayerLabels]
    /\ abr \in [Players -> Requests] /\ state \in [Players -> SUBSET Nodes] /\ newTip \in [Players -> Heights]

\* "you can stay up to date as objects change" (README.md): the tip of a
\* subscribed tree never goes back to an older one (policytree.ts compares the
\* heights for that).
NeverBack == [][tip' >= tip]_tip

\* And with every message delivered it ends at the object's last one.
CatchesUp == <>[](head = MaxHeight) => <>[](tip = MaxHeight)

\* When all messages have been handled and the nodes have landed, the client can
\* read the end of its chain, and so the height it compares with, on its own.
Settled == queue = <<>> /\ ~Handling /\ landing = {} /\ head > 1
ReadsItself == Settled => HasEnd(tip)

Accepted(p) == ppc[p] = "sent" /\ head' # head /\ ppc'[p] = "update"

\* "collect state we need for all transactions" (chaintree.ts): a request that is taken
\* carries the nodes of the tree it builds on, although they are resolved at two
\* moments, perhaps from the server, while tips and messages come in.
CarriesState == [][\A p \in Players : Accepted(p) => EndOf(head) \subseteq state[p]]_vars
=============================================================================
