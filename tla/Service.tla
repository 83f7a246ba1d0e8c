-------------------------------- MODULE Service --------------------------------
(***************************************************************************)
(* Requests from end to end: Identity verifies who asks, Reader resolves   *)
(* for them, and both look at the same trees, at moments of their own,     *)
(* while the trees are written.  The write path is taken for what it       *)
(* promises clients that build on tips the object has had (ChainStore,     *)
(* KnownTips): an acceptable block is added in one step, and every tree    *)
(* can be loaded.  No server sets a ConfigTree (NewResolver), so there is  *)
(* no global policy.                                                       *)
(***************************************************************************)
EXTENDS Identity, Policy, Sequences

CONSTANTS KeyOf, OtherDid, Blocks, MaxHeight

VARIABLES
    tips, nodes, seen,                   \* the store, as in Aggregator
    rstep, asked, requester, latest,     \* the readers, as in Reader
    rquery, given, newest, during

treeVars  == <<tips, nodes, seen>>
readVars  == <<rstep, asked, requester, latest, rquery, given, newest, during>>
serviceVars == <<identityVars, treeVars, readVars>>

\* One server without handlers, and a reader in it for each request.
Running == [s \in {"server"} |->
              [up |-> TRUE, configTree |-> Undef,
               globalWritePolicy |-> NoQuery, hasWriteWants |-> FALSE,
               globalReadPolicy |-> NoQuery, hasReadWants |-> FALSE]]

R == INSTANCE Reader WITH
        ConfigDid <- Undef, Servers <- {"server"}, Handlers <- {}, Host <- <<>>,
        Serial <- TRUE, KnownTips <- TRUE, Durable <- TRUE, MayCrash <- FALSE,
        Readers <- Calls, ReadsFrom <- [r \in Calls |-> "server"],
        Identities <- Dids \cup {Undef},
        published <- [d \in Dids |-> Undef], agg <- Running,
        pc <- <<>>, abr <- <<>>, query <- <<>>, tree <- <<>>, resp <- <<>>

ASSUME WritesAssumption ==
    /\ Blocks \subseteq R!BlockShape /\ KeyOf \in [Dids -> Keys]
    /\ OtherDid \in Dids \cup {Undef} /\ Undef \notin R!Tips

\* Identity knows every ownership a tree may get.
ASSUME OwnershipsCover ==
    /\ \A d \in Dids : {KeyOf[d]} \in Ownerships
    /\ \A b \in Blocks : b.owners # {} => b.owners \in Ownerships

ServiceInit == Init /\ R!ReaderInit

-----------------------------------------------------------------------------
\* Add, for everybody else: a block that is acceptable with the other tree as it is.
\* No tree is grafted from itself.
Write(d, b) ==
    LET prev == R!ChainOf(tips[d])
        tip  == Append(prev, b)
    IN  /\ Len(prev) < MaxHeight /\ d \notin b.owners
        /\ \E e1, e2 \in R!LatestOther : R!Acceptable(d, prev, b, e1, e2)
        /\ tips' = [tips EXCEPT ![d] = tip]
        /\ nodes' = [nodes EXCEPT ![d] = @ \cup {tip}]
        /\ seen' = [seen EXCEPT ![d] = @ \cup {tip}]
        /\ SetOwnership(d, R!OwnersAt(d, tip))
        /\ UNCHANGED <<rstep, asked, requester, latest, rquery, given, newest>>
        /\ R!Witnessed

\* MUTANT: the identity of the header, verified or not.
RequesterFromCtx_Header(r) == IF IsSigned(header[r]) THEN header[r].sub ELSE Undef

\* MUTANT: the identity does not reach the resolver.
RequesterFromCtx_None(r) == Undef

RequesterFromCtx(r) == ctx[r]

\* Resolver.Resolve runs when the schema is executed, and its answer is sent.
IsQuery(r) == rpc[r] = "execute" /\ op[r] = "query"

Resolve(r) ==
    /\ IsQuery(r) /\ UNCHANGED <<identityVars, treeVars>>
    /\ \/ \E d \in Dids : given[r] = R!NoAnswer /\ R!Ask(r, d, RequesterFromCtx(r))
       \/ R!Reading(r)

\* The answer is in the body of the reply.
Deliver(r) ==
    /\ IsQuery(r) /\ given[r] # R!NoAnswer /\ Execute(r)
    /\ given' = [given EXCEPT ![r] = R!NoAnswer]
    /\ UNCHANGED <<treeVars, rstep, asked, requester, latest, rquery, newest, during>>

\* The rest of a request neither reads nor writes the trees.
Otherwise(r) ==
    /\ Send(r) \/ Resend(r) \/ Arrive(r) \/ Verify(r) \/ (~IsQuery(r) /\ Execute(r))
    /\ UNCHANGED <<treeVars, readVars>>

ServiceNext ==
    \/ Tick /\ UNCHANGED <<treeVars, readVars>>
    \/ \E d \in Dids, b \in Blocks : Write(d, b)
    \/ \E r \in Calls : Resolve(r) \/ Deliver(r) \/ Otherwise(r)

ServiceSpec == ServiceInit /\ [][ServiceNext]_serviceVars

-----------------------------------------------------------------------------
\* "it denies read with unknown identity" (aggregator/aggregator_test.go, "with a read
\* policy"): what a tree shows to nobody but itself is shown only in answer to a request
\* signed by a key that owned the tree, or the one it was grafted from, between the
\* arrival of the request and its verification; whatever happened to owners, policies
\* and values since.
OnlyOwnersRead ==
    [][\A r \in Calls :
          /\ R!Shows(r)
          /\ R!PoliciesAt(given'[r].tip).read = "selfOnly"
          => /\ IsSigned(header[r]) /\ header[r].sub = asked[r]
             /\ header[r].signer \in OwnersIn(owned[r], asked[r])]_serviceVars

\* And it is shown to them, unless the tree has become another one's since: who owned
\* the tree throughout the verification is not told that there is nothing.
OwnersRead ==
    [][\A r \in Calls :
          /\ given'[r] = R!Nothing /\ given[r] # given'[r] /\ latest[r] # Undef
          /\ R!PoliciesAt(latest[r]).read = "selfOnly"
          /\ IsSigned(header[r]) /\ header[r].sub = asked[r] /\ now <= header[r].exp
          => ~OwnsThroughout(r)]_serviceVars
=============================================================================
