------------------------------- MODULE Identity -------------------------------
(***************************************************************************)
(* Who a request is from.  A client signs an identity and sends it in a    *)
(* header (src/client.ts); the middleware of the server, and the Lambda    *)
(* handler, verify it against the owners of the tree it names before the   *)
(* request is executed (aggregator/identity, api/server, api/handler).     *)
(* Requests do not touch each other's state: what interferes with one is   *)
(* the clock and the updates of the tree.  A step ends where the clock or  *)
(* the store is read.                                                      *)
(***************************************************************************)
EXTENDS Naturals

CONSTANTS
    Dids,            \* the objects identities may name
    Keys,            \* the keys of clients; a key's address is the key
    Ownerships,      \* the authentications trees have: keys, and at most one tree
                     \* the ownership is grafted from, whose own are keys
    Calls,           \* the requests in flight
    Lifetime,        \* how many seconds a client means an identity to last
    Millis,          \* milliseconds in a second
    MaxTime,         \* bound on the clock
    Faults,          \* the calls that may fail
    Undef            \* nobody, no tree

ASSUME TimeAssumption  == {Lifetime, MaxTime} \subseteq Nat /\ Millis \in Nat \ {0}
ASSUME NamesAssumption == Undef \notin Dids \cup Keys /\ \A S \in Ownerships : S # Undef
ASSUME OwnershipsAssumption == Ownerships \subseteq SUBSET (Keys \cup Dids)
ASSUME IdentitySwitches == Faults \subseteq {"store", "tokens"}

VARIABLES
    now,      \* seconds since the epoch
    owners,   \* the authentications at each object's tip; Undef before the first
    rpc,      \* where each request is
    front,    \* what it comes to: the Lambda handler, or the HTTP server
    op,       \* what it asks for
    header,   \* its identity header
    auths,    \* the authentications Verify found in the tree the header names
    ctx,      \* the identity in its context
    answer,   \* its answer
    arrived,  \* history: when it reached the server
    owned,    \* history: the authentications each tree had at a moment since, until
              \* the identity was verified
    always    \* history: and those it had all that time

worldVars   == <<now, owners>>
requestVars == <<rpc, front, op, header, auths, ctx, answer>>
historyVars == <<arrived, owned, always>>
identityVars == <<worldVars, requestVars, historyVars>>

\* Two operations of the schema; a CORS preflight, a page for a browser, and a body
\* that is no JSON.
Operations == {"query", "identityToken", "preflight", "page", "garbled"}

\* What is answered before anybody looks at the identity.
AtOnce(r) == op[r] \in IF front[r] = "lambda" THEN {"preflight", "page", "garbled"} ELSE {"preflight"}

\* IdentityWithSignature; iss, aud and iat are not looked at.  "signer" is the key
\* recovered from the signature: nobody's when the identity is not the one that was
\* signed.  "made" is when it was signed, and "unit" what a second counts in exp: the
\* code reads neither.
Signed    == [sub : Dids, exp : Nat, signer : Keys \cup {Undef},
              made : Nat, unit : {1, Millis}]
\* No header or an empty one; one that cannot be decoded, or its key recovered.
Absent    == [sub |-> "absent"]
Malformed == [sub |-> "malformed"]
Headers   == Signed \cup {Absent, Malformed}

\* The reply, and the identity the request was executed with.
Served(did) == [status |-> "served", requester |-> did]
NoAnswer    == [status |-> "none", requester |-> Undef]
Failed      == [status |-> "error", requester |-> Undef]
Page        == [status |-> "page", requester |-> Undef]

PlainAnswer(o) == IF o = "garbled" THEN Failed ELSE Page

IsSigned(h)  == h \notin {Absent, Malformed}
OwnersNow(d) == IF owners[d] = Undef THEN {} ELSE owners[d]
NoOwners     == [d \in Dids |-> {}]

\* The keys behind the authentications of a tree, given those of every tree.
OwnersIn(found, d) == (found[d] \cup UNION {found[e] : e \in found[d] \cap Dids}) \cap Keys

Init ==
    /\ now = 0
    /\ owners = [d \in Dids |-> Undef]
    /\ rpc = [r \in Calls |-> "idle"]
    /\ front = [r \in Calls |-> "server"]
    /\ op = [r \in Calls |-> "query"]
    /\ header = [r \in Calls |-> Absent]
    /\ auths = [r \in Calls |-> {}]
    /\ ctx = [r \in Calls |-> Undef]
    /\ answer = [r \in Calls |-> NoAnswer]
    /\ arrived = [r \in Calls |-> 0]
    /\ owned = [r \in Calls |-> NoOwners]
    /\ always = [r \in Calls |-> NoOwners]

-----------------------------------------------------------------------------
Tick ==
    /\ now < MaxTime /\ now' = now + 1
    /\ UNCHANGED <<owners, requestVars, historyVars>>

Verifying(r) == rpc[r] \in {"verify", "getLatest", "resolveOwners"}

\* Add puts a tip under which the tree has these authentications: the first block
\* of the object, or one that sets the ownership and that an owner had to sign.
SetOwnership(d, S) ==
    /\ owners[d] # {}
    /\ owners' = [owners EXCEPT ![d] = S]
    /\ owned' = [r \in Calls |->
          IF Verifying(r) THEN [owned[r] EXCEPT ![d] = @ \cup S] ELSE owned[r]]
    /\ always' = [r \in Calls |->
          IF Verifying(r) THEN [always[r] EXCEPT ![d] = @ \cap S] ELSE always[r]]
    /\ UNCHANGED <<now, requestVars, arrived>>

-----------------------------------------------------------------------------
\* signedIdentity: the tree and the time it expires, in milliseconds by client.ts;
\* Sign in identity.go is given seconds.
SignedIdentity(sub, signer, unit) ==
    [sub |-> sub, exp |-> unit * (now + Lifetime), signer |-> signer,
     made |-> now, unit |-> unit]

\* A client sends a request: without an identity, with what its authLink signs for it,
\* or with a header that was damaged ...
Send(r) ==
    /\ rpc[r] = "idle"
    /\ rpc' = [rpc EXCEPT ![r] = "sent"]
    /\ \E f \in {"lambda", "server"} : front' = [front EXCEPT ![r] = f]
    /\ \/ \E o \in Operations, h \in {Absent, Malformed} :
             op' = [op EXCEPT ![r] = o] /\ header' = [header EXCEPT ![r] = h]
       \/ \E o \in {"query", "identityToken"},
             d \in Dids, k \in Keys \cup {Undef}, u \in {1, Millis} :
             /\ op' = [op EXCEPT ![r] = o]
             /\ header' = [header EXCEPT ![r] = SignedIdentity(d, k, u)]
    /\ answer' = [answer EXCEPT ![r] = NoAnswer]
    /\ UNCHANGED <<worldVars, auths, ctx, historyVars>>

\* ... or the same request again.
Resend(r) ==
    /\ rpc[r] = "idle" /\ answer[r] # NoAnswer
    /\ rpc' = [rpc EXCEPT ![r] = "sent"]
    /\ answer' = [answer EXCEPT ![r] = NoAnswer]
    /\ UNCHANGED <<worldVars, front, op, header, auths, ctx, historyVars>>

-----------------------------------------------------------------------------
Goto(r, label) == rpc' = [rpc EXCEPT ![r] = label] /\ UNCHANGED <<front, op, header, answer>>

Respond(r, a) ==
    /\ rpc' = [rpc EXCEPT ![r] = "idle"]
    /\ auths' = [auths EXCEPT ![r] = {}]
    /\ ctx' = [ctx EXCEPT ![r] = Undef]
    /\ answer' = [answer EXCEPT ![r] = a]
    /\ arrived' = [arrived EXCEPT ![r] = 0]
    /\ owned' = [owned EXCEPT ![r] = NoOwners]
    /\ always' = [always EXCEPT ![r] = NoOwners]
    /\ UNCHANGED <<front, op, header>>

\* The request comes in: it is answered at once, or FromHeader decodes its header.
Arrive(r) ==
    /\ rpc[r] = "sent"
    /\ \/ AtOnce(r) /\ Respond(r, PlainAnswer(op[r]))
       \/ /\ ~AtOnce(r) /\ header[r] # Malformed
          /\ Goto(r, IF header[r] = Absent THEN "execute" ELSE "verify")
          /\ arrived' = [arrived EXCEPT ![r] = now]
          /\ owned' = [owned EXCEPT ![r] = [d \in Dids |-> OwnersNow(d)]]
          /\ always' = [always EXCEPT ![r] = [d \in Dids |-> OwnersNow(d)]]
          /\ UNCHANGED <<auths, ctx>>
       \/ ~AtOnce(r) /\ header[r] = Malformed /\ Respond(r, Failed)
    /\ UNCHANGED worldVars

\* MUTANT: the clock is not looked at.
Expired_Never(r) == FALSE

\* MUTANT: an identity has expired in the last second it is to last.
Expired_Early(r) == now >= header[r].exp

Expired(r) == now > header[r].exp

\* Verify, up to the comparison with the clock: a request with an identity that has
\* expired is executed without one.
CheckExpiry(r) ==
    /\ rpc[r] = "verify"
    /\ Goto(r, IF Expired(r) THEN "execute" ELSE "getLatest")
    /\ UNCHANGED <<worldVars, auths, ctx, historyVars>>

\* GetLatest and NewGraftedOwnership: the tree there is now.  A tree that cannot be
\* loaded, or that does not exist yet, refuses the request, whatever it asks for.
LoadOwnership(r) ==
    /\ rpc[r] = "getLatest"
    /\ \/ /\ owners[header[r].sub] # Undef
          /\ auths' = [auths EXCEPT ![r] = owners[header[r].sub]]
          /\ Goto(r, "resolveOwners")
          /\ UNCHANGED <<ctx, historyVars>>
       \/ /\ owners[header[r].sub] = Undef \/ "store" \in Faults
          /\ Respond(r, Failed)
    /\ UNCHANGED worldVars

\* MUTANT: the context gets the address.
Recognise_Address(r) == header[r].signer

Recognise(r) == header[r].sub

\* MUTANT: a signature is enough.
IsOwner_Signed(r, addrs) == header[r].signer # Undef

IsOwner(r, addrs) == header[r].signer \in addrs

\* ResolveOwners, which loads the tree that ownership is grafted from by then; a
\* signer that is not among the owners is let in as nobody.
ResolveOwners(r) ==
    LET grafted == auths[r] \cap Dids
        addrs   == (auths[r] \cup UNION {OwnersNow(d) : d \in grafted}) \cap Keys
    IN  /\ rpc[r] = "resolveOwners"
        /\ \/ /\ \A d \in grafted : owners[d] # Undef
              /\ ctx' = [ctx EXCEPT ![r] = IF IsOwner(r, addrs) THEN Recognise(r) ELSE Undef]
              /\ auths' = [auths EXCEPT ![r] = {}]
              /\ Goto(r, "execute")
              /\ UNCHANGED historyVars
           \/ /\ \E d \in grafted : owners[d] = Undef \/ "store" \in Faults
              /\ Respond(r, Failed)
        /\ UNCHANGED worldVars

\* The schema is executed with the requester of the context; a token is asked for
\* the requester and may be refused, and the server has no TokenHandler.  It finds out
\* only now what is no query.
Execute(r) ==
    /\ rpc[r] = "execute"
    /\ \/ op[r] \in {"page", "garbled"} /\ Respond(r, PlainAnswer(op[r]))
       \/ op[r] = "query" /\ Respond(r, Served(ctx[r]))
       \/ op[r] = "identityToken" /\ front[r] = "lambda" /\ Respond(r, Served(ctx[r]))
       \/ /\ op[r] = "identityToken" /\ Respond(r, Failed)
          /\ front[r] = "server" \/ (ctx[r] # Undef /\ "tokens" \in Faults)
    /\ UNCHANGED worldVars

Verify(r) == CheckExpiry(r) \/ LoadOwnership(r) \/ ResolveOwners(r)
Handle(r) == Arrive(r) \/ Verify(r) \/ Execute(r)

Next ==
    \/ Tick
    \/ \E d \in Dids, S \in Ownerships : SetOwnership(d, S)
    \/ \E r \in Calls : Send(r) \/ Resend(r) \/ Handle(r)

Spec == Init /\ [][Next]_identityVars

-----------------------------------------------------------------------------
TypeOK ==
    /\ now \in Nat
    /\ owners \in [Dids -> Ownerships \cup {Undef}]
    /\ rpc \in [Calls -> {"idle", "sent", "verify", "getLatest", "resolveOwners", "execute"}]
    /\ front \in [Calls -> {"lambda", "server"}]
    /\ op \in [Calls -> Operations]
    /\ header \in [Calls -> Headers]
    /\ auths \in [Calls -> SUBSET (Keys \cup Dids)]
    /\ ctx \in [Calls -> Dids \cup {Undef}]
    /\ answer \in [Calls -> [status : {"none", "served", "error", "page"},
                                requester : Dids \cup {Undef}]]
    /\ arrived \in [Calls -> Nat]
    /\ owned \in [Calls -> [Dids -> SUBSET (Keys \cup Dids)]]
    /\ always \in [Calls -> [Dids -> SUBSET (Keys \cup Dids)]]

Answered(r)   == answer[r] = NoAnswer /\ answer'[r] # NoAnswer
ServedAs(r,d) == Answered(r) /\ answer'[r] = Served(d)

\* A request is executed (or given a token) as somebody only if it was signed by a key
\* that owned their tree, or a tree it was grafted from, at some moment between its
\* arrival and its verification: a key that was removed before is no longer theirs,
\* however many requests it signed until then.
OwnerVouched ==
    [][\A r \in Calls, d \in Dids : ServedAs(r, d) =>
          /\ header[r].sub = d
          /\ header[r].signer \in OwnersIn(owned[r], d)]_identityVars

\* "seconds since the epoch" (Identity.Exp): an identity whose time to expire is given
\* so is good for the requests that come in while it lasts, and for no later one, also
\* when the same request is sent again.
Expires ==
    [][\A r \in Calls, d \in Dids : ServedAs(r, d) /\ header[r].unit = 1 =>
          arrived[r] <= header[r].made + Lifetime]_identityVars

\* Who owned the tree, itself or through a graft, all the time the verification took;
\* a tree it is grafted from exists and has owners.
OwnsThroughout(r) ==
    /\ header[r].signer \in OwnersIn(always[r], header[r].sub)
    /\ \A d \in owned[r][header[r].sub] \cap Dids : always[r][d] # {}

\* And an owner is recognised: who asks for something, owned the tree throughout, and
\* has an identity that still lasts at the end of it, is served as themselves.
Recognised ==
    [][\A r \in Calls :
          /\ Answered(r)
          /\ op[r] = "query" \/ (op[r] = "identityToken" /\ front[r] = "lambda")
          /\ IsSigned(header[r]) /\ OwnsThroughout(r) /\ now <= header[r].exp
          => answer'[r] = Served(header[r].sub)]_identityVars
=============================================================================
