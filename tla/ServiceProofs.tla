---------------------------- MODULE ServiceProofs -----------------------------
(***************************************************************************)
(* Proofs about Identity, for any number of requests, keys and trees, any  *)
(* clock and any lifetime; and about Service, which joins it to the trees. *)
(***************************************************************************)
EXTENDS Service, WellFoundedInduction, TLAPS

USE DEF worldVars, requestVars, historyVars, identityVars

(***************************************************************************)
(* The inductive invariant.                                                *)
(***************************************************************************)
\* Only a signed header is verified.
SignedFirst == \A r \in Calls : Verifying(r) => header[r] \in Signed

\* What the two histories say of the authentications there are now, while the
\* identity is verified.
Present == \A r \in Calls, d \in Dids :
    Verifying(r) => always[r][d] \subseteq OwnersNow(d) /\ OwnersNow(d) \subseteq owned[r][d]

\* And of those that Verify has loaded.
Loaded == \A r \in Calls : rpc[r] = "resolveOwners" =>
    /\ auths[r] \subseteq owned[r][header[r].sub]
    /\ always[r][header[r].sub] \subseteq auths[r]

\* A time in seconds is what the client meant.
Lasts == \A r \in Calls : header[r] \in Signed /\ header[r].unit = 1 =>
    header[r].exp = header[r].made + Lifetime

\* The clock is compared after the request came in.
InTime == \A r \in Calls :
    /\ rpc[r] = "verify" => arrived[r] <= now
    /\ rpc[r] \in {"getLatest", "resolveOwners"} => arrived[r] <= header[r].exp

\* The identity in a context was verified ...
Verified == \A r \in Calls : ctx[r] # Undef =>
    /\ rpc[r] = "execute" /\ header[r] \in Signed /\ ctx[r] = header[r].sub
    /\ header[r].signer \in OwnersIn(owned[r], header[r].sub)
    /\ arrived[r] <= header[r].exp

\* ... and a context without one, for a reason.
Refused == \A r \in Calls : rpc[r] = "execute" /\ ctx[r] = Undef /\ header[r] \in Signed =>
    \/ header[r].signer \notin OwnersIn(always[r], header[r].sub)
    \/ now > header[r].exp

Typed == TypeOK /\ SignedFirst
Facts == Present /\ Loaded /\ Lasts /\ InTime /\ Verified /\ Refused

-----------------------------------------------------------------------------
LEMMA OwnersNowType ==
    ASSUME TypeOK PROVE [d \in Dids |-> OwnersNow(d)] \in [Dids -> SUBSET (Keys \cup Dids)]
BY OwnershipsAssumption, NamesAssumption DEF TypeOK, OwnersNow

LEMMA NoOwnersType == NoOwners \in [Dids -> SUBSET (Keys \cup Dids)]
BY DEF NoOwners

LEMMA SignedType ==
    ASSUME now \in Nat, NEW d \in Dids, NEW k \in Keys \cup {Undef}, NEW u \in {1, Millis}
    PROVE  /\ SignedIdentity(d, k, u) \in Signed /\ SignedIdentity(d, k, u).unit = u
           /\ u = 1 => SignedIdentity(d, k, u).exp = SignedIdentity(d, k, u).made + Lifetime
<1>1. u * (now + Lifetime) \in Nat
  BY TimeAssumption
<1>2. u = 1 => u * (now + Lifetime) = now + Lifetime
  BY TimeAssumption
<1> QED  BY <1>1, <1>2 DEF SignedIdentity, Signed

LEMMA AbsentNotSigned == Absent \notin Signed /\ Malformed \notin Signed
BY DEF Absent, Malformed, Signed

\* What a client may send.
LEMMA SentHeader ==
    ASSUME now \in Nat, NEW r \in Calls, Send(r)
    PROVE  \E h \in Headers : /\ header' = [header EXCEPT ![r] = h]
                              /\ h \in Signed /\ h.unit = 1 => h.exp = h.made + Lifetime
<1>1. CASE \E h \in {Absent, Malformed} : header' = [header EXCEPT ![r] = h]
  <2>1. PICK h \in {Absent, Malformed} : header' = [header EXCEPT ![r] = h]  BY <1>1
  <2> QED  BY <2>1, AbsentNotSigned DEF Headers
<1>2. CASE \E d \in Dids, k \in Keys \cup {Undef}, u \in {1, Millis} :
              header' = [header EXCEPT ![r] = SignedIdentity(d, k, u)]
  <2>1. PICK d \in Dids, k \in Keys \cup {Undef}, u \in {1, Millis} :
              header' = [header EXCEPT ![r] = SignedIdentity(d, k, u)]
    BY <1>2
  <2>2. /\ SignedIdentity(d, k, u) \in Signed /\ SignedIdentity(d, k, u).unit = u
        /\ u = 1 => SignedIdentity(d, k, u).exp = SignedIdentity(d, k, u).made + Lifetime
    BY <2>1, SignedType
  <2>3. SignedIdentity(d, k, u) \in Headers  BY <2>2 DEF Headers
  <2> QED  BY <2>1, <2>2, <2>3
<1> QED  BY <1>1, <1>2 DEF Send

LEMMA SentOperation ==
    ASSUME TypeOK, NEW r \in Calls, Send(r) PROVE op' \in [Calls -> Operations]
<1>1. \E o \in Operations : op' = [op EXCEPT ![r] = o]
  BY DEF Send, Operations
<1> QED  BY <1>1 DEF TypeOK

\* The steps, one by one.
LEMMA IdentitySteps ==
    ASSUME [Next]_identityVars,
           NEW P,
           Tick => P,
           \A d \in Dids, S \in Ownerships : SetOwnership(d, S) => P,
           \A r \in Calls : Send(r) => P,
           \A r \in Calls : Resend(r) => P,
           \A r \in Calls : Arrive(r) => P,
           \A r \in Calls : CheckExpiry(r) => P,
           \A r \in Calls : LoadOwnership(r) => P,
           \A r \in Calls : ResolveOwners(r) => P,
           \A r \in Calls : Execute(r) => P,
           UNCHANGED identityVars => P
    PROVE  P
BY DEF Next, Handle, Verify

Answers == [status : {"none", "served", "error", "page"}, requester : Dids \cup {Undef}]

LEMMA AnswersType ==
    /\ NoAnswer \in Answers /\ Failed \in Answers /\ Page \in Answers
    /\ \A d \in Dids \cup {Undef} : Served(d) \in Answers
    /\ \A o : PlainAnswer(o) \in {Failed, Page}
BY DEF NoAnswer, Failed, Page, Served, PlainAnswer, Answers

\* What each step of a request gives as its answer.
LEMMA ExecuteAnswer ==
    ASSUME NEW r \in Calls, Execute(r)
    PROVE  /\ rpc[r] = "execute" /\ UNCHANGED worldVars
           /\ \E a \in {Served(ctx[r]), Failed, Page} : Respond(r, a)
BY AnswersType DEF Execute

LEMMA TypedInit == Init => Typed
BY NoOwnersType, AnswersType
DEF Init, Typed, TypeOK, SignedFirst, Verifying, Operations, Headers, Answers

\* A request that is answered ...
LEMMA RespondTyped ==
    ASSUME Typed, NEW r \in Calls, NEW a \in Answers, Respond(r, a), UNCHANGED worldVars
    PROVE  Typed'
BY NoOwnersType DEF Typed, TypeOK, SignedFirst, Verifying, Respond, Answers

\* ... and one that is not yet.
LEMMA GotoTyped ==
    ASSUME Typed, NEW r \in Calls,
           NEW l \in {"verify", "getLatest", "resolveOwners", "execute"},
           Goto(r, l), header[r] \in Signed \/ l = "execute", UNCHANGED worldVars,
           auths' \in [Calls -> SUBSET (Keys \cup Dids)],
           ctx' \in [Calls -> Dids \cup {Undef}], arrived' \in [Calls -> Nat],
           owned' \in [Calls -> [Dids -> SUBSET (Keys \cup Dids)]],
           always' \in [Calls -> [Dids -> SUBSET (Keys \cup Dids)]]
    PROVE  Typed'
BY DEF Typed, TypeOK, SignedFirst, Verifying, Goto

LEMMA TypedStep == Typed /\ [Next]_identityVars => Typed'
<1> SUFFICES ASSUME Typed, [Next]_identityVars PROVE Typed'  OBVIOUS
<1>0. TypeOK  BY DEF Typed
<1>1. Tick => Typed'
  BY DEF Tick, Typed, TypeOK, SignedFirst, Verifying
<1>2. ASSUME NEW d \in Dids, NEW S \in Ownerships, SetOwnership(d, S) PROVE Typed'
  <2>1. S \in SUBSET (Keys \cup Dids)  BY OwnershipsAssumption
  <2>2. /\ owners' \in [Dids -> Ownerships \cup {Undef}]
        /\ UNCHANGED <<now, requestVars, arrived>>
    BY <1>0, <1>2 DEF SetOwnership, TypeOK
  <2>3. \A r \in Calls : /\ [owned[r] EXCEPT ![d] = @ \cup S] \in [Dids -> SUBSET (Keys \cup Dids)]
                            /\ [always[r] EXCEPT ![d] = @ \cap S] \in [Dids -> SUBSET (Keys \cup Dids)]
    BY <1>0, <2>1 DEF TypeOK
  <2>4. /\ owned' \in [Calls -> [Dids -> SUBSET (Keys \cup Dids)]]
        /\ always' \in [Calls -> [Dids -> SUBSET (Keys \cup Dids)]]
    BY <1>0, <1>2, <2>3 DEF SetOwnership, TypeOK
  <2> QED  BY <2>2, <2>4 DEF Typed, TypeOK, SignedFirst, Verifying
<1>3. ASSUME NEW r \in Calls, Send(r) PROVE Typed'
  <2>1. PICK h \in Headers : header' = [header EXCEPT ![r] = h]
    BY <1>0, <1>3, SentHeader DEF TypeOK
  <2>2. header' \in [Calls -> Headers] /\ op' \in [Calls -> Operations]
    BY <1>0, <1>3, <2>1, SentOperation DEF TypeOK
  <2>3. /\ rpc' = [rpc EXCEPT ![r] = "sent"] /\ answer' = [answer EXCEPT ![r] = NoAnswer]
        /\ front' \in [Calls -> {"lambda", "server"}]
        /\ UNCHANGED <<worldVars, auths, ctx, historyVars>>
    BY <1>0, <1>3 DEF Send, TypeOK
  <2>4. \A q \in Calls \ {r} : header'[q] = header[q]  BY <1>0, <2>1 DEF TypeOK
  <2> QED  BY <2>2, <2>3, <2>4, AnswersType DEF Typed, TypeOK, SignedFirst, Verifying, Answers
<1>4. ASSUME NEW r \in Calls, Resend(r) PROVE Typed'
  BY <1>4, AnswersType DEF Resend, Typed, TypeOK, SignedFirst, Verifying, Answers
<1>5. ASSUME NEW r \in Calls, Arrive(r) PROVE Typed'
  <2>1. CASE \E a \in {Failed, Page} : Respond(r, a)
    BY <1>5, <2>1, RespondTyped, AnswersType DEF Arrive
  <2>2. CASE ~\E a \in {Failed, Page} : Respond(r, a)
    <3> DEFINE l == IF header[r] = Absent THEN "execute" ELSE "verify"
               found == [d \in Dids |-> OwnersNow(d)]
    <3>1. /\ header[r] # Malformed /\ Goto(r, l) /\ UNCHANGED <<auths, ctx, worldVars>>
          /\ arrived' = [arrived EXCEPT ![r] = now]
          /\ owned' = [owned EXCEPT ![r] = found]
          /\ always' = [always EXCEPT ![r] = found]
      BY <1>5, <2>2, AnswersType DEF Arrive
    <3>2. l \in {"verify", "execute"} /\ (header[r] \in Signed \/ l = "execute")
      BY <1>0, <3>1 DEF TypeOK, Headers
    <3>3. found \in [Dids -> SUBSET (Keys \cup Dids)]  BY <1>0, OwnersNowType
    <3> HIDE DEF l, found
    <3>4. /\ arrived' \in [Calls -> Nat]
          /\ owned' \in [Calls -> [Dids -> SUBSET (Keys \cup Dids)]]
          /\ always' \in [Calls -> [Dids -> SUBSET (Keys \cup Dids)]]
          /\ auths' \in [Calls -> SUBSET (Keys \cup Dids)]
          /\ ctx' \in [Calls -> Dids \cup {Undef}]
      BY <1>0, <3>1, <3>3 DEF TypeOK
    <3> QED  BY <3>1, <3>2, <3>4, GotoTyped
  <2> QED  BY <2>1, <2>2
<1>6. ASSUME NEW r \in Calls, CheckExpiry(r) PROVE Typed'
  <2> DEFINE l == IF Expired(r) THEN "execute" ELSE "getLatest"
  <2>1. /\ rpc[r] = "verify" /\ Goto(r, l) /\ l \in {"getLatest", "execute"}
        /\ UNCHANGED <<worldVars, auths, ctx, historyVars>>
    BY <1>6 DEF CheckExpiry
  <2>2. header[r] \in Signed  BY <2>1 DEF Typed, SignedFirst, Verifying
  <2> HIDE DEF l
  <2> QED  BY <1>0, <2>1, <2>2, GotoTyped DEF TypeOK
<1>7. ASSUME NEW r \in Calls, LoadOwnership(r) PROVE Typed'
  <2>0. header[r] \in Signed /\ header[r].sub \in Dids
    BY <1>7 DEF LoadOwnership, Typed, SignedFirst, Verifying, Signed
  <2>1. CASE Respond(r, Failed)
    BY <1>7, <2>1, RespondTyped, AnswersType DEF LoadOwnership
  <2>2. CASE ~Respond(r, Failed)
    <3>1. /\ owners[header[r].sub] # Undef
          /\ auths' = [auths EXCEPT ![r] = owners[header[r].sub]]
          /\ Goto(r, "resolveOwners") /\ UNCHANGED <<worldVars, ctx, historyVars>>
      BY <1>7, <2>2 DEF LoadOwnership
    <3>2. owners[header[r].sub] \in SUBSET (Keys \cup Dids)
      BY <1>0, <2>0, <3>1, OwnershipsAssumption DEF TypeOK
    <3>3. auths' \in [Calls -> SUBSET (Keys \cup Dids)]
      BY <1>0, <3>1, <3>2 DEF TypeOK
    <3> QED  BY <1>0, <2>0, <3>1, <3>3, GotoTyped DEF TypeOK
  <2> QED  BY <2>1, <2>2
<1>8. ASSUME NEW r \in Calls, ResolveOwners(r) PROVE Typed'
  <2>0. header[r] \in Signed /\ header[r].sub \in Dids
    BY <1>8 DEF ResolveOwners, Typed, SignedFirst, Verifying, Signed
  <2>1. CASE Respond(r, Failed)
    BY <1>8, <2>1, RespondTyped, AnswersType DEF ResolveOwners
  <2>2. CASE ~Respond(r, Failed)
    <3>1. /\ \E who \in {header[r].sub, Undef} : ctx' = [ctx EXCEPT ![r] = who]
          /\ auths' = [auths EXCEPT ![r] = {}]
          /\ Goto(r, "execute") /\ UNCHANGED <<worldVars, historyVars>>
      BY <1>8, <2>2 DEF ResolveOwners, Recognise
    <3>2. ctx' \in [Calls -> Dids \cup {Undef}] /\ auths' \in [Calls -> SUBSET (Keys \cup Dids)]
      BY <1>0, <2>0, <3>1 DEF TypeOK
    <3> QED  BY <1>0, <2>0, <3>1, <3>2, GotoTyped DEF TypeOK
  <2> QED  BY <2>1, <2>2
<1>9. ASSUME NEW r \in Calls, Execute(r) PROVE Typed'
  <2>1. Served(ctx[r]) \in Answers  BY <1>0, AnswersType DEF TypeOK
  <2> QED  BY <1>9, <2>1, ExecuteAnswer, RespondTyped, AnswersType
<1>10. UNCHANGED identityVars => Typed'
  BY DEF Typed, TypeOK, SignedFirst, Verifying
<1> QED  BY <1>1, <1>2, <1>3, <1>4, <1>5, <1>6, <1>7, <1>8, <1>9, <1>10, IdentitySteps

\* Every variable keeps its type, whatever clients sign and owners change.
THEOREM IdentityTypeCorrect == Spec => []TypeOK
<1>1. Typed => TypeOK  BY DEF Typed
<1> QED  BY TypedInit, TypedStep, <1>1, PTL DEF Spec

-----------------------------------------------------------------------------
LEMMA FactsInit == Init => Facts
<1> SUFFICES ASSUME Init PROVE Facts  OBVIOUS
<1>1. \A r \in Calls : rpc[r] = "idle" /\ ctx[r] = Undef /\ header[r] \notin Signed
  BY AbsentNotSigned DEF Init
<1> QED  BY <1>1 DEF Facts, Present, Loaded, Lasts, InTime, Verified, Refused, Verifying

\* A step that only touches the request it answers: it carries nothing any more.
LEMMA RespondFacts ==
    ASSUME Typed, Facts, NEW r \in Calls, NEW a, Respond(r, a), UNCHANGED worldVars
    PROVE  Facts'
<1>1. /\ \A q \in Calls \ {r} :
           /\ rpc'[q] = rpc[q] /\ auths'[q] = auths[q] /\ ctx'[q] = ctx[q]
           /\ arrived'[q] = arrived[q] /\ owned'[q] = owned[q] /\ always'[q] = always[q]
      /\ rpc'[r] = "idle" /\ ctx'[r] = Undef /\ UNCHANGED <<header, now, owners>>
  BY DEF Respond, Typed, TypeOK
<1>2. Present'   BY <1>1 DEF Facts, Present, Verifying, OwnersNow
<1>3. Loaded'    BY <1>1 DEF Facts, Loaded
<1>4. Lasts'     BY <1>1 DEF Facts, Lasts
<1>5. InTime'    BY <1>1 DEF Facts, InTime
<1>6. Verified'  BY <1>1 DEF Facts, Verified
<1>7. Refused'   BY <1>1 DEF Facts, Refused
<1> QED  BY <1>2, <1>3, <1>4, <1>5, <1>6, <1>7 DEF Facts

\* A client that sends: the request is not verified yet, and has no context.
LEMMA SendFacts ==
    ASSUME Typed, Facts, NEW r \in Calls, Send(r) \/ Resend(r)
    PROVE  Facts'
<1>1. PICK h \in Headers : /\ header' = [header EXCEPT ![r] = h]
                           /\ h \in Signed /\ h.unit = 1 => h.exp = h.made + Lifetime
  <2>1. CASE Send(r)  BY <2>1, SentHeader DEF Typed, TypeOK
  <2>2. CASE Resend(r)
    BY <2>2 DEF Resend, Facts, Lasts, Typed, TypeOK
  <2> QED  BY <2>1, <2>2
<1>2. /\ rpc[r] = "idle" /\ rpc' = [rpc EXCEPT ![r] = "sent"]
      /\ UNCHANGED <<worldVars, auths, ctx, historyVars>>
  BY DEF Send, Resend
<1>3. ctx[r] = Undef  BY <1>2 DEF Facts, Verified
<1>4. /\ \A q \in Calls \ {r} : rpc'[q] = rpc[q] /\ header'[q] = header[q]
      /\ rpc'[r] = "sent" /\ header'[r] = h
  BY <1>1, <1>2 DEF Typed, TypeOK
<1>5. Present'   BY <1>2, <1>4 DEF Facts, Present, Verifying, OwnersNow
<1>6. Loaded'    BY <1>2, <1>4 DEF Facts, Loaded
<1>7. Lasts'     BY <1>1, <1>4 DEF Facts, Lasts
<1>8. InTime'    BY <1>2, <1>4 DEF Facts, InTime
<1>9. Verified'  BY <1>2, <1>3, <1>4 DEF Facts, Verified
<1>10. Refused'  BY <1>2, <1>4 DEF Facts, Refused
<1> QED  BY <1>5, <1>6, <1>7, <1>8, <1>9, <1>10 DEF Facts

\* Other owners: seen by the requests that are being verified, and by no other.
LEMMA OwnershipFacts ==
    ASSUME Typed, Facts, NEW d \in Dids, NEW S \in Ownerships, SetOwnership(d, S)
    PROVE  Facts'
<1>1. /\ owners' = [owners EXCEPT ![d] = S] /\ S # Undef
      /\ UNCHANGED <<now, requestVars, arrived>>
  BY NamesAssumption DEF SetOwnership
<1>2. ASSUME NEW r \in Calls, Verifying(r), NEW e \in Dids
      PROVE  /\ owned'[r][e] = IF e = d THEN owned[r][e] \cup S ELSE owned[r][e]
             /\ always'[r][e] = IF e = d THEN always[r][e] \cap S ELSE always[r][e]
  <2>1. /\ owned'[r] = [owned[r] EXCEPT ![d] = @ \cup S]
        /\ always'[r] = [always[r] EXCEPT ![d] = @ \cap S]
    BY <1>2 DEF SetOwnership
  <2>2. owned[r] \in [Dids -> SUBSET (Keys \cup Dids)] /\ always[r] \in [Dids -> SUBSET (Keys \cup Dids)]
    BY DEF Typed, TypeOK
  <2> QED  BY <2>1, <2>2
<1>3. ASSUME NEW r \in Calls, ~Verifying(r)
      PROVE  owned'[r] = owned[r] /\ always'[r] = always[r]
  BY <1>3 DEF SetOwnership
<1>4. Present'
  <2> SUFFICES ASSUME NEW r \in Calls, NEW e \in Dids, Verifying(r)
               PROVE  /\ always'[r][e] \subseteq OwnersNow(e)'
                      /\ OwnersNow(e)' \subseteq owned'[r][e]
    BY <1>1 DEF Present, Verifying
  <2>1. always[r][e] \subseteq OwnersNow(e) /\ OwnersNow(e) \subseteq owned[r][e]
    BY DEF Facts, Present
  <2>2. CASE e = d
    <3>1. OwnersNow(e)' = S  BY <1>1, <2>2 DEF OwnersNow, Typed, TypeOK
    <3> QED  BY <1>2, <2>2, <3>1
  <2>3. CASE e # d
    <3>1. OwnersNow(e)' = OwnersNow(e)  BY <1>1, <2>3 DEF OwnersNow, Typed, TypeOK
    <3> QED  BY <1>2, <2>1, <2>3, <3>1
  <2> QED  BY <2>2, <2>3
<1>5. Loaded'
  <2> SUFFICES ASSUME NEW r \in Calls, rpc[r] = "resolveOwners"
               PROVE  /\ auths[r] \subseteq owned'[r][header[r].sub]
                      /\ always'[r][header[r].sub] \subseteq auths[r]
    BY <1>1 DEF Loaded
  <2>1. Verifying(r) /\ header[r].sub \in Dids
    BY DEF Verifying, Typed, SignedFirst, Signed
  <2>2. /\ owned[r][header[r].sub] \subseteq owned'[r][header[r].sub]
        /\ always'[r][header[r].sub] \subseteq always[r][header[r].sub]
    BY <1>2, <2>1
  <2> QED  BY <2>2 DEF Facts, Loaded
<1>6. Lasts'     BY <1>1 DEF Facts, Lasts
<1>7. InTime'    BY <1>1 DEF Facts, InTime
<1>8. Verified'  BY <1>1, <1>3 DEF Facts, Verified, Verifying, OwnersIn
<1>9. Refused'   BY <1>1, <1>3 DEF Facts, Refused, Verifying, OwnersIn
<1> QED  BY <1>4, <1>5, <1>6, <1>7, <1>8, <1>9 DEF Facts

\* The verification ends: an owner is one now, and whoever owned the tree all along,
\* itself or through a graft, is found.
LEMMA ResolveFacts ==
    ASSUME Typed, Facts, NEW r \in Calls, ResolveOwners(r)
    PROVE  Facts'
<1> DEFINE sub == header[r].sub
           grafted == auths[r] \cap Dids
           addrs == (auths[r] \cup UNION {OwnersNow(d) : d \in grafted}) \cap Keys
<1>1. CASE Respond(r, Failed)
  BY <1>1, RespondFacts DEF ResolveOwners
<1>2. CASE ~Respond(r, Failed)
  <2>1. /\ rpc[r] = "resolveOwners" /\ rpc' = [rpc EXCEPT ![r] = "execute"]
        /\ ctx' = [ctx EXCEPT ![r] = IF header[r].signer \in addrs THEN sub ELSE Undef]
        /\ auths' = [auths EXCEPT ![r] = {}]
        /\ UNCHANGED <<worldVars, header, historyVars>>
    BY <1>2 DEF ResolveOwners, Goto, IsOwner, Recognise
  <2>2. header[r] \in Signed /\ sub \in Dids /\ Verifying(r) /\ sub # Undef
    BY <2>1, NamesAssumption DEF Typed, SignedFirst, Verifying, Signed
  <2>3. auths[r] \subseteq owned[r][sub] /\ always[r][sub] \subseteq auths[r]
    BY <2>1 DEF Facts, Loaded
  <2>4. \A d \in Dids : always[r][d] \subseteq OwnersNow(d) /\ OwnersNow(d) \subseteq owned[r][d]
    BY <2>2 DEF Facts, Present
  <2>5. addrs \subseteq OwnersIn(owned[r], sub)
    BY <2>3, <2>4 DEF OwnersIn
  <2>6. OwnersIn(always[r], sub) \subseteq addrs
    BY <2>3, <2>4 DEF OwnersIn
  <2> HIDE DEF addrs
  <2>7. /\ \A q \in Calls \ {r} :
             rpc'[q] = rpc[q] /\ ctx'[q] = ctx[q] /\ auths'[q] = auths[q]
        /\ rpc'[r] = "execute" /\ ctx'[r] = IF header[r].signer \in addrs THEN sub ELSE Undef
    BY <2>1 DEF Typed, TypeOK
  <2>8. Present'   BY <2>1, <2>7 DEF Facts, Present, Verifying, OwnersNow
  <2>9. Loaded'    BY <2>1, <2>7 DEF Facts, Loaded
  <2>10. Lasts'    BY <2>1 DEF Facts, Lasts
  <2>11. InTime'   BY <2>1, <2>7 DEF Facts, InTime
  <2>12. Verified'
    <3>1. ctx'[r] # Undef => /\ ctx'[r] = sub /\ header[r].signer \in OwnersIn(owned[r], sub)
                             /\ arrived[r] <= header[r].exp
      BY <2>1, <2>2, <2>5, <2>7 DEF Facts, InTime
    <3> QED  BY <2>1, <2>2, <2>7, <3>1 DEF Facts, Verified, OwnersIn
  <2>13. Refused'
    <3>1. ctx'[r] = Undef => header[r].signer \notin OwnersIn(always[r], sub)
      BY <2>2, <2>6, <2>7
    <3> QED  BY <2>1, <2>7, <3>1 DEF Facts, Refused, OwnersIn
  <2> QED  BY <2>8, <2>9, <2>10, <2>11, <2>12, <2>13 DEF Facts
<1> QED  BY <1>1, <1>2

\* A step that only moves a request, which has no context.
LEMMA GotoFacts ==
    ASSUME Typed, Facts, NEW r \in Calls, NEW l \in {"verify", "getLatest", "resolveOwners", "execute"},
           Goto(r, l), ctx[r] = Undef, UNCHANGED <<worldVars, ctx>>,
           \A q \in Calls \ {r} : /\ auths'[q] = auths[q] /\ arrived'[q] = arrived[q]
                                     /\ owned'[q] = owned[q] /\ always'[q] = always[q],
           l # "execute" => \A d \in Dids : /\ always'[r][d] \subseteq OwnersNow(d)
                                            /\ OwnersNow(d) \subseteq owned'[r][d],
           l = "verify" => arrived'[r] <= now,
           l \in {"getLatest", "resolveOwners"} => arrived'[r] <= header[r].exp,
           l = "resolveOwners" => /\ auths'[r] \subseteq owned'[r][header[r].sub]
                                  /\ always'[r][header[r].sub] \subseteq auths'[r],
           l = "execute" /\ header[r] \in Signed => now > header[r].exp
    PROVE  Facts'
<1>1. /\ \A q \in Calls \ {r} : rpc'[q] = rpc[q]
      /\ rpc'[r] = l /\ UNCHANGED <<header, now, owners, ctx>>
  BY DEF Goto, Typed, TypeOK
<1>2. Present'   BY <1>1 DEF Facts, Present, Verifying, OwnersNow
<1>3. Loaded'    BY <1>1 DEF Facts, Loaded
<1>4. Lasts'     BY <1>1 DEF Facts, Lasts
<1>5. InTime'    BY <1>1 DEF Facts, InTime
<1>6. Verified'
  <2> SUFFICES ASSUME NEW q \in Calls, ctx[q] # Undef
               PROVE  /\ rpc'[q] = "execute" /\ header[q] \in Signed /\ ctx[q] = header[q].sub
                      /\ header[q].signer \in OwnersIn(owned'[q], header[q].sub)
                      /\ arrived'[q] <= header[q].exp
    BY <1>1 DEF Verified, OwnersIn
  <2>1. q # r  OBVIOUS
  <2> QED  BY <1>1, <2>1 DEF Facts, Verified
<1>7. Refused'
  <2> SUFFICES ASSUME NEW q \in Calls, rpc'[q] = "execute", ctx[q] = Undef, header[q] \in Signed
               PROVE  \/ header[q].signer \notin OwnersIn(always'[q], header[q].sub)
                      \/ now > header[q].exp
    BY <1>1 DEF Refused, OwnersIn
  <2>1. CASE q = r  BY <1>1, <2>1
  <2>2. CASE q # r  BY <1>1, <2>2 DEF Facts, Refused
  <2> QED  BY <2>1, <2>2
<1> QED  BY <1>2, <1>3, <1>4, <1>5, <1>6, <1>7 DEF Facts

LEMMA FactsStep == Typed /\ Facts /\ [Next]_identityVars => Facts'
<1> SUFFICES ASSUME Typed, Facts, [Next]_identityVars PROVE Facts'  OBVIOUS
<1>1. ASSUME Tick PROVE Facts'
  <2>1. now' = now + 1 /\ UNCHANGED <<owners, requestVars, historyVars>>  BY <1>1 DEF Tick
  <2>2. \A r \in Calls : now \in Nat /\ arrived[r] \in Nat
                            /\ (header[r] \in Signed => header[r].exp \in Nat)
    BY DEF Typed, TypeOK, Signed
  <2>3. Present'   BY <2>1 DEF Facts, Present, OwnersNow, Verifying
  <2>4. Loaded'    BY <2>1 DEF Facts, Loaded
  <2>5. Lasts'     BY <2>1 DEF Facts, Lasts
  <2>6. InTime'    BY <2>1, <2>2 DEF Facts, InTime
  <2>7. Verified'  BY <2>1 DEF Facts, Verified, OwnersIn
  <2>8. Refused'   BY <2>1, <2>2 DEF Facts, Refused, OwnersIn
  <2> QED  BY <2>3, <2>4, <2>5, <2>6, <2>7, <2>8 DEF Facts
<1>2. \A d \in Dids, S \in Ownerships : SetOwnership(d, S) => Facts'
  BY OwnershipFacts
<1>3. \A r \in Calls : Send(r) => Facts'  BY SendFacts
<1>4. \A r \in Calls : Resend(r) => Facts'  BY SendFacts
<1>5. ASSUME NEW r \in Calls, Arrive(r) PROVE Facts'
  <2>1. CASE \E a \in {Failed, Page} : Respond(r, a)
    BY <1>5, <2>1, RespondFacts DEF Arrive
  <2>2. CASE ~\E a \in {Failed, Page} : Respond(r, a)
    <3> DEFINE l == IF header[r] = Absent THEN "execute" ELSE "verify"
    <3>1. /\ rpc[r] = "sent" /\ Goto(r, l) /\ UNCHANGED <<auths, ctx, worldVars>>
          /\ arrived' = [arrived EXCEPT ![r] = now]
          /\ owned' = [owned EXCEPT ![r] = [d \in Dids |-> OwnersNow(d)]]
          /\ always' = [always EXCEPT ![r] = [d \in Dids |-> OwnersNow(d)]]
      BY <1>5, <2>2, AnswersType DEF Arrive
    <3>2. /\ \A d \in Dids : always'[r][d] = OwnersNow(d) /\ owned'[r][d] = OwnersNow(d)
          /\ arrived'[r] = now /\ now \in Nat
          /\ \A q \in Calls \ {r} : /\ auths'[q] = auths[q] /\ arrived'[q] = arrived[q]
                                       /\ owned'[q] = owned[q] /\ always'[q] = always[q]
      BY <3>1 DEF Typed, TypeOK
    <3>3. ctx[r] = Undef  BY <3>1 DEF Facts, Verified
    <3>4. l \in {"verify", "execute"} /\ (l = "execute" => header[r] \notin Signed)
      BY AbsentNotSigned
    <3> HIDE DEF l
    <3> QED  BY <3>1, <3>2, <3>3, <3>4, GotoFacts
  <2> QED  BY <2>1, <2>2
<1>6. ASSUME NEW r \in Calls, CheckExpiry(r) PROVE Facts'
  <2> DEFINE l == IF Expired(r) THEN "execute" ELSE "getLatest"
  <2>1. /\ rpc[r] = "verify" /\ Goto(r, l)
        /\ UNCHANGED <<worldVars, auths, ctx, historyVars>>
    BY <1>6 DEF CheckExpiry
  <2>2. header[r] \in Signed /\ header[r].exp \in Nat /\ Verifying(r)
    BY <2>1 DEF Typed, SignedFirst, Signed, Verifying
  <2>3. ctx[r] = Undef /\ arrived[r] <= now /\ arrived[r] \in Nat /\ now \in Nat
    BY <2>1 DEF Facts, Verified, InTime, Typed, TypeOK
  <2>4. \A d \in Dids : always[r][d] \subseteq OwnersNow(d) /\ OwnersNow(d) \subseteq owned[r][d]
    BY <2>2 DEF Facts, Present
  <2>5. /\ l \in {"getLatest", "execute"} /\ (l = "execute" => now > header[r].exp)
        /\ l = "getLatest" => arrived[r] <= header[r].exp
    BY <2>2, <2>3 DEF Expired
  <2> HIDE DEF l
  <2> QED  BY <2>1, <2>3, <2>4, <2>5, GotoFacts
<1>7. ASSUME NEW r \in Calls, LoadOwnership(r) PROVE Facts'
  <2>1. CASE Respond(r, Failed)
    BY <1>7, <2>1, RespondFacts DEF LoadOwnership
  <2>2. CASE ~Respond(r, Failed)
    <3>1. /\ rpc[r] = "getLatest" /\ owners[header[r].sub] # Undef
          /\ auths' = [auths EXCEPT ![r] = owners[header[r].sub]]
          /\ Goto(r, "resolveOwners") /\ UNCHANGED <<worldVars, ctx, historyVars>>
      BY <1>7, <2>2 DEF LoadOwnership
    <3>2. header[r].sub \in Dids /\ Verifying(r)
      BY <3>1 DEF Typed, SignedFirst, Signed, Verifying
    <3>3. \A d \in Dids : always[r][d] \subseteq OwnersNow(d) /\ OwnersNow(d) \subseteq owned[r][d]
      BY <3>2 DEF Facts, Present
    <3>4. /\ auths'[r] = OwnersNow(header[r].sub) /\ \A q \in Calls \ {r} : auths'[q] = auths[q]
      BY <3>1 DEF OwnersNow, Typed, TypeOK
    <3>5. ctx[r] = Undef /\ arrived[r] <= header[r].exp
      BY <3>1 DEF Facts, Verified, InTime
    <3> QED  BY <3>1, <3>2, <3>3, <3>4, <3>5, GotoFacts
  <2> QED  BY <2>1, <2>2
<1>8. \A r \in Calls : ResolveOwners(r) => Facts'  BY ResolveFacts
<1>9. \A r \in Calls : Execute(r) => Facts'  BY ExecuteAnswer, RespondFacts
<1>10. UNCHANGED identityVars => Facts'
  BY DEF Facts, Present, Loaded, Lasts, InTime, Verified, Refused, Verifying, OwnersNow, OwnersIn
<1> QED  BY <1>1, <1>2, <1>3, <1>4, <1>5, <1>6, <1>7, <1>8, <1>9, <1>10, IdentitySteps

LEMMA IdentityInvariant == Spec => [](Typed /\ Facts)
<1>1. Init => Typed /\ Facts  BY TypedInit, FactsInit
<1>2. Typed /\ Facts /\ [Next]_identityVars => (Typed /\ Facts)'
  BY TypedStep, FactsStep
<1> QED  BY <1>1, <1>2, PTL DEF Spec

-----------------------------------------------------------------------------
\* An answer is given on arrival, by the verification or when the schema is executed,
\* and only then is there one with an identity.
LEMMA AnsweredBy ==
    ASSUME Typed, [Next]_identityVars, NEW r \in Calls, Answered(r)
    PROVE  \/ Arrive(r) /\ answer'[r] \in {Failed, Page}
           \/ LoadOwnership(r) /\ rpc[r] = "getLatest" /\ answer'[r] = Failed
           \/ ResolveOwners(r) /\ rpc[r] = "resolveOwners" /\ answer'[r] = Failed
           \/ Execute(r) /\ rpc[r] = "execute" /\ answer'[r] \in {Served(ctx[r]), Failed, Page}
<1> DEFINE P == \/ Arrive(r) /\ answer'[r] \in {Failed, Page}
                \/ LoadOwnership(r) /\ rpc[r] = "getLatest" /\ answer'[r] = Failed
                \/ ResolveOwners(r) /\ rpc[r] = "resolveOwners" /\ answer'[r] = Failed
                \/ Execute(r) /\ rpc[r] = "execute" /\ answer'[r] \in {Served(ctx[r]), Failed, Page}
<1>0. answer'[r] # answer[r] /\ answer'[r] # NoAnswer /\ answer \in [Calls -> Answers]
  BY DEF Answered, Typed, TypeOK, Answers
<1>00. ASSUME NEW q \in Calls, NEW a, Respond(q, a) PROVE q = r /\ answer'[r] = a
  BY <1>0, <1>00 DEF Respond
<1>1. Tick => P  BY <1>0 DEF Tick
<1>2. \A d \in Dids, S \in Ownerships : SetOwnership(d, S) => P
  BY <1>0 DEF SetOwnership
<1>3. \A q \in Calls : Send(q) => P  BY <1>0 DEF Send
<1>4. \A q \in Calls : Resend(q) => P  BY <1>0 DEF Resend
<1>5. ASSUME NEW q \in Calls, Arrive(q) PROVE P
  <2>1. \E a \in {Failed, Page} : Respond(q, a)
    BY <1>0, <1>5, AnswersType DEF Arrive, Goto
  <2> QED  BY <1>00, <1>5, <2>1
<1>6. \A q \in Calls : CheckExpiry(q) => P  BY <1>0 DEF CheckExpiry, Goto
<1>7. ASSUME NEW q \in Calls, LoadOwnership(q) PROVE P
  <2>1. rpc[q] = "getLatest" /\ Respond(q, Failed)  BY <1>0, <1>7 DEF LoadOwnership, Goto
  <2> QED  BY <1>00, <1>7, <2>1
<1>8. ASSUME NEW q \in Calls, ResolveOwners(q) PROVE P
  <2>1. rpc[q] = "resolveOwners" /\ Respond(q, Failed)  BY <1>0, <1>8 DEF ResolveOwners, Goto
  <2> QED  BY <1>00, <1>8, <2>1
<1>9. ASSUME NEW q \in Calls, Execute(q) PROVE P
  <2>1. PICK a \in {Served(ctx[q]), Failed, Page} : Respond(q, a)  BY <1>9, ExecuteAnswer
  <2>2. rpc[q] = "execute" /\ q = r /\ answer'[r] = a  BY <1>00, <1>9, <2>1, ExecuteAnswer
  <2> QED  BY <1>9, <2>2
<1>10. UNCHANGED identityVars => P  BY <1>0
<1> HIDE DEF P
<1>11. P
  BY <1>1, <1>2, <1>3, <1>4, <1>5, <1>6, <1>7, <1>8, <1>9, <1>10, IdentitySteps
<1> QED  BY <1>11 DEF P

LEMMA ServedVerified ==
    ASSUME Typed, Facts, [Next]_identityVars, NEW r \in Calls, NEW d \in Dids,
           ServedAs(r, d)
    PROVE  /\ header[r] \in Signed /\ header[r].sub = d
           /\ header[r].signer \in OwnersIn(owned[r], d) /\ arrived[r] <= header[r].exp
<1>1. Answered(r) /\ answer'[r] = Served(d) /\ Served(d) # Failed /\ Served(d) # Page
  BY DEF ServedAs, Served, Failed, Page
<1>2. Served(d) = Served(ctx[r])  BY <1>1, AnsweredBy
<1>3. ctx[r] = d /\ d # Undef  BY <1>2, NamesAssumption DEF Served
<1> QED  BY <1>3 DEF Facts, Verified

\* A request is executed as somebody only if one of their owners signed it: an owner
\* at some moment since it came in, of the tree or of one it is grafted from.
THEOREM OwnersVouch == Spec => OwnerVouched
<1>1. Typed /\ Facts /\ [Next]_identityVars =>
        [\A r \in Calls, d \in Dids : ServedAs(r, d) =>
            /\ header[r].sub = d
            /\ header[r].signer \in OwnersIn(owned[r], d)]_identityVars
  BY ServedVerified
<1> QED  BY <1>1, IdentityInvariant, PTL DEF Spec, OwnerVouched

\* An identity whose time to expire is in seconds lasts as long as its client meant.
THEOREM IdentitiesExpire == Spec => Expires
<1>1. Typed /\ Facts /\ [Next]_identityVars =>
        [\A r \in Calls, d \in Dids : ServedAs(r, d) /\ header[r].unit = 1 =>
            arrived[r] <= header[r].made + Lifetime]_identityVars
  BY ServedVerified DEF Facts, Lasts
<1> QED  BY <1>1, IdentityInvariant, PTL DEF Spec, Expires

\* While no call fails, who owns the tree throughout is served as themselves.
THEOREM OwnersRecognised == ASSUME Faults = {} PROVE Spec => Recognised
<1> DEFINE Asks(r) == /\ op[r] = "query" \/ (op[r] = "identityToken" /\ front[r] = "lambda")
                      /\ IsSigned(header[r]) /\ OwnsThroughout(r) /\ now <= header[r].exp
<1>1. ASSUME Typed, Facts, [Next]_identityVars, NEW r \in Calls, Answered(r), Asks(r)
      PROVE  answer'[r] = Served(header[r].sub)
  <2> DEFINE sub == header[r].sub
             grafted == auths[r] \cap Dids
  <2>1. header[r] \in Signed /\ header[r] # Malformed /\ sub \in Dids
        /\ header[r].exp \in Nat /\ now \in Nat
    BY <1>1 DEF Typed, TypeOK, Headers, IsSigned, Signed
  <2>2. header[r].signer \in OwnersIn(always[r], sub)
        /\ \A d \in owned[r][sub] \cap Dids : always[r][d] # {}
    BY <1>1 DEF OwnsThroughout
  <2>3. Verifying(r) => \A d \in Dids : always[r][d] \subseteq OwnersNow(d)
    BY <1>1 DEF Facts, Present
  <2>4. ~ (Arrive(r) /\ answer'[r] \in {Failed, Page})
    <3>1. ~AtOnce(r)  BY <1>1 DEF AtOnce
    <3>2. Arrive(r) => Goto(r, IF header[r] = Absent THEN "execute" ELSE "verify")
      BY <2>1, <3>1 DEF Arrive
    <3> QED  BY <1>1, <3>2 DEF Goto, Answered
  <2>5. ~ (LoadOwnership(r) /\ rpc[r] = "getLatest" /\ answer'[r] = Failed)
    <3> SUFFICES ASSUME LoadOwnership(r), rpc[r] = "getLatest" PROVE answer'[r] = answer[r]
      BY <1>1 DEF Answered
    <3>1. always[r][sub] # {}  BY <2>2 DEF OwnersIn
    <3>2. owners[sub] # Undef  BY <2>1, <2>3, <3>1 DEF OwnersNow, Verifying
    <3> QED  BY <3>2 DEF LoadOwnership, Goto
  <2>6. ~ (ResolveOwners(r) /\ rpc[r] = "resolveOwners" /\ answer'[r] = Failed)
    <3> SUFFICES ASSUME ResolveOwners(r), rpc[r] = "resolveOwners" PROVE answer'[r] = answer[r]
      BY <1>1 DEF Answered
    <3>1. grafted \subseteq owned[r][sub] \cap Dids  BY <1>1 DEF Facts, Loaded
    <3>2. \A d \in grafted : owners[d] # Undef
      BY <2>2, <2>3, <3>1 DEF OwnersNow, Verifying
    <3> QED  BY <3>2 DEF ResolveOwners, Goto
  <2>7. CASE Execute(r) /\ rpc[r] = "execute"
    <3>1. ctx[r] # Undef  BY <1>1, <2>1, <2>2, <2>7 DEF Facts, Refused
    <3>2. ctx[r] = sub  BY <1>1, <3>1 DEF Facts, Verified
    <3>3. Respond(r, Served(ctx[r]))  BY <1>1, <2>7 DEF Execute
    <3> QED  BY <1>1, <3>2, <3>3 DEF Respond, Typed, TypeOK
  <2> QED  BY <1>1, <2>4, <2>5, <2>6, <2>7, AnsweredBy
<1>2. Typed /\ Facts /\ [Next]_identityVars =>
        [\A r \in Calls :
            /\ Answered(r)
            /\ op[r] = "query" \/ (op[r] = "identityToken" /\ front[r] = "lambda")
            /\ IsSigned(header[r]) /\ OwnsThroughout(r) /\ now <= header[r].exp
            => answer'[r] = Served(header[r].sub)]_identityVars
  BY <1>1
<1> QED  BY <1>2, IdentityInvariant, PTL DEF Spec, Recognised


-----------------------------------------------------------------------------
(***************************************************************************)
(* Service implements Identity: writes of the trees are changes of owners. *)
(***************************************************************************)
LEMMA MaxIsMember ==
    ASSUME NEW n \in Nat, NEW S, S \subseteq 1 .. n, S # {}
    PROVE  R!Max(S) \in S
<1> DEFINE T == {k \in Nat : n - k \in S}
<1>1. T \subseteq Nat /\ T # {}
  <2>1. PICK i \in S : TRUE  OBVIOUS
  <2>2. n - i \in Nat /\ n - (n - i) = i  BY <2>1
  <2> QED  BY <2>1, <2>2
<1>2. PICK k \in T : \A y \in T : ~ (<<y, k>> \in OpToRel(<, Nat))
  <2> HIDE DEF T
  <2> QED  BY <1>1, NatLessThanWellFounded, WFMin
<1>3. \A y \in T : ~ (y < k)
  BY <1>1, <1>2 DEF OpToRel
<1>4. n - k \in S /\ \A j \in S : n - k >= j
  <2>1. \A j \in S : j \in Nat /\ n - j \in T  OBVIOUS
  <2>2. k \in Nat /\ n - k \in S  OBVIOUS
  <2> HIDE DEF T
  <2> QED  BY <1>1, <1>3, <2>1, <2>2
<1> QED  BY <1>4 DEF R!Max

\* The last of some blocks of a tree is a block.
LEMMA LastIsBlock ==
    ASSUME NEW tip \in Seq(Blocks), NEW W, W \subseteq DOMAIN tip, W # {}
    PROVE  R!LastOf(tip, W) \in Blocks /\ R!Max(W) \in W
<1>1. Len(tip) \in Nat /\ W \subseteq 1 .. Len(tip)  OBVIOUS
<1>2. R!Max(W) \in W  BY <1>1, MaxIsMember
<1> QED  BY <1>1, <1>2 DEF R!LastOf

TipsTyped == tips \in [Dids -> Seq(Blocks) \cup {Undef}]

LEMMA OwnersKnown ==
    ASSUME NEW d \in Dids, NEW tip \in Seq(Blocks) PROVE R!OwnersAt(d, tip) \in Ownerships
<1> DEFINE W == {i \in DOMAIN tip : tip[i].owners # {}}
<1>1. CASE W = {}
  BY <1>1, OwnershipsCover DEF R!OwnersAt
<1>2. CASE W # {}
  <2>1. R!LastOf(tip, W) \in Blocks /\ R!Max(W) \in W
    <3>1. W \subseteq DOMAIN tip  OBVIOUS
    <3> HIDE DEF W
    <3> QED  BY <1>2, <3>1, LastIsBlock
  <2>2. R!LastOf(tip, W).owners # {}  BY <2>1 DEF R!LastOf
  <2> QED  BY <1>2, <2>1, <2>2, OwnershipsCover DEF R!OwnersAt
<1> QED  BY <1>1, <1>2

LEMMA WriteTips ==
    ASSUME TipsTyped, NEW d \in Dids, NEW b \in Blocks, Write(d, b)
    PROVE  \E tip \in Seq(Blocks) : /\ tips' = [tips EXCEPT ![d] = tip]
                                    /\ SetOwnership(d, R!OwnersAt(d, tip))
<1> DEFINE prev == R!ChainOf(tips[d])
<1>1. prev \in Seq(Blocks)
  BY DEF R!ChainOf, TipsTyped
<1>2. Append(prev, b) \in Seq(Blocks)  BY <1>1
<1> QED  BY <1>2 DEF Write

\* The steps of a request that do not touch the trees.
LEMMA TreesLeftAlone ==
    ASSUME [ServiceNext]_serviceVars
    PROVE  UNCHANGED tips \/ \E d \in Dids, b \in Blocks : Write(d, b)
BY DEF ServiceNext, serviceVars, treeVars, Resolve, Deliver, Otherwise

LEMMA TipsStep ==
    TipsTyped /\ [ServiceNext]_serviceVars => TipsTyped'
<1> SUFFICES ASSUME TipsTyped, [ServiceNext]_serviceVars
             PROVE  TipsTyped'
  OBVIOUS
<1>1. ASSUME NEW tip \in Seq(Blocks), NEW d \in Dids, tips' = [tips EXCEPT ![d] = tip]
      PROVE  TipsTyped'
  BY <1>1 DEF TipsTyped
<1>2. UNCHANGED tips => TipsTyped'  BY DEF TipsTyped
<1> QED  BY <1>1, <1>2, WriteTips, TreesLeftAlone

LEMMA ServiceStep ==
    ASSUME TipsTyped, [ServiceNext]_serviceVars
    PROVE  [Next]_identityVars
<1>1. ASSUME NEW d \in Dids, NEW b \in Blocks, Write(d, b) PROVE Next
  BY <1>1, WriteTips, OwnersKnown DEF Next
<1>2. ASSUME NEW r \in Calls, Resolve(r) \/ Deliver(r) \/ Otherwise(r)
      PROVE  [Next]_identityVars
  BY <1>2 DEF Resolve, Deliver, Otherwise, Next, Handle
<1>3. Tick => Next  BY DEF Next
<1>4. UNCHANGED serviceVars => UNCHANGED identityVars  BY DEF serviceVars
<1> QED  BY <1>1, <1>2, <1>3, <1>4 DEF ServiceNext

LEMMA TipsInvariant == ServiceSpec => []TipsTyped
<1>1. ServiceInit => TipsTyped
  BY DEF ServiceInit, R!ReaderInit, R!Init, TipsTyped
<1> QED  BY <1>1, TipsStep, PTL DEF ServiceSpec

\* The service implements Identity, with the ownerships of the trees it writes: what
\* Identity promises whatever owners do, it promises when they change as blocks do.
THEOREM ServiceImplementsIdentity == ServiceSpec => Spec
<1>1. ServiceInit => Init  BY DEF ServiceInit
<1> QED  BY <1>1, TipsInvariant, ServiceStep, PTL DEF ServiceSpec, Spec

-----------------------------------------------------------------------------
(***************************************************************************)
(* What Resolve does for a request, with the identity of its context.      *)
(***************************************************************************)
\* A policy that shows the tree to itself decides by the requester alone.
LEMMA SelfOnlyDecides ==
    ASSUME NEW node \in R!PolicyNodes, node.read = "selfOnly",
           NEW d, NEW who, NEW holder, NEW other
    PROVE  /\ R!ReadValidator(node, R!ReadInputOf(d, who, holder, other)) = "valid" => who = d
           /\ R!ReadValidator(node, R!ReadInputOf(d, who, holder, other)) = "invalid" => who # d
<1> DEFINE input == R!ReadInputOf(d, who, holder, other)
<1>1. input.self = (who = d)
  BY DEF R!ReadInputOf, R!InputOf
<1> HIDE DEF input
<1>2. node.kind = "map"
  BY DEF R!PolicyNodes, R!Empty, R!NotMap, R!PolicyMap
<1>3. \A paths : R!AllowOf("selfOnly", input, paths) = IF who = d THEN "true" ELSE "false"
  BY <1>1 DEF R!AllowOf
<1> DEFINE p == R!PolicyFromTree(node, R!ReadPolicy)
<1>4. p.status = "ok" => p.query.allow = "selfOnly" /\ p.query # R!NoQuery
  BY <1>2 DEF R!PolicyFromTree, R!Rejected, R!ReadPolicy, R!NoQuery
<1>5. \/ p.status # "ok" /\ p.status \in {"error", "panic"}
      \/ p.status = "ok"
  BY <1>2 DEF R!PolicyFromTree, R!Rejected
<1> HIDE DEF p
<1>6. ASSUME p.status = "ok", NEW paths
      PROVE  R!AllowResult(p.query, input, paths) = IF who = d THEN "valid" ELSE "invalid"
  BY <1>3, <1>4, <1>6 DEF R!AllowResult
<1>7. ASSUME p.status = "ok"
      PROVE  R!PolicyValidator(p.query, p.hasWants, input) \in
                {"error", "panic", IF who = d THEN "valid" ELSE "invalid"}
  BY <1>6, <1>7 DEF R!PolicyValidator, R!Reevaluate
<1>8. R!ReadValidator(node, input) \in {"error", "panic", IF who = d THEN "valid" ELSE "invalid"}
  BY <1>4, <1>5, <1>7 DEF R!ReadValidator, R!Evaluate, p
<1> QED  BY <1>8 DEF input

LEMMA PoliciesKnown == ASSUME NEW tip \in Seq(Blocks) PROVE R!PoliciesAt(tip) \in R!PolicyNodes
<1> DEFINE W == {i \in DOMAIN tip : tip[i].writesPolicy}
<1>1. CASE W = {}
  BY <1>1 DEF R!PoliciesAt, R!Empty, R!PolicyNodes
<1>2. CASE W # {}
  <2>1. R!LastOf(tip, W) \in Blocks
    <3>1. W \subseteq DOMAIN tip  OBVIOUS
    <3> HIDE DEF W
    <3> QED  BY <1>2, <3>1, LastIsBlock
  <2>2. R!LastOf(tip, W).policies \in R!PolicyNodes
    BY <2>1, WritesAssumption DEF R!BlockShape
  <2> QED  BY <1>2, <2>2 DEF R!PoliciesAt
<1> QED  BY <1>1, <1>2

ReadSteps == {"idle", "getLatest", "checkGlobal", "validate", "resolve"}

ReadTyped ==
    /\ rstep \in [Calls -> ReadSteps] /\ asked \in [Calls -> Dids \cup {R!SomeDid}]
    /\ requester \in [Calls -> Dids \cup {Undef}]
    /\ latest \in [Calls -> Seq(Blocks) \cup {Undef}]
    /\ given \in [Calls -> {R!NoAnswer, R!Nothing, R!Failed} \cup {R!ValueOf(t) : t \in Seq(Blocks)}]

\* A request leaves the others alone.
LEMMA RequestsApart ==
    ASSUME TypeOK, NEW q \in Calls, Send(q) \/ Resend(q) \/ Handle(q), NEW r \in Calls \ {q}
    PROVE  rpc'[r] = rpc[r] /\ op'[r] = op[r] /\ ctx'[r] = ctx[r]
<1>1. ASSUME NEW l, Goto(q, l) PROVE rpc'[r] = rpc[r] /\ op'[r] = op[r]
  BY <1>1 DEF Goto, TypeOK
<1>2. ASSUME NEW a, Respond(q, a) PROVE rpc'[r] = rpc[r] /\ op'[r] = op[r] /\ ctx'[r] = ctx[r]
  BY <1>2 DEF Respond, TypeOK
<1>3. CASE Send(q)
  <2>1. PICK o \in Operations : op' = [op EXCEPT ![q] = o]
    BY <1>3 DEF Send, Operations
  <2> QED  BY <1>3, <2>1 DEF Send, TypeOK
<1>4. CASE Resend(q)  BY <1>4 DEF Resend, TypeOK
<1>5. CASE Arrive(q)  BY <1>1, <1>2, <1>5 DEF Arrive
<1>6. CASE CheckExpiry(q)  BY <1>1, <1>6 DEF CheckExpiry
<1>7. CASE LoadOwnership(q)  BY <1>1, <1>2, <1>7 DEF LoadOwnership
<1>8. CASE ResolveOwners(q)
  <2>1. ASSUME NEW c, ctx' = [ctx EXCEPT ![q] = c] PROVE ctx'[r] = ctx[r]  BY <2>1 DEF TypeOK
  <2> QED  BY <1>1, <1>2, <1>8, <2>1 DEF ResolveOwners
<1>9. CASE Execute(q)  BY <1>2, <1>9 DEF Execute
<1> QED  BY <1>3, <1>4, <1>5, <1>6, <1>7, <1>8, <1>9 DEF Handle, Verify

\* What a request that reads does next: it ends with an answer, or goes on.
Concludes(r, verdict) ==
    \E other : R!ReadValidator(R!PoliciesAt(latest[r]),
                  R!ReadInputOf(asked[r], requester[r], latest[r], other)) = verdict

LEMMA ReadingMoves ==
    ASSUME ReadTyped, NEW r \in Calls, R!Reading(r)
    PROVE  \/ R!AnswerWith(r, R!Failed) /\ rstep[r] # "idle"
           \/ /\ R!AnswerWith(r, R!Nothing)
              /\ rstep[r] = "getLatest" \/ (rstep[r] = "validate" /\ Concludes(r, "invalid"))
           \/ R!AnswerWith(r, R!ValueOf(latest[r])) /\ rstep[r] = "resolve"
           \/ /\ rstep[r] = "getLatest" /\ R!Proceed(r, "checkGlobal")
              /\ tips[asked[r]] # Undef /\ latest' = [latest EXCEPT ![r] = tips[asked[r]]]
           \/ rstep[r] = "checkGlobal" /\ R!Proceed(r, "validate") /\ UNCHANGED latest
           \/ /\ rstep[r] = "validate" /\ R!Proceed(r, "resolve") /\ UNCHANGED latest
              /\ Concludes(r, "valid")
<1>0. rstep[r] \in ReadSteps  BY DEF ReadTyped
<1>1. CASE R!GetLatest(r)  BY <1>1 DEF R!GetLatest
<1>2. CASE R!CheckGlobalReadPolicy(r)
  <2>1. Running["server"].globalReadPolicy = R!NoQuery
    BY DEF Running, R!NoQuery, NoQuery
  <2> QED  BY <1>2, <2>1 DEF R!CheckGlobalReadPolicy
<1>3. ~R!LoadGlobalReadPolicy(r) /\ ~R!EvaluateGlobalReadPolicy(r)
  BY <1>0 DEF ReadSteps, R!LoadGlobalReadPolicy, R!EvaluateGlobalReadPolicy
<1>4. CASE R!ValidateRead(r)
  <2>1. CASE R!MayMiss(asked[r], latest[r]) /\ R!AnswerWith(r, R!Failed)
    BY <1>4, <2>1 DEF R!ValidateRead
  <2>2. CASE ~(R!MayMiss(asked[r], latest[r]) /\ R!AnswerWith(r, R!Failed))
    <3>1. PICK other \in R!LatestOther :
             R!Conclude(r, R!ReadValidator(R!PoliciesAt(latest[r]),
                              R!ReadInputOf(asked[r], requester[r], latest[r], other)), "resolve")
      BY <1>4, <2>2 DEF R!ValidateRead, R!ReadOn
    <3> QED  BY <1>4, <3>1 DEF R!Conclude, R!ValidateRead, Concludes
  <2> QED  BY <2>1, <2>2
<1>5. CASE R!Resolve(r)  BY <1>5 DEF R!Resolve
<1> QED  BY <1>1, <1>2, <1>3, <1>4, <1>5 DEF R!Reading

\* A step of one reader leaves the others alone.
Elsewhere(r) == \A q \in Calls \ {r} : /\ rstep'[q] = rstep[q] /\ asked'[q] = asked[q]
                                       /\ requester'[q] = requester[q] /\ latest'[q] = latest[q]
                                       /\ given'[q] = given[q]

LEMMA ReaderStep ==
    ASSUME ReadTyped, NEW r \in Calls
    PROVE  /\ \A l \in ReadSteps : R!Proceed(r, l) /\ latest' \in [Calls -> Seq(Blocks) \cup {Undef}] =>
                /\ ReadTyped' /\ rstep'[r] = l
                /\ UNCHANGED <<asked, requester, given>>
                /\ (\A q \in Calls \ {r} : latest'[q] = latest[q]) => Elsewhere(r)
           /\ \A a \in {R!NoAnswer, R!Nothing, R!Failed} \cup {R!ValueOf(t) : t \in Seq(Blocks)} :
                R!AnswerWith(r, a) =>
                /\ ReadTyped' /\ rstep'[r] = "idle" /\ latest'[r] = Undef /\ given'[r] = a
                /\ Elsewhere(r)
           /\ \A d \in Dids, who \in Dids \cup {Undef} : R!Ask(r, d, who) =>
                /\ ReadTyped' /\ rstep[r] = "idle" /\ rstep'[r] = "getLatest" /\ UNCHANGED latest
                /\ asked'[r] = d /\ requester'[r] = who /\ given'[r] = R!NoAnswer
                /\ Elsewhere(r)
<1>1. ASSUME NEW l \in ReadSteps, R!Proceed(r, l), latest' \in [Calls -> Seq(Blocks) \cup {Undef}]
      PROVE  /\ ReadTyped' /\ rstep'[r] = l
             /\ UNCHANGED <<asked, requester, given>>
             /\ (\A q \in Calls \ {r} : latest'[q] = latest[q]) => Elsewhere(r)
  BY <1>1 DEF R!Proceed, ReadTyped, Elsewhere
<1>2. ASSUME NEW a \in {R!NoAnswer, R!Nothing, R!Failed} \cup {R!ValueOf(t) : t \in Seq(Blocks)},
             R!AnswerWith(r, a)
      PROVE  /\ ReadTyped' /\ rstep'[r] = "idle" /\ latest'[r] = Undef /\ given'[r] = a
             /\ Elsewhere(r)
  BY <1>2 DEF R!AnswerWith, ReadTyped, ReadSteps, Elsewhere
<1>3. ASSUME NEW d \in Dids, NEW who \in Dids \cup {Undef}, R!Ask(r, d, who)
      PROVE  /\ ReadTyped' /\ rstep[r] = "idle" /\ rstep'[r] = "getLatest" /\ UNCHANGED latest
             /\ asked'[r] = d /\ requester'[r] = who /\ given'[r] = R!NoAnswer
             /\ Elsewhere(r)
  BY <1>3 DEF R!Ask, ReadTyped, ReadSteps, Elsewhere
<1> QED  BY <1>1, <1>2, <1>3

\* A request that reads does so for the identity it was verified to be from, and what
\* a tree shows only to itself is read for that tree.
Kept(r) ==
    /\ rstep[r] # "idle" => /\ IsQuery(r) /\ requester[r] = ctx[r] /\ asked[r] \in Dids
                            /\ given[r] = R!NoAnswer
    /\ rstep[r] \in {"idle", "getLatest"} => latest[r] = Undef
    /\ rstep[r] \in {"checkGlobal", "validate", "resolve"} => latest[r] \in Seq(Blocks)
    /\ rstep[r] = "resolve" /\ R!PoliciesAt(latest[r]).read = "selfOnly"
          => requester[r] = asked[r]

ReadFor == \A r \in Calls : Kept(r)

LEMMA ReadInit == ServiceInit => ReadTyped /\ ReadFor
BY DEF ServiceInit, R!ReaderInit, ReadTyped, ReadFor, ReadSteps, Kept

\* A reader that is left alone, in a request that is.
LEMMA KeptApart ==
    ASSUME NEW r \in Calls, Kept(r),
           rstep'[r] = rstep[r], asked'[r] = asked[r], requester'[r] = requester[r],
           latest'[r] = latest[r], given'[r] = given[r],
           rstep[r] # "idle" => rpc'[r] = rpc[r] /\ op'[r] = op[r] /\ ctx'[r] = ctx[r]
    PROVE  Kept(r)'
<1>1. (R!PoliciesAt(latest[r]).read = "selfOnly")' <=> R!PoliciesAt(latest[r]).read = "selfOnly"
  BY DEF R!PoliciesAt, R!LastOf, R!Max, R!Empty, R!PolicyMap
<1> QED  BY <1>1 DEF Kept, IsQuery

\* The steps of Resolve.
LEMMA ResolveStep ==
    ASSUME TypeOK, TipsTyped, ReadTyped, ReadFor, NEW r \in Calls, Resolve(r)
    PROVE  ReadTyped' /\ ReadFor' /\ Elsewhere(r)
<1>0. /\ UNCHANGED <<rpc, op, ctx, tips>> /\ IsQuery(r) /\ Kept(r)
      /\ ctx[r] \in Dids \cup {Undef} /\ latest[r] \in Seq(Blocks) \cup {Undef}
      /\ latest \in [Calls -> Seq(Blocks) \cup {Undef}] /\ rstep[r] \in ReadSteps
  BY DEF Resolve, identityVars, requestVars, treeVars, ReadFor, TypeOK, ReadTyped
<1>1. ASSUME Elsewhere(r), Kept(r)' PROVE ReadFor'
  <2> SUFFICES ASSUME NEW q \in Calls, q # r PROVE Kept(q)'  BY <1>1 DEF ReadFor
  <2> QED  BY <1>0, <1>1, KeptApart DEF Elsewhere, ReadFor
<1>2. ASSUME NEW d \in Dids, given[r] = R!NoAnswer, R!Ask(r, d, ctx[r])
      PROVE  ReadTyped' /\ ReadFor' /\ Elsewhere(r)
  <2>1. /\ ReadTyped' /\ rstep[r] = "idle" /\ rstep'[r] = "getLatest" /\ UNCHANGED latest
        /\ asked'[r] = d /\ requester'[r] = ctx[r] /\ given'[r] = R!NoAnswer /\ Elsewhere(r)
    BY <1>0, <1>2, ReaderStep
  <2>2. Kept(r)'  BY <1>0, <2>1 DEF Kept, IsQuery
  <2> QED  BY <1>1, <2>1, <2>2
<1>3. ASSUME NEW a \in {R!NoAnswer, R!Nothing, R!Failed} \cup {R!ValueOf(t) : t \in Seq(Blocks)},
             R!AnswerWith(r, a)
      PROVE  ReadTyped' /\ ReadFor' /\ Elsewhere(r)
  <2>1. /\ ReadTyped' /\ rstep'[r] = "idle" /\ latest'[r] = Undef /\ Elsewhere(r)
    BY <1>3, ReaderStep
  <2>2. Kept(r)'  BY <2>1 DEF Kept
  <2> QED  BY <1>1, <2>1, <2>2
<1>4. ASSUME NEW l \in {"checkGlobal", "validate", "resolve"}, R!Proceed(r, l), rstep[r] # "idle",
             latest' \in [Calls -> Seq(Blocks) \cup {Undef}],
             \A q \in Calls \ {r} : latest'[q] = latest[q],
             latest'[r] \in Seq(Blocks),
             l = "resolve" => /\ UNCHANGED latest
                              /\ R!PoliciesAt(latest[r]).read = "selfOnly"
                                    => requester[r] = asked[r]
      PROVE  ReadTyped' /\ ReadFor' /\ Elsewhere(r)
  <2>1. ReadTyped' /\ rstep'[r] = l /\ UNCHANGED <<asked, requester, given>> /\ Elsewhere(r)
    BY <1>4, ReaderStep DEF ReadSteps
  <2>2. CASE l # "resolve"
    <3>1. Kept(r)'  BY <1>0, <1>4, <2>1, <2>2 DEF Kept, IsQuery
    <3> QED  BY <1>1, <2>1, <3>1
  <2>3. CASE l = "resolve"
    <3>1. (R!PoliciesAt(latest[r]).read = "selfOnly")'
             <=> R!PoliciesAt(latest[r]).read = "selfOnly"
      BY <1>4, <2>3 DEF R!PoliciesAt, R!LastOf, R!Max, R!Empty, R!PolicyMap
    <3>2. Kept(r)'  BY <1>0, <1>4, <2>1, <2>3, <3>1 DEF Kept, IsQuery
    <3> QED  BY <1>1, <2>1, <3>2
  <2> QED  BY <2>2, <2>3
<1>5. ASSUME R!Reading(r) PROVE ReadTyped' /\ ReadFor' /\ Elsewhere(r)
  <2>1. CASE \E a \in {R!Failed, R!Nothing} : R!AnswerWith(r, a)  BY <1>3, <2>1
  <2>2. CASE R!AnswerWith(r, R!ValueOf(latest[r])) /\ rstep[r] = "resolve"
    <3>1. latest[r] \in Seq(Blocks)  BY <1>0, <2>2 DEF Kept
    <3> QED  BY <1>3, <2>2, <3>1
  <2>3. CASE /\ rstep[r] = "getLatest" /\ R!Proceed(r, "checkGlobal")
             /\ tips[asked[r]] # Undef /\ latest' = [latest EXCEPT ![r] = tips[asked[r]]]
    <3>1. tips[asked[r]] \in Seq(Blocks)  BY <1>0, <2>3 DEF TipsTyped, Kept
    <3> QED  BY <1>0, <1>4, <2>3, <3>1
  <2>4. CASE rstep[r] = "checkGlobal" /\ R!Proceed(r, "validate") /\ UNCHANGED latest
    BY <1>0, <1>4, <2>4 DEF Kept
  <2>5. CASE /\ rstep[r] = "validate" /\ R!Proceed(r, "resolve") /\ UNCHANGED latest
             /\ Concludes(r, "valid")
    <3>1. latest[r] \in Seq(Blocks)  BY <1>0, <2>5 DEF Kept
    <3>2. R!PoliciesAt(latest[r]).read = "selfOnly" => requester[r] = asked[r]
      BY <2>5, <3>1, PoliciesKnown, SelfOnlyDecides DEF Concludes
    <3> QED  BY <1>0, <1>4, <2>5, <3>1, <3>2
  <2> QED  BY <1>5, <2>1, <2>2, <2>3, <2>4, <2>5, ReadingMoves
<1> QED  BY <1>2, <1>5 DEF Resolve, RequesterFromCtx

LEMMA ReadForStep ==
    ASSUME TypeOK, TipsTyped, ReadTyped, ReadFor, [ServiceNext]_serviceVars
    PROVE  ReadTyped' /\ ReadFor'
<1>1. ASSUME UNCHANGED <<rstep, asked, requester, latest, given>>,
             \A r \in Calls : rstep[r] # "idle" => rpc'[r] = rpc[r] /\ op'[r] = op[r] /\ ctx'[r] = ctx[r]
      PROVE  ReadTyped' /\ ReadFor'
  <2>1. ReadTyped'  BY <1>1 DEF ReadTyped
  <2>2. ASSUME NEW r \in Calls PROVE Kept(r)'
    BY <1>1, KeptApart DEF ReadFor
  <2> QED  BY <2>1, <2>2 DEF ReadFor
<1>2. CASE Tick /\ UNCHANGED <<treeVars, readVars>>
  BY <1>1, <1>2 DEF Tick, requestVars, readVars
<1>3. ASSUME NEW d \in Dids, NEW b \in Blocks, Write(d, b) PROVE ReadTyped' /\ ReadFor'
  BY <1>1, <1>3 DEF Write, SetOwnership, requestVars
<1>4. ASSUME NEW r \in Calls, Otherwise(r) PROVE ReadTyped' /\ ReadFor'
  <2>1. /\ Send(r) \/ Resend(r) \/ Handle(r)
        /\ UNCHANGED <<rstep, asked, requester, latest, given>>
    BY <1>4 DEF Otherwise, Handle, readVars
  <2>2. rstep[r] = "idle"
    <3>1. ~IsQuery(r)
      BY <1>4 DEF Otherwise, IsQuery, Send, Resend, Arrive, Verify, CheckExpiry, LoadOwnership,
                  ResolveOwners
    <3> QED  BY <3>1 DEF ReadFor, Kept
  <2> QED  BY <1>1, <2>1, <2>2, RequestsApart
<1>5. ASSUME NEW r \in Calls, Deliver(r) PROVE ReadTyped' /\ ReadFor'
  <2>1. /\ rstep[r] = "idle" /\ UNCHANGED <<rstep, asked, requester, latest>>
        /\ given' = [given EXCEPT ![r] = R!NoAnswer] /\ Handle(r)
    BY <1>5 DEF Deliver, ReadFor, Kept, Handle
  <2>2. ReadTyped'  BY <2>1 DEF ReadTyped
  <2>3. ASSUME NEW q \in Calls PROVE Kept(q)'
    <3>1. CASE q = r  BY <2>1, <3>1 DEF ReadFor, Kept
    <3>2. CASE q # r
      <4>1. given'[q] = given[q]  BY <2>1, <3>2 DEF ReadTyped
      <4> QED  BY <2>1, <3>2, <4>1, RequestsApart, KeptApart DEF ReadFor
    <3> QED  BY <3>1, <3>2
  <2> QED  BY <2>2, <2>3 DEF ReadFor
<1>6. CASE UNCHANGED serviceVars
  BY <1>1, <1>6 DEF serviceVars, requestVars, readVars
<1> QED  BY <1>2, <1>3, <1>4, <1>5, <1>6, ResolveStep DEF ServiceNext

LEMMA ServiceInvariant == ServiceSpec => [](Typed /\ Facts /\ TipsTyped /\ ReadTyped /\ ReadFor)
<1>1. ServiceSpec => [](Typed /\ Facts)
  BY IdentityInvariant, ServiceImplementsIdentity
<1>2. Typed => TypeOK  BY DEF Typed
<1>3. ServiceInit => ReadTyped /\ ReadFor  BY ReadInit
<1>4. TypeOK /\ TipsTyped /\ ReadTyped /\ ReadFor /\ [ServiceNext]_serviceVars
      => ReadTyped' /\ ReadFor'
  BY ReadForStep
<1> QED  BY <1>1, <1>2, <1>3, <1>4, TipsInvariant, PTL DEF ServiceSpec

\* An answer is found by a step of the request's own, which went as follows.
LEMMA FoundBy ==
    ASSUME TypeOK, TipsTyped, ReadTyped, ReadFor, [ServiceNext]_serviceVars,
           NEW r \in Calls, given'[r] # given[r], given'[r] # R!NoAnswer
    PROVE  R!Reading(r) /\ IsQuery(r)
<1>1. \/ \E q \in Calls : Resolve(q)
      \/ \E q \in Calls : Deliver(q)
      \/ UNCHANGED given
  BY DEF ServiceNext, serviceVars, readVars, Write, Otherwise
<1>2. ASSUME NEW q \in Calls, Deliver(q) PROVE FALSE
  <2>1. given' = [given EXCEPT ![q] = R!NoAnswer]  BY <1>2 DEF Deliver
  <2> QED  BY <2>1 DEF ReadTyped
<1>3. PICK q \in Calls : Resolve(q)  BY <1>1, <1>2
<1>4. q = r
  BY <1>3, ResolveStep DEF Elsewhere
<1>5. ASSUME NEW d \in Dids, R!Ask(r, d, ctx[r]) PROVE FALSE
  BY <1>5, ReaderStep DEF TypeOK
<1> QED  BY <1>3, <1>4, <1>5 DEF Resolve, RequesterFromCtx

\* What a tree shows to nobody but itself is shown only in answer to a request signed
\* by a key that owned the tree, or the one it was grafted from, while the request was
\* verified: whatever owners, grafts, policies and values become before it is answered.
THEOREM OnlyOwnersAreShown == ServiceSpec => OnlyOwnersRead
<1>1. ASSUME Typed, Facts, TipsTyped, ReadTyped, ReadFor, [ServiceNext]_serviceVars,
             NEW r \in Calls, R!Shows(r), R!PoliciesAt(given'[r].tip).read = "selfOnly"
      PROVE  /\ IsSigned(header[r]) /\ header[r].sub = asked[r]
             /\ header[r].signer \in OwnersIn(owned[r], asked[r])
  <2>0. TypeOK /\ Kept(r) /\ latest[r] \in Seq(Blocks) \cup {Undef}
    BY <1>1 DEF Typed, ReadFor, ReadTyped
  <2>1. given'[r] # given[r] /\ given'[r].status = "value"
    BY <1>1 DEF R!Shows
  <2>2. R!NoAnswer.status # "value" /\ R!Nothing.status # "value" /\ R!Failed.status # "value"
    BY DEF R!NoAnswer, R!Nothing, R!Failed
  <2>3. R!Reading(r)  BY <1>1, <2>0, <2>1, <2>2, FoundBy
  <2>4. ~R!AnswerWith(r, R!Nothing) /\ ~R!AnswerWith(r, R!Failed)
    BY <1>1, <2>1, <2>2, ReaderStep
  <2>5. \A l : ~R!Proceed(r, l)  BY <2>1 DEF R!Proceed
  <2>6. R!AnswerWith(r, R!ValueOf(latest[r])) /\ rstep[r] = "resolve"
    BY <1>1, <2>3, <2>4, <2>5, ReadingMoves
  <2>7. latest[r] \in Seq(Blocks)  BY <2>0, <2>6 DEF Kept
  <2>8. given'[r].tip = latest[r]
    <3>1. given'[r] = R!ValueOf(latest[r])  BY <1>1, <2>6, <2>7, ReaderStep
    <3> QED  BY <3>1 DEF R!ValueOf
  <2>9. ctx[r] = asked[r] /\ ctx[r] # Undef
    BY <1>1, <2>0, <2>6, <2>8, NamesAssumption DEF Kept
  <2> QED  BY <1>1, <2>9, AbsentNotSigned DEF Facts, Verified, IsSigned
<1>2. Typed /\ Facts /\ TipsTyped /\ ReadTyped /\ ReadFor /\ [ServiceNext]_serviceVars
      => [\A r \in Calls :
            /\ R!Shows(r)
            /\ R!PoliciesAt(given'[r].tip).read = "selfOnly"
            => /\ IsSigned(header[r]) /\ header[r].sub = asked[r]
               /\ header[r].signer \in OwnersIn(owned[r], asked[r])]_serviceVars
  BY <1>1
<1> QED  BY <1>2, ServiceInvariant, PTL DEF ServiceSpec, OnlyOwnersRead

\* And it is shown to them: who owned the tree throughout the verification, and has an
\* identity that still lasts, is not told that there is nothing.
THEOREM OwnersAreShown == ServiceSpec => OwnersRead
<1>1. ASSUME Typed, Facts, TipsTyped, ReadTyped, ReadFor, [ServiceNext]_serviceVars,
             NEW r \in Calls, given'[r] = R!Nothing, given[r] # given'[r], latest[r] # Undef,
             R!PoliciesAt(latest[r]).read = "selfOnly",
             IsSigned(header[r]), header[r].sub = asked[r], now <= header[r].exp
      PROVE  ~OwnsThroughout(r)
  <2>0. TypeOK /\ Kept(r)
    BY <1>1 DEF Typed, ReadFor
  <2>1. R!Nothing # R!NoAnswer /\ R!Nothing # R!Failed /\ \A t : R!Nothing # R!ValueOf(t)
    BY DEF R!NoAnswer, R!Nothing, R!Failed, R!ValueOf
  <2>2. R!Reading(r) /\ IsQuery(r)  BY <1>1, <2>0, <2>1, FoundBy
  <2>3. ~R!AnswerWith(r, R!Failed)  BY <1>1, <2>1, ReaderStep
  <2>4. ~(R!AnswerWith(r, R!ValueOf(latest[r])) /\ rstep[r] = "resolve")
    BY <1>1, <2>0, <2>1, ReaderStep DEF Kept
  <2>5. \A l : ~R!Proceed(r, l)  BY <1>1 DEF R!Proceed
  <2>6. rstep[r] = "validate" /\ Concludes(r, "invalid")
    BY <1>1, <2>0, <2>2, <2>3, <2>4, <2>5, ReadingMoves DEF Kept
  <2>7. latest[r] \in Seq(Blocks) /\ requester[r] = ctx[r]  BY <2>0, <2>6 DEF Kept
  <2>8. ctx[r] # header[r].sub
    BY <1>1, <2>6, <2>7, PoliciesKnown, SelfOnlyDecides DEF Concludes
  <2>9. ctx[r] = Undef /\ rpc[r] = "execute" /\ header[r] \in Signed
    <3>1. header[r] \in Signed  BY <1>1, <2>0 DEF TypeOK, Headers, IsSigned
    <3> QED  BY <1>1, <2>2, <2>8, <3>1 DEF Facts, Verified, IsQuery
  <2>10. header[r].signer \notin OwnersIn(always[r], header[r].sub) \/ now > header[r].exp
    BY <1>1, <2>9 DEF Facts, Refused
  <2>11. now \in Nat /\ header[r].exp \in Nat
    BY <2>0, <2>9 DEF TypeOK, Signed
  <2>12. ~(now > header[r].exp)  BY <1>1, <2>11
  <2> QED  BY <2>10, <2>12 DEF OwnsThroughout
<1>2. Typed /\ Facts /\ TipsTyped /\ ReadTyped /\ ReadFor /\ [ServiceNext]_serviceVars
      => [\A r \in Calls :
            /\ given'[r] = R!Nothing /\ given[r] # given'[r] /\ latest[r] # Undef
            /\ R!PoliciesAt(latest[r]).read = "selfOnly"
            /\ IsSigned(header[r]) /\ header[r].sub = asked[r] /\ now <= header[r].exp
            => ~OwnsThroughout(r)]_serviceVars
  BY <1>1
<1> QED  BY <1>2, ServiceInvariant, PTL DEF ServiceSpec, OwnersRead
=============================================================================
