---------------------------- MODULE SerialProofs ----------------------------
(***************************************************************************)
(* Theorems about the write path when clients wait for the answer of one   *)
(* update of an object before they send the next (Serial), on a store that *)
(* outlives the processes (Durable): the aggregator implements ChainStore, *)
(* and an acknowledged update is never lost.  Crashes, failing calls and   *)
(* repeated or stale requests are allowed.                                 *)
(***************************************************************************)
EXTENDS AggregatorProofs

USE DEF storeVars, handlerVars, vars

(***************************************************************************)
(* At most one request of an object is in flight, so what CheckTip found   *)
(* still holds at PutTip; every tip an object has had is part of the one   *)
(* it has, and from PutTip on the tip of the request is among them.        *)
(***************************************************************************)
Exclusive == \A g, h \in Handlers :
    g # h /\ Busy(g) /\ Busy(h) => abr[g].did # abr[h].did

Matching == \A h \in Handlers : pc[h] \in {"storeState", "putTip"} => TipMatches(h)

OneHistory == \A d \in Dids : \A t \in seen[d] :
    tips[d] # Undef /\ IsPrefix(t, tips[d])

AfterPut == {"loadConfig", "installWrite", "installWriteWants", "installRead",
             "installReadWants", "publish"}

Stored == \A h \in Handlers : pc[h] \in AfterPut => NewTip(h) \in seen[abr[h].did]

AckedStored == \A h \in Handlers :
    Acked(h) => resp[h].did \in Dids /\ resp[h].newTip \in seen[resp[h].did]

SerialInv == Exclusive /\ Matching /\ OneHistory /\ Stored /\ AckedStored

LEMMA BlockExists == \E b \in Blocks : TRUE
BY NonEmptyAssumption

LEMMA PrefixAppend ==
    ASSUME NEW s \in Tips, NEW t \in Tips, NEW b \in Blocks, IsPrefix(t, s)
    PROVE  IsPrefix(t, Append(s, b))
<1>1. Len(t) \in 0 .. Len(s) /\ Len(s) \in Nat /\ Len(t) \in Nat
  BY DEF IsPrefix, Tips
<1>2. Len(Append(s, b)) = Len(s) + 1
  BY AppendProperties DEF Tips
<1>3. SubSeq(Append(s, b), 1, Len(t)) = SubSeq(s, 1, Len(t))
  BY <1>1, PrefixesOfAppend
<1> QED  BY <1>1, <1>2, <1>3 DEF IsPrefix

LEMMA PrefixSelf == ASSUME NEW s \in Tips PROVE IsPrefix(s, s)
BY DEF IsPrefix, Tips

LEMMA PrefixOfTip ==
    ASSUME NEW s \in Tips, NEW t \in Tips, t = <<>> \/ IsPrefix(t, s)
    PROVE  t \in Prefixes(s)
<1>1. Len(s) \in Nat /\ Len(t) \in Nat  BY DEF Tips
<1>2. CASE t = <<>>
  <2>1. SubSeq(s, 1, 0) = <<>>  BY DEF Tips
  <2>2. 0 \in 0 .. Len(s)  BY <1>1
  <2> QED  BY <1>2, <2>1, <2>2 DEF Prefixes
<1>3. CASE IsPrefix(t, s)
  <2>1. SubSeq(t, 1, Len(t)) = t  BY <1>1, PrefixesOfAppend, BlockExists
  <2>2. Len(t) \in 0 .. Len(s) /\ t = SubSeq(s, 1, Len(t))  BY <1>1, <1>3, <2>1 DEF IsPrefix
  <2> QED  BY <2>2 DEF Prefixes
<1> QED  BY <1>2, <1>3

\* What PutTip finds: the tip of the object, when it has one, is the one the request
\* builds on ...
LEMMA ParentIsTip ==
    ASSUME SerialInv, NEW h \in Handlers, pc[h] = "putTip", tips[abr[h].did] # Undef
    PROVE  tips[abr[h].did] = abr[h].prev
BY DEF SerialInv, Matching, TipMatches

\* ... and when it has none, the request builds on a tree of the client's.
LEMMA ParentIsBase ==
    ASSUME TypeOK, ChainInv, SerialInv, NEW h \in Handlers, pc[h] = "putTip",
           tips[abr[h].did] = Undef
    PROVE  abr[h].prev \in IF KnownTips THEN {<<>>} ELSE Drafts
<1>1. abr[h].did \in Dids  BY NewTipType
<1>2. seen[abr[h].did] = {}
  BY <1>1 DEF SerialInv, OneHistory
<1> QED  BY <1>2 DEF ChainInv, Requested, Busy

\* A request past CheckTip has just been compared with the tip of its object.
LEMMA PastCheckTip ==
    ASSUME TypeOK, NEW h \in Handlers, Serve(h), pc'[h] \in {"storeState", "putTip"}
    PROVE  /\ pc[h] \in {"checkTip", "storeState"} /\ abr' = abr /\ UNCHANGED tips
           /\ pc[h] = "checkTip" => TipMatches(h)
<1>1. /\ \/ CheckTip(h) /\ pc[h] = "checkTip" /\ Moved(h, {"storeState"})
         \/ pc[h] = "storeState" /\ Moved(h, {"putTip"})
      /\ pc[h] # "putTip"
  BY ServeMoves DEF Moved, Reply, TypeOK
<1>2. abr' = abr  BY <1>1 DEF Moved, Reply, TypeOK
<1>3. UNCHANGED tips  BY <1>1, ServeMoves
<1>4. CheckTip(h) => TipMatches(h)  BY DEF CheckTip, Reply, TypeOK
<1> QED  BY <1>1, <1>2, <1>3, <1>4

LEMMA SerialInit == Init => SerialInv
<1> SUFFICES ASSUME Init PROVE SerialInv  OBVIOUS
<1>1. Exclusive /\ Matching /\ OneHistory /\ Stored
  BY DEF Init, Exclusive, Matching, OneHistory, Stored, AfterPut, Busy
<1>2. AckedStored
  BY DEF Init, AckedStored, Acked, NoReply, Payload
<1> QED  BY <1>1, <1>2 DEF SerialInv

LEMMA SerialStep ==
    ASSUME Serial, Durable, TypeOK, ChainInv, SerialInv, [Next]_vars
    PROVE  SerialInv'
<1>1. ASSUME NEW h \in Handlers, Receive(h) PROVE SerialInv'
  <2>1. PICK d \in Dids, b \in Blocks :
          /\ \A g \in Handlers : Busy(g) => abr[g].did # d
          /\ \E prev \in Parents(d) :
                abr' = [abr EXCEPT ![h] = [did |-> d, prev |-> prev, block |-> b]]
    BY <1>1 DEF Receive
  <2>2. /\ pc' = [pc EXCEPT ![h] = "checkGlobal"] /\ resp' = [resp EXCEPT ![h] = NoReply]
        /\ UNCHANGED <<tips, seen>> /\ ~Busy(h)
        /\ abr'[h].did = d
        /\ \A g \in Handlers \ {h} : abr'[g] = abr[g]
    <3>1. /\ pc' = [pc EXCEPT ![h] = "checkGlobal"] /\ resp' = [resp EXCEPT ![h] = NoReply]
          /\ UNCHANGED <<tips, seen>> /\ ~Busy(h)
      BY <1>1 DEF Receive, Busy
    <3> QED  BY <2>1, <3>1 DEF TypeOK
  <2>3. Exclusive'
    BY <2>1, <2>2 DEF SerialInv, Exclusive, Busy, TypeOK
  <2>4. Matching' /\ OneHistory'
    BY <2>2 DEF SerialInv, Matching, TipMatches, OneHistory, TypeOK
  <2>5. Stored'
    BY <2>2 DEF SerialInv, Stored, AfterPut, NewTip, TypeOK
  <2>6. AckedStored'
    BY <2>2 DEF SerialInv, AckedStored, Acked, NoReply, Payload, TypeOK
  <2> QED  BY <2>3, <2>4, <2>5, <2>6 DEF SerialInv
<1>2. ASSUME NEW h \in Handlers, Serve(h) PROVE SerialInv'
  <2> DEFINE d == abr[h].did
  <2>0. d \in Dids /\ NewTip(h) \in Tips /\ NewTip(h) # Undef  BY NewTipType
  <2>1. /\ \A g \in Handlers \ {h} : pc'[g] = pc[g] /\ abr'[g] = abr[g] /\ resp'[g] = resp[g]
        /\ pc'[h] = "idle" \/ (abr' = abr /\ resp' = resp)
    BY <1>2, Moves
  <2>2. Busy(h)
    BY <1>2, Moves
  <2>3. \/ UNCHANGED <<tips, seen>>
        \/ pc[h] = "putTip" /\ Put(d, NewTip(h))
    BY <1>2, ServeMoves
  <2>4. /\ \A e \in Dids : seen[e] \subseteq seen'[e]
        /\ \A e \in Dids \ {d} : tips'[e] = tips[e] /\ seen'[e] = seen[e]
    BY <2>3 DEF Put, TypeOK
  <2>5. Exclusive'
    BY <2>1, <2>2 DEF SerialInv, Exclusive, Busy
  <2>6. Matching'
    <3>1. pc'[h] \in {"storeState", "putTip"} => TipMatches(h)'
      BY <1>2, PastCheckTip DEF SerialInv, Matching, TipMatches
    <3>2. ASSUME NEW g \in Handlers \ {h}, pc'[g] \in {"storeState", "putTip"}
          PROVE  TipMatches(g)'
      <4>1. abr'[g] = abr[g] /\ TipMatches(g) /\ Busy(g)
        BY <2>1, <3>2 DEF SerialInv, Matching, Busy
      <4>2. abr[g].did # d /\ abr[g].did \in Dids
        BY <2>2, <4>1, NewTipType DEF SerialInv, Exclusive
      <4> QED  BY <2>4, <4>1, <4>2 DEF TipMatches
    <3> QED  BY <3>1, <3>2 DEF Matching
  <2>7. OneHistory'
    <3>1. CASE UNCHANGED <<tips, seen>>
      BY <3>1 DEF SerialInv, OneHistory
    <3>2. CASE pc[h] = "putTip" /\ Put(d, NewTip(h))
      <4>1. tips'[d] = NewTip(h) /\ seen'[d] = seen[d] \cup {NewTip(h)}
        BY <2>0, <3>2 DEF Put, TypeOK
      <4>2. ASSUME NEW t \in seen[d] PROVE IsPrefix(t, NewTip(h))
        <5>1. tips[d] # Undef /\ IsPrefix(t, tips[d]) /\ t \in Tips
          BY <2>0 DEF SerialInv, OneHistory, TypeOK
        <5>2. tips[d] = abr[h].prev
          BY <3>2, <5>1, ParentIsTip
        <5> QED  BY <5>1, <5>2, NewTipType, PrefixAppend DEF NewTip
      <4> QED  BY <2>0, <2>4, <4>1, <4>2, PrefixSelf DEF SerialInv, OneHistory
    <3> QED  BY <2>3, <3>1, <3>2
  <2>8. Stored'
    <3>1. pc'[h] \in AfterPut => abr' = abr /\ NewTip(h) \in seen'[d]
      <4>0. pc'[h] \in AfterPut => abr' = abr
        BY <2>1 DEF AfterPut
      <4>1. CASE pc[h] = "putTip"
        <5>1. pc'[h] \in AfterPut => Put(d, NewTip(h))
          BY <1>2, <4>1, ServeMoves DEF PutTip, PutFails, Reply, AfterPut, TypeOK
        <5> QED  BY <2>0, <4>0, <5>1 DEF Put, TypeOK
      <4>2. CASE pc[h] # "putTip"
        <5>1. pc'[h] \in AfterPut => pc[h] \in AfterPut
          BY <1>2, <4>2, ServeMoves DEF Moved, Reply, AfterPut, TypeOK
        <5> QED  BY <2>0, <2>4, <4>0, <5>1 DEF SerialInv, Stored
      <4> QED  BY <4>1, <4>2
    <3>2. ASSUME NEW g \in Handlers \ {h}, pc'[g] \in AfterPut
          PROVE  NewTip(g)' \in seen'[abr'[g].did]
      <4>1. abr'[g] = abr[g] /\ NewTip(g) \in seen[abr[g].did] /\ abr[g].did \in Dids
        BY <2>1, <3>2, NewTipType DEF SerialInv, Stored
      <4> QED  BY <2>4, <4>1 DEF NewTip
    <3> QED  BY <3>1, <3>2 DEF Stored, NewTip
  <2>9. AckedStored'
    <3>1. Acked(h)' => resp'[h].did \in Dids /\ resp'[h].newTip \in seen'[resp'[h].did]
      <4>1. CASE resp' = resp
        BY <2>4, <4>1 DEF SerialInv, AckedStored, Acked
      <4>2. CASE \E r \in {ErrorReply, PolicyReply, InvalidReply} : Reply(h, r)
        BY <4>2 DEF Reply, Acked, TypeOK, ErrorReply, PolicyReply, InvalidReply, Payload
      <4>3. CASE Publish(h)
        <5>1. pc[h] = "publish" /\ resp'[h] = Committed(d, NewTip(h)) /\ UNCHANGED seen
          BY <4>3 DEF Publish, Reply, TypeOK
        <5>2. NewTip(h) \in seen[d]
          BY <5>1 DEF SerialInv, Stored, AfterPut
        <5> QED  BY <2>0, <5>1, <5>2 DEF Committed, Payload
      <4> QED
        BY <1>2, <4>1, <4>2, <4>3, ServeMoves DEF Moved
    <3> QED  BY <2>1, <2>4, <3>1 DEF SerialInv, AckedStored, Acked
  <2> QED  BY <2>5, <2>6, <2>7, <2>8, <2>9 DEF SerialInv
<1>3. ASSUME NEW s \in Servers, Crash(s) \/ Restart(s) PROVE SerialInv'
  <2>1. UNCHANGED <<tips, seen, resp>>
    BY <1>3 DEF Crash, KeepStore, Restart
  <2>2. ASSUME NEW h \in Handlers
        PROVE  pc'[h] = "idle" \/ (pc'[h] = pc[h] /\ abr'[h] = abr[h])
    BY <1>3 DEF Crash, Restart
  <2>3. Exclusive' /\ Matching'
    BY <2>1, <2>2 DEF SerialInv, Exclusive, Matching, TipMatches, Busy
  <2>4. OneHistory' /\ AckedStored'
    BY <2>1 DEF SerialInv, OneHistory, AckedStored, Acked
  <2>5. Stored'
    BY <2>1, <2>2 DEF SerialInv, Stored, AfterPut, NewTip
  <2> QED  BY <2>3, <2>4, <2>5 DEF SerialInv
<1>4. CASE UNCHANGED vars
  <2>1. Exclusive' /\ Matching'
    BY <1>4 DEF SerialInv, Exclusive, Matching, TipMatches, Busy
  <2>2. OneHistory' /\ AckedStored'
    BY <1>4 DEF SerialInv, OneHistory, AckedStored, Acked
  <2>3. Stored'
    BY <1>4 DEF SerialInv, Stored, AfterPut, NewTip
  <2> QED  BY <2>1, <2>2, <2>3 DEF SerialInv
<1> QED  BY <1>1, <1>2, <1>3, <1>4 DEF Next

LEMMA SerialInvariant ==
    ASSUME Serial, Durable PROVE Spec => [](TypeOK /\ ChainInv /\ SerialInv)
BY TypeInit, TypeStep, ConfigNamedStep, ChainInit, ChainStep, SerialInit, SerialStep, PTL DEF Spec

-----------------------------------------------------------------------------
\* An update acknowledged to a client stays in the history of its object,
\* whatever crashes, fails or is sent again afterwards.
THEOREM AckedAlwaysDurable == ASSUME Serial, Durable PROVE Spec => []AckedDurable
<1>1. TypeOK /\ SerialInv => AckedDurable
  BY DEF SerialInv, AckedStored, OneHistory, AckedDurable
<1> QED  BY <1>1, SerialInvariant, PTL

\* What was found of the other tree is a prefix of its chain.
LEMMA EvidenceKept ==
    ASSUME TypeOK, SerialInv PROVE Evidence \subseteq Store!Evidence
<1>1. CASE OtherDid \notin Dids
  BY <1>1 DEF Evidence, Store!Evidence
<1>2. CASE OtherDid \in Dids
  <2>1. ASSUME NEW t \in Evidence PROVE t \in Prefixes(ChainOf(tips[OtherDid]))
    <3>1. t \in Tips /\ <<>> \in Tips  BY EvidenceType, EmptySeq DEF Tips
    <3>2. ChainOf(tips[OtherDid]) \in Tips
      BY <1>2, <3>1 DEF ChainOf, TypeOK, MaybeTips
    <3>3. t = <<>> \/ IsPrefix(t, ChainOf(tips[OtherDid]))
      BY <1>2 DEF Evidence, SerialInv, OneHistory, ChainOf
    <3> QED  BY <3>1, <3>2, <3>3, PrefixOfTip
  <2> QED  BY <1>2, <2>1 DEF Store!Evidence, Store!Prefixes, Prefixes
<1> QED  BY <1>1, <1>2

\* The aggregator implements the abstract store of append-only chains, whatever tree
\* the first block of an object comes on.
THEOREM Refinement == ASSUME Serial, Durable PROVE Spec => ImplementsChainStore
<1> DEFINE chain == [d \in Dids |-> ChainOf(tips[d])]
<1>1. Init => Store!Init
  BY DEF Init, Store!Init, ChainOf
<1>2. ASSUME TypeOK, ChainInv, SerialInv, [Next]_vars PROVE [Store!Next]_chain
  <2>1. CASE UNCHANGED tips
    BY <2>1 DEF ChainOf
  <2>2. ASSUME NEW h \in Handlers, pc[h] = "putTip", Put(abr[h].did, NewTip(h))
        PROVE  Store!Next
    <3> DEFINE d == abr[h].did
               b == abr[h].block
    <3>1. d \in Dids /\ b \in Blocks /\ abr[h].prev \in Tips /\ NewTip(h) # Undef
      BY <1>2, NewTipType
    <3>2. \E e1, e2 \in Store!Evidence : Acceptable(d, abr[h].prev, b, e1, e2)
      BY <1>2, <2>2, EvidenceKept, PutAcceptable
    <3>3. chain' = [chain EXCEPT ![d] = Append(abr[h].prev, b)]
      <4>1. \A e \in Dids : tips'[e] = IF e = d THEN NewTip(h) ELSE tips[e]
        BY <1>2, <2>2, <3>1 DEF Put, TypeOK
      <4> QED  BY <3>1, <4>1 DEF ChainOf, NewTip
    <3>4. Store!Put(d, abr[h].prev)
      BY <3>1, <3>2, <3>3 DEF Store!Put
    <3>5. CASE tips[d] = Undef
      <4>1. chain[d] = <<>>  BY <3>1, <3>5 DEF ChainOf
      <4>2. abr[h].prev \in IF KnownTips THEN {<<>>} ELSE Drafts
        BY <1>2, <2>2, <3>5, ParentIsBase
      <4> QED  BY <3>1, <3>4, <4>1, <4>2 DEF Store!Next, Store!Begin
    <3>6. CASE tips[d] # Undef
      <4>1. tips[d] = abr[h].prev /\ tips[d] # <<>>
        BY <1>2, <2>2, <3>1, <3>6, ParentIsTip DEF ChainInv, TipsSeen, TipsEarned
      <4>2. chain[d] = abr[h].prev /\ chain[d] # <<>>
        BY <3>1, <3>6, <4>1 DEF ChainOf
      <4> QED  BY <3>1, <3>4, <4>2 DEF Store!Next, Store!Extend
    <3> QED  BY <3>5, <3>6
  <2>3. ASSUME NEW h \in Handlers, Receive(h) PROVE UNCHANGED tips
    BY <2>3 DEF Receive
  <2>4. ASSUME NEW s \in Servers, Crash(s) \/ Restart(s) PROVE UNCHANGED tips
    BY <2>4 DEF Crash, KeepStore, Restart
  <2>5. ASSUME NEW h \in Handlers, Serve(h)
        PROVE  UNCHANGED tips \/ (pc[h] = "putTip" /\ Put(abr[h].did, NewTip(h)))
    BY <1>2, <2>5, ServeMoves
  <2> QED  BY <1>2, <2>1, <2>2, <2>3, <2>4, <2>5 DEF Next
<1> QED  BY <1>1, <1>2, SerialInvariant, PTL DEF Spec, ImplementsChainStore, Store!Spec

-----------------------------------------------------------------------------
(***************************************************************************)
(* The messages.  From PutTip on the tip of the request is the one its     *)
(* object has, and what was published of it before is part of its history. *)
(***************************************************************************)
Ahead == \A h \in Handlers : pc[h] \in AfterPut => tips[abr[h].did] = NewTip(h)

PublishedBehind == \A d \in Dids : published[d] # Undef => published[d] \in seen[d]

NewsToTell == \A h \in Handlers :
    pc[h] \in AfterPut /\ published[abr[h].did] # Undef
    => IsStrictPrefix(published[abr[h].did], NewTip(h))

MessageInv == Ahead /\ PublishedBehind /\ NewsToTell

LEMMA StrictPrefixAppend ==
    ASSUME NEW s \in Tips, NEW t \in Tips, NEW b \in Blocks, IsPrefix(t, s)
    PROVE  IsStrictPrefix(t, Append(s, b))
<1>1. Len(t) <= Len(s) /\ Len(s) \in Nat /\ Len(t) \in Nat  BY DEF IsPrefix, Tips
<1>2. Len(Append(s, b)) = Len(s) + 1  BY AppendProperties DEF Tips
<1>3. t # Append(s, b)  BY <1>1, <1>2
<1> QED  BY <1>3, PrefixAppend DEF IsStrictPrefix

LEMMA MessageInit == Init => MessageInv
BY DEF Init, MessageInv, Ahead, PublishedBehind, NewsToTell, AfterPut

\* Only Publish sends a message, and it is the tip of its request.
LEMMA PublishedChange ==
    ASSUME TypeOK, NEW h \in Handlers, Serve(h)
    PROVE  \/ UNCHANGED published
           \/ /\ Publish(h) /\ pc[h] = "publish"
              /\ published' = [published EXCEPT ![abr[h].did] = NewTip(h)]
<1>1. CASE LoadGlobalWants(h) \/ EvaluateGlobalPolicy(h)  BY <1>1, GlobalDecided
<1>2. CASE Validate(h)              BY <1>2, TreeDecided
<1>3. CASE \/ CheckGlobalPolicy(h) \/ LoadGlobalPolicy(h) \/ LoadGlobalTree(h)
           \/ Authenticate(h) \/ CheckTip(h)
  BY <1>3 DEF CheckGlobalPolicy, LoadGlobalPolicy, LoadGlobalTree, Authenticate, CheckTip
<1>4. CASE StoreState(h) \/ PutTip(h) \/ LoadConfig(h)
  BY <1>4 DEF StoreState, PutTip, LoadConfig
<1>5. CASE \/ InstallWritePolicy(h) \/ InstallWriteWants(h)
           \/ InstallReadPolicy(h) \/ InstallReadWants(h)
  BY <1>5 DEF InstallWritePolicy, InstallWriteWants, InstallReadPolicy, InstallReadWants, InstallFails, Install
<1>6. CASE Publish(h)               BY <1>6 DEF Publish, Announced
<1> QED  BY <1>1, <1>2, <1>3, <1>4, <1>5, <1>6 DEF Serve

\* A request enters AfterPut by a Put.
LEMMA EntersAfterPut ==
    ASSUME TypeOK, NEW h \in Handlers, Serve(h), pc'[h] \in AfterPut, pc[h] \notin AfterPut
    PROVE  pc[h] = "putTip" /\ Put(abr[h].did, NewTip(h)) /\ UNCHANGED published
<1>1. pc[h] = "putTip" /\ PutTip(h)
  BY ServeMoves DEF Moved, Reply, AfterPut, TypeOK
<1> QED  BY <1>1 DEF PutTip, PutFails, Reply, AfterPut, TypeOK

LEMMA MessageStep ==
    ASSUME Serial, Durable, TypeOK, ChainInv, SerialInv, MessageInv, [Next]_vars
    PROVE  MessageInv'
<1>1. ASSUME NEW h \in Handlers, Serve(h) PROVE MessageInv'
  <2> DEFINE d == abr[h].did
  <2>0. d \in Dids /\ NewTip(h) \in Tips /\ NewTip(h) # Undef  BY NewTipType
  <2>1. /\ Busy(h)
        /\ \A g \in Handlers \ {h} : pc'[g] = pc[g] /\ abr'[g] = abr[g]
        /\ pc'[h] = "idle" \/ abr' = abr
    BY <1>1, Moves
  <2>2. UNCHANGED <<tips, seen>> \/ (pc[h] = "putTip" /\ Put(d, NewTip(h)))
    BY <1>1, ServeMoves
  <2>3. /\ \A e \in Dids : seen[e] \subseteq seen'[e]
        /\ \A e \in Dids \ {d} : tips'[e] = tips[e]
    BY <2>2 DEF Put, TypeOK
  <2>4. ASSUME NEW g \in Handlers \ {h}, pc'[g] \in AfterPut
        PROVE  /\ pc[g] \in AfterPut /\ abr'[g] = abr[g] /\ NewTip(g)' = NewTip(g)
               /\ abr[g].did \in Dids \ {d}
    <3>1. pc[g] \in AfterPut /\ abr'[g] = abr[g] /\ Busy(g)
      BY <2>1, <2>4 DEF Busy, AfterPut
    <3> QED  BY <2>1, <3>1, NewTipType DEF SerialInv, Exclusive, NewTip
  <2>5. pc'[h] \in AfterPut => abr' = abr /\ NewTip(h)' = NewTip(h)
    BY <2>1 DEF AfterPut, NewTip
  <2>6. Ahead'
    <3>1. pc'[h] \in AfterPut => tips'[abr'[h].did] = NewTip(h)'
      <4>1. CASE pc[h] \in AfterPut
        <5>1. UNCHANGED tips  BY <2>2, <4>1 DEF AfterPut
        <5> QED  BY <2>5, <4>1, <5>1 DEF MessageInv, Ahead
      <4>2. CASE pc[h] \notin AfterPut
        <5>1. pc'[h] \in AfterPut => Put(d, NewTip(h))  BY <1>1, <4>2, EntersAfterPut
        <5> QED  BY <2>0, <2>5, <5>1 DEF Put, TypeOK
      <4> QED  BY <4>1, <4>2
    <3>2. \A g \in Handlers \ {h} : pc'[g] \in AfterPut => tips'[abr'[g].did] = NewTip(g)'
      BY <2>3, <2>4 DEF MessageInv, Ahead
    <3> QED  BY <3>1, <3>2 DEF Ahead
  <2>7. PublishedBehind'
    <3>1. CASE UNCHANGED published
      BY <2>3, <3>1 DEF MessageInv, PublishedBehind
    <3>2. CASE pc[h] = "publish" /\ published' = [published EXCEPT ![d] = NewTip(h)]
      <4>1. NewTip(h) \in seen[d]  BY <3>2 DEF SerialInv, Stored, AfterPut
      <4> QED  BY <2>0, <2>3, <3>2, <4>1 DEF MessageInv, PublishedBehind, TypeOK
    <3> QED  BY <1>1, <3>1, <3>2, PublishedChange
  <2>8. NewsToTell'
    <3>1. pc'[h] \in AfterPut /\ published'[abr'[h].did] # Undef
          => IsStrictPrefix(published'[abr'[h].did], NewTip(h)')
      <4> SUFFICES ASSUME pc'[h] \in AfterPut, published'[d] # Undef
                   PROVE  IsStrictPrefix(published'[d], NewTip(h))
        BY <2>5
      <4>1. UNCHANGED published
        <5>1. Publish(h) => pc'[h] = "idle"  BY DEF Publish, Reply, TypeOK
        <5> QED  BY <1>1, <5>1, PublishedChange DEF AfterPut
      <4>2. CASE pc[h] \in AfterPut
        BY <4>1, <4>2 DEF MessageInv, NewsToTell
      <4>3. CASE pc[h] \notin AfterPut
        <5>1. pc[h] = "putTip"  BY <1>1, <4>3, EntersAfterPut
        <5>2. published[d] \in seen[d]  BY <2>0, <4>1 DEF MessageInv, PublishedBehind
        <5>3. tips[d] # Undef /\ IsPrefix(published[d], tips[d]) /\ published[d] \in Tips
          BY <2>0, <5>2 DEF SerialInv, OneHistory, TypeOK
        <5>4. tips[d] = abr[h].prev  BY <5>1, <5>3, ParentIsTip
        <5> QED  BY <4>1, <5>3, <5>4, NewTipType, StrictPrefixAppend DEF NewTip
      <4> QED  BY <4>2, <4>3
    <3>2. ASSUME NEW g \in Handlers \ {h}, pc'[g] \in AfterPut, published'[abr'[g].did] # Undef
          PROVE  IsStrictPrefix(published'[abr'[g].did], NewTip(g)')
      <4>1. /\ pc[g] \in AfterPut /\ abr'[g] = abr[g] /\ NewTip(g)' = NewTip(g)
            /\ abr[g].did \in Dids \ {d}
        BY <2>4, <3>2
      <4>2. published'[abr[g].did] = published[abr[g].did]
        BY <1>1, <2>0, <4>1, PublishedChange DEF TypeOK
      <4> QED  BY <3>2, <4>1, <4>2 DEF MessageInv, NewsToTell
    <3> QED  BY <3>1, <3>2 DEF NewsToTell
  <2> QED  BY <2>6, <2>7, <2>8 DEF MessageInv
<1>2. ASSUME NEW h \in Handlers, Receive(h) PROVE MessageInv'
  <2>1. /\ UNCHANGED <<tips, seen, published>> /\ pc' = [pc EXCEPT ![h] = "checkGlobal"]
        /\ \A g \in Handlers \ {h} : abr'[g] = abr[g]
    BY <1>2 DEF Receive, TypeOK
  <2> QED  BY <2>1 DEF MessageInv, Ahead, PublishedBehind, NewsToTell, AfterPut, NewTip, TypeOK
<1>3. ASSUME NEW s \in Servers, Crash(s) \/ Restart(s) PROVE MessageInv'
  <2>1. /\ UNCHANGED <<tips, seen, published>>
        /\ \A h \in Handlers : pc'[h] = "idle" \/ (pc'[h] = pc[h] /\ abr'[h] = abr[h])
    BY <1>3 DEF Crash, KeepStore, Restart
  <2> QED  BY <2>1 DEF MessageInv, Ahead, PublishedBehind, NewsToTell, AfterPut, NewTip
<1>4. CASE UNCHANGED vars
  BY <1>4 DEF MessageInv, Ahead, PublishedBehind, NewsToTell, NewTip
<1> QED  BY <1>1, <1>2, <1>3, <1>4 DEF Next

LEMMA MessageInvariant ==
    ASSUME Serial, Durable
    PROVE  Spec => [](TypeOK /\ ChainInv /\ SerialInv /\ MessageInv)
BY MessageInit, MessageStep, SerialInvariant, PTL DEF Spec

\* What a message adds to the one before it.
LEMMA MessageInOrder ==
    ASSUME TypeOK, SerialInv, MessageInv, [Next]_vars, NEW d \in Dids, published'[d] # published[d]
    PROVE  /\ published'[d] \in Tips /\ published'[d] # Undef
           /\ published[d] # Undef => IsStrictPrefix(published[d], published'[d])
<1>1. PICK h \in Handlers : Serve(h)
  <2>1. \A h \in Handlers : Receive(h) => UNCHANGED published  BY DEF Receive
  <2>2. \A s \in Servers : Crash(s) \/ Restart(s) => UNCHANGED published
    BY DEF Crash, Restart
  <2> QED  BY <2>1, <2>2 DEF Next
<1>2. pc[h] = "publish" /\ published' = [published EXCEPT ![abr[h].did] = NewTip(h)]
  BY <1>1, PublishedChange
<1>3. abr[h].did = d /\ published'[d] = NewTip(h)
  BY <1>2, NewTipType DEF TypeOK
<1> QED  BY <1>2, <1>3, NewTipType DEF MessageInv, NewsToTell, AfterPut

\* Subscribers are told of later and later tips of one history, whatever crashes
\* and fails in between.
THEOREM PublishedAlwaysInOrder == ASSUME Serial, Durable PROVE Spec => PublishedInOrder
<1>1. TypeOK /\ SerialInv /\ MessageInv /\ [Next]_vars =>
        [\A d \in Dids : published'[d] # published[d]
            => /\ published'[d] # Undef
               /\ published[d] # Undef => IsStrictPrefix(published[d], published'[d])]_published
  BY MessageInOrder
<1> QED  BY <1>1, MessageInvariant, PTL DEF Spec, PublishedInOrder

LEMMA PrefixTransitive ==
    ASSUME NEW r \in Tips, NEW s \in Tips, NEW t \in Tips, IsPrefix(r, s), IsPrefix(s, t)
    PROVE  IsPrefix(r, t)
<1>1. Len(r) \in Nat /\ Len(s) \in Nat /\ Len(t) \in Nat /\ Len(r) <= Len(s) /\ Len(s) <= Len(t)
  BY DEF IsPrefix, Tips
<1>2. ASSUME NEW q \in Tips, NEW n \in 0 .. Len(q)
      PROVE  /\ SubSeq(q, 1, n) \in Seq(Blocks) /\ Len(SubSeq(q, 1, n)) = n
             /\ \A i \in 1 .. n : SubSeq(q, 1, n)[i] = q[i]
  <2>1. n \in Int /\ \A i \in 1 .. n : q[i] \in Blocks
    BY ElementOfSeq DEF Tips
  <2> QED  BY <2>1, SubSeqProperties
<1>3. /\ Len(r) \in 0 .. Len(r) /\ Len(r) \in 0 .. Len(s) /\ Len(r) \in 0 .. Len(t)
      /\ Len(s) \in 0 .. Len(s) /\ Len(s) \in 0 .. Len(t)
  BY <1>1
<1>4. \A i \in 1 .. Len(r) : s[i] = r[i]
  BY <1>2, <1>3 DEF IsPrefix
<1>5. \A i \in 1 .. Len(s) : t[i] = s[i]
  BY <1>2, <1>3 DEF IsPrefix
<1>6. \A i \in 1 .. Len(r) : SubSeq(r, 1, Len(r))[i] = SubSeq(t, 1, Len(r))[i]
  BY <1>1, <1>2, <1>3, <1>4, <1>5
<1>7. SubSeq(r, 1, Len(r)) = SubSeq(t, 1, Len(r))
  BY <1>2, <1>3, <1>6, SeqEqual
<1> QED  BY <1>1, <1>7 DEF IsPrefix

LEMMA AckedPublishedStep ==
    ASSUME "publish" \notin Faults, TypeOK, SerialInv, MessageInv, AckedPublished, [Next]_vars
    PROVE  AckedPublished'
<1> SUFFICES ASSUME NEW h \in Handlers, Acked(h)'
             PROVE  /\ published'[resp'[h].did] # Undef
                    /\ IsPrefix(resp'[h].newTip, published'[resp'[h].did])
  BY DEF AckedPublished
<1>1. CASE Acked(h) /\ resp'[h] = resp[h]
  <2> DEFINE d == resp[h].did
             tip == resp[h].newTip
  <2>1. /\ published[d] # Undef /\ IsPrefix(tip, published[d]) /\ d \in Dids /\ tip \in Tips
        /\ published[d] \in Tips
    BY <1>1 DEF AckedPublished, SerialInv, AckedStored, TypeOK, MaybeTips
  <2>2. CASE published'[d] = published[d]
    BY <1>1, <2>1, <2>2
  <2>3. CASE published'[d] # published[d]
    <3>1. published'[d] \in Tips /\ published'[d] # Undef /\ IsPrefix(published[d], published'[d])
      BY <2>1, <2>3, MessageInOrder DEF IsStrictPrefix
    <3>2. IsPrefix(tip, published'[d])  BY <2>1, <3>1, PrefixTransitive
    <3> QED  BY <1>1, <3>1, <3>2
  <2> QED  BY <2>2, <2>3
<1>2. CASE ~(Acked(h) /\ resp'[h] = resp[h])
  <2>1. resp'[h] # resp[h]  BY <1>2 DEF Acked
  <2>2. PICK g \in Handlers : Serve(g)
    <3>1. \A g \in Handlers : ~Receive(g)
      BY <2>1 DEF Receive, Acked, NoReply, Payload, TypeOK
    <3>2. \A s \in Servers : ~(Crash(s) \/ Restart(s))
      BY <2>1 DEF Crash, Restart
    <3> QED  BY <2>1, <3>1, <3>2 DEF Next
  <2>3. g = h  BY <2>1, <2>2, Moves
  <2>4. Publish(h) /\ Reply(h, Committed(abr[h].did, NewTip(h)))
    <3>1. \A label : Moved(h, label) => resp'[h] \in {resp[h], ErrorReply, PolicyReply, InvalidReply}
      BY DEF Moved, Reply, TypeOK
    <3>2. resp'[h] \notin {resp[h], ErrorReply, PolicyReply, InvalidReply}
      BY <2>1 DEF Acked, ErrorReply, PolicyReply, InvalidReply, Payload
    <3> QED  BY <2>2, <2>3, <3>1, <3>2, ServeMoves
  <2>5. /\ resp'[h].did = abr[h].did /\ resp'[h].newTip = NewTip(h)
        /\ published' = [published EXCEPT ![abr[h].did] = NewTip(h)]
    BY <2>4 DEF Publish, Announced, Reply, Committed, Payload, TypeOK
  <2> QED  BY <2>5, NewTipType, PrefixSelf DEF TypeOK
<1> QED  BY <1>1, <1>2

\* While the queue takes what it is sent, who has been told that an update is valid
\* knows that the subscribers have been told of it, or of a later one.
THEOREM AckedAlwaysPublished ==
    ASSUME Serial, Durable, "publish" \notin Faults PROVE Spec => []AckedPublished
<1>1. Init => AckedPublished
  BY DEF Init, AckedPublished, Acked, NoReply, Payload
<1> QED  BY <1>1, AckedPublishedStep, MessageInvariant, PTL DEF Spec
=============================================================================
