-------------------------- MODULE AggregatorProofs --------------------------
(***************************************************************************)
(* Theorems about the write path, for every set of objects, blocks,        *)
(* servers and handlers.                                                   *)
(***************************************************************************)
EXTENDS AggregatorProps, PolicyLemmas, SequenceTheorems, WellFoundedInduction

USE DEF storeVars, handlerVars, vars

-----------------------------------------------------------------------------
(***************************************************************************)
(* What the operators of ChainTree return.                                 *)
(***************************************************************************)
\* A set of indices that is not empty has a greatest one, which is what Max is.
LEMMA MaxIsMember ==
    ASSUME NEW n \in Nat, NEW S, S \subseteq 1 .. n, S # {}
    PROVE  Max(S) \in S
<1> DEFINE T == {k \in Nat : n - k \in S}
<1>1. T \subseteq Nat /\ T # {}
  <2>1. PICK i \in S : TRUE  OBVIOUS
  <2>2. n - i \in Nat /\ n - (n - i) = i  BY <2>1
  <2> QED  BY <2>1, <2>2
<1>2. PICK k \in T : \A y \in T : ~ (<<y, k>> \in OpToRel(<, Nat))
  <2> HIDE DEF T
  <2> QED  BY <1>1, NatLessThanWellFounded, WFMin
<1>3. \A y \in T : ~ (y < k)
  BY <1>1, <1>2 DEF OpToRel
<1>4. n - k \in S /\ \A j \in S : n - k >= j
  <2>1. \A j \in S : j \in Nat /\ n - j \in T  OBVIOUS
  <2>2. k \in Nat /\ n - k \in S  OBVIOUS
  <2> HIDE DEF T
  <2> QED  BY <1>1, <1>3, <2>1, <2>2
<1> QED  BY <1>4 DEF Max

\* The policies of a tree are those of one of its blocks, or none.
LEMMA PoliciesOrigin ==
    ASSUME NEW tip \in Tips
    PROVE  PoliciesAt(tip) = Empty \/ \E b \in Blocks : PoliciesAt(tip) = b.policies
<1> DEFINE W == {i \in DOMAIN tip : tip[i].writesPolicy}
<1>1. CASE W = {}
  BY <1>1 DEF PoliciesAt
<1>2. CASE W # {}
  <2>1. Len(tip) \in Nat /\ W \subseteq 1 .. Len(tip)
    BY DEF Tips
  <2>2. Max(W) \in W
    <3> HIDE DEF W
    <3> QED  BY <1>2, <2>1, MaxIsMember
  <2>3. tip[Max(W)] \in Blocks
    BY <2>1, <2>2, ElementOfSeq DEF Tips
  <2> QED  BY <1>2, <2>3 DEF PoliciesAt, LastOf
<1> QED  BY <1>1, <1>2

\* The policies and the wanted value of a tree have the types the policies need.
LEMMA PoliciesAtType == ASSUME NEW tip \in Tips PROVE PoliciesAt(tip) \in PolicyNodes
<1>1. Empty \in PolicyNodes
  BY DEF Empty, PolicyNodes
<1>2. \A b \in Blocks : b.policies \in PolicyNodes
  BY BlocksAssumption DEF BlockShape
<1> QED  BY <1>1, <1>2, PoliciesOrigin

LEMMA ValueAtType == ASSUME NEW tip \in Tips PROVE ValueAt(tip) \in WantedValues
<1> DEFINE W == {i \in DOMAIN tip : tip[i].value # "keep"}
<1>1. CASE W = {}
  BY <1>1 DEF ValueAt, WantedValues
<1>2. CASE W # {}
  <2>1. Len(tip) \in Nat /\ W \subseteq 1 .. Len(tip)
    BY DEF Tips
  <2>2. Max(W) \in W
    <3> HIDE DEF W
    <3> QED  BY <1>2, <2>1, MaxIsMember
  <2>3. tip[Max(W)] \in BlockShape
    BY <2>1, <2>2, ElementOfSeq, BlocksAssumption DEF Tips
  <2>4. tip[Max(W)].value # "keep"
    BY <2>2
  <2> QED  BY <1>2, <2>3, <2>4 DEF ValueAt, LastOf, BlockShape
<1> QED  BY <1>1, <1>2

LEMMA InputOfType ==
    ASSUME NEW tip \in Tips, NEW b \in Blocks, NEW other \in Tips
    PROVE  InputOf(tip, b, other) \in Inputs
<1>1. b.writesPolicy \in BOOLEAN  BY BlocksAssumption DEF BlockShape
<1>2. ValueAt(tip) \in WantedValues /\ ValueAt(other) \in WantedValues  BY ValueAtType
<1> QED  BY <1>1, <1>2 DEF InputOf, Inputs, OtherValues

\* A block the policies of a tree let through is one they allow.
LEMMA ValidateAbrSound ==
    ASSUME NEW prev \in Tips, NEW b \in Blocks, NEW other \in Tips,
           ValidateAbr(prev, b, other) = "valid"
    PROVE  Allows(PoliciesAt(prev), WritePolicy, InputOf(prev, b, other))
BY PoliciesAtType, InputOfType, WriteSound DEF ValidateAbr

-----------------------------------------------------------------------------
(***************************************************************************)
(* Type correctness.                                                       *)
(***************************************************************************)
LEMMA NoRequestType == NoRequest \in Requests
<1>1. \E r \in [did : Dids, prev : {<<>>}, block : Blocks] : TRUE
  <2>1. PICK d \in Dids, b \in Blocks : TRUE  BY NonEmptyAssumption
  <2>2. [did |-> d, prev |-> <<>>, block |-> b] \in [did : Dids, prev : {<<>>}, block : Blocks]
    BY <2>1
  <2> QED  BY <2>2
<1>2. NoRequest \in [did : Dids, prev : {<<>>}, block : Blocks]
  BY <1>1 DEF NoRequest
<1>3. <<>> \in Tips  BY EmptySeq DEF Tips
<1> QED  BY <1>2, <1>3 DEF Requests

\* What clients send are sequences of blocks.
LEMMA DraftsType == Drafts \subseteq Tips
<1>1. ASSUME NEW n \in 0 .. MaxHeight - 1 PROVE [1 .. n -> Blocks] \subseteq Seq(Blocks)
  <2>1. n \in Nat  BY SwitchAssumption
  <2> QED  BY <2>1, SeqDef
<1> QED  BY <1>1 DEF Drafts, SeqOf, Tips

LEMMA PrefixesType == ASSUME NEW s \in Tips PROVE Prefixes(s) \subseteq Tips
<1>1. ASSUME NEW n \in 0 .. Len(s) PROVE SubSeq(s, 1, n) \in Seq(Blocks)
  <2>1. n \in Int /\ \A i \in 1 .. n : s[i] \in Blocks
    BY ElementOfSeq DEF Tips
  <2> QED  BY <2>1, SubSeqProperties DEF Tips
<1> QED  BY <1>1 DEF Prefixes, Tips

LEMMA ParentsType == ASSUME TypeOK, NEW d \in Dids PROVE Parents(d) \subseteq Tips
<1>1. <<>> \in Tips  BY EmptySeq DEF Tips
<1> QED  BY <1>1, DraftsType DEF Parents, TypeOK

LEMMA NewTipType ==
    ASSUME TypeOK, NEW h \in Handlers
    PROVE  /\ abr[h] \in Requests /\ abr[h].did \in Dids
           /\ abr[h].prev \in Tips /\ abr[h].block \in Blocks
           /\ NewTip(h) \in Tips /\ NewTip(h) # Undef
<1>1. abr[h] \in Requests  BY DEF TypeOK
<1>2. abr[h].did \in Dids /\ abr[h].prev \in Tips /\ abr[h].block \in Blocks
  BY <1>1 DEF Requests
<1>3. NewTip(h) \in Tips
  BY <1>2, AppendProperties DEF NewTip, Tips
<1> QED  BY <1>1, <1>2, <1>3, UndefAssumption

LEMMA ReplyTypes ==
    /\ {NoReply, ErrorReply, PolicyReply, InvalidReply} \subseteq Replies
    /\ \A d \in Dids, t \in Tips : Committed(d, t) \in Replies
BY DEF NoReply, ErrorReply, PolicyReply, InvalidReply, Committed, Payload, Replies, MaybeTips

\* The locals of the handlers: what every step that moves or answers one keeps.
LEMMA GotoType ==
    ASSUME TypeOK, NEW h \in Handlers, NEW label \in Labels, Goto(h, label)
    PROVE  /\ pc' \in [Handlers -> Labels] /\ abr' \in [Handlers -> Requests]
           /\ resp' \in [Handlers -> Replies] /\ query' \in [Handlers -> Queries]
           /\ tree' \in [Handlers -> Tips]
BY DEF TypeOK, Goto

LEMMA PassType ==
    ASSUME TypeOK, NEW h \in Handlers, NEW label \in Labels, Pass(h, label)
    PROVE  /\ pc' \in [Handlers -> Labels] /\ abr' \in [Handlers -> Requests]
           /\ resp' \in [Handlers -> Replies] /\ query' \in [Handlers -> Queries]
           /\ tree' \in [Handlers -> Tips]
<1>1. NoQuery \in Queries /\ <<>> \in Tips
  BY EmptySeq DEF NoQuery, Queries, Tips
<1> QED  BY <1>1 DEF TypeOK, Pass

LEMMA ReplyType ==
    ASSUME TypeOK, NEW h \in Handlers, NEW r \in Replies, Reply(h, r)
    PROVE  /\ pc' \in [Handlers -> Labels] /\ abr' \in [Handlers -> Requests]
           /\ resp' \in [Handlers -> Replies] /\ query' \in [Handlers -> Queries]
           /\ tree' \in [Handlers -> Tips]
<1>1. NoQuery \in Queries /\ "idle" \in Labels /\ <<>> \in Tips
  BY EmptySeq DEF NoQuery, Queries, Labels, Tips
<1> QED  BY <1>1, NoRequestType DEF TypeOK, Reply

\* What a policy decides: the request goes on, or is answered.
LEMMA Decided ==
    ASSUME NEW h, NEW verdict, NEW label, NEW refusal, Decide(h, verdict, label, refusal)
    PROVE  \/ verdict = "valid" /\ Pass(h, label)
           \/ Reply(h, refusal) \/ Reply(h, ErrorReply)
BY DEF Decide, Passes

\* Where the global policy lets the block through: without wants on the block alone,
\* with wants on the config tree and what is found of the other one.
Allowed(h) ==
    \/ /\ pc[h] = "loadWants" /\ ~HasWriteWants(h)
       /\ PolicyValidator(query[h], FALSE, InputOf(tree[h], abr[h].block, <<>>)) = "valid"
    \/ /\ pc[h] = "evaluateGlobal"
       /\ \E other \in LatestOther :
             PolicyValidator(query[h], TRUE, InputOf(tree[h], abr[h].block, other)) = "valid"

LEMMA GlobalDecided ==
    ASSUME NEW h, LoadGlobalWants(h) \/ EvaluateGlobalPolicy(h)
    PROVE  /\ pc[h] \in {"loadWants", "evaluateGlobal"} /\ UNCHANGED <<storeVars, agg>>
           /\ \/ pc[h] = "loadWants" /\ HasWriteWants(h) /\ Goto(h, "evaluateGlobal")
              \/ Allowed(h) /\ Pass(h, "authenticate")
              \/ Reply(h, PolicyReply) \/ Reply(h, ErrorReply)
<1> DEFINE verdict(hasWants, other) ==
              PolicyValidator(query[h], hasWants, InputOf(tree[h], abr[h].block, other))
<1>1. ASSUME NEW hasWants, NEW other, DecideGlobal(h, hasWants, other)
      PROVE  \/ verdict(hasWants, other) = "valid" /\ Pass(h, "authenticate")
             \/ Reply(h, PolicyReply) \/ Reply(h, ErrorReply)
  BY <1>1, Decided DEF DecideGlobal
<1>2. CASE LoadGlobalWants(h)
  BY <1>1, <1>2 DEF LoadGlobalWants, Allowed
<1>3. CASE EvaluateGlobalPolicy(h)
  BY <1>1, <1>3 DEF EvaluateGlobalPolicy, Allowed
<1> QED  BY <1>2, <1>3

LEMMA TreeDecided ==
    ASSUME NEW h, Validate(h)
    PROVE  /\ pc[h] = "validate" /\ UNCHANGED <<storeVars, agg>>
           /\ \/ /\ Pass(h, "checkTip")
                 /\ \E other \in LatestOther : ValidateAbr(abr[h].prev, abr[h].block, other) = "valid"
              \/ Reply(h, InvalidReply) \/ Reply(h, ErrorReply)
<1> DEFINE verdict(other) == ValidateAbr(abr[h].prev, abr[h].block, other)
<1>1. ASSUME NEW other \in LatestOther, Decide(h, verdict(other), "checkTip", InvalidReply)
      PROVE  \/ verdict(other) = "valid" /\ Pass(h, "checkTip")
             \/ Reply(h, InvalidReply) \/ Reply(h, ErrorReply)
  BY <1>1, Decided
<1> QED  BY <1>1 DEF Validate

\* Where a step of a handler takes it.
Moved(h, label) ==
    \/ \E next \in label : pc' = [pc EXCEPT ![h] = next] /\ UNCHANGED <<abr, resp>>
    \/ \E r \in {ErrorReply, PolicyReply, InvalidReply} : Reply(h, r)

LEMMA ServeMoves ==
    ASSUME TypeOK, NEW h \in Handlers, Serve(h)
    PROVE  /\ \/ pc[h] = "checkGlobal" /\ Moved(h, {"authenticate", "loadGlobal"})
              \/ pc[h] = "loadGlobal" /\ Moved(h, {"loadTree"})
              \/ pc[h] = "loadTree" /\ Moved(h, {"loadWants"})
              \/ pc[h] = "loadWants" /\ Moved(h, {"evaluateGlobal", "authenticate"})
              \/ pc[h] = "evaluateGlobal" /\ Moved(h, {"authenticate"})
              \/ Authenticate(h) /\ pc[h] = "authenticate" /\ Moved(h, {"validate"})
              \/ Validate(h) /\ pc[h] = "validate" /\ Moved(h, {"checkTip"})
              \/ CheckTip(h) /\ pc[h] = "checkTip" /\ Moved(h, {"storeState"})
              \/ pc[h] = "storeState" /\ Moved(h, {"putTip"})
              \/ /\ PutTip(h) /\ pc[h] = "putTip"
                 /\ Moved(h, {"publish"} \cup IF abr[h].did = ConfigDid THEN {"loadConfig"} ELSE {})
              \/ pc[h] = "loadConfig" /\ Moved(h, {"installWrite", "publish"})
              \/ pc[h] = "installWrite" /\ Moved(h, {"installWriteWants"})
              \/ pc[h] = "installWriteWants" /\ Moved(h, {"installRead"})
              \/ pc[h] = "installRead" /\ Moved(h, {"installReadWants"})
              \/ pc[h] = "installReadWants" /\ Moved(h, {"publish"})
              \/ /\ Publish(h) /\ pc[h] = "publish" /\ UNCHANGED <<tips, seen>>
                 /\ Reply(h, Committed(abr[h].did, NewTip(h)))
           /\ \/ UNCHANGED <<tips, seen>>
              \/ pc[h] = "putTip" /\ Put(abr[h].did, NewTip(h))
<1>1. CASE CheckGlobalPolicy(h)
  BY <1>1 DEF CheckGlobalPolicy, Moved, Goto
<1>2. CASE LoadGlobalPolicy(h)
  BY <1>2 DEF LoadGlobalPolicy, Moved
<1>3. CASE LoadGlobalTree(h) \/ LoadGlobalWants(h) \/ EvaluateGlobalPolicy(h)
  <2>1. CASE LoadGlobalTree(h)  BY <2>1 DEF LoadGlobalTree, Moved
  <2>2. CASE LoadGlobalWants(h)
    BY <2>2, GlobalDecided DEF LoadGlobalWants, Moved, Goto, Pass
  <2>3. CASE EvaluateGlobalPolicy(h)
    BY <2>3, GlobalDecided DEF EvaluateGlobalPolicy, Moved, Goto, Pass
  <2> QED  BY <1>3, <2>1, <2>2, <2>3
<1>4. CASE Authenticate(h)
  BY <1>4 DEF Authenticate, Moved, Goto
<1>5. CASE Validate(h)
  BY <1>5, TreeDecided DEF Moved, Pass
<1>6. CASE CheckTip(h)
  BY <1>6 DEF CheckTip, Moved, Goto
<1>7. CASE StoreState(h)
  BY <1>7 DEF StoreState, Moved, Goto
<1>8. CASE PutTip(h)
  BY <1>8 DEF PutTip, PutFails, Moved, Goto
<1>9. CASE LoadConfig(h)
  BY <1>9 DEF LoadConfig, Moved, Goto
<1>10. CASE InstallWritePolicy(h)
  BY <1>10 DEF InstallWritePolicy, InstallFails, Install, Moved, Goto
<1>11. CASE InstallWriteWants(h)
  BY <1>11 DEF InstallWriteWants, Install, Moved, Goto
<1>12. CASE InstallReadPolicy(h)
  BY <1>12 DEF InstallReadPolicy, InstallFails, Install, Moved, Goto
<1>13. CASE InstallReadWants(h)
  BY <1>13 DEF InstallReadWants, Install, Moved, Goto
<1>14. CASE Publish(h)
  BY <1>14 DEF Publish
<1> QED
  BY <1>1, <1>2, <1>3, <1>4, <1>5, <1>6, <1>7, <1>8, <1>9, <1>10, <1>11, <1>12, <1>13, <1>14
  DEF Serve

\* A step of a handler moves only that handler, and either goes on with the
\* request or drops it.
LEMMA Moves ==
    ASSUME TypeOK, NEW h \in Handlers, Serve(h)
    PROVE  /\ Busy(h)
           /\ \A g \in Handlers \ {h} :
                 pc'[g] = pc[g] /\ abr'[g] = abr[g] /\ resp'[g] = resp[g]
           /\ pc'[h] = "idle" \/ (abr' = abr /\ resp' = resp)
<1>1. ASSUME NEW label, Moved(h, label)
      PROVE  /\ \A g \in Handlers \ {h} :
                   pc'[g] = pc[g] /\ abr'[g] = abr[g] /\ resp'[g] = resp[g]
             /\ pc'[h] = "idle" \/ (abr' = abr /\ resp' = resp)
  BY <1>1 DEF Moved, Reply, TypeOK
<1>2. ASSUME NEW r, Reply(h, r)
      PROVE  /\ \A g \in Handlers \ {h} :
                   pc'[g] = pc[g] /\ abr'[g] = abr[g] /\ resp'[g] = resp[g]
             /\ pc'[h] = "idle"
  BY <1>2 DEF Reply, TypeOK
<1>3. Busy(h)  BY ServeMoves DEF Busy
<1> QED  BY <1>1, <1>2, <1>3, ServeMoves

\* Only a handler of the config tree sets it up, so there is one.
ConfigNamed == \A h \in Handlers : pc[h] = "loadConfig" => ConfigDid \in Dids

LEMMA ConfigNamedStep == TypeOK /\ ConfigNamed /\ [Next]_vars => ConfigNamed'
<1> SUFFICES ASSUME TypeOK, ConfigNamed, [Next]_vars PROVE ConfigNamed'  OBVIOUS
<1>1. ASSUME NEW h \in Handlers, Receive(h) PROVE ConfigNamed'
  BY <1>1 DEF Receive, ConfigNamed, TypeOK
<1>2. ASSUME NEW h \in Handlers, Serve(h) PROVE ConfigNamed'
  <2>1. abr[h].did \in Dids  BY NewTipType
  <2>2. \A g \in Handlers \ {h} : pc'[g] = pc[g]
    BY <1>2, Moves
  <2>3. pc'[h] = "loadConfig" => abr[h].did = ConfigDid
    BY <1>2, ServeMoves DEF Moved, Reply, TypeOK
  <2> QED  BY <2>1, <2>2, <2>3 DEF ConfigNamed
<1>3. ASSUME NEW s \in Servers, Crash(s) \/ Restart(s) PROVE ConfigNamed'
  <2>1. \A h \in Handlers : pc'[h] \in {"idle", pc[h]}
    BY <1>3 DEF Crash, Restart
  <2> QED  BY <2>1 DEF ConfigNamed
<1>4. CASE UNCHANGED vars
  BY <1>4 DEF ConfigNamed
<1> QED  BY <1>1, <1>2, <1>3, <1>4 DEF Next

LEMMA BlankType == \A up \in BOOLEAN : Blank(up) \in Aggregators
BY DEF Blank, Aggregators, NoQuery, Queries, MaybeTips

LEMMA ConfiguredType == ASSUME NEW tip \in Tips PROVE Configured(tip) \in Aggregators
<1> DEFINE write == PolicyFromTree(PoliciesAt(tip), WritePolicy)
           read  == PolicyFromTree(PoliciesAt(tip), ReadPolicy)
<1>1. /\ write.query \in Queries /\ write.hasWants \in BOOLEAN
      /\ read.query \in Queries /\ read.hasWants \in BOOLEAN
  BY PoliciesAtType, PolicyFromTreeType
<1>2. tip \in MaybeTips  BY DEF MaybeTips
<1>3. Configured(tip) = [Blank(TRUE) EXCEPT !.configTree = tip,
          !.globalWritePolicy = write.query, !.hasWriteWants = write.hasWants,
          !.globalReadPolicy = read.query, !.hasReadWants = read.hasWants]
  BY DEF Configured
<1> HIDE DEF write, read
<1> QED  BY <1>1, <1>2, <1>3 DEF Blank, Aggregators

\* What setupConfigTree installs has the type of the field it goes to.
LEMMA InstallType ==
    ASSUME TypeOK, NEW h \in Handlers, NEW label \in Labels,
           NEW field \in {"globalWritePolicy", "hasWriteWants", "globalReadPolicy", "hasReadWants"},
           NEW value \in IF field \in {"globalWritePolicy", "globalReadPolicy"}
                         THEN Queries ELSE BOOLEAN,
           Install(h, field, value, label)
    PROVE  TypeOK'
<1>1. Host[h] \in Servers  BY HostAssumption
<1>2. agg[Host[h]] \in Aggregators  BY <1>1 DEF TypeOK
<1>3. [agg[Host[h]] EXCEPT ![field] = value] \in Aggregators
  <2>1. CASE field = "globalWritePolicy"  BY <1>2, <2>1 DEF Aggregators
  <2>2. CASE field = "hasWriteWants"      BY <1>2, <2>2 DEF Aggregators
  <2>3. CASE field = "globalReadPolicy"   BY <1>2, <2>3 DEF Aggregators
  <2>4. CASE field = "hasReadWants"       BY <1>2, <2>4 DEF Aggregators
  <2> QED  BY <2>1, <2>2, <2>3, <2>4
<1>4. agg' = [agg EXCEPT ![Host[h]] = [agg[Host[h]] EXCEPT ![field] = value]]
  BY DEF Install
<1>5. agg' \in [Servers -> Aggregators]
  BY <1>1, <1>3, <1>4 DEF TypeOK
<1>6. Goto(h, label) /\ UNCHANGED storeVars  BY DEF Install
<1> QED  BY <1>5, <1>6, GotoType DEF TypeOK

LEMMA InstallingType ==
    ASSUME TypeOK, NEW h \in Handlers, NEW name \in {WritePolicy, ReadPolicy}
    PROVE  Installing(h, name).query \in Queries /\ Installing(h, name).hasWants \in BOOLEAN
BY PoliciesAtType, PolicyFromTreeType DEF TypeOK, Installing

LEMMA TypeInit == Init => TypeOK /\ ConfigNamed
<1> SUFFICES ASSUME Init PROVE TypeOK /\ ConfigNamed  OBVIOUS
<1>1. NoQuery \in Queries /\ "idle" \in Labels /\ <<>> \in Tips /\ Undef \in MaybeTips
  BY EmptySeq DEF NoQuery, Queries, Labels, Tips, MaybeTips
<1> QED  BY <1>1, NoRequestType, ReplyTypes, BlankType DEF Init, TypeOK, ConfigNamed

LEMMA TypeStep == TypeOK /\ ConfigNamed /\ [Next]_vars => TypeOK'
<1> SUFFICES ASSUME TypeOK, ConfigNamed, [Next]_vars PROVE TypeOK'  OBVIOUS
<1> USE DEF Labels
<1>0. NoQuery \in Queries /\ <<>> \in Tips /\ Undef \in MaybeTips
  BY EmptySeq DEF NoQuery, Queries, Tips, MaybeTips
<1>1. ASSUME NEW h \in Handlers, Receive(h) PROVE TypeOK'
  <2>1. PICK d \in Dids, b \in Blocks : \E prev \in Parents(d) :
            abr' = [abr EXCEPT ![h] = [did |-> d, prev |-> prev, block |-> b]]
    BY <1>1 DEF Receive
  <2>2. \A prev \in Parents(d) : [did |-> d, prev |-> prev, block |-> b] \in Requests
    BY ParentsType DEF Requests
  <2>3. abr' \in [Handlers -> Requests]
    BY <2>1, <2>2 DEF TypeOK
  <2> QED  BY <1>1, <2>3, ReplyTypes DEF Receive, TypeOK
<1>2. ASSUME NEW h \in Handlers, CheckGlobalPolicy(h) PROVE TypeOK'
  BY <1>2, GotoType DEF CheckGlobalPolicy, TypeOK
<1>3. ASSUME NEW h \in Handlers, LoadGlobalPolicy(h) PROVE TypeOK'
  <2> DEFINE policy == agg[Host[h]].globalWritePolicy
  <2>1. policy \in Queries
    BY HostAssumption DEF TypeOK, Aggregators
  <2>2. CASE Reply(h, ErrorReply)
    BY <1>3, <2>2, ReplyType, ReplyTypes DEF LoadGlobalPolicy, TypeOK
  <2>3. CASE ~Reply(h, ErrorReply)
    <3>1. /\ query' = [query EXCEPT ![h] = policy] /\ pc' = [pc EXCEPT ![h] = "loadTree"]
          /\ UNCHANGED <<abr, tree, resp, storeVars, agg>>
      BY <1>3, <2>3 DEF LoadGlobalPolicy
    <3> HIDE DEF policy
    <3> QED  BY <2>1, <3>1 DEF TypeOK
  <2> QED  BY <2>2, <2>3
<1>4. ASSUME NEW h \in Handlers, LoadGlobalTree(h) \/ LoadGlobalWants(h) \/ EvaluateGlobalPolicy(h)
      PROVE  TypeOK'
  <2>1. CASE LoadGlobalTree(h)
    <3>1. agg[Host[h]].configTree \in MaybeTips
      BY HostAssumption DEF TypeOK, Aggregators
    <3>2. ChainOf(agg[Host[h]].configTree) \in Tips
      BY <1>0, <3>1 DEF ChainOf, MaybeTips
    <3> QED  BY <2>1, <3>2 DEF LoadGlobalTree, TypeOK
  <2>2. CASE LoadGlobalWants(h) \/ EvaluateGlobalPolicy(h)
    <3>1. /\ UNCHANGED <<storeVars, agg>>
          /\ \/ Goto(h, "evaluateGlobal") \/ Pass(h, "authenticate")
             \/ Reply(h, PolicyReply) \/ Reply(h, ErrorReply)
      BY <2>2, GlobalDecided
    <3> QED  BY <3>1, GotoType, PassType, ReplyType, ReplyTypes DEF TypeOK
  <2> QED  BY <1>4, <2>1, <2>2
<1>5. ASSUME NEW h \in Handlers, Authenticate(h) PROVE TypeOK'
  <2>1. /\ Goto(h, "validate") \/ Reply(h, InvalidReply)
        /\ UNCHANGED <<storeVars, agg>>
    BY <1>5 DEF Authenticate
  <2> QED  BY <2>1, GotoType, ReplyType, ReplyTypes DEF TypeOK
<1>6. ASSUME NEW h \in Handlers, Validate(h) PROVE TypeOK'
  BY <1>6, TreeDecided, PassType, ReplyType, ReplyTypes DEF TypeOK
<1>7. ASSUME NEW h \in Handlers, CheckTip(h) PROVE TypeOK'
  <2>1. /\ Goto(h, "storeState") \/ Reply(h, ErrorReply)
        /\ UNCHANGED <<storeVars, agg>>
    BY <1>7 DEF CheckTip
  <2> QED  BY <2>1, GotoType, ReplyType, ReplyTypes DEF TypeOK
<1>8. ASSUME NEW h \in Handlers, StoreState(h) PROVE TypeOK'
  <2>1. nodes' \in [Dids -> SUBSET Tips]
    <3>1. \A state \in States(h) : state \subseteq Tips
      BY NewTipType, PrefixesType DEF States
    <3> QED  BY <1>8, <3>1, NewTipType DEF StoreState, NewNodes, TypeOK
  <2> QED  BY <1>8, <2>1, GotoType DEF StoreState, TypeOK
<1>9. ASSUME NEW h \in Handlers, PutTip(h) PROVE TypeOK'
  <2>1. tips' \in [Dids -> MaybeTips] /\ seen' \in [Dids -> SUBSET Tips]
    BY <1>9, NewTipType DEF PutTip, PutFails, Put, TypeOK, MaybeTips
  <2>2. /\ Reply(h, ErrorReply) \/ \E label \in {"loadConfig", "publish"} : Goto(h, label)
        /\ UNCHANGED <<nodes, published, agg>>
    BY <1>9 DEF PutTip, PutFails
  <2> QED  BY <2>1, <2>2, GotoType, ReplyType, ReplyTypes DEF TypeOK
<1>10. ASSUME NEW h \in Handlers, LoadConfig(h) PROVE TypeOK'
  <2> DEFINE tip == tips[ConfigDid]
  <2>1. CASE (Reply(h, ErrorReply) \/ Goto(h, "publish")) /\ UNCHANGED agg
    BY <1>10, <2>1, GotoType, ReplyType, ReplyTypes DEF LoadConfig, TypeOK
  <2>2. CASE ~((Reply(h, ErrorReply) \/ Goto(h, "publish")) /\ UNCHANGED agg)
    <3>1. /\ tip \in nodes[ConfigDid]
          /\ agg' = [agg EXCEPT ![Host[h]].configTree = tip]
          /\ tree' = [tree EXCEPT ![h] = tip]
          /\ pc' = [pc EXCEPT ![h] = "installWrite"]
          /\ UNCHANGED <<abr, query, resp, storeVars>>
      BY <1>10, <2>2 DEF LoadConfig
    <3>2. tip \in Tips /\ tip \in MaybeTips
      BY <1>10, <3>1 DEF LoadConfig, ConfigNamed, TypeOK, MaybeTips
    <3>3. agg' \in [Servers -> Aggregators]
      BY <3>1, <3>2, HostAssumption DEF TypeOK, Aggregators
    <3> HIDE DEF tip
    <3> QED  BY <3>1, <3>2, <3>3 DEF TypeOK
  <2> QED  BY <2>1, <2>2
<1>11. ASSUME NEW h \in Handlers, InstallWritePolicy(h) PROVE TypeOK'
  <2>1. CASE Install(h, "globalWritePolicy", Installing(h, WritePolicy).query, "installWriteWants")
    BY <2>1, InstallingType, InstallType
  <2>2. CASE InstallFails(h)
    BY <2>2, ReplyType, ReplyTypes DEF InstallFails, TypeOK
  <2> QED  BY <1>11, <2>1, <2>2 DEF InstallWritePolicy
<1>12. ASSUME NEW h \in Handlers, InstallWriteWants(h) PROVE TypeOK'
  BY <1>12, InstallingType, InstallType DEF InstallWriteWants
<1>13. ASSUME NEW h \in Handlers, InstallReadPolicy(h) PROVE TypeOK'
  <2>1. CASE Install(h, "globalReadPolicy", Installing(h, ReadPolicy).query, "installReadWants")
    BY <2>1, InstallingType, InstallType
  <2>2. CASE InstallFails(h)
    BY <2>2, ReplyType, ReplyTypes DEF InstallFails, TypeOK
  <2> QED  BY <1>13, <2>1, <2>2 DEF InstallReadPolicy
<1>14. ASSUME NEW h \in Handlers, InstallReadWants(h) PROVE TypeOK'
  BY <1>14, InstallingType, InstallType DEF InstallReadWants
<1>15. ASSUME NEW h \in Handlers, Publish(h) PROVE TypeOK'
  <2>1. Committed(abr[h].did, NewTip(h)) \in Replies
    BY NewTipType, ReplyTypes
  <2>2. published' \in [Dids -> MaybeTips]
    BY <1>15, NewTipType DEF Publish, Announced, TypeOK, MaybeTips
  <2> QED  BY <1>15, <2>1, <2>2, ReplyType DEF Publish, TypeOK
<1>16. ASSUME NEW s \in Servers, Crash(s) PROVE TypeOK'
  <2>1. tips' \in [Dids -> MaybeTips] /\ nodes' \in [Dids -> SUBSET Tips]
    BY <1>0, <1>16 DEF Crash, KeepStore, TypeOK
  <2>2. agg' \in [Servers -> Aggregators]
    BY <1>16, BlankType DEF Crash, TypeOK
  <2>3. /\ pc' \in [Handlers -> Labels] /\ abr' \in [Handlers -> Requests]
        /\ query' \in [Handlers -> Queries] /\ tree' \in [Handlers -> Tips]
    BY <1>0, <1>16, NoRequestType DEF Crash, TypeOK
  <2> QED  BY <1>16, <2>1, <2>2, <2>3 DEF Crash, TypeOK
<1>17. ASSUME NEW s \in Servers, Restart(s) PROVE TypeOK'
  <2>1. ConfigTip \in MaybeTips
    BY <1>0, ConfigAssumption DEF ConfigTip, TypeOK
  <2>2. (IF ConfigTip = Undef THEN Blank(TRUE) ELSE Configured(ConfigTip)) \in Aggregators
    BY <2>1, BlankType, ConfiguredType DEF MaybeTips
  <2> QED  BY <1>17, <2>2 DEF Restart, TypeOK
<1>18. CASE UNCHANGED vars
  BY <1>18 DEF TypeOK
<1> QED
  BY <1>1, <1>2, <1>3, <1>4, <1>5, <1>6, <1>7, <1>8, <1>9, <1>10, <1>11, <1>12, <1>13,
     <1>14, <1>15, <1>16, <1>17, <1>18 DEF Next, Serve

\* Every variable keeps its type, whatever the environment does.
THEOREM TypeCorrect == Spec => []TypeOK
BY TypeInit, TypeStep, ConfigNamedStep, PTL DEF Spec

-----------------------------------------------------------------------------
(***************************************************************************)
(* The chains are valid.  What a handler has found out about its block,    *)
(* with the other tree as it was then, stays true however the store        *)
(* changes, since it speaks of versions, and a version that was, was; so   *)
(* the block a tip ends in was earned on the one before it.  The blocks    *)
(* before are those of a tip the object has had, if clients build on such  *)
(* tips, and whatever the client says otherwise.                           *)
(***************************************************************************)
Requested == \A h \in Handlers :
    Busy(h) => abr[h].prev \in IF KnownTips THEN seen[abr[h].did] \cup {<<>>} ELSE Drafts

TipsSeen == \A d \in Dids : tips[d] # Undef => tips[d] \in seen[d]

AfterValidate == {"checkTip", "storeState", "putTip"}

Authenticated == \A h \in Handlers : pc[h] \in {"validate"} \cup AfterValidate =>
    \E e \in Evidence : Authentic(abr[h].did, abr[h].prev, abr[h].block, e)

Validated == \A h \in Handlers : pc[h] \in AfterValidate =>
    \E e \in Evidence : Allows(PoliciesAt(abr[h].prev), WritePolicy,
                               InputOf(abr[h].prev, abr[h].block, e))

ChainInv == /\ Requested /\ TipsSeen /\ Authenticated /\ Validated
            /\ TipsEarned /\ (KnownTips => ChainsValid)

LEMMA EvidenceType == ASSUME TypeOK PROVE Evidence \subseteq Tips
BY EmptySeq DEF TypeOK, Evidence, Tips

\* What a handler finds of the other tree is something it was.
LEMMA LatestIsEvidence == ASSUME TypeOK, TipsSeen PROVE LatestOther \subseteq Evidence
<1>1. ASSUME OtherDid \in Dids, tips[OtherDid] \in nodes[OtherDid]
      PROVE  tips[OtherDid] \in seen[OtherDid]
  BY <1>1, UndefAssumption DEF TypeOK, TipsSeen
<1> QED  BY <1>1 DEF LatestOther, Evidence

LEMMA EvidenceGrows ==
    ASSUME \A d \in Dids : seen[d] \subseteq seen'[d] PROVE Evidence \subseteq Evidence'
BY DEF Evidence

\* Every step keeps the tips there were.
LEMMA SeenGrows ==
    ASSUME TypeOK, [Next]_vars PROVE \A d \in Dids : seen[d] \subseteq seen'[d]
<1>1. ASSUME NEW h \in Handlers, Serve(h) PROVE \A d \in Dids : seen[d] \subseteq seen'[d]
  <2>1. UNCHANGED seen \/ Put(abr[h].did, NewTip(h))  BY <1>1, ServeMoves
  <2> QED  BY <2>1 DEF Put, TypeOK
<1>2. ASSUME NEW h \in Handlers, Receive(h) PROVE UNCHANGED seen
  BY <1>2 DEF Receive
<1>3. ASSUME NEW s \in Servers, Crash(s) \/ Restart(s) PROVE UNCHANGED seen
  BY <1>3 DEF Crash, Restart
<1> QED  BY <1>1, <1>2, <1>3 DEF Next

\* The prefixes of a tip are those of its parent, and the parent.
LEMMA PrefixesOfAppend ==
    ASSUME NEW s \in Tips, NEW b \in Blocks
    PROVE  /\ \A n \in 0 .. Len(s) : SubSeq(Append(s, b), 1, n) = SubSeq(s, 1, n)
           /\ SubSeq(s, 1, Len(s)) = s
           /\ SubSeq(Append(s, b), 1, Len(s) + 1) = Append(s, b)
<1>1. /\ Len(s) \in Nat /\ Append(s, b) \in Seq(Blocks) /\ Len(Append(s, b)) = Len(s) + 1
      /\ \A i \in 1 .. Len(s) : Append(s, b)[i] = s[i] /\ s[i] \in Blocks
      /\ Append(s, b)[Len(s) + 1] = b
  BY AppendProperties, ElementOfSeq DEF Tips
<1>2. ASSUME NEW t \in Seq(Blocks), NEW n \in 0 .. Len(t)
      PROVE  /\ SubSeq(t, 1, n) \in Seq(Blocks) /\ Len(SubSeq(t, 1, n)) = n
             /\ \A i \in 1 .. n : SubSeq(t, 1, n)[i] = t[i]
  <2>1. n \in Int /\ \A i \in 1 .. n : t[i] \in Blocks
    BY ElementOfSeq
  <2> QED  BY <2>1, SubSeqProperties
<1>3. ASSUME NEW n \in 0 .. Len(s)
      PROVE  SubSeq(Append(s, b), 1, n) = SubSeq(s, 1, n)
  BY <1>1, <1>2, SeqEqual DEF Tips
<1>4. SubSeq(s, 1, Len(s)) = s
  BY <1>1, <1>2, SeqEqual DEF Tips
<1>5. SubSeq(Append(s, b), 1, Len(s) + 1) = Append(s, b)
  <2>1. Len(s) + 1 \in 0 .. Len(Append(s, b))  BY <1>1
  <2> QED  BY <1>1, <1>2, <2>1, SeqEqual
<1> QED  BY <1>3, <1>4, <1>5

\* A block that is acceptable is earned where it is added ...
LEMMA EarnedAppend ==
    ASSUME NEW d \in Dids, NEW prev \in Tips, NEW b \in Blocks,
           \E e1, e2 \in Evidence : Acceptable(d, prev, b, e1, e2)
    PROVE  /\ Append(prev, b) # <<>>
           /\ BlockEarned(d, Append(prev, b), Len(Append(prev, b)))
<1>1. /\ Len(prev) \in Nat /\ Len(Append(prev, b)) = Len(prev) + 1
      /\ Append(prev, b)[Len(prev) + 1] = b
  BY AppendProperties DEF Tips
<1>2. Len(Append(prev, b)) - 1 = Len(prev) /\ Len(prev) \in 0 .. Len(prev)  BY <1>1
<1>3. SubSeq(Append(prev, b), 1, Len(Append(prev, b)) - 1) = prev  BY <1>2, PrefixesOfAppend
<1>4. Append(prev, b) # <<>>  BY AppendProperties DEF Tips
<1> QED  BY <1>1, <1>3, <1>4 DEF BlockEarned

\* ... and takes nothing from the blocks before it.
LEMMA ValidAppend ==
    ASSUME NEW d \in Dids, NEW prev \in Tips, NEW b \in Blocks, ValidChain(d, prev),
           \E e1, e2 \in Evidence : Acceptable(d, prev, b, e1, e2)
    PROVE  ValidChain(d, Append(prev, b))
<1>1. /\ Len(prev) \in Nat /\ Len(Append(prev, b)) = Len(prev) + 1
      /\ \A i \in 1 .. Len(prev) : Append(prev, b)[i] = prev[i]
  BY AppendProperties DEF Tips
<1> SUFFICES ASSUME NEW i \in 1 .. Len(Append(prev, b)) PROVE BlockEarned(d, Append(prev, b), i)
  BY DEF ValidChain
<1>2. CASE i \in 1 .. Len(prev)
  <2>1. i - 1 \in 0 .. Len(prev)  BY <1>1, <1>2
  <2>2. BlockEarned(d, prev, i)  BY <1>2 DEF ValidChain
  <2>3. SubSeq(Append(prev, b), 1, i - 1) = SubSeq(prev, 1, i - 1)
    BY <2>1, PrefixesOfAppend
  <2>4. Append(prev, b)[i] = prev[i]  BY <1>1, <1>2
  <2> QED  BY <2>2, <2>3, <2>4 DEF BlockEarned
<1>3. CASE i = Len(Append(prev, b))
  BY <1>3, EarnedAppend
<1> QED  BY <1>1, <1>2, <1>3

\* What PutTip is about to make the tip of its object.
LEMMA PutAcceptable ==
    ASSUME TypeOK, ChainInv, NEW h \in Handlers, pc[h] = "putTip"
    PROVE  \E e1, e2 \in Evidence : Acceptable(abr[h].did, abr[h].prev, abr[h].block, e1, e2)
BY DEF ChainInv, Authenticated, Validated, AfterValidate, Acceptable

LEMMA ChainInit == Init => ChainInv
BY DEF Init, ChainInv, Requested, TipsSeen, Authenticated, Validated, AfterValidate,
   TipsEarned, ChainsValid, Busy

LEMMA ChainStep == TypeOK /\ ChainInv /\ [Next]_vars => ChainInv'
<1> SUFFICES ASSUME TypeOK, ChainInv, [Next]_vars PROVE ChainInv'  OBVIOUS
<1>1. ASSUME NEW h \in Handlers, Receive(h) PROVE ChainInv'
  <2>1. PICK d \in Dids, b \in Blocks : \E prev \in Parents(d) :
            abr' = [abr EXCEPT ![h] = [did |-> d, prev |-> prev, block |-> b]]
    BY <1>1 DEF Receive
  <2>2. PICK prev \in Parents(d) :
            abr' = [abr EXCEPT ![h] = [did |-> d, prev |-> prev, block |-> b]]
    BY <2>1
  <2>3. pc' = [pc EXCEPT ![h] = "checkGlobal"] /\ UNCHANGED <<tips, seen>> /\ Evidence' = Evidence
    BY <1>1 DEF Receive, Evidence
  <2>4. Requested'
    BY <2>2, <2>3 DEF TypeOK, ChainInv, Requested, Parents, Busy
  <2>5. TipsSeen' /\ TipsEarned' /\ (KnownTips => ChainsValid')
    BY <2>3 DEF ChainInv, TipsSeen, TipsEarned, ChainsValid, ValidChain, BlockEarned
  <2>6. Authenticated' /\ Validated'
    BY <2>2, <2>3 DEF TypeOK, ChainInv, Authenticated, Validated, AfterValidate
  <2> QED  BY <2>4, <2>5, <2>6 DEF ChainInv
<1>2. ASSUME NEW h \in Handlers, Serve(h) PROVE ChainInv'
  <2>1. /\ Busy(h)
        /\ \A g \in Handlers \ {h} : pc'[g] = pc[g] /\ abr'[g] = abr[g]
        /\ pc'[h] = "idle" \/ abr' = abr
    BY <1>2, Moves
  <2>2. \/ UNCHANGED <<tips, seen>>
        \/ pc[h] = "putTip" /\ Put(abr[h].did, NewTip(h))
    BY <1>2, ServeMoves
  <2>3. \A d \in Dids : seen[d] \subseteq seen'[d]
    BY <2>2 DEF Put, TypeOK
  <2>4. Evidence \subseteq Evidence'
    BY <2>3, EvidenceGrows
  <2>5. Requested'
    <3> SUFFICES ASSUME NEW g \in Handlers, Busy(g)'
                 PROVE  abr'[g].prev \in IF KnownTips THEN seen'[abr'[g].did] \cup {<<>>}
                                         ELSE Drafts
      BY DEF Requested
    <3>1. abr'[g] = abr[g] /\ Busy(g)
      BY <2>1 DEF Busy
    <3> QED  BY <2>3, <3>1, NewTipType DEF ChainInv, Requested
  <2>6. TipsSeen'
    BY <2>2, NewTipType DEF Put, TypeOK, ChainInv, TipsSeen
  <2>7. Authenticated'
    <3> SUFFICES ASSUME NEW g \in Handlers, pc'[g] \in {"validate"} \cup AfterValidate
                 PROVE  \E e \in Evidence' :
                          Authentic(abr'[g].did, abr'[g].prev, abr'[g].block, e)
      BY DEF Authenticated
    <3>1. abr'[g] = abr[g]
      BY <2>1 DEF AfterValidate
    <3>2. CASE pc[g] \in {"validate"} \cup AfterValidate
      BY <2>4, <3>1, <3>2 DEF ChainInv, Authenticated
    <3>3. CASE pc[g] \notin {"validate"} \cup AfterValidate
      <4>1. g = h  BY <2>1, <3>3
      <4>2. Authenticate(h) /\ pc'[h] = "validate"
        BY <1>2, <3>3, <4>1, ServeMoves DEF Moved, Reply, AfterValidate, TypeOK
      <4>3. \E e \in LatestOther : Authentic(abr[h].did, abr[h].prev, abr[h].block, e)
        BY <4>2 DEF Authenticate, Reply, TypeOK
      <4> QED  BY <2>4, <3>1, <4>1, <4>3, LatestIsEvidence DEF ChainInv
    <3> QED  BY <3>2, <3>3
  <2>8. Validated'
    <3> SUFFICES ASSUME NEW g \in Handlers, pc'[g] \in AfterValidate
                 PROVE  \E e \in Evidence' :
                          Allows(PoliciesAt(abr'[g].prev), WritePolicy,
                                 InputOf(abr'[g].prev, abr'[g].block, e))
      BY DEF Validated
    <3>1. abr'[g] = abr[g]
      BY <2>1 DEF AfterValidate
    <3>2. CASE pc[g] \in AfterValidate
      BY <2>4, <3>1, <3>2 DEF ChainInv, Validated
    <3>3. CASE pc[g] \notin AfterValidate
      <4>1. g = h  BY <2>1, <3>3
      <4>2. Validate(h) /\ pc'[h] = "checkTip"
        BY <1>2, <3>3, <4>1, ServeMoves DEF Moved, Reply, AfterValidate, TypeOK
      <4>3. \E e \in LatestOther : ValidateAbr(abr[h].prev, abr[h].block, e) = "valid"
        BY <4>2, TreeDecided DEF Reply, TypeOK
      <4>4. PICK e \in Evidence : ValidateAbr(abr[h].prev, abr[h].block, e) = "valid"
        BY <4>3, LatestIsEvidence DEF ChainInv
      <4>5. Allows(PoliciesAt(abr[h].prev), WritePolicy, InputOf(abr[h].prev, abr[h].block, e))
        BY <4>4, EvidenceType, NewTipType, ValidateAbrSound
      <4> QED  BY <2>4, <3>1, <4>1, <4>5
    <3> QED  BY <3>2, <3>3
  <2>9. TipsEarned'
    <3>1. \A d \in Dids : \A tip \in seen'[d] : tip # <<>> /\ BlockEarned(d, tip, Len(tip))
      <4>1. CASE UNCHANGED seen
        BY <4>1 DEF ChainInv, TipsEarned
      <4>2. CASE pc[h] = "putTip" /\ Put(abr[h].did, NewTip(h))
        <5>1. NewTip(h) # <<>> /\ BlockEarned(abr[h].did, NewTip(h), Len(NewTip(h)))
          BY <4>2, NewTipType, PutAcceptable, EarnedAppend DEF NewTip
        <5> QED  BY <4>2, <5>1, NewTipType DEF Put, ChainInv, TipsEarned, TypeOK
      <4> QED  BY <2>2, <4>1, <4>2
    <3> QED  BY <2>4, <3>1 DEF TipsEarned, BlockEarned
  <2>10. KnownTips => ChainsValid'
    <3> SUFFICES ASSUME KnownTips PROVE ChainsValid'  OBVIOUS
    <3>1. \A d \in Dids : \A tip \in seen'[d] : ValidChain(d, tip)
      <4>1. CASE UNCHANGED seen
        BY <4>1 DEF ChainInv, ChainsValid
      <4>2. CASE pc[h] = "putTip" /\ Put(abr[h].did, NewTip(h))
        <5>1. ValidChain(abr[h].did, abr[h].prev)
          <6>1. ValidChain(abr[h].did, <<>>)  BY DEF ValidChain
          <6> QED  BY <2>1, <6>1, NewTipType DEF ChainInv, Requested, ChainsValid
        <5>2. ValidChain(abr[h].did, NewTip(h))
          BY <4>2, <5>1, NewTipType, PutAcceptable, ValidAppend DEF NewTip
        <5> QED  BY <4>2, <5>2, NewTipType DEF Put, ChainInv, ChainsValid, TypeOK
      <4> QED  BY <2>2, <4>1, <4>2
    <3> QED  BY <2>4, <3>1 DEF ChainsValid, ValidChain, BlockEarned
  <2> QED  BY <2>5, <2>6, <2>7, <2>8, <2>9, <2>10 DEF ChainInv
<1>3. ASSUME NEW s \in Servers, Crash(s) \/ Restart(s) PROVE ChainInv'
  <2>1. /\ UNCHANGED seen /\ Evidence' = Evidence
        /\ UNCHANGED tips \/ tips' = [d \in Dids |-> Undef]
        /\ \A h \in Handlers : pc'[h] = "idle" \/ (pc'[h] = pc[h] /\ abr'[h] = abr[h])
    BY <1>3 DEF Crash, KeepStore, Restart, Evidence
  <2>2. Requested' /\ TipsSeen'
    BY <2>1 DEF ChainInv, Requested, TipsSeen, Busy
  <2>3. Authenticated' /\ Validated'
    BY <2>1 DEF ChainInv, Authenticated, Validated, AfterValidate
  <2>4. TipsEarned' /\ (KnownTips => ChainsValid')
    BY <2>1 DEF ChainInv, TipsEarned, ChainsValid, ValidChain, BlockEarned
  <2> QED  BY <2>2, <2>3, <2>4 DEF ChainInv
<1>4. CASE UNCHANGED vars
  <2>1. Evidence' = Evidence  BY <1>4 DEF Evidence
  <2> QED  BY <1>4, <2>1 DEF ChainInv, Requested, TipsSeen, Authenticated, Validated, TipsEarned,
               ChainsValid, ValidChain, BlockEarned, Busy
<1> QED  BY <1>1, <1>2, <1>3, <1>4 DEF Next

\* The block an object's tip ends in was signed by an owner of the tree before it and is
\* allowed by the policies of that tree, whatever history clients bring, in whatever
\* order the handlers run, crash or restart, and whatever the store forgets.
THEOREM TipsAlwaysEarned == Spec => []TipsEarned
<1>1. ChainInv => TipsEarned  BY DEF ChainInv
<1> QED
  BY <1>1, TypeInit, TypeStep, ConfigNamedStep, ChainInit, ChainStep, PTL DEF Spec

\* And when clients build on tips the object has had, so was every block of its history.
THEOREM ChainsAlwaysValid == ASSUME KnownTips PROVE Spec => []ChainsValid
<1>1. ChainInv => ChainsValid  BY DEF ChainInv
<1> QED
  BY <1>1, TypeInit, TypeStep, ConfigNamedStep, ChainInit, ChainStep, PTL DEF Spec

-----------------------------------------------------------------------------
(***************************************************************************)
(* The nodes.  A tip is put after its own nodes, and, if clients build on  *)
(* tips the object has had, on one that was put before; while the store    *)
(* keeps what it takes, both stay there.                                   *)
(***************************************************************************)
SeenStored == \A d \in Dids : \A tip \in seen[d] : tip \in nodes[d]

SeenLoadable == \A d \in Dids : \A tip \in seen[d] : Loadable(d, tip)

StoredFirst == \A h \in Handlers : pc[h] = "putTip" => NewTip(h) \in nodes[abr[h].did]

NodesInv == SeenStored /\ (KnownTips => SeenLoadable) /\ StoredFirst

LEMMA NodesInit == Init => NodesInv
BY DEF Init, NodesInv, SeenStored, SeenLoadable, StoredFirst

LEMMA NodesGrow ==
    ASSUME Durable, TypeOK, [Next]_vars
    PROVE  \A d \in Dids : nodes[d] \subseteq nodes'[d]
<1>1. ASSUME NEW h \in Handlers, Serve(h)
      PROVE  UNCHANGED nodes \/ (StoreState(h) /\ \A d \in Dids : nodes[d] \subseteq nodes'[d])
  <2>1. CASE LoadGlobalWants(h) \/ EvaluateGlobalPolicy(h)  BY <2>1, GlobalDecided
  <2>2. CASE Validate(h)              BY <2>2, TreeDecided
  <2>3. CASE \/ CheckGlobalPolicy(h) \/ LoadGlobalPolicy(h) \/ LoadGlobalTree(h)
             \/ Authenticate(h) \/ CheckTip(h)
    BY <2>3 DEF CheckGlobalPolicy, LoadGlobalPolicy, LoadGlobalTree, Authenticate, CheckTip
  <2>4. CASE StoreState(h)            BY <2>4 DEF StoreState, TypeOK
  <2>5. CASE PutTip(h)                BY <2>5 DEF PutTip
  <2>6. CASE LoadConfig(h)            BY <2>6 DEF LoadConfig
  <2>7. CASE \/ InstallWritePolicy(h) \/ InstallWriteWants(h)
             \/ InstallReadPolicy(h) \/ InstallReadWants(h)
    BY <2>7 DEF InstallWritePolicy, InstallWriteWants, InstallReadPolicy, InstallReadWants, InstallFails, Install
  <2>8. CASE Publish(h)               BY <2>8 DEF Publish
  <2> QED  BY <1>1, <2>1, <2>2, <2>3, <2>4, <2>5, <2>6, <2>7, <2>8 DEF Serve
<1>2. ASSUME NEW h \in Handlers, Receive(h) PROVE UNCHANGED nodes
  BY <1>2 DEF Receive
<1>3. ASSUME NEW s \in Servers, Crash(s) \/ Restart(s) PROVE UNCHANGED nodes
  BY <1>3 DEF Crash, KeepStore, Restart
<1> QED  BY <1>1, <1>2, <1>3 DEF Next

LEMMA NodesStep ==
    ASSUME Durable, "store" \notin Faults, TypeOK, ChainInv, NodesInv, [Next]_vars
    PROVE  NodesInv'
<1>0. \A d \in Dids : nodes[d] \subseteq nodes'[d]  BY NodesGrow
<1>1. ASSUME NEW h \in Handlers, Serve(h) PROVE NodesInv'
  <2>0. /\ abr[h].did \in Dids /\ abr[h].prev \in Tips /\ abr[h].block \in Blocks
        /\ NewTip(h) \in Tips /\ Busy(h)
    BY <1>1, NewTipType, Moves
  <2>1. /\ \A g \in Handlers \ {h} : pc'[g] = pc[g] /\ abr'[g] = abr[g]
        /\ pc'[h] = "idle" \/ abr' = abr
    BY <1>1, Moves
  <2>2. KnownTips => SeenLoadable'
    <3> SUFFICES ASSUME KnownTips PROVE SeenLoadable'  OBVIOUS
    <3>1. \A d \in Dids : \A tip \in seen'[d] : Loadable(d, tip)
      <4>1. CASE UNCHANGED seen
        BY <4>1 DEF NodesInv, SeenLoadable
      <4>2. CASE pc[h] = "putTip" /\ Put(abr[h].did, NewTip(h))
        <5> DEFINE d == abr[h].did
                   prev == abr[h].prev
        <5>1. Loadable(d, prev)
          <6>1. Loadable(d, <<>>)  BY DEF Loadable
          <6> QED  BY <2>0, <6>1 DEF ChainInv, Requested, NodesInv, SeenLoadable
        <5>2. /\ Len(prev) \in Nat /\ Len(NewTip(h)) = Len(prev) + 1
          BY <2>0, AppendProperties DEF NewTip, Tips
        <5>3. ASSUME NEW n \in 1 .. Len(NewTip(h)) PROVE SubSeq(NewTip(h), 1, n) \in nodes[d]
          <6>1. CASE n \in 1 .. Len(prev)
            <7>1. SubSeq(NewTip(h), 1, n) = SubSeq(prev, 1, n)
              BY <2>0, <5>2, <6>1, PrefixesOfAppend DEF NewTip
            <7> QED  BY <5>1, <6>1, <7>1 DEF Loadable
          <6>2. CASE n = Len(prev) + 1
            <7>1. SubSeq(NewTip(h), 1, n) = NewTip(h)
              BY <2>0, <6>2, PrefixesOfAppend DEF NewTip
            <7> QED  BY <4>2, <7>1 DEF NodesInv, StoredFirst
          <6> QED  BY <5>2, <6>1, <6>2
        <5>4. Loadable(d, NewTip(h))  BY <5>3 DEF Loadable
        <5> QED  BY <2>0, <4>2, <5>4 DEF Put, NodesInv, SeenLoadable, TypeOK
      <4> QED  BY <1>1, <4>1, <4>2, ServeMoves
    <3> QED  BY <1>0, <3>1 DEF SeenLoadable, Loadable
  <2>3. StoredFirst'
    <3> SUFFICES ASSUME NEW g \in Handlers, pc'[g] = "putTip"
                 PROVE  NewTip(g)' \in nodes'[abr'[g].did]
      BY DEF StoredFirst
    <3>1. abr'[g] = abr[g] /\ NewTip(g)' = NewTip(g) /\ abr[g].did \in Dids
      BY <2>1, NewTipType DEF NewTip
    <3>2. CASE pc[g] = "putTip"
      BY <1>0, <3>1, <3>2 DEF NodesInv, StoredFirst
    <3>3. CASE pc[g] # "putTip"
      <4>1. g = h  BY <2>1, <3>3
      <4>2. pc[h] = "storeState"
        BY <1>1, <3>3, <4>1, ServeMoves DEF Moved, Reply, TypeOK
      <4>3. StoreState(h)
        BY <1>1, <4>2 DEF Serve, CheckGlobalPolicy, LoadGlobalPolicy, LoadGlobalTree,
           LoadGlobalWants, EvaluateGlobalPolicy, Authenticate, Validate, CheckTip, PutTip, LoadConfig, InstallWritePolicy,
           InstallWriteWants, InstallReadPolicy, InstallReadWants, InstallFails, Publish
      <4>4. NewTip(h) \in nodes'[abr[h].did]
        BY <2>0, <4>3 DEF StoreState, NewNodes, TypeOK
      <4> QED  BY <3>1, <4>1, <4>4
    <3> QED  BY <3>2, <3>3
  <2>4. SeenStored'
    <3>1. CASE UNCHANGED seen
      BY <1>0, <3>1 DEF NodesInv, SeenStored
    <3>2. CASE pc[h] = "putTip" /\ Put(abr[h].did, NewTip(h))
      <4>1. NewTip(h) \in nodes[abr[h].did]  BY <3>2 DEF NodesInv, StoredFirst
      <4> QED  BY <1>0, <2>0, <3>2, <4>1 DEF Put, NodesInv, SeenStored, TypeOK
    <3> QED  BY <1>1, <3>1, <3>2, ServeMoves
  <2> QED  BY <2>2, <2>3, <2>4 DEF NodesInv
<1>2. ASSUME NEW h \in Handlers, Receive(h) PROVE NodesInv'
  <2>1. UNCHANGED <<seen, nodes>> /\ pc' = [pc EXCEPT ![h] = "checkGlobal"]
        /\ \A g \in Handlers \ {h} : abr'[g] = abr[g]
    BY <1>2 DEF Receive, TypeOK
  <2> QED  BY <2>1 DEF NodesInv, SeenStored, SeenLoadable, Loadable, StoredFirst, NewTip, TypeOK
<1>3. ASSUME NEW s \in Servers, Crash(s) \/ Restart(s) PROVE NodesInv'
  <2>1. /\ UNCHANGED <<seen, nodes>>
        /\ \A h \in Handlers : pc'[h] = "idle" \/ (pc'[h] = pc[h] /\ abr'[h] = abr[h])
    BY <1>3 DEF Crash, KeepStore, Restart
  <2> QED  BY <2>1 DEF NodesInv, SeenStored, SeenLoadable, Loadable, StoredFirst, NewTip
<1>4. CASE UNCHANGED vars
  BY <1>4 DEF NodesInv, SeenStored, SeenLoadable, Loadable, StoredFirst, NewTip
<1> QED  BY <1>1, <1>2, <1>3, <1>4 DEF Next

\* While the store keeps what it takes and clients build on tips the object has had, the
\* tree of an object can be loaded whole, also when requests for it overlap and
\* processes crash between the two writes.
THEOREM TipsAlwaysLoadable ==
    ASSUME KnownTips, Durable, "store" \notin Faults PROVE Spec => []TipsLoadable
<1>1. ChainInv /\ NodesInv => TipsLoadable
  BY DEF ChainInv, TipsSeen, NodesInv, SeenLoadable, TipsLoadable
<1> QED
  BY <1>1, TypeInit, TypeStep, ConfigNamedStep, ChainInit, ChainStep, NodesInit, NodesStep, PTL
  DEF Spec
=============================================================================
