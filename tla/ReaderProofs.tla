---------------------------- MODULE ReaderProofs ----------------------------
(***************************************************************************)
(* Theorems about reads, for every set of objects, blocks, servers,        *)
(* handlers and readers.                                                   *)
(***************************************************************************)
EXTENDS Reader, ConfigProofs

USE DEF storeVars, handlerVars, vars, localVars, readerVars

-----------------------------------------------------------------------------
(***************************************************************************)
(* The steps.                                                              *)
(***************************************************************************)
\* A reader changes nothing the write path has, so what is true of the write path by
\* itself is true beside readers.
LEMMA ReadersLeaveAlone == [ReaderNext]_<<vars, readerVars>> => [Next]_vars
BY DEF ReaderNext, CrashWithReaders, Next

\* Where a step of a reader takes it.
LEMMA ReadingMoves ==
    ASSUME NEW r \in Readers, Reading(r)
    PROVE  \/ AnswerWith(r, Nothing) \/ AnswerWith(r, Failed)
           \/ /\ rstep[r] = "getLatest" /\ tips[asked[r]] # Undef
              /\ latest' = [latest EXCEPT ![r] = tips[asked[r]]]
              /\ Proceed(r, "checkGlobal") /\ UNCHANGED rquery
           \/ /\ rstep[r] = "checkGlobal" /\ UNCHANGED <<latest, rquery>>
              /\ Proceed(r, "validate") \/ Proceed(r, "loadGlobal")
           \/ /\ rstep[r] = "loadGlobal" /\ agg[ReadsFrom[r]].globalReadPolicy # NoQuery
              /\ rquery' = [rquery EXCEPT ![r] = agg[ReadsFrom[r]].globalReadPolicy]
              /\ Proceed(r, "evaluateGlobal") /\ UNCHANGED latest
           \/ /\ rstep[r] = "evaluateGlobal" /\ Proceed(r, "validate") /\ UNCHANGED <<latest, rquery>>
              /\ \E other \in LatestOther :
                    PolicyValidator(rquery[r], HasReadWants(r),
                       ReadInputOf(asked[r], requester[r], agg[ReadsFrom[r]].configTree, other))
                    = "valid"
           \/ /\ rstep[r] = "validate" /\ Proceed(r, "resolve") /\ UNCHANGED <<latest, rquery>>
              /\ \E other \in LatestOther :
                    ReadValidator(PoliciesAt(latest[r]),
                       ReadInputOf(asked[r], requester[r], latest[r], other)) = "valid"
           \/ rstep[r] = "resolve" /\ AnswerWith(r, ValueOf(latest[r]))
<1>1. ASSUME NEW verdict, NEW label, Conclude(r, verdict, label)
      PROVE  \/ AnswerWith(r, Nothing) \/ AnswerWith(r, Failed)
             \/ verdict = "valid" /\ Proceed(r, label) /\ UNCHANGED <<latest, rquery>>
  BY <1>1 DEF Conclude
<1>2. CASE GetLatest(r)              BY <1>2 DEF GetLatest
<1>3. CASE CheckGlobalReadPolicy(r)  BY <1>3 DEF CheckGlobalReadPolicy
<1>4. CASE LoadGlobalReadPolicy(r)   BY <1>4 DEF LoadGlobalReadPolicy
<1>5. CASE EvaluateGlobalReadPolicy(r)
  <2> DEFINE verdict(other) == PolicyValidator(rquery[r], HasReadWants(r),
                ReadInputOf(asked[r], requester[r], agg[ReadsFrom[r]].configTree, other))
  <2>1. CASE AnswerWith(r, Failed)  BY <2>1
  <2>2. ASSUME NEW other \in LatestOther, Conclude(r, verdict(other), "validate")
        PROVE  \/ AnswerWith(r, Nothing) \/ AnswerWith(r, Failed)
               \/ verdict(other) = "valid" /\ Proceed(r, "validate") /\ UNCHANGED <<latest, rquery>>
    BY <1>1, <2>2
  <2> QED  BY <1>5, <2>1, <2>2 DEF EvaluateGlobalReadPolicy
<1>6. CASE ValidateRead(r)
  <2> DEFINE verdict(other) == ReadValidator(PoliciesAt(latest[r]),
                ReadInputOf(asked[r], requester[r], latest[r], other))
  <2>1. CASE AnswerWith(r, Failed)  BY <2>1
  <2>2. ASSUME NEW other \in LatestOther, Conclude(r, verdict(other), "resolve")
        PROVE  \/ AnswerWith(r, Nothing) \/ AnswerWith(r, Failed)
               \/ verdict(other) = "valid" /\ Proceed(r, "resolve") /\ UNCHANGED <<latest, rquery>>
    BY <1>1, <2>2
  <2> QED  BY <1>6, <2>1, <2>2 DEF ValidateRead, ReadOn
<1>7. CASE Resolve(r)                BY <1>7 DEF Resolve
<1> QED  BY <1>2, <1>3, <1>4, <1>5, <1>6, <1>7 DEF Reading

\* Answered or not, a step of a reader leaves the others alone.
Alone(r) ==
    \A q \in Readers \ {r} :
       /\ rstep'[q] = rstep[q] /\ asked'[q] = asked[q] /\ requester'[q] = requester[q]
       /\ latest'[q] = latest[q] /\ rquery'[q] = rquery[q] /\ given'[q] = given[q]
       /\ newest'[q] = newest[q] /\ during'[q] = during[q]

LEMMA AnswerStep ==
    ASSUME ReaderTypeOK, NEW r \in Readers, NEW a, AnswerWith(r, a)
    PROVE  /\ Alone(r) /\ rstep'[r] = "idle" /\ given'[r] = a /\ during'[r] = {}
           /\ \A d \in Dids :
                 newest'[r][d] = IF a.status = "value" /\ d = asked[r] THEN a.tip ELSE newest[r][d]
BY DEF ReaderTypeOK, AnswerWith, Alone

LEMMA ProceedStep ==
    ASSUME ReaderTypeOK, NEW r \in Readers, NEW label, Proceed(r, label),
           \A q \in Readers \ {r} : latest'[q] = latest[q] /\ rquery'[q] = rquery[q]
    PROVE  /\ Alone(r) /\ rstep'[r] = label
           /\ asked'[r] = asked[r] /\ requester'[r] = requester[r] /\ given' = given
           /\ newest' = newest /\ during'[r] = during[r]
BY DEF ReaderTypeOK, Proceed, Alone

LEMMA AskStep ==
    ASSUME ReaderTypeOK, NEW r \in Readers, NEW d \in Dids, NEW who \in Identities, Ask(r, d, who)
    PROVE  /\ Alone(r) /\ rstep'[r] = "getLatest" /\ asked'[r] = d /\ given'[r] = NoAnswer
           /\ newest' = newest /\ during'[r] = {Present} /\ agg[ReadsFrom[r]].up
BY DEF ReaderTypeOK, Ask, Alone

\* What a step of somebody else does to a reader: nothing, or it dies with its server.
LEMMA OthersStep ==
    ASSUME ReaderTypeOK,
           \/ \E h \in Handlers : /\ Receive(h) \/ Serve(h)
                                  /\ UNCHANGED <<rstep, localVars, given, newest>> /\ Witnessed
           \/ \E s \in Servers : CrashWithReaders(s),
           NEW r \in Readers
    PROVE  /\ UNCHANGED <<given, newest>>
           /\ \/ rstep'[r] = "idle" /\ during'[r] = {}
              \/ /\ rstep'[r] = rstep[r] /\ asked'[r] = asked[r] /\ requester'[r] = requester[r]
                 /\ latest'[r] = latest[r] /\ rquery'[r] = rquery[r]
                 /\ rstep[r] # "idle" => during'[r] = during[r] \cup {Present'}
<1>1. Witnessed /\ UNCHANGED <<given, newest>>
  BY DEF CrashWithReaders
<1>2. during'[r] = IF rstep'[r] = "idle" THEN {} ELSE during[r] \cup {Present'}
  BY <1>1 DEF Witnessed
<1>3. CASE UNCHANGED <<rstep, localVars>>
  BY <1>1, <1>2, <1>3
<1>4. ASSUME NEW s \in Servers, CrashWithReaders(s)
      PROVE  \/ rstep'[r] = "idle"
             \/ /\ rstep'[r] = rstep[r] /\ asked'[r] = asked[r] /\ requester'[r] = requester[r]
                /\ latest'[r] = latest[r] /\ rquery'[r] = rquery[r]
  BY <1>4 DEF CrashWithReaders
<1> QED  BY <1>1, <1>2, <1>3, <1>4

-----------------------------------------------------------------------------
(***************************************************************************)
(* The types.                                                              *)
(***************************************************************************)
LEMMA AnswersType ==
    /\ {NoAnswer, Nothing, Failed} \subseteq Answers
    /\ \A tip \in MaybeTips : ValueOf(tip) \in Answers
BY DEF NoAnswer, Nothing, Failed, ValueOf, Answers, MaybeTips

LEMMA FirstValuesType ==
    /\ SomeDid \in Dids /\ Undef \in MaybeTips /\ Undef \in Dids \cup {Undef} /\ NoQuery \in Queries
    /\ "idle" \in ReadLabels
BY NonEmptyAssumption DEF SomeDid, MaybeTips, NoQuery, Queries, ReadLabels

LEMMA ReaderTypeInit == ReaderInit => ReaderTypeOK
BY FirstValuesType, AnswersType DEF ReaderInit, ReaderTypeOK

LEMMA AnswerType ==
    ASSUME ReaderTypeOK, NEW r \in Readers, NEW a \in Answers, AnswerWith(r, a)
    PROVE  ReaderTypeOK'
<1>1. newest' \in [Readers -> [Dids -> MaybeTips]]
  <2>1. a.tip \in MaybeTips  BY DEF Answers
  <2>2. asked[r] \in Dids  BY DEF ReaderTypeOK
  <2>3. [newest[r] EXCEPT ![asked[r]] = a.tip] \in [Dids -> MaybeTips]
    BY <2>1, <2>2 DEF ReaderTypeOK
  <2>4. newest' = newest \/ newest' = [newest EXCEPT ![r] = [newest[r] EXCEPT ![asked[r]] = a.tip]]
    BY DEF AnswerWith
  <2> QED  BY <2>3, <2>4 DEF ReaderTypeOK
<1> QED  BY <1>1, FirstValuesType DEF AnswerWith, ReaderTypeOK

LEMMA ReaderTypeStep ==
    TypeOK /\ TypeOK' /\ ReaderTypeOK /\ [ReaderNext]_<<vars, readerVars>> => ReaderTypeOK'
<1> SUFFICES ASSUME TypeOK, TypeOK', ReaderTypeOK, [ReaderNext]_<<vars, readerVars>>
             PROVE  ReaderTypeOK'
  OBVIOUS
<1>1. Present \in Tips /\ Present' \in Tips
  <2>1. <<>> \in Tips  BY EmptySeq DEF Tips
  <2> QED  BY <2>1 DEF TypeOK, Present, ChainOf, MaybeTips
<1>2. ASSUME Witnessed PROVE during' \in [Readers -> SUBSET Tips]
  BY <1>1, <1>2 DEF Witnessed, ReaderTypeOK
<1>3. ASSUME UNCHANGED <<rstep, localVars, given, newest>>, Witnessed PROVE ReaderTypeOK'
  BY <1>2, <1>3 DEF ReaderTypeOK
<1>4. ASSUME NEW s \in Servers, CrashWithReaders(s) PROVE ReaderTypeOK'
  BY <1>2, <1>4, FirstValuesType DEF CrashWithReaders, ReaderTypeOK
<1>5. UNCHANGED readerVars => ReaderTypeOK'
  BY DEF ReaderTypeOK
<1>6. ASSUME NEW r \in Readers, NEW d \in Dids, NEW who \in Identities, Ask(r, d, who)
      PROVE  ReaderTypeOK'
  <2>1. who \in Dids \cup {Undef}  BY ReadersAssumption
  <2> QED  BY <1>1, <1>6, <2>1, AnswersType DEF Ask, ReaderTypeOK, ReadLabels
<1>7. ASSUME NEW r \in Readers, Reading(r) PROVE ReaderTypeOK'
  <2>1. ASSUME NEW label \in ReadLabels, Proceed(r, label),
               latest' \in [Readers -> MaybeTips], rquery' \in [Readers -> Queries]
        PROVE  ReaderTypeOK'
    BY <2>1 DEF Proceed, ReaderTypeOK
  <2>2. tips[asked[r]] \in MaybeTips /\ agg[ReadsFrom[r]].globalReadPolicy \in Queries
        /\ latest[r] \in MaybeTips
    BY ReadersAssumption DEF ReaderTypeOK, TypeOK, Aggregators
  <2>3. latest \in [Readers -> MaybeTips] /\ rquery \in [Readers -> Queries]
    BY DEF ReaderTypeOK
  <2>4. \A t \in MaybeTips : [latest EXCEPT ![r] = t] \in [Readers -> MaybeTips]
    BY <2>3
  <2>5. \A q \in Queries : [rquery EXCEPT ![r] = q] \in [Readers -> Queries]
    BY <2>3
  <2>6. {"checkGlobal", "validate", "loadGlobal", "evaluateGlobal", "resolve"} \subseteq ReadLabels
    BY DEF ReadLabels
  <2>7. {Nothing, Failed, ValueOf(latest[r])} \subseteq Answers
    BY <2>2, AnswersType
  <2> QED  BY <1>7, <2>1, <2>2, <2>3, <2>4, <2>5, <2>6, <2>7, AnswerType, ReadingMoves
<1> QED  BY <1>3, <1>4, <1>5, <1>6, <1>7 DEF ReaderNext

\* What is true of the write path is true of it while others read, and the readers keep
\* their types.
LEMMA ReaderInvariant == ReaderSpec => [](TypeOK /\ ConfigNamed /\ ChainInv /\ ReaderTypeOK)
<1>1. ReaderInit => TypeOK /\ ConfigNamed /\ ChainInv /\ ReaderTypeOK
  BY TypeInit, ChainInit, ReaderTypeInit DEF ReaderInit
<1>2. TypeOK /\ ConfigNamed /\ ChainInv /\ ReaderTypeOK /\ [ReaderNext]_<<vars, readerVars>>
      => TypeOK' /\ ConfigNamed' /\ ChainInv' /\ ReaderTypeOK'
  BY ReadersLeaveAlone, TypeStep, ConfigNamedStep, ChainStep, ReaderTypeStep
<1> QED  BY <1>1, <1>2, PTL DEF ReaderSpec

\* Every variable of the readers keeps its type.
THEOREM ReaderTypeCorrect == ReaderSpec => []ReaderTypeOK
BY ReaderInvariant, PTL

-----------------------------------------------------------------------------
(***************************************************************************)
(* What readers are shown.                                                 *)
(***************************************************************************)
\* A read policy that wants paths is in a map with write wants too: PolicyFromTree asks
\* for wants only where the map has those.
ReadWantsAsked == \A b \in Blocks : Asks(b.policies, ReadPolicy) => b.policies.wants # "none"

LEMMA ReadWantsAskedAt ==
    ASSUME ReadWantsAsked, NEW tip \in Tips
    PROVE  Asks(PoliciesAt(tip), ReadPolicy) => PoliciesAt(tip).wants # "none"
<1>1. ~Asks(Empty, ReadPolicy)
  BY DEF Asks, Empty, PolicyMap, WantsPolicyOf, ReadPolicy, WritePolicy
<1> QED  BY <1>1, PoliciesOrigin DEF ReadWantsAsked

LEMMA ReadInputType ==
    ASSUME NEW d, NEW who, NEW holder \in Tips, NEW other \in Tips
    PROVE  /\ ReadInputOf(d, who, holder, other) \in Inputs
           /\ ReadInputOf(d, who, holder, other).writesPolicy = FALSE
           /\ ReadInputOf(d, who, holder, other).self = IF who = d THEN TRUE ELSE FALSE
           /\ ReadInputOf(d, who, holder, other).own = ValueAt(holder)
           /\ other = <<>> => ReadInputOf(d, who, holder, other).other = "missing"
<1> DEFINE block == NoRequest.block
           input == ReadInputOf(d, who, holder, other)
<1>1. block \in Blocks  BY NoRequestType DEF Requests
<1>2. InputOf(holder, block, other) \in Inputs  BY <1>1, InputOfType
<1>3. input = [InputOf(holder, block, other) EXCEPT !.writesPolicy = FALSE, !.self = (who = d)]
  BY DEF ReadInputOf
<1>4. /\ InputOf(holder, block, other).own = ValueAt(holder)
      /\ other = <<>> => InputOf(holder, block, other).other = "missing"
  BY DEF InputOf
<1> HIDE DEF input
<1>5. input \in Inputs
  BY <1>2, <1>3 DEF Inputs
<1>6. input.writesPolicy = FALSE /\ input.self = IF who = d THEN TRUE ELSE FALSE
  BY <1>2, <1>3 DEF Inputs
<1>7. /\ input.own = ValueAt(holder)
      /\ other = <<>> => input.other = "missing"
  BY <1>2, <1>3, <1>4 DEF Inputs
<1> QED  BY <1>5, <1>6, <1>7 DEF input

LEMMA PresentKept == ASSUME UNCHANGED tips PROVE Present' = Present
BY DEF Present, ChainOf

LEMMA LatestIsPresent == ASSUME TypeOK PROVE LatestOther \subseteq {<<>>, Present}
<1>1. ASSUME OtherDid \in Dids, tips[OtherDid] \in nodes[OtherDid]
      PROVE  tips[OtherDid] = Present
  BY <1>1, UndefAssumption DEF TypeOK, Present, ChainOf
<1> QED  BY <1>1 DEF LatestOther

\* A policy that allows a read without the other tree allows it whatever that tree holds.
LEMMA ReadWithoutOther ==
    ASSUME NEW node, NEW name, NEW d, NEW who, NEW holder \in Tips, NEW other \in Tips,
           Allows(node, name, ReadInputOf(d, who, holder, <<>>))
    PROVE  Allows(node, name, ReadInputOf(d, who, holder, other))
<1>1. NoRequest.block \in Blocks  BY NoRequestType DEF Requests
<1>2. <<>> \in Tips  BY EmptySeq DEF Tips
<1>3. PICK i \in Inputs : i = InputOf(holder, NoRequest.block, <<>>)
  BY <1>1, <1>2, InputOfType
<1>4. PICK j \in Inputs : j = InputOf(holder, NoRequest.block, other)
  BY <1>1, InputOfType
<1>5. i.own = j.own /\ i.other = "missing"
  BY <1>3, <1>4 DEF InputOf
<1>6. ASSUME NEW self \in BOOLEAN,
             Allows(node, name, [i EXCEPT !.writesPolicy = FALSE, !.self = self])
      PROVE  Allows(node, name, [j EXCEPT !.writesPolicy = FALSE, !.self = self])
  <2>1. PICK a \in Inputs : a = [i EXCEPT !.writesPolicy = FALSE, !.self = self]
    BY DEF Inputs
  <2>2. PICK b \in Inputs : b = [j EXCEPT !.writesPolicy = FALSE, !.self = self]
    BY DEF Inputs
  <2>3. a.other = "missing" /\ a.own = b.own
    BY <1>5, <2>1, <2>2 DEF Inputs
  <2>4. a.writesPolicy = b.writesPolicy /\ a.self = b.self
    BY <2>1, <2>2 DEF Inputs
  <2>5. Allows(node, name, a)  BY <1>6, <2>1
  <2>6. Allows(node, name, b)  BY <2>3, <2>4, <2>5, AllowedWithoutOther
  <2> QED  BY <2>2, <2>6
<1> QED  BY <1>3, <1>4, <1>6 DEF ReadInputOf

\* What a policy lets through with the other tree as it was found, it allows with that
\* tree as it is: the tree was found so, or the policy does not look at it.
LEMMA AllowedAsItIs ==
    ASSUME TypeOK, NEW node, NEW name, NEW d, NEW who, NEW holder \in Tips,
           NEW other \in LatestOther,
           Allows(node, name, ReadInputOf(d, who, holder, other))
    PROVE  Allows(node, name, ReadInputOf(d, who, holder, Present))
<1>1. Present \in Tips
  <2>1. <<>> \in Tips  BY EmptySeq DEF Tips
  <2> QED  BY <2>1 DEF TypeOK, Present, ChainOf, MaybeTips
<1> QED  BY <1>1, LatestIsPresent, ReadWithoutOther

\* A reader has seen the other tree as it is, and one that goes on to resolve its path
\* has been allowed to, by the policies of the tip it found.
AfterGetLatest == {"checkGlobal", "loadGlobal", "evaluateGlobal", "validate", "resolve"}

AllowedRead(r) ==
    \E other \in during[r] :
       Allows(PoliciesAt(latest[r]), ReadPolicy,
              ReadInputOf(asked[r], requester[r], latest[r], other))

ReadInv ==
    \A r \in Readers :
       /\ rstep[r] # "idle" => Present \in during[r]
       /\ rstep[r] \in AfterGetLatest => latest[r] \in Tips
       /\ rstep[r] = "resolve" => AllowedRead(r)

LEMMA ReadInit == ReaderInit => ReadInv
BY DEF ReaderInit, ReadInv, AfterGetLatest

LEMMA ReadStep ==
    ASSUME ReadWantsAsked
    PROVE  TypeOK /\ ReaderTypeOK /\ ReadInv /\ [ReaderNext]_<<vars, readerVars>> => ReadInv'
<1> SUFFICES ASSUME TypeOK, ReaderTypeOK, ReadInv, [ReaderNext]_<<vars, readerVars>>
             PROVE  ReadInv'
  OBVIOUS
<1> DEFINE Kept(r) == /\ rstep'[r] # "idle" => Present' \in during'[r]
                      /\ rstep'[r] \in AfterGetLatest => latest'[r] \in Tips
                      /\ rstep'[r] = "resolve" => AllowedRead(r)'
\* A reader that keeps what it has, and sees more.
<1>1. ASSUME NEW r \in Readers, rstep'[r] = rstep[r], asked'[r] = asked[r],
             requester'[r] = requester[r], latest'[r] = latest[r], during[r] \subseteq during'[r],
             rstep[r] # "idle" => Present' \in during'[r]
      PROVE  Kept(r)
  BY <1>1 DEF ReadInv, AllowedRead
<1>2. ASSUME NEW r \in Readers, rstep'[r] = "idle" PROVE Kept(r)
  BY <1>2 DEF AfterGetLatest
<1>3. CASE \/ \E h \in Handlers : /\ Receive(h) \/ Serve(h)
                                  /\ UNCHANGED <<rstep, localVars, given, newest>> /\ Witnessed
           \/ \E s \in Servers : CrashWithReaders(s)
  <2> SUFFICES ASSUME NEW r \in Readers PROVE Kept(r)  BY DEF ReadInv
  <2>1. CASE rstep[r] = "idle" /\ rstep'[r] = rstep[r]  BY <1>2, <2>1
  <2> QED  BY <1>1, <1>2, <1>3, <2>1, OthersStep
<1>4. ASSUME NEW s \in Servers, Restart(s), UNCHANGED readerVars PROVE ReadInv'
  <2>1. Present' = Present  BY <1>4, PresentKept DEF Restart
  <2> QED  BY <1>4, <2>1 DEF ReadInv, AllowedRead
<1>5. CASE UNCHANGED <<vars, readerVars>>
  BY <1>5, PresentKept DEF ReadInv, AllowedRead
<1>6. ASSUME NEW r \in Readers, UNCHANGED vars, Alone(r), Kept(r) PROVE ReadInv'
  <2> SUFFICES ASSUME NEW q \in Readers PROVE Kept(q)  BY DEF ReadInv
  <2>1. Present' = Present  BY <1>6, PresentKept
  <2> QED  BY <1>1, <1>6, <2>1 DEF Alone, ReadInv
<1>7. ASSUME NEW r \in Readers, NEW d \in Dids, NEW who \in Identities, Ask(r, d, who), UNCHANGED vars
      PROVE  ReadInv'
  <2>1. Kept(r)  BY <1>7, AskStep, PresentKept DEF AfterGetLatest
  <2> QED  BY <1>6, <1>7, <2>1, AskStep
<1>8. ASSUME NEW r \in Readers, Reading(r), UNCHANGED vars PROVE ReadInv'
  <2>0. Present' = Present  BY <1>8, PresentKept
  <2>1. ASSUME NEW a, AnswerWith(r, a) PROVE ReadInv'
    BY <1>2, <1>6, <1>8, <2>1, AnswerStep
  <2>2. ASSUME NEW label, Proceed(r, label), rstep[r] # "idle",
               \A q \in Readers \ {r} : latest'[q] = latest[q] /\ rquery'[q] = rquery[q],
               latest'[r] \in Tips,
               label = "resolve" => latest'[r] = latest[r] /\ AllowedRead(r)
        PROVE  ReadInv'
    <3>1. Kept(r)  BY <2>0, <2>2, ProceedStep DEF ReadInv, AllowedRead
    <3> QED  BY <1>6, <1>8, <2>2, <3>1, ProceedStep
  <2>3. CASE /\ rstep[r] = "getLatest" /\ tips[asked[r]] # Undef
             /\ latest' = [latest EXCEPT ![r] = tips[asked[r]]]
             /\ Proceed(r, "checkGlobal") /\ UNCHANGED rquery
    <3>1. latest'[r] \in Tips  BY <2>3 DEF ReaderTypeOK, TypeOK, MaybeTips
    <3> QED  BY <2>2, <2>3, <3>1 DEF ReaderTypeOK
  <2>4. ASSUME NEW label, label # "resolve", Proceed(r, label), UNCHANGED latest,
               rstep[r] \in AfterGetLatest,
               \A q \in Readers \ {r} : rquery'[q] = rquery[q]
        PROVE  ReadInv'
    <3>1. latest[r] \in Tips /\ rstep[r] # "idle"  BY <2>4 DEF ReadInv, AfterGetLatest
    <3> QED  BY <2>2, <2>4, <3>1
  <2>5. CASE /\ rstep[r] = "loadGlobal" /\ Proceed(r, "evaluateGlobal") /\ UNCHANGED latest
             /\ rquery' = [rquery EXCEPT ![r] = agg[ReadsFrom[r]].globalReadPolicy]
    BY <2>4, <2>5 DEF AfterGetLatest, ReaderTypeOK
  <2>6. CASE /\ rstep[r] = "validate" /\ Proceed(r, "resolve") /\ UNCHANGED <<latest, rquery>>
             /\ \E other \in LatestOther :
                   ReadValidator(PoliciesAt(latest[r]),
                      ReadInputOf(asked[r], requester[r], latest[r], other)) = "valid"
    <3>1. PICK other \in LatestOther :
             ReadValidator(PoliciesAt(latest[r]),
                ReadInputOf(asked[r], requester[r], latest[r], other)) = "valid"
      BY <2>6
    <3>2. latest[r] \in Tips /\ Present \in during[r]
      BY <2>6 DEF ReadInv, AfterGetLatest
    <3>3. other \in Tips
      <4>1. <<>> \in Tips  BY EmptySeq DEF Tips
      <4> QED  BY <4>1, LatestIsPresent DEF TypeOK, Present, ChainOf, MaybeTips
    <3>4. Allows(PoliciesAt(latest[r]), ReadPolicy,
                 ReadInputOf(asked[r], requester[r], latest[r], other))
      BY <3>1, <3>2, <3>3, EvaluateSound, PoliciesAtType, ReadInputType, ReadWantsAskedAt
      DEF ReadValidator
    <3>5. AllowedRead(r)
      BY <3>2, <3>4, AllowedAsItIs DEF AllowedRead
    <3> QED  BY <2>2, <2>6, <3>2, <3>5
  <2>7. CASE /\ rstep[r] \in {"checkGlobal", "evaluateGlobal"} /\ UNCHANGED <<latest, rquery>>
             /\ Proceed(r, "validate") \/ Proceed(r, "loadGlobal")
    BY <2>4, <2>7 DEF AfterGetLatest
  <2> QED  BY <1>8, <2>1, <2>3, <2>5, <2>6, <2>7, ReadingMoves
<1> QED  BY <1>3, <1>4, <1>5, <1>7, <1>8 DEF ReaderNext

\* A reader is shown a value only by a step of its own, that of the tip it found.
LEMMA ShownStep ==
    ASSUME ReaderTypeOK, [ReaderNext]_<<vars, readerVars>>, NEW r \in Readers, Shows(r)
    PROVE  rstep[r] = "resolve" /\ AnswerWith(r, ValueOf(latest[r]))
<1>1. given' # given /\ given'[r].status = "value" /\ given'[r] # given[r]
  BY DEF Shows
<1>2. PICK q \in Readers : (\E d \in Dids, who \in Identities : Ask(q, d, who)) \/ Reading(q)
  <2>1. UNCHANGED given => FALSE  BY <1>1
  <2>2. (\E h \in Handlers : /\ Receive(h) \/ Serve(h)
                             /\ UNCHANGED <<rstep, localVars, given, newest>> /\ Witnessed)
        => UNCHANGED given
    OBVIOUS
  <2>3. \A s \in Servers : CrashWithReaders(s) => UNCHANGED given  BY DEF CrashWithReaders
  <2> QED  BY <2>1, <2>2, <2>3 DEF ReaderNext
<1>3. \A d \in Dids, who \in Identities : ~Ask(q, d, who)
  <2>1. NoAnswer.status = "none"  BY DEF NoAnswer
  <2> QED  BY <1>1, <2>1, AskStep DEF Alone
<1>4. \A label : ~Proceed(q, label)
  BY <1>1 DEF Proceed
<1>5. ~AnswerWith(q, Nothing) /\ ~AnswerWith(q, Failed)
  <2>1. Nothing.status # "value" /\ Failed.status # "value"  BY DEF Nothing, Failed
  <2> QED  BY <1>1, <2>1, AnswerStep DEF Alone
<1>6. rstep[q] = "resolve" /\ AnswerWith(q, ValueOf(latest[q]))
  BY <1>2, <1>3, <1>4, <1>5, ReadingMoves
<1>7. q = r  BY <1>1, <1>6, AnswerStep DEF Alone
<1> QED  BY <1>6, <1>7

\* A value is only ever shown from a tip whose own read policy allows it to the
\* requester, whatever lands, crashes or fails during the read.
THEOREM ReadsAlwaysAllowed ==
    ASSUME ReadWantsAsked
    PROVE  ReaderSpec => ReadsAllowed
<1>1. ReaderSpec => [](TypeOK /\ ReaderTypeOK /\ ReadInv)
  BY ReaderInvariant, ReadInit, ReadStep, PTL DEF ReaderSpec
<1>2. TypeOK /\ ReaderTypeOK /\ ReadInv /\ [ReaderNext]_<<vars, readerVars>>
      => [\A r \in Readers : Shows(r) =>
            LET tip == given'[r].tip
            IN  \E other \in during[r] :
                   Allows(PoliciesAt(tip), ReadPolicy,
                          ReadInputOf(asked[r], requester[r], tip, other))]_given
  <2> SUFFICES ASSUME ReaderTypeOK, ReadInv, [ReaderNext]_<<vars, readerVars>>,
                      NEW r \in Readers, Shows(r)
               PROVE  \E other \in during[r] :
                         Allows(PoliciesAt(given'[r].tip), ReadPolicy,
                                ReadInputOf(asked[r], requester[r], given'[r].tip, other))
    OBVIOUS
  <2>1. rstep[r] = "resolve" /\ given'[r] = ValueOf(latest[r])
    BY ShownStep, AnswerStep
  <2>2. given'[r].tip = latest[r]  BY <2>1 DEF ValueOf
  <2> QED  BY <2>1, <2>2 DEF ReadInv, AllowedRead
<1>3. ReaderSpec => [][\A r \in Readers : Shows(r) =>
            LET tip == given'[r].tip
            IN  \E other \in during[r] :
                   Allows(PoliciesAt(tip), ReadPolicy,
                          ReadInputOf(asked[r], requester[r], tip, other))]_given
  BY <1>1, <1>2, PTL DEF ReaderSpec
<1> QED  BY <1>3 DEF ReadsAllowed

-----------------------------------------------------------------------------
(***************************************************************************)
(* No reader sees an object go back.                                       *)
(***************************************************************************)
Stays(r) == /\ rstep'[r] = rstep[r] /\ asked'[r] = asked[r] /\ requester'[r] = requester[r]
            /\ latest'[r] = latest[r] /\ newest'[r] = newest[r]

\* What a step, its own or another's, does to a reader: it stays where it is, or it is
\* answered or dies, or it asks, or it finds a tip, or it goes on with that tip.
LEMMA ReaderMoves ==
    ASSUME ReaderTypeOK, [ReaderNext]_<<vars, readerVars>>, NEW r \in Readers
    PROVE  \/ Stays(r) /\ rquery'[r] = rquery[r]
           \/ rstep'[r] = "idle" /\ newest'[r] = newest[r]
           \/ /\ rstep'[r] = "getLatest" /\ newest'[r] = newest[r]
              /\ agg[ReadsFrom[r]].up /\ UNCHANGED vars
           \/ /\ rstep[r] = "getLatest" /\ rstep'[r] = "checkGlobal" /\ UNCHANGED vars
              /\ asked'[r] = asked[r] /\ newest'[r] = newest[r]
              /\ latest'[r] = tips[asked[r]] /\ tips[asked[r]] # Undef
           \/ /\ rstep[r] \in AfterGetLatest /\ rstep'[r] \in AfterGetLatest /\ UNCHANGED vars
              /\ asked'[r] = asked[r] /\ newest'[r] = newest[r] /\ latest'[r] = latest[r]
              /\ rstep'[r] = "evaluateGlobal" => /\ rquery'[r] = agg[ReadsFrom[r]].globalReadPolicy
                                                 /\ agg[ReadsFrom[r]].globalReadPolicy # NoQuery
           \/ /\ rstep[r] = "resolve" /\ rstep'[r] = "idle" /\ UNCHANGED vars
              /\ \A d \in Dids : newest'[r][d] = IF d = asked[r] THEN latest[r] ELSE newest[r][d]
<1>1. CASE \/ \E h \in Handlers : /\ Receive(h) \/ Serve(h)
                                  /\ UNCHANGED <<rstep, localVars, given, newest>> /\ Witnessed
           \/ \E s \in Servers : CrashWithReaders(s)
  BY <1>1, OthersStep DEF Stays
<1>2. CASE UNCHANGED readerVars  BY <1>2 DEF Stays
<1>3. ASSUME NEW q \in Readers \ {r}, Alone(q) PROVE Stays(r) /\ rquery'[r] = rquery[r]
  BY <1>3 DEF Alone, Stays
<1>4. ASSUME NEW q \in Readers, NEW d \in Dids, NEW who \in Identities, Ask(q, d, who), UNCHANGED vars
      PROVE  \/ Stays(r) /\ rquery'[r] = rquery[r]
             \/ /\ rstep'[r] = "getLatest" /\ newest'[r] = newest[r]
                /\ agg[ReadsFrom[r]].up /\ UNCHANGED vars
  BY <1>3, <1>4, AskStep
<1>5. ASSUME NEW q \in Readers \ {r}, Reading(q) PROVE Stays(r) /\ rquery'[r] = rquery[r]
  <2>1. ASSUME NEW a, AnswerWith(q, a) PROVE Alone(q)  BY <2>1, AnswerStep
  <2>2. ASSUME NEW label, Proceed(q, label),
               \A p \in Readers \ {q} : latest'[p] = latest[p] /\ rquery'[p] = rquery[p]
        PROVE  Alone(q)
    BY <2>2, ProceedStep
  <2>3. \/ \E a : AnswerWith(q, a)
        \/ \E label : Proceed(q, label) /\
              \A p \in Readers \ {q} : latest'[p] = latest[p] /\ rquery'[p] = rquery[p]
    BY <1>5, ReadingMoves DEF ReaderTypeOK
  <2> QED  BY <1>3, <2>1, <2>2, <2>3
<1>6. CASE Reading(r) /\ UNCHANGED vars
  <2>1. ASSUME NEW a, AnswerWith(r, a), a.status # "value"
        PROVE  rstep'[r] = "idle" /\ newest'[r] = newest[r]
    BY <2>1 DEF AnswerWith, ReaderTypeOK
  <2>2. Nothing.status # "value" /\ Failed.status # "value"  BY DEF Nothing, Failed
  <2>3. CASE rstep[r] = "resolve" /\ AnswerWith(r, ValueOf(latest[r]))
    <3>1. ValueOf(latest[r]).status = "value" /\ ValueOf(latest[r]).tip = latest[r]
      BY DEF ValueOf
    <3> QED  BY <1>6, <2>3, <3>1, AnswerStep
  <2>4. ASSUME NEW label, Proceed(r, label)
        PROVE  rstep'[r] = label /\ asked'[r] = asked[r] /\ newest'[r] = newest[r]
    BY <2>4 DEF Proceed, ReaderTypeOK
  <2>5. ASSUME NEW label, Proceed(r, label), UNCHANGED latest, rstep[r] \in AfterGetLatest,
               label \in AfterGetLatest \ {"evaluateGlobal"}
        PROVE  /\ rstep[r] \in AfterGetLatest /\ rstep'[r] \in AfterGetLatest
               /\ asked'[r] = asked[r] /\ newest'[r] = newest[r] /\ latest'[r] = latest[r]
               /\ rstep'[r] # "evaluateGlobal"
    BY <2>4, <2>5
  <2>6. CASE /\ rstep[r] = "getLatest" /\ tips[asked[r]] # Undef
             /\ latest' = [latest EXCEPT ![r] = tips[asked[r]]]
             /\ Proceed(r, "checkGlobal") /\ UNCHANGED rquery
    BY <1>6, <2>4, <2>6 DEF ReaderTypeOK
  <2>7. CASE /\ rstep[r] = "loadGlobal" /\ agg[ReadsFrom[r]].globalReadPolicy # NoQuery
             /\ rquery' = [rquery EXCEPT ![r] = agg[ReadsFrom[r]].globalReadPolicy]
             /\ Proceed(r, "evaluateGlobal") /\ UNCHANGED latest
    BY <1>6, <2>4, <2>7 DEF ReaderTypeOK, AfterGetLatest
  <2>8. {"checkGlobal", "loadGlobal", "validate", "resolve"} \subseteq AfterGetLatest \ {"evaluateGlobal"}
        /\ "evaluateGlobal" \in AfterGetLatest
    BY DEF AfterGetLatest
  <2> QED  BY <1>6, <2>1, <2>2, <2>3, <2>5, <2>6, <2>7, <2>8, ReadingMoves
<1> QED  BY <1>1, <1>2, <1>4, <1>5, <1>6 DEF ReaderNext

\* The tips a reader was answered from are tips their objects had, and the one it is
\* about to be answered from comes after them.
MonotonicInv ==
    \A r \in Readers :
       /\ \A d \in Dids : newest[r][d] # Undef => newest[r][d] \in seen[d]
       /\ rstep[r] \in AfterGetLatest =>
             /\ latest[r] \in seen[asked[r]]
             /\ newest[r][asked[r]] # Undef => IsPrefix(newest[r][asked[r]], latest[r])


LEMMA MonotonicInit == ReaderInit => MonotonicInv
BY DEF ReaderInit, MonotonicInv, AfterGetLatest

LEMMA MonotonicStep ==
    ASSUME TypeOK, ChainInv, SerialInv, ReaderTypeOK, MonotonicInv,
           [ReaderNext]_<<vars, readerVars>>
    PROVE  MonotonicInv'
<1>1. \A d \in Dids : seen[d] \subseteq seen'[d]
  BY ReadersLeaveAlone, SeenGrows
<1> SUFFICES ASSUME NEW r \in Readers
             PROVE  /\ \A d \in Dids : newest'[r][d] # Undef => newest'[r][d] \in seen'[d]
                    /\ rstep'[r] \in AfterGetLatest =>
                          /\ latest'[r] \in seen'[asked'[r]]
                          /\ newest'[r][asked'[r]] # Undef =>
                                IsPrefix(newest'[r][asked'[r]], latest'[r])
  BY DEF MonotonicInv
<1>2. asked[r] \in Dids  BY DEF ReaderTypeOK
<1>3. CASE Stays(r)
  BY <1>1, <1>2, <1>3 DEF Stays, MonotonicInv
<1>4. CASE rstep'[r] \in {"idle", "getLatest"} /\ newest'[r] = newest[r]
  BY <1>1, <1>4 DEF MonotonicInv, AfterGetLatest
<1>5. CASE /\ rstep[r] = "getLatest" /\ rstep'[r] = "checkGlobal" /\ UNCHANGED vars
           /\ asked'[r] = asked[r] /\ newest'[r] = newest[r]
           /\ latest'[r] = tips[asked[r]] /\ tips[asked[r]] # Undef
  <2>1. tips[asked[r]] \in seen[asked[r]]
    BY <1>2, <1>5 DEF ChainInv, TipsSeen
  <2>2. newest[r][asked[r]] # Undef => IsPrefix(newest[r][asked[r]], tips[asked[r]])
    BY <1>2 DEF MonotonicInv, SerialInv, OneHistory
  <2> QED  BY <1>5, <2>1, <2>2 DEF MonotonicInv
<1>6. CASE /\ rstep[r] \in AfterGetLatest /\ UNCHANGED vars
           /\ asked'[r] = asked[r] /\ newest'[r] = newest[r] /\ latest'[r] = latest[r]
  BY <1>6 DEF MonotonicInv
<1>7. CASE /\ rstep[r] = "resolve" /\ rstep'[r] = "idle" /\ UNCHANGED vars
           /\ \A d \in Dids : newest'[r][d] = IF d = asked[r] THEN latest[r] ELSE newest[r][d]
  BY <1>7 DEF MonotonicInv, AfterGetLatest
<1> QED  BY <1>3, <1>4, <1>5, <1>6, <1>7, ReaderMoves

\* While clients write one update of an object at a time and the store keeps what it
\* takes, a reader never sees an object go back: what it is answered from extends what
\* it was answered from before, whatever writes land between the two answers.
THEOREM ReadsAlwaysMonotonic ==
    ASSUME Serial, Durable PROVE ReaderSpec => ReadsMonotonic
<1>1. ReaderSpec => [](TypeOK /\ ChainInv /\ SerialInv /\ ReaderTypeOK /\ MonotonicInv)
  <2>1. ReaderInit => SerialInv /\ MonotonicInv
    BY SerialInit, MonotonicInit DEF ReaderInit
  <2>2. TypeOK /\ ChainInv /\ ReaderTypeOK /\ SerialInv /\ MonotonicInv
        /\ [ReaderNext]_<<vars, readerVars>> => SerialInv' /\ MonotonicInv'
    BY ReadersLeaveAlone, SerialStep, MonotonicStep
  <2> QED  BY <2>1, <2>2, ReaderInvariant, PTL DEF ReaderSpec
<1>2. ReaderTypeOK /\ MonotonicInv /\ [ReaderNext]_<<vars, readerVars>>
      => [\A r \in Readers, d \in Dids : newest[r][d] # newest'[r][d] /\ newest[r][d] # Undef
             => IsStrictPrefix(newest[r][d], newest'[r][d])]_newest
  <2> SUFFICES ASSUME ReaderTypeOK, MonotonicInv, [ReaderNext]_<<vars, readerVars>>,
                      NEW r \in Readers, NEW d \in Dids,
                      newest[r][d] # newest'[r][d], newest[r][d] # Undef
               PROVE  IsStrictPrefix(newest[r][d], newest'[r][d])
    OBVIOUS
  <2>1. rstep[r] = "resolve" /\ d = asked[r] /\ newest'[r][d] = latest[r]
    BY ReaderMoves DEF Stays
  <2>2. IsPrefix(newest[r][d], latest[r])
    BY <2>1 DEF MonotonicInv, AfterGetLatest
  <2> QED  BY <2>1, <2>2 DEF IsStrictPrefix
<1>3. ReaderSpec => [][\A r \in Readers, d \in Dids :
             newest[r][d] # newest'[r][d] /\ newest[r][d] # Undef
             => IsStrictPrefix(newest[r][d], newest'[r][d])]_newest
  BY <1>1, <1>2, PTL DEF ReaderSpec
<1> QED  BY <1>3 DEF ReadsMonotonic

-----------------------------------------------------------------------------
(***************************************************************************)
(* The global policy, in a process that only reads.                        *)
(***************************************************************************)
ReadersElsewhere == \A r \in Readers, h \in Handlers : ReadsFrom[r] # Host[h]

\* The process of a reader has the policies of one version of the config tree, or none,
\* and what a reader evaluates is what its process has.
GlobalInv ==
    \A r \in Readers :
       /\ Settled(ReadsFrom[r])
       /\ rstep[r] # "idle" => agg[ReadsFrom[r]].up
       /\ rstep[r] = "evaluateGlobal" => /\ rquery[r] = agg[ReadsFrom[r]].globalReadPolicy
                                         /\ rquery[r] # NoQuery

LEMMA GlobalInit == ReaderInit => GlobalInv
<1> SUFFICES ASSUME ReaderInit PROVE GlobalInv  OBVIOUS
<1>1. \A r \in Readers : rstep[r] = "idle" /\ agg[ReadsFrom[r]] = Blank(TRUE)
  BY ReadersAssumption DEF ReaderInit, Init
<1> QED  BY <1>1 DEF GlobalInv, Settled

\* What a step does to the process of a reader: nothing, or the reader is not there.
LEMMA ProcessOfReader ==
    ASSUME ReadersElsewhere, TypeOK, ChainInv, ReaderTypeOK, GlobalInv,
           [ReaderNext]_<<vars, readerVars>>, NEW r \in Readers
    PROVE  /\ Settled(ReadsFrom[r])'
           /\ agg'[ReadsFrom[r]] = agg[ReadsFrom[r]] \/ rstep'[r] = "idle"
<1> DEFINE s == ReadsFrom[r]
<1>0. s \in Servers  BY ReadersAssumption
<1>1. Versions \subseteq Versions'
  BY ReadersLeaveAlone, SeenGrows DEF Versions
<1>2. agg'[s] = agg[s] => Settled(s)'
  BY <1>1 DEF GlobalInv, Settled
<1>3. ASSUME NEW h \in Handlers, Serve(h) PROVE agg'[s] = agg[s]
  <2>1. Host[h] # s /\ Host[h] \in Servers  BY HostAssumption DEF ReadersElsewhere
  <2> QED  BY <1>0, <1>3, <2>1, InstallMoves DEF Assigns, Sets, TypeOK
<1>4. ASSUME NEW h \in Handlers, Receive(h) PROVE agg'[s] = agg[s]
  BY <1>4 DEF Receive
<1>5. ASSUME NEW q \in Servers, CrashWithReaders(q)
      PROVE  agg'[s] = agg[s] \/ (rstep'[r] = "idle" /\ Settled(s)')
  <2>1. CASE q # s  BY <1>0, <1>5, <2>1 DEF CrashWithReaders, Crash, TypeOK
  <2>2. CASE q = s
    <3>1. agg'[s] = Blank(FALSE)  BY <1>0, <1>5, <2>2 DEF CrashWithReaders, Crash, TypeOK
    <3>2. rstep'[r] = "idle"  BY <1>5, <2>2 DEF CrashWithReaders
    <3> QED  BY <3>1, <3>2 DEF Settled
  <2> QED  BY <2>1, <2>2
<1>6. ASSUME NEW q \in Servers, Restart(q), UNCHANGED readerVars
      PROVE  agg'[s] = agg[s] \/ (rstep'[r] = "idle" /\ Settled(s)')
  <2>1. CASE q # s  BY <1>0, <1>6, <2>1 DEF Restart, TypeOK
  <2>2. CASE q = s
    <3>1. rstep'[r] = "idle"  BY <1>6, <2>2 DEF Restart, GlobalInv
    <3>2. agg'[s] = IF ConfigTip = Undef THEN Blank(TRUE) ELSE Configured(ConfigTip)
      BY <1>0, <1>6, <2>2 DEF Restart, TypeOK
    <3>3. ConfigTip # Undef => ConfigTip \in Versions
      BY ConfigAssumption DEF ConfigTip, Versions, ChainInv, TipsSeen
    <3> QED  BY <1>1, <3>1, <3>2, <3>3 DEF Settled
  <2> QED  BY <2>1, <2>2
<1> QED  BY <1>2, <1>3, <1>4, <1>5, <1>6 DEF ReaderNext

LEMMA GlobalStep ==
    ASSUME ReadersElsewhere, TypeOK, ChainInv, ReaderTypeOK, GlobalInv,
           [ReaderNext]_<<vars, readerVars>>
    PROVE  GlobalInv'
<1> SUFFICES ASSUME NEW r \in Readers, rstep'[r] # "idle"
             PROVE  /\ agg'[ReadsFrom[r]].up
                    /\ rstep'[r] = "evaluateGlobal" => /\ rquery'[r] = agg'[ReadsFrom[r]].globalReadPolicy
                                                       /\ rquery'[r] # NoQuery
  BY ProcessOfReader DEF GlobalInv
<1>1. agg'[ReadsFrom[r]] = agg[ReadsFrom[r]]
  BY ProcessOfReader
<1> QED  BY <1>1, ReaderMoves DEF GlobalInv, Stays, AfterGetLatest

\* The step with which a reader passes the global policy.
LEMMA PassingStep ==
    ASSUME ReaderTypeOK, [ReaderNext]_<<vars, readerVars>>, NEW r \in Readers, PassesGlobalRead(r)
    PROVE  \E other \in LatestOther :
              PolicyValidator(rquery[r], HasReadWants(r),
                 ReadInputOf(asked[r], requester[r], agg[ReadsFrom[r]].configTree, other)) = "valid"
<1>1. Reading(r)
  <2>1. ASSUME NEW q \in Readers, Alone(q) PROVE q = r
    BY <2>1 DEF Alone, PassesGlobalRead
  <2>2. ~(\E h \in Handlers : /\ Receive(h) \/ Serve(h)
                              /\ UNCHANGED <<rstep, localVars, given, newest>> /\ Witnessed)
    BY DEF PassesGlobalRead
  <2>3. \A s \in Servers : ~CrashWithReaders(s)
    BY DEF PassesGlobalRead, CrashWithReaders
  <2>4. PICK q \in Readers : (\E d \in Dids, who \in Identities : Ask(q, d, who)) \/ Reading(q)
    BY <2>2, <2>3 DEF ReaderNext, PassesGlobalRead
  <2>5. \A d \in Dids, who \in Identities : ~Ask(q, d, who)
    BY <2>1, AskStep DEF PassesGlobalRead
  <2>6. Alone(q)
    <3>1. \A a : AnswerWith(q, a) => Alone(q)  BY AnswerStep
    <3>2. ASSUME NEW label, Proceed(q, label),
                 \A p \in Readers \ {q} : latest'[p] = latest[p] /\ rquery'[p] = rquery[p]
          PROVE  Alone(q)
      BY <3>2, ProceedStep
    <3>3. \/ \E a : AnswerWith(q, a)
          \/ \E label : Proceed(q, label) /\
                \A p \in Readers \ {q} : latest'[p] = latest[p] /\ rquery'[p] = rquery[p]
      BY <2>4, <2>5, ReadingMoves DEF ReaderTypeOK
    <3> QED  BY <3>1, <3>2, <3>3
  <2> QED  BY <2>1, <2>4, <2>5, <2>6
<1>2. \A a : ~AnswerWith(r, a)
  BY AnswerStep DEF PassesGlobalRead
<1> QED  BY <1>1, <1>2, ReadingMoves DEF PassesGlobalRead

LEMMA GlobalReadStep ==
    ASSUME ReadWantsAsked, TypeOK, ChainInv, ReaderTypeOK, ReadInv, GlobalInv,
           [ReaderNext]_<<vars, readerVars>>, NEW r \in Readers, PassesGlobalRead(r)
    PROVE  \E v \in seen[ConfigDid], other \in during[r] :
              /\ PoliciesAt(v).kind # "absent"
              /\ Allows(PoliciesAt(v), ReadPolicy, ReadInputOf(asked[r], requester[r], v, other))
<1> DEFINE a == agg[ReadsFrom[r]]
           input(v, other) == ReadInputOf(asked[r], requester[r], v, other)
<1>1. PICK other \in LatestOther :
         PolicyValidator(rquery[r], a.hasReadWants, input(a.configTree, other)) = "valid"
  BY PassingStep DEF HasReadWants
<1>2. /\ Settled(ReadsFrom[r]) /\ rquery[r] = a.globalReadPolicy /\ rquery[r] # NoQuery
      /\ Present \in during[r]
  BY DEF GlobalInv, ReadInv, PassesGlobalRead
<1>3. PICK v \in Versions : a = Configured(v)
  BY <1>2 DEF Settled, Blank
<1>4. v \in seen[ConfigDid] /\ v \in Tips
  BY <1>3 DEF Versions, TypeOK
<1>5. other \in Tips
  <2>1. <<>> \in Tips  BY EmptySeq DEF Tips
  <2> QED  BY <2>1, LatestIsPresent DEF TypeOK, Present, ChainOf, MaybeTips
<1>6. rquery[r] = Read(v).query /\ a.hasReadWants = Read(v).hasWants /\ a.configTree = v
  BY <1>2, <1>3, BuildConfigured DEF Build
<1>7. PolicyValidator(Read(v).query, Read(v).hasWants, input(v, other)) = "valid"
  BY <1>1, <1>6
<1>8. input(v, other) \in Inputs
  BY <1>4, <1>5, ReadInputType
<1>9. Allows(PoliciesAt(v), ReadPolicy, input(v, other)) /\ Understood(PoliciesAt(v))
  <2> HIDE DEF input
  <2> QED  BY <1>2, <1>4, <1>6, <1>7, <1>8, ValidatorSound, PoliciesAtType, ReadWantsAskedAt DEF Read
<1>10. Allows(PoliciesAt(v), ReadPolicy, input(v, Present))
  BY <1>4, <1>9, AllowedAsItIs
<1> QED  BY <1>2, <1>4, <1>9, <1>10 DEF Understood

\* In a process that only reads, what is read was let through by the policy of one
\* version of the config tree, given that version to look at, whatever is written,
\* crashes or fails elsewhere.
THEOREM GlobalReadAlwaysEnforced ==
    ASSUME ReadWantsAsked, ReadersElsewhere PROVE ReaderSpec => GlobalReadEnforced
<1>1. ReaderSpec => [](TypeOK /\ ChainInv /\ ReaderTypeOK /\ ReadInv /\ GlobalInv)
  BY ReaderInvariant, ReadInit, ReadStep, GlobalInit, GlobalStep, PTL DEF ReaderSpec
<1>2. TypeOK /\ ChainInv /\ ReaderTypeOK /\ ReadInv /\ GlobalInv /\ [ReaderNext]_<<vars, readerVars>>
      => [\A r \in Readers : PassesGlobalRead(r) =>
            \E v \in seen[ConfigDid], other \in during[r] :
               /\ PoliciesAt(v).kind # "absent"
               /\ Allows(PoliciesAt(v), ReadPolicy,
                         ReadInputOf(asked[r], requester[r], v, other))]_<<vars, readerVars>>
  BY GlobalReadStep
<1> QED  BY <1>1, <1>2, PTL DEF ReaderSpec, GlobalReadEnforced
=============================================================================
