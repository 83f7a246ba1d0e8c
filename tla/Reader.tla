-------------------------------- MODULE Reader --------------------------------
(***************************************************************************)
(* Reading an object (Resolver.Resolve, Aggregator.ResolveWithReadControls)*)
(* while others write it.  A reader looks up the tip once; the policies of *)
(* the object and the value it answers with both come from that tip, while *)
(* the global policy is the one its server has at the time, and what a     *)
(* policy wants of another tree is looked up when it is evaluated.         *)
(***************************************************************************)
EXTENDS AggregatorProps

CONSTANTS
    Readers,
    ReadsFrom,   \* the server each reader asks
    Identities   \* the trees readers have an identity of; Undef for none

ASSUME ReadersAssumption == /\ ReadsFrom \in [Readers -> Servers]
                            /\ Identities \subseteq Dids \cup {Undef}

VARIABLES
    rstep,     \* where each reader is
    asked,     \* the object it asked for
    requester, \* the tree its verified identity names; Undef without one
    latest,    \* the tip GetLatest found
    rquery,    \* the query evaluateGlobalReadPolicy dereferenced
    given,     \* the last answer it got
    newest,    \* history: the newest tip it was answered from, of each object
    during     \* history: the tips the other tree had since it asked

localVars  == <<asked, requester, latest, rquery>>
readerVars == <<rstep, localVars, given, newest, during>>

ReadLabels == {"idle", "getLatest", "checkGlobal", "loadGlobal", "evaluateGlobal",
               "validate", "resolve"}

\* What ResolveWithReadControls returns: nothing (the path of the request is the
\* remaining path: not found, or not allowed), the value at a tip, or an error.
Answers  == [status : {"none", "nothing", "value", "error"}, tip : MaybeTips]
NoAnswer == [status |-> "none", tip |-> Undef]
Nothing  == [status |-> "nothing", tip |-> Undef]
Failed   == [status |-> "error", tip |-> Undef]
\* MUTANT: a status GraphQL clients do not know.
ValueOf_Renamed(tip) == [status |-> "found", tip |-> tip]

ValueOf(tip) == [status |-> "value", tip |-> tip]

\* ReadInput; a read writes no policy.
ReadInputOf(d, who, holder, other) ==
    [InputOf(holder, NoRequest.block, other) EXCEPT !.writesPolicy = FALSE, !.self = (who = d)]

SomeDid == CHOOSE d \in Dids : TRUE
Present == IF OtherDid \in Dids THEN ChainOf(tips[OtherDid]) ELSE <<>>

ReaderInit ==
    /\ Init
    /\ rstep = [r \in Readers |-> "idle"]
    /\ asked = [r \in Readers |-> SomeDid]
    /\ requester = [r \in Readers |-> Undef]
    /\ latest = [r \in Readers |-> Undef]
    /\ rquery = [r \in Readers |-> NoQuery]
    /\ given = [r \in Readers |-> NoAnswer]
    /\ newest = [r \in Readers |-> [d \in Dids |-> Undef]]
    /\ during = [r \in Readers |-> {}]

-----------------------------------------------------------------------------
Proceed(r, label) ==
    /\ rstep' = [rstep EXCEPT ![r] = label]
    /\ UNCHANGED <<asked, requester, given, newest, during>>

AnswerWith(r, a) ==
    /\ rstep' = [rstep EXCEPT ![r] = "idle"]
    /\ asked' = [asked EXCEPT ![r] = SomeDid]
    /\ requester' = [requester EXCEPT ![r] = Undef]
    /\ latest' = [latest EXCEPT ![r] = Undef]
    /\ rquery' = [rquery EXCEPT ![r] = NoQuery]
    /\ given' = [given EXCEPT ![r] = a]
    /\ newest' = IF a.status = "value"
                 THEN [newest EXCEPT ![r][asked[r]] = a.tip] ELSE newest
    /\ during' = [during EXCEPT ![r] = {}]

\* Resolver.Resolve, with the identity RequesterFromCtx finds.
Ask(r, d, who) ==
    /\ rstep[r] = "idle" /\ agg[ReadsFrom[r]].up
    /\ rstep' = [rstep EXCEPT ![r] = "getLatest"]
    /\ asked' = [asked EXCEPT ![r] = d]
    /\ requester' = [requester EXCEPT ![r] = who]
    /\ given' = [given EXCEPT ![r] = NoAnswer]
    /\ during' = [during EXCEPT ![r] = {Present}]
    /\ UNCHANGED <<latest, rquery, newest>>

\* GetLatest: GetTip, then a tree over the nodes of that tip.
GetLatest(r) ==
    LET tip == tips[asked[r]]
    IN  /\ rstep[r] = "getLatest"
        /\ \/ tip = Undef /\ AnswerWith(r, Nothing)
           \/ /\ tip # Undef /\ tip \in nodes[asked[r]]
              /\ latest' = [latest EXCEPT ![r] = tip]
              /\ Proceed(r, "checkGlobal") /\ UNCHANGED rquery
           \/ /\ (tip # Undef /\ tip \notin nodes[asked[r]]) \/ "store" \in Faults
              /\ AnswerWith(r, Failed)

\* evaluateGlobalReadPolicy, with the same two reads of the pointer as the one
\* for writing.
CheckGlobalReadPolicy(r) ==
    /\ rstep[r] = "checkGlobal"
    /\ Proceed(r, IF agg[ReadsFrom[r]].globalReadPolicy = NoQuery THEN "validate" ELSE "loadGlobal")
    /\ UNCHANGED <<latest, rquery>>

LoadGlobalReadPolicy(r) ==
    LET policy == agg[ReadsFrom[r]].globalReadPolicy
    IN  /\ rstep[r] = "loadGlobal"
        /\ \/ /\ policy # NoQuery
              /\ rquery' = [rquery EXCEPT ![r] = policy]
              /\ Proceed(r, "evaluateGlobal") /\ UNCHANGED latest
           \/ policy = NoQuery /\ AnswerWith(r, Failed)

\* A reader that is not allowed to look is told what it would be told if there
\* were nothing; a policy that cannot be evaluated is an error.
Conclude(r, verdict, label) ==
    \/ verdict = "valid" /\ Proceed(r, label) /\ UNCHANGED <<latest, rquery>>
    \/ verdict = "invalid" /\ AnswerWith(r, Nothing)
    \/ verdict \in {"error", "panic"} /\ AnswerWith(r, Failed)

\* MUTANT: the wants of the policy are not looked up.
HasReadWants_Never(r) == FALSE

HasReadWants(r) == agg[ReadsFrom[r]].hasReadWants

EvaluateGlobalReadPolicy(r) ==
    LET config == agg[ReadsFrom[r]].configTree
    IN  /\ rstep[r] = "evaluateGlobal"
        /\ \/ \E other \in LatestOther :
                Conclude(r, PolicyValidator(rquery[r], HasReadWants(r),
                                            ReadInputOf(asked[r], requester[r], config, other)),
                         "validate")
           \/ HasReadWants(r) /\ MayMiss(ConfigDid, config) /\ AnswerWith(r, Failed)

\* MUTANT: the policies are looked up again, in the tree there is now.
ReadOn_Again(r) == ChainOf(tips[asked[r]])

\* The tree of GetLatest.
ReadOn(r) == latest[r]

ValidateRead(r) ==
    /\ rstep[r] = "validate"
    /\ \/ \E other \in LatestOther :
            Conclude(r, ReadValidator(PoliciesAt(ReadOn(r)),
                                      ReadInputOf(asked[r], requester[r], ReadOn(r), other)),
                     "resolve")
       \/ MayMiss(asked[r], latest[r]) /\ AnswerWith(r, Failed)

\* Dag.Resolve, which needs the nodes the path goes through.
Resolve(r) ==
    /\ rstep[r] = "resolve"
    /\ \/ Loadable(asked[r], latest[r]) /\ AnswerWith(r, ValueOf(latest[r]))
       \/ MayMiss(asked[r], latest[r]) /\ AnswerWith(r, Failed)

Reading(r) == \/ GetLatest(r)
              \/ CheckGlobalReadPolicy(r) \/ LoadGlobalReadPolicy(r) \/ EvaluateGlobalReadPolicy(r)
              \/ ValidateRead(r) \/ Resolve(r)

\* What a step of somebody else changes for the readers.
Witnessed ==
    during' = [r \in Readers |-> IF rstep'[r] = "idle" THEN {} ELSE during[r] \cup {Present'}]

\* A crash takes the readers of the server with it.
CrashWithReaders(s) ==
    LET lost == {r \in Readers : ReadsFrom[r] = s}
    IN  /\ Crash(s)
        /\ rstep' = [r \in Readers |-> IF r \in lost THEN "idle" ELSE rstep[r]]
        /\ asked' = [r \in Readers |-> IF r \in lost THEN SomeDid ELSE asked[r]]
        /\ requester' = [r \in Readers |-> IF r \in lost THEN Undef ELSE requester[r]]
        /\ latest' = [r \in Readers |-> IF r \in lost THEN Undef ELSE latest[r]]
        /\ rquery' = [r \in Readers |-> IF r \in lost THEN NoQuery ELSE rquery[r]]
        /\ Witnessed
        /\ UNCHANGED <<given, newest>>

ReaderNext ==
    \/ \E h \in Handlers : /\ Receive(h) \/ Serve(h)
                           /\ UNCHANGED <<rstep, localVars, given, newest>> /\ Witnessed
    \/ \E s \in Servers : Restart(s) /\ UNCHANGED readerVars
    \/ \E s \in Servers : CrashWithReaders(s)
    \/ \E r \in Readers : /\ \/ \E d \in Dids, who \in Identities : Ask(r, d, who)
                             \/ Reading(r)
                          /\ UNCHANGED vars

ReaderSpec == ReaderInit /\ [][ReaderNext]_<<vars, readerVars>>

-----------------------------------------------------------------------------
ReaderTypeOK ==
    /\ rstep \in [Readers -> ReadLabels] /\ asked \in [Readers -> Dids]
    /\ requester \in [Readers -> Dids \cup {Undef}]
    /\ latest \in [Readers -> MaybeTips] /\ rquery \in [Readers -> Queries]
    /\ given \in [Readers -> Answers] /\ newest \in [Readers -> [Dids -> MaybeTips]]
    /\ during \in [Readers -> SUBSET Tips]

Shows(r) == given'[r] # given[r] /\ given'[r].status = "value"

\* The policies that a tree has decide who sees the values it has: a value is
\* only ever answered from a tip whose own read policy allows it to the requester,
\* with the other tree as it was at some moment of the read; also when a block that
\* changes the policies, the value or the other tree lands during the read.
ReadsAllowed ==
    [][\A r \in Readers : Shows(r) =>
          LET tip == given'[r].tip
          IN  \E other \in during[r] :
                 Allows(PoliciesAt(tip), ReadPolicy,
                        ReadInputOf(asked[r], requester[r], tip, other))]_given

\* A read is let through by the global policy of some version of the config tree.
PassesGlobalRead(r) == rstep[r] = "evaluateGlobal" /\ rstep'[r] = "validate"

GlobalReadEnforced ==
    [][\A r \in Readers : PassesGlobalRead(r) =>
          \E v \in seen[ConfigDid], other \in during[r] :
             /\ PoliciesAt(v).kind # "absent"
             /\ Allows(PoliciesAt(v), ReadPolicy,
                       ReadInputOf(asked[r], requester[r], v, other))]_<<vars, readerVars>>

\* A reader never sees an object go back: what it is answered from extends what
\* it was answered from before.
ReadsMonotonic ==
    [][\A r \in Readers, d \in Dids : newest[r][d] # newest'[r][d] /\ newest[r][d] # Undef
          => IsStrictPrefix(newest[r][d], newest'[r][d])]_newest
=============================================================================
