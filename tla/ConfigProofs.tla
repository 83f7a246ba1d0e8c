---------------------------- MODULE ConfigProofs ----------------------------
(***************************************************************************)
(* Theorems about the global policies and the messages: what setupConfigTree *)
(* leaves in each aggregator while it is interleaved with requests, other   *)
(* processes and crashes.                                                   *)
(***************************************************************************)
EXTENDS SerialProofs

USE DEF storeVars, handlerVars, vars

InstallLabels == {"installWrite", "installWriteWants", "installRead", "installReadWants"}
ConfigLabels  == {"loadConfig"} \cup InstallLabels

\* The policies clients send are maps setupConfigTree can install.
Compiles == \A b \in Blocks : PolicyFromTree(b.policies, WritePolicy).status = "ok"

LEMMA AllInstallable == ASSUME Compiles, NEW tip \in Tips PROVE Installable(tip)
<1>1. PolicyFromTree(Empty, WritePolicy).status = "ok"
  <2>1. Empty.kind = "absent" /\ Modules(Empty) = {"none"}
    BY DEF Empty, PolicyMap, Modules
  <2>2. PolicyFromTree(Empty, WritePolicy) = Rejected("ok")
    BY <2>1 DEF PolicyFromTree
  <2> QED  BY <2>2 DEF Rejected
<1> QED  BY <1>1, PoliciesOrigin DEF Compiles, Installable

-----------------------------------------------------------------------------
(***************************************************************************)
(* An aggregator that runs, by its fields.                                 *)
(***************************************************************************)
Build(tip, write, writeWants, read, readWants) ==
    [up |-> TRUE, configTree |-> tip,
     globalWritePolicy |-> write, hasWriteWants |-> writeWants,
     globalReadPolicy |-> read, hasReadWants |-> readWants]

Write(tip) == PolicyFromTree(PoliciesAt(tip), WritePolicy)
Read(tip)  == PolicyFromTree(PoliciesAt(tip), ReadPolicy)

LEMMA BuildOf ==
    ASSUME NEW a \in Aggregators, a.up
    PROVE  a = Build(a.configTree, a.globalWritePolicy, a.hasWriteWants,
                     a.globalReadPolicy, a.hasReadWants)
BY DEF Aggregators, Build

LEMMA BuildChanged ==
    ASSUME NEW t, NEW p, NEW w, NEW q, NEW x, NEW v, NEW a, NEW b, a = Build(t, p, w, q, x)
    PROVE  /\ b = [a EXCEPT !.configTree = v] => b = Build(v, p, w, q, x)
           /\ b = [a EXCEPT !.globalWritePolicy = v] => b = Build(t, v, w, q, x)
           /\ b = [a EXCEPT !.hasWriteWants = v] => b = Build(t, p, v, q, x)
           /\ b = [a EXCEPT !.globalReadPolicy = v] => b = Build(t, p, w, v, x)
           /\ b = [a EXCEPT !.hasReadWants = v] => b = Build(t, p, w, q, v)
BY DEF Build

LEMMA BuildConfigured ==
    ASSUME NEW tip
    PROVE  Configured(tip) = Build(tip, Write(tip).query, Write(tip).hasWants,
                                   Read(tip).query, Read(tip).hasWants)
<1> DEFINE write == PolicyFromTree(PoliciesAt(tip), WritePolicy)
           read  == PolicyFromTree(PoliciesAt(tip), ReadPolicy)
<1>1. Configured(tip) = [Blank(TRUE) EXCEPT !.configTree = tip,
          !.globalWritePolicy = write.query, !.hasWriteWants = write.hasWants,
          !.globalReadPolicy = read.query, !.hasReadWants = read.hasWants]
  BY DEF Configured
<1>2. write = Write(tip) /\ read = Read(tip)  BY DEF Write, Read
<1> HIDE DEF write, read
<1> QED  BY <1>1, <1>2 DEF Blank, Build

-----------------------------------------------------------------------------
(***************************************************************************)
(* The steps.                                                              *)
(***************************************************************************)
LoadFails(h)    == /\ pc[h] = "loadConfig"
                   /\ tips[ConfigDid] = Undef \/ tips[ConfigDid] \notin nodes[ConfigDid]
CompileFails(h) == pc[h] = "installWrite" /\ Write(tree[h]).status # "ok"
ReadFails(h)    == pc[h] \in InstallLabels /\ ~Loadable(ConfigDid, tree[h])

Sets(h, label, a) ==
    /\ pc'[h] = label
    /\ agg' = [agg EXCEPT ![Host[h]] = a]

\* An assignment of setupConfigTree.
Assigns(h) ==
    LET a == agg[Host[h]]
    IN  \/ /\ pc[h] = "loadConfig" /\ Sets(h, "installWrite", [a EXCEPT !.configTree = tips[ConfigDid]])
           /\ tree' = [tree EXCEPT ![h] = tips[ConfigDid]] /\ tips[ConfigDid] \in nodes[ConfigDid]
        \/ /\ pc[h] = "installWrite" /\ UNCHANGED tree
           /\ Sets(h, "installWriteWants", [a EXCEPT !.globalWritePolicy = Write(tree[h]).query])
        \/ /\ pc[h] = "installWriteWants" /\ UNCHANGED tree
           /\ Sets(h, "installRead", [a EXCEPT !.hasWriteWants = Write(tree[h]).hasWants])
        \/ /\ pc[h] = "installRead" /\ UNCHANGED tree
           /\ Sets(h, "installReadWants", [a EXCEPT !.globalReadPolicy = Read(tree[h]).query])
        \/ /\ pc[h] = "installReadWants" /\ UNCHANGED tree
           /\ Sets(h, "publish", [a EXCEPT !.hasReadWants = Read(tree[h]).hasWants])

\* What a step of a handler does to the aggregators: an assignment, or nothing; then it
\* was not setting up the config tree, or it has failed.
LEMMA InstallMoves ==
    ASSUME TypeOK, NEW h \in Handlers, Serve(h)
    PROVE  \/ Assigns(h)
           \/ /\ UNCHANGED agg /\ pc'[h] \notin InstallLabels
              /\ pc[h] \in ConfigLabels =>
                    "store" \in Faults \/ LoadFails(h) \/ CompileFails(h) \/ ReadFails(h)
<1> USE DEF InstallLabels, ConfigLabels, Assigns
<1>1. ASSUME NEW r, Reply(h, r) PROVE pc'[h] = "idle"
  BY <1>1 DEF Reply, TypeOK
<1>2. ASSUME NEW label, Goto(h, label) PROVE pc'[h] = label /\ UNCHANGED tree
  BY <1>2 DEF Goto, TypeOK
<1>3. ASSUME NEW field, NEW value, NEW label, Install(h, field, value, label)
      PROVE  Sets(h, label, [agg[Host[h]] EXCEPT ![field] = value]) /\ UNCHANGED tree
  BY <1>2, <1>3 DEF Install, Sets
<1>4. CASE CheckGlobalPolicy(h) \/ CheckTip(h) \/ Authenticate(h)
  BY <1>1, <1>2, <1>4 DEF CheckGlobalPolicy, CheckTip, Authenticate
<1>5. CASE LoadGlobalPolicy(h)      BY <1>1, <1>5 DEF LoadGlobalPolicy, TypeOK
<1>6. CASE LoadGlobalTree(h) \/ LoadGlobalWants(h) \/ EvaluateGlobalPolicy(h)
  <2>1. CASE LoadGlobalTree(h)  BY <2>1 DEF LoadGlobalTree, TypeOK
  <2>2. CASE LoadGlobalWants(h) \/ EvaluateGlobalPolicy(h)
    BY <1>1, <1>2, <2>2, GlobalDecided DEF Pass, TypeOK
  <2> QED  BY <1>6, <2>1, <2>2
<1>7. CASE Validate(h)              BY <1>1, <1>7, TreeDecided DEF Pass, TypeOK
<1>8. CASE StoreState(h) \/ PutTip(h) \/ Publish(h)
  BY <1>1, <1>2, <1>8 DEF StoreState, PutTip, PutFails, Publish
<1>9. CASE LoadConfig(h)
  <2>1. CASE UNCHANGED agg /\ Reply(h, ErrorReply) /\ pc[h] = "loadConfig"
             /\ (tips[ConfigDid] \notin nodes[ConfigDid] \/ "store" \in Faults)
    BY <1>1, <2>1 DEF LoadFails
  <2>3. CASE UNCHANGED agg /\ Goto(h, "publish") /\ pc[h] = "loadConfig" /\ tips[ConfigDid] = Undef
    BY <1>2, <2>3 DEF LoadFails
  <2>2. CASE /\ tips[ConfigDid] \in nodes[ConfigDid] /\ pc[h] = "loadConfig"
             /\ agg' = [agg EXCEPT ![Host[h]].configTree = tips[ConfigDid]]
             /\ tree' = [tree EXCEPT ![h] = tips[ConfigDid]]
             /\ pc' = [pc EXCEPT ![h] = "installWrite"]
    BY <2>2 DEF Sets, TypeOK
  <2> QED  BY <1>9, <2>1, <2>2, <2>3 DEF LoadConfig
<1>10. CASE InstallWritePolicy(h)
  BY <1>1, <1>3, <1>10 DEF InstallWritePolicy, InstallFails, Installing, CompileFails, ReadFails,
     MayMiss, Write
<1>11. CASE InstallWriteWants(h)
  BY <1>3, <1>11 DEF InstallWriteWants, Installing, Write
<1>12. CASE InstallReadPolicy(h)
  BY <1>1, <1>3, <1>12 DEF InstallReadPolicy, InstallFails, Installing, ReadFails, MayMiss, Read
<1>13. CASE InstallReadWants(h)
  BY <1>3, <1>13 DEF InstallReadWants, Installing, Read
<1> QED  BY <1>4, <1>5, <1>6, <1>7, <1>8, <1>9, <1>10, <1>11, <1>12, <1>13 DEF Serve

\* A step of a handler leaves the locals of the others alone.
LEMMA LocalsKept ==
    ASSUME TypeOK, NEW h \in Handlers, Serve(h), NEW g \in Handlers \ {h}
    PROVE  tree'[g] = tree[g] /\ query'[g] = query[g]
<1>1. ASSUME NEW r, Reply(h, r) PROVE tree'[g] = tree[g] /\ query'[g] = query[g]
  BY <1>1 DEF Reply, TypeOK
<1>2. CASE CheckGlobalPolicy(h) \/ CheckTip(h) \/ Authenticate(h)
  BY <1>1, <1>2 DEF CheckGlobalPolicy, CheckTip, Authenticate, Goto
<1>3. CASE LoadGlobalPolicy(h)      BY <1>1, <1>3 DEF LoadGlobalPolicy, TypeOK
<1>4. CASE LoadGlobalTree(h) \/ LoadGlobalWants(h) \/ EvaluateGlobalPolicy(h)
  <2>1. CASE LoadGlobalTree(h)  BY <2>1 DEF LoadGlobalTree, TypeOK
  <2>2. CASE LoadGlobalWants(h) \/ EvaluateGlobalPolicy(h)
    BY <1>1, <2>2, GlobalDecided DEF Goto, Pass, TypeOK
  <2> QED  BY <1>4, <2>1, <2>2
<1>5. CASE Validate(h)              BY <1>1, <1>5, TreeDecided DEF Pass, TypeOK
<1>6. CASE StoreState(h) \/ PutTip(h) \/ Publish(h)
  BY <1>1, <1>6 DEF StoreState, PutTip, PutFails, Publish, Goto
<1>7. CASE LoadConfig(h)            BY <1>1, <1>7 DEF LoadConfig, Goto, TypeOK
<1>8. CASE \/ InstallWritePolicy(h) \/ InstallWriteWants(h)
           \/ InstallReadPolicy(h) \/ InstallReadWants(h)
  BY <1>1, <1>8 DEF InstallWritePolicy, InstallWriteWants, InstallReadPolicy, InstallReadWants,
     InstallFails, Install, Goto
<1> QED  BY <1>2, <1>3, <1>4, <1>5, <1>6, <1>7, <1>8 DEF Serve

-----------------------------------------------------------------------------
(***************************************************************************)
(* What the aggregators hold, while the store does not fail and the        *)
(* policies compile: nothing, or the policies of one version of the config *)
(* tree, except while a handler of the process installs the next ones.     *)
(***************************************************************************)
Versions == IF ConfigDid \in Dids THEN seen[ConfigDid] ELSE {}

Settled(s) == agg[s] \in {Blank(TRUE), Blank(FALSE)} \/ \E v \in Versions : agg[s] = Configured(v)

NoInstaller(s) == \A h \in Handlers : Host[h] = s => pc[h] \notin InstallLabels

ServersSettled == \A s \in Servers : NoInstaller(s) => Settled(s)

\* How far the handler that installs has come.
Stage(h) ==
    LET a     == agg[Host[h]]
        tip   == tree[h]
        write == Write(tip)
        read  == Read(tip)
    IN  /\ tip \in Versions
        /\ pc[h] = "installWrite" => \E p, w, q, x : a = Build(tip, p, w, q, x)
        /\ pc[h] = "installWriteWants" => \E w, q, x : a = Build(tip, write.query, w, q, x)
        /\ pc[h] = "installRead" => \E q, x : a = Build(tip, write.query, write.hasWants, q, x)
        /\ pc[h] = "installReadWants" =>
              \E x : a = Build(tip, write.query, write.hasWants, read.query, x)

Stages == \A h \in Handlers : pc[h] \in InstallLabels => Stage(h)

ConfigOnes == \A h \in Handlers : pc[h] \in ConfigLabels => abr[h].did = ConfigDid

Up == \A h \in Handlers : Busy(h) => agg[Host[h]].up

SettledInv == ServersSettled /\ Stages /\ ConfigOnes /\ Up

\* One handler of a process at a time sets up the config tree: there is no other, or
\* clients wait.
OneInstaller ==
    \A g, h \in Handlers :
       pc[g] \in ConfigLabels /\ pc[h] \in ConfigLabels /\ Host[g] = Host[h] => g = h

LEMMA SettledInit == Init => SettledInv
<1> SUFFICES ASSUME Init PROVE SettledInv  OBVIOUS
<1>1. Blank(TRUE).up  BY DEF Blank
<1> QED  BY <1>1, HostAssumption DEF Init, SettledInv, ServersSettled, Settled, Stages, ConfigOnes, Up,
         InstallLabels, ConfigLabels, Busy

\* A handler that installs goes on, and the last assignment completes the policies.
LEMMA StageStep ==
    ASSUME TypeOK, ChainInv, NEW h \in Handlers, Assigns(h),
           agg[Host[h]].up, pc[h] \in InstallLabels => Stage(h), ConfigOnes,
           \A d \in Dids : seen[d] \subseteq seen'[d]
    PROVE  /\ pc[h] \in ConfigLabels /\ pc'[h] \in InstallLabels \cup {"publish"}
           /\ \A s \in Servers \ {Host[h]} : agg'[s] = agg[s]
           /\ pc'[h] \in InstallLabels => Stage(h)'
           /\ pc'[h] \notin InstallLabels => /\ agg'[Host[h]] = Configured(tree[h])
                                          /\ tree[h] \in Versions' /\ pc[h] \in InstallLabels
           /\ agg'[Host[h]].up
<1> DEFINE s == Host[h]
           a == agg[s]
           tip == tree[h]
<1>0. /\ s \in Servers /\ a \in Aggregators /\ a.up /\ DOMAIN agg = Servers
      /\ abr[h].did \in Dids
  BY HostAssumption, NewTipType DEF TypeOK
<1>1. Versions \subseteq Versions'
  BY DEF Versions
<1>2. ASSUME NEW label, NEW b, Sets(h, label, b)
      PROVE  agg'[s] = b /\ pc'[h] = label /\ \A r \in Servers \ {s} : agg'[r] = agg[r]
  BY <1>0, <1>2 DEF Sets, TypeOK
<1>3. \A t, p, w, q, x : Build(t, p, w, q, x).up  BY DEF Build
<1>4. CASE /\ pc[h] = "loadConfig" /\ Sets(h, "installWrite", [a EXCEPT !.configTree = tips[ConfigDid]])
           /\ tree' = [tree EXCEPT ![h] = tips[ConfigDid]] /\ tips[ConfigDid] \in nodes[ConfigDid]
  <2>1. ConfigDid \in Dids  BY <1>0, <1>4 DEF ConfigOnes, ConfigLabels
  <2>2. tips[ConfigDid] \in Versions
    BY <1>4, <2>1, UndefAssumption DEF TypeOK, ChainInv, TipsSeen, Versions
  <2>3. agg'[s] = Build(tips[ConfigDid], a.globalWritePolicy, a.hasWriteWants,
                        a.globalReadPolicy, a.hasReadWants)
    BY <1>0, <1>2, <1>4, BuildOf, BuildChanged
  <2>4. tree'[h] = tips[ConfigDid] /\ pc'[h] = "installWrite"
    BY <1>2, <1>4 DEF TypeOK
  <2>5. Stage(h)'
    BY <1>1, <2>2, <2>3, <2>4 DEF Stage
  <2> QED  BY <1>2, <1>3, <1>4, <2>3, <2>5 DEF InstallLabels, ConfigLabels
<1>5. CASE /\ pc[h] = "installWrite" /\ UNCHANGED tree
           /\ Sets(h, "installWriteWants", [a EXCEPT !.globalWritePolicy = Write(tip).query])
  <2>1. PICK p, w, q, x : a = Build(tip, p, w, q, x)
    BY <1>5 DEF Stage, InstallLabels
  <2>2. agg'[s] = Build(tip, Write(tip).query, w, q, x)
    BY <1>2, <1>5, <2>1, BuildChanged
  <2>3. Stage(h)'
    BY <1>1, <1>2, <1>5, <2>2 DEF Stage, InstallLabels, Write
  <2> QED  BY <1>2, <1>3, <1>5, <2>2, <2>3 DEF InstallLabels, ConfigLabels
<1>6. CASE /\ pc[h] = "installWriteWants" /\ UNCHANGED tree
           /\ Sets(h, "installRead", [a EXCEPT !.hasWriteWants = Write(tip).hasWants])
  <2>1. PICK w, q, x : a = Build(tip, Write(tip).query, w, q, x)
    BY <1>6 DEF Stage, InstallLabels
  <2>2. agg'[s] = Build(tip, Write(tip).query, Write(tip).hasWants, q, x)
    BY <1>2, <1>6, <2>1, BuildChanged
  <2>3. Stage(h)'
    BY <1>1, <1>2, <1>6, <2>2 DEF Stage, InstallLabels, Write
  <2> QED  BY <1>2, <1>3, <1>6, <2>2, <2>3 DEF InstallLabels, ConfigLabels
<1>7. CASE /\ pc[h] = "installRead" /\ UNCHANGED tree
           /\ Sets(h, "installReadWants", [a EXCEPT !.globalReadPolicy = Read(tip).query])
  <2>1. PICK q, x : a = Build(tip, Write(tip).query, Write(tip).hasWants, q, x)
    BY <1>7 DEF Stage, InstallLabels
  <2>2. agg'[s] = Build(tip, Write(tip).query, Write(tip).hasWants, Read(tip).query, x)
    BY <1>2, <1>7, <2>1, BuildChanged
  <2>3. Stage(h)'
    BY <1>1, <1>2, <1>7, <2>2 DEF Stage, InstallLabels, Write, Read
  <2> QED  BY <1>2, <1>3, <1>7, <2>2, <2>3 DEF InstallLabels, ConfigLabels
<1>8. CASE /\ pc[h] = "installReadWants" /\ UNCHANGED tree
           /\ Sets(h, "publish", [a EXCEPT !.hasReadWants = Read(tip).hasWants])
  <2>1. PICK x : a = Build(tip, Write(tip).query, Write(tip).hasWants, Read(tip).query, x)
    BY <1>8 DEF Stage, InstallLabels
  <2>2. agg'[s] = Configured(tip)
    BY <1>2, <1>8, <2>1, BuildChanged, BuildConfigured
  <2>3. tip \in Versions'
    BY <1>1, <1>8 DEF Stage, InstallLabels
  <2> QED  BY <1>2, <1>3, <1>8, <2>2, <2>3, BuildConfigured DEF InstallLabels, ConfigLabels
<1> QED  BY <1>4, <1>5, <1>6, <1>7, <1>8 DEF Assigns

\* The tree a handler installs from can be loaded, as every tip the object has had.
LEMMA TreeLoadable ==
    ASSUME KnownTips, NodesInv, SettledInv, NEW h \in Handlers PROVE ~ReadFails(h)
BY DEF ReadFails, NodesInv, SeenLoadable, SettledInv, Stages, Stage, Versions

\* While the store does not fail and the policies compile, an installation does not end
\* but with the last assignment.
LEMMA InstallGoesOn ==
    ASSUME KnownTips, "store" \notin Faults, Compiles, TypeOK, NodesInv, SettledInv,
           NEW h \in Handlers, Serve(h), ~Assigns(h)
    PROVE  /\ UNCHANGED agg /\ pc[h] \notin InstallLabels /\ pc'[h] \notin InstallLabels
           /\ pc[h] = "loadConfig" => LoadFails(h)
<1>1. ~CompileFails(h)
  BY AllInstallable DEF TypeOK, CompileFails, Write, Installable
<1> QED  BY <1>1, TreeLoadable, InstallMoves DEF InstallLabels, ConfigLabels, LoadFails, ReadFails

LEMMA SettledServe ==
    ASSUME KnownTips, "store" \notin Faults, Compiles, TypeOK, ChainInv, NodesInv, SettledInv,
           OneInstaller, NEW h \in Handlers, Serve(h), \A d \in Dids : seen[d] \subseteq seen'[d]
    PROVE  SettledInv'
<1>1. /\ Busy(h) /\ abr[h].did \in Dids
      /\ \A g \in Handlers \ {h} : pc'[g] = pc[g] /\ abr'[g] = abr[g] /\ tree'[g] = tree[g]
      /\ pc'[h] = "idle" \/ abr' = abr
  BY Moves, LocalsKept, NewTipType
<1>2. Versions \subseteq Versions'  BY DEF Versions
<1>3. \A s \in Servers : agg'[s] = agg[s] /\ Settled(s) => Settled(s)'
  BY <1>2 DEF Settled
<1>4. ASSUME NEW g \in Handlers \ {h}, agg'[Host[g]] = agg[Host[g]], pc[g] \in InstallLabels
      PROVE  Stage(g)'
  BY <1>1, <1>2, <1>4 DEF SettledInv, Stages, Stage, Write, Read
<1>5. ConfigOnes'
  <2>1. pc'[h] \in ConfigLabels => pc[h] \in ConfigLabels \/ abr[h].did = ConfigDid
    BY ServeMoves DEF Moved, Reply, TypeOK, ConfigLabels, InstallLabels
  <2>2. "idle" \notin ConfigLabels  BY DEF ConfigLabels, InstallLabels
  <2> QED  BY <1>1, <2>1, <2>2 DEF SettledInv, ConfigOnes
<1>6. CASE Assigns(h)
  <2>1. Host[h] \in Servers /\ agg[Host[h]].up
    BY <1>1, HostAssumption DEF SettledInv, Up
  <2>2. /\ pc[h] \in ConfigLabels /\ pc'[h] \in InstallLabels \cup {"publish"}
        /\ \A s \in Servers \ {Host[h]} : agg'[s] = agg[s]
        /\ pc'[h] \in InstallLabels => Stage(h)'
        /\ pc'[h] \notin InstallLabels => Settled(Host[h])'
        /\ agg'[Host[h]].up
    BY <1>6, <2>1, StageStep DEF SettledInv, Stages, Settled
  <2>3. \A g \in Handlers \ {h} : pc[g] \in InstallLabels => agg'[Host[g]] = agg[Host[g]]
    BY <2>2, HostAssumption DEF OneInstaller, ConfigLabels
  <2>4. Stages'
    BY <1>1, <1>4, <2>2, <2>3 DEF Stages
  <2>5. ServersSettled'
    <3> SUFFICES ASSUME NEW s \in Servers, NoInstaller(s)' PROVE Settled(s)'
      BY DEF ServersSettled
    <3>1. CASE s = Host[h]  BY <2>2, <3>1 DEF NoInstaller
    <3>2. CASE s # Host[h]
      <4>1. NoInstaller(s)  BY <1>1, <3>2 DEF NoInstaller
      <4> QED  BY <1>3, <2>2, <3>2, <4>1 DEF SettledInv, ServersSettled
    <3> QED  BY <3>1, <3>2
  <2>6. Up'
    BY <1>1, <2>2, HostAssumption DEF SettledInv, Up, Busy
  <2> QED  BY <1>5, <2>4, <2>5, <2>6 DEF SettledInv
<1>7. CASE ~Assigns(h)
  <2>1. UNCHANGED agg /\ pc[h] \notin InstallLabels /\ pc'[h] \notin InstallLabels
    BY <1>7, InstallGoesOn
  <2>2. Stages'  BY <1>1, <1>4, <2>1 DEF Stages
  <2>3. ServersSettled'
    BY <1>1, <1>3, <2>1 DEF SettledInv, ServersSettled, NoInstaller
  <2>4. Up'  BY <1>1, <2>1 DEF SettledInv, Up, Busy
  <2> QED  BY <1>5, <2>2, <2>3, <2>4 DEF SettledInv
<1> QED  BY <1>6, <1>7

LEMMA SettledStep ==
    ASSUME KnownTips, "store" \notin Faults, Compiles, TypeOK, ChainInv, NodesInv, SettledInv,
           OneInstaller, [Next]_vars
    PROVE  SettledInv'
<1>1. \A d \in Dids : seen[d] \subseteq seen'[d]  BY SeenGrows
<1>2. ASSUME NEW h \in Handlers, Serve(h) PROVE SettledInv'  BY <1>1, <1>2, SettledServe
<1>3. ASSUME NEW h \in Handlers, Receive(h) PROVE SettledInv'
  <2>1. /\ UNCHANGED <<seen, agg, tree>> /\ pc'[h] = "checkGlobal" /\ pc[h] = "idle" /\ agg[Host[h]].up
        /\ \A g \in Handlers \ {h} : pc'[g] = pc[g] /\ abr'[g] = abr[g]
    BY <1>3 DEF Receive, TypeOK
  <2>2. ServersSettled'
    BY <2>1 DEF SettledInv, ServersSettled, NoInstaller, Settled, Versions, InstallLabels
  <2>3. Stages'
    BY <2>1 DEF SettledInv, Stages, Stage, Versions, Write, Read, InstallLabels
  <2>4. ConfigOnes' /\ Up'
    BY <2>1 DEF SettledInv, ConfigOnes, Up, Busy, InstallLabels, ConfigLabels
  <2> QED  BY <2>2, <2>3, <2>4 DEF SettledInv
<1>4. ASSUME NEW s \in Servers, Crash(s) PROVE SettledInv'
  <2>1. /\ UNCHANGED seen /\ agg'[s] = Blank(FALSE)
        /\ \A r \in Servers \ {s} : agg'[r] = agg[r]
        /\ \A h \in Handlers : IF Host[h] = s THEN pc'[h] = "idle"
                                ELSE pc'[h] = pc[h] /\ abr'[h] = abr[h] /\ tree'[h] = tree[h]
    BY <1>4 DEF Crash, TypeOK, Busy
  <2>2. ServersSettled'
    BY <2>1 DEF SettledInv, ServersSettled, NoInstaller, Settled, Versions
  <2>3. Stages'
    <3> SUFFICES ASSUME NEW h \in Handlers, pc'[h] \in InstallLabels PROVE Stage(h)'
      BY DEF Stages
    <3>1. Host[h] \in Servers \ {s} /\ pc'[h] = pc[h] /\ tree'[h] = tree[h]
      BY <2>1, HostAssumption DEF InstallLabels
    <3> QED  BY <2>1, <3>1 DEF SettledInv, Stages, Stage, Versions, Write, Read
  <2>4. ConfigOnes' /\ Up'
    BY <2>1, HostAssumption DEF SettledInv, ConfigOnes, Up, Busy, ConfigLabels, InstallLabels
  <2> QED  BY <2>2, <2>3, <2>4 DEF SettledInv
<1>5. ASSUME NEW s \in Servers, Restart(s) PROVE SettledInv'
  <2>1. /\ UNCHANGED <<seen, pc, abr, tree>>
        /\ agg'[s] \in {Blank(TRUE), Configured(ConfigTip)} /\ ~agg[s].up
        /\ agg'[s] # Blank(TRUE) => ConfigTip # Undef
        /\ \A r \in Servers \ {s} : agg'[r] = agg[r]
    BY <1>5 DEF Restart, TypeOK
  <2>2. ConfigTip # Undef => ConfigTip \in Versions
    BY ConfigAssumption DEF ConfigTip, Versions, ChainInv, TipsSeen
  <2>3. ServersSettled'
    BY <2>1, <2>2 DEF SettledInv, ServersSettled, NoInstaller, Settled, Versions
  <2>4. \A h \in Handlers : Busy(h) => Host[h] \in Servers \ {s}
    BY <2>1, HostAssumption DEF SettledInv, Up
  <2>5. Stages'
    BY <2>1, <2>4 DEF SettledInv, Stages, Stage, Versions, Write, Read, Busy, InstallLabels
  <2>6. ConfigOnes' /\ Up'
    BY <2>1, <2>4 DEF SettledInv, ConfigOnes, Up, Busy
  <2> QED  BY <2>3, <2>5, <2>6 DEF SettledInv
<1>6. CASE UNCHANGED vars
  <2>1. ServersSettled'
    BY <1>6 DEF SettledInv, ServersSettled, NoInstaller, Settled, Versions
  <2>2. Stages'
    BY <1>6 DEF SettledInv, Stages, Stage, Versions, Write, Read
  <2>3. ConfigOnes' /\ Up'
    BY <1>6 DEF SettledInv, ConfigOnes, Up, Busy
  <2> QED  BY <2>1, <2>2, <2>3 DEF SettledInv
<1> QED  BY <1>2, <1>3, <1>4, <1>5, <1>6 DEF Next

-----------------------------------------------------------------------------
(***************************************************************************)
(* Processes that serve one request at a time.                             *)
(***************************************************************************)
OneAtATime == \A g, h \in Handlers : Host[g] = Host[h] => g = h

\* What a handler has read of the global policy so far is what its aggregator has.
OwnPolicy(h) ==
    LET a == agg[Host[h]]
    IN  /\ pc[h] \in {"loadTree", "loadWants", "evaluateGlobal"}
           => query[h] = a.globalWritePolicy /\ query[h] # NoQuery
        /\ pc[h] \in {"loadWants", "evaluateGlobal"} => tree[h] = ChainOf(a.configTree)
        /\ pc[h] = "evaluateGlobal" => a.hasWriteWants

OwnQuery == \A h \in Handlers : OwnPolicy(h)

LEMMA OwnQueryStep == ASSUME OneAtATime, TypeOK, Up, OwnQuery, [Next]_vars PROVE OwnQuery'
<1>1. ASSUME NEW h \in Handlers, Serve(h) PROVE OwnQuery'
  <2>1. ASSUME NEW g \in Handlers \ {h} PROVE OwnPolicy(g)'
    <3>1. pc'[g] = pc[g] /\ query'[g] = query[g] /\ tree'[g] = tree[g]
      BY <1>1, Moves, LocalsKept
    <3>2. Host[g] \in Servers /\ Host[h] \in Servers /\ Host[g] # Host[h]
      BY HostAssumption DEF OneAtATime
    <3>3. agg'[Host[g]] = agg[Host[g]]
      BY <1>1, <3>2, InstallMoves DEF Assigns, Sets, TypeOK
    <3> QED  BY <3>1, <3>3 DEF OwnQuery, OwnPolicy
  <2>2. OwnPolicy(h)'
    <3>1. CASE pc'[h] = "loadTree"
      <4>1. pc[h] = "loadGlobal"
        BY <1>1, <3>1, ServeMoves DEF Moved, Reply, TypeOK
      <4>2. LoadGlobalPolicy(h)
        BY <1>1, <4>1 DEF Serve, CheckGlobalPolicy, LoadGlobalTree, LoadGlobalWants,
           EvaluateGlobalPolicy, Authenticate, Validate, CheckTip, StoreState, PutTip, LoadConfig,
           InstallWritePolicy, InstallWriteWants, InstallReadPolicy, InstallReadWants, Publish
      <4> QED  BY <3>1, <4>2 DEF LoadGlobalPolicy, Reply, OwnPolicy, TypeOK
    <3>2. CASE pc'[h] = "loadWants"
      <4>1. pc[h] = "loadTree"
        BY <1>1, <3>2, ServeMoves DEF Moved, Reply, TypeOK
      <4>2. LoadGlobalTree(h)
        BY <1>1, <4>1 DEF Serve, CheckGlobalPolicy, LoadGlobalPolicy, LoadGlobalWants,
           EvaluateGlobalPolicy, Authenticate, Validate, CheckTip, StoreState, PutTip, LoadConfig,
           InstallWritePolicy, InstallWriteWants, InstallReadPolicy, InstallReadWants, Publish
      <4> QED  BY <3>2, <4>1, <4>2 DEF LoadGlobalTree, OwnQuery, OwnPolicy, TypeOK
    <3>3. CASE pc'[h] = "evaluateGlobal"
      <4>1. pc[h] = "loadWants"
        BY <1>1, <3>3, ServeMoves DEF Moved, Reply, TypeOK
      <4>2. LoadGlobalWants(h)
        BY <1>1, <4>1 DEF Serve, CheckGlobalPolicy, LoadGlobalPolicy, LoadGlobalTree,
           EvaluateGlobalPolicy, Authenticate, Validate, CheckTip, StoreState, PutTip, LoadConfig,
           InstallWritePolicy, InstallWriteWants, InstallReadPolicy, InstallReadWants, Publish
      <4>3. HasWriteWants(h) /\ Goto(h, "evaluateGlobal") /\ UNCHANGED agg
        BY <3>3, <4>2, GlobalDecided DEF Pass, Reply, TypeOK
      <4> QED  BY <3>3, <4>1, <4>3 DEF HasWriteWants, Goto, OwnQuery, OwnPolicy
    <3> QED  BY <3>1, <3>2, <3>3 DEF OwnPolicy
  <2> QED  BY <2>1, <2>2 DEF OwnQuery
<1>2. ASSUME NEW h \in Handlers, Receive(h) PROVE OwnQuery'
  BY <1>2 DEF Receive, OwnQuery, OwnPolicy, TypeOK
<1>3. ASSUME NEW s \in Servers, Crash(s) \/ Restart(s) PROVE OwnQuery'
  <2> SUFFICES ASSUME NEW h \in Handlers, pc'[h] # "idle" PROVE OwnPolicy(h)'
    BY DEF OwnQuery, OwnPolicy
  <2>1. Host[h] # s /\ pc'[h] = pc[h] /\ query'[h] = query[h] /\ tree'[h] = tree[h]
    BY <1>3 DEF Crash, Restart, Up, Busy
  <2>2. agg'[Host[h]] = agg[Host[h]]
    BY <1>3, <2>1, HostAssumption DEF Crash, Restart, TypeOK
  <2> QED  BY <2>1, <2>2 DEF OwnQuery, OwnPolicy
<1>4. CASE UNCHANGED vars  BY <1>4 DEF OwnQuery, OwnPolicy
<1> QED  BY <1>1, <1>2, <1>3, <1>4 DEF Next

\* What lets a write through is a policy of one version of the config tree, given that
\* version to look at.
LEMMA EnforcedStep ==
    ASSUME OneAtATime, TypeOK, ChainInv, SettledInv, OwnQuery, [Next]_vars,
           NEW h \in Handlers, PassesGlobalCheck(h)
    PROVE  \E v \in seen[ConfigDid] :
              /\ PoliciesAt(v).kind # "absent"
              /\ \E e \in Evidence : Allows(PoliciesAt(v), WritePolicy, InputOf(v, abr[h].block, e))
<1> DEFINE a == agg[Host[h]]
<1>1. Allowed(h)
  <2>1. \A g \in Handlers : ~Receive(g)
    BY DEF PassesGlobalCheck, Receive, TypeOK
  <2>2. \A s \in Servers : ~(Crash(s) \/ Restart(s))
    <3> SUFFICES ASSUME NEW s \in Servers, Crash(s) \/ Restart(s) PROVE FALSE
      OBVIOUS
    <3>1. CASE Crash(s)
      <4>1. pc'[h] \in {"idle", pc[h]}  BY <3>1 DEF Crash
      <4> QED  BY <4>1 DEF PassesGlobalCheck
    <3>2. CASE Restart(s)
      BY <3>2 DEF PassesGlobalCheck, Restart, handlerVars
    <3> QED  BY <3>1, <3>2
  <2>3. PICK g \in Handlers : Serve(g)
    BY <2>1, <2>2 DEF PassesGlobalCheck, Next
  <2>4. g = h  BY <2>3, Moves DEF PassesGlobalCheck
  <2>5. LoadGlobalWants(h) \/ EvaluateGlobalPolicy(h)
    BY <2>3, <2>4 DEF PassesGlobalCheck, Serve, CheckGlobalPolicy, LoadGlobalPolicy,
       LoadGlobalTree, Authenticate, Validate, CheckTip, StoreState, PutTip, LoadConfig,
       InstallWritePolicy, InstallWriteWants, InstallReadPolicy, InstallReadWants, Publish
  <2> QED  BY <2>5, GlobalDecided DEF PassesGlobalCheck, Goto, Reply, TypeOK
<1>2. /\ a.globalWritePolicy = query[h] /\ query[h] # NoQuery
      /\ tree[h] = ChainOf(a.configTree) /\ a.hasWriteWants \in BOOLEAN
  BY HostAssumption DEF OwnQuery, OwnPolicy, PassesGlobalCheck, TypeOK, Aggregators
<1>3. PICK e \in Evidence :
         PolicyValidator(query[h], a.hasWriteWants, InputOf(tree[h], abr[h].block, e)) = "valid"
  <2>1. CASE pc[h] = "loadWants"
    <3>1. a.hasWriteWants = FALSE  BY <1>1, <1>2, <2>1 DEF Allowed, HasWriteWants
    <3>2. <<>> \in Evidence  BY DEF Evidence
    <3> QED  BY <1>1, <2>1, <3>1, <3>2 DEF Allowed
  <2>2. CASE pc[h] = "evaluateGlobal"
    <3>1. a.hasWriteWants = TRUE  BY <1>2, <2>2 DEF OwnQuery, OwnPolicy
    <3> QED  BY <1>1, <2>2, <3>1, LatestIsEvidence DEF Allowed, ChainInv
  <2> QED  BY <2>1, <2>2 DEF PassesGlobalCheck
<1>4. Settled(Host[h])
  BY HostAssumption DEF OneAtATime, SettledInv, ServersSettled, NoInstaller, PassesGlobalCheck, InstallLabels
<1>5. PICK v \in Versions : a = Configured(v)
  BY <1>2, <1>4 DEF Settled, Blank
<1>6. /\ ConfigDid \in Dids /\ v \in seen[ConfigDid] /\ v \in Tips
      /\ e \in Evidence /\ e \in Tips
      /\ abr[h].block \in Blocks
  BY <1>5, EvidenceType, NewTipType DEF Versions, TypeOK
<1>7. /\ query[h] = Write(v).query /\ a.hasWriteWants = Write(v).hasWants /\ tree[h] = v
  BY <1>2, <1>5, <1>6, BuildConfigured, UndefAssumption DEF Build, ChainOf
<1>8. PolicyValidator(Write(v).query, Write(v).hasWants, InputOf(v, abr[h].block, e)) = "valid"
  BY <1>3, <1>7
<1>9. Asks(PoliciesAt(v), WritePolicy) => PoliciesAt(v).wants # "none"
  BY DEF Asks, WritePolicy, WantsPolicyOf
<1>10. /\ Allows(PoliciesAt(v), WritePolicy, InputOf(v, abr[h].block, e))
       /\ Understood(PoliciesAt(v))
  BY <1>2, <1>6, <1>7, <1>8, <1>9, ValidatorSound, PoliciesAtType, InputOfType DEF Write
<1> QED  BY <1>6, <1>10 DEF Understood

\* Where each process serves one request at a time, a write is let through only if some
\* version of the config tree allows it, never thanks to a mixture of two, however
\* updates of the config tree, requests to other processes and crashes interleave.
THEOREM PolicyAlwaysEnforced ==
    ASSUME OneAtATime, KnownTips, Durable, "store" \notin Faults, Compiles
    PROVE  Spec => PolicyEnforced
<1>1. OneInstaller  BY DEF OneAtATime, OneInstaller
<1>2. Spec => [](TypeOK /\ ConfigNamed /\ ChainInv /\ NodesInv /\ SettledInv /\ OwnQuery)
  <2>1. Init => NodesInv /\ SettledInv /\ OwnQuery
    BY NodesInit, SettledInit DEF Init, OwnQuery, OwnPolicy
  <2>2. TypeOK /\ ChainInv /\ NodesInv /\ SettledInv /\ OwnQuery /\ [Next]_vars
        => NodesInv' /\ SettledInv' /\ OwnQuery'
    BY <1>1, NodesStep, SettledStep, OwnQueryStep DEF SettledInv
  <2> QED  BY <2>1, <2>2, TypeInit, TypeStep, ConfigNamedStep, ChainInit, ChainStep, PTL DEF Spec
<1>3. TypeOK /\ ChainInv /\ SettledInv /\ OwnQuery /\ [Next]_vars
      => [\A h \in Handlers : PassesGlobalCheck(h) =>
            \E v \in seen[ConfigDid] :
               /\ PoliciesAt(v).kind # "absent"
               /\ \E e \in Evidence :
                    Allows(PoliciesAt(v), WritePolicy, InputOf(v, abr[h].block, e))]_vars
  BY EnforcedStep
<1> QED  BY <1>2, <1>3, PTL DEF Spec, PolicyEnforced

-----------------------------------------------------------------------------
(***************************************************************************)
(* Clients that wait for the answer of one update before the next.  The    *)
(* store keeps what it takes and does not fail, so an update whose tip has *)
(* been put is installed and announced, unless its process stops.          *)
(***************************************************************************)
SerialConfigInv == TypeOK /\ ChainInv /\ SerialInv /\ MessageInv /\ NodesInv /\ SettledInv

\* The handler that installs has the tree of the last update.
LatestTree == \A h \in Handlers : pc[h] \in InstallLabels => tree[h] = tips[ConfigDid]

\* The last update is being installed, or it has been, or its process has stopped.
LastInstalled ==
    ConfigTip # Undef => \/ \E h \in Handlers : pc[h] \in ConfigLabels
                         \/ \E s \in Servers : ~agg[s].up \/ agg[s] = Configured(ConfigTip)

FreshInv == LatestTree /\ LastInstalled

LEMMA OneUpdate ==
    ASSUME SerialConfigInv, NEW g \in Handlers, pc[g] \in ConfigLabels,
           NEW h \in Handlers, Busy(h), abr[h].did = ConfigDid
    PROVE  g = h
BY DEF SerialConfigInv, SerialInv, Exclusive, SettledInv, ConfigOnes, Busy, ConfigLabels, InstallLabels

LEMMA SerialOneInstaller == ASSUME SerialConfigInv PROVE OneInstaller
BY OneUpdate DEF OneInstaller, SerialConfigInv, SettledInv, ConfigOnes, Busy, ConfigLabels, InstallLabels

\* The tip that has just been put is found.
LEMMA LoadSucceeds == ASSUME SerialConfigInv, NEW h \in Handlers PROVE ~LoadFails(h)
<1> SUFFICES ASSUME pc[h] = "loadConfig"
             PROVE  tips[ConfigDid] # Undef /\ tips[ConfigDid] \in nodes[ConfigDid]
  BY DEF LoadFails
<1>1. abr[h].did = ConfigDid /\ ConfigDid \in Dids
  BY NewTipType DEF SerialConfigInv, SettledInv, ConfigOnes, ConfigLabels
<1>2. tips[ConfigDid] = NewTip(h) /\ NewTip(h) \in seen[ConfigDid]
  BY <1>1 DEF SerialConfigInv, MessageInv, Ahead, SerialInv, Stored, AfterPut
<1> QED  BY <1>1, <1>2, NewTipType DEF SerialConfigInv, NodesInv, SeenStored

\* From PutTip on a request goes on to its message.
LEMMA AfterPutGoesOn ==
    ASSUME KnownTips, "store" \notin Faults, Compiles, SerialConfigInv, NEW h \in Handlers, Serve(h)
    PROVE  /\ pc[h] \in ConfigLabels => Assigns(h)
           /\ pc[h] \in AfterPut => (pc'[h] \in AfterPut /\ abr' = abr) \/ Publish(h)
           /\ pc[h] = "putTip" => /\ Put(abr[h].did, NewTip(h)) /\ pc'[h] \in AfterPut /\ abr' = abr
                                  /\ abr[h].did = ConfigDid => pc'[h] \in ConfigLabels
<1>1. TypeOK  BY DEF SerialConfigInv
<1>2. pc[h] \in ConfigLabels => Assigns(h)
  BY <1>1, InstallGoesOn, LoadSucceeds DEF SerialConfigInv, ConfigLabels
<1>3. Assigns(h) => pc'[h] \in AfterPut
  BY DEF Assigns, Sets, AfterPut
<1>4. pc[h] = "publish" => Publish(h)
  BY <1>1, ServeMoves
<1>5. pc[h] = "putTip" => PutTip(h)
  BY <1>1, ServeMoves
<1>6. PutTip(h) => /\ Put(abr[h].did, NewTip(h)) /\ pc'[h] \in AfterPut /\ abr' = abr
                   /\ abr[h].did = ConfigDid => pc'[h] \in ConfigLabels
  BY <1>1 DEF PutTip, Goto, AfterPut, ConfigLabels, TypeOK
<1>7. pc'[h] \in AfterPut => abr' = abr
  BY <1>1, Moves DEF AfterPut
<1> QED  BY <1>2, <1>3, <1>4, <1>5, <1>6, <1>7 DEF AfterPut, ConfigLabels, InstallLabels

LEMMA FreshStep ==
    ASSUME KnownTips, Durable, "store" \notin Faults, Compiles, SerialConfigInv, FreshInv, [Next]_vars
    PROVE  FreshInv'
<1>0. TypeOK /\ ChainInv /\ SettledInv  BY DEF SerialConfigInv
<1>1. ASSUME NEW h \in Handlers, Serve(h) PROVE FreshInv'
  <2>1. /\ Busy(h) /\ abr[h].did \in Dids
        /\ \A g \in Handlers \ {h} : pc'[g] = pc[g] /\ tree'[g] = tree[g]
    BY <1>0, <1>1, Moves, LocalsKept, NewTipType
  <2>2. UNCHANGED tips \/ (pc[h] = "putTip" /\ Put(abr[h].did, NewTip(h)))
    BY <1>0, <1>1, ServeMoves
  <2>3. pc[h] = "putTip" => pc[h] \notin ConfigLabels /\ UNCHANGED agg
    BY <1>0, <1>1, InstallMoves DEF Assigns, ConfigLabels, InstallLabels
  <2>4. LatestTree'
    <3> SUFFICES ASSUME NEW g \in Handlers, pc'[g] \in InstallLabels
                 PROVE  tree'[g] = tips'[ConfigDid]
      BY DEF LatestTree
    <3>1. CASE g # h
      <4>1. pc[g] \in ConfigLabels /\ tree'[g] = tree[g] /\ tree[g] = tips[ConfigDid]
        BY <2>1, <3>1 DEF FreshInv, LatestTree, ConfigLabels
      <4>2. abr[h].did # ConfigDid
        BY <2>1, <3>1, <4>1, OneUpdate
      <4>3. tips'[ConfigDid] = tips[ConfigDid]
        <5>1. ConfigDid \in Dids
          BY <1>0, <4>1, NewTipType DEF SettledInv, ConfigOnes
        <5> QED  BY <1>0, <2>2, <4>2, <5>1 DEF Put, TypeOK
      <4> QED  BY <4>1, <4>3
    <3>2. CASE g = h
      <4>1. Assigns(h)  BY <1>0, <1>1, <3>2, InstallMoves
      <4>2. UNCHANGED tips  BY <2>2, <4>1 DEF Assigns
      <4>3. tree'[h] = tips[ConfigDid]
        BY <1>0, <4>1 DEF Assigns, FreshInv, LatestTree, InstallLabels, TypeOK
      <4> QED  BY <3>2, <4>2, <4>3
    <3> QED  BY <3>1, <3>2
  <2>5. LastInstalled'
    <3>1. CASE pc'[h] \in ConfigLabels  BY <3>1 DEF LastInstalled
    <3>2. CASE pc[h] \in ConfigLabels /\ pc'[h] \notin ConfigLabels
      <4>1. Assigns(h) /\ agg[Host[h]].up
        BY <1>0, <1>1, <2>1, <3>2, AfterPutGoesOn DEF SettledInv, Up
      <4>2. agg'[Host[h]] = Configured(tree[h]) /\ pc[h] \in InstallLabels
        BY <1>0, <3>2, <4>1, StageStep, SeenGrows DEF SettledInv, Stages, ConfigLabels
      <4>3. UNCHANGED tips  BY <2>2, <4>1 DEF Assigns
      <4>4. abr[h].did = ConfigDid  BY <1>0, <3>2 DEF SettledInv, ConfigOnes
      <4>5. ConfigDid # Undef  BY <2>1, <4>4, UndefAssumption
      <4>6. ConfigTip' = tree[h]
        BY <4>2, <4>3, <4>5 DEF ConfigTip, FreshInv, LatestTree
      <4>7. agg'[Host[h]] = Configured(ConfigTip')  BY <4>2, <4>6
      <4>8. Configured(ConfigTip)' = Configured(ConfigTip')  BY DEF Configured
      <4> QED  BY <4>7, <4>8, HostAssumption DEF LastInstalled
    <3>3. CASE pc[h] \notin ConfigLabels /\ pc'[h] \notin ConfigLabels
      <4>1. UNCHANGED agg
        BY <1>0, <1>1, <3>3, InstallMoves DEF Assigns, ConfigLabels, InstallLabels
      <4>2. ConfigTip' = ConfigTip
        <5>1. pc[h] = "putTip" => abr[h].did # ConfigDid
          BY <1>1, <3>3, AfterPutGoesOn
        <5> QED  BY <1>0, <2>2, <5>1, ConfigAssumption DEF ConfigTip, Put, TypeOK
      <4>3. \A g \in Handlers : pc[g] \in ConfigLabels => pc'[g] \in ConfigLabels
        BY <2>1, <3>3
      <4>4. Configured(ConfigTip)' = Configured(ConfigTip)  BY <4>2 DEF Configured
      <4> QED  BY <4>1, <4>2, <4>3, <4>4 DEF FreshInv, LastInstalled
    <3> QED  BY <3>1, <3>2, <3>3
  <2> QED  BY <2>4, <2>5 DEF FreshInv
<1>2. ASSUME NEW h \in Handlers, Receive(h) PROVE FreshInv'
  <2>1. /\ UNCHANGED <<tips, agg, tree>> /\ pc[h] = "idle" /\ pc'[h] = "checkGlobal"
        /\ \A g \in Handlers \ {h} : pc'[g] = pc[g]
    BY <1>0, <1>2 DEF Receive, TypeOK
  <2>2. ConfigTip' = ConfigTip /\ Configured(ConfigTip)' = Configured(ConfigTip)
    BY <2>1 DEF ConfigTip, Configured
  <2> QED  BY <2>1, <2>2 DEF FreshInv, LatestTree, LastInstalled, ConfigLabels, InstallLabels
<1>3. ASSUME NEW s \in Servers, Crash(s) PROVE FreshInv'
  <2>1. agg'[s] = Blank(FALSE) /\ UNCHANGED tips
        /\ \A h \in Handlers : pc'[h] = "idle" \/ (pc'[h] = pc[h] /\ tree'[h] = tree[h])
    BY <1>0, <1>3 DEF Crash, KeepStore, TypeOK
  <2>2. ~agg'[s].up  BY <2>1 DEF Blank
  <2> QED  BY <2>1, <2>2 DEF FreshInv, LatestTree, LastInstalled, InstallLabels
<1>4. ASSUME NEW s \in Servers, Restart(s) PROVE FreshInv'
  <2>1. /\ UNCHANGED <<tips, pc, tree>>
        /\ ConfigTip # Undef => agg'[s] = Configured(ConfigTip)
    BY <1>0, <1>4 DEF Restart, TypeOK
  <2>2. ConfigTip' = ConfigTip /\ Configured(ConfigTip)' = Configured(ConfigTip)
    BY <2>1 DEF ConfigTip, Configured
  <2> QED  BY <2>1, <2>2 DEF FreshInv, LatestTree, LastInstalled
<1>5. CASE UNCHANGED vars
  <2>1. ConfigTip' = ConfigTip /\ Configured(ConfigTip)' = Configured(ConfigTip)
    BY <1>5 DEF ConfigTip, Configured
  <2> QED  BY <1>5, <2>1 DEF FreshInv, LatestTree, LastInstalled
<1> QED  BY <1>1, <1>2, <1>3, <1>4, <1>5 DEF Next

LEMMA SerialConfigInvariant ==
    ASSUME Serial, KnownTips, Durable, "store" \notin Faults, Compiles
    PROVE  Spec => []SerialConfigInv
<1>1. Init => NodesInv /\ SettledInv
  BY NodesInit, SettledInit
<1>2. SerialConfigInv /\ [Next]_vars => NodesInv' /\ SettledInv'
  BY NodesStep, SettledStep, SerialOneInstaller DEF SerialConfigInv
<1> QED  BY <1>1, <1>2, MessageInvariant, PTL DEF Spec, SerialConfigInv

\* When no update of the config tree is in flight, each process has the policies of one
\* version of it, whole, and the one that took the last update has those of the last
\* version, or has stopped: however requests read the policies and other processes
\* install and restart between the assignments.
THEOREM PolicyAlwaysFresh ==
    ASSUME Serial, KnownTips, Durable, "store" \notin Faults, Compiles PROVE Spec => []PolicyFresh
<1>1. Init => FreshInv
  <2> SUFFICES ASSUME Init PROVE FreshInv  OBVIOUS
  <2>1. ConfigTip = Undef  BY ConfigAssumption DEF Init, ConfigTip
  <2> QED  BY <2>1 DEF Init, FreshInv, LatestTree, LastInstalled, InstallLabels
<1>2. SerialConfigInv /\ FreshInv => PolicyFresh
  <2> SUFFICES ASSUME SerialConfigInv, FreshInv, ConfigTip # Undef, ~InFlight(ConfigDid)
               PROVE  /\ \A s \in Servers : agg[s].configTree # Undef
                            => agg[s] = Configured(agg[s].configTree)
                      /\ \E s \in Servers : ~agg[s].up \/ agg[s] = Configured(ConfigTip)
    BY DEF PolicyFresh
  <2>1. \A h \in Handlers : pc[h] \notin ConfigLabels
    BY DEF InFlight, SerialConfigInv, SettledInv, ConfigOnes, Busy, ConfigLabels, InstallLabels
  <2>2. ASSUME NEW s \in Servers, agg[s].configTree # Undef
        PROVE  agg[s] = Configured(agg[s].configTree)
    <3>1. Settled(s)
      BY <2>1 DEF SerialConfigInv, SettledInv, ServersSettled, NoInstaller, ConfigLabels
    <3>2. PICK v \in Versions : agg[s] = Configured(v)
      BY <2>2, <3>1 DEF Settled, Blank
    <3>3. Configured(v).configTree = v  BY BuildConfigured DEF Build
    <3> QED  BY <3>2, <3>3
  <2> QED  BY <2>1, <2>2 DEF FreshInv, LastInstalled
<1>3. SerialConfigInv /\ FreshInv /\ [Next]_vars => FreshInv'
  BY FreshStep
<1> QED  BY <1>1, <1>2, <1>3, SerialConfigInvariant, PTL DEF Spec

\* The last message of an object announced its tip, or the request that will send the
\* next one is past PutTip.
ToBeTold ==
    \A d \in Dids : published[d] = tips[d] \/ \E h \in Handlers : pc[h] \in AfterPut /\ abr[h].did = d

LEMMA ToldStep ==
    ASSUME KnownTips, Durable, ~MayCrash, Faults = {}, Compiles, SerialConfigInv, ToBeTold,
           [Next]_vars
    PROVE  ToBeTold'
<1>0. TypeOK  BY DEF SerialConfigInv
<1>1. ASSUME NEW h \in Handlers, Serve(h) PROVE ToBeTold'
  <2> SUFFICES ASSUME NEW d \in Dids
               PROVE  \/ published'[d] = tips'[d]
                      \/ \E g \in Handlers : pc'[g] \in AfterPut /\ abr'[g].did = d
    BY DEF ToBeTold
  <2>1. /\ abr[h].did \in Dids
        /\ \A g \in Handlers \ {h} : pc'[g] = pc[g] /\ abr'[g] = abr[g]
    BY <1>0, <1>1, Moves, NewTipType
  <2>2. UNCHANGED tips \/ (pc[h] = "putTip" /\ Put(abr[h].did, NewTip(h)))
    BY <1>0, <1>1, ServeMoves
  <2>3. UNCHANGED published
        \/ (pc[h] = "publish" /\ published' = [published EXCEPT ![abr[h].did] = NewTip(h)])
    BY <1>0, <1>1, PublishedChange
  <2>4. CASE pc[h] \in AfterPut /\ abr[h].did = d
    <3>1. CASE pc'[h] \in AfterPut /\ abr' = abr  BY <2>4, <3>1
    <3>2. CASE Publish(h)
      <4>1. published'[d] = NewTip(h)
        BY <1>0, <2>4, <3>2 DEF Publish, Announced, TypeOK
      <4>2. tips'[d] = NewTip(h)
        BY <2>4, <3>2 DEF Publish, SerialConfigInv, MessageInv, Ahead
      <4> QED  BY <4>1, <4>2
    <3> QED  BY <1>1, <2>4, <3>1, <3>2, AfterPutGoesOn
  <2>5. CASE pc[h] = "putTip" /\ abr[h].did = d
    BY <1>1, <2>5, AfterPutGoesOn
  <2>6. CASE pc[h] \notin AfterPut \cup {"putTip"} \/ abr[h].did # d
    <3>1. published'[d] = published[d] /\ tips'[d] = tips[d]
      BY <1>0, <2>1, <2>2, <2>3, <2>6 DEF Put, TypeOK, AfterPut
    <3>2. \A g \in Handlers : pc[g] \in AfterPut /\ abr[g].did = d
                              => pc'[g] \in AfterPut /\ abr'[g].did = d
      BY <2>1, <2>6
    <3> QED  BY <3>1, <3>2 DEF ToBeTold
  <2> QED  BY <2>4, <2>5, <2>6
<1>2. ASSUME NEW h \in Handlers, Receive(h) PROVE ToBeTold'
  <2>1. /\ UNCHANGED <<tips, published>> /\ pc[h] = "idle"
        /\ \A g \in Handlers \ {h} : pc'[g] = pc[g] /\ abr'[g] = abr[g]
    BY <1>0, <1>2 DEF Receive, TypeOK
  <2> QED  BY <2>1 DEF ToBeTold, AfterPut
<1>3. \A s \in Servers : ~Crash(s)  BY DEF Crash
<1>4. ASSUME NEW s \in Servers, Restart(s) PROVE ToBeTold'
  BY <1>4 DEF Restart, ToBeTold
<1>5. CASE UNCHANGED vars  BY <1>5 DEF ToBeTold
<1> QED  BY <1>1, <1>2, <1>3, <1>4, <1>5 DEF Next

\* While nothing fails or crashes, the last message of an object with no request in
\* flight announced the tip it has.
THEOREM UpdatesAlwaysPublished ==
    ASSUME Serial, KnownTips, Durable, ~MayCrash, Faults = {}, Compiles PROVE Spec => []UpdatesPublished
<1>1. Init => ToBeTold
  BY DEF Init, ToBeTold
<1>2. ToBeTold => UpdatesPublished
  BY DEF ToBeTold, UpdatesPublished, InFlight, Busy, AfterPut
<1>3. SerialConfigInv /\ ToBeTold /\ [Next]_vars => ToBeTold'
  BY ToldStep
<1>4. Spec => []SerialConfigInv
  BY SerialConfigInvariant
<1> QED  BY <1>1, <1>2, <1>3, <1>4, PTL DEF Spec
=============================================================================
