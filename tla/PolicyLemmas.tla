----------------------------- MODULE PolicyLemmas -----------------------------
(***************************************************************************)
(* What the evaluation of a policy returns: that it is sound, and complete *)
(* where a policy has defaults, for every map of policies and every input. *)
(***************************************************************************)
EXTENDS PolicyDoc, TLAPS

\* A prepared query refers to rules of the tree's policies, or is no query.
LEMMA PolicyFromTreeType ==
    ASSUME NEW node \in PolicyNodes, NEW name \in {WritePolicy, ReadPolicy}
    PROVE  /\ PolicyFromTree(node, name).query \in Queries
           /\ PolicyFromTree(node, name).hasWants \in BOOLEAN
           /\ PolicyFromTree(node, name).status \in {"ok", "error", "panic"}
<1> DEFINE p == PolicyFromTree(node, name)
<1>1. node[name] \in AllowRules /\ node[WantsPolicyOf(name)] \in WantsRules
  BY DEF PolicyNodes, Empty, NotMap, PolicyMap, WritePolicy, ReadPolicy, WantsPolicyOf,
     AllowRules, WantsRules
<1>2. \/ \E s \in {"ok", "error", "panic"} : p = Rejected(s)
      \/ p = [status |-> "ok", hasWants |-> node.wants # "none",
              query |-> [allow |-> node[name],
                         wants |-> IF node.wants # "none"
                                   THEN node[WantsPolicyOf(name)] ELSE "unasked"]]
  BY DEF PolicyFromTree, PolicyNodes, WantsOf
<1>3. NoQuery \in Queries  BY DEF NoQuery, Queries
<1>4. CASE \E s \in {"ok", "error", "panic"} : p = Rejected(s)
  BY <1>3, <1>4 DEF Rejected
<1>5. CASE p = [status |-> "ok", hasWants |-> node.wants # "none",
                query |-> [allow |-> node[name],
                           wants |-> IF node.wants # "none"
                                     THEN node[WantsPolicyOf(name)] ELSE "unasked"]]
  <2>1. p.query \in Queries  BY <1>1, <1>5 DEF Queries
  <2>2. p.hasWants = (node.wants # "none") /\ p.status = "ok"  BY <1>5
  <2> QED  BY <2>1, <2>2
<1> QED  BY <1>2, <1>4, <1>5

-----------------------------------------------------------------------------
\* The rules of a tree's policies, and what the query made of them is.
LEMMA RulesType ==
    ASSUME NEW node \in PolicyNodes, NEW name \in {WritePolicy, ReadPolicy}
    PROVE  /\ node.kind \in {"absent", "notMap", "map"}
           /\ node[name] \in AllowRules /\ node.wants \in WantsRules
           /\ node[WantsPolicyOf(name)] \in WantsRules
BY DEF PolicyNodes, Empty, NotMap, PolicyMap, AllowRules, WantsRules, WritePolicy, ReadPolicy,
   WantsPolicyOf

LEMMA UnderstoodQuery ==
    ASSUME NEW node \in PolicyNodes, NEW name \in {WritePolicy, ReadPolicy}
    PROVE  /\ Understood(node) =>
                 LET p == PolicyFromTree(node, name)
                 IN  /\ p.status = "ok" /\ p.query # NoQuery /\ p.query.allow = node[name]
                     /\ IF node.wants = "none" THEN p.hasWants = FALSE /\ p.query.wants = "unasked"
                        ELSE p.hasWants = TRUE /\ p.query.wants = node[WantsPolicyOf(name)]
           /\ node.kind # "absent" /\ ~Understood(node) => PolicyFromTree(node, name).status # "ok"
           /\ node.kind = "absent" => PolicyFromTree(node, name) = Rejected("ok")
<1>1. node.kind \in {"absent", "notMap", "map"} /\ node[name] \in AllowRules
  BY RulesType
<1> DEFINE p == PolicyFromTree(node, name)
<1>2. ASSUME Understood(node)
      PROVE  /\ p.status = "ok" /\ p.query.allow = node[name]
             /\ IF node.wants = "none" THEN p.hasWants = FALSE /\ p.query.wants = "unasked"
                ELSE p.hasWants = TRUE /\ p.query.wants = node[WantsPolicyOf(name)]
  <2>1. p = [status |-> "ok", hasWants |-> node.wants # "none",
             query |-> [allow |-> node[name],
                        wants |-> IF node.wants # "none" THEN node[WantsPolicyOf(name)]
                                  ELSE "unasked"]]
    BY <1>2 DEF Understood, PolicyFromTree, WantsOf
  <2>2. /\ p.status = "ok" /\ p.hasWants = (node.wants # "none")
        /\ p.query = [allow |-> node[name],
                      wants |-> IF node.wants # "none" THEN node[WantsPolicyOf(name)] ELSE "unasked"]
    BY <2>1
  <2>3. p.query.allow = node[name]
        /\ p.query.wants = IF node.wants # "none" THEN node[WantsPolicyOf(name)] ELSE "unasked"
    BY <2>2
  <2> HIDE DEF p
  <2> QED  BY <2>2, <2>3
<1>3. Understood(node) => p.query # NoQuery
  BY <1>1, <1>2 DEF NoQuery, AllowRules
<1>4. node.kind # "absent" /\ ~Understood(node) => PolicyFromTree(node, name).status # "ok"
  BY <1>1 DEF Understood, PolicyFromTree, Rejected
<1>5. node.kind = "absent" => PolicyFromTree(node, name) = Rejected("ok")
  <2>1. node.kind = "absent" => Modules(node) = {"none"}
    BY DEF PolicyNodes, Empty, NotMap, PolicyMap, Modules
  <2> QED  BY <2>1 DEF PolicyFromTree
<1> QED  BY <1>2, <1>3, <1>4, <1>5

\* A query that does not leave out the wants of the policy lets through nothing that the
\* policy does not allow, knowing what the wanted path holds.
LEMMA ValidatorSound ==
    ASSUME NEW node \in PolicyNodes, NEW name \in {WritePolicy, ReadPolicy}, NEW input \in Inputs,
           NEW p, p = PolicyFromTree(node, name), p.query # NoQuery,
           Asks(node, name) => node.wants # "none",
           PolicyValidator(p.query, p.hasWants, input) = "valid"
    PROVE  Allows(node, name, input) /\ Understood(node)
<1> DEFINE wants == node[WantsPolicyOf(name)]
           paths == PathsToVals(wants, input)
<1>1. Understood(node)
  <2>1. CASE node.kind = "absent"
    <3>1. p = Rejected("ok")  BY <2>1, UnderstoodQuery
    <3> QED  BY <3>1 DEF Rejected
  <2>2. CASE node.kind # "absent" /\ ~Understood(node)
    <3>1. p.query = NoQuery
      <4>1. node.kind \in {"notMap", "map"}  BY <2>2, RulesType
      <4>2. CASE node.kind = "notMap"
        <5>1. Modules(node) = {"none"}
          BY <4>2 DEF PolicyNodes, Empty, NotMap, PolicyMap, Modules
        <5> QED  BY <4>2, <5>1 DEF PolicyFromTree, Rejected
      <4>3. CASE node.kind = "map"
        BY <2>2, <4>3 DEF PolicyFromTree, Rejected, Understood
      <4> QED  BY <4>1, <4>2, <4>3
    <3> QED  BY <3>1
  <2> QED  BY <2>1, <2>2
<1>2. /\ p.query.allow = node[name]
      /\ IF node.wants = "none" THEN p.hasWants = FALSE /\ p.query.wants = "unasked"
         ELSE p.hasWants = TRUE /\ p.query.wants = wants
  BY <1>1, UnderstoodQuery
<1>3. node[name] \in AllowRules /\ wants \in WantsRules  BY RulesType
<1>4. CASE node.wants = "none"
  <2>1. AllowOf(node[name], input, "unset") = "true"
    BY <1>2, <1>4 DEF PolicyValidator, AllowResult
  <2> QED  BY <1>1, <1>4, <2>1 DEF Allows, Known, Asks
<1>5. CASE node.wants # "none"
  <2>0. p.query.allow = node[name] /\ p.query.wants = wants /\ p.hasWants = TRUE
    BY <1>2, <1>5
  <2>1. wants \in {"path", "otherPath"} /\ paths # "missing"
    BY <1>3, <2>0 DEF PolicyValidator, WantsRules
  <2>2. AllowOf(node[name], input, paths) = "true"
    BY <2>0, <2>1 DEF PolicyValidator, Reevaluate, AllowResult
  <2>3. Known(wants, input) = paths
    BY <2>1 DEF Known, PathsToVals
  <2> HIDE DEF paths
  <2> QED  BY <1>1, <2>1, <2>2, <2>3 DEF Allows
<1> QED  BY <1>4, <1>5

\* Validator and ReadValidator never let through what the policies of a tree do not
\* allow, for every map of policies, however malformed, whose wants are not left out.
LEMMA EvaluateSound ==
    ASSUME NEW node \in PolicyNodes, NEW name \in {WritePolicy, ReadPolicy}, NEW input \in Inputs,
           Asks(node, name) => node.wants # "none",
           Evaluate(node, name, input) = "valid"
    PROVE  Allows(node, name, input)
<1> DEFINE p == PolicyFromTree(node, name)
<1>1. CASE node.kind = "absent"
  BY <1>1 DEF Allows
<1>2. CASE node.kind # "absent"
  <2>1. p.status = "ok"
    <3>1. p.status \in {"ok", "error", "panic"}  BY PolicyFromTreeType
    <3> QED  BY <3>1 DEF Evaluate
  <2>2. p.query # NoQuery  BY <1>2, <2>1, UnderstoodQuery
  <2>3. PolicyValidator(p.query, p.hasWants, input) = "valid"
    BY <2>1, <2>2 DEF Evaluate
  <2> QED  BY <2>2, <2>3, ValidatorSound
<1> QED  BY <1>1, <1>2

\* And they let through what the policies allow, if the rule has a default where the
\* policy wants a path: the first evaluation has no value for it yet.
LEMMA EvaluateComplete ==
    ASSUME NEW node \in PolicyNodes, NEW name \in {WritePolicy, ReadPolicy}, NEW input \in Inputs,
           Asks(node, name) = (node.wants # "none"),
           Allows(node, name, input),
           Asks(node, name) => HasDefault(node[name])
    PROVE  Evaluate(node, name, input) = "valid"
<1> DEFINE p == PolicyFromTree(node, name)
           wants == node[WantsPolicyOf(name)]
<1>1. CASE node.kind = "absent"
  <2>1. p = Rejected("ok")  BY <1>1, UnderstoodQuery
  <2>2. p.status = "ok" /\ p.query = NoQuery  BY <2>1 DEF Rejected
  <2> HIDE DEF p
  <2> QED  BY <2>2 DEF Evaluate, p
<1>2. CASE node.kind # "absent"
  <2>1. /\ Understood(node) /\ wants \in {"none", "path", "otherPath"}
        /\ Known(wants, input) # "missing"
        /\ AllowOf(node[name], input, Known(wants, input)) = "true"
    BY <1>2 DEF Allows
  <2>2. /\ p.status = "ok" /\ p.query # NoQuery /\ p.query.allow = node[name]
        /\ IF node.wants = "none" THEN p.hasWants = FALSE /\ p.query.wants = "unasked"
           ELSE p.hasWants = TRUE /\ p.query.wants = wants
    BY <2>1, UnderstoodQuery
  <2>3. Evaluate(node, name, input) = PolicyValidator(p.query, p.hasWants, input)
    BY <2>2 DEF Evaluate
  <2>4. node[name] \in AllowRules  BY RulesType
  <2>5. CASE node.wants = "none"
    <3>1. wants = "none"  BY <2>5 DEF Asks
    <3>2. AllowOf(node[name], input, "unset") = "true"
      BY <2>1, <3>1 DEF Known
    <3>3. p.query.allow = node[name] /\ p.query.wants = "unasked" /\ p.hasWants = FALSE
      BY <2>2, <2>5
    <3>4. HasResult(p.query, input, "unset") /\ AllowResult(p.query, input, "unset") = "valid"
      BY <3>2, <3>3 DEF HasResult, AllowResult
    <3> QED  BY <2>3, <3>3, <3>4 DEF PolicyValidator
  <2>6. CASE node.wants # "none"
    <3>1. wants \in {"path", "otherPath"} /\ HasDefault(node[name])
      BY <2>1, <2>6 DEF Asks
    <3>2. p.query.allow = node[name] /\ p.query.wants = wants /\ p.hasWants = TRUE
      BY <2>2, <2>6
    <3>3. PathsToVals(wants, input) = Known(wants, input)
      BY <3>1 DEF PathsToVals, Known
    <3>4. AllowOf(node[name], input, "unset") # "undefined"
      BY <2>4, <3>1 DEF AllowOf, HasDefault, AllowRules
    <3>5. HasResult(p.query, input, "unset") /\ HasResult(p.query, input, Known(wants, input))
      BY <2>1, <3>1, <3>2, <3>4 DEF HasResult
    <3>6. Reevaluate(p.query, input, Known(wants, input)) = "valid"
      BY <2>1, <3>2, <3>5 DEF Reevaluate, AllowResult
    <3> QED  BY <2>1, <2>3, <3>1, <3>2, <3>3, <3>5, <3>6 DEF PolicyValidator
  <2> QED  BY <2>5, <2>6
<1> QED  BY <1>1, <1>2

\* What is allowed without the other tree is allowed whatever that tree holds.
LEMMA AllowedWithoutOther ==
    ASSUME NEW node, NEW name, NEW input \in Inputs, NEW full \in Inputs,
           Allows(node, name, input), input.other = "missing",
           full.writesPolicy = input.writesPolicy, full.self = input.self, full.own = input.own
    PROVE  Allows(node, name, full)
<1> DEFINE wants == node[WantsPolicyOf(name)]
<1>1. CASE node.kind = "absent"
  BY <1>1 DEF Allows
<1>2. CASE node.kind # "absent"
  <2>1. /\ Understood(node) /\ wants \in {"none", "path", "otherPath"}
        /\ Known(wants, input) # "missing"
        /\ AllowOf(node[name], input, Known(wants, input)) = "true"
    BY <1>2 DEF Allows
  <2>2. wants \in {"none", "path"}
    BY <2>1 DEF Known
  <2>3. Known(wants, full) = Known(wants, input)
    BY <2>2 DEF Known
  <2>4. AllowOf(node[name], full, Known(wants, full)) = AllowOf(node[name], input, Known(wants, input))
    BY <2>3 DEF AllowOf
  <2> QED  BY <2>1, <2>2, <2>3, <2>4 DEF Allows
<1> QED  BY <1>1, <1>2

\* Validator never accepts a block the policies of its tree do not allow: for
\* every map of policies, however malformed, and every block.
THEOREM WriteSound ==
    ASSUME NEW node \in PolicyNodes, NEW input \in Inputs,
           Validator(node, input) = "valid"
    PROVE  Allows(node, WritePolicy, input)
BY EvaluateSound DEF Validator, Asks, WritePolicy, WantsPolicyOf
=============================================================================
