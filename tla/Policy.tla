------------------------------- MODULE Policy -------------------------------
(***************************************************************************)
(* The policies of a ChainTree, after aggregator/policy/extractor.go,      *)
(* validator.go and readvalidator.go.  A tree may hold a map of Rego       *)
(* modules at tree/data/.well-known/policies; they decide which blocks may *)
(* be added to it ("main") and which paths may be read ("read").  A module *)
(* is abstracted to a rule named for what it answers, since nothing else   *)
(* of its text can be told apart by a caller.                              *)
(***************************************************************************)

(***************************************************************************)
(* What data.main.allow or data.read.allow evaluates to.                   *)
(*   none           no such package: the reference is undefined            *)
(*   allow, deny    constants                                              *)
(*   noPolicyChange false for a block that writes the policies             *)
(*   ifOpen         "default allow = false", true when the wanted value    *)
(*                  is "open"                                              *)
(*   openOnly       the same rule without its default: otherwise undefined *)
(*   unlessLocked   "default allow = true", false when it is "locked"      *)
(*   selfOnly       "default allow = false", true when input.identity.sub  *)
(*                  is the tree itself                                     *)
(*   notBool        a value that is not a Boolean                          *)
(*   broken         a module that does not compile                         *)
(*   notString      an entry of the map that is not a string               *)
(***************************************************************************)
AllowRules == {"none", "allow", "deny", "noPolicyChange", "ifOpen", "openOnly",
               "unlessLocked", "selfOnly", "notBool", "broken", "notString"}

(***************************************************************************)
(* What data.wants.paths or data.readWants.paths evaluates to.             *)
(*   none        no such package                                           *)
(*   path        an array with a path of the tree that is evaluated on     *)
(*   otherPath   an array with a path of another tree ("did:tupelo:...")   *)
(*   notArray    a value that is not an array                              *)
(*   notStrings  an array whose elements are not strings                   *)
(*   broken, notString: as above                                           *)
(***************************************************************************)
WantsRules == {"none", "path", "otherPath", "notArray", "notStrings",
               "broken", "notString"}

\* The node at policyPath: nothing, a value that is not a map, or the map.
PolicyMap(main, wants, read, readWants) ==
    [kind |-> "map", main |-> main, wants |-> wants,
     read |-> read, readWants |-> readWants]
Empty  == [PolicyMap("none", "none", "none", "none") EXCEPT !.kind = "absent"]
NotMap == [Empty EXCEPT !.kind = "notMap"]

PolicyNodes == {Empty, NotMap} \cup
    [kind : {"map"}, main : AllowRules, wants : WantsRules,
     read : AllowRules, readWants : WantsRules]

\* What a prepared query can still evaluate: the two rules it refers to
\* ("unasked" when the query does not ask for wants).
NoQuery == [allow |-> "noQuery", wants |-> "unasked"]
Queries == [allow : AllowRules \cup {"noQuery"}, wants : WantsRules \cup {"unasked"}]

\* The package names PolicyFromTree is called with.
WritePolicy == "main"
ReadPolicy  == "read"
WantsPolicyOf(policyName) == IF policyName = WritePolicy THEN "wants" ELSE "readWants"

Modules(node) == {node.main, node.wants, node.read, node.readWants}

(***************************************************************************)
(* PolicyFromTree.  status is "ok", "error" or "panic"; the query is       *)
(* NoQuery when there are no policies or the tree has to be rejected.      *)
(* hasWants looks for the key "wants" whichever policy is asked for, while *)
(* the query it appends refers to the package wantsPolicyName.             *)
(***************************************************************************)
Rejected(status) == [status |-> status, query |-> NoQuery, hasWants |-> FALSE]

\* MUTANT: the query always refers to the package "wants".
WantsOf_Main(node, policyName) == node.wants

\* What the query asks for as wants.
WantsOf(node, policyName) == node[WantsPolicyOf(policyName)]

PolicyFromTree(node, policyName) ==
    LET hasWants == node.wants # "none"
    IN  CASE node.kind = "absent"          -> Rejected("ok")
          [] node.kind = "notMap"          -> Rejected("error")
          [] "notString" \in Modules(node) -> Rejected("panic")
          [] OTHER ->
               IF "broken" \in Modules(node) THEN Rejected("error")
               ELSE [status |-> "ok", hasWants |-> hasWants,
                     query |-> [allow |-> node[policyName],
                                wants |-> IF hasWants THEN WantsOf(node, policyName)
                                          ELSE "unasked"]]

(***************************************************************************)
(* What a query can look at: whether the block writes the policies,        *)
(* whether the requester is the tree itself, what the wanted path holds in *)
(* the tree evaluated on, and what it holds in the other tree by then.     *)
(***************************************************************************)
WantedValues == {"open", "locked"}
OtherValues  == WantedValues \cup {"missing"}    \* no such tree, or not to be had
Inputs == [writesPolicy : BOOLEAN, self : BOOLEAN, own : WantedValues, other : OtherValues]

\* What the allow rule answers; paths is "unset" until the wants are known.
AllowOf(rule, input, paths) ==
    CASE rule = "none"           -> "undefined"
      [] rule = "allow"          -> "true"
      [] rule = "deny"           -> "false"
      [] rule = "noPolicyChange" -> IF input.writesPolicy THEN "false" ELSE "true"
      [] rule = "ifOpen"         -> IF paths = "open" THEN "true" ELSE "false"
      [] rule = "openOnly"       -> IF paths = "open" THEN "true" ELSE "undefined"
      [] rule = "unlessLocked"   -> IF paths = "locked" THEN "false" ELSE "true"
      [] rule = "selfOnly"       -> IF input.self THEN "true" ELSE "false"
      [] OTHER                   -> "notBool"

\* query.Eval: the query is a conjunction, so it has no result at all when one
\* of the references it makes is undefined.
HasResult(query, input, paths) ==
    /\ AllowOf(query.allow, input, paths) # "undefined"
    /\ query.wants # "none"

AllowResult(query, input, paths) ==
    CASE AllowOf(query.allow, input, paths) = "true"  -> "valid"
      [] AllowOf(query.allow, input, paths) = "false" -> "invalid"
      [] OTHER                                        -> "error"

\* pathsToVals: getter.GetLatest, for a path of another tree.
PathsToVals(wants, input) == IF wants = "otherPath" THEN input.other ELSE input.own

\* MUTANT: the results of the first evaluation are returned.
Reevaluate_First(query, input, paths) == AllowResult(query, input, "unset")

\* The second evaluation, with the wants.
Reevaluate(query, input, paths) ==
    IF HasResult(query, input, paths) THEN AllowResult(query, input, paths) ELSE "error"

\* PolicyValidator: evaluate once for the wants, resolve them, evaluate again.
PolicyValidator(query, hasWants, input) ==
    IF ~HasResult(query, input, "unset") THEN "error"
    ELSE CASE ~hasWants                              -> AllowResult(query, input, "unset")
           [] hasWants /\ query.wants = "notStrings" -> "panic"
           [] hasWants /\ query.wants \in {"path", "otherPath"} ->
                LET paths == PathsToVals(query.wants, input)
                IN  IF paths = "missing" THEN "error" ELSE Reevaluate(query, input, paths)
           [] OTHER                                  -> "error"

\* Validator (policyName = WritePolicy) and ReadValidator (= ReadPolicy) on the
\* policies of one tree: "valid", "invalid", "error" or "panic".
Evaluate(node, policyName, input) ==
    LET p == PolicyFromTree(node, policyName)
    IN  IF p.status # "ok" THEN p.status
        ELSE IF p.query = NoQuery THEN "valid"
        ELSE PolicyValidator(p.query, p.hasWants, input)

Validator(node, input)     == Evaluate(node, WritePolicy, input)
ReadValidator(node, input) == Evaluate(node, ReadPolicy, input)
=============================================================================
