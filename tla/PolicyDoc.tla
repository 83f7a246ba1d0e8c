------------------------------ MODULE PolicyDoc ------------------------------
(***************************************************************************)
(* What the policies of a tree promise, stated without the machinery that  *)
(* evaluates them, from the comment above Validator (policy/validator.go): *)
(* no policies allow everything; otherwise the policy decides, and if it   *)
(* wants paths it decides knowing what they hold.                          *)
(***************************************************************************)
EXTENDS Policy

Understood(node) ==
    node.kind = "map" /\ {"broken", "notString"} \cap Modules(node) = {}

Asks(node, policyName) == node[WantsPolicyOf(policyName)] # "none"

\* What the policy may know: the value at the path it wants, if it wants one.
Known(wants, input) ==
    CASE wants = "path"      -> input.own
      [] wants = "otherPath" -> input.other
      [] OTHER               -> "unset"

Allows(node, policyName, input) ==
    \/ node.kind = "absent"
    \/ LET wants == node[WantsPolicyOf(policyName)]
       IN  /\ Understood(node)
           /\ wants \in {"none", "path", "otherPath"}
           /\ Known(wants, input) # "missing"
           /\ AllowOf(node[policyName], input, Known(wants, input)) = "true"

\* The rules that answer something whatever they know ("default allow = ...").
HasDefault(rule) == rule \notin {"none", "openOnly"}
=============================================================================
