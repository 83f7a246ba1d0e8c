----------------------------- MODULE PolicyCheck -----------------------------
(***************************************************************************)
(* One evaluation, on every tree, policy and input.                        *)
(***************************************************************************)
EXTENDS PolicyDoc

VARIABLES node, policyName, input, verdict

vars == <<node, policyName, input, verdict>>

Init == /\ node \in PolicyNodes
        /\ policyName \in {WritePolicy, ReadPolicy}
        /\ input \in Inputs
        /\ verdict = "unasked"

Ask == /\ verdict = "unasked"
       /\ verdict' = Evaluate(node, policyName, input)
       /\ UNCHANGED <<node, policyName, input>>

Spec == Init /\ [][Ask]_vars

-----------------------------------------------------------------------------
\* A tree's wants are taken into account: true of every write policy, and of a
\* read policy in a map that has "wants" exactly when it has "readWants".
WantsHeard == Asks(node, policyName) = (node.wants # "none")

\* Fail closed: Validator and ReadValidator never let through what the policies
\* do not allow, however malformed the map, its modules or their answers are.
Sound == verdict = "valid" /\ WantsHeard => Allows(node, policyName, input)

\* And they let through what the policies allow, if the rule that allows it has
\* a default: the first evaluation, made before the wanted paths are known, must
\* have a result.
Complete ==
    Allows(node, policyName, input) /\ verdict # "unasked" /\ WantsHeard
        /\ (Asks(node, policyName) => HasDefault(node[policyName]))
    => verdict = "valid"

\* "but if we setup the wants for a pass it works" (policy/readvalidator_test.go):
\* a read the read policy allows once its wants are met is let through.
ReadWantsWork ==
    /\ policyName = ReadPolicy /\ verdict # "unasked"
    /\ Allows(node, policyName, input) /\ HasDefault(node.read)
    => verdict = "valid"
=============================================================================
