-------------------------- MODULE PolicyCheckProofs --------------------------
(***************************************************************************)
(* That one evaluation is sound and complete, as theorems of PolicyCheck.  *)
(***************************************************************************)
EXTENDS PolicyCheck, PolicyLemmas

\* A verdict is that of the tree, the policy and the input that were asked about.
Judged ==
    /\ node \in PolicyNodes /\ policyName \in {WritePolicy, ReadPolicy} /\ input \in Inputs
    /\ verdict = "unasked" \/ verdict = Evaluate(node, policyName, input)

LEMMA JudgedInvariant == Spec => []Judged
<1>1. Init => Judged
  BY DEF Init, Judged
<1>2. Judged /\ [Ask]_vars => Judged'
  BY DEF Judged, Ask, vars
<1> QED  BY <1>1, <1>2, PTL DEF Spec

\* Validator and ReadValidator fail closed: of all maps of policies, all malformed
\* ones among them, and all inputs, they let through only what the policies allow.
THEOREM AlwaysSound == Spec => []Sound
<1>1. Judged => Sound
  BY EvaluateSound DEF Judged, Sound, WantsHeard
<1> QED  BY <1>1, JudgedInvariant, PTL

\* They let through all that the policies allow, where the first evaluation, made
\* before the wanted paths are known, has a result.
THEOREM AlwaysComplete == Spec => []Complete
<1>1. Judged => Complete
  BY EvaluateComplete DEF Judged, Complete, WantsHeard
<1> QED  BY <1>1, JudgedInvariant, PTL
=============================================================================
