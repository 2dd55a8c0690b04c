----------------------------- MODULE EffectOnce -----------------------------
(* What the effect ledger promises its callers: the provider performs one     *)
(* key's effect at most once, and a key that is recorded as done stays so     *)
(* ("refuse blind resend after ambiguous outcomes", ops/core/effect_ledger).  *)
EXTENDS Naturals

CONSTANT Keys

VARIABLES
    performed,  \* how often the provider performed each key's effect
    recorded    \* keys the ledger records as completed

vars == <<performed, recorded>>

Init == performed = [k \in Keys |-> 0] /\ recorded = {}

Perform(k) ==
    /\ performed[k] = 0
    /\ performed' = [performed EXCEPT ![k] = 1]
    /\ UNCHANGED recorded

Record(k) ==
    /\ recorded' = recorded \cup {k}
    /\ UNCHANGED performed

Next == \E k \in Keys : Perform(k) \/ Record(k)

Spec == Init /\ [][Next]_vars
=============================================================================
