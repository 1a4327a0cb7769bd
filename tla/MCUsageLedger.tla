---------------------------- MODULE MCUsageLedger ----------------------------
(* Two owners with two sessions each, one provider with limits, two kinds  *)
(* of amount and two days.  The limits are chosen so that each of the three*)
(* scopes is the only one to refuse some request.                          *)
EXTENDS UsageLedger, TLC

CONSTANT cloudflare

Amount(calls, cost) == [calls |-> calls, cost |-> cost]

MCAmounts == {Amount(1, 1), Amount(1, 2)}

MCPolicies ==
    cloudflare :> [quota |-> "enforced", per_user_day |-> Amount(2, 3),
                   per_session |-> Amount(2, 2), global_day |-> Amount(3, 4)]

MCDimensions == {"calls", "cost"}

Symmetry == Permutations(Owners) \cup Permutations(Sessions)
=============================================================================
