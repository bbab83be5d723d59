------------------------------ MODULE MCPlanCases ----------------------------
(***************************************************************************)
(* Every amount of one to sixty credits at the default rates, three        *)
(* members in all 64 referral graphs; an external cost of at most the fee  *)
(* only matters from ten credits on, and is tried as none or one.          *)
(***************************************************************************)
EXTENDS PlanCases

CONSTANTS ann, bob, cat

SmallAmounts == 1..60
NoneOrOne == {0, 1}

=============================================================================
