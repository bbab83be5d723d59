------------------------------- MODULE PlanCases -----------------------------
(***************************************************************************)
(* The planners of LedgerPlans, asked for every business event over small  *)
(* amounts and every referral graph of the members, self-referrals and     *)
(* cycles included.  A behaviour is one event and the plan made for it.    *)
(***************************************************************************)
EXTENDS LedgerPlans

CONSTANTS Gross,      \* the amounts tried
          External    \* the external costs tried

VARIABLES event,      \* what the planner was asked for
          plan        \* its entries; <<>> where it raised or had nothing to book

Sales == {"purchase", "release"}
Transfers == {"topup", "hold", "refund", "payout"}
Levels == Member \cup {NoHandle}
EventType == [kind : Sales \cup Transfers \cup {"commission", "none"}, payer : Handle,
              seller : Member, gross : Gross, external : External, chain : Levels \X Levels]

ASSUME PlanCasesAssumption == Gross \subseteq Nat \ {0} /\ External \subseteq Nat

CasesTypeOK == event \in EventType /\ plan \in Seq(EntryType)

CasesInit == /\ event \in [kind : {"none"}, payer : {Issued}, seller : Member, gross : Gross,
                           external : External, chain : {<<NoHandle, NoHandle>>}]
             /\ plan = <<>>

-----------------------------------------------------------------------------
(* One action per family of planners                                       *)

\* plan_topup, plan_hold, plan_refund and plan_payout move credits between two
\* wallets.
PlanTransfer(kind, member) ==
    /\ event.kind = "none"
    /\ event' = [event EXCEPT !.kind = kind, !.payer = member]
    /\ plan' = CASE kind = "topup"  -> TopupPlan(member, event.gross)
                 [] kind = "hold"   -> HoldPlan(member, event.gross)
                 [] kind = "refund" -> RefundPlan(member, event.gross)
                 [] kind = "payout" -> PayoutPlan(member, event.gross)

\* plan_purchase from a buyer's wallet, plan_release from escrow; the ValueError
\* of a split beyond the fee.
PlanSale(kind, payer, referredBy) ==
    LET e == event
        chain == AffiliateChain(e.seller, referredBy)
    IN  /\ e.kind = "none"
        /\ event' = [e EXCEPT !.kind = kind, !.payer = payer, !.chain = chain]
        /\ plan' = IF SplitFits(e.gross, chain[1], chain[2], e.external)
                     THEN Sale(payer, e.seller, e.gross, chain[1], chain[2], e.external)
                     ELSE <<>>

\* plan_commission of an external sale; gross is the fee LP took on it.
PlanCommission(referredBy) ==
    LET chain == AffiliateChain(event.seller, referredBy)
    IN  /\ event.kind = "none"
        /\ event' = [event EXCEPT !.kind = "commission", !.chain = chain]
        /\ plan' = CommissionPlan(chain[1], chain[2], event.gross)

CasesNext == \/ \E kind \in Transfers, member \in Member : PlanTransfer(kind, member)
             \/ \E referredBy \in [Member -> Levels] :
                   \/ \E buyer \in Member \ {event.seller} : PlanSale("purchase", buyer, referredBy)
                   \/ PlanSale("release", EscrowHandle, referredBy)
                   \/ PlanCommission(referredBy)

CasesSpec == CasesInit /\ [][CasesNext]_<<event, plan>>

-----------------------------------------------------------------------------
(* Properties                                                              *)

\* "ledger_entries deltas net to exactly zero", rounding and both affiliate
\* levels included.
EveryPlanBalances == Balanced(plan)

\* "affiliate L1/L2 = fraction of LP's NET fee (so LP can never go negative on
\* a sale)": where the two levels share at most half the net fee, rounding
\* each of them never takes more than the fee, and no sale is refused.
NoSaleRefused == event.kind \in Sales => plan # <<>>

\* "never pay a handle on its own sale or double-pay": whatever the referral
\* graph, cycles included, no affiliate is the seller, and the two differ.
AffiliatesAreOthers ==
    LET l1 == event.chain[1]
        l2 == event.chain[2]
    IN  /\ event.seller \notin {l1, l2}
        /\ l2 # NoHandle => l1 \notin {l2, NoHandle}

=============================================================================
