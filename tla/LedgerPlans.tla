----------------------------- MODULE LedgerPlans -----------------------------
(***************************************************************************)
(* The pure planners of economy/ledger.py and the affiliate chain of       *)
(* economy/market.py.  A planner turns a business event into the entries   *)
(* of one ledger transaction; nothing here touches the database.           *)
(*                                                                         *)
(* Credits are integers.  The rates of the code are fractions read from    *)
(* the environment; here they are whole percents, so that Rounded is       *)
(* exact where the code multiplies floats.  The ValueError a planner       *)
(* raises is a predicate of its own (SplitFits, and the positive amounts   *)
(* the callers' guards ask for).                                           *)
(***************************************************************************)
EXTENDS Integers, Sequences

CONSTANTS Member,                  \* handles that own member wallets
          NoHandle,                \* Python's None where a handle may be absent
          FeePct, L1Pct, L2Pct     \* LP_PLATFORM_FEE_RATE, LP_AFFILIATE_L1/L2_RATE

LpFees == "_lp_fees"
Issued == "_issued"
EscrowHandle == "_escrow"
System == {LpFees, Issued, EscrowHandle}
Handle == Member \cup System

ASSUME PlansAssumption == /\ Member \cap System = {}
                          /\ NoHandle \notin Handle
                          /\ FeePct \in 0..100 /\ L1Pct \in Nat /\ L2Pct \in Nat

-----------------------------------------------------------------------------
(* Entries                                                                 *)

Entry(h, d) == [handle |-> h, delta |-> d]
EntryType == [handle : Handle, delta : Int]

MaxEntries == 5                    \* the longest plan: a sale with both affiliates

\* What position i of es adds to wallet h, and what positions 1..i add together.
Amount(es, i, h) == IF i \in 1..Len(es) /\ es[i].handle = h THEN es[i].delta ELSE 0

UpTo(es, i, h) == LET part(j) == IF j <= i THEN Amount(es, j, h) ELSE 0
                  IN  part(1) + part(2) + part(3) + part(4) + part(5)

Effect(es, h) == UpTo(es, MaxEntries, h)

\* _assert_balanced: the deltas net to exactly zero.
Net(es) == LET d(i) == IF i \in 1..Len(es) THEN es[i].delta ELSE 0
           IN  d(1) + d(2) + d(3) + d(4) + d(5)

Balanced(es) == Net(es) = 0

-----------------------------------------------------------------------------
(* Planners                                                                *)

\* Faulty: every cut is rounded up.
Rounded_m(n, pct) == (n * pct + 99) \div 100

\* Python's round(): to the nearest integer, a half to the even neighbour.
Rounded(n, pct) == LET q == (n * pct) \div 100
                       r == (n * pct) % 100
                   IN  IF r > 50 \/ (r = 50 /\ q % 2 = 1) THEN q + 1 ELSE q

\* Faulty: the second affiliate is paid without LP keeping less.
Split_m(gross, l1, l2, external) ==
    LET fee    == Rounded(gross, FeePct)
        netFee == fee - (IF external > 0 THEN external ELSE 0)
        cut1   == IF l1 # NoHandle THEN Rounded(netFee, L1Pct) ELSE 0
        cut2   == IF l2 # NoHandle THEN Rounded(netFee, L2Pct) ELSE 0
    IN  [fee |-> fee, l1 |-> cut1, l2 |-> cut2, lpKeep |-> fee - cut1]

\* The division of a sale of `gross` that plan_purchase and plan_release share.
Split(gross, l1, l2, external) ==
    LET fee    == Rounded(gross, FeePct)
        netFee == fee - (IF external > 0 THEN external ELSE 0)
        cut1   == IF l1 # NoHandle THEN Rounded(netFee, L1Pct) ELSE 0
        cut2   == IF l2 # NoHandle THEN Rounded(netFee, L2Pct) ELSE 0
    IN  [fee |-> fee, l1 |-> cut1, l2 |-> cut2, lpKeep |-> fee - cut1 - cut2]

SplitFits(gross, l1, l2, external) == Split(gross, l1, l2, external).lpKeep >= 0

Affiliate(h, cut) == IF h # NoHandle /\ cut # 0 THEN <<Entry(h, cut)>> ELSE <<>>

Sale(payer, seller, gross, l1, l2, external) ==
    LET s == Split(gross, l1, l2, external)
    IN  <<Entry(payer, -gross), Entry(seller, gross - s.fee), Entry(LpFees, s.lpKeep)>>
            \o Affiliate(l1, s.l1) \o Affiliate(l2, s.l2)

TopupPlan(buyer, credits) == <<Entry(buyer, credits), Entry(Issued, -credits)>>
PurchasePlan(buyer, seller, gross, l1, l2, external) == Sale(buyer, seller, gross, l1, l2, external)
HoldPlan(buyer, credits) == <<Entry(buyer, -credits), Entry(EscrowHandle, credits)>>
ReleasePlan(seller, amount, l1, l2, external) == Sale(EscrowHandle, seller, amount, l1, l2, external)
RefundPlan(buyer, credits) == <<Entry(EscrowHandle, -credits), Entry(buyer, credits)>>
PayoutPlan(seller, credits) == <<Entry(seller, -credits), Entry(Issued, credits)>>

\* The empty plan when there is nobody, or nothing, to pay.
CommissionPlan(l1, l2, base) ==
    LET cut1 == IF l1 # NoHandle THEN Rounded(base, L1Pct) ELSE 0
        cut2 == IF l2 # NoHandle THEN Rounded(base, L2Pct) ELSE 0
        paid == Affiliate(l1, cut1) \o Affiliate(l2, cut2)
    IN  IF base <= 0 \/ paid = <<>> THEN <<>> ELSE paid \o <<Entry(Issued, -(cut1 + cut2))>>

-----------------------------------------------------------------------------
(* market.affiliate_chain, which settle_credit_purchase, act_on_hire and   *)
(* book_affiliate_commission repeat: referredBy maps a handle to whoever   *)
(* recruited it, or to NoHandle.                                           *)

\* Faulty: the chain is followed without its guards.
AffiliateChain_m(seller, referredBy) ==
    LET edge(h) == IF h \in DOMAIN referredBy THEN referredBy[h] ELSE NoHandle
    IN  <<edge(seller), edge(edge(seller))>>

AffiliateChain(seller, referredBy) ==
    LET edge(h) == IF h \in DOMAIN referredBy THEN referredBy[h] ELSE NoHandle
        l1 == IF edge(seller) = seller THEN NoHandle ELSE edge(seller)
        l2 == IF l1 = NoHandle THEN NoHandle ELSE edge(l1)
    IN  <<l1, IF l2 \in {seller, l1} THEN NoHandle ELSE l2>>

=============================================================================
