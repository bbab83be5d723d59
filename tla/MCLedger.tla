------------------------------- MODULE MCLedger ------------------------------
(***************************************************************************)
(* A small ledger for TLC: bob tops up with a key and ann without, bob     *)
(* buys from ann and ann from bob (opposite lock orders), and bob's        *)
(* credits, enough for one of the two, are also held for a hire.  cat      *)
(* recruited ann, and bob recruited cat, so that bob is both payer and     *)
(* second affiliate of his own purchase.                                   *)
(***************************************************************************)
EXTENDS Ledger, TLC

CONSTANTS ann, bob, cat, k1, k2, k3, k4

ReferredBy == [h \in {ann, cat} |-> IF h = ann THEN cat ELSE bob]

Buy(buyer, seller, gross) ==
    LET chain == AffiliateChain(seller, ReferredBy)
    IN  PurchasePlan(buyer, seller, gross, chain[1], chain[2], 0)

Topup  == [key |-> k1, entries |-> TopupPlan(bob, 8)]
Tip    == [key |-> NoKey, entries |-> TopupPlan(ann, 4)]
BobBuys == [key |-> k2, entries |-> Buy(bob, ann, 8)]
AnnBuys == [key |-> k3, entries |-> Buy(ann, bob, 4)]
Hold   == [key |-> k4, entries |-> HoldPlan(bob, 8)]

AllPosts == {Topup, Tip, BobBuys, AnnBuys, Hold}

=============================================================================
