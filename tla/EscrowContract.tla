---------------------------- MODULE EscrowContract ---------------------------
(***************************************************************************)
(* What the Hire layer promises (the diagram and the text at the head of   *)
(* economy/hire.py): the buyer's credits are held at request and then      *)
(* either released to the seller or refunded to the buyer, once, and the   *)
(* escrow wallet holds exactly the credits of the hires in between.        *)
(***************************************************************************)
EXTENDS Integers

CONSTANT HireId
VARIABLES amount,      \* what each hire is for
          contract,    \* "none", "held", "released" or "refunded"
          escrow       \* the balance of the escrow wallet

Init == /\ amount = [h \in HireId |-> 0]
        /\ contract = [h \in HireId |-> "none"]
        /\ escrow = 0

Offer(h, credits) == /\ contract[h] = "none"
                     /\ amount' = [amount EXCEPT ![h] = credits]
                     /\ UNCHANGED <<contract, escrow>>

Move(h, from, to, change) == /\ contract[h] = from
                             /\ contract' = [contract EXCEPT ![h] = to]
                             /\ escrow' = escrow + change
                             /\ UNCHANGED amount

Next == \E h \in HireId : \/ Offer(h, amount'[h])
                          \/ Move(h, "none", "held", amount[h])
                          \/ Move(h, "held", "released", -amount[h])
                          \/ Move(h, "held", "refunded", -amount[h])

vars == <<amount, contract, escrow>>

Spec == Init /\ [][Next]_vars

=============================================================================
