-------------------------------- MODULE Consent ------------------------------
(***************************************************************************)
(* What the approval tier promises (the head of tools/approval.py): an     *)
(* APPROVE tool is proposed and waits; the operator decides once; only an  *)
(* approved call is carried out, and once.                                 *)
(***************************************************************************)
CONSTANT Req
VARIABLES decision,   \* "none", "pending", "approved" or "denied"
          outcome     \* "none", or how the one attempt ended

Init == /\ decision = [q \in Req |-> "none"]
        /\ outcome = [q \in Req |-> "none"]

Decide(q, from, to) == /\ decision[q] = from
                       /\ decision' = [decision EXCEPT ![q] = to]
                       /\ UNCHANGED outcome

Act(q, how) == /\ decision[q] = "approved" /\ outcome[q] = "none"
               /\ outcome' = [outcome EXCEPT ![q] = how]
               /\ UNCHANGED decision

Next == \E q \in Req : \/ Decide(q, "none", "pending")
                       \/ Decide(q, "pending", "approved")
                       \/ Decide(q, "pending", "denied")
                       \/ Act(q, "success") \/ Act(q, "unknown")

Spec == Init /\ [][Next]_<<decision, outcome>>

=============================================================================
