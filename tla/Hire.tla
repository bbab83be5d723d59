--------------------------------- MODULE Hire --------------------------------
(***************************************************************************)
(* economy/hire.py on top of the ledger: a hire is requested, accepted,    *)
(* delivered and released, or cancelled, and its credits move through the  *)
(* escrow wallet.  A handler runs as several database transactions (read   *)
(* the row, post to the ledger, write the row), each one step here; other  *)
(* handlers run, or the process dies, between them.  A ledger post is the  *)
(* atomic step that Ledger shows it to be.                                 *)
(***************************************************************************)
EXTENDS AtomicLedger

CONSTANTS Caller,       \* concurrent handler calls
          HireId,       \* hire_requests.id: 1..n, bounds the hires opened
          Credit,       \* the amounts buyers offer
          Funds,        \* what every member topped up before
          ReferredBy,   \* registry_handles.referred_by
          Isolated      \* the hires whose calls never overlap and never die

VARIABLES state,        \* hire_requests.state; "none" for no row
          terms,        \* buyer, seller and amount of each row, never updated
          call          \* the handler calls in flight

hireVars == <<state, terms, call>>
vars == <<wallet, posted, hireVars>>

ASSUME HireAssumption == /\ HireId \subseteq Nat \ {0} /\ Credit \subseteq Nat \ {0}
                         /\ IsFiniteSet(HireId) /\ IsFiniteSet(Member)
                         /\ Isolated \subseteq HireId
                         /\ Funds \in Nat
                         /\ \A m \in DOMAIN ReferredBy : ReferredBy[m] \in Member \cup {NoHandle}
                         /\ \A amount \in Credit, l1, l2 \in Member \cup {NoHandle} :
                               SplitFits(amount, l1, l2, 0)

-----------------------------------------------------------------------------
(* Vocabulary                                                              *)

LegKey(leg, h) == <<leg, h>>                       \* "hire-{leg}-{id}"
HireKey == {"hold", "release", "refund"} \X HireId

ASSUME HireKeyAssumption == HireKey \subseteq Key

NoTerms == [buyer |-> NoHandle, seller |-> NoHandle, amount |-> 0]
TermsType == {NoTerms} \cup [buyer : Member, seller : Member, amount : Credit]

States == {"requested", "accepted", "delivered", "released", "cancelled"}

\* _TRANSITIONS and the cancel branch: the states an action needs, the state it
\* leads to, and who may take it.
Transition == [accept  |-> [from |-> {"requested"}, to |-> "accepted",  who |-> {"seller"}],
               deliver |-> [from |-> {"accepted"},  to |-> "delivered", who |-> {"seller"}],
               release |-> [from |-> {"delivered"}, to |-> "released",  who |-> {"buyer"}],
               cancel  |-> [from |-> {"requested", "accepted"}, to |-> "cancelled",
                            who |-> {"buyer", "seller"}]]
Action == DOMAIN Transition

Idle == [at |-> "idle", hire |-> 0, action |-> "open"]
CallType == [at : {"idle", "hold", "undo", "pay", "write"}, hire : HireId \cup {0},
             action : Action \cup {"open"}]

TypeOK == /\ wallet \in [Handle -> Int] /\ posted \subseteq HireKey
          /\ state \in [HireId -> States \cup {"none"}]
          /\ terms \in [HireId -> TermsType]
          /\ call \in [Caller -> CallType]

Init == /\ wallet = [w \in Handle |-> CASE w \in Member -> Funds
                                        [] w = Issued   -> -(Funds * Cardinality(Member))
                                        [] OTHER        -> 0]
        /\ posted = {}
        /\ state = [h \in HireId |-> "none"]
        /\ terms = [h \in HireId |-> NoTerms]
        /\ call = [c \in Caller |-> Idle]

Goto(c, at) == call' = [call EXCEPT ![c].at = at]
Return(c) == call' = [call EXCEPT ![c] = Idle]

InFlight(h) == \E c \in Caller : call[c].at # "idle" /\ call[c].hire = h

\* ids come from a sequence: they are never used again, even after a DELETE.
Fresh(h) == terms[h] = NoTerms /\ \A g \in HireId : g < h => terms[g] # NoTerms

-----------------------------------------------------------------------------
(* open_hire                                                               *)

Open(c, buyer, seller, credits) ==
    /\ call[c].at = "idle"
    /\ buyer # seller
    /\ \E h \in HireId :
         /\ Fresh(h)
         /\ state' = [state EXCEPT ![h] = "requested"]
         /\ terms' = [terms EXCEPT ![h] = [buyer |-> buyer, seller |-> seller, amount |-> credits]]
         /\ call' = [call EXCEPT ![c] = [at |-> "hold", hire |-> h, action |-> "open"]]
    /\ UNCHANGED ledgerVars

\* Faulty: any exception undoes the record, also one after the commit.
HoldCredits_m(c) ==
    LET h == call[c].hire
        plan == HoldPlan(terms[h].buyer, terms[h].amount)
    IN  /\ call[c].at = "hold"
        /\ \/ Apply(LegKey("hold", h), plan) /\ (Return(c) \/ Goto(c, "undo"))
           \/ ~CanPay(plan) /\ Goto(c, "undo") /\ UNCHANGED ledgerVars
        /\ UNCHANGED <<state, terms>>

\* post() of the hold: paid, or ValueError for want of funds.
HoldCredits(c) ==
    LET h == call[c].hire
        plan == HoldPlan(terms[h].buyer, terms[h].amount)
    IN  /\ call[c].at = "hold"
        /\ \/ Apply(LegKey("hold", h), plan) /\ Return(c)
           \/ ~CanPay(plan) /\ Goto(c, "undo") /\ UNCHANGED ledgerVars
        /\ UNCHANGED <<state, terms>>

DeleteUnfunded(c) ==
    /\ call[c].at = "undo"
    /\ state' = [state EXCEPT ![call[c].hire] = "none"]
    /\ Return(c)
    /\ UNCHANGED <<ledgerVars, terms>>

-----------------------------------------------------------------------------
(* act_on_hire                                                             *)

MayTake(actor, action, h) ==
    \/ "buyer" \in Transition[action].who /\ actor = terms[h].buyer
    \/ "seller" \in Transition[action].who /\ actor = terms[h].seller

\* Faulty: the row is written before, and without, the escrow side effect.
ActUnpaid_m(c, h, action, actor) ==
    /\ call[c].at = "idle"
    /\ h \in Isolated => ~InFlight(h)
    /\ state[h] \in Transition[action].from
    /\ MayTake(actor, action, h)
    /\ call' = [call EXCEPT ![c] = [at |-> "write", hire |-> h, action |-> action]]
    /\ UNCHANGED <<ledgerVars, state, terms>>

\* Faulty: the state the row is in is not checked.
ActUnchecked_m(c, h, action, actor) ==
    /\ call[c].at = "idle"
    /\ h \in Isolated => ~InFlight(h)
    /\ state[h] # "none"
    /\ MayTake(actor, action, h)
    /\ call' = [call EXCEPT ![c] = [at |-> IF action \in {"release", "cancel"} THEN "pay" ELSE "write",
                                    hire |-> h, action |-> action]]
    /\ UNCHANGED <<ledgerVars, state, terms>>

\* The SELECT and the checks on the state it read.
Act(c, h, action, actor) ==
    /\ call[c].at = "idle"
    /\ h \in Isolated => ~InFlight(h)
    /\ state[h] \in Transition[action].from
    /\ MayTake(actor, action, h)
    /\ call' = [call EXCEPT ![c] = [at |-> IF action \in {"release", "cancel"} THEN "pay" ELSE "write",
                                    hire |-> h, action |-> action]]
    /\ UNCHANGED <<ledgerVars, state, terms>>

ReleaseTo(h) == LET chain == AffiliateChain(terms[h].seller, ReferredBy)
                IN  ReleasePlan(terms[h].seller, terms[h].amount, chain[1], chain[2], 0)

\* Faulty: the post is not idempotent.
Pay_m(c, action, key, plan) ==
    /\ call[c].at = "pay" /\ call[c].action = action
    /\ wallet' = [w \in Handle |-> wallet[w] + Effect(plan, w)]
    /\ posted' = posted \cup {key}
    /\ Goto(c, "write")
    /\ UNCHANGED <<state, terms>>

\* The escrow side effect; a key posted before is replayed.
Pay(c, action, key, plan) ==
    /\ call[c].at = "pay" /\ call[c].action = action
    /\ \/ Apply(key, plan)
       \/ IsReplay(key) /\ UNCHANGED ledgerVars
    /\ Goto(c, "write")
    /\ UNCHANGED <<state, terms>>

Release(c) == LET h == call[c].hire IN Pay(c, "release", LegKey("release", h), ReleaseTo(h))

Refund(c) == LET h == call[c].hire IN
             Pay(c, "cancel", LegKey("refund", h), RefundPlan(terms[h].buyer, terms[h].amount))

\* UPDATE hire_requests SET state: on whatever the row holds by now.
WriteState(c) ==
    LET h == call[c].hire IN
    /\ call[c].at = "write"
    /\ state' = [state EXCEPT ![h] = IF @ = "none" THEN @ ELSE Transition[call[c].action].to]
    /\ Return(c)
    /\ UNCHANGED <<ledgerVars, terms>>

\* The process dies, or a database error ends the handler, between two steps.
Die(c) == /\ call[c].at # "idle"
          /\ call[c].hire \notin Isolated
          /\ Return(c)
          /\ UNCHANGED <<ledgerVars, state, terms>>

Next == \E c \in Caller :
          \/ \E buyer, seller \in Member, credits \in Credit : Open(c, buyer, seller, credits)
          \/ HoldCredits(c) \/ DeleteUnfunded(c)
          \/ \E h \in HireId, action \in Action, actor \in Member : Act(c, h, action, actor)
          \/ Release(c) \/ Refund(c) \/ WriteState(c) \/ Die(c)

Spec == Init /\ [][Next]_vars

-----------------------------------------------------------------------------
(* Properties that hold however the calls interleave and die               *)

Paid(leg, h) == LegKey(leg, h) \in posted
Total(leg, hires) == MapThenSumSet(LAMBDA h : terms[h].amount, {h \in hires : Paid(leg, h)})

\* What the legs of these hires have left in escrow.
InEscrow(hires) == Total("hold", hires) - Total("release", hires) - Total("refund", hires)

\* "RELEASED to the seller on delivery ... or REFUNDED to the buyer on cancel":
\* a hire shown as released or cancelled has had its credits moved, wherever a
\* handler was interrupted.
SettledStatesArePaid == \A h \in HireId : /\ state[h] = "released" => Paid("release", h)
                                          /\ state[h] = "cancelled" => Paid("refund", h)

\* "All ledger posts are idempotent by hire id, so retries are safe": each leg
\* moves the hire's credits through escrow once, however often it is retried.
EscrowMatchesLegs == wallet[EscrowHandle] = InEscrow(HireId)

\* "couldn't fund - undo the record": credits are never held for a hire whose
\* row is gone.
NoHoldWithoutHire == \A h \in HireId : state[h] = "none" => ~Paid("hold", h)

-----------------------------------------------------------------------------
(* The inductive invariant behind SettledStatesArePaid, NoHoldWithoutHire  *)

RowsOK == /\ state \in [HireId -> States \cup {"none"}]
          /\ terms \in [HireId -> TermsType]
          /\ call \in [Caller -> CallType]

\* A hire nobody has opened has no row, no call and no ledger post.
UnopenedInv == \A h \in HireId : terms[h] = NoTerms => state[h] = "none" /\ ~Paid("hold", h)

CallInv == \A c \in Caller : call[c].at # "idle" =>
    /\ call[c].hire \in HireId
    /\ terms[call[c].hire] # NoTerms
    /\ call[c].at \in {"hold", "undo"} <=> call[c].action = "open"

\* Only the call that opened a hire funds it or deletes its row.
OpenerInv == \A c, d \in Caller :
    /\ call[c].at \in {"hold", "undo"} => ~Paid("hold", call[c].hire)
    /\ call[c].at = "hold" => state[call[c].hire] # "none"
    /\ call[c].at \in {"hold", "undo"} /\ call[d].at \in {"hold", "undo"} /\ c # d
          => call[c].hire # call[d].hire

\* A call writes "released" or "cancelled" only after it has paid.
PaidInv == \A c \in Caller : call[c].at = "write" =>
    /\ call[c].action = "release" => Paid("release", call[c].hire)
    /\ call[c].action = "cancel" => Paid("refund", call[c].hire)

IInv == /\ RowsOK /\ UnopenedInv /\ CallInv /\ OpenerInv /\ PaidInv
        /\ SettledStatesArePaid /\ NoHoldWithoutHire

\* ... and the one behind EscrowMatchesLegs: only a hire with terms has legs.
LegsInv == /\ posted \subseteq HireKey
           /\ \A key \in posted : terms[key[2]] # NoTerms

EscrowInv == IInv /\ LegsInv /\ EscrowMatchesLegs

-----------------------------------------------------------------------------
(* The contract, which the code keeps for a hire whose calls take turns    *)
(* and do not die, whatever happens to the other hires at the same time    *)

Contract == INSTANCE EscrowContract
              WITH HireId   <- Isolated,
                   amount   <- [h \in Isolated |-> terms[h].amount],
                   contract <- [h \in Isolated |-> IF Paid("refund", h) THEN "refunded"
                                                   ELSE IF Paid("release", h) THEN "released"
                                                   ELSE IF Paid("hold", h) THEN "held" ELSE "none"],
                   escrow   <- wallet[EscrowHandle] - InEscrow(HireId \ Isolated)
KeepsContract == Contract!Spec

\* The inductive invariant behind it.  The credits of a hire whose calls take
\* turns are in escrow while it is shown as open, until the call that releases
\* or refunds them, which has yet to write the new state.
Unsettled(h) == Paid("hold", h) /\ ~Paid("release", h) /\ ~Paid("refund", h)
On(c, h) == call[c].at # "idle" /\ call[c].hire = h
Opening(c) == call[c].at \in {"hold", "undo"}
Settling(c) == call[c].at = "write" /\ call[c].action \in {"release", "cancel"}

TakesTurns(h) ==
    /\ \A c, d \in Caller : On(c, h) /\ On(d, h) => c = d
    /\ \A c \in Caller : On(c, h) => Opening(c) \/ Settling(c) \/ Unsettled(h)
    /\ state[h] \in {"requested", "accepted", "delivered"} =>
         Unsettled(h) \/ \E c \in Caller : On(c, h) /\ (Opening(c) \/ Settling(c))
    /\ Paid("release", h) \/ Paid("refund", h) => Paid("hold", h)

IsolatedInv == \A h \in Isolated : TakesTurns(h)

ContractInv == EscrowInv /\ IsolatedInv

-----------------------------------------------------------------------------
(* A claim of hire.py that does not survive overlapping handlers           *)

\* "RELEASED to the seller on delivery ..., or REFUNDED to the buyer on cancel".
OneSettlement == \A h \in HireId : ~(Paid("release", h) /\ Paid("refund", h))

=============================================================================
