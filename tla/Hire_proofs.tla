------------------------------- MODULE Hire_proofs ---------------------------
(***************************************************************************)
(* Whatever calls overlap and wherever they die: a hire shown as settled   *)
(* has had its credits moved, no credits are held for a deleted one, the   *)
(* escrow wallet holds what the legs posted have left in it, and credits   *)
(* are neither created nor destroyed.  A hire whose calls take turns and   *)
(* do not die keeps EscrowContract.                                        *)
(***************************************************************************)
EXTENDS Hire, FiniteSetTheorems, WellFoundedInduction, TLAPS

\* Terms are set for good once a hire is opened.
LEMMA RealTerms ==
    ASSUME NEW buyer \in Member, NEW seller, NEW amount
    PROVE  [buyer |-> buyer, seller |-> seller, amount |-> amount] # NoTerms
  BY PlansAssumption DEF NoTerms, Handle

\* A post adds its key, and no other, to the keys posted.
LEMMA ApplyPosts ==
    ASSUME NEW key, NEW es, Apply(key, es)
    PROVE  posted' = posted \cup ({key} \ {NoKey})
  BY DEF Apply

LEMMA LegKeys ==
    ASSUME NEW leg1, NEW leg2, NEW h, NEW g, LegKey(leg1, h) = LegKey(leg2, g)
    PROVE  leg1 = leg2 /\ h = g
  BY DEF LegKey

LEMMA InitIInv == Init => IInv
  <1> SUFFICES ASSUME Init PROVE IInv
    OBVIOUS
  <1>1. RowsOK
    BY DEF Init, RowsOK, States, TermsType, CallType, Idle, Action
  <1>2. UnopenedInv /\ CallInv /\ OpenerInv /\ PaidInv
    BY DEF Init, UnopenedInv, CallInv, OpenerInv, PaidInv, Idle, Paid
  <1>3. SettledStatesArePaid /\ NoHoldWithoutHire
    BY DEF Init, SettledStatesArePaid, NoHoldWithoutHire, Paid
  <1> QED BY <1>1, <1>2, <1>3 DEF IInv

-----------------------------------------------------------------------------
(* One lemma per action                                                    *)

LEMMA OpenIInv ==
    ASSUME IInv, NEW c \in Caller, NEW buyer \in Member, NEW seller \in Member,
           NEW credits \in Credit, Open(c, buyer, seller, credits)
    PROVE  IInv'
  <1> DEFINE new == [buyer |-> buyer, seller |-> seller, amount |-> credits]
  <1>1. PICK h \in HireId :
           /\ Fresh(h)
           /\ state' = [state EXCEPT ![h] = "requested"]
           /\ terms' = [terms EXCEPT ![h] = new]
           /\ call' = [call EXCEPT ![c] = [at |-> "hold", hire |-> h, action |-> "open"]]
           /\ posted' = posted
    BY DEF Open, ledgerVars
  <1>2. new # NoTerms /\ new \in TermsType
    BY RealTerms DEF TermsType
  <1> HIDE DEF new
  <1>3. /\ terms[h] = NoTerms /\ state[h] = "none" /\ ~Paid("hold", h)
        /\ \A d \in Caller : call[d].at # "idle" => call[d].hire # h
    BY <1>1 DEF Fresh, IInv, UnopenedInv, CallInv
  <1>4. RowsOK'
    BY <1>1, <1>2 DEF IInv, RowsOK, States, CallType
  <1>5. /\ call'[c] = [at |-> "hold", hire |-> h, action |-> "open"]
        /\ \A d \in Caller \ {c} : call'[d] = call[d]
        /\ \A g \in HireId \ {h} : state'[g] = state[g] /\ terms'[g] = terms[g]
        /\ state'[h] = "requested" /\ terms'[h] = new
        /\ \A leg, g : Paid(leg, g)' <=> Paid(leg, g)
    BY <1>1 DEF IInv, RowsOK, Paid
  <1>6. UnopenedInv'
    BY <1>2, <1>5 DEF IInv, UnopenedInv
  <1>7. CallInv'
    BY <1>1, <1>2, <1>3, <1>5 DEF IInv, CallInv
  <1>8. OpenerInv'
    BY <1>1, <1>3, <1>5 DEF IInv, OpenerInv, CallInv
  <1>9. PaidInv'
    BY <1>5 DEF IInv, PaidInv
  <1>10. SettledStatesArePaid' /\ NoHoldWithoutHire'
    BY <1>5 DEF IInv, SettledStatesArePaid, NoHoldWithoutHire
  <1> QED BY <1>4, <1>6, <1>7, <1>8, <1>9, <1>10 DEF IInv

LEMMA HoldIInv ==
    ASSUME IInv, NEW c \in Caller, HoldCredits(c) PROVE IInv'
  <1> DEFINE h == call[c].hire
  <1>1. /\ call[c].at = "hold" /\ h \in HireId /\ state[h] # "none" /\ terms[h] # NoTerms
        /\ ~Paid("hold", h) /\ state' = state /\ terms' = terms
        /\ call[c].action = "open"
    BY DEF HoldCredits, IInv, CallInv, OpenerInv
  <1>2. \A d \in Caller \ {c} : call[d].at \in {"hold", "undo"} => call[d].hire # h
    BY <1>1 DEF IInv, OpenerInv
  <1>3. CASE Apply(LegKey("hold", h), HoldPlan(terms[h].buyer, terms[h].amount)) /\ Return(c)
    <2>1. /\ call' = [call EXCEPT ![c] = Idle]
          /\ posted' = posted \cup ({LegKey("hold", h)} \ {NoKey})
      BY <1>3, ApplyPosts DEF Return
    <2>2. call'[c] = Idle /\ (\A d \in Caller \ {c} : call'[d] = call[d])
      BY <2>1 DEF IInv, RowsOK
    <2>3. \A leg, g : /\ Paid(leg, g) => Paid(leg, g)'
                      /\ Paid(leg, g)' => Paid(leg, g) \/ (leg = "hold" /\ g = h)
      BY <2>1, LegKeys DEF Paid
    <2>4. RowsOK'
      BY <1>1, <2>1 DEF IInv, RowsOK, CallType, Idle
    <2>5. UnopenedInv'
      BY <1>1, <2>3 DEF IInv, UnopenedInv
    <2>6. CallInv' /\ PaidInv'
      BY <1>1, <2>2, <2>3 DEF IInv, CallInv, PaidInv, Idle
    <2>7. OpenerInv'
      BY <1>1, <1>2, <2>2, <2>3 DEF IInv, OpenerInv, Idle
    <2>8. SettledStatesArePaid' /\ NoHoldWithoutHire'
      BY <1>1, <2>3 DEF IInv, SettledStatesArePaid, NoHoldWithoutHire
    <2> QED BY <2>4, <2>5, <2>6, <2>7, <2>8 DEF IInv
  <1>4. CASE Goto(c, "undo") /\ UNCHANGED ledgerVars
    <2>1. call' = [call EXCEPT ![c].at = "undo"] /\ posted' = posted
      BY <1>4 DEF Goto, ledgerVars
    <2>2. /\ call'[c].at = "undo" /\ call'[c].hire = h /\ call'[c].action = "open"
          /\ \A d \in Caller \ {c} : call'[d] = call[d]
          /\ \A leg, g : Paid(leg, g)' <=> Paid(leg, g)
      BY <1>1, <2>1 DEF IInv, RowsOK, CallType, Paid
    <2>3. RowsOK'
      BY <1>1, <2>1 DEF IInv, RowsOK, CallType
    <2>4. UnopenedInv' /\ SettledStatesArePaid' /\ NoHoldWithoutHire'
      BY <1>1, <2>2 DEF IInv, UnopenedInv, SettledStatesArePaid, NoHoldWithoutHire
    <2>5. CallInv' /\ PaidInv'
      BY <1>1, <2>2 DEF IInv, CallInv, PaidInv
    <2>6. OpenerInv'
      BY <1>1, <1>2, <2>2 DEF IInv, OpenerInv
    <2> QED BY <2>3, <2>4, <2>5, <2>6 DEF IInv
  <1> QED BY <1>3, <1>4 DEF HoldCredits

LEMMA UndoIInv ==
    ASSUME IInv, NEW c \in Caller, DeleteUnfunded(c) PROVE IInv'
  <1> DEFINE h == call[c].hire
  <1>1. /\ call[c].at = "undo" /\ h \in HireId /\ ~Paid("hold", h) /\ terms' = terms
        /\ state' = [state EXCEPT ![h] = "none"]
        /\ call' = [call EXCEPT ![c] = Idle] /\ posted' = posted
    BY DEF DeleteUnfunded, Return, ledgerVars, IInv, CallInv, OpenerInv
  <1>2. \A d \in Caller \ {c} : call[d].at \in {"hold", "undo"} => call[d].hire # h
    BY <1>1 DEF IInv, OpenerInv
  <1>3. /\ call'[c] = Idle /\ (\A d \in Caller \ {c} : call'[d] = call[d])
        /\ state'[h] = "none" /\ (\A g \in HireId \ {h} : state'[g] = state[g])
        /\ \A leg, g : Paid(leg, g)' <=> Paid(leg, g)
    BY <1>1 DEF IInv, RowsOK, Paid
  <1>4. RowsOK'
    BY <1>1 DEF IInv, RowsOK, CallType, Idle
  <1>5. UnopenedInv' /\ SettledStatesArePaid' /\ NoHoldWithoutHire'
    BY <1>1, <1>3 DEF IInv, UnopenedInv, SettledStatesArePaid, NoHoldWithoutHire
  <1>6. CallInv' /\ PaidInv'
    BY <1>1, <1>3 DEF IInv, CallInv, PaidInv, Idle
  <1>7. OpenerInv'
    <2>1. \A d \in Caller : call'[d].at # "idle" => d # c /\ call'[d] = call[d]
      BY <1>3 DEF Idle
    <2>2. \A d \in Caller : call'[d].at = "hold" => state'[call'[d].hire] # "none"
      <3> SUFFICES ASSUME NEW d \in Caller, call'[d].at = "hold"
                   PROVE  state'[call'[d].hire] # "none"
        OBVIOUS
      <3>1. d # c /\ call'[d] = call[d] /\ call[d].hire \in HireId \ {h}
        BY <1>2, <2>1 DEF IInv, CallInv
      <3> QED BY <1>3, <3>1 DEF IInv, OpenerInv
    <2> QED BY <1>3, <2>1, <2>2 DEF IInv, OpenerInv
  <1> QED BY <1>4, <1>5, <1>6, <1>7 DEF IInv

LEMMA ActIInv ==
    ASSUME IInv, NEW c \in Caller, NEW h \in HireId, NEW action \in Action,
           NEW actor \in Member, Act(c, h, action, actor)
    PROVE  IInv'
  <1> DEFINE at == IF action \in {"release", "cancel"} THEN "pay" ELSE "write"
  <1>1. /\ state[h] # "none" /\ terms[h] # NoTerms
        /\ state' = state /\ terms' = terms /\ posted' = posted
        /\ call' = [call EXCEPT ![c] = [at |-> at, hire |-> h, action |-> action]]
    BY DEF Act, Action, Transition, IInv, UnopenedInv, ledgerVars
  <1>2. action \in Action /\ action # "open" /\ at \in {"pay", "write"}
    BY DEF Action, Transition
  <1>3. /\ call'[c] = [at |-> at, hire |-> h, action |-> action]
        /\ \A d \in Caller \ {c} : call'[d] = call[d]
        /\ \A leg, g : Paid(leg, g)' <=> Paid(leg, g)
    BY <1>1 DEF IInv, RowsOK, Paid
  <1>4. RowsOK'
    BY <1>1, <1>2 DEF IInv, RowsOK, CallType
  <1>5. UnopenedInv' /\ SettledStatesArePaid' /\ NoHoldWithoutHire'
    BY <1>1, <1>3 DEF IInv, UnopenedInv, SettledStatesArePaid, NoHoldWithoutHire
  <1>6. CallInv'
    BY <1>1, <1>2, <1>3 DEF IInv, CallInv
  <1>7. OpenerInv'
    BY <1>1, <1>2, <1>3 DEF IInv, OpenerInv
  <1>8. PaidInv'
    BY <1>1, <1>3 DEF IInv, PaidInv
  <1> QED BY <1>4, <1>5, <1>6, <1>7, <1>8 DEF IInv

\* Release and Refund: once a leg is posted, the call may write the state.
LEMMA PayIInv ==
    ASSUME IInv, NEW c \in Caller, NEW action \in {"release", "cancel"},
           NEW leg \in {"release", "refund"}, leg = "release" <=> action = "release",
           NEW plan, Pay(c, action, LegKey(leg, call[c].hire), plan)
    PROVE  IInv'
  <1> DEFINE h == call[c].hire
             key == LegKey(leg, h)
  <1>1. /\ call[c].at = "pay" /\ call[c].action = action /\ h \in HireId
        /\ state' = state /\ terms' = terms
        /\ call' = [call EXCEPT ![c].at = "write"]
    BY DEF Pay, Goto, IInv, CallInv
  <1>2. /\ call'[c].at = "write" /\ call'[c].hire = h /\ call'[c].action = action
        /\ \A d \in Caller \ {c} : call'[d] = call[d]
    BY <1>1 DEF IInv, RowsOK, CallType
  <1>3. posted' = posted \cup {key}
    <2>1. key # NoKey
      BY <1>1, HireKeyAssumption, AtomicLedgerAssumption DEF LegKey, HireKey
    <2>2. CASE Apply(key, plan)
      BY <2>1, <2>2, ApplyPosts
    <2>3. CASE IsReplay(key) /\ UNCHANGED ledgerVars
      BY <2>3 DEF IsReplay, ledgerVars
    <2> QED BY <2>2, <2>3 DEF Pay
  <1>4. /\ Paid(leg, h)'
        /\ \A l, g : Paid(l, g) => Paid(l, g)'
        /\ \A g : Paid("hold", g)' => Paid("hold", g)
    BY <1>1, <1>3, LegKeys DEF Paid
  <1>5. RowsOK'
    BY <1>1 DEF IInv, RowsOK, CallType
  <1>6. UnopenedInv' /\ SettledStatesArePaid' /\ NoHoldWithoutHire'
    BY <1>1, <1>4 DEF IInv, UnopenedInv, SettledStatesArePaid, NoHoldWithoutHire
  <1>7. CallInv'
    BY <1>1, <1>2 DEF IInv, CallInv
  <1>8. OpenerInv'
    BY <1>1, <1>2, <1>4 DEF IInv, OpenerInv
  <1>9. PaidInv'
    <2>1. action = "release" => Paid("release", h)'
      BY <1>4
    <2>2. action = "cancel" => Paid("refund", h)'
      BY <1>4
    <2>3. \A d \in Caller \ {c} : call[d].at = "write" =>
             /\ call[d].action = "release" => Paid("release", call[d].hire)'
             /\ call[d].action = "cancel" => Paid("refund", call[d].hire)'
      BY <1>2, <1>4 DEF IInv, PaidInv
    <2> QED BY <1>2, <2>1, <2>2, <2>3 DEF PaidInv
  <1> QED BY <1>5, <1>6, <1>7, <1>8, <1>9 DEF IInv

LEMMA WriteStateIInv ==
    ASSUME IInv, NEW c \in Caller, WriteState(c) PROVE IInv'
  <1> DEFINE h == call[c].hire
             to == Transition[call[c].action].to
  <1>1. /\ call[c].at = "write" /\ h \in HireId /\ terms[h] # NoTerms
        /\ terms' = terms /\ posted' = posted
        /\ state' = [state EXCEPT ![h] = IF state[h] = "none" THEN "none" ELSE to]
        /\ call' = [call EXCEPT ![c] = Idle]
    BY DEF WriteState, Return, ledgerVars, IInv, CallInv
  <1>2. call[c].action \in Action
    BY <1>1 DEF IInv, RowsOK, CallType, CallInv
  <1>3. /\ to \in States \ {"none"}
        /\ to = "released" => call[c].action = "release"
        /\ to = "cancelled" => call[c].action = "cancel"
    BY <1>2 DEF Action, Transition, States
  <1>4. /\ to = "released" => Paid("release", h)
        /\ to = "cancelled" => Paid("refund", h)
    BY <1>1, <1>3 DEF IInv, PaidInv
  <1> HIDE DEF to
  <1>5. /\ call'[c] = Idle /\ (\A d \in Caller \ {c} : call'[d] = call[d])
        /\ state'[h] = (IF state[h] = "none" THEN "none" ELSE to)
        /\ \A g \in HireId \ {h} : state'[g] = state[g]
        /\ \A leg, g : Paid(leg, g)' <=> Paid(leg, g)
    BY <1>1 DEF IInv, RowsOK, Paid
  <1>6. RowsOK'
    BY <1>1, <1>3 DEF IInv, RowsOK, CallType, Idle
  <1>7. UnopenedInv'
    BY <1>1, <1>5 DEF IInv, UnopenedInv
  <1>8. SettledStatesArePaid'
    BY <1>4, <1>5 DEF IInv, SettledStatesArePaid
  <1>9. NoHoldWithoutHire'
    BY <1>3, <1>5 DEF IInv, NoHoldWithoutHire
  <1>10. CallInv' /\ PaidInv'
    BY <1>1, <1>5 DEF IInv, CallInv, PaidInv, Idle
  <1>11. OpenerInv'
    <2>1. \A d \in Caller : call'[d].at # "idle" => d # c /\ call'[d] = call[d]
      BY <1>5 DEF Idle
    <2>2. \A g \in HireId : state[g] # "none" => state'[g] # "none"
      BY <1>3, <1>5
    <2> QED BY <1>5, <2>1, <2>2 DEF IInv, OpenerInv, CallInv
  <1> QED BY <1>6, <1>7, <1>8, <1>9, <1>10, <1>11 DEF IInv

LEMMA DieIInv ==
    ASSUME IInv, NEW c \in Caller, Die(c) PROVE IInv'
  <1>1. /\ state' = state /\ terms' = terms /\ posted' = posted
        /\ call' = [call EXCEPT ![c] = Idle]
    BY DEF Die, Return, ledgerVars
  <1>2. /\ call'[c] = Idle /\ (\A d \in Caller \ {c} : call'[d] = call[d])
        /\ \A leg, g : Paid(leg, g)' <=> Paid(leg, g)
    BY <1>1 DEF IInv, RowsOK, Paid
  <1>3. RowsOK'
    BY <1>1 DEF IInv, RowsOK, CallType, Idle
  <1>4. UnopenedInv' /\ SettledStatesArePaid' /\ NoHoldWithoutHire'
    BY <1>1, <1>2 DEF IInv, UnopenedInv, SettledStatesArePaid, NoHoldWithoutHire
  <1>5. CallInv' /\ PaidInv' /\ OpenerInv'
    BY <1>1, <1>2 DEF IInv, CallInv, PaidInv, OpenerInv, Idle
  <1> QED BY <1>3, <1>4, <1>5 DEF IInv

LEMMA NextIInv == IInv /\ [Next]_vars => IInv'
  <1> SUFFICES ASSUME IInv, [Next]_vars PROVE IInv'
    OBVIOUS
  <1>1. ASSUME NEW c \in Caller, NEW buyer \in Member, NEW seller \in Member,
               NEW credits \in Credit, Open(c, buyer, seller, credits)
        PROVE  IInv'
    BY <1>1, OpenIInv
  <1>2. ASSUME NEW c \in Caller, HoldCredits(c) PROVE IInv'
    BY <1>2, HoldIInv
  <1>3. ASSUME NEW c \in Caller, DeleteUnfunded(c) PROVE IInv'
    BY <1>3, UndoIInv
  <1>4. ASSUME NEW c \in Caller, NEW h \in HireId, NEW action \in Action, NEW actor \in Member,
               Act(c, h, action, actor)
        PROVE  IInv'
    BY <1>4, ActIInv
  <1>5. ASSUME NEW c \in Caller, Release(c) PROVE IInv'
    BY <1>5, PayIInv DEF Release
  <1>6. ASSUME NEW c \in Caller, Refund(c) PROVE IInv'
    BY <1>6, PayIInv DEF Refund
  <1>7. ASSUME NEW c \in Caller, WriteState(c) PROVE IInv'
    BY <1>7, WriteStateIInv
  <1>8. ASSUME NEW c \in Caller, Die(c) PROVE IInv'
    BY <1>8, DieIInv
  <1>9. CASE UNCHANGED vars
    <2>1. UNCHANGED <<posted, state, terms, call>>
      BY <1>9 DEF vars, hireVars
    <2> QED BY <2>1 DEF IInv, RowsOK, UnopenedInv, CallInv, OpenerInv, PaidInv,
                        SettledStatesArePaid, NoHoldWithoutHire, Paid
  <1> QED BY <1>1, <1>2, <1>3, <1>4, <1>5, <1>6, <1>7, <1>8, <1>9 DEF Next

-----------------------------------------------------------------------------
(* Sums over finite sets: what MapThenSumSet returns, by the sets of fewer *)
(* elements                                                                *)

LEMMA LeastNat ==
    ASSUME NEW N, N \subseteq Nat, N # {}
    PROVE  \E m \in N : \A k \in N : m <= k
  <1>1. PICK m \in N : \A k \in N : ~(<<k, m>> \in OpToRel(<, Nat))
    BY NatLessThanWellFounded, WFMin
  <1>2. \A k \in N : ~(k < m)
    BY <1>1 DEF OpToRel
  <1> QED BY <1>2

\* What holds of a set whenever it holds of its proper subsets.
LEMMA SubsetInduction ==
    ASSUME NEW S, IsFiniteSet(S), NEW Good,
           \A T \in SUBSET S : (\A U \in SUBSET T : U # T => U \in Good) => T \in Good
    PROVE  \A T \in SUBSET S : T \in Good
  <1> DEFINE Bad == {T \in SUBSET S : T \notin Good}
  <1> SUFFICES ASSUME Bad # {} PROVE FALSE
    OBVIOUS
  <1>1. \A T \in SUBSET S : IsFiniteSet(T) /\ Cardinality(T) \in Nat
    BY FS_Subset, FS_CardinalityType
  <1> DEFINE N == {Cardinality(T) : T \in Bad}
  <1>2. N \subseteq Nat /\ N # {}
    BY <1>1
  <1>3. PICK m \in N : \A k \in N : m <= k
    BY <1>2, LeastNat
  <1>4. PICK T \in Bad : m = Cardinality(T)
    BY <1>3
  <1>5. ASSUME NEW U \in SUBSET T, U # T PROVE U \in Good
    <2>1. U \in SUBSET S /\ Cardinality(U) < Cardinality(T)
      BY <1>1, <1>4, <1>5, FS_Subset
    <2>2. ASSUME U \in Bad PROVE FALSE
      <3>1. Cardinality(U) \in N /\ m \in Nat /\ Cardinality(U) \in Nat
        BY <1>1, <1>2, <2>1, <2>2
      <3>2. m <= Cardinality(U)
        BY <1>3, <3>1
      <3> QED BY <1>4, <2>1, <3>1, <3>2
    <2> QED BY <2>1, <2>2
  <1> QED BY <1>4, <1>5

First(s) == CHOOSE x \in s : TRUE

Sums(t, S) == LET iter[s \in SUBSET S] ==
                    IF s = {} THEN 0
                    ELSE LET x == CHOOSE x \in s : TRUE IN t[x].amount + iter[s \ {x}]
              IN  iter[S]

IsSum(g, t, Sets) ==
    g = [s \in Sets |-> IF s = {} THEN 0 ELSE t[First(s)].amount + g[s \ {First(s)}]]

LEMMA FirstIn == ASSUME NEW s, s # {} PROVE First(s) \in s
  BY DEF First

LEMMA SumIs ==
    ASSUME NEW g, NEW t, NEW Sets, IsSum(g, t, Sets), NEW s \in Sets
    PROVE  g[s] = IF s = {} THEN 0 ELSE t[First(s)].amount + g[s \ {First(s)}]
  BY DEF IsSum

\* The recursive function exists ...
LEMMA SumExists ==
    ASSUME NEW t, NEW S, IsFiniteSet(S)
    PROVE  \E g : IsSum(g, t, SUBSET S)
  <1> DEFINE Upto(n) == {s \in SUBSET S : Cardinality(s) <= n}
             Bad == {n \in Nat : ~\E g : IsSum(g, t, Upto(n))}
  <1>1. \A s \in SUBSET S : /\ IsFiniteSet(s) /\ Cardinality(s) \in Nat
                            /\ Cardinality(s) <= Cardinality(S)
                            /\ Cardinality(s) = 0 <=> s = {}
    BY FS_Subset, FS_CardinalityType, FS_EmptySet
  <1>2. \A s \in SUBSET S : s # {} => Cardinality(s \ {First(s)}) = Cardinality(s) - 1
    BY <1>1, FirstIn, FS_RemoveElement
  <1>3. Bad = {}
    <2> SUFFICES ASSUME Bad # {} PROVE FALSE
      OBVIOUS
    <2>1. PICK n \in Bad : \A k \in Bad : n <= k
      <3>1. Bad \subseteq Nat
        OBVIOUS
      <3> HIDE DEF Bad
      <3> QED BY <3>1, LeastNat
    <2>2. CASE n = 0
      <3> DEFINE g == [s \in Upto(0) |-> 0]
      <3>1. \A s \in Upto(0) : s = {}
        BY <1>1
      <3>2. IsSum(g, t, Upto(0))
        BY <3>1 DEF IsSum
      <3> QED BY <2>1, <2>2, <3>2
    <2>3. CASE n # 0
      <3>1. n - 1 \in Nat /\ n - 1 \notin Bad
        <4>1. n \in Nat /\ n - 1 \in Nat /\ ~(n <= n - 1)
          BY <2>1, <2>3
        <4> HIDE DEF Bad
        <4> QED BY <2>1, <4>1
      <3>2. PICK g : IsSum(g, t, Upto(n - 1))
        BY <3>1
      <3> DEFINE h == [s \in Upto(n) |-> IF s = {} THEN 0 ELSE t[First(s)].amount + g[s \ {First(s)}]]
      <3>3. ASSUME NEW s \in Upto(n), s # {} PROVE g[s \ {First(s)}] = h[s \ {First(s)}]
        <4> DEFINE u == s \ {First(s)}
        <4>1. u \in Upto(n - 1) /\ u \in Upto(n)
          BY <1>1, <1>2, <2>1, <3>3
        <4>2. h[u] = IF u = {} THEN 0 ELSE t[First(u)].amount + g[u \ {First(u)}]
          BY <4>1
        <4>3. g[u] = IF u = {} THEN 0 ELSE t[First(u)].amount + g[u \ {First(u)}]
          <5> HIDE DEF u, Upto
          <5> QED BY <3>2, <4>1, SumIs
        <4> QED BY <4>2, <4>3
      <3>4. h = [s \in Upto(n) |-> IF s = {} THEN 0 ELSE t[First(s)].amount + h[s \ {First(s)}]]
        <4> DEFINE k == [s \in Upto(n) |-> IF s = {} THEN 0 ELSE t[First(s)].amount + h[s \ {First(s)}]]
        <4>1. ASSUME NEW s \in Upto(n) PROVE h[s] = k[s]
          BY <3>3
        <4> QED BY <4>1
      <3>5. IsSum(h, t, Upto(n))
        BY <3>4 DEF IsSum
      <3> QED BY <2>1, <3>5
    <2> QED BY <2>2, <2>3
  <1>4. Cardinality(S) \in Nat /\ Upto(Cardinality(S)) = SUBSET S
    BY <1>1, FS_CardinalityType
  <1> QED BY <1>3, <1>4

LEMMA SumsIs ==
    ASSUME NEW t, NEW S, IsFiniteSet(S)
    PROVE  \E g : IsSum(g, t, SUBSET S) /\ Sums(t, S) = g[S]
  <1>1. \E g : IsSum(g, t, SUBSET S)
    BY SumExists
  <1> QED BY <1>1 DEF IsSum, Sums, First

\* ... and depends only on the terms it adds.
Agree(g, t, S, h, u, R, T) == /\ IsSum(g, t, SUBSET S) /\ IsSum(h, u, SUBSET R)
                              /\ IsFiniteSet(T) /\ T \subseteq S /\ T \subseteq R
                              /\ \A x \in T : t[x].amount = u[x].amount

LEMMA SumAgree ==
    ASSUME NEW g, NEW t, NEW S, NEW h, NEW u, NEW R, NEW T, Agree(g, t, S, h, u, R, T)
    PROVE  g[T] = h[T]
  <1> USE DEF Agree
  <1> DEFINE Good == {U \in SUBSET T : g[U] = h[U]}
  <1>1. ASSUME NEW U \in SUBSET T, \A V \in SUBSET U : V # U => V \in Good PROVE U \in Good
    <2>1. U \in SUBSET S /\ U \in SUBSET R
      OBVIOUS
    <2>2. g[U] = IF U = {} THEN 0 ELSE t[First(U)].amount + g[U \ {First(U)}]
      BY <2>1, SumIs
    <2>3. h[U] = IF U = {} THEN 0 ELSE u[First(U)].amount + h[U \ {First(U)}]
      <3>1. IsSum(h, u, SUBSET R)
        OBVIOUS
      <3> QED BY <2>1, <3>1 DEF IsSum
    <2>4. ASSUME U # {} PROVE g[U \ {First(U)}] = h[U \ {First(U)}] /\ First(U) \in T
      BY <1>1, <2>4, FirstIn
    <2> QED BY <2>2, <2>3, <2>4
  <1> HIDE DEF Good
  <1>2. T \in Good
    BY <1>1, SubsetInduction
  <1> QED BY <1>2 DEF Good

LEMMA SumInt ==
    ASSUME NEW g, NEW t, NEW S, IsFiniteSet(S), IsSum(g, t, SUBSET S),
           \A x \in S : t[x].amount \in Int
    PROVE  \A T \in SUBSET S : g[T] \in Int
  <1> DEFINE Good == {U \in SUBSET S : g[U] \in Int}
  <1>1. ASSUME NEW U \in SUBSET S, \A V \in SUBSET U : V # U => V \in Good PROVE U \in Good
    <2>1. g[U] = IF U = {} THEN 0 ELSE t[First(U)].amount + g[U \ {First(U)}]
      BY SumIs
    <2>2. ASSUME U # {} PROVE g[U \ {First(U)}] \in Int /\ First(U) \in S
      BY <1>1, <2>2, FirstIn
    <2> QED BY <2>1, <2>2
  <1> HIDE DEF Good
  <1>2. \A T \in SUBSET S : T \in Good
    BY <1>1, SubsetInduction
  <1> QED BY <1>2 DEF Good

\* The order of the elements does not matter.
LEMMA SumAny ==
    ASSUME NEW g, NEW t, NEW S, IsFiniteSet(S), IsSum(g, t, SUBSET S),
           \A x \in S : t[x].amount \in Int
    PROVE  \A T \in SUBSET S, x \in S : x \in T => g[T] = t[x].amount + g[T \ {x}]
  <1> DEFINE Good == {U \in SUBSET S : \A x \in U : g[U] = t[x].amount + g[U \ {x}]}
  <1>1. ASSUME NEW U \in SUBSET S, \A V \in SUBSET U : V # U => V \in Good PROVE U \in Good
    <2> SUFFICES ASSUME NEW x \in U PROVE g[U] = t[x].amount + g[U \ {x}]
      OBVIOUS
    <2> DEFINE c == First(U)
    <2>1. c \in U /\ c \in S /\ x \in S
      BY FirstIn
    <2>2. g[U] = t[c].amount + g[U \ {c}]
      BY SumIs
    <2> HIDE DEF c
    <2>3. CASE x = c
      BY <2>2, <2>3
    <2>4. CASE x # c
      <3>1. U \ {c} \in Good /\ U \ {x} \in Good /\ x \in U \ {c} /\ c \in U \ {x}
        BY <1>1, <2>1, <2>4
      <3>2. g[U \ {c}] = t[x].amount + g[(U \ {c}) \ {x}]
        BY <3>1
      <3>3. g[U \ {x}] = t[c].amount + g[(U \ {x}) \ {c}]
        BY <3>1
      <3>4. (U \ {c}) \ {x} = (U \ {x}) \ {c} /\ (U \ {c}) \ {x} \in SUBSET S
        OBVIOUS
      <3>5. t[x].amount \in Int /\ t[c].amount \in Int /\ g[(U \ {c}) \ {x}] \in Int
        BY <2>1, <3>4, SumInt
      <3>6. g[U] = t[c].amount + (t[x].amount + g[(U \ {c}) \ {x}])
        BY <2>2, <3>2
      <3>7. g[U \ {x}] = t[c].amount + g[(U \ {c}) \ {x}]
        BY <3>3, <3>4
      <3> QED BY <3>5, <3>6, <3>7
    <2> QED BY <2>3, <2>4
  <1> HIDE DEF Good
  <1>2. \A T \in SUBSET S : T \in Good
    BY <1>1, SubsetInduction
  <1> QED BY <1>2 DEF Good

LEMMA SumsSame ==
    ASSUME NEW t, NEW u, NEW S, IsFiniteSet(S), \A x \in S : t[x].amount = u[x].amount
    PROVE  Sums(t, S) = Sums(u, S)
  <1>1. PICK g : IsSum(g, t, SUBSET S) /\ Sums(t, S) = g[S]
    BY SumsIs
  <1>2. PICK h : IsSum(h, u, SUBSET S) /\ Sums(u, S) = h[S]
    BY SumsIs
  <1>3. Agree(g, t, S, h, u, S, S)
    BY <1>1, <1>2 DEF Agree
  <1>4. g[S] = h[S]
    BY <1>3, SumAgree
  <1> QED BY <1>1, <1>2, <1>4

LEMMA SumsInt ==
    ASSUME NEW t, NEW S, IsFiniteSet(S), \A x \in S : t[x].amount \in Int
    PROVE  Sums(t, S) \in Int
  <1>1. PICK g : IsSum(g, t, SUBSET S) /\ Sums(t, S) = g[S]
    BY SumsIs
  <1>2. g[S] \in Int
    BY <1>1, SumInt
  <1> QED BY <1>1, <1>2

LEMMA SumsEmpty == ASSUME NEW t PROVE Sums(t, {}) = 0
  <1>1. IsFiniteSet({}) /\ {} \in SUBSET {}
    BY FS_EmptySet
  <1> QED BY <1>1, SumsIs, SumIs

LEMMA SumsAdd ==
    ASSUME NEW t, NEW S, IsFiniteSet(S), NEW x, x \notin S, \A y \in S \cup {x} : t[y].amount \in Int
    PROVE  Sums(t, S \cup {x}) = Sums(t, S) + t[x].amount
  <1>1. PICK R : R = S \cup {x}
    OBVIOUS
  <1>2. IsFiniteSet(R) /\ R \ {x} = S /\ S \subseteq R /\ S \subseteq S /\ x \in R
    BY <1>1, FS_AddElement
  <1>3. PICK g : IsSum(g, t, SUBSET R) /\ Sums(t, R) = g[R]
    BY <1>2, SumsIs
  <1>4. PICK h : IsSum(h, t, SUBSET S) /\ Sums(t, S) = h[S]
    BY SumsIs
  <1>5. g[S] = h[S]
    <2>1. Agree(g, t, R, h, t, S, S)
      BY <1>2, <1>3, <1>4 DEF Agree
    <2> QED BY <2>1, SumAgree
  <1>6. g[R] = t[x].amount + g[R \ {x}]
    <2>1. \A T \in SUBSET R, y \in R : y \in T => g[T] = t[y].amount + g[T \ {y}]
      BY <1>1, <1>2, <1>3, SumAny
    <2> QED BY <1>2, <2>1
  <1>7. t[x].amount \in Int /\ Sums(t, S) \in Int
    BY SumsInt
  <1>8. Sums(t, R) = t[x].amount + Sums(t, S)
    BY <1>2, <1>3, <1>4, <1>5, <1>6
  <1> QED BY <1>1, <1>7, <1>8

-----------------------------------------------------------------------------
(* What the legs of a set of hires have left in escrow                     *)

LEMMA TotalIs ==
    ASSUME NEW leg, NEW hires
    PROVE  /\ Total(leg, hires) = Sums(terms, {h \in hires : Paid(leg, h)})
           /\ Total(leg, hires)' = Sums(terms', {h \in hires : Paid(leg, h)'})
  <1>1. Total(leg, hires) = Sums(terms, {h \in hires : Paid(leg, h)})
    BY DEF MapThenSumSet, MapThenFoldSet, Sums, Total
  <1>2. Total(leg, hires)' = Sums(terms', {h \in hires : Paid(leg, h)'})
    BY DEF MapThenSumSet, MapThenFoldSet, Sums, Total
  <1> QED BY <1>1, <1>2

LEMMA Amounts ==
    ASSUME RowsOK, NEW h \in HireId PROVE terms[h].amount \in Int
  <1>1. terms[h] \in TermsType
    BY DEF RowsOK
  <1>2. \A n \in Credit : n \in Int
    BY HireAssumption
  <1> QED BY <1>1, <1>2 DEF TermsType, NoTerms

LEMMA TotalInt ==
    ASSUME RowsOK, NEW leg, NEW hires \in SUBSET HireId PROVE Total(leg, hires) \in Int
  <1> DEFINE S == {h \in hires : Paid(leg, h)}
  <1>1. IsFiniteSet(S)
    BY HireAssumption, FS_Subset
  <1>2. \A h \in S : terms[h].amount \in Int
    BY Amounts
  <1> HIDE DEF S
  <1>3. Sums(terms, S) \in Int
    BY <1>1, <1>2, SumsInt
  <1> QED BY <1>3, TotalIs DEF S

\* No leg of these hires is posted, and no amount changes under one.
LEMMA TotalKept ==
    ASSUME NEW leg, NEW hires \in SUBSET HireId,
           \A h \in hires : /\ Paid(leg, h)' <=> Paid(leg, h)
                            /\ Paid(leg, h) => terms'[h] = terms[h]
    PROVE  Total(leg, hires)' = Total(leg, hires)
  <1> DEFINE S == {h \in hires : Paid(leg, h)}
  <1>1. IsFiniteSet(S)
    BY HireAssumption, FS_Subset
  <1>2. \A h \in S : terms[h].amount = terms'[h].amount
    OBVIOUS
  <1>3. {h \in hires : Paid(leg, h)'} = S
    OBVIOUS
  <1>4. Sums(terms, S) = Sums(terms', S)
    <2> HIDE DEF S
    <2> QED BY <1>1, <1>2, SumsSame
  <1> QED BY <1>3, <1>4, TotalIs

LEMMA TotalPosted ==
    ASSUME RowsOK, NEW leg, NEW hires \in SUBSET HireId, NEW g \in hires, ~Paid(leg, g),
           \A h \in hires : Paid(leg, h)' <=> Paid(leg, h) \/ h = g,
           terms' = terms
    PROVE  Total(leg, hires)' = Total(leg, hires) + terms[g].amount
  <1> DEFINE S == {h \in hires : Paid(leg, h)}
  <1>1. IsFiniteSet(S) /\ g \notin S
    BY HireAssumption, FS_Subset
  <1>2. \A h \in S \cup {g} : terms[h].amount \in Int
    BY Amounts
  <1>3. {h \in hires : Paid(leg, h)'} = S \cup {g}
    OBVIOUS
  <1>4. Sums(terms, S \cup {g}) = Sums(terms, S) + terms[g].amount
    <2> HIDE DEF S
    <2> QED BY <1>1, <1>2, SumsAdd
  <1> QED BY <1>3, <1>4, TotalIs

\* A step that posts no leg, or the leg `leg` of hire h.
Quiet == /\ posted' = posted
         /\ \A h \in HireId : terms[h] # NoTerms => terms'[h] = terms[h]
Posts(leg, h) == /\ ~Paid(leg, h)
                 /\ posted' = posted \cup {LegKey(leg, h)}
                 /\ terms' = terms

Into(leg, h) == IF leg = "hold" THEN terms[h].amount ELSE -terms[h].amount

LEMMA PaidTerms ==
    ASSUME LegsInv, NEW leg, NEW h, Paid(leg, h)
    PROVE  h \in HireId /\ leg \in {"hold", "release", "refund"} /\ terms[h] # NoTerms
  BY DEF LegsInv, Paid, LegKey, HireKey

LEMMA QuietEscrow ==
    ASSUME LegsInv, Quiet, NEW hires \in SUBSET HireId
    PROVE  InEscrow(hires)' = InEscrow(hires)
  <1>1. ASSUME NEW leg PROVE Total(leg, hires)' = Total(leg, hires)
    <2>1. \A h \in hires : /\ Paid(leg, h)' <=> Paid(leg, h)
                           /\ Paid(leg, h) => terms'[h] = terms[h]
      BY PaidTerms DEF Quiet, Paid
    <2> QED BY <2>1, TotalKept
  <1> QED BY <1>1 DEF InEscrow

LEMMA PostsEscrow ==
    ASSUME RowsOK, NEW leg \in {"hold", "release", "refund"}, NEW h \in HireId, Posts(leg, h),
           NEW hires \in SUBSET HireId
    PROVE  InEscrow(hires)' = InEscrow(hires) + IF h \in hires THEN Into(leg, h) ELSE 0
  <1>1. \A l, g : Paid(l, g)' <=> Paid(l, g) \/ (l = leg /\ g = h)
    BY LegKeys DEF Posts, Paid
  <1>2. ASSUME NEW l, l # leg \/ h \notin hires PROVE Total(l, hires)' = Total(l, hires)
    <2>1. \A g \in hires : /\ Paid(l, g)' <=> Paid(l, g)
                           /\ Paid(l, g) => terms'[g] = terms[g]
      BY <1>1, <1>2 DEF Posts
    <2> QED BY <2>1, TotalKept
  <1>3. ASSUME h \in hires PROVE Total(leg, hires)' = Total(leg, hires) + terms[h].amount
    <2>1. \A g \in hires : Paid(leg, g)' <=> Paid(leg, g) \/ g = h
      BY <1>1
    <2> QED BY <1>3, <2>1, TotalPosted DEF Posts
  <1>4. /\ \A l : Total(l, hires) \in Int
        /\ terms[h].amount \in Int
    BY TotalInt, Amounts
  <1>5. InEscrow(hires) = Total("hold", hires) - Total("release", hires) - Total("refund", hires)
    BY DEF InEscrow
  <1>6. InEscrow(hires)'
          = Total("hold", hires)' - Total("release", hires)' - Total("refund", hires)'
    BY DEF InEscrow
  <1>7. CASE h \notin hires
    <2>1. /\ Total("hold", hires)' = Total("hold", hires)
          /\ Total("release", hires)' = Total("release", hires)
          /\ Total("refund", hires)' = Total("refund", hires)
      BY <1>2, <1>7
    <2> QED BY <1>4, <1>5, <1>6, <1>7, <2>1
  <1>8. CASE h \in hires /\ leg = "hold"
    <2>1. /\ Total("hold", hires)' = Total("hold", hires) + terms[h].amount
          /\ Total("release", hires)' = Total("release", hires)
          /\ Total("refund", hires)' = Total("refund", hires)
      BY <1>2, <1>3, <1>8
    <2> QED BY <1>4, <1>5, <1>6, <1>8, <2>1 DEF Into
  <1>9. CASE h \in hires /\ leg = "release"
    <2>1. /\ Total("hold", hires)' = Total("hold", hires)
          /\ Total("release", hires)' = Total("release", hires) + terms[h].amount
          /\ Total("refund", hires)' = Total("refund", hires)
      BY <1>2, <1>3, <1>9
    <2> QED BY <1>4, <1>5, <1>6, <1>9, <2>1 DEF Into
  <1>10. CASE h \in hires /\ leg = "refund"
    <2>1. /\ Total("hold", hires)' = Total("hold", hires)
          /\ Total("release", hires)' = Total("release", hires)
          /\ Total("refund", hires)' = Total("refund", hires) + terms[h].amount
      BY <1>2, <1>3, <1>10
    <2> QED BY <1>4, <1>5, <1>6, <1>10, <2>1 DEF Into
  <1> QED BY <1>7, <1>8, <1>9, <1>10

-----------------------------------------------------------------------------
(* What the plans of a hire move into the escrow wallet                    *)

LEMMA HoldEffect ==
    ASSUME NEW b \in Member, NEW n \in Int
    PROVE  Effect(HoldPlan(b, n), EscrowHandle) = n
  BY PlansAssumption DEF HoldPlan, Effect, UpTo, Amount, MaxEntries, Entry, System

LEMMA RefundEffect ==
    ASSUME NEW b \in Member, NEW n \in Int
    PROVE  Effect(RefundPlan(b, n), EscrowHandle) = -n
  BY PlansAssumption DEF RefundPlan, Effect, UpTo, Amount, MaxEntries, Entry, System

\* Only the first entry of a release is the escrow wallet's.
LEMMA FirstEntryEffect ==
    ASSUME NEW es, NEW n \in Int, Len(es) \in Nat, Len(es) > 0, es[1] = Entry(EscrowHandle, n),
           \A i \in 2..Len(es) : es[i].handle # EscrowHandle
    PROVE  Effect(es, EscrowHandle) = n
  <1>1. Amount(es, 1, EscrowHandle) = n
    BY DEF Amount, Entry
  <1>2. \A i \in 2..5 : Amount(es, i, EscrowHandle) = 0
    BY DEF Amount
  <1> QED BY <1>1, <1>2 DEF Effect, UpTo, MaxEntries

Leads(e, es, T) == /\ es \in Seq(T) /\ Len(es) > 0 /\ es[1] = e
                   /\ \A i \in 2..Len(es) : es[i].handle # EscrowHandle

LEMMA AffiliatesFollow ==
    ASSUME NEW e1, NEW es, NEW T, Leads(e1, es, T),
           NEW l \in Member \cup {NoHandle}, NEW cut, Entry(l, cut) \in T
    PROVE  Leads(e1, es \o Affiliate(l, cut), T)
  <1> USE DEF Leads
  <1> DEFINE e == Entry(l, cut)
             more == es \o Affiliate(l, cut)
  <1>1. EscrowHandle \notin Member
    BY PlansAssumption DEF System
  <1>2. CASE l # NoHandle /\ cut # 0
    <2>1. Affiliate(l, cut) = <<e>> /\ e.handle # EscrowHandle
      BY <1>1, <1>2 DEF Affiliate, Entry
    <2> HIDE DEF e
    <2>2. /\ es \o <<e>> \in Seq(T) /\ Len(es \o <<e>>) = Len(es) + 1
          /\ \A i \in 1..Len(es) : (es \o <<e>>)[i] = es[i]
          /\ (es \o <<e>>)[Len(es) + 1] = e
      BY DEF e
    <2> QED BY <2>1, <2>2
  <1>3. CASE l = NoHandle \/ cut = 0
    <2>1. Affiliate(l, cut) = <<>>
      BY <1>3 DEF Affiliate
    <2>2. es \o <<>> = es
      OBVIOUS
    <2> QED BY <2>1, <2>2
  <1> QED BY <1>2, <1>3

LEMMA ReleaseEffect ==
    ASSUME NEW seller \in Member, NEW n \in Int,
           NEW l1 \in Member \cup {NoHandle}, NEW l2 \in Member \cup {NoHandle}
    PROVE  Effect(ReleasePlan(seller, n, l1, l2, 0), EscrowHandle) = -n
  <1> DEFINE s == Split(n, l1, l2, 0)
             e1 == Entry(EscrowHandle, -n)
             e2 == Entry(seller, n - s.fee)
             e3 == Entry(LpFees, s.lpKeep)
             T == {e1, e2, e3, Entry(l1, s.l1), Entry(l2, s.l2)}
             base == <<e1, e2, e3>>
             with1 == base \o Affiliate(l1, s.l1)
             es == with1 \o Affiliate(l2, s.l2)
  <1>1. ReleasePlan(seller, n, l1, l2, 0) = es
    BY DEF ReleasePlan, Sale
  <1>2. /\ EscrowHandle \notin Member /\ EscrowHandle # LpFees
        /\ -n \in Int
    BY PlansAssumption DEF System, EscrowHandle, LpFees
  <1>3. e2.handle # EscrowHandle /\ e3.handle # EscrowHandle
    BY <1>2 DEF Entry
  <1> HIDE DEF s, e1, e2, e3
  <1>4. Leads(e1, base, T)
    BY <1>3 DEF Leads
  <1> HIDE DEF base
  <1>5. Entry(l1, s.l1) \in T /\ Entry(l2, s.l2) \in T
    OBVIOUS
  <1> HIDE DEF T
  <1>6. Leads(e1, with1, T)
    BY <1>4, <1>5, AffiliatesFollow
  <1>7. Leads(e1, es, T)
    BY <1>5, <1>6, AffiliatesFollow
  <1>8. Effect(es, EscrowHandle) = -n
    <2> HIDE DEF es
    <2> QED BY <1>2, <1>7, FirstEntryEffect DEF Leads, e1
  <1> QED BY <1>1, <1>8

-----------------------------------------------------------------------------
(* Every step leaves the escrow wallet alone or posts one leg into it      *)

Legs == {"hold", "release", "refund"}

AtRest == Quiet /\ wallet'[EscrowHandle] = wallet[EscrowHandle]
LegStep(leg, h) == /\ Posts(leg, h) /\ terms[h] # NoTerms
                   /\ wallet'[EscrowHandle] = wallet[EscrowHandle] + Into(leg, h)

LEMMA ApplyMoves ==
    ASSUME NEW key, NEW es, Apply(key, es)
    PROVE  wallet'[EscrowHandle] = wallet[EscrowHandle] + Effect(es, EscrowHandle)
  BY DEF Apply, Handle, System

LEMMA KeysOfLegs ==
    ASSUME NEW leg \in Legs, NEW h \in HireId
    PROVE  LegKey(leg, h) \in HireKey /\ LegKey(leg, h) # NoKey
  BY HireKeyAssumption, AtomicLedgerAssumption DEF LegKey, HireKey, Legs

LEMMA Opened ==
    ASSUME RowsOK, NEW h \in HireId, terms[h] # NoTerms
    PROVE  terms[h].buyer \in Member /\ terms[h].seller \in Member /\ terms[h].amount \in Int
  <1>1. terms[h] \in [buyer : Member, seller : Member, amount : Credit]
    BY DEF RowsOK, TermsType
  <1> QED BY <1>1, Amounts

LEMMA ChainInRange ==
    ASSUME NEW m \in Member
    PROVE  LET chain == AffiliateChain(m, ReferredBy)
           IN  chain[1] \in Member \cup {NoHandle} /\ chain[2] \in Member \cup {NoHandle}
  <1> DEFINE edge(x) == IF x \in DOMAIN ReferredBy THEN ReferredBy[x] ELSE NoHandle
             l1 == IF edge(m) = m THEN NoHandle ELSE edge(m)
             l2 == IF l1 = NoHandle THEN NoHandle ELSE edge(l1)
  <1>1. \A x : edge(x) \in Member \cup {NoHandle}
    BY HireAssumption
  <1>2. AffiliateChain(m, ReferredBy) = <<l1, IF l2 \in {m, l1} THEN NoHandle ELSE l2>>
    BY DEF AffiliateChain
  <1> HIDE DEF edge
  <1> QED BY <1>1, <1>2

LEMMA HoldStep ==
    ASSUME IInv, NEW c \in Caller, HoldCredits(c)
    PROVE  AtRest \/ LegStep("hold", call[c].hire)
  <1> DEFINE h == call[c].hire
             plan == HoldPlan(terms[h].buyer, terms[h].amount)
  <1>1. /\ h \in HireId /\ terms[h] # NoTerms /\ terms' = terms
        /\ ~Paid("hold", h) /\ RowsOK
    BY DEF HoldCredits, IInv, CallInv, OpenerInv
  <1>2. CASE Apply(LegKey("hold", h), plan)
    <2>1. /\ posted' = posted \cup ({LegKey("hold", h)} \ {NoKey})
          /\ wallet'[EscrowHandle] = wallet[EscrowHandle] + Effect(plan, EscrowHandle)
      BY <1>2, ApplyPosts, ApplyMoves
    <2>2. LegKey("hold", h) # NoKey
      BY <1>1, KeysOfLegs DEF Legs
    <2>3. Effect(plan, EscrowHandle) = terms[h].amount
      BY <1>1, Opened, HoldEffect
    <2>4. posted' = posted \cup {LegKey("hold", h)}
      BY <2>1, <2>2
    <2> QED BY <1>1, <2>1, <2>3, <2>4 DEF LegStep, Posts, Into
  <1>3. CASE UNCHANGED ledgerVars
    BY <1>1, <1>3 DEF AtRest, Quiet, ledgerVars
  <1> QED BY <1>2, <1>3 DEF HoldCredits

LEMMA PayStep ==
    ASSUME IInv, NEW c \in Caller, NEW action, NEW leg \in {"release", "refund"}, NEW plan,
           Pay(c, action, LegKey(leg, call[c].hire), plan),
           Effect(plan, EscrowHandle) = -terms[call[c].hire].amount
    PROVE  AtRest \/ LegStep(leg, call[c].hire)
  <1> DEFINE h == call[c].hire
  <1>1. h \in HireId /\ terms[h] # NoTerms /\ terms' = terms
    BY DEF Pay, IInv, CallInv
  <1>2. LegKey(leg, h) # NoKey
    BY <1>1, KeysOfLegs DEF Legs
  <1>3. CASE Apply(LegKey(leg, h), plan)
    <2>1. /\ posted' = posted \cup ({LegKey(leg, h)} \ {NoKey})
          /\ wallet'[EscrowHandle] = wallet[EscrowHandle] + Effect(plan, EscrowHandle)
      BY <1>3, ApplyPosts, ApplyMoves
    <2>2. posted' = posted \cup {LegKey(leg, h)}
      BY <1>2, <2>1
    <2>3. ~Paid(leg, h)
      BY <1>2, <1>3 DEF Apply, IsReplay, Paid
    <2> QED BY <1>1, <2>1, <2>2, <2>3 DEF LegStep, Posts, Into
  <1>4. CASE UNCHANGED ledgerVars
    BY <1>1, <1>4 DEF AtRest, Quiet, ledgerVars
  <1> QED BY <1>3, <1>4 DEF Pay

LEMMA ReleaseStep ==
    ASSUME IInv, NEW c \in Caller, Release(c) PROVE AtRest \/ LegStep("release", call[c].hire)
  <1> DEFINE h == call[c].hire
  <1>1. h \in HireId /\ terms[h] # NoTerms /\ RowsOK
    BY DEF Release, Pay, IInv, CallInv
  <1>2. Effect(ReleaseTo(h), EscrowHandle) = -terms[h].amount
    BY <1>1, Opened, ChainInRange, ReleaseEffect DEF ReleaseTo
  <1> QED BY <1>2, PayStep DEF Release

LEMMA RefundStep ==
    ASSUME IInv, NEW c \in Caller, Refund(c) PROVE AtRest \/ LegStep("refund", call[c].hire)
  <1> DEFINE h == call[c].hire
  <1>1. h \in HireId /\ terms[h] # NoTerms /\ RowsOK
    BY DEF Refund, Pay, IInv, CallInv
  <1>2. Effect(RefundPlan(terms[h].buyer, terms[h].amount), EscrowHandle) = -terms[h].amount
    BY <1>1, Opened, RefundEffect
  <1> QED BY <1>2, PayStep DEF Refund

LEMMA OpenStep ==
    ASSUME RowsOK, NEW c \in Caller, NEW buyer, NEW seller, NEW credits,
           Open(c, buyer, seller, credits)
    PROVE  AtRest
  <1>1. PICK h \in HireId :
           /\ terms[h] = NoTerms
           /\ terms' = [terms EXCEPT ![h] = [buyer |-> buyer, seller |-> seller, amount |-> credits]]
           /\ UNCHANGED ledgerVars
    BY DEF Open, Fresh
  <1> QED BY <1>1 DEF AtRest, Quiet, ledgerVars, RowsOK

LEMMA RestSteps ==
    ASSUME NEW c \in Caller,
           \/ DeleteUnfunded(c) \/ WriteState(c) \/ Die(c)
           \/ \E h \in HireId, action \in Action, actor \in Member : Act(c, h, action, actor)
           \/ UNCHANGED vars
    PROVE  AtRest
  BY DEF AtRest, Quiet, DeleteUnfunded, WriteState, Die, Act, vars, hireVars, ledgerVars

LEMMA LegsInvKept ==
    ASSUME RowsOK, LegsInv, AtRest \/ \E leg \in Legs, h \in HireId : LegStep(leg, h)
    PROVE  LegsInv'
  <1>1. CASE AtRest
    BY <1>1 DEF LegsInv, AtRest, Quiet, HireKey
  <1>2. ASSUME NEW leg \in Legs, NEW h \in HireId, LegStep(leg, h) PROVE LegsInv'
    <2>1. LegKey(leg, h) \in HireKey /\ LegKey(leg, h)[2] = h
      BY KeysOfLegs DEF LegKey
    <2> QED BY <1>2, <2>1 DEF LegsInv, LegStep, Posts
  <1> QED BY <1>1, <1>2

\* What is left in escrow beside the legs of these hires.
LEMMA BesidesKept ==
    ASSUME RowsOK, LegsInv, wallet[EscrowHandle] \in Int, NEW hires \in SUBSET HireId,
           AtRest \/ \E leg \in Legs, h \in hires : LegStep(leg, h)
    PROVE  /\ wallet'[EscrowHandle] \in Int /\ InEscrow(hires)' \in Int
           /\ wallet'[EscrowHandle] - InEscrow(hires)' = wallet[EscrowHandle] - InEscrow(hires)
  <1>1. InEscrow(hires) \in Int
    <2>1. \A leg : Total(leg, hires) \in Int
      BY TotalInt
    <2> QED BY <2>1 DEF InEscrow
  <1>2. CASE AtRest
    BY <1>1, <1>2, QuietEscrow DEF AtRest
  <1>3. ASSUME NEW leg \in Legs, NEW h \in hires, LegStep(leg, h)
        PROVE  /\ wallet'[EscrowHandle] \in Int /\ InEscrow(hires)' \in Int
               /\ wallet'[EscrowHandle] - InEscrow(hires)' = wallet[EscrowHandle] - InEscrow(hires)
    <2>1. InEscrow(hires)' = InEscrow(hires) + Into(leg, h)
      BY <1>3, PostsEscrow DEF Legs, LegStep
    <2>2. wallet'[EscrowHandle] = wallet[EscrowHandle] + Into(leg, h)
      BY <1>3 DEF LegStep
    <2>3. Into(leg, h) \in Int
      BY Amounts DEF Into
    <2> HIDE DEF Into
    <2> QED BY <1>1, <2>1, <2>2, <2>3
  <1> QED BY <1>2, <1>3

Posting(c, leg) == /\ call[c].at = IF leg = "hold" THEN "hold" ELSE "pay"
                   /\ LegStep(leg, call[c].hire)

LEMMA EveryStep ==
    ASSUME IInv, [Next]_vars
    PROVE  AtRest \/ \E c \in Caller, leg \in Legs : Posting(c, leg)
  <1> DEFINE Goal == AtRest \/ \E c \in Caller, leg \in Legs : Posting(c, leg)
  <1>1. ASSUME NEW c \in Caller, NEW buyer \in Member, NEW seller \in Member,
               NEW credits \in Credit, Open(c, buyer, seller, credits)
        PROVE  AtRest
    BY <1>1, OpenStep DEF IInv
  <1>2. ASSUME NEW c \in Caller, HoldCredits(c) PROVE Goal
    BY <1>2, HoldStep DEF HoldCredits, Legs, Posting
  <1>3. ASSUME NEW c \in Caller, Release(c) PROVE Goal
    BY <1>3, ReleaseStep DEF Release, Pay, Legs, Posting
  <1>4. ASSUME NEW c \in Caller, Refund(c) PROVE Goal
    BY <1>4, RefundStep DEF Refund, Pay, Legs, Posting
  <1>5. ASSUME NEW c \in Caller,
               \/ DeleteUnfunded(c) \/ WriteState(c) \/ Die(c)
               \/ \E h \in HireId, action \in Action, actor \in Member : Act(c, h, action, actor)
        PROVE  AtRest
    BY <1>5, RestSteps
  <1>6. CASE UNCHANGED vars
    BY <1>6 DEF AtRest, Quiet, vars, hireVars, ledgerVars
  <1> QED BY <1>1, <1>2, <1>3, <1>4, <1>5, <1>6 DEF Next

LEMMA InitEscrowInv == Init => EscrowInv
  <1> SUFFICES ASSUME Init PROVE EscrowInv
    OBVIOUS
  <1>1. LegsInv
    BY DEF Init, LegsInv
  <1>2. wallet[EscrowHandle] = 0
    BY PlansAssumption DEF Init, Handle, System, EscrowHandle, Issued
  <1>3. \A leg : Total(leg, HireId) = 0
    <2> SUFFICES ASSUME NEW leg PROVE Total(leg, HireId) = 0
      OBVIOUS
    <2>1. {h \in HireId : Paid(leg, h)} = {}
      BY DEF Init, Paid
    <2>2. Sums(terms, {h \in HireId : Paid(leg, h)}) = 0
      BY <2>1, SumsEmpty
    <2> QED BY <2>2, TotalIs
  <1> QED BY <1>1, <1>2, <1>3, InitIInv DEF EscrowInv, EscrowMatchesLegs, InEscrow

LEMMA NextEscrowInv == EscrowInv /\ [Next]_vars => EscrowInv'
  <1> SUFFICES ASSUME EscrowInv, [Next]_vars PROVE EscrowInv'
    OBVIOUS
  <1>1. IInv /\ LegsInv /\ RowsOK /\ wallet[EscrowHandle] = InEscrow(HireId)
    BY DEF EscrowInv, IInv, EscrowMatchesLegs
  <1>2. AtRest \/ \E leg \in Legs, h \in HireId : LegStep(leg, h)
    <2>1. ASSUME NEW c \in Caller, NEW leg \in Legs, Posting(c, leg)
          PROVE  call[c].hire \in HireId /\ LegStep(leg, call[c].hire)
      BY <1>1, <2>1 DEF Posting, IInv, CallInv
    <2> QED BY <1>1, <2>1, EveryStep
  <1>3. LegsInv'
    BY <1>1, <1>2, LegsInvKept
  <1>4. InEscrow(HireId) \in Int
    <2>1. \A leg : Total(leg, HireId) \in Int
      BY <1>1, TotalInt
    <2> QED BY <2>1 DEF InEscrow
  <1>5. /\ wallet'[EscrowHandle] \in Int /\ InEscrow(HireId)' \in Int
        /\ wallet'[EscrowHandle] - InEscrow(HireId)' = wallet[EscrowHandle] - InEscrow(HireId)
    BY <1>1, <1>2, <1>4, BesidesKept
  <1>6. wallet'[EscrowHandle] = InEscrow(HireId)'
    BY <1>1, <1>4, <1>5
  <1>7. IInv'
    BY <1>1, NextIInv
  <1> QED BY <1>3, <1>6, <1>7 DEF EscrowInv, EscrowMatchesLegs

-----------------------------------------------------------------------------
(* The calls of an isolated hire take turns: IsolatedInv                   *)

\* A step that is not about hire g.
Untouched(g) == /\ \A leg : Paid(leg, g)' <=> Paid(leg, g)
                /\ state'[g] = state[g]
                /\ \A d \in Caller : call'[d] = call[d] \/ (~On(d, g) /\ ~On(d, g)')

LEMMA UntouchedTurns ==
    ASSUME NEW g, TakesTurns(g), Untouched(g) PROVE TakesTurns(g)'
  <1>1. \A d \in Caller : /\ On(d, g)' <=> On(d, g)
                          /\ On(d, g) => call'[d] = call[d]
    BY DEF Untouched, On
  <1>2. \A d \in Caller : On(d, g) => /\ Opening(d)' <=> Opening(d)
                                      /\ Settling(d)' <=> Settling(d)
    BY <1>1 DEF Opening, Settling
  <1>3. Unsettled(g)' <=> Unsettled(g)
    BY DEF Untouched, Unsettled
  <1> HIDE DEF On, Opening, Settling, Unsettled
  <1> QED BY <1>1, <1>2, <1>3 DEF TakesTurns, Untouched

LEMMA OpenTurns ==
    ASSUME IInv, IsolatedInv, NEW c \in Caller, NEW buyer, NEW seller, NEW credits,
           Open(c, buyer, seller, credits)
    PROVE  IsolatedInv'
  <1>1. PICK h \in HireId :
           /\ terms[h] = NoTerms
           /\ state' = [state EXCEPT ![h] = "requested"]
           /\ call' = [call EXCEPT ![c] = [at |-> "hold", hire |-> h, action |-> "open"]]
           /\ posted' = posted
    BY DEF Open, Fresh, ledgerVars
  <1>2. /\ call[c].at = "idle"
        /\ call'[c] = [at |-> "hold", hire |-> h, action |-> "open"]
        /\ \A d \in Caller \ {c} : call'[d] = call[d]
        /\ \A g \in HireId \ {h} : state'[g] = state[g]
        /\ \A leg, g : Paid(leg, g)' <=> Paid(leg, g)
    BY <1>1 DEF Open, IInv, RowsOK, Paid
  <1>3. \A d \in Caller : ~On(d, h)
    BY <1>1 DEF IInv, CallInv, On
  <1>4. ASSUME NEW g \in Isolated, g # h PROVE TakesTurns(g)'
    <2>1. Untouched(g)
      BY <1>2, <1>4, HireAssumption DEF Untouched, On
    <2> QED BY <2>1, UntouchedTurns DEF IsolatedInv
  <1>5. ASSUME h \in Isolated PROVE TakesTurns(h)'
    <2>1. \A d \in Caller : On(d, h)' <=> d = c
      BY <1>2, <1>3 DEF On
    <2>2. Opening(c)'
      BY <1>2 DEF Opening
    <2>3. Paid("release", h)' \/ Paid("refund", h)' => Paid("hold", h)'
      BY <1>2, <1>5 DEF IsolatedInv, TakesTurns
    <2> QED BY <2>1, <2>2, <2>3 DEF TakesTurns
  <1> QED BY <1>4, <1>5 DEF IsolatedInv

\* A call that goes on, or returns, and the one hire it is on.
Stays(c, at) == /\ call'[c].at = at /\ call'[c].hire = call[c].hire
                /\ call'[c].action = call[c].action
                /\ \A d \in Caller \ {c} : call'[d] = call[d]
Leaves(c) == call'[c].at = "idle" /\ \A d \in Caller \ {c} : call'[d] = call[d]

LEMMA Goes ==
    ASSUME RowsOK, NEW c \in Caller
    PROVE  /\ \A at : Goto(c, at) => Stays(c, at)
           /\ Return(c) => Leaves(c)
  BY DEF RowsOK, CallType, Goto, Return, Stays, Leaves, Idle

LEMMA OthersUntouched ==
    ASSUME NEW c \in Caller, Leaves(c) \/ \E at : Stays(c, at), NEW g, g # call[c].hire,
           state'[g] = state[g], \A leg : Paid(leg, g)' <=> Paid(leg, g)
    PROVE  Untouched(g)
  BY DEF Leaves, Stays, Untouched, On

\* The call of an isolated hire returns, and no other call is on it.
LEMMA LeavesAlone ==
    ASSUME NEW c \in Caller, Leaves(c), NEW h, h = call[c].hire, call[c].at # "idle",
           TakesTurns(h)
    PROVE  \A d \in Caller : ~On(d, h)'
  BY DEF Leaves, TakesTurns, On

LEMMA StaysAlone ==
    ASSUME NEW c \in Caller, NEW at, at # "idle", Stays(c, at), NEW h, h = call[c].hire,
           call[c].at # "idle", TakesTurns(h)
    PROVE  \A d \in Caller : On(d, h)' <=> d = c
  BY DEF Stays, TakesTurns, On

LEMMA HireOfCall ==
    ASSUME IInv, NEW c \in Caller, call[c].at # "idle"
    PROVE  \E h \in HireId : h = call[c].hire
  BY DEF IInv, CallInv

LEMMA HoldTurns ==
    ASSUME IInv, IsolatedInv, NEW c \in Caller, HoldCredits(c) PROVE IsolatedInv'
  <1>0. PICK h \in HireId : h = call[c].hire
    BY HireOfCall DEF HoldCredits
  <1> DEFINE plan == HoldPlan(terms[h].buyer, terms[h].amount)
  <1>1. /\ call[c].at = "hold" /\ h \in HireId /\ ~Paid("hold", h) /\ state' = state
        /\ call[c].action = "open" /\ RowsOK
    BY <1>0 DEF HoldCredits, IInv, CallInv, OpenerInv
  <1>2. CASE Apply(LegKey("hold", h), plan) /\ Return(c)
    <2>1. Leaves(c)
      BY <1>0, <1>1, <1>2, Goes
    <2>2. posted' = posted \cup {LegKey("hold", h)}
      BY <1>0, <1>1, <1>2, ApplyPosts, KeysOfLegs DEF Legs
    <2>3. \A l, g : Paid(l, g)' <=> Paid(l, g) \/ (l = "hold" /\ g = h)
      BY <2>2, LegKeys DEF Paid
    <2>4. ASSUME NEW g \in Isolated, g # h PROVE TakesTurns(g)'
      <3>1. Untouched(g)
        BY <1>0, <1>1, <2>1, <2>3, <2>4, OthersUntouched
      <3> QED BY <3>1, UntouchedTurns DEF IsolatedInv
    <2>5. ASSUME h \in Isolated PROVE TakesTurns(h)'
      <3>1. TakesTurns(h)
        BY <2>5 DEF IsolatedInv
      <3>2. \A d \in Caller : ~On(d, h)'
        BY <1>0, <1>1, <2>1, <3>1, LeavesAlone
      <3>3. Unsettled(h)' /\ Paid("hold", h)'
        BY <1>0, <1>1, <2>3, <3>1 DEF TakesTurns, Unsettled
      <3> QED BY <3>2, <3>3 DEF TakesTurns
    <2> QED BY <2>4, <2>5 DEF IsolatedInv
  <1>3. CASE Goto(c, "undo") /\ UNCHANGED ledgerVars
    <2>1. Stays(c, "undo") /\ \A l, g : Paid(l, g)' <=> Paid(l, g)
      BY <1>0, <1>1, <1>3, Goes DEF ledgerVars, Paid
    <2>2. ASSUME NEW g \in Isolated, g # h PROVE TakesTurns(g)'
      <3>1. Untouched(g)
        BY <1>0, <1>1, <2>1, <2>2, OthersUntouched
      <3> QED BY <3>1, UntouchedTurns DEF IsolatedInv
    <2>3. ASSUME h \in Isolated PROVE TakesTurns(h)'
      <3>1. TakesTurns(h)
        BY <2>3 DEF IsolatedInv
      <3>2. \A d \in Caller : On(d, h)' <=> d = c
        BY <1>0, <1>1, <2>1, <3>1, StaysAlone
      <3>3. Opening(c)'
        BY <2>1 DEF Stays, Opening
      <3>4. Paid("release", h)' \/ Paid("refund", h)' => Paid("hold", h)'
        BY <2>1, <3>1 DEF TakesTurns
      <3> QED BY <3>2, <3>3, <3>4 DEF TakesTurns
    <2> QED BY <2>2, <2>3 DEF IsolatedInv
  <1> QED BY <1>0, <1>2, <1>3 DEF HoldCredits

LEMMA UndoTurns ==
    ASSUME IInv, IsolatedInv, NEW c \in Caller, DeleteUnfunded(c) PROVE IsolatedInv'
  <1>0. PICK h \in HireId : h = call[c].hire
    BY HireOfCall DEF DeleteUnfunded
  <1>1. /\ call[c].at = "undo" /\ h \in HireId /\ RowsOK
        /\ state' = [state EXCEPT ![h] = "none"] /\ posted' = posted
    BY <1>0 DEF DeleteUnfunded, ledgerVars, IInv, CallInv
  <1>2. /\ Leaves(c)
        /\ state'[h] = "none" /\ \A g \in HireId \ {h} : state'[g] = state[g]
        /\ \A leg, g : Paid(leg, g)' <=> Paid(leg, g)
    BY <1>0, <1>1, Goes DEF RowsOK, Paid, DeleteUnfunded
  <1>3. ASSUME NEW g \in Isolated, g # h PROVE TakesTurns(g)'
    <2>1. Untouched(g)
      BY <1>0, <1>2, <1>3, OthersUntouched, HireAssumption
    <2> QED BY <2>1, UntouchedTurns DEF IsolatedInv
  <1>4. ASSUME h \in Isolated PROVE TakesTurns(h)'
    <2>1. TakesTurns(h)
      BY <1>4 DEF IsolatedInv
    <2>2. \A d \in Caller : ~On(d, h)'
      BY <1>0, <1>1, <1>2, <2>1, LeavesAlone
    <2> QED BY <1>2, <2>1, <2>2 DEF TakesTurns
  <1> QED BY <1>3, <1>4 DEF IsolatedInv

LEMMA ActTurns ==
    ASSUME IInv, IsolatedInv, NEW c \in Caller, NEW h \in HireId, NEW action \in Action,
           NEW actor, Act(c, h, action, actor)
    PROVE  IsolatedInv'
  <1> DEFINE at == IF action \in {"release", "cancel"} THEN "pay" ELSE "write"
  <1>1. /\ call[c].at = "idle" /\ state[h] \in {"requested", "accepted", "delivered"}
        /\ h \in Isolated => ~InFlight(h)
        /\ state' = state /\ posted' = posted
        /\ call' = [call EXCEPT ![c] = [at |-> at, hire |-> h, action |-> action]]
    BY DEF Act, Action, Transition, ledgerVars
  <1>2. /\ call'[c].hire = h /\ call'[c].at # "idle"
        /\ \A d \in Caller \ {c} : call'[d] = call[d]
        /\ \A leg, g : Paid(leg, g)' <=> Paid(leg, g)
    BY <1>1 DEF IInv, RowsOK, Paid
  <1>3. ASSUME NEW g \in Isolated, g # h PROVE TakesTurns(g)'
    <2>1. Untouched(g)
      BY <1>1, <1>2, <1>3 DEF Untouched, On
    <2> QED BY <2>1, UntouchedTurns DEF IsolatedInv
  <1>4. ASSUME h \in Isolated PROVE TakesTurns(h)'
    <2>1. TakesTurns(h)
      BY <1>4 DEF IsolatedInv
    <2>2. \A d \in Caller : ~On(d, h)
      BY <1>1, <1>4 DEF InFlight, On
    <2>3. \A d \in Caller : On(d, h)' <=> d = c
      BY <1>2, <2>2 DEF On
    <2>4. Unsettled(h)
      BY <1>1, <2>1, <2>2 DEF TakesTurns
    <2>5. Unsettled(h)' /\ Paid("hold", h)'
      BY <1>2, <2>4 DEF Unsettled
    <2> QED BY <2>3, <2>5 DEF TakesTurns
  <1> QED BY <1>3, <1>4 DEF IsolatedInv

LEMMA PayTurns ==
    ASSUME IInv, IsolatedInv, NEW c \in Caller, NEW action \in {"release", "cancel"},
           NEW leg \in {"release", "refund"}, NEW plan,
           Pay(c, action, LegKey(leg, call[c].hire), plan)
    PROVE  IsolatedInv'
  <1>0. PICK h \in HireId : h = call[c].hire
    BY HireOfCall DEF Pay
  <1> DEFINE key == LegKey(leg, h)
  <1>1. /\ call[c].at = "pay" /\ call[c].action = action /\ h \in HireId
        /\ state' = state /\ RowsOK
    BY <1>0 DEF Pay, IInv, CallInv
  <1>2. Stays(c, "write")
    BY <1>0, <1>1, Goes DEF Pay
  <1>3. posted' = posted \cup {key}
    <2>1. key # NoKey
      BY <1>0, <1>1, KeysOfLegs DEF Legs
    <2>2. CASE Apply(key, plan)
      BY <2>1, <2>2, ApplyPosts
    <2>3. CASE IsReplay(key) /\ UNCHANGED ledgerVars
      BY <2>3 DEF IsReplay, ledgerVars
    <2> QED BY <1>0, <2>2, <2>3 DEF Pay
  <1>4. \A l, g : Paid(l, g)' <=> Paid(l, g) \/ (l = leg /\ g = h)
    BY <1>3, LegKeys DEF Paid
  <1>5. ASSUME NEW g \in Isolated, g # h PROVE TakesTurns(g)'
    <2>1. Untouched(g)
      BY <1>0, <1>1, <1>2, <1>4, <1>5, OthersUntouched
    <2> QED BY <2>1, UntouchedTurns DEF IsolatedInv
  <1>6. ASSUME h \in Isolated PROVE TakesTurns(h)'
    <2>1. TakesTurns(h)
      BY <1>6 DEF IsolatedInv
    <2>2. \A d \in Caller : On(d, h)' <=> d = c
      BY <1>0, <1>1, <1>2, <2>1, StaysAlone
    <2>3. Settling(c)'
      BY <1>0, <1>1, <1>2 DEF Stays, Settling
    <2>4. Unsettled(h)
      BY <1>0, <1>1, <2>1 DEF TakesTurns, On, Opening, Settling
    <2>5. Paid("hold", h)'
      BY <1>4, <2>4 DEF Unsettled
    <2> QED BY <2>2, <2>3, <2>5 DEF TakesTurns
  <1> QED BY <1>5, <1>6 DEF IsolatedInv

LEMMA WriteTurns ==
    ASSUME IInv, IsolatedInv, NEW c \in Caller, WriteState(c) PROVE IsolatedInv'
  <1>0. PICK h \in HireId : h = call[c].hire
    BY HireOfCall DEF WriteState
  <1> DEFINE to == Transition[call[c].action].to
  <1>1. /\ call[c].at = "write" /\ h \in HireId /\ RowsOK /\ call[c].action \in Action
        /\ state' = [state EXCEPT ![h] = IF state[h] = "none" THEN "none" ELSE to]
        /\ posted' = posted
    BY <1>0 DEF WriteState, ledgerVars, IInv, CallInv, RowsOK, CallType
  <1>2. /\ Leaves(c)
        /\ \A g \in HireId \ {h} : state'[g] = state[g]
        /\ \A leg, g : Paid(leg, g)' <=> Paid(leg, g)
    BY <1>0, <1>1, Goes DEF RowsOK, Paid, WriteState
  <1>3. ASSUME NEW g \in Isolated, g # h PROVE TakesTurns(g)'
    <2>1. Untouched(g)
      BY <1>0, <1>2, <1>3, OthersUntouched, HireAssumption
    <2> QED BY <2>1, UntouchedTurns DEF IsolatedInv
  <1>4. ASSUME h \in Isolated PROVE TakesTurns(h)'
    <2>1. TakesTurns(h)
      BY <1>4 DEF IsolatedInv
    <2>2. \A d \in Caller : ~On(d, h)'
      BY <1>0, <1>1, <1>2, <2>1, LeavesAlone
    <2>3. CASE call[c].action \in {"release", "cancel"}
      <3>1. to \in {"released", "cancelled"}
        BY <2>3 DEF Transition
      <3>2. state'[h] \in {"none", "released", "cancelled"}
        <4> HIDE DEF to
        <4> QED BY <1>0, <1>1, <3>1 DEF RowsOK
      <3> QED BY <1>2, <2>1, <2>2, <3>2 DEF TakesTurns
    <2>4. CASE call[c].action \notin {"release", "cancel"}
      <3>1. Unsettled(h)
        BY <1>0, <1>1, <2>1, <2>4 DEF TakesTurns, On, Opening, Settling
      <3>2. Unsettled(h)' /\ Paid("hold", h)'
        BY <1>2, <3>1 DEF Unsettled
      <3> QED BY <2>2, <3>2 DEF TakesTurns
    <2> QED BY <2>3, <2>4
  <1> QED BY <1>3, <1>4 DEF IsolatedInv

LEMMA DieTurns ==
    ASSUME IInv, IsolatedInv, NEW c \in Caller, Die(c) PROVE IsolatedInv'
  <1>1. /\ state' = state /\ posted' = posted /\ Leaves(c) /\ call[c].hire \notin Isolated
    BY Goes DEF Die, ledgerVars, IInv
  <1>2. ASSUME NEW g \in Isolated PROVE TakesTurns(g)'
    <2>1. Untouched(g)
      BY <1>1, <1>2, OthersUntouched DEF Paid
    <2> QED BY <2>1, UntouchedTurns DEF IsolatedInv
  <1> QED BY <1>2 DEF IsolatedInv

LEMMA InitContractInv == Init => ContractInv
  <1> SUFFICES ASSUME Init PROVE IsolatedInv
    BY InitEscrowInv DEF ContractInv
  <1>1. ASSUME NEW h \in Isolated PROVE TakesTurns(h)
    <2>1. h \in HireId
      BY HireAssumption
    <2>2. /\ state[h] = "none" /\ \A leg : ~Paid(leg, h)
          /\ \A c \in Caller : ~On(c, h)
      BY <2>1 DEF Init, Paid, On, Idle
    <2> QED BY <2>2 DEF TakesTurns
  <1> QED BY <1>1 DEF IsolatedInv

LEMMA NextContractInv == ContractInv /\ [Next]_vars => ContractInv'
  <1> SUFFICES ASSUME ContractInv, [Next]_vars PROVE IsolatedInv'
    BY NextEscrowInv DEF ContractInv
  <1>0. IInv /\ IsolatedInv
    BY DEF ContractInv, EscrowInv
  <1>1. ASSUME NEW c \in Caller, NEW buyer \in Member, NEW seller \in Member,
               NEW credits \in Credit, Open(c, buyer, seller, credits)
        PROVE  IsolatedInv'
    BY <1>0, <1>1, OpenTurns
  <1>2. ASSUME NEW c \in Caller, HoldCredits(c) PROVE IsolatedInv'
    BY <1>0, <1>2, HoldTurns
  <1>3. ASSUME NEW c \in Caller, DeleteUnfunded(c) PROVE IsolatedInv'
    BY <1>0, <1>3, UndoTurns
  <1>4. ASSUME NEW c \in Caller, NEW h \in HireId, NEW action \in Action, NEW actor \in Member,
               Act(c, h, action, actor)
        PROVE  IsolatedInv'
    BY <1>0, <1>4, ActTurns
  <1>5. ASSUME NEW c \in Caller, Release(c) PROVE IsolatedInv'
    BY <1>0, <1>5, PayTurns DEF Release
  <1>6. ASSUME NEW c \in Caller, Refund(c) PROVE IsolatedInv'
    BY <1>0, <1>6, PayTurns DEF Refund
  <1>7. ASSUME NEW c \in Caller, WriteState(c) PROVE IsolatedInv'
    BY <1>0, <1>7, WriteTurns
  <1>8. ASSUME NEW c \in Caller, Die(c) PROVE IsolatedInv'
    BY <1>0, <1>8, DieTurns
  <1>9. CASE UNCHANGED vars
    <2>1. \A g \in Isolated : Untouched(g)
      BY <1>9 DEF Untouched, vars, hireVars, Paid
    <2> QED BY <1>0, <2>1, UntouchedTurns DEF IsolatedInv
  <1> QED BY <1>1, <1>2, <1>3, <1>4, <1>5, <1>6, <1>7, <1>8, <1>9 DEF Next

-----------------------------------------------------------------------------
(* Every step of an isolated hire is one of EscrowContract's               *)

\* The refinement mapping of Contract.
AmountMap == [h \in Isolated |-> terms[h].amount]
ContractMap == [h \in Isolated |-> IF Paid("refund", h) THEN "refunded"
                                   ELSE IF Paid("release", h) THEN "released"
                                   ELSE IF Paid("hold", h) THEN "held" ELSE "none"]
Apart == HireId \ Isolated
EscrowMap == wallet[EscrowHandle] - InEscrow(Apart)

LEMMA ContractAt ==
    ASSUME NEW h \in Isolated
    PROVE  /\ ~Paid("hold", h) /\ ~Paid("release", h) /\ ~Paid("refund", h) => ContractMap[h] = "none"
           /\ Unsettled(h) => ContractMap[h] = "held"
  BY DEF ContractMap, Unsettled

LEMMA IsOffer ==
    ASSUME NEW h \in Isolated, ContractMap[h] = "none", ContractMap' = ContractMap,
           AmountMap' = [AmountMap EXCEPT ![h] = AmountMap'[h]], EscrowMap' = EscrowMap
    PROVE  Contract!Next
  <1>1. Contract!Offer(h, AmountMap'[h])
    BY DEF Contract!Offer, AmountMap, ContractMap, EscrowMap, Apart
  <1> QED BY <1>1 DEF Contract!Next, AmountMap

Moves(h, from, to, change) ==
    /\ ContractMap[h] = from /\ ContractMap' = [ContractMap EXCEPT ![h] = to]
    /\ AmountMap' = AmountMap /\ EscrowMap' = EscrowMap + change

LEMMA IsMove ==
    ASSUME NEW h \in Isolated,
           \/ Moves(h, "none", "held", AmountMap[h])
           \/ Moves(h, "held", "released", -AmountMap[h])
           \/ Moves(h, "held", "refunded", -AmountMap[h])
    PROVE  Contract!Next
  <1>1. ASSUME NEW from, NEW to, NEW change, Moves(h, from, to, change)
        PROVE  Contract!Move(h, from, to, change)
    BY <1>1 DEF Contract!Move, Moves, AmountMap, ContractMap, EscrowMap, Apart
  <1>2. AmountMap[h] = [g \in Isolated |-> terms[g].amount][h]
    BY DEF AmountMap
  <1>3. CASE Moves(h, "none", "held", AmountMap[h])
    BY <1>1, <1>2, <1>3 DEF Contract!Next
  <1>4. CASE Moves(h, "held", "released", -AmountMap[h])
    BY <1>1, <1>2, <1>4 DEF Contract!Next
  <1>5. CASE Moves(h, "held", "refunded", -AmountMap[h])
    BY <1>1, <1>2, <1>5 DEF Contract!Next
  <1> QED BY <1>3, <1>4, <1>5

LEMMA ContractKept ==
    ASSUME \A h \in Isolated, leg \in Legs : Paid(leg, h)' <=> Paid(leg, h)
    PROVE  ContractMap' = ContractMap
  <1>1. \A h \in Isolated : /\ Paid("refund", h)' <=> Paid("refund", h)
                            /\ Paid("release", h)' <=> Paid("release", h)
                            /\ Paid("hold", h)' <=> Paid("hold", h)
    BY DEF Legs
  <1> QED BY <1>1 DEF ContractMap

LEMMA OneOpened ==
    ASSUME RowsOK, [Next]_vars
    PROVE  \/ terms' = terms
           \/ \E h \in HireId : terms[h] = NoTerms /\ terms' = [terms EXCEPT ![h] = terms'[h]]
  <1>1. ASSUME NEW c \in Caller, NEW buyer \in Member, NEW seller \in Member,
               NEW credits \in Credit, Open(c, buyer, seller, credits)
        PROVE  \E h \in HireId : terms[h] = NoTerms /\ terms' = [terms EXCEPT ![h] = terms'[h]]
    <2>1. PICK h \in HireId :
             /\ terms[h] = NoTerms
             /\ terms' = [terms EXCEPT ![h] = [buyer |-> buyer, seller |-> seller, amount |-> credits]]
      BY <1>1 DEF Open, Fresh
    <2> QED BY <2>1 DEF RowsOK
  <1>2. CASE UNCHANGED vars
    BY <1>2 DEF vars, hireVars
  <1>3. ASSUME NEW c \in Caller,
               \/ HoldCredits(c) \/ DeleteUnfunded(c) \/ WriteState(c) \/ Die(c)
               \/ \E h \in HireId, action \in Action, actor \in Member : Act(c, h, action, actor)
        PROVE  terms' = terms
    BY <1>3 DEF HoldCredits, DeleteUnfunded, WriteState, Die, Act
  <1>4. ASSUME NEW c \in Caller, Release(c) \/ Refund(c) PROVE terms' = terms
    BY <1>4 DEF Release, Refund, Pay
  <1> QED BY <1>1, <1>2, <1>3, <1>4 DEF Next

LEMMA EscrowInt ==
    ASSUME EscrowInv
    PROVE  wallet[EscrowHandle] \in Int /\ EscrowMap \in Int
  <1>1. \A leg : Total(leg, HireId) \in Int /\ Total(leg, Apart) \in Int
    BY TotalInt DEF EscrowInv, IInv, Apart
  <1>2. InEscrow(HireId) \in Int /\ InEscrow(Apart) \in Int
    BY <1>1 DEF InEscrow
  <1>3. wallet[EscrowHandle] = InEscrow(HireId)
    BY DEF EscrowInv, EscrowMatchesLegs
  <1> QED BY <1>2, <1>3 DEF EscrowMap

ContractVars == <<AmountMap, ContractMap, EscrowMap>>

LEMMA RestIsContract ==
    ASSUME ContractInv, [Next]_vars, AtRest
    PROVE  Contract!Next \/ UNCHANGED ContractVars
  <1>1. RowsOK /\ LegsInv /\ wallet[EscrowHandle] \in Int
    BY EscrowInt DEF ContractInv, EscrowInv, IInv
  <1>2. EscrowMap' = EscrowMap
    <2>1. Apart \in SUBSET HireId /\ Apart' = Apart
      BY DEF Apart
    <2> QED BY <1>1, <2>1, BesidesKept DEF EscrowMap
  <1>3. ContractMap' = ContractMap
    BY ContractKept DEF AtRest, Quiet, Paid
  <1>4. CASE terms' = terms
    BY <1>2, <1>3, <1>4 DEF ContractVars, AmountMap
  <1>5. ASSUME NEW h \in HireId, terms[h] = NoTerms, terms' = [terms EXCEPT ![h] = terms'[h]]
        PROVE  Contract!Next \/ UNCHANGED ContractVars
    <2>1. \A g \in HireId \ {h} : terms'[g] = terms[g]
      BY <1>1, <1>5 DEF RowsOK
    <2>2. CASE h \notin Isolated
      <3>1. AmountMap' = AmountMap
        BY <2>1, <2>2, HireAssumption DEF AmountMap
      <3> QED BY <1>2, <1>3, <3>1 DEF ContractVars
    <2>3. CASE h \in Isolated
      <3>1. \A leg : ~Paid(leg, h)
        BY <1>1, <1>5, PaidTerms
      <3>2. ContractMap[h] = "none"
        BY <2>3, <3>1, ContractAt
      <3>3. AmountMap' = [AmountMap EXCEPT ![h] = AmountMap'[h]]
        BY <2>1, <2>3, HireAssumption DEF AmountMap
      <3> QED BY <1>2, <1>3, <2>3, <3>2, <3>3, IsOffer
    <2> QED BY <2>2, <2>3
  <1> QED BY <1>1, <1>4, <1>5, OneOpened

LEMMA PostIsContract ==
    ASSUME ContractInv, NEW c \in Caller, NEW leg \in Legs, Posting(c, leg)
    PROVE  Contract!Next \/ UNCHANGED ContractVars
  <1>1. RowsOK /\ LegsInv /\ IInv /\ wallet[EscrowHandle] \in Int /\ EscrowMap \in Int
    BY EscrowInt DEF ContractInv, EscrowInv, IInv
  <1>2. PICK h \in HireId : h = call[c].hire
    BY <1>1, HireOfCall DEF Posting
  <1>3. LegStep(leg, h) /\ call[c].at = IF leg = "hold" THEN "hold" ELSE "pay"
    BY <1>2 DEF Posting
  <1>4. \A l, g : Paid(l, g)' <=> Paid(l, g) \/ (l = leg /\ g = h)
    BY <1>3, LegKeys DEF LegStep, Posts, Paid
  <1>5. terms' = terms /\ AmountMap' = AmountMap /\ ~Paid(leg, h)
    BY <1>3 DEF LegStep, Posts, AmountMap
  <1>6. Apart \in SUBSET HireId /\ Apart' = Apart
    BY DEF Apart
  <1>7. CASE h \notin Isolated
    <2>1. ContractMap' = ContractMap
      BY <1>4, <1>7, ContractKept
    <2>2. EscrowMap' = EscrowMap
      <3>1. h \in Apart
        BY <1>7 DEF Apart
      <3> QED BY <1>1, <1>3, <1>6, <3>1, BesidesKept DEF EscrowMap
    <2> QED BY <1>5, <2>1, <2>2 DEF ContractVars
  <1>8. CASE h \in Isolated
    <2>1. TakesTurns(h) /\ On(c, h)
      BY <1>2, <1>3, <1>8 DEF ContractInv, IsolatedInv, On
    <2>2. EscrowMap' = EscrowMap + Into(leg, h)
      <3>1. h \notin Apart
        BY <1>8 DEF Apart
      <3>2. InEscrow(Apart)' = InEscrow(Apart) + 0
        BY <1>1, <1>3, <1>6, <3>1, PostsEscrow DEF LegStep, Legs
      <3>3. InEscrow(Apart) \in Int
        <4>1. \A l : Total(l, Apart) \in Int
          BY <1>1, <1>6, TotalInt
        <4> QED BY <4>1 DEF InEscrow
      <3>4. wallet'[EscrowHandle] = wallet[EscrowHandle] + Into(leg, h)
        BY <1>3 DEF LegStep
      <3>5. Into(leg, h) \in Int
        BY <1>1, Amounts DEF Into
      <3>6. EscrowMap' = wallet'[EscrowHandle] - InEscrow(Apart)'
        BY <1>6 DEF EscrowMap
      <3> QED BY <1>1, <3>2, <3>3, <3>4, <3>5, <3>6 DEF EscrowMap
    <2>3. Into(leg, h) = IF leg = "hold" THEN AmountMap[h] ELSE -AmountMap[h]
      BY <1>8 DEF Into, AmountMap
    <2>4. ASSUME NEW g \in Isolated, g # h PROVE ContractMap'[g] = ContractMap[g]
      BY <1>4, <2>4 DEF ContractMap
    <2>5. ASSUME NEW to, ContractMap'[h] = to PROVE ContractMap' = [ContractMap EXCEPT ![h] = to]
      <3>1. /\ ContractMap = [g \in Isolated |-> ContractMap[g]]
            /\ ContractMap' = [g \in Isolated |-> ContractMap'[g]]
        BY DEF ContractMap
      <3> QED BY <1>8, <2>4, <2>5, <3>1
    <2>6. CASE leg = "hold"
      <3>1. ~Paid("hold", h) /\ ~Paid("release", h) /\ ~Paid("refund", h)
        BY <1>5, <2>1, <2>6 DEF TakesTurns
      <3>2. ContractMap[h] = "none" /\ ContractMap'[h] = "held"
        BY <1>4, <1>8, <2>6, <3>1 DEF ContractMap
      <3>3. Moves(h, "none", "held", AmountMap[h])
        BY <1>5, <2>2, <2>3, <2>5, <2>6, <3>2 DEF Moves
      <3> QED BY <1>8, <3>3, IsMove
    <2>7. CASE leg # "hold"
      <3>1. Unsettled(h)
        BY <1>3, <2>1, <2>7 DEF TakesTurns, Opening, Settling
      <3>2. ContractMap[h] = "held"
        BY <1>8, <3>1, ContractAt
      <3>3. CASE leg = "release"
        <4>1. ContractMap'[h] = "released"
          BY <1>4, <1>8, <3>1, <3>3 DEF ContractMap, Unsettled
        <4>2. Moves(h, "held", "released", -AmountMap[h])
          BY <1>5, <2>2, <2>3, <2>5, <3>2, <3>3, <4>1 DEF Moves
        <4> QED BY <1>8, <4>2, IsMove
      <3>4. CASE leg = "refund"
        <4>1. ContractMap'[h] = "refunded"
          BY <1>4, <1>8, <3>1, <3>4 DEF ContractMap, Unsettled
        <4>2. Moves(h, "held", "refunded", -AmountMap[h])
          BY <1>5, <2>2, <2>3, <2>5, <3>2, <3>4, <4>1 DEF Moves
        <4> QED BY <1>8, <4>2, IsMove
      <3> QED BY <2>7, <3>3, <3>4 DEF Legs
    <2> QED BY <2>6, <2>7
  <1> QED BY <1>7, <1>8

LEMMA InitIsContract == Init => Contract!Init
  <1> SUFFICES ASSUME Init PROVE Contract!Init
    OBVIOUS
  <1>1. \A leg, h : ~Paid(leg, h)
    BY DEF Init, Paid
  <1>2. AmountMap = [h \in Isolated |-> 0]
    BY HireAssumption DEF Init, AmountMap, NoTerms
  <1>3. ContractMap = [h \in Isolated |-> "none"]
    BY <1>1 DEF ContractMap
  <1>4. EscrowMap = 0
    <2>1. \A leg : Total(leg, Apart) = 0
      <3> SUFFICES ASSUME NEW leg PROVE Total(leg, Apart) = 0
        OBVIOUS
      <3>1. {h \in Apart : Paid(leg, h)} = {}
        BY <1>1
      <3>2. Sums(terms, {h \in Apart : Paid(leg, h)}) = 0
        BY <3>1, SumsEmpty
      <3> QED BY <3>2, TotalIs
    <2>2. wallet[EscrowHandle] = 0
      BY PlansAssumption DEF Init, Handle, System, EscrowHandle, Issued
    <2> QED BY <2>1, <2>2 DEF EscrowMap, InEscrow
  <1> QED BY <1>2, <1>3, <1>4 DEF Contract!Init, AmountMap, ContractMap, EscrowMap, Apart

LEMMA NextIsContract ==
    ContractInv /\ [Next]_vars => [Contract!Next]_ContractVars
  <1> SUFFICES ASSUME ContractInv, [Next]_vars PROVE Contract!Next \/ UNCHANGED ContractVars
    OBVIOUS
  <1>1. IInv
    BY DEF ContractInv, EscrowInv
  <1> QED BY <1>1, EveryStep, RestIsContract, PostIsContract

-----------------------------------------------------------------------------
(* Every balance stays an integer                                          *)

LEMMA EffectInt ==
    ASSUME NEW es \in Seq(EntryType), NEW w PROVE Effect(es, w) \in Int
  <1>1. ASSUME NEW i \in 1..Len(es) PROVE es[i].delta \in Int
    <2>1. es[i] \in EntryType
      OBVIOUS
    <2> QED BY <2>1 DEF EntryType
  <1>2. \A i \in 1..5 : Amount(es, i, w) \in Int
    BY <1>1 DEF Amount
  <1> QED BY <1>2 DEF Effect, UpTo, MaxEntries

LEMMA RoundedInt == ASSUME NEW n \in Int, NEW pct \in Nat PROVE Rounded(n, pct) \in Int
  <1>1. \A x \in Int : x \div 100 \in Int /\ x % 100 \in 0..99
    OBVIOUS
  <1>2. n * pct \in Int
    OBVIOUS
  <1>3. (n * pct) \div 100 \in Int
    BY <1>1, <1>2
  <1> QED BY <1>3 DEF Rounded

LEMMA SplitInt ==
    ASSUME NEW n \in Int, NEW l1, NEW l2
    PROVE  LET s == Split(n, l1, l2, 0)
           IN  s.fee \in Int /\ s.l1 \in Int /\ s.l2 \in Int /\ s.lpKeep \in Int
  <1> DEFINE fee == Rounded(n, FeePct)
  <1>1. FeePct \in Nat /\ L1Pct \in Nat /\ L2Pct \in Nat
    BY PlansAssumption
  <1>2. fee \in Int
    BY <1>1, RoundedInt
  <1> HIDE DEF fee
  <1>3. fee - 0 = fee /\ Rounded(fee, L1Pct) \in Int /\ Rounded(fee, L2Pct) \in Int
    BY <1>1, <1>2, RoundedInt
  <1>4. Split(n, l1, l2, 0) =
          [fee |-> fee,
           l1 |-> IF l1 # NoHandle THEN Rounded(fee, L1Pct) ELSE 0,
           l2 |-> IF l2 # NoHandle THEN Rounded(fee, L2Pct) ELSE 0,
           lpKeep |-> fee - (IF l1 # NoHandle THEN Rounded(fee, L1Pct) ELSE 0)
                          - (IF l2 # NoHandle THEN Rounded(fee, L2Pct) ELSE 0)]
    BY <1>3 DEF Split, fee
  <1> QED BY <1>2, <1>3, <1>4

LEMMA AffiliateNumbered ==
    ASSUME NEW l \in Member \cup {NoHandle}, NEW cut \in Int
    PROVE  Affiliate(l, cut) \in Seq(EntryType)
  <1>1. l # NoHandle => Entry(l, cut) \in EntryType
    BY DEF Entry, EntryType, Handle
  <1>2. (l # NoHandle => <<Entry(l, cut)>> \in Seq(EntryType)) /\ <<>> \in Seq(EntryType)
    BY <1>1
  <1> QED BY <1>2 DEF Affiliate

LEMMA PlansNumbered ==
    ASSUME RowsOK, NEW h \in HireId, terms[h] # NoTerms
    PROVE  /\ HoldPlan(terms[h].buyer, terms[h].amount) \in Seq(EntryType)
           /\ RefundPlan(terms[h].buyer, terms[h].amount) \in Seq(EntryType)
           /\ ReleaseTo(h) \in Seq(EntryType)
  <1>1. PICK n \in Int, b \in Member, m \in Member :
            n = terms[h].amount /\ b = terms[h].buyer /\ m = terms[h].seller
    BY Opened
  <1>2. EscrowHandle \in Handle /\ LpFees \in Handle /\ Member \subseteq Handle
    BY DEF Handle, System
  <1>3. \A x \in Handle, d \in Int : Entry(x, d) \in EntryType
    BY DEF Entry, EntryType
  <1>4. HoldPlan(b, n) \in Seq(EntryType) /\ RefundPlan(b, n) \in Seq(EntryType)
    BY <1>2, <1>3 DEF HoldPlan, RefundPlan
  <1>5. PICK l1 \in Member \cup {NoHandle}, l2 \in Member \cup {NoHandle} :
            l1 = AffiliateChain(m, ReferredBy)[1] /\ l2 = AffiliateChain(m, ReferredBy)[2]
    BY ChainInRange
  <1>6. ReleasePlan(m, n, l1, l2, 0) \in Seq(EntryType)
    <2> DEFINE s == Split(n, l1, l2, 0)
               base == <<Entry(EscrowHandle, -n), Entry(m, n - s.fee), Entry(LpFees, s.lpKeep)>>
    <2>1. s.fee \in Int /\ s.l1 \in Int /\ s.l2 \in Int /\ s.lpKeep \in Int
      BY SplitInt
    <2> HIDE DEF s
    <2>2. base \in Seq(EntryType)
      BY <1>2, <1>3, <2>1
    <2>3. Affiliate(l1, s.l1) \in Seq(EntryType) /\ Affiliate(l2, s.l2) \in Seq(EntryType)
      BY <2>1, AffiliateNumbered
    <2> HIDE DEF base
    <2>4. base \o Affiliate(l1, s.l1) \o Affiliate(l2, s.l2) \in Seq(EntryType)
      BY <2>2, <2>3
    <2> QED BY <2>4 DEF ReleasePlan, Sale, s, base
  <1> QED BY <1>1, <1>4, <1>5, <1>6 DEF ReleaseTo

WalletOK == wallet \in [Handle -> Int]

LEMMA ApplyWallet ==
    ASSUME WalletOK, NEW key, NEW es \in Seq(EntryType), Apply(key, es)
    PROVE  WalletOK'
  <1>1. \A w : Effect(es, w) \in Int
    BY EffectInt
  <1> QED BY <1>1 DEF WalletOK, Apply

\* Every step posts one plan to the ledger or leaves it alone.
LEMMA LedgerSteps ==
    ASSUME IInv, [Next]_vars
    PROVE  UNCHANGED ledgerVars \/ \E key, es : es \in Seq(EntryType) /\ Apply(key, es)
  <1>1. ASSUME NEW c \in Caller, HoldCredits(c) \/ Release(c) \/ Refund(c)
        PROVE  UNCHANGED ledgerVars \/ \E key, es : es \in Seq(EntryType) /\ Apply(key, es)
    <2>1. PICK h \in HireId : h = call[c].hire
      BY <1>1, HireOfCall DEF HoldCredits, Release, Refund, Pay
    <2>2. RowsOK /\ terms[h] # NoTerms
      BY <1>1, <2>1 DEF IInv, CallInv, HoldCredits, Release, Refund, Pay
    <2>3. \/ UNCHANGED ledgerVars
          \/ Apply(LegKey("hold", h), HoldPlan(terms[h].buyer, terms[h].amount))
          \/ Apply(LegKey("release", h), ReleaseTo(h))
          \/ Apply(LegKey("refund", h), RefundPlan(terms[h].buyer, terms[h].amount))
      BY <1>1, <2>1 DEF HoldCredits, Release, Refund, Pay
    <2> QED BY <2>2, <2>3, PlansNumbered
  <1>2. ASSUME NEW c \in Caller, NEW buyer, NEW seller, NEW credits, Open(c, buyer, seller, credits)
        PROVE  UNCHANGED ledgerVars
    BY <1>2 DEF Open
  <1>3. ASSUME NEW c \in Caller,
               \/ DeleteUnfunded(c) \/ WriteState(c) \/ Die(c)
               \/ \E h \in HireId, action \in Action, actor \in Member : Act(c, h, action, actor)
        PROVE  UNCHANGED ledgerVars
    BY <1>3 DEF DeleteUnfunded, WriteState, Die, Act
  <1>4. CASE UNCHANGED vars
    BY <1>4 DEF vars, ledgerVars
  <1> QED BY <1>1, <1>2, <1>3, <1>4 DEF Next

LEMMA NextWallet == IInv /\ WalletOK /\ [Next]_vars => WalletOK'
  <1> SUFFICES ASSUME IInv, WalletOK, [Next]_vars PROVE WalletOK'
    OBVIOUS
  <1>1. CASE UNCHANGED ledgerVars
    BY <1>1 DEF WalletOK, ledgerVars
  <1> QED BY <1>1, LedgerSteps, ApplyWallet

LEMMA InitWallet == Init => WalletOK
  <1> SUFFICES ASSUME Init PROVE WalletOK
    OBVIOUS
  <1>1. Funds \in Int /\ Cardinality(Member) \in Int
    BY HireAssumption, FS_CardinalityType
  <1>2. PICK n \in Int : n = -(Funds * Cardinality(Member))
    BY <1>1
  <1>3. \A w \in Handle : wallet[w] \in Int
    BY <1>1, <1>2, PlansAssumption DEF Init, System
  <1> QED BY <1>3 DEF Init, WalletOK

-----------------------------------------------------------------------------
(* Conservation: a balanced post leaves the sum of all wallets as it was   *)

LEMMA SumsConst ==
    ASSUME NEW t, NEW S, IsFiniteSet(S), NEW n \in Int, \A x \in S : t[x].amount = n
    PROVE  Sums(t, S) = n * Cardinality(S)
  <1> DEFINE Good == {U \in SUBSET S : Sums(t, U) = n * Cardinality(U)}
  <1>1. ASSUME NEW U \in SUBSET S, \A V \in SUBSET U : V # U => V \in Good PROVE U \in Good
    <2>1. CASE U = {}
      BY <2>1, SumsEmpty, FS_EmptySet
    <2>2. CASE U # {}
      <3>1. PICK x \in U : TRUE
        BY <2>2
      <3>2. PICK V : V = U \ {x}
        OBVIOUS
      <3>3. /\ V \in Good /\ x \notin V /\ U = V \cup {x}
            /\ IsFiniteSet(V) /\ Cardinality(V) \in Nat
        BY <1>1, <3>1, <3>2, FS_Subset, FS_CardinalityType
      <3>4. Sums(t, V \cup {x}) = Sums(t, V) + t[x].amount
        BY <3>3, SumsAdd
      <3>5. Cardinality(V \cup {x}) = Cardinality(V) + 1
        BY <3>3, FS_AddElement
      <3>6. n * (Cardinality(V) + 1) = n * Cardinality(V) + n
        BY <3>3
      <3> QED BY <3>1, <3>3, <3>4, <3>5, <3>6
    <2> QED BY <2>1, <2>2
  <1> HIDE DEF Good
  <1>2. S \in Good
    BY <1>1, SubsetInduction
  <1> QED BY <1>2 DEF Good

LEMMA SumsPlus ==
    ASSUME NEW t, NEW u, NEW v, NEW S, IsFiniteSet(S),
           \A x \in S : /\ t[x].amount \in Int /\ u[x].amount \in Int
                        /\ v[x].amount = t[x].amount + u[x].amount
    PROVE  Sums(v, S) = Sums(t, S) + Sums(u, S)
  <1> DEFINE Good == {U \in SUBSET S : Sums(v, U) = Sums(t, U) + Sums(u, U)}
  <1>1. ASSUME NEW U \in SUBSET S, \A V \in SUBSET U : V # U => V \in Good PROVE U \in Good
    <2>1. CASE U = {}
      BY <2>1, SumsEmpty
    <2>2. CASE U # {}
      <3>1. PICK x \in U : TRUE
        BY <2>2
      <3>2. PICK V : V = U \ {x}
        OBVIOUS
      <3>3. V \in Good /\ x \notin V /\ U = V \cup {x} /\ IsFiniteSet(V)
        BY <1>1, <3>1, <3>2, FS_Subset
      <3>4. \A y \in V \cup {x} : /\ t[y].amount \in Int /\ u[y].amount \in Int
                                  /\ v[y].amount = t[y].amount + u[y].amount
        BY <3>3
      <3> HIDE DEF Good
      <3>5. /\ Sums(t, V \cup {x}) = Sums(t, V) + t[x].amount
            /\ Sums(u, V \cup {x}) = Sums(u, V) + u[x].amount
            /\ Sums(v, V \cup {x}) = Sums(v, V) + v[x].amount
        BY <3>3, <3>4, SumsAdd
      <3>6. Sums(t, V) \in Int /\ Sums(u, V) \in Int
        BY <3>3, <3>4, SumsInt
      <3>7. Sums(v, V) = Sums(t, V) + Sums(u, V)
        BY <3>3 DEF Good
      <3>8. Sums(v, U) = Sums(t, U) + Sums(u, U)
        BY <3>3, <3>4, <3>5, <3>6, <3>7
      <3> QED BY <3>8 DEF Good
    <2> QED BY <2>1, <2>2
  <1> HIDE DEF Good
  <1>2. S \in Good
    BY <1>1, SubsetInduction
  <1> QED BY <1>2 DEF Good

\* All terms but that of p are 0.
LEMMA SumsPoint ==
    ASSUME NEW t, NEW S, IsFiniteSet(S), NEW p \in S, NEW d \in Int,
           \A x \in S : t[x].amount = IF x = p THEN d ELSE 0
    PROVE  Sums(t, S) = d
  <1>1. PICK V : V = S \ {p}
    OBVIOUS
  <1>2. IsFiniteSet(V) /\ Cardinality(V) \in Nat /\ p \notin V /\ S = V \cup {p}
    BY <1>1, FS_Subset, FS_CardinalityType
  <1>3. Sums(t, V) = 0 * Cardinality(V)
    <2>1. \A x \in V : t[x].amount = 0
      BY <1>1
    <2> QED BY <1>2, <2>1, SumsConst
  <1>4. Sums(t, V \cup {p}) = Sums(t, V) + t[p].amount
    BY <1>2, SumsAdd
  <1> QED BY <1>2, <1>3, <1>4

\* The terms of a sum of wallets, of a map from handles to integers.
Terms(f) == [h \in Handle |-> [amount |-> f[h]]]
AllOf(f) == Sums(Terms(f), Handle)

LEMMA HandlesFinite == IsFiniteSet(Handle)
  <1>1. IsFiniteSet(System)
    <2>1. IsFiniteSet({LpFees}) /\ IsFiniteSet({Issued}) /\ IsFiniteSet({EscrowHandle})
      BY FS_Singleton
    <2>2. System = ({LpFees} \cup {Issued}) \cup {EscrowHandle}
      BY DEF System
    <2>3. IsFiniteSet({LpFees} \cup {Issued})
      BY <2>1, FS_Union
    <2> QED BY <2>1, <2>2, <2>3, FS_Union
  <1> QED BY <1>1, HireAssumption, FS_Union DEF Handle

\* The sum over f in the way MapThenSumSet makes it adds these terms.
LEMMA AllOfIs ==
    ASSUME NEW f
    PROVE  AllOf(f) = LET iter[s \in SUBSET Handle] ==
                            IF s = {} THEN 0
                            ELSE LET x == CHOOSE x \in s : TRUE IN f[x] + iter[s \ {x}]
                      IN  iter[Handle]
  <1> DEFINE Body(g) == [s \in SUBSET Handle |->
                           IF s = {} THEN 0 ELSE f[First(s)] + g[s \ {First(s)}]]
             iter == CHOOSE g : g = Body(g)
  <1>1. ASSUME NEW g PROVE g = Body(g) <=> IsSum(g, Terms(f), SUBSET Handle)
    <2>1. \A s \in SUBSET Handle : s # {} => Terms(f)[First(s)].amount = f[First(s)]
      BY FirstIn DEF Terms
    <2>2. Body(g) = [s \in SUBSET Handle |->
                      IF s = {} THEN 0 ELSE Terms(f)[First(s)].amount + g[s \ {First(s)}]]
      BY <2>1
    <2> QED BY <2>2 DEF IsSum
  <1>2. PICK g : IsSum(g, Terms(f), SUBSET Handle) /\ AllOf(f) = g[Handle]
    BY HandlesFinite, SumsIs DEF AllOf
  <1>3. iter = Body(iter)
    <2>1. g = Body(g)
      BY <1>1, <1>2
    <2> HIDE DEF Body
    <2> QED BY <2>1
  <1>4. iter[Handle] = LET it[s \in SUBSET Handle] ==
                             IF s = {} THEN 0
                             ELSE LET x == CHOOSE x \in s : TRUE IN f[x] + it[s \ {x}]
                       IN  it[Handle]
    BY DEF First
  <1> HIDE DEF iter
  <1>5. IsSum(iter, Terms(f), SUBSET Handle)
    BY <1>1, <1>3
  <1>6. Agree(iter, Terms(f), Handle, g, Terms(f), Handle, Handle)
    BY <1>2, <1>5, HandlesFinite DEF Agree
  <1>7. iter[Handle] = g[Handle]
    BY <1>6, SumAgree
  <1> QED BY <1>2, <1>4, <1>7

LEMMA ConservedIs == /\ CreditsConserved <=> AllOf(wallet) = 0
                     /\ CreditsConserved' <=> AllOf(wallet') = 0
  <1>1. CreditsConserved <=> AllOf(wallet) = 0
    BY AllOfIs DEF CreditsConserved, MapThenSumSet, MapThenFoldSet
  <1>2. CreditsConserved' <=> AllOf(wallet') = 0
    BY AllOfIs DEF CreditsConserved, MapThenSumSet, MapThenFoldSet
  <1> QED BY <1>1, <1>2

\* The amounts at place i of the entries, by wallet, add up to the entry's.
Column(es, i) == [h \in Handle |-> Amount(es, i, h)]
Delta(es, i) == IF i \in 1..Len(es) THEN es[i].delta ELSE 0

LEMMA ColumnSum ==
    ASSUME NEW es \in Seq(EntryType), NEW i \in 1..5
    PROVE  /\ AllOf(Column(es, i)) = Delta(es, i)
           /\ Delta(es, i) \in Int
           /\ \A h \in Handle : Amount(es, i, h) \in Int
  <1>1. ASSUME i \in 1..Len(es) PROVE es[i].handle \in Handle /\ es[i].delta \in Int
    <2>1. es[i] \in EntryType
      BY <1>1
    <2> QED BY <2>1 DEF EntryType
  <1>2. \A h \in Handle : Terms(Column(es, i))[h].amount = Amount(es, i, h)
    BY DEF Terms, Column
  <1>3. CASE i \in 1..Len(es)
    <2>1. /\ es[i].handle \in Handle /\ es[i].delta \in Int
          /\ \A h \in Handle : Terms(Column(es, i))[h].amount = IF h = es[i].handle THEN es[i].delta ELSE 0
      BY <1>1, <1>2, <1>3 DEF Amount
    <2>2. Sums(Terms(Column(es, i)), Handle) = es[i].delta
      BY <2>1, HandlesFinite, SumsPoint
    <2> QED BY <1>3, <2>1, <2>2 DEF AllOf, Delta, Amount
  <1>4. CASE i \notin 1..Len(es)
    <2>1. \A h \in Handle : Terms(Column(es, i))[h].amount = 0
      BY <1>2, <1>4 DEF Amount
    <2>2. Sums(Terms(Column(es, i)), Handle) = 0 * Cardinality(Handle)
      BY <2>1, HandlesFinite, SumsConst
    <2>3. Cardinality(Handle) \in Nat
      BY HandlesFinite, FS_CardinalityType
    <2> QED BY <1>4, <2>2, <2>3 DEF AllOf, Delta, Amount
  <1> QED BY <1>3, <1>4

LEMMA AllPlus ==
    ASSUME NEW f \in [Handle -> Int], NEW d \in [Handle -> Int], NEW g \in [Handle -> Int],
           \A h \in Handle : g[h] = f[h] + d[h]
    PROVE  AllOf(g) = AllOf(f) + AllOf(d) /\ AllOf(f) \in Int
  <1>1. \A h \in Handle : /\ Terms(f)[h].amount = f[h] /\ f[h] \in Int
                          /\ Terms(d)[h].amount = d[h] /\ d[h] \in Int
                          /\ Terms(g)[h].amount = g[h]
    BY DEF Terms
  <1>2. \A h \in Handle : /\ Terms(f)[h].amount \in Int /\ Terms(d)[h].amount \in Int
                          /\ Terms(g)[h].amount = Terms(f)[h].amount + Terms(d)[h].amount
    BY <1>1
  <1>3. Sums(Terms(g), Handle) = Sums(Terms(f), Handle) + Sums(Terms(d), Handle)
    BY <1>2, HandlesFinite, SumsPlus
  <1>4. Sums(Terms(f), Handle) \in Int
    BY <1>2, HandlesFinite, SumsInt
  <1> QED BY <1>3, <1>4 DEF AllOf

\* The column is added to f.
Plus(f, es, i) == [h \in Handle |-> f[h] + Amount(es, i, h)]

LEMMA PlusColumn ==
    ASSUME NEW f \in [Handle -> Int], NEW es \in Seq(EntryType), NEW i \in 1..5
    PROVE  /\ Plus(f, es, i) \in [Handle -> Int]
           /\ AllOf(Plus(f, es, i)) = AllOf(f) + Delta(es, i)
           /\ AllOf(f) \in Int
  <1>1. /\ AllOf(Column(es, i)) = Delta(es, i)
        /\ \A h \in Handle : Amount(es, i, h) \in Int
    BY ColumnSum
  <1>2. /\ Plus(f, es, i) \in [Handle -> Int] /\ Column(es, i) \in [Handle -> Int]
        /\ \A h \in Handle : Plus(f, es, i)[h] = f[h] + Column(es, i)[h]
    BY <1>1 DEF Plus, Column
  <1>3. AllOf(Plus(f, es, i)) = AllOf(f) + AllOf(Column(es, i)) /\ AllOf(f) \in Int
    BY <1>2, AllPlus
  <1> QED BY <1>1, <1>2, <1>3

LEMMA EffectSum ==
    ASSUME NEW f \in [Handle -> Int], NEW es \in Seq(EntryType), Balanced(es)
    PROVE  AllOf([h \in Handle |-> f[h] + Effect(es, h)]) = AllOf(f)
  <1>1. PICK f1 : f1 = Plus(f, es, 1)
    OBVIOUS
  <1>2. f1 \in [Handle -> Int] /\ AllOf(f1) = AllOf(f) + Delta(es, 1) /\ AllOf(f) \in Int
    BY <1>1, PlusColumn
  <1>3. PICK f2 : f2 = Plus(f1, es, 2)
    OBVIOUS
  <1>4. f2 \in [Handle -> Int] /\ AllOf(f2) = AllOf(f1) + Delta(es, 2)
    BY <1>2, <1>3, PlusColumn, SMTT(20)
  <1>5. PICK f3 : f3 = Plus(f2, es, 3)
    OBVIOUS
  <1>6. f3 \in [Handle -> Int] /\ AllOf(f3) = AllOf(f2) + Delta(es, 3)
    BY <1>4, <1>5, PlusColumn, SMTT(20)
  <1>7. PICK f4 : f4 = Plus(f3, es, 4)
    OBVIOUS
  <1>8. f4 \in [Handle -> Int] /\ AllOf(f4) = AllOf(f3) + Delta(es, 4)
    BY <1>6, <1>7, PlusColumn, SMTT(20)
  <1>9. PICK f5 : f5 = Plus(f4, es, 5)
    OBVIOUS
  <1>10. f5 \in [Handle -> Int] /\ AllOf(f5) = AllOf(f4) + Delta(es, 5)
    BY <1>8, <1>9, PlusColumn, SMTT(20)
  <1>11. /\ Delta(es, 1) \in Int /\ Delta(es, 2) \in Int /\ Delta(es, 3) \in Int
         /\ Delta(es, 4) \in Int /\ Delta(es, 5) \in Int
         /\ Delta(es, 1) + Delta(es, 2) + Delta(es, 3) + Delta(es, 4) + Delta(es, 5) = 0
    <2>1. /\ Delta(es, 1) \in Int /\ Delta(es, 2) \in Int /\ Delta(es, 3) \in Int
          /\ Delta(es, 4) \in Int /\ Delta(es, 5) \in Int
      BY ColumnSum
    <2>2. Delta(es, 1) + Delta(es, 2) + Delta(es, 3) + Delta(es, 4) + Delta(es, 5) = 0
      BY DEF Balanced, Net, Delta
    <2> QED BY <2>1, <2>2
  <1>12. AllOf(f5) = AllOf(f)
    <2>1. AllOf(f5) = AllOf(f) + Delta(es, 1) + Delta(es, 2) + Delta(es, 3) + Delta(es, 4) + Delta(es, 5)
      BY <1>2, <1>4, <1>6, <1>8, <1>10
    <2>2. PICK a \in Int, d1 \in Int, d2 \in Int, d3 \in Int, d4 \in Int, d5 \in Int :
               /\ a = AllOf(f) /\ d1 = Delta(es, 1) /\ d2 = Delta(es, 2) /\ d3 = Delta(es, 3)
               /\ d4 = Delta(es, 4) /\ d5 = Delta(es, 5)
      BY <1>2, <1>11
    <2>3. a + d1 + d2 + d3 + d4 + d5 = a
      <3>1. d1 + d2 + d3 + d4 + d5 = 0
        BY <1>11, <2>2
      <3> QED BY <3>1
    <2> QED BY <2>1, <2>2, <2>3
  <1>13. ASSUME NEW h \in Handle PROVE f5[h] = f[h] + Effect(es, h)
    <2>1. /\ Amount(es, 1, h) \in Int /\ Amount(es, 2, h) \in Int /\ Amount(es, 3, h) \in Int
          /\ Amount(es, 4, h) \in Int /\ Amount(es, 5, h) \in Int /\ f[h] \in Int
      BY ColumnSum
    <2>2. Effect(es, h) = Amount(es, 1, h) + Amount(es, 2, h) + Amount(es, 3, h)
                            + Amount(es, 4, h) + Amount(es, 5, h)
      BY DEF Effect, UpTo, MaxEntries
    <2>3. f5[h] = f[h] + Amount(es, 1, h) + Amount(es, 2, h) + Amount(es, 3, h)
                    + Amount(es, 4, h) + Amount(es, 5, h)
      BY <1>1, <1>3, <1>5, <1>7, <1>9 DEF Plus
    <2> QED BY <2>1, <2>2, <2>3
  <1>14. f5 = [h \in Handle |-> f[h] + Effect(es, h)]
    BY <1>10, <1>13
  <1> QED BY <1>12, <1>14

LEMMA ApplyConserves ==
    ASSUME WalletOK, NEW key, NEW es \in Seq(EntryType), Apply(key, es)
    PROVE  AllOf(wallet') = AllOf(wallet)
  <1>1. PICK f \in [Handle -> Int] : f = wallet
    BY DEF WalletOK
  <1>2. wallet' = [h \in Handle |-> f[h] + Effect(es, h)] /\ Balanced(es)
    BY <1>1 DEF Apply
  <1> QED BY <1>1, <1>2, EffectSum

LEMMA NextConserves ==
    IInv /\ WalletOK /\ CreditsConserved /\ [Next]_vars => CreditsConserved'
  <1> SUFFICES ASSUME IInv, WalletOK, AllOf(wallet) = 0, [Next]_vars PROVE AllOf(wallet') = 0
    BY ConservedIs
  <1>1. CASE UNCHANGED ledgerVars
    BY <1>1 DEF ledgerVars
  <1> QED BY <1>1, LedgerSteps, ApplyConserves

\* What members have topped up is what was issued.
LEMMA InitConserves == Init => CreditsConserved
  <1> SUFFICES ASSUME Init PROVE AllOf(wallet) = 0
    BY ConservedIs
  <1> DEFINE t == Terms(wallet)
             paid == Member \cup {LpFees}
  <1>1. PICK n \in Int, k \in Nat : n = Funds /\ k = Cardinality(Member)
    BY HireAssumption, FS_CardinalityType
  <1>2. /\ LpFees \notin Member /\ Issued \notin paid /\ EscrowHandle \notin paid \cup {Issued}
        /\ Handle = (paid \cup {Issued}) \cup {EscrowHandle}
        /\ IsFiniteSet(Member) /\ IsFiniteSet(paid) /\ IsFiniteSet(paid \cup {Issued})
    <2>1. LpFees \notin Member /\ Issued \notin Member /\ EscrowHandle \notin Member
      BY PlansAssumption DEF System
    <2>2. IsFiniteSet(Member) /\ IsFiniteSet(paid)
      BY HireAssumption, FS_AddElement
    <2>3. IsFiniteSet(paid \cup {Issued})
      BY <2>2, FS_AddElement
    <2> QED BY <2>1, <2>2, <2>3 DEF Handle, System, LpFees, Issued, EscrowHandle
  <1>3. /\ \A m \in Member : t[m].amount = n
        /\ t[LpFees].amount = 0 /\ t[Issued].amount = -(n * k) /\ t[EscrowHandle].amount = 0
    BY <1>1, PlansAssumption DEF Init, Terms, Handle, System, LpFees, Issued, EscrowHandle
  <1>4. n * k \in Int
    OBVIOUS
  <1>5. \A h \in Handle : t[h].amount \in Int
    BY <1>1, <1>3, <1>4 DEF Handle, System
  <1> HIDE DEF t
  <1>6. Sums(t, Member) = n * k
    BY <1>1, <1>2, <1>3, SumsConst
  <1>7. Sums(t, paid) = Sums(t, Member) + 0
    <2>1. \A h \in Member \cup {LpFees} : t[h].amount \in Int
      BY <1>2, <1>5
    <2> QED BY <1>2, <1>3, <2>1, SumsAdd
  <1> HIDE DEF paid
  <1>8. Sums(t, paid \cup {Issued}) = Sums(t, paid) + (-(n * k))
    <2>1. \A h \in paid \cup {Issued} : t[h].amount \in Int
      BY <1>2, <1>5
    <2> QED BY <1>2, <1>3, <2>1, SumsAdd
  <1>9. Sums(t, Handle) = Sums(t, paid \cup {Issued}) + 0
    <2>1. PICK S : S = paid \cup {Issued}
      OBVIOUS
    <2>2. Handle = S \cup {EscrowHandle} /\ EscrowHandle \notin S /\ IsFiniteSet(S)
      BY <1>2, <2>1
    <2>3. \A h \in S \cup {EscrowHandle} : t[h].amount \in Int
      BY <1>5, <2>2
    <2>4. Sums(t, S \cup {EscrowHandle}) = Sums(t, S) + t[EscrowHandle].amount
      BY <2>2, <2>3, SumsAdd
    <2> QED BY <1>3, <2>1, <2>2, <2>4
  <1>10. Sums(t, Handle) = 0
    BY <1>4, <1>6, <1>7, <1>8, <1>9
  <1> QED BY <1>10 DEF AllOf, t

-----------------------------------------------------------------------------
(* The theorems                                                            *)

THEOREM Invariance == Spec => []IInv
  BY InitIInv, NextIInv, PTL DEF Spec

\* The balances, the rows and the calls have their types.
THEOREM HireTypes == Spec => []TypeOK
  <1>1. EscrowInv /\ WalletOK => TypeOK
    BY DEF EscrowInv, IInv, RowsOK, LegsInv, WalletOK, TypeOK
  <1>2. EscrowInv => IInv
    BY DEF EscrowInv
  <1> QED BY <1>1, <1>2, InitEscrowInv, NextEscrowInv, InitWallet, NextWallet, PTL DEF Spec

\* A hire shown as released has been paid out, one shown as cancelled refunded.
THEOREM SettledIsPaid == Spec => []SettledStatesArePaid
  <1>1. IInv => SettledStatesArePaid
    BY DEF IInv
  <1> QED BY <1>1, Invariance, PTL

\* The undo of open_hire never leaves a hold without its row.
THEOREM UndoIsSafe == Spec => []NoHoldWithoutHire
  <1>1. IInv => NoHoldWithoutHire
    BY DEF IInv
  <1> QED BY <1>1, Invariance, PTL

\* Retries, overlaps and deaths notwithstanding, each leg of a hire has moved its
\* credits through escrow once.
THEOREM EscrowAddsUp == Spec => []EscrowMatchesLegs
  <1>1. EscrowInv => EscrowMatchesLegs
    BY DEF EscrowInv
  <1> QED BY <1>1, InitEscrowInv, NextEscrowInv, PTL DEF Spec

\* "No credits created or destroyed": whatever hires do, all wallets add up to 0.
THEOREM Conservation == Spec => []CreditsConserved
  <1> QED BY InitIInv, NextIInv, InitWallet, NextWallet, InitConserves, NextConserves, PTL DEF Spec

\* The same of any posts to the ledger, by whomever.
THEOREM LedgerConserves == LedgerSpec => []CreditsConserved
  <1>1. LedgerInit => WalletOK /\ CreditsConserved
    <2> SUFFICES ASSUME LedgerInit PROVE WalletOK /\ AllOf(wallet) = 0
      BY ConservedIs
    <2>1. \A h \in Handle : Terms(wallet)[h].amount = 0
      BY DEF LedgerInit, Terms
    <2>2. AllOf(wallet) = 0 * Cardinality(Handle) /\ Cardinality(Handle) \in Nat
      BY <2>1, HandlesFinite, SumsConst, FS_CardinalityType DEF AllOf
    <2> QED BY <2>2 DEF LedgerInit, WalletOK
  <1>2. WalletOK /\ CreditsConserved /\ [LedgerNext]_ledgerVars => WalletOK' /\ CreditsConserved'
    <2> SUFFICES ASSUME WalletOK, AllOf(wallet) = 0, [LedgerNext]_ledgerVars
                 PROVE  WalletOK' /\ AllOf(wallet') = 0
      BY ConservedIs
    <2>1. CASE UNCHANGED ledgerVars
      BY <2>1 DEF WalletOK, ledgerVars
    <2>2. ASSUME NEW r \in Request, Apply(r.key, r.entries) PROVE WalletOK' /\ AllOf(wallet') = 0
      <3>1. r.entries \in Seq(EntryType)
        BY AtomicLedgerAssumption DEF RequestType
      <3> QED BY <2>2, <3>1, ApplyWallet, ApplyConserves
    <2> QED BY <2>1, <2>2 DEF LedgerNext
  <1> QED BY <1>1, <1>2, PTL DEF LedgerSpec

\* A hire whose calls take turns and do not die is held, then released or
\* refunded, once, whatever the calls on other hires do at the same time.
THEOREM ContractIsKept == Spec => KeepsContract
  <1>1. ContractInv /\ [Next]_vars => [Contract!Next]_(Contract!vars)
    BY NextIsContract DEF ContractVars, AmountMap, ContractMap, EscrowMap, Apart, Contract!vars
  <1> QED BY <1>1, InitContractInv, NextContractInv, InitIsContract, PTL
          DEF Spec, KeepsContract, Contract!Spec

=============================================================================
