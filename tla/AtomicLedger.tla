----------------------------- MODULE AtomicLedger ----------------------------
(***************************************************************************)
(* What economy/ledger.py promises of post(): a balanced set of entries    *)
(* takes effect all at once or not at all, a member wallet never goes      *)
(* below zero on the way, and an idempotency key takes effect once.        *)
(* Ledger shows that the SQL of post(), with its row locks and unique      *)
(* indexes, implements this; Hire builds on it.                            *)
(***************************************************************************)
EXTENDS LedgerPlans, FiniteSetsExt

CONSTANTS Key,      \* idempotency keys
          NoKey,    \* a post without one
          Request   \* the posts callers make: [key, entries]

VARIABLES wallet,   \* the balance of every wallet; 0 where there is no row yet
          posted    \* the idempotency keys of the posted transactions

RequestType == [key : Key \cup {NoKey}, entries : Seq(EntryType)]

ASSUME AtomicLedgerAssumption == NoKey \notin Key /\ Request \subseteq RequestType

ledgerVars == <<wallet, posted>>

LedgerInit == wallet = [h \in Handle |-> 0] /\ posted = {}

\* The insufficient-funds guard, entry by entry, of the non-system wallets.
CanPay(es) == \A i \in 1..Len(es) :
                 es[i].handle \in Member => wallet[es[i].handle] + UpTo(es, i, es[i].handle) >= 0

IsReplay(key) == key # NoKey /\ key \in posted

Apply(key, es) ==
    /\ ~IsReplay(key)
    /\ Balanced(es)
    /\ CanPay(es)
    /\ wallet' = [h \in Handle |-> wallet[h] + Effect(es, h)]
    /\ posted' = posted \cup ({key} \ {NoKey})

LedgerNext == \E r \in Request : Apply(r.key, r.entries)

LedgerSpec == LedgerInit /\ [][LedgerNext]_ledgerVars

\* "no credits created or destroyed": what members, escrow and LP hold is what
\* has been issued.
CreditsConserved == MapThenSumSet(LAMBDA h : wallet[h], Handle) = 0

=============================================================================
