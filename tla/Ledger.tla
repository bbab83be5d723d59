-------------------------------- MODULE Ledger -------------------------------
(***************************************************************************)
(* economy/ledger.py post(): the one writer of wallets, txns and           *)
(* ledger_entries.  Each call is one PostgreSQL transaction (READ          *)
(* COMMITTED, a connection of its own), and every SQL statement of it is   *)
(* a step here, so that concurrent posts interleave.                       *)
(*                                                                         *)
(* `row` is the newest version of a wallet row and `wallet` the last       *)
(* committed one: they differ only while `owner`, the transaction that     *)
(* holds the row's lock, has not ended.  A row some transaction has        *)
(* inserted and not committed is owned, and not yet `known`.               *)
(***************************************************************************)
EXTENDS LedgerPlans

CONSTANTS Poster,      \* the concurrent calls of post()
          NoPoster,
          Key, NoKey,
          Request,     \* [key, entries], what callers ask to post
          MaxUnkeyed   \* bound on the transactions posted without a key

VARIABLES wallet,      \* committed wallets.balance
          booked,      \* the committed ledger_entries of each wallet, summed
          known,       \* handles with a committed wallets row
          posts,       \* committed txns rows by idempotency key
          row, owner,  \* newest version and lock owner of each wallets row
          pc, req, pos, seen   \* one call: where it is, its arguments, its loop
                               \* index, and the balance it has read

vars == <<wallet, booked, known, posts, row, owner, pc, req, pos, seen>>
committed == <<wallet, booked, known, posts>>

Outcomes == {"posted", "replayed", "refused", "failed"}   \* how a call ended
Done == {"idle"} \cup Outcomes
InTxn == {"find", "create", "read", "write", "commit"}    \* after the txns INSERT

RequestType == [key : Key \cup {NoKey}, entries : Seq(EntryType)]

ASSUME LedgerAssumption == /\ NoKey \notin Key /\ NoPoster \notin Poster
                           /\ Request # {} /\ Request \subseteq RequestType
                           /\ \A r \in Request : 1 <= Len(r.entries) /\ Len(r.entries) <= MaxEntries
                           /\ MaxUnkeyed \in Nat

TypeOK == /\ wallet \in [Handle -> Int] /\ booked \in [Handle -> Int]
          /\ known \subseteq Handle /\ posts \in [Key \cup {NoKey} -> Nat]
          /\ row \in [Handle -> Int] /\ owner \in [Handle -> Poster \cup {NoPoster}]
          /\ pc \in [Poster -> Done \cup InTxn \cup {"check", "insert"}]
          /\ req \in [Poster -> Request]
          /\ pos \in [Poster -> 1..MaxEntries + 1]
          /\ seen \in [Poster -> Int]

Init == /\ wallet = [h \in Handle |-> 0] /\ booked = [h \in Handle |-> 0]
        /\ known = {} /\ posts = [k \in Key \cup {NoKey} |-> 0]
        /\ row = [h \in Handle |-> 0] /\ owner = [h \in Handle |-> NoPoster]
        /\ pc = [p \in Poster |-> "idle"]
        /\ req \in [Poster -> {CHOOSE r \in Request : TRUE}]
        /\ pos = [p \in Poster |-> 1] /\ seen = [p \in Poster |-> 0]

-----------------------------------------------------------------------------
(* Helpers                                                                 *)

IsPosted(k) == k # NoKey /\ posts[k] > 0

\* The entry of its loop a call is at.
Current(p) == req[p].entries[pos[p]]

Visible(p, h) == h \in known \/ owner[h] = p

Free(p, h) == owner[h] \in {NoPoster, p}

\* The transaction whose uncommitted txns row holds p's key, if any.
KeyHolders(p) == {q \in Poster \ {p} : pc[q] \in InTxn /\ req[p].key # NoKey
                                                      /\ req[q].key = req[p].key}

\* Whom a statement of p waits for.
Blockers(p) ==
    CASE pc[p] = "insert" -> KeyHolders(p)
      [] pc[p] \in {"read", "write"} \/ (pc[p] = "create" /\ Current(p).handle \notin known)
           -> {owner[Current(p).handle]} \ {p, NoPoster}
      [] OTHER -> {}

Goto(p, label) == pc' = [pc EXCEPT ![p] = label]

\* The transaction ends without effect: its row versions and locks are gone.
Rollback(p, outcome) ==
    /\ row' = [h \in Handle |-> IF owner[h] = p THEN wallet[h] ELSE row[h]]
    /\ owner' = [h \in Handle |-> IF owner[h] = p THEN NoPoster ELSE owner[h]]
    /\ pos' = [pos EXCEPT ![p] = 1] /\ seen' = [seen EXCEPT ![p] = 0]
    /\ Goto(p, outcome)
    /\ UNCHANGED <<wallet, booked, known, posts, req>>

-----------------------------------------------------------------------------
(* The statements of post()                                                *)

Start(p, r) ==
    /\ pc[p] \in Done
    /\ Balanced(r.entries)
    /\ r.key = NoKey => posts[NoKey] < MaxUnkeyed
    /\ req' = [req EXCEPT ![p] = r]
    /\ Goto(p, "check")
    /\ UNCHANGED <<committed, row, owner, pos, seen>>

\* SELECT id FROM txns: only a committed row is seen.
CheckKey(p) ==
    /\ pc[p] = "check"
    /\ Goto(p, IF IsPosted(req[p].key) THEN "replayed" ELSE "insert")
    /\ UNCHANGED <<committed, row, owner, req, pos, seen>>

\* Faulty: idempotency_key has no unique index.
InsertTxn_m(p) ==
    /\ pc[p] = "insert"
    /\ Goto(p, "find")
    /\ UNCHANGED <<committed, row, owner, req, pos, seen>>

\* INSERT INTO txns: the unique index makes it wait for an uncommitted row of
\* the same key, and raises UniqueViolation once such a row is committed.
InsertTxn(p) ==
    /\ pc[p] = "insert"
    /\ KeyHolders(p) = {}
    /\ IF IsPosted(req[p].key)
         THEN Rollback(p, "failed")
         ELSE Goto(p, "find") /\ UNCHANGED <<committed, row, owner, req, pos, seen>>

\* _wallet_id: SELECT the row ...
FindWallet(p) ==
    /\ pc[p] = "find"
    /\ Goto(p, IF Visible(p, Current(p).handle) THEN "read" ELSE "create")
    /\ UNCHANGED <<committed, row, owner, req, pos, seen>>

\* ... or INSERT it: owner_handle is unique, so this waits for an uncommitted
\* row of the handle and raises once there is a committed one.
CreateWallet(p) ==
    LET h == Current(p).handle IN
    /\ pc[p] = "create"
    /\ h \in known \/ Free(p, h)
    /\ IF h \in known
         THEN Rollback(p, "failed")
         ELSE /\ owner' = [owner EXCEPT ![h] = p]
              /\ Goto(p, "read")
              /\ UNCHANGED <<committed, row, req, pos, seen>>

\* Faulty: a plain SELECT of the balance, without FOR UPDATE.
ReadBalance_m(p) ==
    LET e == Current(p)
        balance == IF owner[e.handle] = p THEN row[e.handle] ELSE wallet[e.handle]
    IN  /\ pc[p] = "read"
        /\ IF balance + e.delta < 0 /\ e.handle \notin System
             THEN Rollback(p, "refused")
             ELSE /\ seen' = [seen EXCEPT ![p] = balance]
                  /\ Goto(p, "write")
                  /\ UNCHANGED <<committed, row, owner, req, pos>>

\* Faulty: the guard tests the balance before the entry, not after it.
ReadBalanceLate_m(p) ==
    LET e == Current(p) IN
    /\ pc[p] = "read"
    /\ Free(p, e.handle)
    /\ IF row[e.handle] <= 0 /\ e.delta < 0 /\ e.handle \notin System
         THEN Rollback(p, "refused")
         ELSE /\ owner' = [owner EXCEPT ![e.handle] = p]
              /\ seen' = [seen EXCEPT ![p] = row[e.handle]]
              /\ Goto(p, "write")
              /\ UNCHANGED <<committed, row, req, pos>>

\* SELECT ... FOR UPDATE, and the insufficient-funds guard.
ReadBalance(p) ==
    LET e == Current(p) IN
    /\ pc[p] = "read"
    /\ Free(p, e.handle)
    /\ IF row[e.handle] + e.delta < 0 /\ e.handle \notin System
         THEN Rollback(p, "refused")
         ELSE /\ owner' = [owner EXCEPT ![e.handle] = p]
              /\ seen' = [seen EXCEPT ![p] = row[e.handle]]
              /\ Goto(p, "write")
              /\ UNCHANGED <<committed, row, req, pos>>

\* INSERT INTO ledger_entries; UPDATE wallets SET balance, which locks the row.
WriteBalance(p) ==
    LET e == Current(p) IN
    /\ pc[p] = "write"
    /\ Free(p, e.handle)
    /\ row' = [row EXCEPT ![e.handle] = seen[p] + e.delta]
    /\ owner' = [owner EXCEPT ![e.handle] = p]
    /\ pos' = [pos EXCEPT ![p] = @ + 1] /\ seen' = [seen EXCEPT ![p] = 0]
    /\ Goto(p, IF pos[p] < Len(req[p].entries) THEN "find" ELSE "commit")
    /\ UNCHANGED <<committed, req>>

\* get_db's commit publishes the txns row, the entries and the balances.
Commit(p) ==
    /\ pc[p] = "commit"
    /\ wallet' = [h \in Handle |-> IF owner[h] = p THEN row[h] ELSE wallet[h]]
    /\ booked' = [h \in Handle |-> booked[h] + Effect(req[p].entries, h)]
    /\ known' = known \cup {h \in Handle : owner[h] = p}
    /\ posts' = [posts EXCEPT ![req[p].key] = @ + 1]
    /\ owner' = [h \in Handle |-> IF owner[h] = p THEN NoPoster ELSE owner[h]]
    /\ pos' = [pos EXCEPT ![p] = 1]
    /\ Goto(p, "posted")
    /\ UNCHANGED <<row, req, seen>>

\* Faulty: waits for locks are never broken.
DeadlockVictim_m(p) == FALSE

\* PostgreSQL aborts one transaction of a cycle of waits.
DeadlockVictim(p) ==
    /\ \E C \in SUBSET Poster : p \in C /\ C = UNION {Blockers(q) : q \in C}
    /\ Rollback(p, "failed")

\* The server, its connection or its process dies: PostgreSQL rolls back.
Crash(p) == pc[p] \notin Done /\ Rollback(p, "failed")

Step(p) == \/ CheckKey(p) \/ InsertTxn(p) \/ FindWallet(p) \/ CreateWallet(p)
           \/ ReadBalance(p) \/ WriteBalance(p) \/ Commit(p) \/ DeadlockVictim(p)

Next == \E p \in Poster : (\E r \in Request : Start(p, r)) \/ Step(p) \/ Crash(p)

Spec == Init /\ [][Next]_vars

\* A call in progress keeps running: PostgreSQL grants a row lock in the order
\* it was asked for, hence strong fairness of the statements that wait.
FairSpec == Spec /\ \A p \in Poster : SF_vars(Step(p))

-----------------------------------------------------------------------------
(* Properties                                                              *)

\* "The denormalized wallets.balance is a fast read kept in lockstep with the
\* entries; the entries are the source of truth": no interleaving of posts
\* loses an update.
BalancesMatchEntries == wallet = booked

\* "Member wallets cannot go negative (insufficient-funds guard)", whatever
\* two posts that each could pay do together.
NoMemberOverdrawn == \A h \in Member : wallet[h] >= 0

\* "an idempotency key so a webhook retry never double-credits", also when the
\* retry arrives while the first call is still running.
KeyPostsOnce == \A k \in Key : posts[k] <= 1

\* A caller told that its keyed post went through, now or earlier, finds it in
\* the books, crashes notwithstanding.
AcknowledgedIsPosted ==
    \A p \in Poster : pc[p] \in {"posted", "replayed"} => posts[req[p].key] > 0

\* Concurrent posts are serializable: each commit is one atomic post.
Atomic == INSTANCE AtomicLedger WITH posted <- {k \in Key : posts[k] > 0}
ImplementsAtomicLedger == Atomic!LedgerSpec

\* No call hangs, whatever order two posts lock their wallets in.
EveryPostEnds == \A p \in Poster : pc[p] \notin Done ~> pc[p] \in Done

-----------------------------------------------------------------------------
(* The inductive invariant behind the safety properties                    *)

\* A row nobody has locked is as committed; only open transactions hold locks.
LockInv == \A h \in Handle : /\ owner[h] = NoPoster => row[h] = wallet[h]
                             /\ owner[h] # NoPoster => pc[owner[h]] \in InTxn

LoopInv == \A p \in Poster :
    /\ pc[p] \in InTxn \ {"commit"} => pos[p] <= Len(req[p].entries)
    /\ pc[p] = "commit" => pos[p] = Len(req[p].entries) + 1
    /\ pc[p] \notin InTxn => pos[p] = 1
    /\ pc[p] \notin Done => Balanced(req[p].entries)

\* An open transaction has locked every wallet it has written to, and moved it
\* by the entries done so far, each of which its member wallet could pay.
WrittenInv == \A p \in Poster : pc[p] \in InTxn =>
    \A h \in Handle :
       /\ owner[h] = p => row[h] = wallet[h] + UpTo(req[p].entries, pos[p] - 1, h)
       /\ owner[h] # p => \A i \in 1..Len(req[p].entries) :
                             i < pos[p] => req[p].entries[i].handle # h
       /\ h \in Member => \A i \in 1..Len(req[p].entries) :
             i < pos[p] /\ req[p].entries[i].handle = h
                => wallet[h] + UpTo(req[p].entries, i, h) >= 0

\* A balance that was read is locked until it is written back.
ReadInv == \A p \in Poster : pc[p] = "write" =>
    /\ owner[Current(p).handle] = p
    /\ seen[p] = row[Current(p).handle]
    /\ Current(p).handle \in Member => seen[p] + Current(p).delta >= 0

SolventInv == \A h \in Member : wallet[h] >= 0 /\ row[h] >= 0

KeyInv == /\ \A p, q \in Poster :
                /\ pc[p] \in InTxn /\ req[p].key # NoKey => posts[req[p].key] = 0
                /\ pc[p] \in InTxn /\ pc[q] \in InTxn /\ req[p].key # NoKey /\ p # q
                      => req[p].key # req[q].key
          /\ KeyPostsOnce /\ AcknowledgedIsPosted

IInv == /\ TypeOK /\ LockInv /\ LoopInv /\ WrittenInv /\ ReadInv
        /\ SolventInv /\ KeyInv /\ BalancesMatchEntries

=============================================================================
