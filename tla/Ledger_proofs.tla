---------------------------- MODULE Ledger_proofs ----------------------------
(***************************************************************************)
(* Proofs about Ledger, for any number of callers, wallets and posts, and  *)
(* about the plans it posts, for any amounts, rates and referrals.         *)
(***************************************************************************)
EXTENDS Ledger, PlanCases, TLAPS

LEMMA EntriesType ==
    ASSUME NEW r \in Request
    PROVE  /\ r.key \in Key \cup {NoKey}
           /\ r.entries \in Seq(EntryType)
           /\ Len(r.entries) \in Nat /\ 1 <= Len(r.entries) /\ Len(r.entries) <= 5
           /\ \A i \in 1..Len(r.entries) : /\ r.entries[i].handle \in Handle
                                           /\ r.entries[i].delta \in Int
  <1>1. r \in RequestType /\ 1 <= Len(r.entries) /\ Len(r.entries) <= 5
    BY LedgerAssumption DEF MaxEntries
  <1>2. r.key \in Key \cup {NoKey} /\ r.entries \in Seq(EntryType)
    BY <1>1 DEF RequestType
  <1>4. Len(r.entries) \in Nat /\ 1 <= Len(r.entries) /\ Len(r.entries) <= 5
    <2>1. Len(r.entries) \in Nat
      BY <1>2
    <2> QED BY <1>1, <2>1
  <1>3. ASSUME NEW i \in 1..Len(r.entries) PROVE r.entries[i] \in EntryType
    BY <1>2
  <1> QED BY <1>2, <1>3, <1>4 DEF EntryType

LEMMA AmountType ==
    ASSUME NEW r \in Request, NEW i \in Int, NEW h \in Handle
    PROVE  Amount(r.entries, i, h) \in Int
  BY EntriesType DEF Amount

LEMMA UpToType ==
    ASSUME NEW r \in Request, NEW i \in Int, NEW h \in Handle
    PROVE  UpTo(r.entries, i, h) \in Int
  BY AmountType DEF UpTo

LEMMA UpToZero ==
    ASSUME NEW r \in Request, NEW h \in Handle
    PROVE  UpTo(r.entries, 0, h) = 0
  BY DEF UpTo

LEMMA UpToNext ==
    ASSUME NEW r \in Request, NEW h \in Handle,
           NEW i \in Int, 1 <= i, i <= Len(r.entries)
    PROVE  UpTo(r.entries, i, h) = UpTo(r.entries, i - 1, h) + Amount(r.entries, i, h)
  <1>1. Len(r.entries) \in Nat /\ Len(r.entries) <= 5
    BY EntriesType
  <1>2. i \in 1..5
    BY <1>1
  <1>3. \A j \in 1..5 : Amount(r.entries, j, h) \in Int
    BY AmountType
  <1> QED BY <1>2, <1>3 DEF UpTo

LEMMA UpToAll ==
    ASSUME NEW r \in Request, NEW h \in Handle
    PROVE  UpTo(r.entries, Len(r.entries), h) = Effect(r.entries, h)
  <1>1. Len(r.entries) \in Nat /\ 1 <= Len(r.entries) /\ Len(r.entries) <= 5
    BY EntriesType
  <1>2. \A j \in 1..5 : j > Len(r.entries) => Amount(r.entries, j, h) = 0
    BY <1>1 DEF Amount
  <1>3. \A j \in 1..5 : Amount(r.entries, j, h) \in Int
    BY AmountType
  <1>4. Effect(r.entries, h) = Amount(r.entries, 1, h) + Amount(r.entries, 2, h)
          + Amount(r.entries, 3, h) + Amount(r.entries, 4, h) + Amount(r.entries, 5, h)
    BY DEF UpTo, Effect, MaxEntries
  <1>5. ASSUME NEW n \in 1..5, \A j \in 1..5 : j > n => Amount(r.entries, j, h) = 0
        PROVE  UpTo(r.entries, n, h) = Effect(r.entries, h)
    BY <1>3, <1>4, <1>5 DEF UpTo
  <1>6. ASSUME NEW n \in Nat, n = Len(r.entries)
        PROVE  UpTo(r.entries, n, h) = Effect(r.entries, h)
    <2>1. 1 <= n /\ n <= 5
      BY <1>1, <1>6
    <2>2. n \in 1..5
      BY <2>1
    <2> QED BY <1>2, <1>5, <1>6, <2>2
  <1> QED BY <1>1, <1>6

LEMMA NoEntryNoEffect ==
    ASSUME NEW r \in Request, NEW i \in Int, NEW h \in Handle,
           \A j \in 1..Len(r.entries) : j <= i => r.entries[j].handle # h
    PROVE  UpTo(r.entries, i, h) = 0
  BY DEF UpTo, Amount

-----------------------------------------------------------------------------
(* The loop                                                                *)

LEMMA CurrentEntry ==
    ASSUME IInv, NEW p \in Poster, pc[p] \in {"find", "create", "read", "write"}
    PROVE  /\ pos[p] \in Int /\ 1 <= pos[p] /\ pos[p] <= Len(req[p].entries) /\ pos[p] <= 5
           /\ req[p] \in Request
           /\ Current(p).handle \in Handle /\ Current(p).delta \in Int
  <1>1. req[p] \in Request /\ pos[p] \in Int /\ 1 <= pos[p]
    BY DEF IInv, TypeOK, MaxEntries
  <1>2. pos[p] <= Len(req[p].entries)
    BY DEF IInv, LoopInv, InTxn
  <1>3. Len(req[p].entries) \in Nat /\ Len(req[p].entries) <= 5
    BY <1>1, EntriesType
  <1>4. pos[p] \in 1..Len(req[p].entries)
    BY <1>1, <1>2, <1>3
  <1> QED BY <1>1, <1>2, <1>3, <1>4, EntriesType DEF Current

\* What WriteBalance adds, wallet by wallet.
LEMMA CurrentAmount ==
    ASSUME IInv, NEW p \in Poster, pc[p] \in {"find", "create", "read", "write"},
           NEW h \in Handle
    PROVE  UpTo(req[p].entries, pos[p], h) = UpTo(req[p].entries, pos[p] - 1, h)
              + (IF Current(p).handle = h THEN Current(p).delta ELSE 0)
  <1>1. /\ pos[p] \in Int /\ 1 <= pos[p] /\ pos[p] <= Len(req[p].entries)
        /\ req[p] \in Request
    BY CurrentEntry
  <1>2. Len(req[p].entries) \in Nat
    BY <1>1, EntriesType
  <1>3. pos[p] \in 1..Len(req[p].entries)
    BY <1>1, <1>2
  <1>4. Amount(req[p].entries, pos[p], h) = IF Current(p).handle = h THEN Current(p).delta ELSE 0
    BY <1>3 DEF Amount, Current
  <1> QED BY <1>1, <1>4, UpToNext

LEMMA OwnerOpen ==
    ASSUME IInv, NEW p \in Poster, NEW h \in Handle, owner[h] = p
    PROVE  pc[p] \in InTxn
  BY LedgerAssumption DEF IInv, LockInv

-----------------------------------------------------------------------------
(* The inductive invariant                                                 *)

LEMMA InitIInv == Init => IInv
  <1> SUFFICES ASSUME Init PROVE IInv
    OBVIOUS
  <1> USE DEF Init
  <1>1. TypeOK
    <2>1. (CHOOSE r \in Request : TRUE) \in Request
      BY LedgerAssumption
    <2> QED BY <2>1 DEF TypeOK, Done, MaxEntries
  <1>2. \A p \in Poster : pc[p] = "idle" /\ pos[p] = 1
    OBVIOUS
  <1>3. LockInv /\ LoopInv /\ WrittenInv /\ ReadInv
    BY <1>2 DEF LockInv, LoopInv, WrittenInv, ReadInv, InTxn, Done
  <1>4. SolventInv /\ BalancesMatchEntries
    BY DEF SolventInv, BalancesMatchEntries, Handle
  <1>5. KeyInv
    BY <1>2 DEF KeyInv, KeyPostsOnce, AcknowledgedIsPosted, InTxn
  <1> QED BY <1>1, <1>3, <1>4, <1>5 DEF IInv

\* The steps that touch neither balances nor locks: one call moves on, its loop
\* index where the new label wants it.
LEMMA LocalStep ==
    ASSUME IInv, NEW p \in Poster, NEW to,
           Goto(p, to), UNCHANGED <<committed, row, owner, req, pos, seen>>,
           \/ pc[p] = "check" /\ to \in {"replayed", "insert"}
                              /\ (to = "replayed" => IsPosted(req[p].key))
           \/ pc[p] = "find" /\ to \in {"read", "create"}
           \/ pc[p] = "insert" /\ to = "find" /\ KeyHolders(p) = {} /\ ~IsPosted(req[p].key)
    PROVE  IInv'
  <1> USE DEF IInv, Goto, committed, Done, Outcomes, InTxn
  <1>1. TypeOK'
    BY DEF TypeOK
  <1>2. pc' = [pc EXCEPT ![p] = to]
    OBVIOUS
  <1>3. pc \in [Poster -> Done \cup InTxn \cup {"check", "insert"}]
    BY DEF TypeOK
  <1>4. LockInv'
    BY <1>2, <1>3 DEF LockInv
  <1>5. LoopInv'
    BY <1>2, <1>3, EntriesType DEF LoopInv, TypeOK
  <1>6. WrittenInv'
    <2> SUFFICES ASSUME NEW q \in Poster, pc'[q] \in InTxn, NEW h \in Handle
                 PROVE  /\ owner[h] = q => row[h] = wallet[h] + UpTo(req[q].entries, pos[q] - 1, h)
                        /\ owner[h] # q => \A i \in 1..Len(req[q].entries) :
                                              i < pos[q] => req[q].entries[i].handle # h
                        /\ h \in Member => \A i \in 1..Len(req[q].entries) :
                             i < pos[q] /\ req[q].entries[i].handle = h
                                => wallet[h] + UpTo(req[q].entries, i, h) >= 0
      BY DEF WrittenInv
    <2>1. CASE pc[q] \in InTxn
      BY <2>1 DEF WrittenInv
    <2>2. CASE pc[q] \notin InTxn
      <3>1. owner[h] # q
        BY <2>2, OwnerOpen
      <3>2. pos[q] = 1
        BY <2>2 DEF LoopInv
      <3>3. \A i \in 1..Len(req[q].entries) : ~(i < pos[q])
        BY <3>2
      <3> QED BY <3>1, <3>3
    <2> QED BY <2>1, <2>2
  <1>7. ReadInv'
    BY <1>2, <1>3 DEF ReadInv, Current
  <1>8. SolventInv' /\ BalancesMatchEntries'
    BY DEF SolventInv, BalancesMatchEntries
  <1>9. KeyInv'
    <2>1. \A q \in Poster : pc'[q] \in InTxn => pc[q] \in InTxn \/ (q = p /\ to = "find")
      BY <1>2, <1>3
    <2>2. to = "find" /\ pc[p] \notin InTxn => KeyHolders(p) = {} /\ ~IsPosted(req[p].key)
      OBVIOUS
    <2>3. ASSUME NEW q \in Poster, pc'[q] \in InTxn, req[q].key # NoKey
          PROVE  posts[req[q].key] = 0
      BY <2>1, <2>2, <2>3, EntriesType DEF KeyInv, IsPosted, TypeOK
    <2>4. ASSUME NEW q \in Poster, NEW r \in Poster, pc'[q] \in InTxn, pc'[r] \in InTxn,
                 req[q].key # NoKey, q # r
          PROVE  req[q].key # req[r].key
      BY <2>1, <2>2, <2>4 DEF KeyInv, KeyHolders
    <2>5. KeyPostsOnce' /\ AcknowledgedIsPosted'
      BY <1>2, <1>3, EntriesType DEF KeyInv, KeyPostsOnce, AcknowledgedIsPosted, IsPosted, TypeOK
    <2> QED BY <2>3, <2>4, <2>5 DEF KeyInv
  <1> QED BY <1>1, <1>4, <1>5, <1>6, <1>7, <1>8, <1>9

\* A transaction that ends without effect.
LEMMA RollbackStep ==
    ASSUME IInv, NEW p \in Poster, NEW outcome \in {"refused", "failed"}, Rollback(p, outcome)
    PROVE  IInv'
  <1> USE DEF IInv, Rollback, Goto, Done, Outcomes, InTxn
  <1>1. TypeOK'
    BY DEF TypeOK, MaxEntries
  <1>2. /\ pc \in [Poster -> Done \cup InTxn \cup {"check", "insert"}]
        /\ owner \in [Handle -> Poster \cup {NoPoster}]
    BY DEF TypeOK
  <1>3. LockInv'
    BY <1>2 DEF LockInv
  <1>4. LoopInv'
    BY <1>2 DEF LoopInv, TypeOK
  <1>5. \A q \in Poster : pc'[q] \in InTxn => q # p /\ pc[q] \in InTxn
    BY <1>2
  <1>6. WrittenInv'
    BY <1>2, <1>5, LedgerAssumption DEF WrittenInv, TypeOK
  <1>7. ReadInv'
    BY <1>2, <1>5, LedgerAssumption, CurrentEntry DEF ReadInv, Current, TypeOK
  <1>8. SolventInv' /\ BalancesMatchEntries'
    BY DEF SolventInv, BalancesMatchEntries, Handle
  <1>9. KeyInv'
    BY <1>2, <1>5 DEF KeyInv, KeyPostsOnce, AcknowledgedIsPosted
  <1> QED BY <1>1, <1>3, <1>4, <1>6, <1>7, <1>8, <1>9

LEMMA StartStep ==
    ASSUME IInv, NEW p \in Poster, NEW r \in Request, Start(p, r)
    PROVE  IInv'
  <1> USE DEF IInv, Start, Goto, committed, Done, Outcomes, InTxn
  <1>1. TypeOK'
    BY DEF TypeOK
  <1>2. /\ pc \in [Poster -> Done \cup InTxn \cup {"check", "insert"}]
        /\ req \in [Poster -> Request]
    BY DEF TypeOK
  <1>3. \A q \in Poster : pc'[q] \in InTxn => q # p /\ pc[q] \in InTxn
    BY <1>2
  <1>4. LockInv'
    BY <1>2 DEF LockInv
  <1>5. LoopInv'
    BY <1>2 DEF LoopInv, TypeOK
  <1>6. WrittenInv'
    BY <1>2, <1>3 DEF WrittenInv
  <1>7. ReadInv'
    BY <1>2, <1>3 DEF ReadInv, Current
  <1>8. SolventInv' /\ BalancesMatchEntries'
    BY DEF SolventInv, BalancesMatchEntries
  <1>9. KeyInv'
    BY <1>2, <1>3 DEF KeyInv, KeyPostsOnce, AcknowledgedIsPosted
  <1> QED BY <1>1, <1>4, <1>5, <1>6, <1>7, <1>8, <1>9

\* A row free for p is where p's entries so far have brought it.
LEMMA FreeRow ==
    ASSUME IInv, NEW p \in Poster, pc[p] \in InTxn, NEW h \in Handle, Free(p, h)
    PROVE  row[h] = wallet[h] + UpTo(req[p].entries, pos[p] - 1, h)
  <1> USE DEF IInv
  <1>1. CASE owner[h] = p
    BY <1>1 DEF WrittenInv
  <1>2. CASE owner[h] = NoPoster
    <2>1. row[h] = wallet[h] /\ wallet[h] \in Int /\ req[p] \in Request /\ pos[p] \in Int
      BY <1>2 DEF LockInv, TypeOK
    <2>2. owner[h] # p
      BY <1>2, LedgerAssumption
    <2>3. \A j \in 1..Len(req[p].entries) : j < pos[p] => req[p].entries[j].handle # h
      BY <2>2 DEF WrittenInv
    <2>4. \A j \in 1..Len(req[p].entries) : j <= pos[p] - 1 => req[p].entries[j].handle # h
      BY <2>1, <2>3
    <2>5. UpTo(req[p].entries, pos[p] - 1, h) = 0
      BY <2>1, <2>4, NoEntryNoEffect
    <2> QED BY <2>1, <2>5
  <1> QED BY <1>1, <1>2 DEF Free

\* Taking a row's lock, inside a transaction, keeps all but ReadInv, which is
\* about the balance read with it.
LEMMA TakeLock ==
    ASSUME IInv, NEW p \in Poster, NEW h \in Handle, Free(p, h),
           NEW to \in {"read", "write"},
           pc[p] \in {"create", "read"}, pc' = [pc EXCEPT ![p] = to],
           owner' = [owner EXCEPT ![h] = p],
           UNCHANGED <<committed, row, req, pos>>, seen' \in [Poster -> Int], ReadInv'
    PROVE  IInv'
  <1> USE DEF IInv, committed, Done, Outcomes, InTxn
  <1>1. TypeOK'
    BY DEF TypeOK
  <1>2. /\ pc \in [Poster -> Done \cup InTxn \cup {"check", "insert"}]
        /\ owner \in [Handle -> Poster \cup {NoPoster}]
    BY DEF TypeOK
  <1>3. \A q \in Poster : pc'[q] \in InTxn <=> pc[q] \in InTxn
    BY <1>2
  <1>4. LockInv'
    BY <1>2, LedgerAssumption DEF LockInv
  <1>5. LoopInv'
    BY <1>2 DEF LoopInv
  <1>6. WrittenInv'
    <2> SUFFICES ASSUME NEW q \in Poster, pc[q] \in InTxn, NEW g \in Handle
                 PROVE  /\ owner'[g] = q => row[g] = wallet[g] + UpTo(req[q].entries, pos[q] - 1, g)
                        /\ owner'[g] # q => \A i \in 1..Len(req[q].entries) :
                                              i < pos[q] => req[q].entries[i].handle # g
                        /\ g \in Member => \A i \in 1..Len(req[q].entries) :
                             i < pos[q] /\ req[q].entries[i].handle = g
                                => wallet[g] + UpTo(req[q].entries, i, g) >= 0
      BY <1>3 DEF WrittenInv
    <2>1. CASE g = h /\ q = p
      BY <2>1, <1>2, FreeRow DEF WrittenInv
    <2>2. CASE g = h /\ q # p
      <3>1. owner[h] # q /\ owner'[h] # q
        BY <2>2, <1>2, LedgerAssumption DEF Free
      <3> QED BY <2>2, <3>1 DEF WrittenInv
    <2>3. CASE g # h
      BY <2>3, <1>2 DEF WrittenInv
    <2> QED BY <2>1, <2>2, <2>3
  <1>7. SolventInv' /\ BalancesMatchEntries'
    BY DEF SolventInv, BalancesMatchEntries
  <1>8. KeyInv'
    BY <1>2, <1>3 DEF KeyInv, KeyPostsOnce, AcknowledgedIsPosted
  <1> QED BY <1>1, <1>4, <1>5, <1>6, <1>7, <1>8

\* A row free for p is not the one another call has read.
LEMMA ReadApart ==
    ASSUME IInv, NEW p \in Poster, NEW q \in Poster, p # q, pc[q] = "write",
           NEW h \in Handle, Free(p, h)
    PROVE  Current(q).handle # h /\ Current(q).handle \in Handle
  <1>1. owner[Current(q).handle] = q
    BY DEF IInv, ReadInv
  <1>2. Current(q).handle \in Handle
    BY CurrentEntry
  <1> QED BY <1>1, <1>2, LedgerAssumption DEF Free

LEMMA CreateWalletStep ==
    ASSUME IInv, NEW p \in Poster, CreateWallet(p)
    PROVE  IInv'
  <1> DEFINE h == Current(p).handle
  <1>1. pc[p] = "create" /\ h \in Handle
    BY CurrentEntry DEF CreateWallet
  <1>2. CASE h \in known
    BY <1>2, RollbackStep DEF CreateWallet
  <1>3. CASE h \notin known
    <2>1. /\ Free(p, h)
          /\ owner' = [owner EXCEPT ![h] = p] /\ pc' = [pc EXCEPT ![p] = "read"]
          /\ UNCHANGED <<committed, row, req, pos, seen>>
      BY <1>3 DEF CreateWallet, Goto
    <2>2. seen' \in [Poster -> Int]
      BY <2>1 DEF IInv, TypeOK
    <2>3. ReadInv'
      <3> SUFFICES ASSUME NEW q \in Poster, pc'[q] = "write"
                   PROVE  /\ owner'[Current(q).handle] = q
                          /\ seen[q] = row[Current(q).handle]
                          /\ Current(q).handle \in Member => seen[q] + Current(q).delta >= 0
        BY <2>1 DEF ReadInv, Current
      <3>1. q # p /\ pc[q] = "write"
        BY <2>1 DEF IInv, TypeOK
      <3>2. Current(q).handle # h /\ Current(q).handle \in Handle
        BY <1>1, <2>1, <3>1, ReadApart
      <3> QED BY <2>1, <3>1, <3>2 DEF IInv, ReadInv, TypeOK
    <2> QED BY <1>1, <2>1, <2>2, <2>3, TakeLock
  <1> QED BY <1>2, <1>3

LEMMA ReadBalanceStep ==
    ASSUME IInv, NEW p \in Poster, ReadBalance(p)
    PROVE  IInv'
  <1> DEFINE e == Current(p)
  <1>1. pc[p] = "read" /\ e.handle \in Handle /\ e.delta \in Int /\ Free(p, e.handle)
    BY CurrentEntry DEF ReadBalance
  <1>2. CASE row[e.handle] + e.delta < 0 /\ e.handle \notin System
    BY <1>2, RollbackStep DEF ReadBalance
  <1>3. CASE ~(row[e.handle] + e.delta < 0 /\ e.handle \notin System)
    <2>1. /\ owner' = [owner EXCEPT ![e.handle] = p] /\ pc' = [pc EXCEPT ![p] = "write"]
          /\ seen' = [seen EXCEPT ![p] = row[e.handle]]
          /\ UNCHANGED <<committed, row, req, pos>>
      BY <1>3 DEF ReadBalance, Goto
    <2>2. seen' \in [Poster -> Int]
      BY <1>1, <2>1 DEF IInv, TypeOK
    <2>3. e.handle \in Member => row[e.handle] + e.delta >= 0
      BY <1>1, <1>3, PlansAssumption DEF IInv, TypeOK
    <2>4. ReadInv'
      <3> SUFFICES ASSUME NEW q \in Poster, pc'[q] = "write"
                   PROVE  /\ owner'[Current(q).handle] = q
                          /\ seen'[q] = row[Current(q).handle]
                          /\ Current(q).handle \in Member => seen'[q] + Current(q).delta >= 0
        BY <2>1 DEF ReadInv, Current
      <3>1. CASE q = p
        BY <3>1, <1>1, <2>1, <2>3 DEF IInv, TypeOK
      <3>2. CASE q # p
        <4>1. pc[q] = "write" /\ seen'[q] = seen[q]
          BY <3>2, <2>1 DEF IInv, TypeOK
        <4>2. Current(q).handle # e.handle /\ Current(q).handle \in Handle
          BY <4>1, <3>2, <1>1, ReadApart
        <4> QED BY <4>1, <4>2, <2>1 DEF IInv, ReadInv, TypeOK
      <3> QED BY <3>1, <3>2
    <2> QED BY <1>1, <2>1, <2>2, <2>4, TakeLock
  <1> QED BY <1>2, <1>3

LEMMA WriteBalanceStep ==
    ASSUME IInv, NEW p \in Poster, WriteBalance(p)
    PROVE  IInv'
  <1> USE DEF InTxn
  <1> DEFINE e == Current(p)
             es == req[p].entries
             last == pos[p] = Len(es)
             to == IF last THEN "commit" ELSE "find"
  <1>1. /\ pc[p] = "write" /\ e.handle \in Handle /\ e.delta \in Int
        /\ req[p] \in Request /\ pos[p] \in Int /\ 1 <= pos[p] /\ pos[p] <= 5
        /\ pos[p] <= Len(es) /\ Len(es) \in Nat
    BY CurrentEntry, EntriesType DEF WriteBalance
  <1>2. /\ owner[e.handle] = p /\ seen[p] = row[e.handle]
        /\ e.handle \in Member => seen[p] + e.delta >= 0
    BY <1>1 DEF IInv, ReadInv
  <1>3. /\ row' = [row EXCEPT ![e.handle] = row[e.handle] + e.delta]
        /\ owner' = owner
        /\ pos' = [pos EXCEPT ![p] = pos[p] + 1]
        /\ seen' = [seen EXCEPT ![p] = 0]
        /\ pc' = [pc EXCEPT ![p] = to]
        /\ UNCHANGED <<wallet, booked, known, posts, req>>
    <2>1. owner' = owner
      BY <1>2 DEF WriteBalance, IInv, TypeOK
    <2>2. (pos[p] < Len(es)) = ~last
      BY <1>1
    <2> QED BY <1>1, <1>2, <2>1, <2>2 DEF WriteBalance, Goto, committed
  <1>4. /\ pc \in [Poster -> Done \cup InTxn \cup {"check", "insert"}]
        /\ owner \in [Handle -> Poster \cup {NoPoster}]
        /\ row \in [Handle -> Int] /\ wallet \in [Handle -> Int]
        /\ pos \in [Poster -> 1..6] /\ req \in [Poster -> Request]
    BY DEF IInv, TypeOK, MaxEntries
  <1>5. \A q \in Poster : pc'[q] \in InTxn <=> pc[q] \in InTxn
    BY <1>1, <1>3, <1>4
  <1>6. TypeOK'
    <2>1. pos[p] + 1 \in 1..6
      BY <1>1
    <2>2. row[e.handle] + e.delta \in Int
      BY <1>1, <1>4
    <2> QED BY <1>1, <1>3, <2>1, <2>2 DEF IInv, TypeOK, MaxEntries
  <1>7. LockInv'
    BY <1>2, <1>3, <1>4, <1>5, LedgerAssumption DEF IInv, LockInv
  <1>8. LoopInv'
    <2> SUFFICES ASSUME NEW q \in Poster
                 PROVE  /\ pc'[q] \in InTxn \ {"commit"} => pos'[q] <= Len(req[q].entries)
                        /\ pc'[q] = "commit" => pos'[q] = Len(req[q].entries) + 1
                        /\ pc'[q] \notin InTxn => pos'[q] = 1
                        /\ pc'[q] \notin Done => Balanced(req[q].entries)
      BY <1>3 DEF LoopInv
    <2>1. CASE q # p
      BY <2>1, <1>3, <1>4 DEF IInv, LoopInv
    <2>2. CASE q = p
      <3>1. pc'[p] = to /\ pos'[p] = pos[p] + 1
        BY <1>3, <1>4
      <3>2. Balanced(es)
        BY <1>1 DEF IInv, LoopInv, Done, Outcomes
      <3>3. last => pos[p] + 1 = Len(es) + 1
        OBVIOUS
      <3>4. ~last => pos[p] + 1 <= Len(es)
        BY <1>1
      <3> QED BY <2>2, <3>1, <3>2, <3>3, <3>4
    <2> QED BY <2>1, <2>2
  <1>9. ReadInv'
    <2> SUFFICES ASSUME NEW q \in Poster, pc'[q] = "write"
                 PROVE  /\ owner[Current(q)'.handle] = q
                        /\ seen'[q] = row'[Current(q)'.handle]
                        /\ Current(q)'.handle \in Member => seen'[q] + Current(q)'.delta >= 0
      BY <1>3 DEF ReadInv
    <2>1. q # p /\ pc[q] = "write" /\ seen'[q] = seen[q] /\ pos'[q] = pos[q]
      BY <1>3, <1>4 DEF IInv, TypeOK
    <2>2. Current(q)' = Current(q)
      BY <2>1, <1>3 DEF Current
    <2>3. Current(q).handle # e.handle /\ Current(q).handle \in Handle
      BY <2>1, <1>1, <1>2, ReadApart DEF Free
    <2> QED BY <2>1, <2>2, <2>3, <1>3, <1>4 DEF IInv, ReadInv
  <1>10. SolventInv'
    BY <1>1, <1>2, <1>3, <1>4 DEF IInv, SolventInv, Handle
  <1>11. KeyInv' /\ BalancesMatchEntries'
    <2>1. \A q \in Poster : pc'[q] \in {"posted", "replayed"} => pc[q] = pc'[q]
      BY <1>3, <1>4
    <2> QED BY <1>3, <1>5, <2>1
            DEF IInv, KeyInv, KeyPostsOnce, AcknowledgedIsPosted, BalancesMatchEntries
  <1>12. WrittenInv'
    <2> SUFFICES ASSUME NEW q \in Poster, pc[q] \in InTxn, NEW h \in Handle
                 PROVE  /\ owner[h] = q => row'[h] = wallet[h] + UpTo(req[q].entries, pos'[q] - 1, h)
                        /\ owner[h] # q => \A i \in 1..Len(req[q].entries) :
                                              i < pos'[q] => req[q].entries[i].handle # h
                        /\ h \in Member => \A i \in 1..Len(req[q].entries) :
                             i < pos'[q] /\ req[q].entries[i].handle = h
                                => wallet[h] + UpTo(req[q].entries, i, h) >= 0
      BY <1>3, <1>5 DEF WrittenInv
    <2>1. CASE q # p
      <3>1. pos'[q] = pos[q]
        BY <2>1, <1>3, <1>4
      <3>2. owner[h] = q => row'[h] = row[h]
        BY <2>1, <1>2, <1>3, <1>4
      <3> QED BY <3>1, <3>2 DEF IInv, WrittenInv
    <2>2. CASE q = p
      <3>1. pos'[p] - 1 = pos[p] /\ pos'[p] = pos[p] + 1
        BY <1>1, <1>3, <1>4
      <3>2. owner[h] = p => row'[h] = wallet[h] + UpTo(es, pos[p], h)
        <4>1. owner[h] = p => row[h] = wallet[h] + UpTo(es, pos[p] - 1, h)
          BY <1>1 DEF IInv, WrittenInv
        <4>2. UpTo(es, pos[p], h) = UpTo(es, pos[p] - 1, h)
                 + (IF e.handle = h THEN e.delta ELSE 0)
          BY <1>1, CurrentAmount
        <4>3. UpTo(es, pos[p] - 1, h) \in Int /\ wallet[h] \in Int /\ row[h] \in Int
          BY <1>1, <1>4, UpToType
        <4>4. row'[h] = row[h] + (IF e.handle = h THEN e.delta ELSE 0)
          BY <1>1, <1>3, <1>4, <4>3
        <4> QED BY <4>1, <4>2, <4>3, <4>4, <1>1
      <3>3. es[pos[p]].handle = e.handle
        BY DEF Current
      <3>4. owner[h] # p => \A i \in 1..Len(es) : i < pos[p] + 1 => es[i].handle # h
        <4>1. owner[h] # p => \A i \in 1..Len(es) : i < pos[p] => es[i].handle # h
          BY <1>1 DEF IInv, WrittenInv
        <4>2. owner[h] # p => e.handle # h
          BY <1>2
        <4>3. ASSUME NEW i \in 1..Len(es), i < pos[p] + 1 PROVE i < pos[p] \/ i = pos[p]
          BY <4>3, <1>1
        <4> QED BY <4>1, <4>2, <4>3, <3>3
      <3>5. h \in Member => \A i \in 1..Len(es) :
               i < pos[p] + 1 /\ es[i].handle = h => wallet[h] + UpTo(es, i, h) >= 0
        <4> SUFFICES ASSUME h \in Member, NEW i \in 1..Len(es), i < pos[p] + 1, es[i].handle = h
                     PROVE  wallet[h] + UpTo(es, i, h) >= 0
          OBVIOUS
        <4>1. CASE i < pos[p]
          BY <4>1, <1>1 DEF IInv, WrittenInv
        <4>2. CASE i = pos[p]
          <5>1. h = e.handle
            BY <4>2, <3>3
          <5>2. row'[h] = row[h] + e.delta
            BY <5>1, <1>3, <1>4
          <5> QED BY <5>1, <5>2, <4>2, <3>2, <1>2
        <4>3. i < pos[p] \/ i = pos[p]
          BY <1>1
        <4> QED BY <4>1, <4>2, <4>3
      <3> QED BY <2>2, <3>1, <3>2, <3>4, <3>5
    <2> QED BY <2>1, <2>2
  <1> QED BY <1>6, <1>7, <1>8, <1>9, <1>10, <1>11, <1>12 DEF IInv

\* Only Commit changes what other transactions see: the whole effect at once.
LEMMA CommitEffect ==
    ASSUME IInv, NEW p \in Poster, Commit(p), NEW h \in Handle
    PROVE  /\ wallet'[h] = wallet[h] + Effect(req[p].entries, h)
           /\ owner[h] = p => row[h] = wallet[h] + Effect(req[p].entries, h)
  <1> DEFINE es == req[p].entries
  <1>1. /\ pc[p] = "commit" /\ req[p] \in Request
        /\ wallet[h] \in Int /\ Len(es) \in Nat /\ Effect(es, h) \in Int
        /\ pos[p] = Len(es) + 1
    <2>1. req[p] \in Request
      BY DEF IInv, TypeOK
    <2>2. Effect(es, h) \in Int
      BY <2>1, UpToType DEF Effect, MaxEntries
    <2> QED BY <2>1, <2>2, EntriesType DEF Commit, IInv, TypeOK, LoopInv
  <1>2. pos[p] - 1 = Len(es)
    BY <1>1
  <1>3. UpTo(es, pos[p] - 1, h) = Effect(es, h)
    BY <1>1, <1>2, UpToAll
  <1>4. owner[h] = p => row[h] = wallet[h] + Effect(es, h)
    BY <1>1, <1>3 DEF IInv, WrittenInv, InTxn
  <1>5. owner[h] # p => Effect(es, h) = 0
    <2>1. owner[h] # p => \A i \in 1..Len(es) : i < pos[p] => es[i].handle # h
      BY <1>1 DEF IInv, WrittenInv, InTxn
    <2>2. ASSUME NEW i \in 1..Len(es) PROVE i < pos[p] /\ i <= Len(es)
      BY <1>1
    <2>3. owner[h] # p => \A i \in 1..Len(es) : i <= Len(es) => es[i].handle # h
      BY <2>1, <2>2
    <2>4. owner[h] # p => UpTo(es, Len(es), h) = 0
      BY <1>1, <2>3, NoEntryNoEffect
    <2> QED BY <2>4, <1>2, <1>3
  <1>6. wallet'[h] = IF owner[h] = p THEN row[h] ELSE wallet[h]
    BY DEF Commit
  <1> QED BY <1>1, <1>4, <1>5, <1>6

LEMMA CommitStep ==
    ASSUME IInv, NEW p \in Poster, Commit(p)
    PROVE  IInv'
  <1> USE DEF InTxn
  <1> DEFINE key == req[p].key
  <1>1. /\ pc \in [Poster -> Done \cup InTxn \cup {"check", "insert"}]
        /\ owner \in [Handle -> Poster \cup {NoPoster}]
        /\ row \in [Handle -> Int] /\ wallet \in [Handle -> Int]
        /\ pos \in [Poster -> 1..6] /\ req \in [Poster -> Request]
        /\ posts \in [Key \cup {NoKey} -> Nat] /\ key \in Key \cup {NoKey}
    BY EntriesType DEF IInv, TypeOK, MaxEntries
  <1>2. /\ pc[p] = "commit" /\ pc' = [pc EXCEPT ![p] = "posted"]
        /\ posts' = [posts EXCEPT ![key] = posts[key] + 1]
        /\ pos' = [pos EXCEPT ![p] = 1]
        /\ owner' = [h \in Handle |-> IF owner[h] = p THEN NoPoster ELSE owner[h]]
        /\ wallet' = [h \in Handle |-> IF owner[h] = p THEN row[h] ELSE wallet[h]]
        /\ UNCHANGED <<row, req, seen>>
    BY <1>1 DEF Commit, Goto
  <1>3. \A q \in Poster : pc'[q] \in InTxn => q # p /\ pc[q] \in InTxn
    BY <1>1, <1>2
  <1>4. TypeOK'
    <2>1. \A h \in Handle : Effect(req[p].entries, h) \in Int
      BY <1>1, UpToType DEF Effect, MaxEntries
    <2>2. booked' \in [Handle -> Int] /\ wallet' \in [Handle -> Int]
      BY <2>1, <1>1, <1>2 DEF Commit, IInv, TypeOK
    <2>3. posts' \in [Key \cup {NoKey} -> Nat]
      BY <1>1, <1>2
    <2>4. known' \subseteq Handle
      BY DEF Commit, IInv, TypeOK
    <2>5. /\ row' \in [Handle -> Int] /\ owner' \in [Handle -> Poster \cup {NoPoster}]
          /\ pc' \in [Poster -> Done \cup InTxn \cup {"check", "insert"}]
          /\ req' \in [Poster -> Request] /\ pos' \in [Poster -> 1..6]
          /\ seen' \in [Poster -> Int]
      BY <1>1, <1>2 DEF IInv, TypeOK, Done, Outcomes
    <2> QED BY <2>2, <2>3, <2>4, <2>5 DEF TypeOK, MaxEntries
  <1>5. LockInv'
    BY <1>1, <1>2, LedgerAssumption DEF IInv, LockInv
  <1>6. LoopInv'
    BY <1>1, <1>2 DEF IInv, LoopInv, Done, Outcomes
  <1>7. \A h \in Handle, q \in Poster : q # p =>
           /\ owner'[h] = q <=> owner[h] = q
           /\ owner[h] = q => wallet'[h] = wallet[h]
    BY <1>1, <1>2, LedgerAssumption
  <1>8. WrittenInv'
    <2> SUFFICES ASSUME NEW q \in Poster, q # p, pc[q] \in InTxn, NEW h \in Handle
                 PROVE  /\ owner[h] = q => row[h] = wallet[h] + UpTo(req[q].entries, pos[q] - 1, h)
                        /\ owner[h] # q => \A i \in 1..Len(req[q].entries) :
                                              i < pos[q] => req[q].entries[i].handle # h
                        /\ h \in Member => \A i \in 1..Len(req[q].entries) :
                             i < pos[q] /\ req[q].entries[i].handle = h
                                => wallet'[h] + UpTo(req[q].entries, i, h) >= 0
      BY <1>1, <1>2, <1>3, <1>7 DEF WrittenInv
    <2>1. CASE owner[h] = q
      BY <2>1, <1>7 DEF IInv, WrittenInv
    <2>2. CASE owner[h] # q
      BY <2>2 DEF IInv, WrittenInv
    <2> QED BY <2>1, <2>2
  <1>9. ReadInv'
    <2> SUFFICES ASSUME NEW q \in Poster, q # p, pc[q] = "write"
                 PROVE  /\ owner'[Current(q).handle] = q
                        /\ seen[q] = row[Current(q).handle]
                        /\ Current(q).handle \in Member => seen[q] + Current(q).delta >= 0
      BY <1>1, <1>2 DEF ReadInv, Current
    <2> QED BY <1>7, CurrentEntry DEF IInv, ReadInv
  <1>10. SolventInv'
    BY <1>1, <1>2 DEF IInv, SolventInv, Handle
  <1>11. BalancesMatchEntries'
    <2>1. booked' = [h \in Handle |-> booked[h] + Effect(req[p].entries, h)]
      BY DEF Commit
    <2>2. \A h \in Handle : wallet'[h] = booked'[h]
      BY <2>1, CommitEffect DEF IInv, BalancesMatchEntries
    <2> QED BY <2>1, <2>2, <1>2 DEF BalancesMatchEntries
  <1>12. KeyInv'
    <2>1. key # NoKey => posts[key] = 0
      BY <1>2 DEF IInv, KeyInv
    <2>2. ASSUME NEW q \in Poster, q # p, pc[q] \in InTxn, req[q].key # NoKey
          PROVE  posts'[req[q].key] = 0
      <3>1. posts[req[q].key] = 0 /\ req[q].key \in Key \cup {NoKey}
        BY <2>2, <1>1, EntriesType DEF IInv, KeyInv
      <3>2. req[q].key # key
        BY <2>2, <1>2 DEF IInv, KeyInv
      <3> QED BY <3>1, <3>2, <1>1, <1>2
    <2>3. KeyPostsOnce'
      BY <2>1, <1>1, <1>2, LedgerAssumption DEF IInv, KeyInv, KeyPostsOnce
    <2>4. AcknowledgedIsPosted'
      <3> SUFFICES ASSUME NEW q \in Poster, pc'[q] \in {"posted", "replayed"}
                   PROVE  posts'[req[q].key] > 0
        BY <1>2 DEF AcknowledgedIsPosted
      <3>1. req[q].key \in Key \cup {NoKey}
        BY <1>1, EntriesType
      <3>2. CASE q = p
        BY <3>2, <1>1, <1>2
      <3>3. CASE q # p
        <4>1. posts[req[q].key] > 0
          BY <3>3, <1>1, <1>2 DEF IInv, KeyInv, AcknowledgedIsPosted
        <4> QED BY <4>1, <3>1, <1>1, <1>2
      <3> QED BY <3>2, <3>3
    <2>5. \A q, r \in Poster : pc'[q] \in InTxn /\ pc'[r] \in InTxn /\ req[q].key # NoKey /\ q # r
             => req[q].key # req[r].key
      BY <1>3 DEF IInv, KeyInv
    <2> QED BY <2>2, <2>3, <2>4, <2>5, <1>2, <1>3 DEF KeyInv
  <1> QED BY <1>4, <1>5, <1>6, <1>8, <1>9, <1>10, <1>11, <1>12 DEF IInv

-----------------------------------------------------------------------------
(* Theorems                                                                *)

LEMMA NextIInv == IInv /\ [Next]_vars => IInv'
  <1> SUFFICES ASSUME IInv, [Next]_vars PROVE IInv'
    OBVIOUS
  <1>1. ASSUME NEW p \in Poster, NEW r \in Request, Start(p, r) PROVE IInv'
    BY <1>1, StartStep
  <1>2. ASSUME NEW p \in Poster, CheckKey(p) PROVE IInv'
    <2> DEFINE to == IF IsPosted(req[p].key) THEN "replayed" ELSE "insert"
    <2>1. /\ pc[p] = "check" /\ Goto(p, to) /\ to \in {"replayed", "insert"}
          /\ to = "replayed" => IsPosted(req[p].key)
          /\ UNCHANGED <<committed, row, owner, req, pos, seen>>
      BY <1>2 DEF CheckKey
    <2> HIDE DEF to
    <2> QED BY <2>1, LocalStep
  <1>3. ASSUME NEW p \in Poster, InsertTxn(p) PROVE IInv'
    <2>1. CASE IsPosted(req[p].key)
      BY <1>3, <2>1, RollbackStep DEF InsertTxn
    <2>2. CASE ~IsPosted(req[p].key)
      BY <1>3, <2>2, LocalStep DEF InsertTxn
    <2> QED BY <2>1, <2>2
  <1>4. ASSUME NEW p \in Poster, FindWallet(p) PROVE IInv'
    <2> DEFINE to == IF Visible(p, Current(p).handle) THEN "read" ELSE "create"
    <2>1. /\ pc[p] = "find" /\ Goto(p, to) /\ to \in {"read", "create"}
          /\ UNCHANGED <<committed, row, owner, req, pos, seen>>
      BY <1>4 DEF FindWallet
    <2> HIDE DEF to
    <2> QED BY <2>1, LocalStep
  <1>5. ASSUME NEW p \in Poster, DeadlockVictim(p) \/ Crash(p) PROVE IInv'
    BY <1>5, RollbackStep DEF DeadlockVictim, Crash
  <1>6. CASE UNCHANGED vars
    BY <1>6 DEF vars, IInv, TypeOK, LockInv, LoopInv, WrittenInv, ReadInv, SolventInv, KeyInv,
                KeyPostsOnce, AcknowledgedIsPosted, BalancesMatchEntries, Current
  <1> QED BY <1>1, <1>2, <1>3, <1>4, <1>5, <1>6, CreateWalletStep, ReadBalanceStep,
             WriteBalanceStep, CommitStep DEF Next, Step

\* The strengthening of the safety properties of post() is invariant.
THEOREM Invariance == Spec => []IInv
  BY InitIInv, NextIInv, PTL DEF Spec

\* Type correctness of the ledger.
THEOREM TypeCorrect == Spec => []TypeOK
  BY Invariance, PTL DEF IInv

\* wallets.balance stays in lockstep with ledger_entries, for any number of
\* concurrent posts, wallets and crashes.
THEOREM Lockstep == Spec => []BalancesMatchEntries
  BY Invariance, PTL DEF IInv

\* No interleaving of posts overdraws a member wallet.
THEOREM NoOverdraft == Spec => []NoMemberOverdrawn
  <1>1. IInv => NoMemberOverdrawn
    BY DEF IInv, SolventInv, NoMemberOverdrawn
  <1> QED BY <1>1, Invariance, PTL

\* An idempotency key posts at most once, and a caller who was told that its
\* post went through finds it.
THEOREM Idempotency == Spec => [](KeyPostsOnce /\ AcknowledgedIsPosted)
  BY Invariance, PTL DEF IInv, KeyInv

LEMMA SameEffect ==
    ASSUME NEW es, NEW i, NEW h
    PROVE  /\ Atomic!UpTo(es, i, h) = UpTo(es, i, h)
           /\ Atomic!Effect(es, h) = Effect(es, h)
           /\ Atomic!Balanced(es) = Balanced(es)
  BY DEF Atomic!UpTo, UpTo, Atomic!Effect, Effect, Atomic!Amount, Amount, Atomic!Balanced,
         Balanced, Atomic!Net, Net, Atomic!MaxEntries, MaxEntries

\* A commit is one post of the abstract ledger.
LEMMA CommitIsPost ==
    ASSUME IInv, NEW p \in Poster, Commit(p)
    PROVE  Atomic!Apply(req[p].key, req[p].entries)
  <1> DEFINE es == req[p].entries
             key == req[p].key
  <1>1. /\ pc[p] = "commit" /\ pos[p] = Len(es) + 1 /\ Len(es) \in Nat
        /\ req[p] \in Request /\ key \in Key \cup {NoKey}
    BY EntriesType DEF Commit, IInv, TypeOK, LoopInv
  <1>2. ~Atomic!IsReplay(key)
    BY <1>1 DEF Atomic!IsReplay, IInv, KeyInv, InTxn
  <1>3. Atomic!Balanced(es)
    BY <1>1, SameEffect DEF IInv, LoopInv, Done, Outcomes
  <1>4. Atomic!CanPay(es)
    <2> SUFFICES ASSUME NEW i \in 1..Len(es), es[i].handle \in Member
                 PROVE  wallet[es[i].handle] + UpTo(es, i, es[i].handle) >= 0
      BY SameEffect DEF Atomic!CanPay
    <2>1. i < pos[p] /\ es[i].handle \in Handle
      BY <1>1 DEF Handle
    <2> QED BY <1>1, <2>1 DEF IInv, WrittenInv, InTxn
  <1>5. wallet' = [h \in Atomic!Handle |-> wallet[h] + Atomic!Effect(es, h)]
    <2>1. wallet' = [h \in Handle |-> IF owner[h] = p THEN row[h] ELSE wallet[h]]
      BY DEF Commit
    <2>2. \A h \in Handle : wallet'[h] = wallet[h] + Effect(es, h)
      BY CommitEffect
    <2>3. wallet' = [h \in Handle |-> wallet[h] + Effect(es, h)]
      BY <2>1, <2>2
    <2>4. Atomic!Handle = Handle
      BY DEF Atomic!Handle, Handle, Atomic!System, System, Atomic!LpFees, LpFees,
             Atomic!Issued, Issued, Atomic!EscrowHandle, EscrowHandle
    <2> QED BY <2>3, <2>4, SameEffect
  <1>6. {k \in Key : posts'[k] > 0} = {k \in Key : posts[k] > 0} \cup ({key} \ {NoKey})
    <2>1. /\ posts' = [posts EXCEPT ![key] = posts[key] + 1]
          /\ posts \in [Key \cup {NoKey} -> Nat]
      BY <1>1 DEF Commit, IInv, TypeOK
    <2> QED BY <1>1, <2>1, LedgerAssumption
  <1> QED BY <1>2, <1>3, <1>4, <1>5, <1>6 DEF Atomic!Apply

\* Any other step leaves what the abstract ledger shows alone.
LEMMA OtherStepsStutter ==
    ASSUME [Next]_vars, \A p \in Poster : ~Commit(p)
    PROVE  UNCHANGED <<wallet, posts>>
  BY DEF Next, Step, vars, committed, Start, CheckKey, InsertTxn, FindWallet, CreateWallet,
         ReadBalance, WriteBalance, DeadlockVictim, Crash, Rollback

\* Concurrent posts are serializable: the SQL of post() implements the ledger
\* whose posts are atomic.
THEOREM Serializability == Spec => ImplementsAtomicLedger
  <1>1. Init => Atomic!LedgerInit
    BY DEF Init, Atomic!LedgerInit, Atomic!Handle, Handle, Atomic!System, System,
           Atomic!LpFees, LpFees, Atomic!Issued, Issued, Atomic!EscrowHandle, EscrowHandle
  <1>2. IInv /\ [Next]_vars => [Atomic!LedgerNext]_(Atomic!ledgerVars)
    <2> SUFFICES ASSUME IInv, [Next]_vars
                 PROVE  Atomic!LedgerNext \/ UNCHANGED Atomic!ledgerVars
      OBVIOUS
    <2>1. ASSUME NEW p \in Poster, Commit(p) PROVE Atomic!LedgerNext
      <3>1. req[p] \in Request
        BY DEF IInv, TypeOK
      <3>2. Atomic!Apply(req[p].key, req[p].entries)
        BY <2>1, CommitIsPost
      <3>3. \E r \in Request : Atomic!Apply(r.key, r.entries)
        BY <3>1, <3>2 DEF Atomic!Apply
      <3> QED BY <3>3 DEF Atomic!LedgerNext
    <2>2. CASE \A p \in Poster : ~Commit(p)
      BY <2>2, OtherStepsStutter DEF Atomic!ledgerVars
    <2> QED BY <2>1, <2>2
  <1> QED BY <1>1, <1>2, Invariance, PTL DEF Spec, ImplementsAtomicLedger, Atomic!LedgerSpec

-----------------------------------------------------------------------------
(***************************************************************************)
(* What the planners promise, for every amount, rate and referral graph.   *)
(***************************************************************************)

\* round() is off by at most a half.
LEMMA RoundedType == ASSUME NEW n \in Int, NEW p \in Nat PROVE Rounded(n, p) \in Int
  <1>1. ASSUME NEW x \in Int
        PROVE  /\ x \div 100 \in Int /\ x % 100 \in 0..99 /\ x = (100 * (x \div 100)) + (x % 100)
    OBVIOUS
  <1> QED BY <1>1 DEF Rounded

LEMMA RoundedBounds ==
    ASSUME NEW n \in Int, NEW p \in Nat
    PROVE  /\ 100 * Rounded(n, p) <= n * p + 50
           /\ 100 * Rounded(n, p) >= n * p - 50
  <1> DEFINE x == n * p
  <1>1. x \in Int
    OBVIOUS
  <1> HIDE DEF x
  <1>2. /\ x \div 100 \in Int /\ x % 100 \in 0..99 /\ x = (100 * (x \div 100)) + (x % 100)
    BY <1>1
  <1>3. Rounded(n, p) = IF x % 100 > 50 \/ (x % 100 = 50 /\ (x \div 100) % 2 = 1)
                          THEN (x \div 100) + 1 ELSE x \div 100
    BY DEF Rounded, x
  <1>4. 100 * Rounded(n, p) <= x + 50 /\ 100 * Rounded(n, p) >= x - 50
    BY <1>2, <1>3
  <1> QED BY <1>4 DEF x

\* Of a natural number of credits, a natural number.
LEMMA RoundedNonNegative ==
    ASSUME NEW n \in Nat, NEW p \in Nat PROVE Rounded(n, p) \in Nat
  <1> DEFINE x == n * p
             r == Rounded(n, p)
  <1>1. x \in Nat
    OBVIOUS
  <1>2. r \in Int /\ 100 * r >= x - 50
    BY RoundedType, RoundedBounds
  <1> HIDE DEF x, r
  <1>3. r \in Nat
    BY <1>1, <1>2
  <1> QED BY <1>3 DEF r

\* The parts of a split, each an integer.
LEMMA SplitParts ==
    ASSUME NEW gross \in Nat, NEW l1, NEW l2, NEW external \in Nat
    PROVE  LET s == Split(gross, l1, l2, external)
           IN  /\ s.fee \in Nat /\ s.fee = Rounded(gross, FeePct)
               /\ s.l1 \in Int /\ s.l2 \in Int
               /\ s.l1 = IF l1 # NoHandle THEN Rounded(s.fee - external, L1Pct) ELSE 0
               /\ s.l2 = IF l2 # NoHandle THEN Rounded(s.fee - external, L2Pct) ELSE 0
               /\ s.lpKeep = s.fee - s.l1 - s.l2
  <1> DEFINE fee == Rounded(gross, FeePct)
             net == fee - external
             s == Split(gross, l1, l2, external)
  <1>0. FeePct \in Nat /\ L1Pct \in Nat /\ L2Pct \in Nat
    BY PlansAssumption
  <1>1. fee \in Nat
    BY <1>0, RoundedNonNegative
  <1>2. net \in Int
    <2> HIDE DEF fee
    <2> QED BY <1>1
  <1>3. Rounded(net, L1Pct) \in Int /\ Rounded(net, L2Pct) \in Int
    <2> HIDE DEF net
    <2> QED BY <1>0, <1>2, RoundedType
  <1>4. fee - (IF external > 0 THEN external ELSE 0) = net
    <2> HIDE DEF fee
    <2> QED BY <1>1
  <1>5. /\ s.fee = fee
        /\ s.l1 = (IF l1 # NoHandle THEN Rounded(net, L1Pct) ELSE 0)
        /\ s.l2 = (IF l2 # NoHandle THEN Rounded(net, L2Pct) ELSE 0)
        /\ s.lpKeep = s.fee - s.l1 - s.l2
    BY <1>4 DEF Split
  <1> QED BY <1>1, <1>3, <1>5

\* Net, and each of its terms.
LEMMA NetTerms ==
    ASSUME NEW es \in Seq(EntryType)
    PROVE  LET d(i) == IF i \in 1..Len(es) THEN es[i].delta ELSE 0
           IN  /\ d(1) \in Int /\ d(2) \in Int /\ d(3) \in Int /\ d(4) \in Int /\ d(5) \in Int
               /\ Net(es) = d(1) + d(2) + d(3) + d(4) + d(5)
  <1>1. \A i \in 1..Len(es) : es[i].delta \in Int
    <2>1. \A i \in 1..Len(es) : es[i] \in EntryType
      OBVIOUS
    <2>2. \A e \in EntryType : e.delta \in Int
      BY DEF EntryType
    <2> QED BY <2>1, <2>2
  <1> QED BY <1>1 DEF Net

\* One more entry adds its delta.
LEMMA NetOfOneMore ==
    ASSUME NEW es \in Seq(EntryType), Len(es) < MaxEntries, NEW e \in EntryType
    PROVE  /\ es \o <<e>> \in Seq(EntryType)
           /\ Len(es \o <<e>>) = Len(es) + 1
           /\ Net(es \o <<e>>) = Net(es) + e.delta
  <1> DEFINE more == es \o <<e>>
             d(i) == IF i \in 1..Len(es) THEN es[i].delta ELSE 0
             m(i) == IF i \in 1..Len(more) THEN more[i].delta ELSE 0
  <1>1. /\ more \in Seq(EntryType)
        /\ Len(more) = Len(es) + 1
        /\ \A i \in 1..Len(es) : more[i] = es[i]
        /\ more[Len(es) + 1] = e
    OBVIOUS
  <1> HIDE DEF more
  <1>2. \A i \in 1..5 : /\ i = Len(es) + 1 => m(i) = d(i) + e.delta
                        /\ i # Len(es) + 1 => m(i) = d(i)
    BY <1>1 DEF EntryType
  <1>3. Len(es) + 1 \in 1..5 /\ e.delta \in Int
    BY DEF MaxEntries, EntryType
  <1>4. /\ d(1) \in Int /\ d(2) \in Int /\ d(3) \in Int /\ d(4) \in Int /\ d(5) \in Int
        /\ Net(es) = d(1) + d(2) + d(3) + d(4) + d(5)
    BY NetTerms
  <1>5. Net(more) = m(1) + m(2) + m(3) + m(4) + m(5)
    BY <1>1, NetTerms
  <1> HIDE DEF d, m
  <1> DEFINE new(i) == IF i = Len(es) + 1 THEN e.delta ELSE 0
  <1>6. m(1) = d(1) + new(1) /\ m(2) = d(2) + new(2) /\ m(3) = d(3) + new(3)
        /\ m(4) = d(4) + new(4) /\ m(5) = d(5) + new(5)
    <2>1. \A i \in 1..5 : d(i) \in Int => m(i) = d(i) + new(i)
      BY <1>2, <1>3
    <2>2. 1 \in 1..5 /\ 2 \in 1..5 /\ 3 \in 1..5 /\ 4 \in 1..5 /\ 5 \in 1..5
      OBVIOUS
    <2> HIDE DEF new
    <2> QED BY <1>4, <2>1, <2>2
  <1>7. /\ new(1) \in Int /\ new(2) \in Int /\ new(3) \in Int /\ new(4) \in Int /\ new(5) \in Int
        /\ new(1) + new(2) + new(3) + new(4) + new(5) = e.delta
    BY <1>3
  <1> HIDE DEF new
  <1>8. Net(more) = Net(es) + e.delta
    <2>1. PICK a, b, c, k, l \in Int : a = d(1) /\ b = d(2) /\ c = d(3) /\ k = d(4) /\ l = d(5)
      BY <1>4
    <2>2. PICK v, w, x, y, z \in Int :
             v = new(1) /\ w = new(2) /\ x = new(3) /\ y = new(4) /\ z = new(5)
      BY <1>7
    <2>3. Net(es) = a + b + c + k + l /\ e.delta = v + w + x + y + z
      BY <1>4, <1>7, <2>1, <2>2
    <2>4. Net(more) = (a + v) + (b + w) + (c + x) + (k + y) + (l + z)
      BY <1>5, <1>6, <2>1, <2>2
    <2> QED BY <2>3, <2>4
  <1> QED BY <1>1, <1>8 DEF more

\* An affiliate's entry adds the cut, whether or not there is one.
LEMMA NetOfAffiliate ==
    ASSUME NEW es \in Seq(EntryType), Len(es) < MaxEntries,
           NEW h \in Levels, NEW cut \in Int, h = NoHandle => cut = 0
    PROVE  /\ es \o Affiliate(h, cut) \in Seq(EntryType)
           /\ Len(es) <= Len(es \o Affiliate(h, cut))
           /\ Len(es \o Affiliate(h, cut)) <= Len(es) + 1
           /\ Net(es \o Affiliate(h, cut)) = Net(es) + cut
  <1>0. Net(es) \in Int
    <2> DEFINE d(i) == IF i \in 1..Len(es) THEN es[i].delta ELSE 0
    <2>1. /\ d(1) \in Int /\ d(2) \in Int /\ d(3) \in Int /\ d(4) \in Int /\ d(5) \in Int
          /\ Net(es) = d(1) + d(2) + d(3) + d(4) + d(5)
      BY NetTerms
    <2> HIDE DEF d
    <2> QED BY <2>1
  <1>1. CASE h # NoHandle /\ cut # 0
    <2>1. Entry(h, cut) \in EntryType /\ Entry(h, cut).delta = cut
      BY <1>1 DEF Entry, EntryType, Levels, Handle
    <2>2. Affiliate(h, cut) = <<Entry(h, cut)>>
      BY <1>1 DEF Affiliate
    <2> QED BY <2>1, <2>2, NetOfOneMore
  <1>2. CASE ~(h # NoHandle /\ cut # 0)
    <2>1. Affiliate(h, cut) = <<>> /\ cut = 0
      BY <1>2 DEF Affiliate
    <2>2. es \o <<>> = es
      OBVIOUS
    <2> QED BY <1>0, <2>1, <2>2
  <1> QED BY <1>1, <1>2

\* The type of two and of three entries, and what they net to.
LEMMA NetOfTwo ==
    ASSUME NEW h \in Handle, NEW g \in Handle, NEW n \in Int, NEW m \in Int
    PROVE  LET es == <<Entry(h, n), Entry(g, m)>>
           IN  es \in Seq(EntryType) /\ Net(es) = n + m
  <1>1. Entry(h, n) \in EntryType /\ Entry(g, m) \in EntryType
    BY DEF Entry, EntryType
  <1>2. <<Entry(h, n), Entry(g, m)>> \in Seq(EntryType)
    BY <1>1
  <1>3. Entry(h, n).delta = n /\ Entry(g, m).delta = m
    BY DEF Entry
  <1>4. Net(<<Entry(h, n), Entry(g, m)>>) = n + m
    BY <1>3 DEF Net
  <1> QED BY <1>2, <1>4

LEMMA NetOfThree ==
    ASSUME NEW h \in Handle, NEW g \in Handle, NEW f \in Handle,
           NEW n \in Int, NEW m \in Int, NEW k \in Int
    PROVE  LET es == <<Entry(h, n), Entry(g, m), Entry(f, k)>>
           IN  es \in Seq(EntryType) /\ Len(es) = 3 /\ Net(es) = n + m + k
  <1>1. Entry(h, n) \in EntryType /\ Entry(g, m) \in EntryType /\ Entry(f, k) \in EntryType
    BY DEF Entry, EntryType
  <1>2. <<Entry(h, n), Entry(g, m), Entry(f, k)>> \in Seq(EntryType)
    BY <1>1
  <1>3. Entry(h, n).delta = n /\ Entry(g, m).delta = m /\ Entry(f, k).delta = k
    BY DEF Entry
  <1>4. Net(<<Entry(h, n), Entry(g, m), Entry(f, k)>>) = n + m + k
    BY <1>3 DEF Net
  <1> QED BY <1>2, <1>4

\* A sale nets to zero whatever the rates, the external cost and the affiliates.
LEMMA SaleBalances ==
    ASSUME NEW payer \in Handle, NEW seller \in Handle, NEW gross \in Nat,
           NEW l1 \in Levels, NEW l2 \in Levels, NEW external \in Nat
    PROVE  LET es == Sale(payer, seller, gross, l1, l2, external)
           IN  es \in Seq(EntryType) /\ Balanced(es) /\ Len(es) >= 3
  <1> DEFINE s == Split(gross, l1, l2, external)
             base == <<Entry(payer, -gross), Entry(seller, gross - s.fee), Entry(LpFees, s.lpKeep)>>
             with1 == base \o Affiliate(l1, s.l1)
             with2 == with1 \o Affiliate(l2, s.l2)
  <1>1. /\ s.fee \in Nat /\ s.l1 \in Int /\ s.l2 \in Int /\ s.lpKeep \in Int
        /\ s.lpKeep = s.fee - s.l1 - s.l2
        /\ l1 = NoHandle => s.l1 = 0
        /\ l2 = NoHandle => s.l2 = 0
    <2>1. /\ s.fee \in Nat /\ s.l1 \in Int /\ s.l2 \in Int
          /\ s.lpKeep = s.fee - s.l1 - s.l2
          /\ l1 = NoHandle => s.l1 = 0
          /\ l2 = NoHandle => s.l2 = 0
      BY SplitParts
    <2> HIDE DEF s
    <2> QED BY <2>1
  <1>2. Sale(payer, seller, gross, l1, l2, external) = with2
    BY DEF Sale
  <1> HIDE DEF s
  <1>3. base \in Seq(EntryType) /\ Len(base) = 3 /\ Net(base) = -gross + (gross - s.fee) + s.lpKeep
    <2>1. LpFees \in Handle /\ -gross \in Int /\ gross - s.fee \in Int
      BY <1>1 DEF Handle, System
    <2> QED BY <1>1, <2>1, NetOfThree
  <1> HIDE DEF base
  <1>4. with1 \in Seq(EntryType) /\ Len(with1) <= 4 /\ Len(with1) >= 3 /\ Net(with1) = Net(base) + s.l1
    <2>1. Len(base) < MaxEntries
      BY <1>3 DEF MaxEntries
    <2>2. /\ with1 \in Seq(EntryType) /\ Len(with1) <= Len(base) + 1 /\ Len(with1) >= Len(base)
          /\ Net(with1) = Net(base) + s.l1
      BY <1>1, <1>3, <2>1, NetOfAffiliate
    <2> HIDE DEF with1
    <2>3. Len(with1) <= 4 /\ Len(with1) >= 3
      BY <1>3, <2>2
    <2> QED BY <2>2, <2>3
  <1> HIDE DEF with1
  <1>5. with2 \in Seq(EntryType) /\ Net(with2) = Net(with1) + s.l2 /\ Len(with2) >= Len(with1)
    <2>1. Len(with1) < MaxEntries
      BY <1>4 DEF MaxEntries
    <2> QED BY <1>1, <1>4, <2>1, NetOfAffiliate
  <1> HIDE DEF with2
  <1>6. Net(with2) = 0
    <2>1. Net(with2) = ((-gross + (gross - s.fee) + s.lpKeep) + s.l1) + s.l2
      BY <1>3, <1>4, <1>5
    <2> QED BY <1>1, <2>1
  <1>7. Len(with2) >= 3
    <2>1. Len(with1) \in Nat /\ Len(with2) \in Nat
      BY <1>4, <1>5
    <2> QED BY <1>4, <1>5, <2>1
  <1> QED BY <1>2, <1>5, <1>6, <1>7 DEF Balanced

\* So does the commission on an external sale.
LEMMA CommissionBalances ==
    ASSUME NEW l1 \in Levels, NEW l2 \in Levels, NEW base \in Nat
    PROVE  CommissionPlan(l1, l2, base) \in Seq(EntryType) /\ Balanced(CommissionPlan(l1, l2, base))
  <1> DEFINE cut1 == IF l1 # NoHandle THEN Rounded(base, L1Pct) ELSE 0
             cut2 == IF l2 # NoHandle THEN Rounded(base, L2Pct) ELSE 0
             none == <<>>
             paid1 == none \o Affiliate(l1, cut1)
             paid2 == paid1 \o Affiliate(l2, cut2)
             owed == Entry(Issued, -(cut1 + cut2))
  <1>1. cut1 \in Nat /\ cut2 \in Nat
    BY RoundedNonNegative, PlansAssumption
  <1>2. (l1 = NoHandle => cut1 = 0) /\ (l2 = NoHandle => cut2 = 0)
    OBVIOUS
  <1>3. CommissionPlan(l1, l2, base) \in {none, paid2 \o <<owed>>}
    <2>1. paid2 = Affiliate(l1, cut1) \o Affiliate(l2, cut2)
      BY DEF Affiliate
    <2> QED BY <2>1 DEF CommissionPlan
  <1> HIDE DEF cut1, cut2, none
  <1>4. none \in Seq(EntryType) /\ Len(none) = 0 /\ Net(none) = 0
    BY DEF Net, none
  <1>5. paid1 \in Seq(EntryType) /\ Len(paid1) <= 1 /\ Net(paid1) = cut1
    <2>1. Len(none) < MaxEntries
      BY <1>4 DEF MaxEntries
    <2>2. /\ paid1 \in Seq(EntryType) /\ Len(paid1) <= Len(none) + 1
          /\ Net(paid1) = Net(none) + cut1
      <3>1. none \in Seq(EntryType) /\ cut1 \in Int /\ (l1 = NoHandle => cut1 = 0)
        BY <1>1, <1>2, <1>4
      <3> QED BY ONLY <2>1, <3>1, l1 \in Levels, NetOfAffiliate
    <2> HIDE DEF paid1
    <2> QED BY <1>1, <1>4, <2>2
  <1> HIDE DEF paid1
  <1>6. paid2 \in Seq(EntryType) /\ Len(paid2) <= 2 /\ Net(paid2) = cut1 + cut2
    <2>1. Len(paid1) < MaxEntries
      BY <1>5 DEF MaxEntries
    <2>2. /\ paid2 \in Seq(EntryType) /\ Len(paid2) <= Len(paid1) + 1
          /\ Net(paid2) = Net(paid1) + cut2
      BY <1>1, <1>2, <1>5, <2>1, NetOfAffiliate
    <2> HIDE DEF paid2
    <2> QED BY <1>5, <2>2
  <1> HIDE DEF paid2
  <1>7. owed \in EntryType /\ owed.delta = -(cut1 + cut2)
    BY <1>1 DEF Entry, EntryType, Handle, System
  <1> HIDE DEF owed
  <1>8. paid2 \o <<owed>> \in Seq(EntryType) /\ Net(paid2 \o <<owed>>) = Net(paid2) + owed.delta
    <2>1. Len(paid2) < MaxEntries
      BY <1>6 DEF MaxEntries
    <2> QED BY <1>6, <1>7, <2>1, NetOfOneMore
  <1>9. Net(paid2 \o <<owed>>) = 0
    BY <1>1, <1>6, <1>7, <1>8
  <1> QED BY <1>3, <1>4, <1>8, <1>9 DEF Balanced

-----------------------------------------------------------------------------
(* The theorems                                                            *)

\* affiliate_chain yields a member or nobody, for any map of the members.
LEMMA ChainType ==
    ASSUME NEW seller \in Member, NEW referredBy \in [Member -> Levels]
    PROVE  LET chain == AffiliateChain(seller, referredBy)
           IN  /\ chain \in Levels \X Levels
               /\ seller \notin {chain[1], chain[2]}
               /\ chain[2] # NoHandle => chain[1] \notin {chain[2], NoHandle}
  <1>1. NoHandle \notin Member
    BY PlansAssumption DEF Handle
  <1>2. \A m \in Member : referredBy[m] \in Levels
    OBVIOUS
  <1> QED BY <1>1, <1>2 DEF AffiliateChain, Levels

LEMMA EventFields ==
    ASSUME CasesTypeOK
    PROVE  /\ event.seller \in Member /\ event.gross \in Nat /\ event.gross > 0
           /\ event.external \in Nat /\ event.payer \in Handle
           /\ event.chain \in Levels \X Levels
  <1>1. /\ event.seller \in Member /\ event.gross \in Gross /\ event.external \in External
        /\ event.payer \in Handle /\ event.chain \in Levels \X Levels
    BY DEF CasesTypeOK, EventType
  <1>2. \A n \in Gross : n \in Nat /\ n > 0
    BY PlanCasesAssumption
  <1> QED BY <1>1, <1>2, PlanCasesAssumption

\* Every plan is well typed and nets to exactly zero.
THEOREM PlansBalance == CasesSpec => [](CasesTypeOK /\ EveryPlanBalances)
  <1>1. CasesInit => CasesTypeOK /\ EveryPlanBalances
    <2> SUFFICES ASSUME CasesInit PROVE CasesTypeOK /\ EveryPlanBalances
      OBVIOUS
    <2>1. event \in EventType
      BY DEF CasesInit, EventType, Handle, System, Levels
    <2>2. plan \in Seq(EntryType) /\ Net(plan) = 0
      BY DEF CasesInit, Net
    <2> QED BY <2>1, <2>2 DEF CasesTypeOK, EveryPlanBalances, Balanced
  <1>2. CasesTypeOK /\ EveryPlanBalances /\ [CasesNext]_<<event, plan>> => (CasesTypeOK /\ EveryPlanBalances)'
    <2> SUFFICES ASSUME CasesTypeOK, EveryPlanBalances, [CasesNext]_<<event, plan>>
                 PROVE  CasesTypeOK' /\ EveryPlanBalances'
      OBVIOUS
    <2>1. /\ event.seller \in Member /\ event.gross \in Nat /\ event.external \in Nat
          /\ event.seller \in Handle /\ Member \subseteq Handle
          /\ Issued \in Handle /\ EscrowHandle \in Handle
      BY EventFields DEF Handle, System
    <2>2. ASSUME NEW kind \in Transfers, NEW member \in Member, PlanTransfer(kind, member)
          PROVE  CasesTypeOK' /\ EveryPlanBalances'
      <3>1. event' \in EventType
        BY <2>1, <2>2 DEF PlanTransfer, CasesTypeOK, EventType
      <3>2. plan' \in {TopupPlan(member, event.gross), HoldPlan(member, event.gross),
                       RefundPlan(member, event.gross), PayoutPlan(member, event.gross)}
        BY <2>2 DEF PlanTransfer, Transfers
      <3>3. /\ TopupPlan(member, event.gross) \in Seq(EntryType)
            /\ Net(TopupPlan(member, event.gross)) = 0
        BY <2>1, NetOfTwo DEF TopupPlan
      <3>4. /\ HoldPlan(member, event.gross) \in Seq(EntryType)
            /\ Net(HoldPlan(member, event.gross)) = 0
        BY <2>1, NetOfTwo DEF HoldPlan
      <3>5. /\ RefundPlan(member, event.gross) \in Seq(EntryType)
            /\ Net(RefundPlan(member, event.gross)) = 0
        BY <2>1, NetOfTwo DEF RefundPlan
      <3>6. /\ PayoutPlan(member, event.gross) \in Seq(EntryType)
            /\ Net(PayoutPlan(member, event.gross)) = 0
        BY <2>1, NetOfTwo DEF PayoutPlan
      <3> QED BY <3>1, <3>2, <3>3, <3>4, <3>5, <3>6 DEF CasesTypeOK, EveryPlanBalances, Balanced
    <2>3. ASSUME NEW kind \in Sales, NEW payer \in Handle,
                 NEW referredBy \in [Member -> Levels], PlanSale(kind, payer, referredBy)
          PROVE  CasesTypeOK' /\ EveryPlanBalances'
      <3> DEFINE chain == AffiliateChain(event.seller, referredBy)
                 es == Sale(payer, event.seller, event.gross, chain[1], chain[2], event.external)
      <3>1. chain \in Levels \X Levels /\ chain[1] \in Levels /\ chain[2] \in Levels
        BY <2>1, ChainType
      <3>2. event' = [event EXCEPT !.kind = kind, !.payer = payer, !.chain = chain]
        BY <2>3 DEF PlanSale
      <3>3. plan' \in {<<>>, es}
        BY <2>3 DEF PlanSale
      <3> HIDE DEF chain
      <3>4. event' \in EventType
        BY <3>1, <3>2 DEF CasesTypeOK, EventType
      <3>5. es \in Seq(EntryType) /\ Balanced(es)
        BY <2>1, <3>1, SaleBalances
      <3>6. <<>> \in Seq(EntryType) /\ Balanced(<<>>)
        BY DEF Balanced, Net
      <3> HIDE DEF es
      <3> QED BY <3>3, <3>4, <3>5, <3>6 DEF CasesTypeOK, EveryPlanBalances
    <2>4. ASSUME NEW referredBy \in [Member -> Levels], PlanCommission(referredBy)
          PROVE  CasesTypeOK' /\ EveryPlanBalances'
      <3> DEFINE chain == AffiliateChain(event.seller, referredBy)
      <3>1. chain \in Levels \X Levels /\ chain[1] \in Levels /\ chain[2] \in Levels
        BY <2>1, ChainType
      <3>2. /\ event' = [event EXCEPT !.kind = "commission", !.chain = chain]
            /\ plan' = CommissionPlan(chain[1], chain[2], event.gross)
        BY <2>4 DEF PlanCommission
      <3> HIDE DEF chain
      <3>3. event' \in EventType
        BY <3>1, <3>2 DEF CasesTypeOK, EventType
      <3>4. plan' \in Seq(EntryType) /\ Balanced(plan')
        BY <2>1, <3>1, <3>2, CommissionBalances
      <3> QED BY <3>3, <3>4 DEF CasesTypeOK, EveryPlanBalances
    <2>5. CASE UNCHANGED <<event, plan>>
      BY <2>5 DEF CasesTypeOK, EveryPlanBalances
    <2> QED BY <2>1, <2>2, <2>3, <2>4, <2>5 DEF CasesNext, Sales
  <1> QED BY <1>1, <1>2, PTL DEF CasesSpec

\* What two levels that share at most half of a fee take from it, rounding
\* included, is at most the fee.
LEMMA HalfFits ==
    ASSUME NEW fee \in Nat, NEW external \in Nat,
           NEW p \in Nat, NEW q \in Nat, p + q <= 50
    PROVE  Rounded(fee - external, p) + Rounded(fee - external, q) <= fee
  <1> DEFINE n == fee - external
             x == n * p
             y == n * q
             r == Rounded(n, p)
             s == Rounded(n, q)
  <1>1. n \in Int /\ n <= fee /\ p \in Nat /\ q \in Nat
    OBVIOUS
  <1> HIDE DEF n
  <1>2. x \in Int /\ y \in Int /\ r \in Int /\ s \in Int
    BY <1>1, RoundedType
  <1>3. 100 * r <= x + 50 /\ 100 * s <= y + 50
    BY <1>1, RoundedBounds
  <1>4. x + y = n * (p + q)
    BY <1>1
  <1>5. CASE n <= 0
    <2>1. x <= 0 /\ y <= 0
      BY <1>1, <1>5
    <2> HIDE DEF x, y, r, s
    <2>2. r <= 0 /\ s <= 0
      BY <1>2, <1>3, <2>1
    <2> QED BY <1>2, <2>2 DEF n, r, s
  <1>6. CASE n = 1
    <2>1. x = p /\ y = q
      BY <1>1, <1>6
    <2>2. p <= 50 /\ q <= 50
      BY <1>1
    <2>3. \A k \in Nat : k <= 50 => Rounded(1, k) = 0
      <3> SUFFICES ASSUME NEW k \in Nat, k <= 50 PROVE Rounded(1, k) = 0
        OBVIOUS
      <3>1. (1 * k) \div 100 = 0 /\ (1 * k) % 100 = k
        OBVIOUS
      <3> QED BY <3>1 DEF Rounded
    <2>4. r = 0 /\ s = 0
      BY <1>1, <1>6, <2>2, <2>3
    <2> QED BY <1>2, <2>4 DEF n, r, s
  <1>7. CASE n >= 2
    <2>1. n * (p + q) <= n * 50
      BY <1>1, <1>7
    <2> HIDE DEF x, y, r, s
    <2>2. 100 * (r + s) <= n * 50 + 100
      BY <1>1, <1>2, <1>3, <1>4, <2>1
    <2>3. r + s <= n
      BY <1>1, <1>2, <1>7, <2>2
    <2> QED BY <1>1, <1>2, <2>3 DEF n, r, s
  <1> QED BY <1>1, <1>5, <1>6, <1>7

LEMMA OneFits ==
    ASSUME NEW fee \in Nat, NEW external \in Nat, NEW p \in Nat, p <= 50
    PROVE  Rounded(fee - external, p) <= fee
  <1>1. Rounded(fee - external, p) + Rounded(fee - external, 0) <= fee
    <2>1. 0 \in Nat /\ p + 0 <= 50
      OBVIOUS
    <2> QED BY <2>1, HalfFits
  <1>2. Rounded(fee - external, 0) = 0
    <2>1. \A n \in Int : n * 0 = 0
      OBVIOUS
    <2>2. 0 \div 100 = 0 /\ 0 % 100 = 0
      OBVIOUS
    <2> QED BY <2>1, <2>2 DEF Rounded
  <1>3. Rounded(fee - external, p) \in Int
    BY RoundedType
  <1> QED BY <1>1, <1>2, <1>3

\* Where both affiliate levels share at most half the net fee (the default rates
\* do), no sale is ever refused for its split.
THEOREM NoRefusal == L1Pct + L2Pct <= 50 => (CasesSpec => []NoSaleRefused)
  <1> SUFFICES ASSUME L1Pct + L2Pct <= 50 PROVE CasesSpec => []NoSaleRefused
    OBVIOUS
  <1>1. CasesInit => NoSaleRefused
    BY DEF CasesInit, NoSaleRefused, Sales
  <1>2. CasesTypeOK /\ NoSaleRefused /\ [CasesNext]_<<event, plan>> => NoSaleRefused'
    <2> SUFFICES ASSUME CasesTypeOK, NoSaleRefused, [CasesNext]_<<event, plan>>
                 PROVE  NoSaleRefused'
      OBVIOUS
    <2>1. ASSUME NEW kind \in Sales, NEW payer \in Handle,
                 NEW referredBy \in [Member -> Levels], PlanSale(kind, payer, referredBy)
          PROVE  plan' # <<>>
      <3> DEFINE chain == AffiliateChain(event.seller, referredBy)
                 s == Split(event.gross, chain[1], chain[2], event.external)
                 cut1 == Rounded(s.fee - event.external, L1Pct)
                 cut2 == Rounded(s.fee - event.external, L2Pct)
                 base == <<Entry(payer, -event.gross), Entry(event.seller, event.gross - s.fee),
                           Entry(LpFees, s.lpKeep)>>
      <3>1. event.gross \in Nat /\ event.external \in Nat
        BY EventFields
      <3> HIDE DEF chain
      <3>2. /\ s.fee \in Nat /\ s.l1 \in Int /\ s.l2 \in Int
            /\ s.l1 = IF chain[1] # NoHandle THEN cut1 ELSE 0
            /\ s.l2 = IF chain[2] # NoHandle THEN cut2 ELSE 0
            /\ s.lpKeep = s.fee - s.l1 - s.l2
        BY <3>1, SplitParts
      <3> DEFINE net == s.fee - event.external
      <3>3. cut1 + cut2 <= s.fee /\ cut1 <= s.fee /\ cut2 <= s.fee
        <4>1. L1Pct \in Nat /\ L2Pct \in Nat /\ L1Pct <= 50 /\ L2Pct <= 50
          BY PlansAssumption
        <4> HIDE DEF s
        <4> QED BY <3>1, <3>2, <4>1, HalfFits, OneFits
      <3>4. cut1 \in Int /\ cut2 \in Int
        <4>1. net \in Int /\ L1Pct \in Nat /\ L2Pct \in Nat
          BY <3>1, <3>2, PlansAssumption
        <4> HIDE DEF s
        <4> QED BY <4>1, RoundedType
      <3> HIDE DEF cut1, cut2
      <3>5. s.lpKeep >= 0
        <4> HIDE DEF s
        <4> QED BY <3>2, <3>3, <3>4
      <3>6. plan' = Sale(payer, event.seller, event.gross, chain[1], chain[2], event.external)
        BY <2>1, <3>5 DEF PlanSale, SplitFits, chain
      <3>7. Len(plan') >= 3
        <4>1. event.seller \in Handle /\ chain[1] \in Levels /\ chain[2] \in Levels
          BY EventFields, ChainType DEF chain, Handle
        <4> QED BY <3>1, <3>6, <4>1, SaleBalances
      <3> QED BY <3>7
    <2>2. event \in EventType
      BY DEF CasesTypeOK
    <2>3. ASSUME NEW kind \in Transfers, NEW member \in Member, PlanTransfer(kind, member)
          PROVE  event'.kind \notin Sales
      BY <2>2, <2>3 DEF PlanTransfer, Sales, Transfers, EventType
    <2>4. ASSUME NEW referredBy \in [Member -> Levels], PlanCommission(referredBy)
          PROVE  event'.kind \notin Sales
      BY <2>2, <2>4 DEF PlanCommission, Sales, EventType
    <2>5. CASE UNCHANGED <<event, plan>>
      BY <2>5 DEF NoSaleRefused
    <2>6. CASE CasesNext
      <3>1. event'.kind \notin Sales \/ plan' # <<>>
        BY <2>1, <2>3, <2>4, <2>6 DEF CasesNext, Sales, Handle, System
      <3> QED BY <3>1 DEF NoSaleRefused
    <2> QED BY <2>5, <2>6
  <1> QED BY <1>1, <1>2, PlansBalance, PTL DEF CasesSpec

\* No referral graph, however cyclic, pays the seller or pays anybody twice.
THEOREM NoSelfDealing == CasesSpec => []AffiliatesAreOthers
  <1>1. CasesInit => AffiliatesAreOthers
    BY PlansAssumption DEF CasesInit, AffiliatesAreOthers, Handle
  <1>2. CasesTypeOK /\ AffiliatesAreOthers /\ [CasesNext]_<<event, plan>> => AffiliatesAreOthers'
    <2> SUFFICES ASSUME CasesTypeOK, AffiliatesAreOthers, [CasesNext]_<<event, plan>>
                 PROVE  AffiliatesAreOthers'
      OBVIOUS
    <2>1. event.seller \in Member /\ event \in EventType
      BY EventFields DEF CasesTypeOK
    <2>2. ASSUME NEW kind \in Transfers, NEW member \in Member, PlanTransfer(kind, member)
          PROVE  AffiliatesAreOthers'
      <3>1. event'.seller = event.seller /\ event'.chain = event.chain
        BY <2>1, <2>2 DEF PlanTransfer, EventType
      <3> QED BY <3>1 DEF AffiliatesAreOthers
    <2>3. ASSUME NEW referredBy \in [Member -> Levels],
                 event'.seller = event.seller,
                 event'.chain = AffiliateChain(event.seller, referredBy)
          PROVE  AffiliatesAreOthers'
      <3> DEFINE chain == AffiliateChain(event.seller, referredBy)
      <3>1. event.seller \notin {chain[1], chain[2]} /\ (chain[2] # NoHandle => chain[1] \notin {chain[2], NoHandle})
        BY <2>1, ChainType
      <3> HIDE DEF chain
      <3> QED BY <2>3, <3>1 DEF AffiliatesAreOthers, chain
    <2>4. ASSUME NEW kind \in Sales, NEW payer \in Handle,
                 NEW referredBy \in [Member -> Levels], PlanSale(kind, payer, referredBy)
          PROVE  AffiliatesAreOthers'
      <3>1. event'.seller = event.seller /\ event'.chain = AffiliateChain(event.seller, referredBy)
        BY <2>1, <2>4 DEF PlanSale, EventType
      <3> QED BY <2>3, <3>1
    <2>5. ASSUME NEW referredBy \in [Member -> Levels], PlanCommission(referredBy)
          PROVE  AffiliatesAreOthers'
      <3>1. event'.seller = event.seller /\ event'.chain = AffiliateChain(event.seller, referredBy)
        BY <2>1, <2>5 DEF PlanCommission, EventType
      <3> QED BY <2>3, <3>1
    <2>6. CASE UNCHANGED <<event, plan>>
      BY <2>6 DEF AffiliatesAreOthers
    <2> QED BY <2>2, <2>4, <2>5, <2>6 DEF CasesNext, Sales, Handle, System
  <1> QED BY <1>1, <1>2, PlansBalance, PTL DEF CasesSpec

=============================================================================
