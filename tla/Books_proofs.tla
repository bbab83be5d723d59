----------------------------- MODULE Books_proofs ------------------------------
(***************************************************************************)
(* Proofs about the bookkeeping ledgers, for any number of calls, ledgers, *)
(* statements and lines.                                                   *)
(***************************************************************************)
EXTENDS Books, SequenceTheorems, FiniteSetTheorems, TLAPS

-----------------------------------------------------------------------------
(* Rows                                                                    *)

\* A row and its parts.
LEMMA RowParts ==
    ASSUME NEW rows \in Seq(Row), NEW i \in DOMAIN rows
    PROVE  /\ i \in 1 .. Len(rows) /\ rows[i] \in Row
           /\ rows[i].line \in Line /\ rows[i].key \in Line \cup {Changed} /\ rows[i].mark \in Mark
<1>1. i \in 1 .. Len(rows) /\ rows[i] \in Row
  OBVIOUS
<1> QED
  BY <1>1 DEF Row

\* Facts that say less are shown as well.
LEMMA ShowsLess ==
    ASSUME NEW rows, NEW facts, NEW less, Shows(rows, facts),
           \A g \in less : \E f \in facts :
               g.line = f.line /\ (g.mark = NoMark \/ (g.mark = f.mark))
    PROVE  Shows(rows, less)
BY DEF Shows

\* Content shows its own facts.
LEMMA ShowsItsOwn ==
    ASSUME NEW rows \in Seq(Row)
    PROVE  Shows(rows, Facts(rows)) /\ Facts(rows) \subseteq Fact
BY RowParts DEF Shows, Facts, Fact

\* apply_vendor_map changes nothing but marks that are not there.
LEMMA TaggedRows ==
    ASSUME NEW rows \in Seq(Row), NEW rule \in [Line -> Mark]
    PROVE  /\ Tagged(rows, rule) \in Seq(Row) /\ Len(Tagged(rows, rule)) = Len(rows)
           /\ \A i \in DOMAIN rows :
                  /\ i \in DOMAIN Tagged(rows, rule)
                  /\ Tagged(rows, rule)[i].line = rows[i].line
                  /\ Tagged(rows, rule)[i].key = rows[i].key
                  /\ rows[i].mark # NoMark => Tagged(rows, rule)[i].mark = rows[i].mark
           /\ DOMAIN Tagged(rows, rule) = DOMAIN rows
<1> DEFINE new == Tagged(rows, rule)
<1>1. rows \in [1 .. Len(rows) -> Row] /\ Len(rows) \in Nat /\ DOMAIN rows = 1 .. Len(rows)
  OBVIOUS
<1>2. ASSUME NEW i \in DOMAIN rows
      PROVE  /\ new[i] \in Row
             /\ new[i].line = rows[i].line /\ new[i].key = rows[i].key
             /\ rows[i].mark # NoMark => new[i].mark = rows[i].mark
  <2>1. rows[i] \in Row /\ rule[rows[i].line] \in Mark
    BY <1>2, RowParts
  <2> QED
    BY <1>2, <2>1 DEF Tagged, Row
<1>3. new \in [1 .. Len(rows) -> Row] /\ DOMAIN new = 1 .. Len(rows)
  BY <1>1, <1>2 DEF Tagged
<1>4. new \in Seq(Row) /\ Len(new) = Len(rows)
  BY <1>1, <1>3
<1> QED
  BY <1>1, <1>2, <1>3, <1>4

LEMMA TaggedShows ==
    ASSUME NEW rows \in Seq(Row), NEW rule \in [Line -> Mark], NEW facts, Shows(rows, facts)
    PROVE  Shows(Tagged(rows, rule), facts)
BY TaggedRows DEF Shows

LEMMA TaggedTwins ==
    ASSUME NEW rows \in Seq(Row), NEW rule \in [Line -> Mark], NoTwin(rows)
    PROVE  NoTwin(Tagged(rows, rule))
<1>1. /\ DOMAIN Tagged(rows, rule) = DOMAIN rows
      /\ \A i \in DOMAIN rows : Tagged(rows, rule)[i].key = rows[i].key
  BY TaggedRows
<1> QED
  BY <1>1 DEF NoTwin

\* What append_imported_rows makes: the rows that were there, then lines whose keys
\* were not, each once.
LEMMA ImportedRows ==
    ASSUME NEW rows \in Seq(Row), NEW f \in File, NEW new \in Imported(rows, f)
    PROVE  /\ new \in Seq(Row)
           /\ \A i \in DOMAIN rows : i \in DOMAIN new /\ new[i] = rows[i]
           /\ NoTwin(rows) => NoTwin(new)
<1> DEFINE unseen == Unseen(rows, f)
<1>1. unseen \subseteq Line /\ IsFiniteSet(unseen)
  BY BooksAssumption, FS_Subset DEF Unseen
<1>2. Cardinality(unseen) \in Nat
  BY <1>1, FS_CardinalityType
<1>3. PICK s \in SetToSeqs(unseen) : new = rows \o [i \in DOMAIN s |-> Fresh(s[i])]
  BY DEF Imported
<1>4. /\ s \in [1 .. Cardinality(unseen) -> unseen]
      /\ \A i, j \in 1 .. Cardinality(unseen) : i # j => s[i] # s[j]
  BY <1>3 DEF SetToSeqs
<1> DEFINE n == Cardinality(unseen)
           more == [i \in DOMAIN s |-> Fresh(s[i])]
<1>5. /\ more \in [1 .. n -> Row]
      /\ \A i \in 1 .. n : more[i].key = s[i]
  BY <1>1, <1>4 DEF Fresh, Row, Mark
<1> HIDE DEF n, more
<1>6. more \in Seq(Row) /\ Len(more) = n
  BY <1>2, <1>5 DEF n
<1>7. /\ new \in Seq(Row) /\ Len(new) = Len(rows) + n
      /\ \A i \in 1 .. Len(rows) + n :
             new[i] = IF i <= Len(rows) THEN rows[i] ELSE more[i - Len(rows)]
  BY <1>3, <1>6, ConcatProperties DEF more
<1>8. Len(rows) \in Nat /\ n \in Nat /\ DOMAIN rows = 1 .. Len(rows) /\ DOMAIN new = 1 .. Len(rows) + n
  BY <1>2, <1>7 DEF n
<1>9. ASSUME NoTwin(rows), NEW i \in DOMAIN new, NEW j \in DOMAIN new, i # j, new[i].key = new[j].key
      PROVE  new[i].key = Changed
  <2>1. CASE i <= Len(rows) /\ j <= Len(rows)
    BY <1>7, <1>8, <1>9, <2>1 DEF NoTwin
  <2>2. ASSUME NEW k \in DOMAIN new, k > Len(rows)
        PROVE  /\ k - Len(rows) \in 1 .. n /\ new[k].key = s[k - Len(rows)]
               /\ new[k].key \notin KeysIn(rows)
    <3>1. k - Len(rows) \in 1 .. n /\ new[k] = more[k - Len(rows)]
      BY <1>7, <1>8, <2>2
    <3> QED
      BY <1>4, <1>5, <3>1 DEF Unseen, n
  <2>3. ASSUME NEW k \in DOMAIN new, k <= Len(rows)  PROVE new[k].key \in KeysIn(rows)
    BY <1>7, <1>8, <2>3 DEF KeysIn
  <2>4. CASE i > Len(rows) /\ j > Len(rows)
    <3>1. s[i - Len(rows)] = s[j - Len(rows)] /\ i - Len(rows) # j - Len(rows)
      BY <1>8, <1>9, <2>2, <2>4
    <3> QED
      BY <1>4, <2>2, <2>4, <3>1 DEF n
  <2> QED
    BY <1>8, <1>9, <2>1, <2>2, <2>3, <2>4
<1> QED
  BY <1>7, <1>8, <1>9 DEF NoTwin

\* One row is edited.
LEMMA EditedRows ==
    ASSUME NEW rows \in Seq(Row), NEW i \in DOMAIN rows, NEW row \in Row,
           row.line = rows[i].line, row.key \in {rows[i].key, Changed},
           NEW new, new = [rows EXCEPT ![i] = row]
    PROVE  /\ new \in Seq(Row) /\ DOMAIN new = DOMAIN rows
           /\ new[i].line = rows[i].line
           /\ \A j \in DOMAIN rows : j # i => new[j] = rows[j]
           /\ NoTwin(rows) => NoTwin(new)
<1>1. DOMAIN rows = 1 .. Len(rows) /\ i \in 1 .. Len(rows)
  OBVIOUS
<1>2. /\ new \in Seq(Row) /\ DOMAIN new = DOMAIN rows
      /\ \A j \in DOMAIN rows : new[j] = IF j = i THEN row ELSE rows[j]
  BY <1>1, ExceptSeq
<1>3. NoTwin(rows) => NoTwin(new)
  BY <1>2 DEF NoTwin
<1> QED
  BY <1>2, <1>3

\* One row is removed: the others are there, at their place or the one before.
LEMMA RemovedRows ==
    ASSUME NEW rows \in Seq(Row), NEW i \in DOMAIN rows, NEW new, new = RemoveAt(rows, i)
    PROVE  /\ new \in Seq(Row)
           /\ \A j \in DOMAIN rows : j # i => \E k \in DOMAIN new : new[k] = rows[j]
<1> DEFINE before == SubSeq(rows, 1, i - 1)
           after == SubSeq(rows, i + 1, Len(rows))
<1>1. DOMAIN rows = 1 .. Len(rows) /\ i \in 1 .. Len(rows) /\ Len(rows) \in Nat
  OBVIOUS
<1>2. /\ before \in Seq(Row) /\ Len(before) = i - 1
      /\ \A j \in 1 .. i - 1 : before[j] = rows[j]
  BY <1>1
<1>3. /\ after \in Seq(Row) /\ Len(after) = Len(rows) - i
      /\ \A j \in 1 .. Len(rows) - i : after[j] = rows[i + j]
  BY <1>1
<1>9. new = before \o after
  BY DEF RemoveAt
<1> HIDE DEF before, after
<1>4. /\ new \in Seq(Row) /\ Len(new) = Len(rows) - 1
      /\ \A k \in 1 .. Len(rows) - 1 : new[k] = IF k <= i - 1 THEN before[k] ELSE after[k - (i - 1)]
  <2>1. Len(before) + Len(after) = Len(rows) - 1
    BY <1>1, <1>2, <1>3
  <2>2. /\ before \o after \in Seq(Row) /\ Len(before \o after) = Len(before) + Len(after)
        /\ \A k \in 1 .. Len(before) + Len(after) :
               (before \o after)[k] = IF k <= Len(before) THEN before[k] ELSE after[k - Len(before)]
    BY <1>2, <1>3, ConcatProperties
  <2>3. Len(before) = i - 1
    BY <1>2
  <2> QED
    BY <1>9, <2>1, <2>2, <2>3
<1>5. DOMAIN new = 1 .. Len(rows) - 1
  BY <1>1, <1>4
<1>6. ASSUME NEW j \in DOMAIN rows, j < i  PROVE j \in DOMAIN new /\ new[j] = rows[j]
  BY <1>1, <1>2, <1>4, <1>5, <1>6
<1>7. ASSUME NEW j \in DOMAIN rows, j > i  PROVE j - 1 \in DOMAIN new /\ new[j - 1] = rows[j]
  <2>1. /\ j - 1 \in 1 .. Len(rows) - 1 /\ j - i \in 1 .. Len(rows) - i
        /\ ~(j - 1 <= i - 1) /\ (j - 1) - (i - 1) = j - i /\ i + (j - i) = j
    BY <1>1, <1>7
  <2>2. new[j - 1] = after[j - i]
    BY <1>4, <2>1
  <2>3. after[j - i] = rows[j]
    BY <1>3, <2>1
  <2> QED
    BY <1>5, <2>1, <2>2, <2>3
<1>8. ASSUME NEW j \in DOMAIN rows, j # i  PROVE \E k \in DOMAIN new : new[k] = rows[j]
  <2>1. j < i \/ j > i
    BY <1>1, <1>8
  <2> QED
    BY <1>6, <1>7, <1>8, <2>1
<1> QED
  BY <1>4, <1>8

-----------------------------------------------------------------------------
(* The invariant                                                           *)

\* Who has content to write has the lock, or its content is blank.
PutHasLock ==
    \A c \in Call : /\ call[c].at = "put" => call[c].blank \/ HasLock(c)
                    /\ call[c].blank => call[c].new = <<>> /\ call[c].at # "wait"

\* No content anywhere has twins.
Distinct ==
    /\ \A l \in Statement : NoTwin(file[l]) /\ NoTwin(late[l].rows)
    /\ \A c \in Call : call[c].at = "put" /\ call[c].path \in Statement => NoTwin(call[c].new)

\* All content shows what was acknowledged: what is there, what the server may
\* store yet, what is about to be written.
Shown ==
    /\ \A l \in Ledger : /\ Shows(file[l], kept[l])
                         /\ late[l].busy => Shows(late[l].rows, kept[l])
                         /\ l \notin made => kept[l] = {}
    /\ \A c \in Call : call[c].at = "put" => Shows(call[c].new, kept[call[c].path])

\* Who makes a ledger does so alone, and nothing was acknowledged of it.
Alone ==
    \A c \in Call : Blanking(c) => /\ kept[call[c].path] = {}
                                   /\ \A d \in Call \ {c} : call[d].at = "idle"

IInv == TypeOK /\ PutHasLock /\ Distinct /\ (Calm => Shown /\ Alone)

-----------------------------------------------------------------------------
(* Calls                                                                   *)

LEMMA Types ==
    ASSUME TypeOK
    PROVE  /\ Idle \in Calls /\ Manual \in Ledger
           /\ <<>> \in Seq(Row) /\ 0 \in 0 .. Attempts
           /\ \A c \in Call : call[c] \in Calls
           /\ \A l \in Ledger : /\ file[l] \in Seq(Row) /\ late[l].rows \in Seq(Row)
                                /\ kept[l] \subseteq Fact
<1>1. Manual \in Ledger /\ <<>> \in Seq(Row) /\ 0 \in 0 .. Attempts
  BY BooksAssumption DEF Ledger
<1>2. Idle \in Calls
  BY <1>1 DEF Idle, Calls, At, Ops
<1> QED
  BY <1>1, <1>2 DEF TypeOK

LEMMA BecomesType ==
    ASSUME TypeOK, NEW c \in Call, NEW new \in Calls, Becomes(c, new)
    PROVE  call' \in [Call -> Calls] /\ call'[c] = new /\ \A d \in Call \ {c} : call'[d] = call[d]
BY DEF Becomes, TypeOK

LEMMA LeaveType ==
    ASSUME TypeOK, NEW c \in Call, HasLock(c), Leave(c)
    PROVE  line' \in Seq(Call)
BY DEF TypeOK, HasLock, Leave

\* After an error the call waits for nothing, and has nothing to write.
LEMMA FailsTo ==
    ASSUME TypeOK, NEW c \in Call, NEW todo \in SUBSET call[c].todo, HasLock(c), Fails(c, todo)
    PROVE  /\ line' = Tail(line) /\ line' \in Seq(Call) /\ call' \in [Call -> Calls]
           /\ call'[c].at \in {"idle", "ready"} /\ call'[c].new = <<>>
           /\ call'[c].blank => call[c].blank /\ call'[c].path = call[c].path
           /\ \A d \in Call \ {c} : call'[d] = call[d]
<1> DEFINE on == [call[c] EXCEPT !.at = "ready", !.todo = todo, !.new = <<>>, !.tries = 0]
<1>1. call[c] \in Calls /\ Idle \in Calls /\ <<>> \in Seq(Row) /\ 0 \in 0 .. Attempts
  BY Types
<1>2. on \in Calls /\ on.at = "ready" /\ on.new = <<>> /\ on.blank = call[c].blank /\ on.path = call[c].path
  BY <1>1 DEF Calls, At
<1> HIDE DEF on
<1>3. Becomes(c, on) \/ Becomes(c, Idle)
  BY DEF Fails, on
<1>4. call' \in [Call -> Calls] /\ call'[c] \in {on, Idle} /\ \A d \in Call \ {c} : call'[d] = call[d]
  BY <1>1, <1>2, <1>3, BecomesType
<1>5. line' = Tail(line) /\ line' \in Seq(Call)
  BY LeaveType DEF Fails, Leave
<1> QED
  BY <1>2, <1>4, <1>5 DEF Idle

\* After a write it is on its way to the lock, or goes on with it, with nothing to
\* write yet.
LEMMA ContinuesTo ==
    ASSUME TypeOK, NEW c \in Call, HasLock(c), Continues(c)
    PROVE  /\ line' \in {line, Tail(line)} /\ line' \in Seq(Call) /\ call' \in [Call -> Calls]
           /\ call'[c].at \in {"idle", "ready", "wait"} /\ call'[c].new = <<>> /\ ~call'[c].blank
           /\ \A d \in Call \ {c} : call'[d] = call[d]
<1> DEFINE rest == [call[c] EXCEPT !.new = <<>>, !.tries = 0, !.blank = FALSE]
           wait == [rest EXCEPT !.at = "wait"]
           ready == [rest EXCEPT !.at = "ready"]
<1>1. call[c] \in Calls /\ Idle \in Calls /\ <<>> \in Seq(Row) /\ 0 \in 0 .. Attempts
  BY Types
<1>2. /\ wait \in Calls /\ wait.at = "wait" /\ wait.new = <<>> /\ wait.blank = FALSE
      /\ ready \in Calls /\ ready.at = "ready" /\ ready.new = <<>> /\ ready.blank = FALSE
  BY <1>1 DEF Calls, At
<1>3. \/ Becomes(c, wait) /\ line' = line
      \/ (Becomes(c, ready) \/ Becomes(c, Idle)) /\ Leave(c)
  BY DEF Continues
<1> HIDE DEF wait, ready
<1>4. /\ call' \in [Call -> Calls] /\ call'[c] \in {wait, ready, Idle}
      /\ \A d \in Call \ {c} : call'[d] = call[d]
  BY <1>1, <1>2, <1>3, BecomesType
<1>5. line' \in {line, Tail(line)} /\ line' \in Seq(Call)
  BY <1>3, LeaveType DEF Leave, TypeOK
<1> QED
  BY <1>2, <1>4, <1>5 DEF Idle

-----------------------------------------------------------------------------
(* Steps                                                                   *)

LEMMA InitKeeps == Init => IInv
<1> SUFFICES ASSUME Init PROVE IInv
  OBVIOUS
<1>1. Manual \in Ledger /\ <<>> \in Seq(Row) /\ 0 \in 0 .. Attempts /\ <<>> \in Seq(Call)
  BY BooksAssumption DEF Ledger
<1>2. Idle \in Calls
  BY <1>1 DEF Idle, Calls, At, Ops
<1>3. TypeOK
  BY <1>1, <1>2 DEF Init, TypeOK, NoPut
<1>4. NoTwin(<<>>) /\ \A facts : facts = {} => Shows(<<>>, facts)
  BY DEF NoTwin, Shows
<1>5. PutHasLock /\ Alone
  BY DEF Init, PutHasLock, Alone, Blanking, Idle
<1>6. Distinct
  BY <1>4 DEF Init, Distinct, Idle, NoPut, Ledger
<1>7. Shown
  BY <1>4 DEF Init, Shown, Idle, NoPut
<1> QED
  BY <1>3, <1>5, <1>6, <1>7 DEF IInv

LEMMA BeginKeeps ==
    ASSUME IInv, NEW c \in Call, NEW new \in Calls, Begin(c, new), new.new = <<>>,
           Calm /\ new.blank => new.path \notin made
    PROVE  IInv'
<1> DEFINE ready == [new EXCEPT !.at = "ready"]
<1>0. TypeOK
  BY DEF IInv
<1>1. /\ ready \in Calls /\ ready.at = "ready" /\ ready.new = <<>> /\ ready.blank = new.blank
      /\ ready.path = new.path /\ ready.path \in Ledger
  BY DEF Calls, At
<1>2. /\ call[c].at = "idle" /\ Becomes(c, ready)
      /\ Calm => \A d \in Call : ~Blanking(d) /\ (new.blank => call[d].at = "idle")
      /\ UNCHANGED <<file, made, late, line, kept>>
  BY DEF Begin
<1> HIDE DEF ready
<1>3. call' \in [Call -> Calls] /\ call'[c] = ready /\ \A d \in Call \ {c} : call'[d] = call[d]
  BY <1>0, <1>1, <1>2, BecomesType
<1>4. TypeOK'
  BY <1>2, <1>3 DEF IInv, TypeOK
<1>5. PutHasLock'
  BY <1>1, <1>2, <1>3 DEF IInv, PutHasLock, HasLock
<1>6. Distinct'
  BY <1>1, <1>2, <1>3 DEF IInv, Distinct
<1>7. ASSUME Calm  PROVE Shown' /\ Alone'
  <2>1. Shown'
    BY <1>1, <1>2, <1>3, <1>7 DEF IInv, Shown
  <2>2. new.blank => kept[new.path] = {}
    BY <1>1, <1>7 DEF IInv, Shown
  <2>3. Alone'
    BY <1>1, <1>2, <1>3, <1>7, <2>2 DEF Alone, Blanking
  <2> QED
    BY <2>1, <2>3
<1> QED
  BY <1>4, <1>5, <1>6, <1>7 DEF IInv

LEMMA JoinKeeps ==
    ASSUME IInv, NEW c \in Call, Join(c)
    PROVE  IInv'
<1> DEFINE to == [call[c] EXCEPT !.at = IF call[c].blank THEN "put" ELSE "wait"]
<1>0. TypeOK
  BY DEF IInv
<1>1. call[c] \in Calls /\ call[c].path \in Ledger
  BY <1>0, Types DEF Calls
<1>2. /\ to \in Calls /\ to.blank = call[c].blank /\ to.new = call[c].new /\ to.path = call[c].path
      /\ to.at = IF call[c].blank THEN "put" ELSE "wait"
  BY <1>1 DEF Calls, At
<1>3. /\ call[c].at = "ready" /\ Becomes(c, to) /\ line' = Append(line, c)
      /\ UNCHANGED <<file, made, late, kept>>
  BY DEF Join
<1> HIDE DEF to
<1>4. call' \in [Call -> Calls] /\ call'[c] = to /\ \A d \in Call \ {c} : call'[d] = call[d]
  BY <1>0, <1>2, <1>3, BecomesType
<1>5. line' \in Seq(Call) /\ \A d \in Call : HasLock(d) => HasLock(d)'
  BY <1>0, <1>3 DEF TypeOK, HasLock
<1>6. TypeOK'
  BY <1>3, <1>4, <1>5 DEF IInv, TypeOK
<1>7. PutHasLock'
  BY <1>2, <1>3, <1>4, <1>5 DEF IInv, PutHasLock
<1>8. NoTwin(<<>>)
  BY DEF NoTwin
<1>9. Distinct'
  BY <1>2, <1>3, <1>4, <1>8 DEF IInv, Distinct, PutHasLock
<1>10. ASSUME Calm  PROVE Shown' /\ Alone'
  <2>1. call[c].blank => kept[call[c].path] = {} /\ call[c].new = <<>>
    BY <1>3, <1>10 DEF IInv, Alone, Blanking, PutHasLock
  <2>2. call[c].blank => Shows(call[c].new, kept[call[c].path])
    BY <2>1 DEF Shows
  <2>3. Shown'
    BY <1>2, <1>3, <1>4, <1>10, <2>2 DEF IInv, Shown
  <2>4. Alone'
    BY <1>2, <1>3, <1>4, <1>10 DEF IInv, Alone, Blanking
  <2> QED
    BY <2>3, <2>4
<1> QED
  BY <1>6, <1>7, <1>9, <1>10 DEF IInv

\* A write of content that shows what stays acknowledged of the ledger.
LEMMA PutsKeeps ==
    ASSUME IInv, NEW c \in Call, NEW l \in Ledger, NEW x, NEW new \in Seq(Row), NEW facts \in SUBSET Fact,
           Puts(c, l, x, new, facts),
           l \in Statement => NoTwin(new),
           Calm => Shows(new, facts),
           \A g \in facts : \E f \in kept[l] : g.line = f.line /\ (g.mark = NoMark \/ g.mark = f.mark)
    PROVE  IInv'
<1> DEFINE to == [call[c] EXCEPT !.at = "put", !.path = l, !.new = new, !.todo = @ \ {x}]
<1>0. TypeOK
  BY DEF IInv
<1>1. call[c] \in Calls
  BY <1>0, Types
<1>2. to \in Calls /\ to.at = "put" /\ to.path = l /\ to.new = new /\ to.blank = call[c].blank
  BY <1>1 DEF Calls, At
<1>3. /\ call[c].at = "wait" /\ HasLock(c) /\ l \in made /\ Becomes(c, to)
      /\ kept' = [kept EXCEPT ![l] = facts]
      /\ UNCHANGED <<file, made, late, line>>
  BY DEF Puts
<1> HIDE DEF to
<1>4. call' \in [Call -> Calls] /\ call'[c] = to /\ \A d \in Call \ {c} : call'[d] = call[d]
  BY <1>0, <1>2, <1>3, BecomesType
<1>5. TypeOK' /\ ~call[c].blank
  BY <1>3, <1>4 DEF IInv, TypeOK, PutHasLock
<1>6. PutHasLock'
  BY <1>2, <1>3, <1>4, <1>5 DEF IInv, PutHasLock, HasLock
<1>7. Distinct'
  BY <1>2, <1>3, <1>4 DEF IInv, Distinct
<1>8. \A d \in Call \ {c} : call[d].at = "put" => call[d].blank
  BY <1>3 DEF IInv, PutHasLock, HasLock
<1>9. ASSUME Calm  PROVE Shown' /\ Alone'
  <2>1. \A d \in Call : ~Blanking(d)
    BY <1>3, <1>5, <1>9 DEF IInv, Alone, Blanking
  <2>2. \A d \in Call \ {c} : call[d].at # "put"
    BY <1>8, <2>1 DEF Blanking
  <2>3. \A rows : Shows(rows, kept[l]) => Shows(rows, facts)
    BY ShowsLess
  <2>4. kept'[l] = facts /\ \A k \in Ledger \ {l} : kept'[k] = kept[k]
    BY <1>0, <1>3 DEF TypeOK
  <2>5. Shown'
    BY <1>2, <1>3, <1>4, <1>9, <2>2, <2>3, <2>4 DEF IInv, Shown
  <2>6. Alone'
    BY <1>2, <1>4, <1>5, <2>1 DEF Alone, Blanking
  <2> QED
    BY <2>5, <2>6
<1> QED
  BY <1>5, <1>6, <1>7, <1>9 DEF IInv

LEMMA StartsKeep ==
    ASSUME IInv, NEW c \in Call, Starts(c)
    PROVE  IInv'
<1>0. TypeOK
  BY DEF IInv
<1>1. /\ Idle \in Calls /\ Manual \in Ledger /\ Idle.new = <<>> /\ Idle.path = Manual
      /\ Idle.blank = FALSE /\ made \subseteq Ledger /\ Statement \subseteq Ledger
  BY <1>0, Types DEF Idle, TypeOK, Ledger
<1>2. CASE PickLine(c)
  <2>1. ASSUME NEW l \in Ledger, NEW op \in {"edit", "remove"}
        PROVE  LET new == [Idle EXCEPT !.op = op, !.todo = {l}] IN
               new \in Calls /\ new.new = <<>> /\ new.blank = FALSE
    BY <1>1, <2>1 DEF Calls, Ops
  <2>2. PICK l \in Ledger, op \in {"edit", "remove"} : Begin(c, [Idle EXCEPT !.op = op, !.todo = {l}])
    BY <1>1, <1>2 DEF PickLine
  <2> QED
    BY <2>1, <2>2, BeginKeeps
<1>3. CASE CreateLine(c)
  <2>1. PICK found \in BOOLEAN :
            /\ IF found THEN Manual \in made ELSE Calm => Manual \notin made
            /\ Begin(c, [Idle EXCEPT !.op = "type", !.todo = {Manual}, !.blank = ~found])
    BY <1>3 DEF CreateLine
  <2> DEFINE new == [Idle EXCEPT !.op = "type", !.todo = {Manual}, !.blank = ~found]
  <2>2. new \in Calls /\ new.new = <<>> /\ new.blank = ~found /\ new.path = Manual
    BY <1>1 DEF Calls, Ops
  <2> QED
    BY <2>1, <2>2, BeginKeeps
<1>4. CASE CreateLedger(c)
  <2>1. PICK l \in Statement \ made : Begin(c, [Idle EXCEPT !.op = "open", !.path = l, !.blank = TRUE])
    BY <1>4 DEF CreateLedger
  <2> DEFINE new == [Idle EXCEPT !.op = "open", !.path = l, !.blank = TRUE]
  <2>2. new \in Calls /\ new.new = <<>> /\ new.path = l
    BY <1>1 DEF Calls, Ops
  <2> QED
    BY <2>1, <2>2, BeginKeeps
<1>5. CASE PutMap(c)
  <2> DEFINE new == [Idle EXCEPT !.op = "map", !.todo = made]
  <2>1. new \in Calls /\ new.new = <<>> /\ new.blank = FALSE
    BY <1>1 DEF Calls, Ops
  <2> QED
    BY <1>5, <2>1, BeginKeeps DEF PutMap
<1>6. CASE ProcessDrop(c)
  <2>1. PICK l \in Statement \cap made : Begin(c, [Idle EXCEPT !.op = "process", !.path = l, !.todo = File])
    BY <1>6 DEF ProcessDrop
  <2> DEFINE new == [Idle EXCEPT !.op = "process", !.path = l, !.todo = File]
  <2>2. new \in Calls /\ new.new = <<>> /\ new.blank = FALSE
    BY <1>1 DEF Calls, Ops
  <2> QED
    BY <2>1, <2>2, BeginKeeps
<1> QED
  BY <1>2, <1>3, <1>4, <1>5, <1>6 DEF Starts

LEMMA EditKeeps ==
    ASSUME IInv, NEW c \in Call, EditLine(c)
    PROVE  IInv'
<1>0. TypeOK
  BY DEF IInv
<1>1. PICK l \in Ledger, m \in Mark : \E i \in DOMAIN file[l] : \E key \in {file[l][i].key, Changed} :
          Puts(c, l, l, [file[l] EXCEPT ![i] = [file[l][i] EXCEPT !.mark = m, !.key = key]],
               (kept[l] \ About(kept[l], file[l][i].line))
                   \cup {[f EXCEPT !.mark = NoMark] : f \in About(kept[l], file[l][i].line)})
  BY ZenonT(40) DEF EditLine
<1>2. PICK i \in DOMAIN file[l] : \E key \in {file[l][i].key, Changed} :
          Puts(c, l, l, [file[l] EXCEPT ![i] = [file[l][i] EXCEPT !.mark = m, !.key = key]],
               (kept[l] \ About(kept[l], file[l][i].line))
                   \cup {[f EXCEPT !.mark = NoMark] : f \in About(kept[l], file[l][i].line)})
  BY <1>1
<1>3. PICK key \in {file[l][i].key, Changed} :
          Puts(c, l, l, [file[l] EXCEPT ![i] = [file[l][i] EXCEPT !.mark = m, !.key = key]],
               (kept[l] \ About(kept[l], file[l][i].line))
                   \cup {[f EXCEPT !.mark = NoMark] : f \in About(kept[l], file[l][i].line)})
  BY <1>2
<1> DEFINE rows == file[l]
           row == [rows[i] EXCEPT !.mark = m, !.key = key]
           new == [rows EXCEPT ![i] = row]
           open == About(kept[l], rows[i].line)
           facts == (kept[l] \ open) \cup {[f EXCEPT !.mark = NoMark] : f \in open}
<1>4. rows \in Seq(Row) /\ kept[l] \subseteq Fact
  BY <1>0, Types
<1>5. /\ i \in DOMAIN rows /\ new = [rows EXCEPT ![i] = row]
      /\ row \in Row /\ row.line = rows[i].line /\ row.key \in {rows[i].key, Changed}
  <2>1. rows[i] \in Row
    BY <1>4
  <2>2. row \in Row /\ row.line = rows[i].line /\ row.key = key
    BY <2>1 DEF Row
  <2> QED
    BY <2>2
<1>6. Puts(c, l, l, new, facts)
  BY <1>3
<1> HIDE DEF rows, row, new
<1>7. /\ new \in Seq(Row) /\ DOMAIN new = DOMAIN rows /\ new[i].line = rows[i].line
      /\ \A j \in DOMAIN rows : j # i => new[j] = rows[j]
      /\ NoTwin(rows) => NoTwin(new)
  BY <1>4, <1>5, EditedRows
<1>8. open = {f \in kept[l] : f.line = rows[i].line}
  BY DEF About
<1> HIDE DEF open
<1>9. \A f \in open : LET g == [f EXCEPT !.mark = NoMark] IN
          /\ f \in kept[l] /\ f.line = rows[i].line
          /\ g \in Fact /\ g.line = f.line /\ g.mark = NoMark
  BY <1>4, <1>8 DEF Fact, Mark
<1>10. /\ facts \in SUBSET Fact
       /\ \A g \in facts : \E f \in kept[l] : g.line = f.line /\ (g.mark = NoMark \/ g.mark = f.mark)
  BY <1>4, <1>9
<1>11. \A g \in facts : \/ g.line = rows[i].line /\ g.mark = NoMark
                        \/ g \in kept[l] /\ g.line # rows[i].line
  BY <1>8, <1>9, ZenonT(40)
<1> HIDE DEF facts
<1>12. Shows(rows, kept[l]) => Shows(new, facts)
  BY <1>5, <1>7, <1>11 DEF Shows
<1>13. Calm => Shows(rows, kept[l])
  BY DEF IInv, Shown, rows
<1>14. l \in Statement => NoTwin(new)
  BY <1>7 DEF IInv, Distinct, rows
<1> QED
  BY <1>6, <1>7, <1>10, <1>12, <1>13, <1>14, PutsKeeps

LEMMA RemoveKeeps ==
    ASSUME IInv, NEW c \in Call, RemoveLine(c)
    PROVE  IInv'
<1>0. TypeOK
  BY DEF IInv
<1>1. PICK i \in DOMAIN file[Manual] :
          Puts(c, Manual, Manual, RemoveAt(file[Manual], i),
               kept[Manual] \ About(kept[Manual], file[Manual][i].line))
  BY DEF RemoveLine
<1> DEFINE rows == file[Manual]
           new == RemoveAt(rows, i)
           facts == kept[Manual] \ About(kept[Manual], rows[i].line)
<1>2. Manual \in Ledger /\ Manual \notin Statement /\ rows \in Seq(Row) /\ kept[Manual] \subseteq Fact
  BY <1>0, Types, BooksAssumption
<1>3. /\ new \in Seq(Row)
      /\ \A j \in DOMAIN rows : j # i => \E k \in DOMAIN new : new[k] = rows[j]
  BY <1>2, RemovedRows
<1>4. \A g \in facts : g \in kept[Manual] /\ g.line # rows[i].line
  BY DEF About
<1>5. Puts(c, Manual, Manual, new, facts)
  BY <1>1
<1>6. facts \in SUBSET Fact
  BY <1>2
<1> HIDE DEF new, facts
<1>7. Shows(rows, kept[Manual]) => Shows(new, facts)
  BY <1>3, <1>4 DEF Shows
<1>8. Calm => Shows(rows, kept[Manual])
  BY <1>2 DEF IInv, Shown
<1> QED
  BY <1>2, <1>3, <1>4, <1>5, <1>6, <1>7, <1>8, PutsKeeps

LEMMA TypeKeeps ==
    ASSUME IInv, NEW c \in Call, TypeLine(c)
    PROVE  IInv'
<1>0. TypeOK
  BY DEF IInv
<1>1. PICK b \in Typed :
          Puts(c, Manual, Manual, Append(file[Manual], [Fresh(b) EXCEPT !.key = Changed]), kept[Manual])
  BY DEF TypeLine
<1> DEFINE rows == file[Manual]
           row == [Fresh(b) EXCEPT !.key = Changed]
           new == Append(rows, row)
<1>2. Manual \in Ledger /\ Manual \notin Statement /\ rows \in Seq(Row) /\ kept[Manual] \subseteq Fact
  BY <1>0, Types, BooksAssumption
<1>3. row \in Row
  BY DEF Fresh, Row, Line, Mark
<1> HIDE DEF row
<1>4. /\ new \in Seq(Row)
      /\ \A j \in DOMAIN rows : j \in DOMAIN new /\ new[j] = rows[j]
  BY <1>2, <1>3
<1>5. Puts(c, Manual, Manual, new, kept[Manual])
  BY <1>1 DEF row
<1> HIDE DEF new
<1>6. Shows(rows, kept[Manual]) => Shows(new, kept[Manual])
  BY <1>4 DEF Shows
<1>7. Calm => Shows(rows, kept[Manual])
  BY <1>2 DEF IInv, Shown
<1> QED
  BY <1>2, <1>4, <1>5, <1>6, <1>7, PutsKeeps

LEMMA MapKeeps ==
    ASSUME IInv, NEW c \in Call, ApplyMap(c)
    PROVE  IInv'
<1>0. TypeOK
  BY DEF IInv
<1>1. PICK l \in Ledger, rule \in [Line -> Mark] : Puts(c, l, l, Tagged(file[l], rule), kept[l])
  BY DEF ApplyMap
<1>2. file[l] \in Seq(Row) /\ kept[l] \in SUBSET Fact
  BY <1>0, Types
<1>3. Tagged(file[l], rule) \in Seq(Row)
  BY <1>2, TaggedRows
<1>4. Calm => Shows(Tagged(file[l], rule), kept[l])
  BY <1>2, TaggedShows DEF IInv, Shown
<1>5. l \in Statement => NoTwin(Tagged(file[l], rule))
  BY <1>2, TaggedTwins DEF IInv, Distinct
<1> QED
  BY <1>1, <1>2, <1>3, <1>4, <1>5, PutsKeeps

LEMMA IngestKeeps ==
    ASSUME IInv, NEW c \in Call, IngestFile(c)
    PROVE  IInv'
<1>0. TypeOK
  BY DEF IInv
<1> DEFINE l == call[c].path
<1>7a. PICK f \in File, rule \in [Line -> Mark] :
          \E r \in Imported(file[l], f) : Puts(c, l, f, Tagged(r, rule), kept[l])
  BY DEF IngestFile
<1>1. PICK r \in Imported(file[l], f) : Puts(c, l, f, Tagged(r, rule), kept[l])
  BY <1>7a
<1>2. l \in Ledger
  BY <1>0, Types DEF Calls
<1>3. file[l] \in Seq(Row) /\ kept[l] \in SUBSET Fact
  BY <1>0, <1>2, Types
<1>4. /\ r \in Seq(Row)
      /\ \A i \in DOMAIN file[l] : i \in DOMAIN r /\ r[i] = file[l][i]
      /\ NoTwin(file[l]) => NoTwin(r)
  BY <1>3, ImportedRows
<1>5. Tagged(r, rule) \in Seq(Row)
  BY <1>4, TaggedRows
<1>6. Calm => Shows(file[l], kept[l])
  BY <1>2 DEF IInv, Shown
<1>7. Calm => Shows(r, kept[l])
  BY <1>4, <1>6 DEF Shows
<1>8. Calm => Shows(Tagged(r, rule), kept[l])
  BY <1>4, <1>7, TaggedShows
<1>9. l \in Statement => NoTwin(Tagged(r, rule))
  BY <1>4, TaggedTwins DEF IInv, Distinct
<1> HIDE DEF l
<1> QED
  BY <1>1, <1>2, <1>3, <1>5, <1>8, <1>9, PutsKeeps

\* A PUT without an answer, if there is one: the server has the same content.
LEMMA LateKeeps ==
    ASSUME IInv, NEW c \in Call,
           \/ UNCHANGED late
           \/ /\ call[c].at = "put"
              /\ late' = [late EXCEPT ![call[c].path] = [busy |-> TRUE, rows |-> call[c].new]]
    PROVE  /\ late' \in [Ledger -> [busy : BOOLEAN, rows : Seq(Row)]]
           /\ \A l \in Statement : NoTwin(late'[l].rows)
           /\ Calm => \A l \in Ledger : late'[l].busy => Shows(late'[l].rows, kept[l])
<1>1. call[c] \in Calls /\ call[c].path \in Ledger /\ call[c].new \in Seq(Row)
  BY Types DEF IInv, Calls
<1>2. CASE UNCHANGED late
  BY <1>2 DEF IInv, TypeOK, Distinct, Shown
<1>3. CASE /\ call[c].at = "put"
           /\ late' = [late EXCEPT ![call[c].path] = [busy |-> TRUE, rows |-> call[c].new]]
  <2>1. \A l \in Ledger : late'[l] = IF l = call[c].path THEN [busy |-> TRUE, rows |-> call[c].new]
                                     ELSE late[l]
    BY <1>3 DEF IInv, TypeOK
  <2>2. late' \in [Ledger -> [busy : BOOLEAN, rows : Seq(Row)]]
    BY <1>1, <1>3 DEF IInv, TypeOK
  <2>3. \A l \in Statement : NoTwin(late'[l].rows)
    BY <1>3, <2>1 DEF IInv, Distinct, Ledger
  <2>4. Calm => \A l \in Ledger : late'[l].busy => Shows(late'[l].rows, kept[l])
    BY <1>3, <2>1 DEF IInv, Shown
  <2> QED
    BY <2>2, <2>3, <2>4
<1> QED
  BY <1>2, <1>3

LEMMA FailsKeeps ==
    ASSUME IInv, NEW c \in Call, NEW todo \in SUBSET call[c].todo,
           HasLock(c), call[c].at # "idle", Fails(c, todo), UNCHANGED <<file, made, kept>>,
           \/ UNCHANGED late
           \/ /\ call[c].at = "put"
              /\ late' = [late EXCEPT ![call[c].path] = [busy |-> TRUE, rows |-> call[c].new]]
    PROVE  IInv'
<1>0. TypeOK
  BY DEF IInv
<1>1. /\ line' = Tail(line) /\ line' \in Seq(Call) /\ call' \in [Call -> Calls]
      /\ call'[c].at \in {"idle", "ready"} /\ call'[c].new = <<>>
      /\ call'[c].blank => call[c].blank /\ call'[c].path = call[c].path
      /\ \A d \in Call \ {c} : call'[d] = call[d]
  BY <1>0, FailsTo
<1>2. /\ late' \in [Ledger -> [busy : BOOLEAN, rows : Seq(Row)]]
      /\ \A l \in Statement : NoTwin(late'[l].rows)
      /\ Calm => \A l \in Ledger : late'[l].busy => Shows(late'[l].rows, kept[l])
  BY LateKeeps
<1>3. TypeOK'
  BY <1>1, <1>2 DEF IInv, TypeOK
<1>4. PutHasLock'
  BY <1>1 DEF IInv, PutHasLock, HasLock
<1>5. Distinct'
  BY <1>1, <1>2 DEF IInv, Distinct
<1>6. ASSUME Calm  PROVE Shown' /\ Alone'
  <2>1. Shown'
    BY <1>1, <1>2, <1>6 DEF IInv, Shown
  <2>2. Alone /\ UNCHANGED kept
    BY <1>6 DEF IInv
  <2>3. \A d \in Call \ {c} : ~Blanking(d)'
    BY <1>1, <2>2 DEF Alone, Blanking
  <2>4. Blanking(c)' => Blanking(c)
    BY <1>1 DEF Blanking
  <2>5. ASSUME NEW e \in Call, Blanking(e)'
        PROVE  /\ kept'[call'[e].path] = {}
               /\ \A d \in Call \ {e} : call'[d].at = "idle"
    <3>1. e = c /\ Blanking(c)
      BY <2>3, <2>4, <2>5
    <3>2. call'[e].path = call[c].path
      BY <1>1, <2>5, <3>1 DEF Blanking
    <3>3. kept[call[c].path] = {} /\ \A d \in Call \ {c} : call[d].at = "idle"
      BY <2>2, <3>1 DEF Alone
    <3>4. kept' = kept
      BY <2>2
    <3> QED
      BY <1>1, <3>1, <3>2, <3>3, <3>4
  <2>6. Alone'
    BY <2>5 DEF Alone
  <2> QED
    BY <2>1, <2>6
<1> QED
  BY <1>3, <1>4, <1>5, <1>6 DEF IInv

LEMMA SkipKeeps ==
    ASSUME IInv, NEW c \in Call, Skip(c)
    PROVE  IInv'
<1>1. PICK x \in call[c].todo : Fails(c, call[c].todo \ {x})
  BY DEF Skip
<1> QED
  BY <1>1, FailsKeeps DEF Skip

LEMMA NotStoredKeeps ==
    ASSUME IInv, NEW c \in Call, NotStored(c)
    PROVE  IInv'
<1> DEFINE again == [call[c] EXCEPT !.tries = @ + 1]
<1>0. TypeOK
  BY DEF IInv
<1>1. /\ call[c].at = "put" /\ HasLock(c) /\ UNCHANGED <<file, made, kept>>
      /\ \/ UNCHANGED late
         \/ /\ call[c].at = "put"
            /\ late' = [late EXCEPT ![call[c].path] = [busy |-> TRUE, rows |-> call[c].new]]
  BY DEF NotStored
<1>2. CASE Fails(c, call[c].todo)
  BY <1>1, <1>2, FailsKeeps
<1>3. CASE /\ call[c].tries + 1 < Attempts
           /\ Becomes(c, again)
           /\ UNCHANGED line
  <2>1. call[c] \in Calls
    BY <1>0, Types
  <2>2. /\ again \in Calls /\ again.at = "put" /\ again.path = call[c].path
        /\ again.new = call[c].new /\ again.blank = call[c].blank
    BY <1>1, <1>3, <2>1, BooksAssumption DEF Calls
  <2> HIDE DEF again
  <2>3. call' \in [Call -> Calls] /\ call'[c] = again /\ \A d \in Call \ {c} : call'[d] = call[d]
    BY <1>0, <1>3, <2>2, BecomesType
  <2>4. /\ late' \in [Ledger -> [busy : BOOLEAN, rows : Seq(Row)]]
        /\ \A l \in Statement : NoTwin(late'[l].rows)
        /\ Calm => \A l \in Ledger : late'[l].busy => Shows(late'[l].rows, kept[l])
    BY <1>1, LateKeeps
  <2>5. TypeOK'
    BY <1>1, <1>3, <2>3, <2>4 DEF IInv, TypeOK
  <2>6. PutHasLock'
    BY <1>1, <1>3, <2>2, <2>3 DEF IInv, PutHasLock, HasLock
  <2>7. Distinct'
    BY <1>1, <2>2, <2>3, <2>4 DEF IInv, Distinct
  <2>8. ASSUME Calm  PROVE Shown' /\ Alone'
    <3>1. Shown'
      BY <1>1, <2>2, <2>3, <2>4, <2>8 DEF IInv, Shown
    <3>2. \A d \in Call : /\ call'[d].at = call[d].at /\ call'[d].blank = call[d].blank
                          /\ call'[d].path = call[d].path
      BY <1>1, <2>2, <2>3
    <3>3. Alone'
      BY <1>1, <2>8, <3>2 DEF IInv, Alone, Blanking
    <3> QED
      BY <3>1, <3>3
  <2> QED
    BY <2>5, <2>6, <2>7, <2>8 DEF IInv
<1> QED
  BY <1>2, <1>3 DEF NotStored

LEMMA StoredKeeps ==
    ASSUME IInv, NEW c \in Call, Stored(c)
    PROVE  IInv'
<1> DEFINE l == call[c].path
           new == call[c].new
<1>0. TypeOK
  BY DEF IInv
<1>1. l \in Ledger /\ new \in Seq(Row)
  BY <1>0, Types DEF Calls
<1>2. /\ call[c].at = "put" /\ HasLock(c) /\ ~late[l].busy /\ Continues(c)
      /\ file' = [file EXCEPT ![l] = new] /\ made' = made \cup {l}
      /\ kept' = [kept EXCEPT ![l] = Facts(new)] /\ UNCHANGED late
  BY DEF Stored
<1>3. /\ line' \in {line, Tail(line)} /\ line' \in Seq(Call) /\ call' \in [Call -> Calls]
      /\ call'[c].at \in {"idle", "ready", "wait"} /\ call'[c].new = <<>> /\ ~call'[c].blank
      /\ \A d \in Call \ {c} : call'[d] = call[d]
  BY <1>0, <1>2, ContinuesTo
<1>4. Shows(new, Facts(new)) /\ Facts(new) \subseteq Fact
  BY <1>1, ShowsItsOwn
<1>5. l \in Statement => NoTwin(new)
  BY <1>2 DEF IInv, Distinct
<1>6. Calm => Shown /\ Alone
  BY DEF IInv
<1>7. \A d \in Call \ {c} : call[d].at = "put" => call[d].blank
  BY <1>2 DEF IInv, PutHasLock, HasLock
<1> HIDE DEF l, new
<1>8. /\ file'[l] = new /\ \A k \in Ledger \ {l} : file'[k] = file[k]
      /\ kept'[l] = Facts(new) /\ \A k \in Ledger \ {l} : kept'[k] = kept[k]
  BY <1>0, <1>1, <1>2 DEF TypeOK
<1>9. TypeOK'
  BY <1>1, <1>2, <1>3, <1>4 DEF IInv, TypeOK
<1>10. PutHasLock'
  BY <1>3, <1>7 DEF IInv, PutHasLock
<1>11. Distinct'
  BY <1>1, <1>2, <1>3, <1>5, <1>8 DEF IInv, Distinct, Ledger
<1>12. ASSUME Calm  PROVE Shown' /\ Alone'
  <2>1. \A d \in Call \ {c} : ~Blanking(d) /\ call[d].at # "put"
    BY <1>2, <1>6, <1>7, <1>12 DEF Alone, Blanking
  <2>2. Shown'
    BY <1>1, <1>2, <1>3, <1>4, <1>6, <1>8, <1>12, <2>1 DEF Shown
  <2>3. Alone'
    BY <1>3, <2>1 DEF Alone, Blanking
  <2> QED
    BY <2>2, <2>3
<1> QED
  BY <1>9, <1>10, <1>11, <1>12 DEF IInv

LEMMA LandsKeeps ==
    ASSUME IInv, NEW l \in Ledger, Lands(l)
    PROVE  IInv'
<1>0. TypeOK
  BY DEF IInv
<1>1. /\ late[l].busy /\ late' = [late EXCEPT ![l] = NoPut] /\ UNCHANGED <<line, call, kept>>
      /\ file' \in {file, [file EXCEPT ![l] = late[l].rows]} /\ made' \in {made, made \cup {l}}
  BY DEF Lands
<1>2. NoPut.busy = FALSE /\ NoPut.rows = <<>> /\ NoPut \in [busy : BOOLEAN, rows : Seq(Row)] /\ NoTwin(<<>>)
  BY DEF NoPut, NoTwin
<1>3. late[l].rows \in Seq(Row)
  BY <1>0, Types
<1>4. /\ late'[l] = NoPut /\ file'[l] \in {file[l], late[l].rows}
      /\ \A k \in Ledger \ {l} : late'[k] = late[k] /\ file'[k] = file[k]
  BY <1>0, <1>1 DEF TypeOK
<1>5. TypeOK'
  BY <1>0, <1>1, <1>2, <1>3 DEF TypeOK
<1>6. PutHasLock'
  BY <1>1 DEF IInv, PutHasLock, HasLock
<1>7. Distinct'
  BY <1>1, <1>2, <1>4 DEF IInv, Distinct, Ledger
<1>8. ASSUME Calm  PROVE Shown' /\ Alone'
  <2>1. Shown'
    BY <1>1, <1>2, <1>4, <1>8 DEF IInv, Shown
  <2>2. Alone'
    BY <1>1, <1>8 DEF IInv, Alone, Blanking
  <2> QED
    BY <2>1, <2>2
<1> QED
  BY <1>5, <1>6, <1>7, <1>8 DEF IInv

LEMMA CrashKeeps ==
    ASSUME IInv, Crash
    PROVE  IInv'
<1>1. /\ line' = <<>> /\ call' = [c \in Call |-> Idle] /\ UNCHANGED <<file, made, late, kept>>
      /\ Idle \in Calls /\ Idle.at = "idle" /\ Idle.blank = FALSE
  BY Types DEF IInv, Crash, Idle
<1>2. TypeOK'
  BY <1>1 DEF IInv, TypeOK
<1>3. PutHasLock' /\ Alone'
  BY <1>1 DEF PutHasLock, Alone, Blanking
<1>4. Distinct'
  BY <1>1 DEF IInv, Distinct
<1>5. Calm => Shown'
  BY <1>1 DEF IInv, Shown
<1> QED
  BY <1>2, <1>3, <1>4, <1>5 DEF IInv

LEMMA NextKeeps == IInv /\ [Next]_vars => IInv'
<1> SUFFICES ASSUME IInv, [Next]_vars PROVE IInv'
  OBVIOUS
<1>1. ASSUME NEW c \in Call, Starts(c)  PROVE IInv'
  BY <1>1, StartsKeep
<1>2. ASSUME NEW c \in Call, Mutate(c)  PROVE IInv'
  BY <1>2, EditKeeps, RemoveKeeps, TypeKeeps, MapKeeps, IngestKeeps DEF Mutate
<1>3. ASSUME NEW c \in Call, Step(c)  PROVE IInv'
  BY <1>2, <1>3, JoinKeeps, SkipKeeps, StoredKeeps, NotStoredKeeps DEF Step
<1>4. ASSUME NEW l \in Ledger, Lands(l)  PROVE IInv'
  BY <1>4, LandsKeeps
<1>5. CASE UNCHANGED vars
  BY <1>5 DEF IInv, vars, TypeOK, PutHasLock, HasLock, Distinct, Shown, Alone, Blanking
<1> QED
  BY <1>1, <1>3, <1>4, <1>5, CrashKeeps DEF Next

-----------------------------------------------------------------------------
(* Theorems                                                                *)

\* The invariant holds: types, who may write, and what all content, stored or not,
\* shows and does not show (_mutate_ledger, append_imported_rows).
THEOREM Invariance == Spec => []IInv
<1>1. Init => IInv
  BY InitKeeps
<1>2. IInv /\ [Next]_vars => IInv'
  BY NextKeeps
<1> QED
  BY <1>1, <1>2, PTL DEF Spec

\* NoTwins: no statement ledger shows a line twice, whoever makes ledgers when.
THEOREM NeverTwins == Spec => []NoTwins
<1>1. IInv => NoTwins
  BY DEF IInv, Distinct, NoTwins
<1> QED
  BY <1>1, Invariance, PTL

\* AcknowledgedStays: where ledgers are made by one call at a time, what a write
\* acknowledged stays until another removes the line or places it anew.
THEOREM AcknowledgedKept ==
    ASSUME Calm
    PROVE  Spec => []AcknowledgedStays
<1>1. IInv => AcknowledgedStays
  BY DEF IInv, Shown, AcknowledgedStays
<1> QED
  BY <1>1, Invariance, PTL

=============================================================================
