--------------------------------- MODULE Books ---------------------------------
(***************************************************************************)
(* The ledgers of one Presence's bookkeeping (dashboard/books.py, the      *)
(* routes in dashboard/routes/bookkeeping.py): JSON files that WebDAV      *)
(* keeps, read and written whole.  Requests and the Process job change     *)
(* them under one lock; a request that finds a ledger missing makes it     *)
(* with a write of its own, decided before it has the lock.                *)
(*                                                                         *)
(* A line stands for its date, payee and amount, a mark for what the       *)
(* operator can say of it: its category, or that it is disabled.           *)
(***************************************************************************)
EXTENDS Integers, Sequences, FiniteSets, SequencesExt

CONSTANTS Call,        \* requests and jobs under way at once
          Statement,   \* ledgers fed from a Drop folder
          Manual,      \* the ledger of typed lines
          File,        \* statements in Drop
          LinesOf,     \* the lines each of them has
          Typed,       \* lines that are typed or pasted
          Category,    \* of the working chart
          NoMark, Changed,
          MaxRows,     \* MAX_COMBINED_LINES
          Attempts,    \* PUTs of one write: one and those after _RETRY_DELAYS
          Calm         \* who makes a ledger does so alone, having read that it is missing

VARIABLES file,        \* the rows of each ledger
          made,        \* the ledgers that are there
          late,        \* server: a PUT it still works on, its client gone
          line,        \* for the Presence's lock; the first in it has the lock
          call,
          kept         \* history: what the last acknowledged write left

vars == <<file, made, late, line, call, kept>>

Ledger == Statement \cup {Manual}
Line == Typed \cup UNION {LinesOf[f] : f \in File}
Mark == Category \cup {NoMark}
\* The key is the row's fingerprint; Changed is one that no statement shows.
Row == [line : Line, key : Line \cup {Changed}, mark : Mark]
Fact == [line : Line, mark : Mark]

ASSUME BooksAssumption ==
    /\ Manual \notin Statement
    /\ IsFiniteSet(Line) /\ LinesOf \in [File -> SUBSET Line]
    /\ Changed \notin Line /\ NoMark \notin Category
    /\ MaxRows \in Nat /\ Attempts \in Nat \ {0} /\ Calm \in BOOLEAN

Ops == {"none", "edit", "remove", "type", "open", "map", "process"}
\* ready: on its way to the lock; wait: in line for it; put: its PUT under way.
At == {"idle", "ready", "wait", "put"}
Calls == [at : At, op : Ops, todo : SUBSET (Ledger \cup File), path : Ledger,
          blank : BOOLEAN, new : Seq(Row), tries : 0 .. Attempts]
Idle == [at |-> "idle", op |-> "none", todo |-> {}, path |-> Manual,
         blank |-> FALSE, new |-> <<>>, tries |-> 0]
NoPut == [busy |-> FALSE, rows |-> <<>>]

TypeOK == /\ file \in [Ledger -> Seq(Row)]
          /\ made \subseteq Ledger
          /\ late \in [Ledger -> [busy : BOOLEAN, rows : Seq(Row)]]
          /\ line \in Seq(Call)
          /\ call \in [Call -> Calls]
          /\ kept \in [Ledger -> SUBSET Fact]

Init == /\ file = [l \in Ledger |-> <<>>]
        /\ made \in SUBSET Ledger
        /\ late = [l \in Ledger |-> NoPut]
        /\ line = <<>>
        /\ call = [c \in Call |-> Idle]
        /\ kept = [l \in Ledger |-> {}]

-----------------------------------------------------------------------------
(* What books.py makes of the rows of a ledger                             *)

LinesIn(rows) == {rows[i].line : i \in DOMAIN rows}
KeysIn(rows) == {rows[i].key : i \in DOMAIN rows}
Facts(rows) == {[line |-> rows[i].line, mark |-> rows[i].mark] : i \in DOMAIN rows}

\* apply_vendor_map, with a rule for the payee of every line (NoMark: none).
Tagged(rows, rule) ==
    [i \in DOMAIN rows |-> IF rows[i].mark = NoMark
                           THEN [rows[i] EXCEPT !.mark = rule[rows[i].line]]
                           ELSE rows[i]]

Fresh(b) == [line |-> b, key |-> b, mark |-> NoMark]

\* Faulty: what the ledger shows already is not looked for.
Unseen_m(rows, f) == LinesOf[f]

Unseen(rows, f) == LinesOf[f] \ KeysIn(rows)

\* append_imported_rows.
Imported(rows, f) ==
    {rows \o [i \in DOMAIN s |-> Fresh(s[i])] : s \in SetToSeqs(Unseen(rows, f))}

-----------------------------------------------------------------------------
(* The lock, and how a call goes on                                        *)

\* Faulty: a ledger is read before the lock is there.
HasLock_m(c) == \E i \in DOMAIN line : line[i] = c

HasLock(c) == line # <<>> /\ Head(line) = c

Becomes(c, new) == call' = [call EXCEPT ![c] = new]

Leave(c) == line' = Tail(line)

\* The map is written to every ledger under one lock; each statement of a job has
\* the lock anew, and so has the line for a ledger that was missing.
Continues(c) ==
    LET rest == [call[c] EXCEPT !.new = <<>>, !.tries = 0, !.blank = FALSE] IN
    IF call[c].op = "map" /\ call[c].todo # {}
    THEN Becomes(c, [rest EXCEPT !.at = "wait"]) /\ UNCHANGED line
    ELSE /\ Leave(c)
         /\ Becomes(c, IF call[c].todo = {} THEN Idle ELSE [rest EXCEPT !.at = "ready"])

\* An error ends a request, and is counted by a job.
Fails(c, todo) ==
    /\ Leave(c)
    /\ Becomes(c, IF call[c].op = "process" /\ todo # {}
                  THEN [call[c] EXCEPT !.at = "ready", !.todo = todo, !.new = <<>>, !.tries = 0]
                  ELSE Idle)

-----------------------------------------------------------------------------
(* The routes, up to the lock                                              *)

Blanking(c) == call[c].at # "idle" /\ call[c].blank

Begin(c, new) ==
    /\ call[c].at = "idle"
    /\ Calm => \A d \in Call : ~Blanking(d) /\ (new.blank => call[d].at = "idle")
    /\ Becomes(c, [new EXCEPT !.at = "ready"])
    /\ UNCHANGED <<file, made, late, line, kept>>

\* books_patch_line, books_patch_lines, books_line_state, books_line_book, and
\* books_delete_line, for typed lines only.  Lines are told by an index into a page
\* loaded some time ago: it may be any by the time of the write.
PickLine(c) ==
    \/ \E l \in Ledger : Begin(c, [Idle EXCEPT !.op = "edit", !.todo = {l}])
    \/ Begin(c, [Idle EXCEPT !.op = "remove", !.todo = {Manual}])

\* books_create_line, books_paste_lines: _ensure_manual_ledger makes the ledger
\* when it is not among those that were listed and could be read.
CreateLine(c) ==
    \E found \in BOOLEAN :
        /\ IF found THEN Manual \in made ELSE Calm => Manual \notin made
        /\ Begin(c, [Idle EXCEPT !.op = "type", !.todo = {Manual}, !.blank = ~found])

\* books_create_account, books_add_book, books_setup.
CreateLedger(c) ==
    \E l \in Statement \ made : Begin(c, [Idle EXCEPT !.op = "open", !.path = l, !.blank = TRUE])

\* books_put_map: every ledger there is.
PutMap(c) == made # {} /\ Begin(c, [Idle EXCEPT !.op = "map", !.todo = made])

\* books_process_drop: one job for a ledger at a time.  A statement whose name the
\* ledger shows, or that cannot be read, it skips.
ProcessDrop(c) ==
    \E l \in Statement \cap made :
        /\ \A d \in Call : ~(call[d].op = "process" /\ call[d].path = l)
        /\ Begin(c, [Idle EXCEPT !.op = "process", !.path = l, !.todo = File])

-----------------------------------------------------------------------------
(* _mutate_ledger and _write_ledger                                        *)

Join(c) ==
    /\ call[c].at = "ready"
    /\ line' = Append(line, c)
    /\ Becomes(c, [call[c] EXCEPT !.at = IF call[c].blank THEN "put" ELSE "wait"])
    /\ UNCHANGED <<file, made, late, kept>>

\* _mutate_ledger with the lock: a ledger that is there is read, and apply_fn has
\* made new content for a PUT.  What was acknowledged of a line the operation is
\* about is open from here on.
Puts(c, l, x, new, facts) ==
    /\ call[c].at = "wait" /\ HasLock(c)
    /\ l \in made /\ Len(new) <= MaxRows
    /\ Becomes(c, [call[c] EXCEPT !.at = "put", !.path = l, !.new = new, !.todo = @ \ {x}])
    /\ kept' = [kept EXCEPT ![l] = facts]
    /\ UNCHANGED <<file, made, late, line>>

About(facts, b) == {f \in facts : f.line = b}

\* Without a category the line keeps its mark.  The sign of the amount may change
\* with the category, the amount with any edit.
EditLine(c) ==
    \E l \in call[c].todo \cap Ledger, m \in Mark :
        /\ call[c].op = "edit"
        /\ \E i \in DOMAIN file[l] :
               LET row == file[l][i]
                   open == About(kept[l], row.line) IN
               \E key \in {row.key, Changed} :
                   Puts(c, l, l, [file[l] EXCEPT ![i] = [row EXCEPT !.mark = m, !.key = key]],
                        (kept[l] \ open) \cup {[f EXCEPT !.mark = NoMark] : f \in open})

RemoveLine(c) ==
    /\ call[c].op = "remove"
    /\ \E i \in DOMAIN file[Manual] :
           Puts(c, Manual, Manual, RemoveAt(file[Manual], i),
                kept[Manual] \ About(kept[Manual], file[Manual][i].line))

TypeLine(c) ==
    /\ call[c].op = "type"
    /\ \E b \in Typed \ LinesIn(file[Manual]) :
           Puts(c, Manual, Manual, Append(file[Manual], [Fresh(b) EXCEPT !.key = Changed]), kept[Manual])

\* A ledger of _write_presence_vendor_map.
ApplyMap(c) ==
    \E l \in call[c].todo \cap Ledger, rule \in [Line -> Mark] :
        call[c].op = "map" /\ Puts(c, l, l, Tagged(file[l], rule), kept[l])

\* _ingest_drop_file: the map is applied to the whole ledger.
IngestFile(c) ==
    LET rows == file[call[c].path] IN
    /\ call[c].op = "process"
    /\ \E f \in call[c].todo \cap File, rule \in [Line -> Mark] : \E r \in Imported(rows, f) :
           Tagged(r, rule) # rows /\ Puts(c, call[c].path, f, Tagged(r, rule), kept[call[c].path])

\* The ledger cannot be read, or apply_fn fails, or there is nothing to change.
Skip(c) ==
    /\ call[c].at = "wait" /\ HasLock(c)
    /\ \E x \in call[c].todo : Fails(c, call[c].todo \ {x})
    /\ UNCHANGED <<file, made, late, kept>>

\* The server has stored the new content.
Stored(c) ==
    /\ call[c].at = "put" /\ HasLock(c) /\ ~late[call[c].path].busy
    /\ file' = [file EXCEPT ![call[c].path] = call[c].new]
    /\ made' = made \cup {call[c].path}
    /\ kept' = [kept EXCEPT ![call[c].path] = Facts(call[c].new)]
    /\ Continues(c)
    /\ UNCHANGED late

\* A PUT is refused (423 while the server works on another), or has no answer in
\* time and may be at work still (bound: one such PUT at a time).  It is sent again,
\* up to a number of times or an error that is not transient.
NotStored(c) ==
    /\ call[c].at = "put" /\ HasLock(c)
    /\ \/ UNCHANGED late
       \/ /\ \A l \in Ledger : ~late[l].busy
          /\ late' = [late EXCEPT ![call[c].path] = [busy |-> TRUE, rows |-> call[c].new]]
    /\ \/ /\ call[c].tries + 1 < Attempts
          /\ Becomes(c, [call[c] EXCEPT !.tries = @ + 1])
          /\ UNCHANGED line
       \/ Fails(c, call[c].todo)
    /\ UNCHANGED <<file, made, kept>>

\* The server is done with a PUT nobody waits for.
Lands(l) ==
    /\ late[l].busy
    /\ late' = [late EXCEPT ![l] = NoPut]
    /\ \/ file' = [file EXCEPT ![l] = late[l].rows] /\ made' = made \cup {l}
       \/ UNCHANGED <<file, made>>
    /\ UNCHANGED <<line, call, kept>>

\* The dashboard restarts: its jobs are gone, what the server works on is not.
Crash ==
    /\ line' = <<>>
    /\ call' = [c \in Call |-> Idle]
    /\ UNCHANGED <<file, made, late, kept>>

-----------------------------------------------------------------------------
Starts(c) == PickLine(c) \/ CreateLine(c) \/ CreateLedger(c) \/ PutMap(c) \/ ProcessDrop(c)
Mutate(c) == EditLine(c) \/ RemoveLine(c) \/ TypeLine(c) \/ ApplyMap(c) \/ IngestFile(c)
Step(c) == Join(c) \/ Mutate(c) \/ Skip(c) \/ Stored(c) \/ NotStored(c)

Next == \/ \E c \in Call : Starts(c) \/ Step(c)
        \/ \E l \in Ledger : Lands(l)
        \/ Crash

Spec == Init /\ [][Next]_vars

-----------------------------------------------------------------------------
(* Properties                                                              *)

\* Rows say all that facts do; a line no one has marked the map may mark.
Shows(rows, facts) ==
    \A f \in facts : \E i \in DOMAIN rows :
        rows[i].line = f.line /\ (f.mark = NoMark \/ rows[i].mark = f.mark)

\* "Re-read under the Presence lock, apply, write the fresh copy": what a ledger
\* held when a write was acknowledged it holds until another removes the line or
\* places it anew, whatever other requests, jobs, late PUTs and restarts do.
AcknowledgedStays == \A l \in Ledger : Shows(file[l], kept[l])

NoTwin(rows) ==
    \A i, j \in DOMAIN rows : i # j /\ rows[i].key = rows[j].key => rows[i].key = Changed

\* "skip exact date/payee/amount dupes": statements that overlap, are processed
\* again, or were stored by a PUT that had no answer, show a line only once.
NoTwins == \A l \in Statement : NoTwin(file[l])

\* "add a typed line on the Manual book": an acknowledged typed line is there
\* until it is removed.
TypedLinesStay == \A f \in kept[Manual] : f.line \in LinesIn(file[Manual])

=============================================================================
