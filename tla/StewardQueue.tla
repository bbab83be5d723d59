------------------------------ MODULE StewardQueue ---------------------------
(***************************************************************************)
(* The steward's execution queue: the agents' tools                        *)
(* (tools/steward_queue_tools.py, backlog_tools.py, delegation_tools.py),  *)
(* the operator's routes (dashboard/routes/steward_queue.py) and the       *)
(* merge-feedback job (tools/merge_feedback.py) on the table steward_queue.*)
(* A handler is one READ COMMITTED transaction that reads and then writes; *)
(* other handlers commit in between.                                       *)
(***************************************************************************)
EXTENDS Integers, FiniteSets, SequencesExt

CONSTANTS Caller,        \* concurrent handlers
          RowId,         \* steward_queue.id: 1..n, bounds the rows
          Source,        \* board references
          Repo, Number,  \* a pull request is a number of a repository
          Words,         \* what agents write in notes, the sentinels apart
          NoPR, Keep,    \* no pr_url; a column an UPDATE leaves alone
          Update,        \* [status, pr, note]: what handlers are asked to change
          MaxNotes,      \* the notes a row has room for (2000 characters)
          Pulls,         \* the tickets that agents also pull and delegate
          Turns          \* the tickets whose handlers take turns

VARIABLES rows,          \* the table: [source, status, pr, notes] by id
          last,          \* the sequence of ids
          merged,        \* the pull requests GitHub has merged
          pending,       \* rows of Turns whose completion is on its way to the board
          toBoard,       \* those whose completion has got there
          call           \* the handlers under way

board == <<pending, toBoard>>
vars == <<rows, last, merged, board, call>>

PR == Repo \X Number
Status == {"queued", "assigned", "in_review", "done", "dropped"}
Merged(n) == <<"merged", n>>                  \* _sentinel
Text == Words \cup {Merged(n) : n \in Number}
Row == [source : Source, status : Status, pr : PR \cup {NoPR}, notes : Seq(Text)]
NoRow == [source |-> "none"]

ASSUME QueueAssumption ==
    /\ IsFiniteSet(RowId) /\ RowId = 1..Cardinality(RowId)
    /\ Pulls \subseteq Source /\ Turns \subseteq Source
    /\ MaxNotes \in Nat \ {0}
    /\ NoPR \notin PR /\ "none" \notin Source
    /\ Words \cap {Merged(n) : n \in Number} = {}
    /\ Keep \notin Status \cup PR \cup {NoPR} \cup Text /\ Keep \notin Seq(Text)
    /\ Update \subseteq [status : Status \cup {Keep}, pr : PR \cup {NoPR, Keep},
                         note : Words \cup {Keep}]

Idle == [at |-> "idle"]
CallType == {Idle}
    \cup [at : {"write"}, id : RowId, status : Status \cup {Keep}, pr : PR \cup {NoPR, Keep},
          notes : Seq(Text) \cup {Keep}, tool : BOOLEAN, todo : SUBSET (RowId \X Number)]
    \cup [at : {"insert"}, source : Source, status : {"queued", "assigned"}]
    \cup [at : {"ask"}, seen : SUBSET (RowId \X PR \X Seq(Text))]
    \cup [at : {"annotate"}, todo : SUBSET (RowId \X Number)]

TypeOK == /\ rows \in [RowId -> Row \cup {NoRow}] /\ last \in RowId \cup {0}
          /\ merged \subseteq PR /\ pending \subseteq RowId /\ toBoard \subseteq RowId
          /\ call \in [Caller -> CallType]

Init == /\ rows = [i \in RowId |-> NoRow] /\ last = 0
        /\ merged = {} /\ pending = {} /\ toBoard = {}
        /\ call = [c \in Caller |-> Idle]

IsRow(i) == rows[i] # NoRow
InTurns(i) == IsRow(i) /\ rows[i].source \in Turns
Closed == {"done", "dropped"}
OpenRows(source, statuses) == {i \in RowId : /\ IsRow(i) /\ rows[i].source = source
                                             /\ rows[i].status \in statuses}

Goto(c, new) == call' = [call EXCEPT ![c] = new]

\* The tickets a handler has in hand, by the rows it has read.
RowsOf(k) == CASE k.at = "write"    -> {k.id} \cup {x[1] : x \in k.todo}
               [] k.at = "ask"      -> {s[1] : s \in k.seen}
               [] k.at = "annotate" -> {x[1] : x \in k.todo}
               [] OTHER             -> {}
SourcesOf(ids) == {rows[i].source : i \in {j \in ids : IsRow(j)}}
InHand(k) == SourcesOf(RowsOf(k)) \cup (IF k.at = "insert" THEN {k.source} ELSE {})

\* Handlers of a ticket of Turns do not overlap.
InTurn(sources) == \A d \in Caller : InHand(call[d]) \cap sources \cap Turns = {}
Begins(c, sources) == call[c] = Idle /\ InTurn(sources)

-----------------------------------------------------------------------------
(* Changing a row                                                          *)

Transitions == [queued    |-> {"assigned", "in_review", "done", "dropped"},
                assigned  |-> {"queued", "in_review", "done", "dropped"},
                in_review |-> {"assigned", "done", "dropped"},
                done      |-> {},
                dropped   |-> {}]

CanTransition(current, new) == new = current \/ new \in Transitions[current]

\* new_notes: the latest notes there is room for.
Latest(notes) == SubSeq(notes, IF Len(notes) > MaxNotes THEN Len(notes) - MaxNotes + 1 ELSE 1,
                        Len(notes))
Appended(i, text) == IF text = Keep THEN Keep ELSE Latest(Append(rows[i].notes, text))

Change(i, status, pr, notes, tool, todo) ==
    [at |-> "write", id |-> i, status |-> status, pr |-> pr, notes |-> notes,
     tool |-> tool, todo |-> todo]

\* Faulty: the move is not checked.
ToolUpdate_m(c, i, u) ==
    /\ IsRow(i)
    /\ Begins(c, {rows[i].source})
    /\ u.pr # NoPR                            \* "" leaves the column alone
    /\ Goto(c, Change(i, u.status, u.pr, Appended(i, u.note), TRUE, {}))
    /\ UNCHANGED <<rows, last, merged, board>>

\* _update, called by queue_take and queue_update: the SELECT and the checks.
ToolUpdate(c, i, u) ==
    /\ IsRow(i)
    /\ Begins(c, {rows[i].source})
    /\ u.status # Keep => CanTransition(rows[i].status, u.status)
    /\ u.pr # NoPR                            \* "" leaves the column alone
    /\ Goto(c, Change(i, u.status, u.pr, Appended(i, u.note), TRUE, {}))
    /\ UNCHANGED <<rows, last, merged, board>>

\* update_item, the operator's: it replaces the notes and does not sync the board.
RouteUpdate(c, i, u) ==
    /\ IsRow(i)
    /\ Begins(c, {rows[i].source})
    /\ u.status # Keep => CanTransition(rows[i].status, u.status)
    /\ Goto(c, Change(i, u.status, u.pr, IF u.note = Keep THEN Keep ELSE <<u.note>>, FALSE, {}))
    /\ UNCHANGED <<rows, last, merged, board>>

\* The call's next step, when its write is over.
Onward(w) == IF w.todo = {} THEN Idle ELSE [at |-> "annotate", todo |-> w.todo]

\* The syncs that a write starts: those of Turns, the others are not followed.
Syncs(w) == {i \in {w.id} : w.tool /\ w.status = "done" /\ InTurns(i)}

\* UPDATE steward_queue SET ... WHERE id = ...: on whatever the row is by now.
Updated(w) ==
    LET Or(new, old) == IF new = Keep THEN old ELSE new
    IN  IF ~IsRow(w.id) THEN rows
        ELSE [rows EXCEPT ![w.id] = [source |-> @.source, status |-> Or(w.status, @.status),
                                     pr |-> Or(w.pr, @.pr), notes |-> Or(w.notes, @.notes)]]

\* Faulty: the sync is started before the transaction has committed.
WriteRow_m(c) ==
    /\ call[c].at = "write"
    /\ rows' \in {rows, Updated(call[c])}
    /\ pending' = pending \cup Syncs(call[c])
    /\ Goto(c, Onward(call[c]))
    /\ UNCHANGED <<last, merged, toBoard>>

\* The transaction commits, and a tool that has closed a row starts the sync; or
\* it fails, with an exception.
WriteRow(c) ==
    /\ call[c].at = "write"
    /\ \/ rows' = Updated(call[c]) /\ pending' = pending \cup Syncs(call[c])
       \/ UNCHANGED <<rows, pending>>
    /\ Goto(c, Onward(call[c]))
    /\ UNCHANGED <<last, merged, toBoard>>

\* _sync_board_on_done, a task of its own: some time later the board has the
\* completion, or the sync has failed, which is only logged.
SyncBoard(i) ==
    /\ i \in pending
    /\ pending' = pending \ {i}
    /\ toBoard' \in {toBoard, toBoard \cup {i}}
    /\ UNCHANGED <<rows, last, merged, call>>

-----------------------------------------------------------------------------
(* Creating and purging rows                                               *)

\* Faulty: only a queued row counts as open.
Add_m(c, source) ==
    /\ Begins(c, {source})
    /\ OpenRows(source, {"queued"}) = {}
    /\ Goto(c, [at |-> "insert", source |-> source, status |-> "queued"])
    /\ UNCHANGED <<rows, last, merged, board>>

\* add_item: an open row of the same source is returned instead.
Add(c, source) ==
    /\ Begins(c, {source})
    /\ OpenRows(source, Status \ Closed) = {}
    /\ Goto(c, [at |-> "insert", source |-> source, status |-> "queued"])
    /\ UNCHANGED <<rows, last, merged, board>>

\* _insert_queue_row, called by backlog_pull: claim a row, or insert one.
Pull(c, source, assign) ==
    /\ source \in Pulls
    /\ Begins(c, {source})
    /\ LET open == OpenRows(source, {"queued", "assigned"}) IN
       \/ /\ open = {}
          /\ Goto(c, [at |-> "insert", source |-> source,
                           status |-> IF assign THEN "assigned" ELSE "queued"])
       \/ /\ assign
          /\ \E i \in open : Goto(c, Change(i, "assigned", Keep, Keep, FALSE, {}))
    /\ UNCHANGED <<rows, last, merged, board>>

\* link_or_create_queue_row: one UPDATE claims every row there is to claim.
Delegate(c, source) ==
    /\ source \in Pulls
    /\ Begins(c, {source})
    /\ LET open == OpenRows(source, {"queued", "assigned"}) IN
       IF open = {}
         THEN /\ Goto(c, [at |-> "insert", source |-> source, status |-> "assigned"])
              /\ UNCHANGED rows
         ELSE /\ rows' = [i \in RowId |-> IF i \in open THEN [rows[i] EXCEPT !.status = "assigned"]
                                                        ELSE rows[i]]
              /\ UNCHANGED call
    /\ UNCHANGED <<last, merged, board>>

InsertRow(c) ==
    /\ call[c].at = "insert"
    /\ last + 1 \in RowId
    /\ last' = last + 1
    /\ rows' = [rows EXCEPT ![last + 1] = [source |-> call[c].source, status |-> call[c].status,
                                           pr |-> NoPR, notes |-> <<>>]]
    /\ Goto(c, Idle)
    /\ UNCHANGED <<merged, board>>

\* clear_completed_queue: a DELETE of the closed rows past their retention.
ClearCompleted(old) ==
    /\ InTurn(SourcesOf(old))
    /\ \A i \in old : IsRow(i) /\ rows[i].status \in Closed
    /\ rows' = [i \in RowId |-> IF i \in old THEN NoRow ELSE rows[i]]
    /\ UNCHANGED <<last, merged, board, call>>

-----------------------------------------------------------------------------
(* Merge feedback                                                          *)

\* The operator merges a pull request on GitHub.
Merge(pr) == /\ merged' = merged \cup {pr}
             /\ UNCHANGED <<rows, last, board, call>>

\* _fetch_in_flight_rows
FetchInFlight(c) ==
    LET inFlight == {i \in RowId : IsRow(i) /\ rows[i].status \in {"assigned", "in_review"}
                                            /\ rows[i].pr # NoPR}
    IN  /\ Begins(c, SourcesOf(inFlight))
        /\ inFlight # {}
        /\ Goto(c, [at |-> "ask", seen |-> {<<i, rows[i].pr, rows[i].notes>> : i \in inFlight}])
        /\ UNCHANGED <<rows, last, merged, board>>

\* Faulty: any answer counts as merged.
Planned_m(seen, answered) ==
    LET numbers == {pr[2] : pr \in answered}
    IN  {<<s[1], s[2][2]>> : s \in {t \in seen : /\ t[2][2] \in numbers
                                                 /\ ~Contains(t[3], Merged(t[2][2]))}}

\* Faulty: rows that carry the note are not skipped.
PlannedAgain_m(seen, answered) ==
    LET numbers == {pr[2] : pr \in answered \cap merged}
    IN  {<<s[1], s[2][2]>> : s \in {t \in seen : t[2][2] \in numbers}}

\* _merged_numbers_for and plan_merge_feedback: GitHub answers for any of the
\* pull requests asked about, and the answers keep their numbers only.
Planned(seen, answered) ==
    LET numbers == {pr[2] : pr \in answered \cap merged}
    IN  {<<s[1], s[2][2]>> : s \in {t \in seen : /\ t[2][2] \in numbers
                                                 /\ ~Contains(t[3], Merged(t[2][2]))}}

AskGitHub(c) ==
    /\ call[c].at = "ask"
    /\ \E answered \in SUBSET {s[2] : s \in call[c].seen} :
         LET todo == Planned(call[c].seen, answered)
         IN  Goto(c, IF todo = {} THEN Idle ELSE [at |-> "annotate", todo |-> todo])
    /\ UNCHANGED <<rows, last, merged, board>>

\* Faulty: the row is written back as it was read, status included.
Annotate_m(c) ==
    /\ call[c].at = "annotate"
    /\ \E x \in call[c].todo :
         LET rest == call[c].todo \ {x} IN
         Goto(c, IF IsRow(x[1]) THEN Change(x[1], rows[x[1]].status, Keep,
                                            Appended(x[1], Merged(x[2])), TRUE, rest)
                 ELSE IF rest = {} THEN Idle ELSE [at |-> "annotate", todo |-> rest])
    /\ UNCHANGED <<rows, last, merged, board>>

\* _update(id, note = ...): the SELECT, for the next row of the plan.
Annotate(c) ==
    /\ call[c].at = "annotate"
    /\ \E x \in call[c].todo :
         LET rest == call[c].todo \ {x} IN
         Goto(c, IF IsRow(x[1]) THEN Change(x[1], Keep, Keep, Appended(x[1], Merged(x[2])), TRUE, rest)
                 ELSE IF rest = {} THEN Idle ELSE [at |-> "annotate", todo |-> rest])
    /\ UNCHANGED <<rows, last, merged, board>>

-----------------------------------------------------------------------------
Next == \/ \E c \in Caller :
             \/ \E i \in RowId, u \in Update : ToolUpdate(c, i, u) \/ RouteUpdate(c, i, u)
             \/ \E s \in Source : \/ Add(c, s) \/ Delegate(c, s)
                                  \/ \E assign \in BOOLEAN : Pull(c, s, assign)
             \/ WriteRow(c) \/ InsertRow(c)
             \/ FetchInFlight(c) \/ AskGitHub(c) \/ Annotate(c)
        \/ \E i \in pending : SyncBoard(i)
        \/ \E old \in SUBSET RowId : ClearCompleted(old)
        \/ \E pr \in PR : Merge(pr)

Spec == Init /\ [][Next]_vars

-----------------------------------------------------------------------------
(* Properties that hold however the handlers overlap                       *)

\* "WITHOUT advancing it to done (merged != deployed is the whole point)": where
\* only merge feedback is at work, no row changes status, not even one that was
\* moved after the job had read it.
FeedbackNeverMoves ==
    [][(\E c \in Caller : FetchInFlight(c) \/ AskGitHub(c) \/ Annotate(c)
                          \/ (WriteRow(c) /\ call[c].notes # Keep
                              /\ \E n \in Number : Last(call[c].notes) = Merged(n)))
         => \A i \in RowId : IsRow(i) => rows'[i] # NoRow /\ rows'[i].status = rows[i].status]_vars

\* A merge note is never invented: a pull request of that number is merged.
MergeNotesAreTrue ==
    \A i \in RowId, n \in Number : IsRow(i) /\ Contains(rows[i].notes, Merged(n))
        => \E repo \in Repo : <<repo, n>> \in merged

-----------------------------------------------------------------------------
(* Properties that hold of a ticket while its handlers take turns, however *)
(* the handlers of other tickets overlap                                    *)

\* "Transition matrix - the ONE definition, shared with the dashboard route":
\* rows move along it, and none is purged ("Open rows are never touched") before
\* it is closed for good.
LegalMoves ==
    [][\A i \in RowId : IsRow(i) /\ rows[i].source \in Turns
          => IF IsRow(i)' THEN CanTransition(rows[i].status, rows'[i].status)
                          ELSE rows[i].status \in Closed]_vars

\* "Idempotent: a row already carrying the sentinel is skipped".
MergeNotedOnce ==
    \A i \in RowId, n \in Number : IsRow(i) /\ rows[i].source \in Turns =>
        Cardinality({j \in DOMAIN rows[i].notes : rows[i].notes[j] = Merged(n)}) <= 1

\* However late or seldom the syncs get there, the board's COMPLETED lane has only
\* what is done in the queue: not what a failed write, or a handler since, has
\* left open.
BoardAgrees == \A i \in toBoard : InTurns(i) => rows[i].status = "done"

\* "an OPEN item from the same board ref is the same work - don't double-queue".
OneOpenRowPerSource ==
    \A s \in Turns \ Pulls : Cardinality(OpenRows(s, Status \ Closed)) <= 1

-----------------------------------------------------------------------------
(* The inductive invariant behind these                                    *)

IsMerged(n) == \E repo \in Repo : <<repo, n>> \in merged
TrueNotes(notes) == \A n \in Number : Contains(notes, Merged(n)) => IsMerged(n)
Once(notes) == \A j, k \in DOMAIN notes, n \in Number :
                  notes[j] = Merged(n) /\ notes[k] = Merged(n) => j = k
SyncsAgree == \A i \in toBoard \cup pending : InTurns(i) => rows[i].status = "done"
Open(s) == OpenRows(s, Status \ Closed)

RowsInv == /\ \A i \in RowId : i > last => ~IsRow(i)
           /\ toBoard \cup pending \subseteq 1..last
           /\ MergeNotesAreTrue /\ SyncsAgree
           /\ \A i \in RowId : InTurns(i) => Once(rows[i].notes)
           /\ \A s \in Turns \ Pulls : \A i, j \in Open(s) : i = j

\* What a handler is about to write is true, and of a ticket in turns it is still
\* what the row, as it is by then, allows.
TrueCall(k) ==
    /\ k.at = "write" /\ k.notes # Keep =>
          TrueNotes(k.notes) /\ \A n \in Number : Last(k.notes) = Merged(n) => k.status = Keep
    /\ k.at \in {"write", "annotate"} => \A x \in k.todo : IsMerged(x[2])

TimelyCall(k) ==
    /\ k.at = "write" /\ InTurns(k.id) =>
          /\ k.status # Keep => CanTransition(rows[k.id].status, k.status)
          /\ k.notes # Keep => Once(k.notes)
    /\ k.at \in {"write", "annotate"} => \A x \in k.todo : InTurns(x[1]) =>
          /\ ~Contains(rows[x[1]].notes, Merged(x[2]))
          /\ k.at = "write" /\ k.notes # Keep /\ x[1] = k.id => ~Contains(k.notes, Merged(x[2]))
    /\ k.at = "ask" => \A s \in k.seen : InTurns(s[1]) => s[3] = rows[s[1]].notes
    /\ k.at = "insert" /\ k.source \in Turns \ Pulls => Open(k.source) = {}

CallInv(k) == RowsOf(k) \subseteq 1..last /\ TrueCall(k) /\ TimelyCall(k)

QueueInv == /\ TypeOK /\ RowsInv
            /\ \A c \in Caller : CallInv(call[c])
            /\ \A c, d \in Caller : c # d =>
                  InHand(call[c]) \cap InHand(call[d]) \cap Turns = {}

=============================================================================
