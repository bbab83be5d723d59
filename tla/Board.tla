--------------------------------- MODULE Board -------------------------------
(***************************************************************************)
(* The backlog board, one markdown file on Nextcloud (WebDAV), and its two *)
(* kinds of writers: the backlog tools, whose _cas_edit reads, edits and   *)
(* writes back with If-Match (tools/backlog_tools.py), and the runs that   *)
(* turn voice notes into board items (dashboard/routes/jules_process.py).  *)
(*                                                                         *)
(* The text of the board says of every change how many rows it has put     *)
(* there: open ones, rows under Completed, and (a count the file does not  *)
(* keep, for the properties) rows that clearing Completed has taken off.   *)
(* The items of a voice note are one row.  A ticket marked done or noted   *)
(* is the row of the change that does so, and stays in its lane.  Each PUT *)
(* gives the file an ETag it never had; 0 stands for no file and for a PUT *)
(* without If-Match.                                                       *)
(***************************************************************************)
EXTENDS Integers

CONSTANTS Edit,          \* calls of backlog_add, backlog_update, ...
          Additive,      \* those that add a line or a note each time they apply
          Clearing,      \* those that clear the Completed lane
          MovedRow,      \* of those that move a row there: the change it is of
          Answered,      \* those whose requests go through or meet a 412
          Run,           \* runs of process_inbox: on save, by the button, the sweep
          Note,          \* voice notes, numbered in the order of their names
          Actionable,    \* those the model finds items in
          MaxAttempts,   \* _cas_edit's attempts
          MaxTries,      \* 1 + Len(_RETRY_DELAYS)
          BoardExists,   \* whether there is a file at first
          OnPresence,    \* a presence's board rather than the operator's intake
          Calm           \* TRUE: the runs take turns, can read the board, and their PUTs are answered

VARIABLES text, etag,    \* the file
          late,          \* PUTs whose sender has stopped waiting for the answer
          call,          \* the edits
          inbox, archive, job,  \* the notes, and the runs over them
          kept           \* history: of each note, the MOVEs to Archive that failed

file == <<text, etag>>
notes == <<inbox, archive, kept>>
vars == <<file, late, call, notes, job>>

ASSUME BoardAssumption ==
    /\ Note \subseteq Nat /\ Edit \cap Note = {} /\ Additive \subseteq Edit
    /\ Answered \subseteq Edit /\ Clearing \subseteq Edit \ Additive
    /\ DOMAIN MovedRow \subseteq Edit \ (Additive \cup Clearing)
    /\ \A e \in DOMAIN MovedRow : MovedRow[e] \in Additive \cup Note
    /\ Actionable \subseteq Note
    /\ MaxAttempts \in Nat \ {0} /\ MaxTries \in Nat \ {0}
    /\ BoardExists \in BOOLEAN /\ OnPresence \in BOOLEAN /\ Calm \in BOOLEAN

Change == Edit \cup Note
Text == [Change -> [open : Nat, completed : Nat, cleared : Nat]]
Returned == {"saved", "stale", "failed"}   \* saved, "NOT SAVED", an exception
PutType == [by : Change, nth : Nat, base : Nat, draft : Text]
CallType == [at : {"get", "put"} \cup Returned, attempt : 1..MaxAttempts,
             tries : 1..MaxTries, base : Nat, draft : Text]
JobType == [at : {"list", "extract", "read", "write", "move", "done"},
            todo : SUBSET Note, draft : Text]

TypeOK == /\ text \in Text /\ etag \in Nat
          /\ late \subseteq PutType
          /\ call \in [Edit -> CallType]
          /\ inbox \subseteq Note /\ archive \subseteq Note
          /\ job \in [Run -> JobType]
          /\ kept \in [Note -> Nat]

Blank == [c \in Change |-> [open |-> 0, completed |-> 0, cleared |-> 0]]

\* A call about to read the board.
Reading(attempt) == [at |-> "get", attempt |-> attempt, tries |-> 1, base |-> 0, draft |-> Blank]

Init == /\ text = Blank /\ etag = IF BoardExists THEN 1 ELSE 0
        /\ late = {}
        /\ call = [e \in Edit |-> Reading(1)]
        /\ inbox = {} /\ archive = {}
        /\ job = [r \in Run |-> [at |-> "list", todo |-> {}, draft |-> Blank]]
        /\ kept = [n \in Note |-> 0]

\* The rows a change has put on the board, and those that are there still.
Copies(t, c) == t[c].open + t[c].completed + t[c].cleared
OnBoard(t, c) == t[c].open + t[c].completed > 0

-----------------------------------------------------------------------------
(* WebDAV                                                                  *)

\* Faulty: the PUT carries no If-Match.
Matches_m(base) == TRUE

\* A PUT with If-Match needs that ETag, one without needs nothing.
Matches(base) == base \in {0, etag}

Store(draft) == text' = draft /\ etag' = etag + 1

\* A PUT given up on reaches the server after all.
LateArrive(r) ==
    /\ late' = late \ {r}
    /\ Matches(r.base)
    /\ Store(r.draft)
    /\ UNCHANGED <<call, notes, job>>

-----------------------------------------------------------------------------
(* _cas_edit                                                               *)

\* add_ticket_line, annotate_ticket, mark_ticket_done, _append_items
AddRow(t, c) == [t EXCEPT ![c].open = @ + 1]

\* move_ticket_lane, to Completed: the ticket is the first row c has put there.
MoveRow(t, c) == IF t[c].open > 0 /\ t[c].completed + t[c].cleared = 0
                   THEN [t EXCEPT ![c] = [open |-> t[c].open - 1, completed |-> 1, cleared |-> 0]]
                   ELSE t

\* clear_completed_items
Clear(t) == [c \in Change |-> [open |-> t[c].open, completed |-> 0,
                               cleared |-> t[c].completed + t[c].cleared]]

\* apply_fn: an edit whose effect is already there changes nothing, unless it
\* is one that adds.
ApplyEdit(e, t) == CASE e \in Clearing -> Clear(t)
                     [] e \in DOMAIN MovedRow -> MoveRow(t, MovedRow[e])
                     [] OTHER -> IF e \notin Additive /\ Copies(t, e) > 0 THEN t ELSE AddRow(t, e)

\* _board_get and apply_fn.  A read may also fail for good.
BoardGet(e) ==
    /\ call[e].at = "get"
    /\ \/ /\ etag # 0 \/ OnPresence
          /\ LET new == ApplyEdit(e, text) IN
             call' = [call EXCEPT ![e] = [at |-> IF new = text THEN "saved" ELSE "put",
                                          attempt |-> call[e].attempt, tries |-> 1,
                                          base |-> etag, draft |-> new]]
       \/ e \notin Answered /\ call' = [call EXCEPT ![e].at = "failed"]
    /\ UNCHANGED <<file, late, notes, job>>

\* _board_put, answered: stored, or 412 and BoardStale.
PutAnswered(e) ==
    /\ call[e].at = "put"
    /\ \/ /\ Matches(call[e].base)
          /\ Store(call[e].draft)
          /\ call' = [call EXCEPT ![e].at = "saved"]
       \/ /\ ~Matches(call[e].base)
          /\ IF call[e].attempt < MaxAttempts
               THEN call' = [call EXCEPT ![e] = Reading(call[e].attempt + 1)]
               ELSE call' = [call EXCEPT ![e].at = "stale"]
          /\ UNCHANGED file
    /\ UNCHANGED <<late, notes, job>>

\* Faulty: the next try reads the board and applies the edit again, within the
\* same attempt.
PutRetried_m(e) == call' = [call EXCEPT ![e] = Reading(call[e].attempt)]

\* The PUT has not been answered with success or 412: the next try, if the
\* failure is a transient one and a try is left, and else an exception.
PutRetried(e) ==
    \/ call[e].tries < MaxTries /\ call' = [call EXCEPT ![e].tries = @ + 1]
    \/ call' = [call EXCEPT ![e].at = "failed"]

\* 423, 5xx and the like: the server did nothing.
PutRefused(e) == /\ call[e].at = "put" /\ e \notin Answered
                 /\ PutRetried(e)
                 /\ UNCHANGED <<file, late, notes, job>>

\* A timeout or a broken connection: the request may still be under way.
PutUnanswered(e) ==
    /\ call[e].at = "put" /\ e \notin Answered
    /\ late' = late \cup {[by |-> e, nth |-> call[e].tries,
                           base |-> call[e].base, draft |-> call[e].draft]}
    /\ PutRetried(e)
    /\ UNCHANGED <<file, notes, job>>

-----------------------------------------------------------------------------
(* process_inbox                                                           *)

\* jules.py saves a recording; the run it starts is one of Run.
Record(n) == /\ n \notin inbox \cup archive
             /\ inbox' = inbox \cup {n}
             /\ UNCHANGED <<file, late, call, archive, kept, job>>

\* The note a run is at: the first name of those it has left.
At(r, n, step) == /\ job[r].at = step
                  /\ n \in job[r].todo /\ \A m \in job[r].todo : n <= m

NextNote(r, n) == LET rest == job[r].todo \ {n} IN
    job' = [job EXCEPT ![r].at = IF rest = {} THEN "done" ELSE "extract",
                       ![r].todo = rest, ![r].draft = Blank]

ListInbox(r) ==
    /\ job[r].at = "list"
    /\ Calm => \A q \in Run : job[q].at \in {"list", "done"}
    /\ job' = [job EXCEPT ![r].at = IF inbox = {} THEN "done" ELSE "extract", ![r].todo = inbox]
    /\ UNCHANGED <<file, late, call, notes>>

\* The note is read and the model asked for its items; either may fail.
ExtractItems(r, n) ==
    /\ At(r, n, "extract")
    /\ \/ /\ n \in inbox
          /\ job' = [job EXCEPT ![r].at = IF n \in Actionable THEN "read" ELSE "move"]
       \/ NextNote(r, n)
    /\ UNCHANGED <<file, late, call, notes>>

\* A board that cannot be read, for whatever reason, is taken to be empty.
ReadBoard(r, n) ==
    /\ At(r, n, "read")
    /\ \E old \in {text} \cup (IF Calm THEN {} ELSE {Blank}) :
         job' = [job EXCEPT ![r].at = "write", ![r].draft = AddRow(old, n)]
    /\ UNCHANGED <<file, late, call, notes>>

\* Faulty: the status of the answer is not looked at.
WriteBoard_m(r, n) ==
    /\ At(r, n, "write")
    /\ Store(job[r].draft) \/ UNCHANGED file
    /\ job' = [job EXCEPT ![r].at = "move"]
    /\ UNCHANGED <<late, call, notes>>

\* A PUT without If-Match; an error or a timeout leaves the note in the Inbox.
WriteBoard(r, n) ==
    /\ At(r, n, "write")
    /\ \/ Store(job[r].draft) /\ job' = [job EXCEPT ![r].at = "move"] /\ UNCHANGED late
       \/ NextNote(r, n) /\ UNCHANGED <<file, late>>
       \/ /\ ~Calm
          /\ late' = late \cup {[by |-> n, nth |-> 1, base |-> 0, draft |-> job[r].draft]}
          /\ NextNote(r, n)
          /\ UNCHANGED file
    /\ UNCHANGED <<call, notes>>

\* Faulty: COPY for MOVE.
MoveToArchive_m(r, n) ==
    /\ At(r, n, "move")
    /\ archive' = archive \cup {n}
    /\ NextNote(r, n)
    /\ UNCHANGED <<file, late, call, inbox, kept>>

\* The MOVE to Archive.  Nobody looks whether it failed: the run goes on, and
\* the note, its items filed, is in the Inbox still.
MoveToArchive(r, n) ==
    /\ At(r, n, "move")
    /\ \/ n \in inbox /\ inbox' = inbox \ {n} /\ archive' = archive \cup {n} /\ UNCHANGED kept
       \/ kept' = [kept EXCEPT ![n] = @ + 1] /\ UNCHANGED <<inbox, archive>>
    /\ NextNote(r, n)
    /\ UNCHANGED <<file, late, call>>

Editing(e) == BoardGet(e) \/ PutAnswered(e) \/ PutRefused(e) \/ PutUnanswered(e)
Processing(r) == \/ ListInbox(r)
                 \/ \E n \in job[r].todo : \/ ExtractItems(r, n) \/ ReadBoard(r, n)
                                           \/ WriteBoard(r, n) \/ MoveToArchive(r, n)

Next == \/ \E r \in late : LateArrive(r)
        \/ \E e \in Edit : Editing(e)
        \/ \E n \in Note : Record(n)
        \/ \E r \in Run : Processing(r)

Spec == Init /\ [][Next]_vars

-----------------------------------------------------------------------------
(* What the conditional writes achieve                                     *)

\* A step of the tools: no run writes, and no late PUT of one arrives.
ByTools == job' = job /\ \A r \in late \ late' : r.by \in Edit

\* "a writer holding stale content gets HTTP 412 instead of silently
\* overwriting someone else's edit": every write of the backlog tools, late
\* ones included, makes its edit to the board as it is then.
EditorsNeverStomp ==
    [][text' # text /\ ByTools => \E e \in Edit : text' = ApplyEdit(e, text)]_vars

\* The edits that move rows or take them off, rather than put one there.
Shifting == Clearing \cup DOMAIN MovedRow

Most(e) == IF e \in Additive THEN call[e].attempt ELSE 1

\* If-Match makes a repeated PUT harmless: a change that adds a line is made at
\* most once per attempt of _cas_edit, any other at most once.
RetriesAddOnce == \A e \in Edit : Copies(text, e) <= Most(e)

\* Where the tools are the only writers nothing is ever overwritten ...
EditsOnly == [][text' # text => \E e \in Edit : text' = ApplyEdit(e, text)]_vars

\* ... and a row an edit has put there, and is reported as saved, stays for
\* good, unless clearing Completed takes it off.
SavedStays == \A e \in Edit \ Shifting : call[e].at = "saved" => OnBoard(text, e) \/ text[e].cleared > 0

\* The inductive invariant behind EditorsNeverStomp: a conditional PUT, whether
\* its sender still waits for it or not, either is stale or makes its edit to
\* the board as it is.
Fresh(base, e, draft) == /\ base \in 1..etag
                         /\ base = etag => draft = ApplyEdit(e, text) /\ draft # text

CallInv == \A e \in Edit : call[e].at = "put" => Fresh(call[e].base, e, call[e].draft)
LateInv == \A r \in late : r.by \in Edit => Fresh(r.base, r.by, r.draft)

IInv == TypeOK /\ etag > 0 /\ CallInv /\ LateInv

\* The inductive invariant behind RetriesAddOnce.  A change may be on the board,
\* and in what the runs are about to write over it, as often as there have been
\* attempts that wrote; a PUT that would add it now still has room to.  Edits
\* that shift rows never put one there.
MayHave(e) == IF e \in Shifting THEN 0
              ELSE IF e \in Additive /\ call[e].at = "get" THEN call[e].attempt - 1 ELSE Most(e)

Coming(e) == \/ call[e].at = "put" /\ call[e].base = etag
             \/ \E r \in late : r.by = e /\ r.base = etag

RoomInv(e) == /\ Copies(text, e) <= MayHave(e)
              /\ Coming(e) => Copies(text, e) < Most(e)

DraftInv(e) == /\ \A r \in Run : Copies(job[r].draft, e) <= MayHave(e)
               /\ \A r \in late : r.by \in Note => Copies(r.draft, e) <= MayHave(e)

\* An attempt begins only when the PUTs of the earlier ones are stale.
StaleInv(e) == \A r \in late : r.by = e =>
                 /\ call[e].at = "get" => r.base < etag
                 /\ call[e].at = "put" => r.base <= call[e].base

CopiesInv == IInv /\ \A e \in Edit : RoomInv(e) /\ DraftInv(e) /\ StaleInv(e)

-----------------------------------------------------------------------------
(* What the voice-note runs achieve                                        *)

\* "A file only archives after its items are safely IN the backlog": there they
\* are, unless someone has taken them off by clearing the Completed lane.
ArchivedIsOnBoard == \A n \in archive \cap Actionable : OnBoard(text, n) \/ text[n].cleared > 0

\* "new jules transcripts get processed into action items": once each, and once
\* more for every MOVE that left the note in the Inbox.
NoteOnce == \A n \in Note : Copies(text, n) <= 1 + kept[n]

\* The inductive invariant behind both, while the runs take turns: the board
\* has had the items of a note once for every time it was moved, could not be
\* moved or is about to be, and those of no others.
Active(r) == job[r].at \notin {"list", "done"}
Filed(n) == n \in archive \/ \E r \in Run : At(r, n, "move")

TurnsInv == /\ \A r \in late : r.by \in Edit
            /\ \A q, r \in Run : Active(q) /\ Active(r) => q = r
            /\ \A r \in Run : Active(r) => job[r].todo \subseteq inbox
            /\ inbox \cap archive = {}

Filings(n) == IF n \in Actionable THEN kept[n] + (IF Filed(n) THEN 1 ELSE 0) ELSE 0

ItemsInv ==
    /\ \A n \in Note : Copies(text, n) = Filings(n)
    /\ \A r \in Run, n \in Note :
         /\ At(r, n, "read") \/ At(r, n, "write") => n \in Actionable
         /\ At(r, n, "write") =>
              \A m \in Note : Copies(job[r].draft, m) = Filings(m) + IF m = n THEN 1 ELSE 0

NotesInv == IInv /\ TurnsInv /\ ItemsInv

=============================================================================
