------------------------------ MODULE Board_proofs ---------------------------
(***************************************************************************)
(* For any number of edits, notes and runs, and whatever requests go       *)
(* unanswered: the backlog tools never overwrite what they have not read,  *)
(* once there is a board, and make an edit once per attempt.  Where they   *)
(* are its only writers, only clearing Completed takes anything off it.    *)
(* Beside voice-note runs that take turns, and whose requests are          *)
(* answered, a note's items are put on it before the note is archived, and *)
(* once for every time the note was, or could not be.                      *)
(***************************************************************************)
EXTENDS Board, TLAPS

\* What a row more, and what an empty board, is.
LEMMA RowAdded ==
    ASSUME NEW t \in Text, NEW c \in Change
    PROVE  /\ AddRow(t, c) \in Text /\ AddRow(t, c) # t
           /\ \A d \in Change : Copies(AddRow(t, c), d) = IF d = c THEN Copies(t, d) + 1 ELSE Copies(t, d)
  <1> DEFINE new == AddRow(t, c)
  <1>1. \A d \in Change : /\ t[d] \in [open : Nat, completed : Nat, cleared : Nat]
                          /\ t[d].open \in Nat /\ t[d].completed \in Nat /\ t[d].cleared \in Nat
    BY DEF Text
  <1>2. /\ \A d \in Change \ {c} : new[d] = t[d]
        /\ new[c] = [t[c] EXCEPT !.open = @ + 1]
    BY DEF AddRow, Text
  <1>3. /\ new[c] \in [open : Nat, completed : Nat, cleared : Nat]
        /\ new[c].open = t[c].open + 1
        /\ new[c].completed = t[c].completed /\ new[c].cleared = t[c].cleared
    BY <1>1, <1>2
  <1>4. new \in Text
    BY <1>3 DEF AddRow, Text
  <1>5. \A d \in Change : Copies(new, d) = IF d = c THEN Copies(t, d) + 1 ELSE Copies(t, d)
    BY <1>1, <1>2, <1>3 DEF Copies
  <1>6. new # t
    BY <1>1, <1>3
  <1> QED BY <1>4, <1>5, <1>6

LEMMA BlankText == Blank \in Text /\ \A c \in Change : Copies(Blank, c) = 0
  BY DEF Blank, Text, Copies

LEMMA CopiesNat ==
    ASSUME NEW t \in Text, NEW c \in Change
    PROVE  /\ Copies(t, c) \in Nat
           /\ Copies(t, c) > 0 <=> OnBoard(t, c) \/ t[c].cleared > 0
  <1>1. t[c].open \in Nat /\ t[c].completed \in Nat /\ t[c].cleared \in Nat
    BY DEF Text
  <1> QED BY <1>1 DEF Copies, OnBoard

LEMMA RowMoved ==
    ASSUME NEW t \in Text, NEW c \in Change
    PROVE  MoveRow(t, c) \in Text /\ \A d \in Change : Copies(MoveRow(t, c), d) = Copies(t, d)
  <1>1. \A d \in Change : /\ t[d] \in [open : Nat, completed : Nat, cleared : Nat]
                          /\ t[d].open \in Nat /\ t[d].completed \in Nat /\ t[d].cleared \in Nat
    BY DEF Text
  <1>2. CASE ~(t[c].open > 0 /\ t[c].completed + t[c].cleared = 0)
    BY <1>2 DEF MoveRow
  <1>3. CASE t[c].open > 0 /\ t[c].completed + t[c].cleared = 0
    <2> DEFINE new == [t EXCEPT ![c] = [open |-> t[c].open - 1, completed |-> 1, cleared |-> 0]]
    <2>1. MoveRow(t, c) = new
      BY <1>3 DEF MoveRow
    <2>2. /\ \A d \in Change \ {c} : new[d] = t[d]
          /\ new[c] = [open |-> t[c].open - 1, completed |-> 1, cleared |-> 0]
      BY DEF Text
    <2>3. t[c].open - 1 \in Nat /\ t[c].completed = 0 /\ t[c].cleared = 0
      BY <1>1, <1>3
    <2>4. new \in Text
      BY <1>1, <2>2, <2>3 DEF Text
    <2>5. \A d \in Change : Copies(new, d) = Copies(t, d)
      <3>1. Copies(new, c) = Copies(t, c)
        BY <1>1, <2>2, <2>3 DEF Copies
      <3>2. \A d \in Change \ {c} : Copies(new, d) = Copies(t, d)
        BY <2>2 DEF Copies
      <3> QED BY <3>1, <3>2
    <2> QED BY <2>1, <2>4, <2>5
  <1> QED BY <1>2, <1>3

LEMMA Cleared ==
    ASSUME NEW t \in Text
    PROVE  Clear(t) \in Text /\ \A d \in Change : Copies(Clear(t), d) = Copies(t, d)
  <1>1. \A d \in Change : t[d].open \in Nat /\ t[d].completed \in Nat /\ t[d].cleared \in Nat
    BY DEF Text
  <1>2. Clear(t) \in Text
    BY <1>1 DEF Clear, Text
  <1>3. \A d \in Change : Copies(Clear(t), d) = Copies(t, d)
    BY <1>1 DEF Clear, Copies
  <1> QED BY <1>2, <1>3

\* What _cas_edit writes: the text it read with its edit made, which puts a row
\* there or shifts some.
LEMMA EditedText ==
    ASSUME NEW e \in Edit, NEW t \in Text
    PROVE  /\ e \in Change /\ ApplyEdit(e, t) \in Text
           /\ e \in Shifting => \A d \in Change : Copies(ApplyEdit(e, t), d) = Copies(t, d)
           /\ \A d \in Change : d # e => Copies(ApplyEdit(e, t), d) = Copies(t, d)
           /\ e \notin Shifting /\ ApplyEdit(e, t) = t => Copies(t, e) > 0
           /\ e \notin Shifting /\ ApplyEdit(e, t) # t =>
                /\ Copies(ApplyEdit(e, t), e) = Copies(t, e) + 1
                /\ e \notin Additive => Copies(t, e) = 0
  <1>1. e \in Change /\ Copies(t, e) \in Nat
    BY CopiesNat DEF Change
  <1>2. CASE e \in Clearing
    BY <1>1, <1>2, BoardAssumption, Cleared DEF ApplyEdit, Shifting
  <1>3. CASE e \in DOMAIN MovedRow
    <2>1. MovedRow[e] \in Change /\ e \notin Clearing
      BY <1>3, BoardAssumption DEF Change
    <2>2. ApplyEdit(e, t) = MoveRow(t, MovedRow[e])
      BY <1>3, <2>1 DEF ApplyEdit
    <2> QED BY <1>1, <1>3, <2>1, <2>2, RowMoved DEF Shifting
  <1>4. CASE e \notin Shifting
    <2>1. ApplyEdit(e, t) = IF e \notin Additive /\ Copies(t, e) > 0 THEN t ELSE AddRow(t, e)
      BY <1>4 DEF ApplyEdit, Shifting
    <2> QED BY <1>1, <1>4, <2>1, RowAdded
  <1> QED BY <1>2, <1>3, <1>4 DEF Shifting

-----------------------------------------------------------------------------
(* The invariant                                                           *)

LEMMA InitIInv == ASSUME BoardExists, Init PROVE IInv
  BY BlankText, BoardAssumption DEF Init, IInv, TypeOK, CallInv, LateInv,
     CallType, JobType, Returned, Reading

\* What the other writers of the file do to a conditional PUT: nothing, or they
\* make it stale.
LEMMA StoreIInv ==
    ASSUME IInv, NEW d \in Text, Store(d)
    PROVE  /\ text' \in Text /\ etag' \in Nat /\ etag' > 0
           /\ \A e \in Edit : call[e].at = "put" =>
                /\ call[e].base \in 1..etag' /\ call[e].base # etag'
           /\ \A r \in late : r.by \in Edit => r.base \in 1..etag' /\ r.base # etag'
  BY DEF IInv, TypeOK, Store, CallInv, LateInv, Fresh

LEMMA LateArriveIInv == ASSUME IInv, NEW r \in late, LateArrive(r) PROVE IInv'
  <1>1. r.draft \in Text /\ Store(r.draft)
    BY DEF IInv, TypeOK, PutType, LateArrive
  <1>2. TypeOK' /\ etag' > 0
    BY <1>1, StoreIInv DEF LateArrive, IInv, TypeOK, notes
  <1>3. CallInv'
    BY <1>1, StoreIInv DEF LateArrive, IInv, CallInv, Fresh
  <1>4. LateInv'
    BY <1>1, StoreIInv DEF LateArrive, IInv, LateInv, Fresh
  <1> QED BY <1>2, <1>3, <1>4 DEF IInv

\* A call returns.
LEMMA Returns ==
    ASSUME IInv, NEW e \in Edit, NEW s \in Returned, call' = [call EXCEPT ![e].at = s]
    PROVE  /\ call' \in [Edit -> CallType] /\ call'[e].at = s
           /\ \A f \in Edit \ {e} : call'[f] = call[f]
           /\ UNCHANGED file => CallInv'
  <1>1. call \in [Edit -> CallType] /\ CallInv
    BY DEF IInv, TypeOK
  <1>2. call'[e] = [call[e] EXCEPT !.at = s] /\ \A f \in Edit \ {e} : call'[f] = call[f]
    BY <1>1
  <1>3. call'[e] \in CallType /\ call'[e].at = s /\ s # "put"
    <2>1. s \in {"get", "put"} \cup Returned /\ s # "put"
      BY DEF Returned
    <2>2. call[e] \in CallType
      BY <1>1
    <2> QED BY <1>2, <2>1, <2>2 DEF CallType
  <1>4. call' \in [Edit -> CallType]
    BY <1>1, <1>2, <1>3
  <1>5. \A f \in Edit : call'[f].at = "put" => call[f].at = "put" /\ call'[f] = call[f]
    BY <1>2, <1>3
  <1>6. UNCHANGED file => CallInv'
    BY <1>1, <1>5 DEF CallInv, Fresh, file, notes
  <1> QED BY <1>2, <1>3, <1>4, <1>6

\* A step of an edit that leaves the file and the late PUTs alone.
LEMMA CallsIInv ==
    ASSUME IInv, UNCHANGED <<file, late, notes, job>>,
           call' \in [Edit -> CallType], CallInv'
    PROVE  IInv'
  <1>1. TypeOK' /\ etag' > 0
    BY DEF IInv, TypeOK, file, notes
  <1>2. LateInv'
    BY DEF IInv, LateInv, Fresh, file, notes
  <1> QED BY <1>1, <1>2 DEF IInv

LEMMA BoardGetIInv == ASSUME IInv, NEW e \in Edit, BoardGet(e) PROVE IInv'
  <1> DEFINE new == ApplyEdit(e, text)
  <1>1. new \in Text
    BY EditedText DEF IInv, TypeOK
  <1>2. /\ UNCHANGED <<file, late, notes, job>>
        /\ \/ call' = [call EXCEPT ![e] = [at |-> IF new = text THEN "saved" ELSE "put",
                                           attempt |-> call[e].attempt, tries |-> 1,
                                           base |-> etag, draft |-> new]]
           \/ call' = [call EXCEPT ![e].at = "failed"]
    BY DEF BoardGet
  <1> HIDE DEF new
  <1>3. call' \in [Edit -> CallType] /\ CallInv'
    <2>1. CASE call' = [call EXCEPT ![e] = [at |-> IF new = text THEN "saved" ELSE "put",
                                            attempt |-> call[e].attempt, tries |-> 1,
                                            base |-> etag, draft |-> new]]
      <3> DEFINE next == IF new = text THEN "saved" ELSE "put"
      <3>1. call'[e] = [at |-> next, attempt |-> call[e].attempt,
                        tries |-> 1, base |-> etag, draft |-> new]
        BY <2>1 DEF IInv, TypeOK
      <3>2. next \in {"saved", "put"} /\ (next = "put" => new # text)
        OBVIOUS
      <3> HIDE DEF next
      <3>3. call[e].attempt \in 1..MaxAttempts /\ 1 \in 1..MaxTries /\ etag \in Nat
        BY BoardAssumption DEF IInv, TypeOK, CallType
      <3>4. call'[e] \in CallType
        BY <1>1, <3>1, <3>2, <3>3 DEF CallType, Returned
      <3>5. call' \in [Edit -> CallType] /\ \A f \in Edit \ {e} : call'[f] = call[f]
        BY <2>1, <3>4 DEF IInv, TypeOK
      <3>6. call'[e].at = "put" => Fresh(etag, e, new) /\ call'[e].base = etag /\ call'[e].draft = new
        BY <3>1, <3>2 DEF IInv, TypeOK, Fresh, new
      <3> QED BY <1>2, <3>5, <3>6 DEF IInv, CallInv, Fresh, file, notes
    <2>2. CASE call' = [call EXCEPT ![e].at = "failed"]
      BY <1>2, <2>2, Returns DEF Returned
    <2> QED BY <1>2, <2>1, <2>2
  <1>4. TypeOK'
    BY <1>2, <1>3 DEF IInv, TypeOK, file, notes
  <1>5. etag' > 0 /\ LateInv'
    BY <1>2 DEF IInv, LateInv, Fresh, file, notes
  <1> QED BY <1>3, <1>4, <1>5 DEF IInv

LEMMA PutAnsweredIInv == ASSUME IInv, NEW e \in Edit, PutAnswered(e) PROVE IInv'
  <1>1. CASE Store(call[e].draft) /\ call' = [call EXCEPT ![e].at = "saved"]
    <2>1. call[e].draft \in Text
      BY DEF IInv, TypeOK, CallType
    <2>2. /\ call' \in [Edit -> CallType] /\ call'[e].at = "saved"
          /\ \A f \in Edit \ {e} : call'[f] = call[f]
      BY <1>1, Returns DEF Returned
    <2>5. TypeOK' /\ etag' > 0
      BY <1>1, <2>1, <2>2, StoreIInv DEF PutAnswered, IInv, TypeOK, notes
    <2>3. CallInv'
      BY <1>1, <2>1, <2>2, StoreIInv DEF IInv, CallInv, Fresh
    <2>4. LateInv'
      BY <1>1, <2>1, StoreIInv DEF PutAnswered, IInv, LateInv, Fresh
    <2> QED BY <2>3, <2>4, <2>5 DEF IInv
  <1>2. CASE /\ \/ /\ call[e].attempt < MaxAttempts
                   /\ call' = [call EXCEPT ![e] = Reading(call[e].attempt + 1)]
                \/ call' = [call EXCEPT ![e].at = "stale"]
             /\ UNCHANGED file
    <2>1. ASSUME call[e].attempt < MaxAttempts,
                 call' = [call EXCEPT ![e] = Reading(call[e].attempt + 1)]
          PROVE  call' \in [Edit -> CallType] /\ CallInv'
      <3>1. call[e].attempt + 1 \in 1..MaxAttempts
        BY <2>1, BoardAssumption DEF IInv, TypeOK, CallType
      <3>2. Reading(call[e].attempt + 1) \in CallType /\ Reading(call[e].attempt + 1).at = "get"
        BY <3>1, BlankText, BoardAssumption DEF CallType, Reading
      <3>3. call' \in [Edit -> CallType] /\ call'[e].at = "get" /\ \A f \in Edit \ {e} : call'[f] = call[f]
        BY <2>1, <3>2 DEF IInv, TypeOK
      <3> QED BY <1>2, <3>3 DEF IInv, CallInv, Fresh, file, notes
    <2>2. ASSUME call' = [call EXCEPT ![e].at = "stale"]
          PROVE  call' \in [Edit -> CallType] /\ CallInv'
      BY <1>2, <2>2, Returns DEF Returned
    <2>3. call' \in [Edit -> CallType] /\ CallInv'
      BY <1>2, <2>1, <2>2
    <2> QED BY <1>2, <2>3, CallsIInv DEF PutAnswered
  <1> QED BY <1>1, <1>2 DEF PutAnswered

\* Another try leaves the PUT as it is.
LEMMA RetryIInv ==
    ASSUME IInv, NEW e \in Edit, PutRetried(e), UNCHANGED file
    PROVE  /\ call' \in [Edit -> CallType]
           /\ CallInv'
  <1> DEFINE Kept == \A f \in Edit : call'[f].at = "put" => /\ call[f].at = "put"
                                                           /\ call'[f].base = call[f].base
                                                           /\ call'[f].draft = call[f].draft
  <1>1. ASSUME call[e].tries < MaxTries, call' = [call EXCEPT ![e].tries = @ + 1]
        PROVE  call' \in [Edit -> CallType] /\ Kept
    <2>1. call'[e] = [call[e] EXCEPT !.tries = @ + 1]
      BY <1>1 DEF IInv, TypeOK
    <2>2. call[e].tries + 1 \in 1..MaxTries
      BY <1>1, BoardAssumption DEF IInv, TypeOK, CallType
    <2>3. /\ call'[e] \in CallType /\ call'[e].at = call[e].at
          /\ call'[e].base = call[e].base /\ call'[e].draft = call[e].draft
      BY <2>1, <2>2 DEF IInv, TypeOK, CallType
    <2> QED BY <1>1, <2>3 DEF IInv, TypeOK
  <1>2. ASSUME call' = [call EXCEPT ![e].at = "failed"]
        PROVE  call' \in [Edit -> CallType] /\ Kept
    <2>1. /\ call' \in [Edit -> CallType] /\ call'[e].at = "failed"
          /\ \A f \in Edit \ {e} : call'[f] = call[f]
      BY <1>2, Returns DEF Returned
    <2> QED BY <2>1
  <1>3. call' \in [Edit -> CallType]
    BY <1>1, <1>2 DEF PutRetried
  <1>4. Kept
    BY <1>1, <1>2 DEF PutRetried
  <1>5. CallInv'
    BY <1>4 DEF IInv, CallInv, Fresh, file, notes
  <1> QED BY <1>3, <1>5

LEMMA PutRefusedIInv == ASSUME IInv, NEW e \in Edit, PutRefused(e) PROVE IInv'
  <1>1. call' \in [Edit -> CallType] /\ CallInv'
    BY RetryIInv DEF PutRefused, file, notes
  <1> QED BY <1>1, CallsIInv DEF PutRefused

LEMMA PutUnansweredIInv == ASSUME IInv, NEW e \in Edit, PutUnanswered(e) PROVE IInv'
  <1> DEFINE put == [by |-> e, nth |-> call[e].tries, base |-> call[e].base, draft |-> call[e].draft]
  <1>1. call' \in [Edit -> CallType] /\ CallInv'
    BY RetryIInv DEF PutUnanswered, file, notes
  <1>2. put \in PutType
    BY BoardAssumption DEF IInv, TypeOK, CallType, PutType, Change
  <1>3. Fresh(put.base, put.by, put.draft)
    BY DEF PutUnanswered, IInv, CallInv
  <1>4. put.by = e /\ late' = late \cup {put}
    BY DEF PutUnanswered
  <1> HIDE DEF put
  <1>5. LateInv'
    BY <1>3, <1>4 DEF PutUnanswered, IInv, LateInv, Fresh, file, notes
  <1> QED BY <1>1, <1>2, <1>4, <1>5 DEF PutUnanswered, IInv, TypeOK, file, notes

\* A step of a run that leaves the board alone.
Becomes(r, at, todo, draft) == job' = [job EXCEPT ![r] = [at |-> at, todo |-> todo, draft |-> draft]]

LEMMA JobBecomes ==
    ASSUME IInv, NEW r \in Run, NEW at, NEW todo, NEW draft,
           \/ job' = [job EXCEPT ![r].at = at, ![r].todo = todo, ![r].draft = draft]
           \/ job' = [job EXCEPT ![r].at = at, ![r].draft = draft] /\ todo = job[r].todo
           \/ job' = [job EXCEPT ![r].at = at] /\ todo = job[r].todo /\ draft = job[r].draft
    PROVE  Becomes(r, at, todo, draft)
  <1>1. job \in [Run -> JobType]
    BY DEF IInv, TypeOK
  <1>2. job' = [job EXCEPT ![r] = job'[r]]
    BY <1>1
  <1>3. \/ job'[r] = [job[r] EXCEPT !.at = at, !.todo = todo, !.draft = draft]
        \/ job'[r] = [job[r] EXCEPT !.at = at, !.draft = draft] /\ todo = job[r].todo
        \/ job'[r] = [job[r] EXCEPT !.at = at] /\ todo = job[r].todo /\ draft = job[r].draft
    BY <1>1
  <1>4. job'[r] = [at |-> at, todo |-> todo, draft |-> draft]
    BY <1>1, <1>3 DEF JobType
  <1> QED BY <1>2, <1>4 DEF Becomes

LEMMA RunJob ==
    ASSUME IInv, NEW r \in Run, NEW draft \in Text, NEW todo \in SUBSET Note,
           NEW at \in {"list", "extract", "read", "write", "move", "done"},
           Becomes(r, at, todo, draft)
    PROVE  job' \in [Run -> JobType]
  <1>1. job \in [Run -> JobType]
    BY DEF IInv, TypeOK
  <1> DEFINE j == [at |-> at, todo |-> todo, draft |-> draft]
  <1>2. j \in JobType
    BY DEF JobType
  <1>3. job' = [job EXCEPT ![r] = j]
    BY DEF Becomes
  <1> HIDE DEF j
  <1>4. job' \in [Run -> JobType] /\ job'[r] = j /\ \A q \in Run \ {r} : job'[q] = job[q]
    BY <1>1, <1>2, <1>3
  <1> QED BY <1>4

LEMMA RunIInv ==
    ASSUME IInv, UNCHANGED <<file, late, call>>, inbox' \subseteq Note, archive' \subseteq Note,
           kept' \in [Note -> Nat], job' \in [Run -> JobType]
    PROVE  IInv'
  <1>1. TypeOK' /\ etag' > 0
    BY DEF IInv, TypeOK, file, notes
  <1>2. LateInv'
    BY DEF IInv, LateInv, Fresh, file, notes
  <1>3. CallInv'
    BY DEF IInv, CallInv, Fresh, file, notes
  <1> QED BY <1>1, <1>2, <1>3 DEF IInv

LEMMA RecordIInv == ASSUME IInv, NEW n \in Note, Record(n) PROVE IInv'
  <1>1. UNCHANGED <<file, late, call, job>> /\ inbox' \subseteq Note /\ archive' \subseteq Note /\ kept' \in [Note -> Nat]
    BY DEF Record, IInv, TypeOK
  <1>2. job' \in [Run -> JobType]
    BY <1>1 DEF IInv, TypeOK
  <1> QED BY <1>1, <1>2, RunIInv

LEMMA NextNoteType ==
    ASSUME IInv, NEW r \in Run, NEW n, NextNote(r, n)
    PROVE  job' \in [Run -> JobType]
  <1> DEFINE rest == job[r].todo \ {n}
             at == IF rest = {} THEN "done" ELSE "extract"
  <1>1. job' = [job EXCEPT ![r].at = at, ![r].todo = rest, ![r].draft = Blank]
    BY DEF NextNote
  <1>2. at \in {"done", "extract"} /\ rest \in SUBSET Note /\ Blank \in Text
    BY BlankText DEF IInv, TypeOK, JobType
  <1> HIDE DEF at, rest
  <1>3. Becomes(r, at, rest, Blank)
    BY <1>1, JobBecomes
  <1> QED BY <1>2, <1>3, RunJob

LEMMA ProcessingIInv == ASSUME IInv, NEW r \in Run, Processing(r) PROVE IInv'
  <1> SUFFICES ASSUME \/ ListInbox(r)
                      \/ \E n \in job[r].todo : \/ ExtractItems(r, n) \/ ReadBoard(r, n)
                                                \/ WriteBoard(r, n) \/ MoveToArchive(r, n)
               PROVE  IInv'
    BY DEF Processing
  <1>1. CASE ListInbox(r)
    <2>1. PICK at \in {"done", "extract"} : job' = [job EXCEPT ![r].at = at, ![r].todo = inbox]
      BY <1>1 DEF ListInbox
    <2>2. job' \in [Run -> JobType]
      <3>1. job[r] \in JobType /\ inbox \subseteq Note
        BY DEF IInv, TypeOK
      <3>2. job'[r] = [at |-> at, todo |-> inbox, draft |-> job[r].draft]
        BY <2>1, <3>1 DEF IInv, TypeOK, JobType
      <3>3. Becomes(r, at, inbox, job[r].draft)
        BY <2>1, <3>2 DEF Becomes, IInv, TypeOK
      <3> QED BY <3>1, <3>3, RunJob DEF JobType
    <2>3. UNCHANGED <<file, late, call>> /\ inbox' \subseteq Note /\ archive' \subseteq Note /\ kept' \in [Note -> Nat]
      BY <1>1 DEF ListInbox, IInv, TypeOK, notes
    <2> QED BY <2>2, <2>3, RunIInv
  <1>2. ASSUME NEW n \in job[r].todo, ExtractItems(r, n) PROVE IInv'
    <2>3. UNCHANGED <<file, late, call>> /\ inbox' \subseteq Note /\ archive' \subseteq Note /\ kept' \in [Note -> Nat]
      BY <1>2 DEF ExtractItems, IInv, TypeOK, notes
    <2>1. CASE NextNote(r, n)
      BY <1>2, <2>1, <2>3, NextNoteType, RunIInv
    <2>2. CASE job' = [job EXCEPT ![r].at = IF n \in Actionable THEN "read" ELSE "move"]
      <3>1. PICK at \in {"read", "move"} : job' = [job EXCEPT ![r].at = at]
        BY <2>2
      <3>2. Becomes(r, at, job[r].todo, job[r].draft)
        BY <3>1, JobBecomes
      <3>3. job[r].todo \in SUBSET Note /\ job[r].draft \in Text
        BY DEF IInv, TypeOK, JobType
      <3>4. job' \in [Run -> JobType]
        BY <3>2, <3>3, RunJob
      <3> QED BY <2>3, <3>4, RunIInv
    <2> QED BY <1>2, <2>1, <2>2 DEF ExtractItems
  <1>3. ASSUME NEW n \in job[r].todo, ReadBoard(r, n) PROVE IInv'
    <2>1. n \in Note /\ n \in Change
      BY <1>3 DEF IInv, TypeOK, JobType, Change
    <2>2. PICK old \in Text :
             job' = [job EXCEPT ![r].at = "write", ![r].draft = AddRow(old, n)]
      <3>1. \A old \in {text} \cup (IF Calm THEN {} ELSE {Blank}) : old \in Text
        <4>1. text \in Text /\ Blank \in Text
          BY BlankText DEF IInv, TypeOK
        <4> QED BY <4>1
      <3> QED BY <1>3, <3>1 DEF ReadBoard
    <2>3. AddRow(old, n) \in Text
      BY <2>1, RowAdded
    <2>4. job' \in [Run -> JobType]
      <3>1. Becomes(r, "write", job[r].todo, AddRow(old, n))
        BY <2>2, JobBecomes
      <3>2. job[r].todo \in SUBSET Note
        BY DEF IInv, TypeOK, JobType
      <3> QED BY <2>1, <2>3, <3>1, <3>2, RunJob
    <2>5. UNCHANGED <<file, late, call>> /\ inbox' \subseteq Note /\ archive' \subseteq Note /\ kept' \in [Note -> Nat]
      BY <1>3 DEF ReadBoard, IInv, TypeOK, notes
    <2> QED BY <2>4, <2>5, RunIInv
  <1>4. ASSUME NEW n \in job[r].todo, WriteBoard(r, n) PROVE IInv'
    <2>1. /\ n \in Note /\ n \in Change /\ n \notin Edit
          /\ job[r].draft \in Text
      BY <1>4, BoardAssumption DEF WriteBoard, At, IInv, TypeOK, JobType, Change
    <2>2. CASE Store(job[r].draft) /\ job' = [job EXCEPT ![r].at = "move"] /\ UNCHANGED late
      <3>1. job' \in [Run -> JobType]
        <4>1. Becomes(r, "move", job[r].todo, job[r].draft)
          BY <2>2, JobBecomes
        <4>2. job[r].todo \in SUBSET Note
          BY DEF IInv, TypeOK, JobType
        <4> QED BY <2>1, <4>1, <4>2, RunJob
      <3>2. TypeOK' /\ etag' > 0
        BY <1>4, <2>1, <2>2, <3>1, StoreIInv DEF WriteBoard, IInv, TypeOK, notes
      <3>3. CallInv'
        BY <1>4, <2>1, <2>2, StoreIInv DEF WriteBoard, IInv, CallInv, Fresh
      <3>4. LateInv'
        BY <1>4, <2>1, <2>2, StoreIInv DEF WriteBoard, IInv, LateInv, Fresh
      <3> QED BY <3>1, <3>2, <3>3, <3>4 DEF IInv
    <2>3. CASE NextNote(r, n) /\ UNCHANGED <<file, late>>
      <3>1. UNCHANGED <<file, late, call>> /\ inbox' \subseteq Note /\ archive' \subseteq Note /\ kept' \in [Note -> Nat]
        BY <1>4, <2>3 DEF WriteBoard, IInv, TypeOK, notes
      <3> QED BY <2>3, <3>1, NextNoteType, RunIInv
    <2>4. CASE /\ late' = late \cup {[by |-> n, nth |-> 1, base |-> 0, draft |-> job[r].draft]}
               /\ NextNote(r, n) /\ UNCHANGED file
      <3> DEFINE put == [by |-> n, nth |-> 1, base |-> 0, draft |-> job[r].draft]
      <3>1. put \in PutType /\ put.by \notin Edit
        BY <2>1 DEF PutType
      <3>2. late' = late \cup {put}
        BY <2>4
      <3> HIDE DEF put
      <3>3. LateInv' /\ late' \subseteq PutType
        BY <2>4, <3>1, <3>2 DEF IInv, TypeOK, LateInv, Fresh, file, notes
      <3> QED BY <1>4, <2>4, <3>3, NextNoteType DEF WriteBoard, IInv, TypeOK, CallInv, Fresh, file, notes
    <2> QED BY <1>4, <2>2, <2>3, <2>4 DEF WriteBoard
  <1>5. ASSUME NEW n \in job[r].todo, MoveToArchive(r, n) PROVE IInv'
    <2>1. job' \in [Run -> JobType]
      BY <1>5, NextNoteType DEF MoveToArchive
    <2>2. inbox' \subseteq Note /\ archive' \subseteq Note /\ kept' \in [Note -> Nat]
      BY <1>5 DEF MoveToArchive, IInv, TypeOK
    <2> QED BY <1>5, <2>1, <2>2, RunIInv DEF MoveToArchive
  <1> QED BY <1>1, <1>2, <1>3, <1>4, <1>5

LEMMA StepIInv == ASSUME IInv, [Next]_vars PROVE IInv'
  <1>1. CASE UNCHANGED vars
    BY <1>1 DEF vars, file, notes, IInv, TypeOK, CallInv, LateInv, Fresh
  <1>2. ASSUME NEW r \in late, LateArrive(r) PROVE IInv'
    BY <1>2, LateArriveIInv
  <1>3. ASSUME NEW e \in Edit, Editing(e) PROVE IInv'
    BY <1>3, BoardGetIInv, PutAnsweredIInv, PutRefusedIInv, PutUnansweredIInv DEF Editing
  <1>4. ASSUME NEW n \in Note, Record(n) PROVE IInv'
    BY <1>4, RecordIInv
  <1>5. ASSUME NEW r \in Run, Processing(r) PROVE IInv'
    BY <1>5, ProcessingIInv
  <1> QED BY <1>1, <1>2, <1>3, <1>4, <1>5 DEF Next

\* The board, the calls and the runs have their types, and every conditional
\* PUT under way is stale or fresh, if there was a board at first.
THEOREM Invariance == ASSUME BoardExists PROVE Spec => []IInv
  <1>1. Init => IInv
    BY InitIInv
  <1>2. IInv /\ [Next]_vars => IInv'
    BY StepIInv
  <1> QED BY <1>1, <1>2, PTL DEF Spec

-----------------------------------------------------------------------------
(* No edit is stomped                                                      *)

\* A step that changes the board delivers a PUT.
LEMMA OnlyPutsChange ==
    ASSUME IInv, [Next]_vars, text' # text
    PROVE  \/ \E r \in late : r \notin late' /\ Matches(r.base) /\ text' = r.draft
           \/ \E e \in Edit : /\ call[e].at = "put" /\ Matches(call[e].base)
                              /\ text' = call[e].draft
           \/ \E r \in Run : job[r].at = "write" /\ job'[r].at = "move"
  <1>1. CASE UNCHANGED vars
    BY <1>1 DEF vars, file, notes
  <1>2. ASSUME NEW r \in late, LateArrive(r)
        PROVE  r \notin late' /\ Matches(r.base) /\ text' = r.draft
    BY <1>2 DEF LateArrive, Store
  <1>3. ASSUME NEW e \in Edit, Editing(e)
        PROVE  call[e].at = "put" /\ Matches(call[e].base) /\ text' = call[e].draft
    BY <1>3 DEF Editing, BoardGet, PutAnswered, PutRefused, PutUnanswered, Store, file, notes
  <1>4. ASSUME NEW n \in Note, Record(n) PROVE FALSE
    BY <1>4 DEF Record, file, notes
  <1>5. ASSUME NEW r \in Run, Processing(r)
        PROVE  \E n \in job[r].todo : WriteBoard(r, n)
    BY <1>5 DEF Processing, ListInbox, ExtractItems, ReadBoard, MoveToArchive, file, notes
  <1>6. ASSUME NEW r \in Run, NEW n \in job[r].todo, WriteBoard(r, n)
        PROVE  job[r].at = "write" /\ job'[r].at = "move"
    BY <1>6 DEF WriteBoard, At, NextNote, IInv, TypeOK, JobType, file, notes
  <1> QED BY <1>1, <1>2, <1>3, <1>4, <1>5, <1>6 DEF Next

LEMMA StepNoStomp ==
    ASSUME IInv, [Next]_vars, text' # text, ByTools
    PROVE  \E e \in Edit : text' = ApplyEdit(e, text)
  <1>1. ASSUME NEW r \in late, r \notin late', Matches(r.base), text' = r.draft
        PROVE  text' = ApplyEdit(r.by, text) /\ r.by \in Edit
    BY <1>1 DEF ByTools, IInv, LateInv, Fresh, Matches
  <1>2. ASSUME NEW e \in Edit, call[e].at = "put", Matches(call[e].base), text' = call[e].draft
        PROVE  text' = ApplyEdit(e, text)
    BY <1>2 DEF IInv, CallInv, Fresh, Matches
  <1>3. ASSUME NEW r \in Run, job[r].at = "write", job'[r].at = "move" PROVE FALSE
    BY <1>3 DEF ByTools
  <1> QED BY <1>1, <1>2, <1>3, OnlyPutsChange

\* Every write of the backlog tools, late ones included, makes its edit to the
\* board as it is at that moment, whoever else writes.
THEOREM NoStomp == ASSUME BoardExists PROVE Spec => EditorsNeverStomp
  <1>1. IInv /\ [Next]_vars
          => [text' # text /\ ByTools => \E e \in Edit : text' = ApplyEdit(e, text)]_vars
    BY StepNoStomp
  <1> QED BY <1>1, Invariance, PTL DEF Spec, EditorsNeverStomp

-----------------------------------------------------------------------------
(* The tools on their own                                                  *)

ToolsOnly == \A r \in late : r.by \in Edit

LEMMA ToolsOnlyStep ==
    ASSUME Run = {}, ToolsOnly, [Next]_vars PROVE ToolsOnly'
  <1>1. CASE UNCHANGED vars
    BY <1>1 DEF vars, ToolsOnly
  <1>2. ASSUME NEW r \in late, LateArrive(r) PROVE ToolsOnly'
    BY <1>2 DEF LateArrive, ToolsOnly
  <1>3. ASSUME NEW e \in Edit, Editing(e) PROVE ToolsOnly'
    BY <1>3 DEF Editing, BoardGet, PutAnswered, PutRefused, PutUnanswered, ToolsOnly
  <1>4. ASSUME NEW n \in Note, Record(n) PROVE ToolsOnly'
    BY <1>4 DEF Record, ToolsOnly
  <1> QED BY <1>1, <1>2, <1>3, <1>4 DEF Next

LEMMA StepEdits ==
    ASSUME Run = {}, IInv, ToolsOnly, [Next]_vars, text' # text
    PROVE  \E e \in Edit : text' = ApplyEdit(e, text)
  <1>1. CASE \E r \in late : r \notin late' /\ Matches(r.base) /\ text' = r.draft
    BY <1>1 DEF IInv, LateInv, ToolsOnly, Fresh, Matches
  <1>2. CASE \E e \in Edit : /\ call[e].at = "put" /\ Matches(call[e].base)
                             /\ text' = call[e].draft
    BY <1>2 DEF IInv, CallInv, Fresh, Matches
  <1> QED BY <1>1, <1>2, OnlyPutsChange

\* A saved edit's row has been put there.
SavedOn == \A e \in Edit \ Shifting : call[e].at = "saved" => Copies(text, e) > 0

LEMMA StepSaved ==
    ASSUME Run = {}, IInv, ToolsOnly, SavedOn, [Next]_vars PROVE SavedOn'
  <1>0. text \in Text
    BY DEF IInv, TypeOK
  <1>1. \A e \in Edit \ Shifting : Copies(text, e) > 0 => Copies(text', e) > 0
    <2>1. CASE text' = text
      BY <2>1
    <2>2. CASE text' # text
      <3>1. PICK f \in Edit : text' = ApplyEdit(f, text)
        BY <2>2, StepEdits
      <3> SUFFICES ASSUME NEW e \in Edit \ Shifting, Copies(text, e) > 0
                   PROVE  Copies(text', e) > 0
        OBVIOUS
      <3>2. e \in Change /\ Copies(text, e) \in Nat
        BY <1>0, CopiesNat DEF Change
      <3>3. \/ Copies(ApplyEdit(f, text), e) = Copies(text, e)
            \/ Copies(ApplyEdit(f, text), e) = Copies(text, e) + 1
        BY <1>0, <2>2, <3>1, <3>2, EditedText
      <3> QED BY <3>1, <3>2, <3>3
    <2> QED BY <2>1, <2>2
  <1>2. ASSUME NEW e \in Edit \ Shifting, call'[e].at = "saved", call[e].at # "saved"
        PROVE  Copies(text', e) > 0
    <2>1. BoardGet(e) \/ PutAnswered(e)
      <3>1. \E f \in Edit : Editing(f)
        BY <1>2 DEF Next, vars, LateArrive, Record
      <3>2. PICK f \in Edit : Editing(f)
        BY <3>1
      <3>3. f = e
        BY <1>2, <3>2 DEF Editing, BoardGet, PutAnswered, PutRefused, PutUnanswered,
                          PutRetried, IInv, TypeOK
      <3>4. ~(PutRefused(e) \/ PutUnanswered(e))
        BY <1>2 DEF PutRefused, PutUnanswered, PutRetried, IInv, TypeOK, CallType
      <3> QED BY <3>2, <3>3, <3>4 DEF Editing
    <2>2. CASE BoardGet(e)
      <3>1. ApplyEdit(e, text) = text /\ text' = text
        BY <1>2, <2>2 DEF BoardGet, IInv, TypeOK, CallType, file, notes
      <3> QED BY <1>0, <3>1, EditedText
    <2>3. CASE PutAnswered(e)
      <3>1. text' = call[e].draft /\ Matches(call[e].base) /\ call[e].at = "put"
        BY <1>2, <2>3 DEF PutAnswered, Store, Reading, IInv, TypeOK, CallType
      <3>2. text' = ApplyEdit(e, text) /\ text' # text
        BY <3>1 DEF IInv, CallInv, Fresh, Matches
      <3>3. Copies(text, e) \in Nat
        BY <1>0, CopiesNat DEF Change
      <3>4. Copies(ApplyEdit(e, text), e) = Copies(text, e) + 1
        BY <1>0, <3>2, EditedText
      <3> QED BY <3>2, <3>3, <3>4
    <2> QED BY <2>1, <2>2, <2>3
  <1>3. \A e \in Edit : Copies(text, e)' = Copies(text', e)
    BY DEF Copies
  <1> QED BY <1>1, <1>2, <1>3 DEF SavedOn

LEMMA InitTools == ASSUME Init PROVE ToolsOnly /\ SavedOn
  BY DEF Init, ToolsOnly, SavedOn, Reading

\* Where the backlog tools are the board's only writers, it changes by one edit
\* at a time, each made to the board as it is ...
THEOREM OnlyEdits == ASSUME BoardExists, Run = {} PROVE Spec => EditsOnly
  <1>1. Init => ToolsOnly
    BY InitTools
  <1>2. ToolsOnly /\ [Next]_vars => ToolsOnly'
    BY ToolsOnlyStep
  <1>3. IInv /\ ToolsOnly /\ [Next]_vars
          => [text' # text => \E e \in Edit : text' = ApplyEdit(e, text)]_vars
    BY StepEdits
  <1> QED BY <1>1, <1>2, <1>3, Invariance, PTL DEF Spec, EditsOnly

\* ... and a row whose edit was reported as saved stays, unless clearing the
\* Completed lane takes it off.
THEOREM SavedForGood == ASSUME BoardExists, Run = {} PROVE Spec => []SavedStays
  <1>1. Init => ToolsOnly /\ SavedOn
    BY InitTools
  <1>2. IInv /\ ToolsOnly /\ SavedOn /\ [Next]_vars => ToolsOnly' /\ SavedOn'
    BY ToolsOnlyStep, StepSaved
  <1>3. IInv /\ SavedOn => SavedStays
    BY CopiesNat DEF IInv, TypeOK, SavedOn, SavedStays, Change
  <1> QED BY <1>1, <1>2, <1>3, Invariance, PTL DEF Spec

-----------------------------------------------------------------------------
(* Retries add once                                                        *)

LEMMA MostRange ==
    ASSUME IInv, NEW e \in Edit
    PROVE  /\ Most(e) \in Nat \ {0} /\ MayHave(e) \in Nat /\ MayHave(e) <= Most(e)
           /\ e \notin Shifting /\ call[e].at # "get" => MayHave(e) = Most(e)
           /\ e \in Shifting => MayHave(e) = 0
  BY BoardAssumption DEF IInv, TypeOK, CallType, Most, MayHave

\* What a call writes next, from the board as it is.
LEMMA ReadToAdd ==
    ASSUME IInv, NEW e \in Edit, RoomInv(e), call[e].at = "get", ApplyEdit(e, text) # text
    PROVE  Copies(text, e) < Most(e)
  <1>1. text \in Text /\ Copies(text, e) \in Nat
    BY CopiesNat DEF IInv, TypeOK, Change
  <1>2. CASE e \in Additive /\ e \notin Shifting
    BY <1>1, <1>2, MostRange, BoardAssumption DEF RoomInv, MayHave, Most, IInv, TypeOK, CallType
  <1>3. CASE e \notin Additive /\ e \notin Shifting
    BY <1>1, <1>3, EditedText DEF Most
  <1>4. CASE e \in Shifting
    BY <1>1, <1>4, MostRange DEF RoomInv
  <1> QED BY <1>2, <1>3, <1>4

\* What an edit that comes now leaves on the board.
LEMMA EditedRoom ==
    ASSUME IInv, NEW f \in Edit, ApplyEdit(f, text) # text, NEW e \in Edit, RoomInv(e),
           f = e => Coming(e) /\ call[e].at # "get"
    PROVE  Copies(ApplyEdit(f, text), e) <= MayHave(e)
  <1>1. text \in Text /\ e \in Change /\ Copies(text, e) \in Nat
    BY CopiesNat DEF IInv, TypeOK, Change
  <1>2. CASE f # e \/ f \in Shifting
    BY <1>1, <1>2, EditedText DEF RoomInv
  <1>3. CASE f = e /\ f \notin Shifting
    <2>1. Copies(ApplyEdit(f, text), e) = Copies(text, e) + 1
      BY <1>1, <1>3, EditedText
    <2> QED BY <1>1, <1>3, <2>1, MostRange DEF RoomInv
  <1> QED BY <1>2, <1>3

\* A PUT that is stored leaves every other conditional PUT stale.
LEMMA StoredRoom ==
    ASSUME IInv, NEW d \in Text, Store(d), late' \subseteq late,
           NEW e \in Edit, RoomInv(e), DraftInv(e), StaleInv(e),
           call'[e].at = "put" => call[e].at = "put" /\ call'[e].base = call[e].base,
           call'[e].at = "get" => call[e].at = "get",
           MayHave(e)' = MayHave(e),
           Copies(d, e) <= MayHave(e)
    PROVE  RoomInv(e)' /\ StaleInv(e)'
  <1>1. etag \in Nat /\ etag' = etag + 1 /\ text' = d
    BY DEF Store, IInv, TypeOK
  <1>2. ~Coming(e)'
    <2>1. \A r \in late : r.by = e => r.base # etag'
      BY StoreIInv
    <2>2. call[e].at = "put" => call[e].base # etag'
      BY StoreIInv
    <2> QED BY <2>1, <2>2 DEF Coming
  <1>3. RoomInv(e)'
    BY <1>1, <1>2 DEF RoomInv, Copies
  <1>4. StaleInv(e)'
    <2> SUFFICES ASSUME NEW r \in late', r.by = e
                 PROVE  /\ call'[e].at = "get" => r.base < etag'
                        /\ call'[e].at = "put" => r.base <= call'[e].base
      BY DEF StaleInv
    <2>1. r.base \in Nat
      BY DEF IInv, TypeOK, PutType
    <2> QED BY <1>1, <2>1 DEF StaleInv
  <1> QED BY <1>3, <1>4

\* Steps of others that leave the file, and what is under way, alone.
LEMMA SameRoom ==
    ASSUME UNCHANGED file, NEW e \in Edit, RoomInv(e), StaleInv(e), call'[e] = call[e],
           \A r \in late' : r.by = e => r \in late
    PROVE  RoomInv(e)' /\ StaleInv(e)' /\ MayHave(e)' = MayHave(e)
  BY DEF file, notes, RoomInv, StaleInv, Coming, MayHave, Most, Copies

LEMMA SameDrafts ==
    ASSUME NEW e \in Edit, DraftInv(e), MayHave(e)' = MayHave(e),
           UNCHANGED job, \A r \in late' : r.by \in Note => r \in late
    PROVE  DraftInv(e)'
  BY DEF DraftInv, Copies

CopiesOf(e) == RoomInv(e) /\ DraftInv(e) /\ StaleInv(e)

LEMMA LateArriveCopies ==
    ASSUME CopiesInv, NEW r \in late, LateArrive(r), NEW e \in Edit PROVE CopiesOf(e)'
  <1>1. IInv /\ RoomInv(e) /\ DraftInv(e) /\ StaleInv(e)
    BY DEF CopiesInv
  <1>2. /\ r.draft \in Text /\ r.by \in Change /\ Store(r.draft) /\ Matches(r.base)
        /\ late' = late \ {r} /\ UNCHANGED <<call, job>>
    BY <1>1 DEF LateArrive, IInv, TypeOK, PutType
  <1>3. MayHave(e)' = MayHave(e)
    BY <1>2 DEF MayHave, Most
  <1>4. CASE r.by \in Edit
    <2>1. r.base = etag /\ r.draft = ApplyEdit(r.by, text) /\ r.draft # text
      BY <1>1, <1>2, <1>4 DEF IInv, LateInv, Fresh, Matches
    <2>2. r.by = e => Coming(e) /\ call[e].at # "get"
      BY <1>1, <2>1 DEF Coming, StaleInv, IInv, TypeOK
    <2>4. Copies(r.draft, e) <= MayHave(e)
      BY <1>1, <1>4, <2>1, <2>2, EditedRoom
    <2> QED BY <1>1, <1>2, <1>3, <2>4, StoredRoom, SameDrafts DEF CopiesOf
  <1>5. CASE r.by \in Note
    <2>1. Copies(r.draft, e) <= MayHave(e)
      BY <1>1, <1>5 DEF DraftInv
    <2> QED BY <1>1, <1>2, <1>3, <2>1, StoredRoom, SameDrafts DEF CopiesOf
  <1> QED BY <1>2, <1>4, <1>5 DEF Change

LEMMA BoardGetCopies ==
    ASSUME CopiesInv, NEW f \in Edit, BoardGet(f), NEW e \in Edit PROVE CopiesOf(e)'
  <1>1. IInv /\ RoomInv(e) /\ DraftInv(e) /\ StaleInv(e)
    BY DEF CopiesInv
  <1>2. UNCHANGED file /\ UNCHANGED late /\ UNCHANGED job
    BY DEF BoardGet
  <1>3. CASE f # e
    <2>1. call'[e] = call[e]
      BY <1>1, <1>3 DEF BoardGet, IInv, TypeOK
    <2> QED BY <1>1, <1>2, <2>1, SameRoom, SameDrafts DEF CopiesOf
  <1>4. CASE f = e
    <2> DEFINE new == ApplyEdit(e, text)
               next == IF new = text THEN "saved" ELSE "put"
    <2>1. call[e].at = "get" /\ etag > 0 /\ etag \in Nat
      BY <1>1, <1>4 DEF BoardGet, IInv, TypeOK
    <2>2. \A r \in late : r.by = e => r.base < etag /\ r.base # etag
      BY <1>1, <2>1 DEF StaleInv, IInv, TypeOK, PutType
    <2>3. \/ call'[e] = [at |-> next, attempt |-> call[e].attempt, tries |-> 1,
                         base |-> etag, draft |-> new]
          \/ call'[e] = [call[e] EXCEPT !.at = "failed"]
      BY <1>1, <1>4 DEF BoardGet, IInv, TypeOK
    <2>4. /\ call'[e].at \in {"saved", "put", "failed"} /\ call'[e].attempt = call[e].attempt
          /\ call'[e].at = "put" => call'[e].base = etag /\ new # text
      BY <1>1, <2>3 DEF IInv, TypeOK, CallType
    <2> HIDE DEF new, next
    <2>5. Most(e)' = Most(e) /\ MayHave(e) <= MayHave(e)' /\ MayHave(e)' \in Nat
      <3>1. Most(e)' = Most(e)
        BY <2>4 DEF Most
      <3>2. MayHave(e)' = IF e \in Shifting THEN 0 ELSE Most(e)
        BY <2>4, <3>1 DEF MayHave
      <3> QED BY <1>1, <3>1, <3>2, MostRange
    <2>6. Coming(e)' => call'[e].at = "put"
      BY <1>2, <2>2 DEF Coming, file, notes
    <2>7. Copies(text, e) \in Nat /\ Copies(text, e)' = Copies(text, e)
      BY <1>1, <1>2, CopiesNat DEF IInv, TypeOK, file, notes, Copies, Change
    <2>8. Coming(e)' => Copies(text, e) < Most(e)
      BY <1>1, <2>1, <2>4, <2>6, ReadToAdd DEF new
    <2>9. RoomInv(e)'
      BY <1>1, <2>5, <2>7, <2>8, MostRange DEF RoomInv
    <2>10. StaleInv(e)'
      BY <1>1, <1>2, <2>2, <2>4 DEF StaleInv, IInv, TypeOK, PutType
    <2>11. DraftInv(e)'
      <3>1. \A r \in Run : job[r].draft \in Text
        BY <1>1 DEF IInv, TypeOK, JobType
      <3>2. \A r \in late : r.draft \in Text
        BY <1>1 DEF IInv, TypeOK, PutType
      <3>3. /\ \A r \in Run : Copies(job[r].draft, e) <= MayHave(e)'
            /\ \A r \in late : r.by \in Note => Copies(r.draft, e) <= MayHave(e)'
        <4>1. PICK k \in Nat : k = MayHave(e)' /\ MayHave(e) <= k
          BY <2>5
        <4>2. MayHave(e) \in Nat /\ e \in Change
          BY <1>1, MostRange DEF Change
        <4> QED BY <1>1, <3>1, <3>2, <4>1, <4>2, CopiesNat DEF DraftInv
      <3> QED BY <1>2, <3>3 DEF DraftInv, Copies
    <2> QED BY <2>9, <2>10, <2>11 DEF CopiesOf
  <1> QED BY <1>3, <1>4

LEMMA PutAnsweredCopies ==
    ASSUME CopiesInv, NEW f \in Edit, PutAnswered(f), NEW e \in Edit PROVE CopiesOf(e)'
  <1>1. IInv /\ RoomInv(e) /\ DraftInv(e) /\ StaleInv(e)
    BY DEF CopiesInv
  <1>2. UNCHANGED <<late, job>> /\ call[f].at = "put"
    BY DEF PutAnswered
  <1>3. text \in Text /\ Copies(text, e) \in Nat /\ etag \in Nat
    BY <1>1, CopiesNat DEF IInv, TypeOK, Change
  <1>4. CASE /\ Matches(call[f].base) /\ Store(call[f].draft)
             /\ call' = [call EXCEPT ![f].at = "saved"]
    <2>1. /\ call[f].draft = ApplyEdit(f, text) /\ call[f].draft # text /\ call[f].draft \in Text
          /\ call[f].base = etag /\ f \in Change
      <3>1. call[f] \in CallType /\ Fresh(call[f].base, f, call[f].draft) /\ etag \in Nat
        BY <1>1, <1>2 DEF IInv, CallInv, TypeOK
      <3>2. call[f].base = etag
        BY <1>4, <3>1 DEF Matches, Fresh
      <3> QED BY <3>1, <3>2 DEF Fresh, CallType, Change
    <2>3. /\ f # e => call'[e] = call[e]
          /\ call'[f].at = "saved" /\ call'[f].attempt = call[f].attempt
      BY <1>1, <1>4 DEF IInv, TypeOK, CallType
    <2>4. MayHave(e)' = MayHave(e)
      BY <1>2, <2>3 DEF MayHave, Most
    <2>5. Copies(call[f].draft, e) <= MayHave(e)
      <3>1. f = e => Coming(e) /\ call[e].at # "get"
        BY <1>2, <2>1 DEF Coming
      <3> QED BY <1>1, <2>1, <3>1, EditedRoom
    <2>6. RoomInv(e)' /\ StaleInv(e)'
      BY <1>1, <1>2, <1>4, <2>1, <2>3, <2>4, <2>5, StoredRoom
    <2> QED BY <1>1, <1>2, <2>4, <2>6, SameDrafts DEF CopiesOf
  <1>5. CASE /\ ~Matches(call[f].base)
             /\ IF call[f].attempt < MaxAttempts
                  THEN call' = [call EXCEPT ![f] = Reading(call[f].attempt + 1)]
                  ELSE call' = [call EXCEPT ![f].at = "stale"]
             /\ UNCHANGED file
    <2>1. CASE f # e
      <3>1. call'[e] = call[e]
        BY <1>1, <1>5, <2>1 DEF IInv, TypeOK
      <3> QED BY <1>1, <1>2, <1>5, <3>1, SameRoom, SameDrafts DEF CopiesOf
    <2>2. CASE f = e
      <3>1. call[e].base \in 1..etag /\ call[e].base < etag /\ call[e].attempt \in Nat
        BY <1>1, <1>2, <1>3, <1>5, <2>2 DEF IInv, CallInv, Fresh, Matches, TypeOK, CallType
      <3>2. \A r \in late : r.by = e => r.base < etag /\ r.base # etag
        BY <1>1, <1>2, <1>3, <2>2, <3>1 DEF StaleInv, IInv, TypeOK, PutType
      <3>3. \/ call'[e].at = "get" /\ call'[e].attempt = call[e].attempt + 1
            \/ call'[e].at = "stale" /\ call'[e].attempt = call[e].attempt
        BY <1>1, <1>5, <2>2 DEF IInv, TypeOK, CallType, Reading
      <3>4. MayHave(e)' = MayHave(e)
        BY <1>2, <2>2, <3>1, <3>3 DEF MayHave, Most
      <3>5. ~Coming(e)'
        BY <1>2, <1>5, <3>2, <3>3 DEF Coming, file, notes
      <3>6. RoomInv(e)' /\ StaleInv(e)'
        BY <1>1, <1>2, <1>5, <3>2, <3>3, <3>4, <3>5 DEF RoomInv, StaleInv, Copies, file, notes
      <3> QED BY <1>1, <1>2, <3>4, <3>6, SameDrafts DEF CopiesOf
    <2> QED BY <2>1, <2>2
  <1> QED BY <1>4, <1>5 DEF PutAnswered

\* A PUT without an answer comes, late or not, as it did.
LEMMA PutRetriedCopies ==
    ASSUME CopiesInv, NEW f \in Edit, call[f].at = "put", PutRetried(f), UNCHANGED <<file, job>>,
           \A r \in late' : r \in late \/ (r.by = f /\ r.base = call[f].base),
           NEW e \in Edit
    PROVE  CopiesOf(e)'
  <1>1. IInv /\ RoomInv(e) /\ DraftInv(e) /\ StaleInv(e)
    BY DEF CopiesInv
  <1>2. /\ f # e => call'[e] = call[e]
        /\ call'[f].at \in {"put", "failed"}
        /\ call'[f].attempt = call[f].attempt /\ call'[f].base = call[f].base
    BY <1>1 DEF PutRetried, IInv, TypeOK, CallType
  <1>3. \A r \in late' : r.by \in Note => r \in late
    BY BoardAssumption
  <1>4. CASE f # e
    <2>1. \A r \in late' : r.by = e => r \in late
      BY <1>4
    <2>2. RoomInv(e)' /\ StaleInv(e)' /\ MayHave(e)' = MayHave(e)
      BY <1>1, <1>2, <1>4, <2>1, SameRoom
    <2> QED BY <1>1, <1>3, <2>2, SameDrafts DEF CopiesOf
  <1>5. CASE f = e
    <2>1. MayHave(e)' = MayHave(e) /\ Most(e)' = Most(e)
      BY <1>2, <1>5 DEF MayHave, Most
    <2>2. Coming(e)' => Coming(e)
      BY <1>2, <1>5 DEF Coming, file, notes
    <2>3. RoomInv(e)'
      BY <1>1, <2>1, <2>2 DEF RoomInv, Copies, file, notes
    <2>4. StaleInv(e)'
      BY <1>1, <1>2, <1>5 DEF StaleInv, file, notes, IInv, TypeOK, CallType
    <2> QED BY <1>1, <1>3, <2>1, <2>3, <2>4, SameDrafts DEF CopiesOf
  <1> QED BY <1>4, <1>5

\* What a run has drafted, or is about to.
LEMMA DraftsStep ==
    ASSUME CopiesInv, UNCHANGED call, NEW e \in Edit,
           \A r \in Run : Copies(job'[r].draft, e) <= MayHave(e),
           \A r \in late' : r.by \in Note => r \in late \/ Copies(r.draft, e) <= MayHave(e)
    PROVE  DraftInv(e)' /\ MayHave(e)' = MayHave(e)
  BY DEF CopiesInv, DraftInv, MayHave, Most, Copies

LEMMA ProcessingCopies ==
    ASSUME CopiesInv, NEW r \in Run, Processing(r), NEW e \in Edit PROVE CopiesOf(e)'
  <1>1. /\ IInv /\ RoomInv(e) /\ DraftInv(e) /\ StaleInv(e)
        /\ text \in Text /\ job \in [Run -> JobType]
    BY DEF CopiesInv, IInv, TypeOK
  <1>2. UNCHANGED call
    BY DEF Processing, ListInbox, ExtractItems, ReadBoard, WriteBoard, MoveToArchive
  <1>3. \A q \in Run : Copies(job[q].draft, e) <= MayHave(e)
    BY <1>1 DEF DraftInv
  <1>4. MayHave(e) \in Nat /\ Copies(Blank, e) <= MayHave(e) /\ e \in Change
    BY <1>1, MostRange, BlankText DEF Change
  <1>5. ASSUME NEW n, NextNote(r, n)
        PROVE  \A q \in Run : Copies(job'[q].draft, e) <= MayHave(e)
    <2>1. \A q \in Run : job'[q].draft = job[q].draft \/ job'[q].draft = Blank
      BY <1>1, <1>5 DEF NextNote, JobType
    <2> QED BY <1>3, <1>4, <2>1
  <1>6. CASE ListInbox(r)
    <2>1. \A q \in Run : job'[q].draft = job[q].draft
      BY <1>1, <1>6 DEF ListInbox, JobType
    <2> QED BY <1>1, <1>2, <1>3, <1>6, <2>1, DraftsStep, SameRoom DEF ListInbox, CopiesOf
  <1>7. ASSUME NEW n \in job[r].todo, ExtractItems(r, n) PROVE CopiesOf(e)'
    <2>1. \A q \in Run : Copies(job'[q].draft, e) <= MayHave(e)
      <3>1. CASE NextNote(r, n)
        BY <1>5, <3>1
      <3>2. CASE job' = [job EXCEPT ![r].at = IF n \in Actionable THEN "read" ELSE "move"]
        <4>1. \A q \in Run : job'[q].draft = job[q].draft
          BY <1>1, <3>2 DEF JobType
        <4> QED BY <1>3, <4>1
      <3> QED BY <1>7, <3>1, <3>2 DEF ExtractItems
    <2> QED BY <1>1, <1>2, <1>7, <2>1, DraftsStep, SameRoom DEF ExtractItems, CopiesOf
  <1>8. ASSUME NEW n \in job[r].todo, ReadBoard(r, n) PROVE CopiesOf(e)'
    <2>1. n \in Note /\ n \in Change /\ n # e
      BY <1>1, BoardAssumption DEF JobType, Change
    <2>2. PICK old \in {text, Blank} :
             job' = [job EXCEPT ![r].at = "write", ![r].draft = AddRow(old, n)]
      BY <1>8 DEF ReadBoard
    <2>3. old \in Text /\ Copies(old, e) <= MayHave(e)
      <3>1. CASE old = text
        BY <1>1, <3>1 DEF RoomInv
      <3>2. CASE old = Blank
        BY <1>4, <3>2, BlankText
      <3> QED BY <2>2, <3>1, <3>2
    <2>4. Copies(AddRow(old, n), e) <= MayHave(e)
      BY <1>4, <2>1, <2>3, RowAdded
    <2>5. \A q \in Run : job'[q].draft = job[q].draft \/ job'[q].draft = AddRow(old, n)
      BY <1>1, <2>2 DEF JobType
    <2>6. \A q \in Run : Copies(job'[q].draft, e) <= MayHave(e)
      BY <1>3, <2>4, <2>5
    <2> QED BY <1>1, <1>2, <1>8, <2>6, DraftsStep, SameRoom DEF ReadBoard, CopiesOf
  <1>9. ASSUME NEW n \in job[r].todo, WriteBoard(r, n) PROVE CopiesOf(e)'
    <2>1. n \in Note /\ n # e /\ job[r].draft \in Text /\ Copies(job[r].draft, e) <= MayHave(e)
      BY <1>1, <1>3, BoardAssumption DEF JobType
    <2>2. CASE Store(job[r].draft) /\ job' = [job EXCEPT ![r].at = "move"] /\ UNCHANGED late
      <3>1. \A q \in Run : job'[q].draft = job[q].draft
        BY <1>1, <2>2 DEF JobType
      <3>2. DraftInv(e)' /\ MayHave(e)' = MayHave(e)
        BY <1>2, <1>3, <2>2, <3>1, DraftsStep
      <3>3. RoomInv(e)' /\ StaleInv(e)'
        BY <1>1, <1>2, <2>1, <2>2, <3>2, StoredRoom
      <3> QED BY <3>2, <3>3 DEF CopiesOf
    <2>3. CASE NextNote(r, n) /\ UNCHANGED <<file, late>>
      <3>1. \A q \in Run : Copies(job'[q].draft, e) <= MayHave(e)
        BY <1>5, <2>3
      <3> QED BY <1>1, <1>2, <2>3, <3>1, DraftsStep, SameRoom DEF CopiesOf
    <2>4. CASE /\ late' = late \cup {[by |-> n, nth |-> 1, base |-> 0, draft |-> job[r].draft]}
               /\ NextNote(r, n) /\ UNCHANGED file
      <3>1. \A q \in Run : Copies(job'[q].draft, e) <= MayHave(e)
        BY <1>5, <2>4
      <3>2. \A p \in late' : p \in late \/ (p.by = n /\ p.draft = job[r].draft)
        BY <2>4
      <3>3. DraftInv(e)' /\ MayHave(e)' = MayHave(e)
        BY <1>2, <2>1, <3>1, <3>2, DraftsStep
      <3>4. RoomInv(e)' /\ StaleInv(e)'
        BY <1>1, <1>2, <2>1, <2>4, <3>2, SameRoom
      <3> QED BY <3>3, <3>4 DEF CopiesOf
    <2> QED BY <1>9, <2>2, <2>3, <2>4 DEF WriteBoard
  <1>10. ASSUME NEW n \in job[r].todo, MoveToArchive(r, n) PROVE CopiesOf(e)'
    <2>1. NextNote(r, n) /\ UNCHANGED <<file, late, call>>
      BY <1>10 DEF MoveToArchive
    <2>2. \A q \in Run : Copies(job'[q].draft, e) <= MayHave(e)
      BY <1>5, <2>1
    <2> QED BY <1>1, <1>2, <2>1, <2>2, DraftsStep, SameRoom DEF CopiesOf
  <1> QED BY <1>6, <1>7, <1>8, <1>9, <1>10 DEF Processing

LEMMA StepCopies == ASSUME CopiesInv, [Next]_vars PROVE CopiesInv'
  <1>1. IInv'
    BY StepIInv DEF CopiesInv
  <1> SUFFICES ASSUME NEW e \in Edit PROVE CopiesOf(e)'
    BY <1>1 DEF CopiesInv, CopiesOf
  <1>2. CASE UNCHANGED vars
    <2>1. RoomInv(e) /\ DraftInv(e) /\ StaleInv(e)
      BY DEF CopiesInv
    <2> QED BY <1>2, <2>1, SameRoom, SameDrafts DEF vars, CopiesOf
  <1>3. ASSUME NEW r \in late, LateArrive(r) PROVE CopiesOf(e)'
    BY <1>3, LateArriveCopies
  <1>4. ASSUME NEW f \in Edit, Editing(f) PROVE CopiesOf(e)'
    <2>1. CASE PutRefused(f)
      <3>1. call[f].at = "put" /\ PutRetried(f) /\ UNCHANGED <<file, job>> /\ late' = late
        BY <2>1 DEF PutRefused
      <3> QED BY <3>1, PutRetriedCopies
    <2>2. CASE PutUnanswered(f)
      <3>1. /\ call[f].at = "put" /\ PutRetried(f) /\ UNCHANGED <<file, job>>
            /\ \A p \in late' : p \in late \/ (p.by = f /\ p.base = call[f].base)
        BY <2>2 DEF PutUnanswered
      <3> QED BY <3>1, PutRetriedCopies
    <2> QED BY <1>4, <2>1, <2>2, BoardGetCopies, PutAnsweredCopies DEF Editing
  <1>5. ASSUME NEW n \in Note, Record(n) PROVE CopiesOf(e)'
    <2>1. RoomInv(e) /\ DraftInv(e) /\ StaleInv(e)
      BY DEF CopiesInv
    <2> QED BY <1>5, <2>1, SameRoom, SameDrafts DEF Record, CopiesOf
  <1>6. ASSUME NEW r \in Run, Processing(r) PROVE CopiesOf(e)'
    BY <1>6, ProcessingCopies
  <1> QED BY <1>2, <1>3, <1>4, <1>5, <1>6 DEF Next

LEMMA InitCopies == ASSUME BoardExists, Init PROVE CopiesInv
  <1>1. IInv
    BY InitIInv
  <1>2. ASSUME NEW e \in Edit PROVE RoomInv(e) /\ DraftInv(e) /\ StaleInv(e)
    <2>1. Copies(Blank, e) = 0 /\ call[e].at = "get" /\ call[e].attempt = 1
      BY BlankText DEF Init, Reading, Change
    <2>2. ~Coming(e) /\ MayHave(e) \in Nat
      BY <1>1, <2>1, MostRange DEF Init, Coming
    <2> QED BY <2>1, <2>2 DEF Init, RoomInv, DraftInv, StaleInv
  <1> QED BY <1>1, <1>2 DEF CopiesInv

\* A change that adds a line is on the board at most once per attempt of
\* _cas_edit, any other at most once: whatever requests are repeated or arrive
\* late, and though the voice-note runs write older texts back.
THEOREM RetriesSafe == ASSUME BoardExists PROVE Spec => []RetriesAddOnce
  <1>1. Init => CopiesInv
    BY InitCopies
  <1>2. CopiesInv /\ [Next]_vars => CopiesInv'
    BY StepCopies
  <1>3. CopiesInv => RetriesAddOnce
    <2> SUFFICES ASSUME CopiesInv, NEW e \in Edit PROVE Copies(text, e) <= Most(e)
      BY DEF RetriesAddOnce
    <2>1. text \in Text /\ Copies(text, e) \in Nat
      BY CopiesNat DEF CopiesInv, IInv, TypeOK, Change
    <2> QED BY <2>1, MostRange DEF CopiesInv, RoomInv
  <1> QED BY <1>1, <1>2, <1>3, PTL DEF Spec

-----------------------------------------------------------------------------
(* The notes, where the runs take turns, can read and are answered         *)

\* The items on the board, and those in a draft, counted again.
LEMMA SameItems ==
    ASSUME Calm, NotesInv, UNCHANGED <<job, kept>>, archive' = archive,
           \A m \in Note : Copies(text', m) = Copies(text, m)
    PROVE  ItemsInv'
  <1>1. \A r, n, step : At(r, n, step)' = At(r, n, step)
    BY DEF At
  <1>2. \A n : Filings(n)' = Filings(n)
    BY <1>1 DEF Filings, Filed
  <1>3. \A m \in Note : Copies(text, m)' = Copies(text, m)
    BY DEF Copies
  <1>4. \A r \in Run, m \in Note : Copies(job[r].draft, m)' = Copies(job[r].draft, m)
    BY DEF Copies
  <1> QED BY <1>1, <1>2, <1>3, <1>4 DEF NotesInv, ItemsInv

\* The backlog tools neither add nor take back a note's items: they only put
\* its rows elsewhere.
LEMMA EditingNotes ==
    ASSUME Calm, NotesInv, UNCHANGED <<notes, job>>,
           \A r \in late' : r.by \in Edit,
           text' = text \/ \E e \in Edit : text' = ApplyEdit(e, text)
    PROVE  TurnsInv' /\ ItemsInv'
  <1>1. \A m \in Note : Copies(text', m) = Copies(text, m)
    <2>1. CASE text' = text
      BY <2>1
    <2>2. ASSUME NEW e \in Edit, text' = ApplyEdit(e, text), NEW m \in Note
          PROVE  Copies(text', m) = Copies(text, m)
      <3>1. m \in Change /\ e # m /\ text \in Text
        BY BoardAssumption DEF Change, NotesInv, IInv, TypeOK
      <3> QED BY <2>2, <3>1, EditedText
    <2> QED BY <2>1, <2>2
  <1>2. TurnsInv'
    BY DEF NotesInv, TurnsInv, Active, notes
  <1> QED BY <1>1, <1>2, SameItems DEF notes

\* While a run is at a note, no other run is under way.
LEMMA AtItsTurn ==
    ASSUME NotesInv, NEW r \in Run, Active(r), NEW n \in job[r].todo,
           \A m \in job[r].todo : n <= m
    PROVE  /\ n \in Note /\ n \in Change /\ n \in inbox /\ n \notin archive
           /\ job[r].todo \subseteq inbox /\ job[r].todo \subseteq Note
           /\ \A q \in Run : q # r => ~Active(q)
           /\ \A q \in Run, m \in Note, step \in {"extract", "read", "write", "move"} :
                At(q, m, step) <=> q = r /\ m = n /\ job[r].at = step
  <1>1. n \in Note /\ n \in Change /\ n \in inbox /\ n \notin archive
    BY DEF NotesInv, IInv, TypeOK, JobType, TurnsInv, Change
  <1>2. job[r].todo \subseteq inbox /\ job[r].todo \subseteq Note
    BY DEF NotesInv, IInv, TypeOK, JobType, TurnsInv
  <1>3. \A q \in Run : q # r => ~Active(q)
    BY DEF NotesInv, TurnsInv
  <1>4. ASSUME NEW q \in Run, NEW m \in Note, NEW step \in {"extract", "read", "write", "move"}
        PROVE  At(q, m, step) <=> q = r /\ m = n /\ job[r].at = step
    <2>1. ASSUME At(q, m, step) PROVE q = r /\ m = n /\ job[r].at = step
      <3>1. q = r /\ job[r].at = step
        BY <1>3, <2>1 DEF At, Active
      <3>2. m <= n /\ n <= m
        BY <2>1, <3>1 DEF At
      <3> QED BY <1>1, <3>1, <3>2, BoardAssumption
    <2>2. ASSUME q = r, m = n, job[r].at = step PROVE At(q, m, step)
      BY <2>2 DEF At
    <2> QED BY <2>1, <2>2
  <1> QED BY <1>1, <1>2, <1>3, <1>4

\* A run at note n goes on from it, or to another step of it.
NoteStep(r, n, at, todo, draft) ==
    /\ Active(r) /\ \A m \in job[r].todo : n <= m
    /\ at \in {"extract", "read", "write", "move", "done"}
    /\ todo \subseteq job[r].todo
    /\ at \notin {"extract", "done"} => todo = job[r].todo
    /\ Becomes(r, at, todo, draft)

LEMMA JobAfter ==
    ASSUME NotesInv, NEW r \in Run, NEW n \in job[r].todo, NEW at, NEW todo, NEW draft,
           NoteStep(r, n, at, todo, draft)
    PROVE  /\ \A q \in Run : q # r => ~Active(q)'
           /\ job'[r].todo = todo /\ job'[r].draft = draft
           /\ \A q \in Run, m \in Note, step \in {"read", "write", "move"} :
                At(q, m, step)' <=> q = r /\ m = n /\ at = step
  <1> USE DEF NoteStep
  <1>1. /\ job'[r] = [at |-> at, todo |-> todo, draft |-> draft]
        /\ \A q \in Run \ {r} : job'[q] = job[q]
    BY DEF Becomes, NotesInv, IInv, TypeOK
  <1>2. \A q \in Run : q # r => ~Active(q)'
    BY <1>1, AtItsTurn DEF Active
  <1>3. ASSUME NEW q \in Run, NEW m \in Note, NEW step \in {"read", "write", "move"}
        PROVE  At(q, m, step)' <=> q = r /\ m = n /\ at = step
    <2>1. ASSUME At(q, m, step)' PROVE q = r /\ m = n /\ at = step
      <3>1. q = r /\ at = step
        BY <1>1, <1>2, <2>1 DEF At, Active
      <3>2. m <= n /\ n <= m
        BY <1>1, <2>1, <3>1 DEF At
      <3>3. m \in Nat /\ n \in Nat
        BY AtItsTurn, BoardAssumption
      <3> QED BY <3>1, <3>2, <3>3
    <2>2. ASSUME q = r, m = n, at = step PROVE At(q, m, step)'
      BY <1>1, <2>2 DEF At
    <2> QED BY <2>1, <2>2
  <1> QED BY <1>1, <1>2, <1>3

\* The note is not filed when its turn to be written comes.
LEMMA NotYetOn ==
    ASSUME NotesInv, NEW r \in Run, NEW n \in job[r].todo, \A m \in job[r].todo : n <= m,
           job[r].at \in {"extract", "read", "write"}
    PROVE  ~Filed(n)
  <1>1. Active(r)
    BY DEF Active
  <1>2. n \in Note /\ n \notin archive
    BY <1>1, AtItsTurn
  <1>3. \A q \in Run : ~At(q, n, "move")
    BY <1>1, <1>2, AtItsTurn
  <1> QED BY <1>2, <1>3 DEF NotesInv, ItemsInv, Filed

\* Steps of a run at a note that leave the board alone and are not its last.
LEMMA BoardKeptNotes ==
    ASSUME Calm, NotesInv, NEW r \in Run, NEW n \in job[r].todo, NEW at, NEW todo, NEW draft,
           NoteStep(r, n, at, todo, draft),
           job[r].at # "move", UNCHANGED <<text, late, notes>>,
           at \in {"read", "write"} => n \in Actionable,
           at = "move" => n \notin Actionable,
           at = "write" => \A m \in Note : Copies(draft, m) = Filings(m) + IF m = n THEN 1 ELSE 0
    PROVE  TurnsInv' /\ ItemsInv'
  <1>1. Active(r) /\ todo \subseteq job[r].todo /\ \A m \in job[r].todo : n <= m
    BY DEF NoteStep
  <1>2. /\ \A q \in Run : q # r => ~Active(q)'
        /\ job'[r].todo = todo
        /\ \A q \in Run, m \in Note, step \in {"read", "write", "move"} :
             At(q, m, step)' <=> q = r /\ m = n /\ at = step
        /\ job'[r].draft = draft
    BY JobAfter
  <1>3. todo \subseteq inbox /\ n \in Note
    BY <1>1, AtItsTurn
  <1>4. TurnsInv'
    <2>1. \A q \in Run : Active(q)' => q = r
      BY <1>2
    <2>2. \A q \in Run : Active(q)' => job'[q].todo \subseteq inbox
      BY <1>2, <1>3, <2>1
    <2> QED BY <2>1, <2>2 DEF NotesInv, TurnsInv, notes
  <1>5. \A m \in Note : m \in Actionable => (Filed(m)' <=> Filed(m))
    <2> SUFFICES ASSUME NEW m \in Note, m \in Actionable PROVE Filed(m)' <=> Filed(m)
      OBVIOUS
    <2>1. \A q \in Run : ~At(q, m, "move")
      BY <1>1, AtItsTurn
    <2>2. \A q \in Run : ~At(q, m, "move")'
      BY <1>2
    <2> QED BY <2>1, <2>2 DEF Filed, notes
  <1>8. \A m \in Note : Filings(m)' = Filings(m)
    BY <1>5 DEF Filings, notes
  <1>6. \A m \in Note : Copies(text, m)' = Filings(m)'
    BY <1>8 DEF NotesInv, ItemsInv, Copies
  <1>7. ASSUME NEW q \in Run, NEW m \in Note
        PROVE  /\ (At(q, m, "read") \/ At(q, m, "write"))' => m \in Actionable
               /\ At(q, m, "write")' =>
                    \A k \in Note : Copies(job[q].draft, k)' = Filings(k)' + IF k = m THEN 1 ELSE 0
    BY <1>2, <1>7, <1>8 DEF Copies
  <1> QED BY <1>4, <1>6, <1>7 DEF ItemsInv

LEMMA NextNoteJob ==
    ASSUME NotesInv, NEW r \in Run, NEW n, NextNote(r, n)
    PROVE  \E at \in {"extract", "done"} : Becomes(r, at, job[r].todo \ {n}, Blank)
  <1> DEFINE rest == job[r].todo \ {n}
             at == IF rest = {} THEN "done" ELSE "extract"
  <1>1. job' = [job EXCEPT ![r].at = at, ![r].todo = rest, ![r].draft = Blank]
    BY DEF NextNote
  <1>2. at \in {"extract", "done"}
    OBVIOUS
  <1> HIDE DEF at, rest
  <1>3. Becomes(r, at, rest, Blank)
    BY <1>1, JobBecomes DEF NotesInv
  <1> QED BY <1>2, <1>3 DEF rest

LEMMA NextNoteKeepsNotes ==
    ASSUME Calm, NotesInv, NEW r \in Run, NEW n \in job[r].todo, \A m \in job[r].todo : n <= m,
           job[r].at \in {"extract", "write"}, UNCHANGED <<text, late, notes>>, NextNote(r, n)
    PROVE  TurnsInv' /\ ItemsInv'
  <1> DEFINE rest == job[r].todo \ {n}
  <1>1. PICK at \in {"extract", "done"} : Becomes(r, at, rest, Blank)
    BY NextNoteJob
  <1>2. NoteStep(r, n, at, rest, Blank)
    BY <1>1 DEF NoteStep, Active
  <1> HIDE DEF rest
  <1> QED BY <1>1, <1>2, BoardKeptNotes

LEMMA ListInboxNotes == ASSUME Calm, NotesInv, NEW r \in Run, ListInbox(r) PROVE TurnsInv' /\ ItemsInv'
  <1>1. /\ \A q \in Run : ~Active(q)
        /\ UNCHANGED <<text, late, notes>>
        /\ job[r].at = "list"
    BY DEF ListInbox, Active, file, notes
  <1>2. /\ \A q \in Run \ {r} : job'[q] = job[q]
        /\ job'[r].todo = inbox /\ job'[r].at \in {"done", "extract"}
    BY DEF ListInbox, NotesInv, IInv, TypeOK, JobType
  <1>3. TurnsInv'
    BY <1>1, <1>2 DEF NotesInv, TurnsInv, Active, notes
  <1>4. \A q \in Run, m \in Note, step \in {"read", "write", "move"} :
          ~At(q, m, step) /\ ~At(q, m, step)'
    BY <1>1, <1>2 DEF At, Active
  <1>5. \A m : Filings(m)' = Filings(m)
    BY <1>1, <1>2 DEF Filings, Filed, At, Active, notes
  <1> QED BY <1>1, <1>3, <1>4, <1>5 DEF NotesInv, ItemsInv, Copies

LEMMA ExtractNotes ==
    ASSUME Calm, NotesInv, NEW r \in Run, NEW n \in job[r].todo, ExtractItems(r, n)
    PROVE  TurnsInv' /\ ItemsInv'
  <1>1. /\ job[r].at = "extract" /\ (\A m \in job[r].todo : n <= m)
        /\ UNCHANGED <<text, late, notes>>
    BY DEF ExtractItems, At, file, notes
  <1>2. CASE NextNote(r, n)
    BY <1>1, <1>2, NextNoteKeepsNotes
  <1>3. CASE job' = [job EXCEPT ![r].at = IF n \in Actionable THEN "read" ELSE "move"]
    <2> DEFINE at == IF n \in Actionable THEN "read" ELSE "move"
    <2>1. Becomes(r, at, job[r].todo, job[r].draft)
      BY <1>3, JobBecomes DEF NotesInv
    <2>2. /\ at \in {"read", "move"} /\ (at = "read" => n \in Actionable)
          /\ at = "move" => n \notin Actionable
      OBVIOUS
    <2> HIDE DEF at
    <2>3. NoteStep(r, n, at, job[r].todo, job[r].draft)
      BY <1>1, <2>1, <2>2 DEF NoteStep, Active
    <2> QED BY <1>1, <2>2, <2>3, BoardKeptNotes
  <1> QED BY <1>2, <1>3 DEF ExtractItems

LEMMA ReadNotes ==
    ASSUME Calm, NotesInv, NEW r \in Run, NEW n \in job[r].todo, ReadBoard(r, n)
    PROVE  TurnsInv' /\ ItemsInv'
  <1>1. /\ job[r].at = "read" /\ (\A m \in job[r].todo : n <= m) /\ At(r, n, "read")
        /\ UNCHANGED <<text, late, notes>>
        /\ job' = [job EXCEPT ![r].at = "write", ![r].draft = AddRow(text, n)]
    BY DEF ReadBoard, At, file, notes
  <1>2. n \in Note /\ n \in Change /\ text \in Text
    BY DEF NotesInv, IInv, TypeOK, JobType, Change
  <1>3. n \in Actionable
    BY <1>1, <1>2 DEF NotesInv, ItemsInv
  <1>4. \A m \in Note : Copies(AddRow(text, n), m) = Filings(m) + IF m = n THEN 1 ELSE 0
    <2> SUFFICES ASSUME NEW m \in Note
                 PROVE  Copies(AddRow(text, n), m) = Filings(m) + IF m = n THEN 1 ELSE 0
      OBVIOUS
    <2>1. m \in Change /\ Copies(text, m) = Filings(m) /\ Filings(m) \in Int
      BY <1>2, CopiesNat DEF Change, NotesInv, ItemsInv
    <2> QED BY <1>2, <2>1, RowAdded
  <1> DEFINE draft == AddRow(text, n)
  <1>5. Becomes(r, "write", job[r].todo, draft)
    BY <1>1, JobBecomes DEF NotesInv
  <1> HIDE DEF draft
  <1>6. \A m \in Note : Copies(draft, m) = Filings(m) + IF m = n THEN 1 ELSE 0
    BY <1>4 DEF draft
  <1>7. NoteStep(r, n, "write", job[r].todo, draft)
    BY <1>1, <1>5 DEF NoteStep, Active
  <1> QED BY <1>1, <1>3, <1>6, <1>7, BoardKeptNotes

LEMMA WriteNotes ==
    ASSUME Calm, NotesInv, NEW r \in Run, NEW n \in job[r].todo, WriteBoard(r, n)
    PROVE  TurnsInv' /\ ItemsInv'
  <1>1. /\ job[r].at = "write" /\ (\A m \in job[r].todo : n <= m) /\ At(r, n, "write") /\ Active(r)
        /\ UNCHANGED <<late, notes>>
    BY DEF WriteBoard, At, Active
  <1>2. n \in Note /\ n \in Actionable /\ n \notin archive /\ job[r].todo \subseteq inbox
    BY <1>1, AtItsTurn DEF NotesInv, ItemsInv
  <1>3. CASE NextNote(r, n) /\ UNCHANGED file
    BY <1>1, <1>3, NextNoteKeepsNotes DEF file, notes
  <1>4. CASE Store(job[r].draft) /\ job' = [job EXCEPT ![r].at = "move"]
    <2>1. Becomes(r, "move", job[r].todo, job[r].draft)
      BY <1>4, JobBecomes DEF NotesInv
    <2>2. /\ \A q \in Run : q # r => ~Active(q)'
          /\ job'[r].todo = job[r].todo
          /\ \A q \in Run, m \in Note, step \in {"read", "write", "move"} :
               At(q, m, step)' <=> q = r /\ m = n /\ step = "move"
      <3>1. NoteStep(r, n, "move", job[r].todo, job[r].draft)
        BY <1>1, <2>1 DEF NoteStep
      <3> QED BY <3>1, JobAfter
    <2>3. TurnsInv'
      <3>1. \A q \in Run : Active(q)' => q = r
        BY <2>2
      <3>2. \A q \in Run : Active(q)' => job'[q].todo \subseteq inbox
        BY <1>2, <2>2, <3>1
      <3> QED BY <1>1, <3>1, <3>2 DEF NotesInv, TurnsInv, notes
    <2>4. \A m \in Note : Copies(text, m)' = Filings(m) + IF m = n THEN 1 ELSE 0
      BY <1>1, <1>2, <1>4 DEF NotesInv, ItemsInv, Store, Copies
    <2>5. \A m \in Note : Filed(m)' <=> m = n \/ Filed(m)
      <3>1. \A m \in Note, q \in Run : ~At(q, m, "move")
        BY <1>1, AtItsTurn
      <3>2. \A m \in Note : (\E q \in Run : At(q, m, "move")') <=> m = n
        BY <2>2
      <3> QED BY <1>1, <3>1, <3>2 DEF Filed, notes
    <2>6. \A m \in Note : Copies(text, m)' = Filings(m)'
      <3> SUFFICES ASSUME NEW m \in Note PROVE Copies(text, m)' = Filings(m)'
        OBVIOUS
      <3>1. kept[m] \in Nat /\ kept' = kept
        BY <1>1 DEF NotesInv, IInv, TypeOK, notes
      <3>2. ~Filed(n)
        BY <1>1, NotYetOn
      <3> QED BY <1>2, <2>4, <2>5, <3>1, <3>2 DEF Filings
    <2>7. \A q \in Run, m \in Note : ~At(q, m, "read")' /\ ~At(q, m, "write")'
      BY <2>2
    <2> QED BY <2>3, <2>6, <2>7 DEF ItemsInv
  <1> QED BY <1>3, <1>4 DEF WriteBoard

LEMMA MoveNotes ==
    ASSUME Calm, NotesInv, NEW r \in Run, NEW n \in job[r].todo, MoveToArchive(r, n)
    PROVE  TurnsInv' /\ ItemsInv'
  <1>1. /\ job[r].at = "move" /\ (\A m \in job[r].todo : n <= m) /\ At(r, n, "move") /\ Active(r)
        /\ UNCHANGED <<text, late>> /\ NextNote(r, n)
    BY DEF MoveToArchive, At, Active, file, notes
  <1>2. n \in Note /\ job[r].todo \subseteq inbox /\ n \notin archive
    BY <1>1, AtItsTurn
  <1>3. \/ inbox' = inbox \ {n} /\ archive' = archive \cup {n} /\ kept' = kept
        \/ inbox' = inbox /\ archive' = archive /\ kept' = [kept EXCEPT ![n] = @ + 1]
    BY DEF MoveToArchive
  <1> DEFINE rest == job[r].todo \ {n}
  <1>4. PICK at \in {"extract", "done"} :
          Becomes(r, at, rest, Blank)
    BY <1>1, NextNoteJob
  <1>5. rest \subseteq job[r].todo /\ rest \subseteq inbox'
    BY <1>1, <1>2, <1>3
  <1> HIDE DEF rest
  <1>6. /\ \A q \in Run : q # r => ~Active(q)'
        /\ job'[r].todo = rest
        /\ \A q \in Run, m \in Note, step \in {"read", "write", "move"} : ~At(q, m, step)'
    <2>1. NoteStep(r, n, at, rest, Blank)
      BY <1>1, <1>4, <1>5 DEF NoteStep
    <2> QED BY <2>1, JobAfter
  <1>7. TurnsInv'
    <2>1. \A q \in Run : Active(q)' => q = r
      BY <1>6
    <2>2. \A q \in Run : Active(q)' => job'[q].todo \subseteq inbox'
      BY <1>5, <1>6, <2>1
    <2>3. inbox' \cap archive' = {}
      BY <1>3 DEF NotesInv, TurnsInv
    <2> QED BY <1>1, <2>1, <2>2, <2>3 DEF NotesInv, TurnsInv
  <1>8. \A m \in Note : Filings(m)' = Filings(m)
    <2> SUFFICES ASSUME NEW m \in Note PROVE Filings(m)' = Filings(m)
      OBVIOUS
    <2>1. (\E q \in Run : At(q, m, "move")) <=> m = n
      BY <1>1, AtItsTurn
    <2>2. ~(\E q \in Run : At(q, m, "move")')
      BY <1>6
    <2>3. kept \in [Note -> Nat]
      BY DEF NotesInv, IInv, TypeOK
    <2>4. CASE m = n
      <3>1. Filed(m) /\ kept[m] \in Nat
        BY <2>1, <2>3, <2>4 DEF Filed
      <3>2. \/ Filed(m)' /\ kept'[m] = kept[m]
            \/ ~Filed(m)' /\ kept'[m] = kept[m] + 1
        BY <1>2, <1>3, <2>2, <2>3, <2>4 DEF Filed
      <3> QED BY <3>1, <3>2 DEF Filings
    <2>5. CASE m # n
      <3>1. (Filed(m)' <=> Filed(m)) /\ kept'[m] = kept[m]
        BY <1>3, <2>1, <2>2, <2>3, <2>5 DEF Filed
      <3> QED BY <3>1 DEF Filings
    <2> QED BY <2>4, <2>5
  <1>9. \A m \in Note : Copies(text, m)' = Filings(m)'
    BY <1>1, <1>8 DEF NotesInv, ItemsInv, Copies
  <1> QED BY <1>6, <1>7, <1>9 DEF ItemsInv

LEMMA StepNotes == ASSUME Calm, NotesInv, [Next]_vars PROVE NotesInv'
  <1>1. IInv /\ IInv'
    BY StepIInv DEF NotesInv
  <1> SUFFICES TurnsInv' /\ ItemsInv'
    BY <1>1 DEF NotesInv
  <1>2. CASE UNCHANGED vars
    BY <1>2, EditingNotes DEF vars, file, notes, NotesInv, TurnsInv
  <1>3. ASSUME NEW r \in late, LateArrive(r) PROVE TurnsInv' /\ ItemsInv'
    <2>1. /\ UNCHANGED <<notes, job>> /\ (\A p \in late' : p.by \in Edit)
          /\ r.by \in Edit /\ Matches(r.base) /\ text' = r.draft
      BY <1>3 DEF LateArrive, Store, NotesInv, TurnsInv
    <2>2. text' = ApplyEdit(r.by, text)
      BY <1>1, <2>1 DEF IInv, LateInv, Fresh, Matches
    <2> QED BY <2>1, <2>2, EditingNotes
  <1>4. ASSUME NEW e \in Edit, Editing(e) PROVE TurnsInv' /\ ItemsInv'
    <2>1. UNCHANGED <<notes, job>> /\ (\A p \in late' : p.by \in Edit)
      BY <1>4 DEF Editing, BoardGet, PutAnswered, PutRefused, PutUnanswered, NotesInv, TurnsInv
    <2>2. \/ text' = text
          \/ call[e].at = "put" /\ Matches(call[e].base) /\ text' = call[e].draft
      BY <1>4 DEF Editing, BoardGet, PutAnswered, PutRefused, PutUnanswered, Store, file, notes
    <2>3. text' = text \/ text' = ApplyEdit(e, text)
      BY <1>1, <2>2 DEF IInv, CallInv, Fresh, Matches
    <2> QED BY <2>1, <2>3, EditingNotes
  <1>5. ASSUME NEW n \in Note, Record(n) PROVE TurnsInv' /\ ItemsInv'
    <2>1. TurnsInv'
      BY <1>5 DEF Record, NotesInv, TurnsInv, Active
    <2> QED BY <1>5, <2>1, SameItems DEF Record, file, notes
  <1>6. ASSUME NEW r \in Run, Processing(r) PROVE TurnsInv' /\ ItemsInv'
    BY <1>6, ListInboxNotes, ExtractNotes, ReadNotes, WriteNotes, MoveNotes DEF Processing
  <1> QED BY <1>2, <1>3, <1>4, <1>5, <1>6 DEF Next

LEMMA InitNotes == ASSUME BoardExists, Init PROVE NotesInv
  <1>1. IInv
    BY InitIInv
  <1>2. \A r \in Run : job[r].at = "list" /\ job[r].todo = {}
    BY DEF Init
  <1>3. TurnsInv
    BY <1>2 DEF Init, TurnsInv, Active
  <1>4. \A r \in Run : \A n, step : ~At(r, n, step)
    BY <1>2 DEF At
  <1>5. \A n \in Note : Filings(n) = 0 /\ Copies(text, n) = 0
    BY <1>4, BlankText DEF Init, Filed, Filings, Change
  <1> QED BY <1>1, <1>3, <1>4, <1>5 DEF NotesInv, ItemsInv

LEMMA CalmNotes == ASSUME BoardExists, Calm PROVE Spec => []NotesInv
  <1>1. Init => NotesInv
    BY InitNotes
  <1>2. NotesInv /\ [Next]_vars => NotesInv'
    BY StepNotes
  <1> QED BY <1>1, <1>2, PTL DEF Spec

\* While the runs take turns, can read the board and have their PUTs answered, a note is only
\* archived once its items are on the board, and they stay, however the backlog
\* tools edit it, until someone clears them off from under Completed ...
THEOREM ArchivedStays == ASSUME BoardExists, Calm PROVE Spec => []ArchivedIsOnBoard
  <1>1. NotesInv => ArchivedIsOnBoard
    <2> SUFFICES ASSUME NotesInv, NEW n \in archive, n \in Actionable
                 PROVE  OnBoard(text, n) \/ text[n].cleared > 0
      BY DEF ArchivedIsOnBoard
    <2>1. n \in Note /\ n \in Change /\ Filed(n) /\ text \in Text /\ kept[n] \in Nat
      BY DEF NotesInv, IInv, TypeOK, Filed, Change
    <2>2. Copies(text, n) = kept[n] + 1
      BY <2>1 DEF NotesInv, ItemsInv, Filings
    <2> QED BY <2>1, <2>2, CopiesNat
  <1> QED BY <1>1, CalmNotes, PTL

\* ... and they are put there once, and once more for every failed MOVE, after
\* which the note is still in the Inbox; a run that cannot write the board
\* leaves the note to the next without having put anything there.
THEOREM ItemsOnce == ASSUME BoardExists, Calm PROVE Spec => []NoteOnce
  <1>1. NotesInv => NoteOnce
    <2> SUFFICES ASSUME NotesInv, NEW n \in Note PROVE Copies(text, n) <= 1 + kept[n]
      BY DEF NoteOnce
    <2>1. kept[n] \in Nat /\ Copies(text, n) = Filings(n)
      BY DEF NotesInv, IInv, TypeOK, ItemsInv
    <2> QED BY <2>1 DEF Filings
  <1> QED BY <1>1, CalmNotes, PTL

=============================================================================
