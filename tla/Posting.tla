------------------------------- MODULE Posting -------------------------------
(***************************************************************************)
(* Public posts.  A YouTube clip is a card of the Action Board             *)
(* (social_queue, dashboard/routes/action_board.py); scheduling it mirrors *)
(* it into youtube_queue, whose rows the processors upload: the            *)
(* scheduler's ticks (utils/scheduler.py) and the process-queue route      *)
(* (routes/youtube.py).  The outcome comes back to the card                *)
(* (utils/social_youtube_sync.py), at once or by the watcher's heal.       *)
(*                                                                         *)
(* Dates are left open: a card has both of its dates or lacks one, and a   *)
(* processor may find any of the queued rows due.  A request that reads a  *)
(* row and writes it by what it read is two steps, since the row is not    *)
(* locked in between.                                                      *)
(***************************************************************************)
EXTENDS Integers, Sequences, FiniteSets

CONSTANTS Card,       \* cards of platform youtube
          NoCard,     \* of a row added to youtube_queue directly
          Tick,       \* runs of _process_youtube_queue under way at once
          Now,        \* runs of process-queue under way at once
          Rewriter,   \* requests under way that rewrite a card's platform_data
          CardSent,   \* the statuses that PATCH requests of cards bring
          RowSent,    \* and those of rows
          Limit,      \* rows a tick takes
          MaxRows,    \* bounds the rows of youtube_queue
          Alone       \* TRUE: no processor starts while another is at work

VARIABLES card,       \* social_queue: status, and link, the youtube_queue_id
          row,        \* youtube_queue in the order of ids: clip, status, has its video
          edit,       \* the PATCH or DELETE of a row that has read its status
          held,       \* per rewriter: the card it read, and the link it read there
          run,        \* the processors
          stale,      \* history: cards that were given back a link they no longer had
          claimed     \* history: cards that a PATCH, theirs or of a row of theirs, called public

vars == <<card, row, edit, held, run, stale, claimed>>

Run == Tick \cup Now

Status == {"draft", "queued", "uploading", "uploaded", "published", "failed", "cancelled"}

ASSUME PostingAssumption == /\ NoCard \notin Card
                            /\ CardSent \subseteq Status /\ RowSent \subseteq Status
                            /\ Limit \in Nat /\ MaxRows \in Nat
                            /\ Alone \in BOOLEAN /\ Tick \cap Now = {}

Editable == {"draft", "queued", "failed"}
Finished == {"uploaded", "published", "failed", "cancelled"}
Public == {"uploaded", "published"}

RowType == [clip : Card \cup {NoCard}, status : Status, video : BOOLEAN]

NoEdit == [row |-> 0, to |-> "draft"]
NoHold == [card |-> NoCard, link |-> 0]
Idle == [at |-> "idle", todo |-> {}, row |-> 0]

TypeOK == /\ card \in [Card -> [status : Status, link : Nat]]
          /\ row \in Seq(RowType)
          /\ edit \in [row : Nat, to : Status]
          /\ held \in [Rewriter -> [card : Card \cup {NoCard}, link : Nat]]
          /\ run \in [Run -> [at : {"idle", "next", "send", "failed"},
                              todo : SUBSET Nat, row : Nat]]
          /\ stale \subseteq Card
          /\ claimed \subseteq Card

\* Drafts of a session's clips wait on the board.
Init == /\ card = [c \in Card |-> [status |-> "draft", link |-> 0]]
        /\ row = <<>>
        /\ edit = NoEdit
        /\ held = [w \in Rewriter |-> NoHold]
        /\ run = [p \in Run |-> Idle]
        /\ stale = {}
        /\ claimed = {}

-----------------------------------------------------------------------------
(* The board                                                               *)

NewRow(clip) == [clip |-> clip, status |-> "queued", video |-> FALSE]

\* Faulty: the id of the row is not stored back.
Linked_m(c, new) == card' = [card EXCEPT ![c] = new]

\* The id of the row just inserted goes into the card's platform_data.
Linked(c, new) ==
    card' = [card EXCEPT ![c] = [status |-> new.status, link |-> Len(row) + 1]]

\* _promote_youtube_post: a card queued with both dates gets a row; the row it
\* has is queued again unless it is past that.
Promote(c, new) ==
    \/ /\ new.link # 0
       /\ card' = [card EXCEPT ![c] = new]
       /\ row' = [row EXCEPT ![new.link].status = IF @ \in Editable THEN "queued" ELSE @]
    \/ /\ new.link = 0
       /\ Len(row) < MaxRows
       /\ row' = Append(row, NewRow(c))
       /\ Linked(c, new)

\* PATCH of a card: an edit, a schedule, a return to draft, or whatever status the
\* table accepts, uploaded and published among them: the body is not validated.  A
\* card that lacks one of its dates is not promoted.
UpdateSocialItem(c, status) ==
    LET new == [card[c] EXCEPT !.status = status] IN
    /\ status \in CardSent \cup {card[c].status}
    /\ \/ status = "queued" /\ Promote(c, new)
       \/ card' = [card EXCEPT ![c] = new] /\ UNCHANGED row
    /\ claimed' = IF status \in Public \ {card[c].status} THEN claimed \cup {c} ELSE claimed
    /\ UNCHANGED <<edit, held, run, stale>>

\* DELETE of a card; its row, if any, is left alone.
DeleteSocialItem(c) ==
    /\ card' = [card EXCEPT ![c].status = "cancelled"]
    /\ UNCHANGED <<row, edit, held, run, stale, claimed>>

\* mark_testing_items and regen-draft-meta read a card's platform_data ...
Rewrites(w, c, from) ==
    /\ held[w] = NoHold
    /\ card[c].status \in from
    /\ held' = [held EXCEPT ![w] = [card |-> c, link |-> card[c].link]]
    /\ UNCHANGED <<card, row, edit, run, stale, claimed>>

MarkTesting(w, c) == Rewrites(w, c, Editable)
RegenDraftMeta(w, c) == Rewrites(w, c, {"draft"})

\* ... and write it back, the youtube_queue_id in it included; regen, whose
\* model calls take minutes in between, only if the card is still a draft.
WriteBack(w) ==
    LET c == held[w].card IN
    /\ held[w] # NoHold
    /\ held' = [held EXCEPT ![w] = NoHold]
    /\ \/ /\ card' = [card EXCEPT ![c].link = held[w].link]
          /\ stale' = IF held[w].link = card[c].link THEN stale ELSE stale \cup {c}
       \/ card[c].status # "draft" /\ UNCHANGED <<card, stale>>
    /\ UNCHANGED <<row, edit, run, claimed>>

-----------------------------------------------------------------------------
(* youtube_queue                                                           *)

\* POST: a post that has no card.
YoutubeQueueAdd ==
    /\ Len(row) < MaxRows
    /\ row' = Append(row, NewRow(NoCard))
    /\ UNCHANGED <<card, edit, held, run, stale, claimed>>

\* PATCH and DELETE look at the status the row has, not at the one a PATCH brings;
\* a DELETE is a cancelled of a row that has not failed ...
YoutubeQueueUpdate(r, to) ==
    /\ edit = NoEdit
    /\ row[r].status \in Editable /\ to \in RowSent \cup {"cancelled"}
    /\ edit' = [row |-> r, to |-> to]
    /\ UNCHANGED <<card, row, held, run, stale, claimed>>

\* ... and then write, whatever it is by now, or fail.
EditWrites ==
    /\ edit # NoEdit
    /\ \/ /\ row' = [row EXCEPT ![edit.row].status = edit.to]
          /\ claimed' = IF edit.to \in Public THEN claimed \cup ({row[edit.row].clip} \cap Card)
                                            ELSE claimed
       \/ UNCHANGED <<row, claimed>>
    /\ edit' = NoEdit
    /\ UNCHANGED <<card, held, run, stale>>

-----------------------------------------------------------------------------
(* social_youtube_sync                                                     *)

\* sync_social_for_youtube_queue: the cards linked to the rows take their
\* status; one that is published does not go back to uploaded.
Sync(rows, cards) ==
    card' = [c \in Card |->
        IF /\ card[c].link \in rows /\ c \in cards /\ card[c].status # "cancelled"
           /\ ~(card[c].status = "published" /\ row'[card[c].link].status = "uploaded")
          THEN [card[c] EXCEPT !.status = row'[card[c].link].status]
          ELSE card[c]]

\* The sync may raise: the row's change is kept, the card's is not made.
SyncOrRaise(r) == Sync({r}, Card) \/ UNCHANGED card

Behind(c, states) == /\ card[c].status \in {"queued", "uploading"}
                     /\ card[c].link \in DOMAIN row
                     /\ row[card[c].link].status \in states

\* Faulty: only rows that were uploaded are looked for.
Orphaned_m == {c \in Card : Behind(c, Public)}

Orphaned == {c \in Card : Behind(c, Finished)}

\* The watcher's heal_orphaned_social_youtube.
Heal ==
    /\ Orphaned # {}
    /\ UNCHANGED row
    /\ Sync(DOMAIN row, Orphaned)
    /\ UNCHANGED <<edit, held, run, stale, claimed>>

\* Faulty: whatever the row's status.
Acknowledged_m(r) == TRUE

Acknowledged(r) == row[r].status = "uploaded"

\* Mark Published.
MarkPublished(r) ==
    /\ Acknowledged(r)
    /\ row' = [row EXCEPT ![r].status = "published"]
    /\ SyncOrRaise(r)
    /\ UNCHANGED <<edit, held, run, stale, claimed>>

-----------------------------------------------------------------------------
(* The processors                                                          *)

\* Faulty: a row that has its video is not left out.
Ready_m(p) == {r \in DOMAIN row : row[r].status = "queued"}

\* The rows a processor may find due; the route does not look for a video.
Ready(p) == {r \in DOMAIN row : row[r].status = "queued" /\ (p \in Tick => ~row[r].video)}

Goto(p, at) == run' = [run EXCEPT ![p].at = at]

Pick(p, rows) ==
    /\ run[p] = Idle
    /\ Alone => \A q \in Run : run[q] = Idle
    /\ rows # {} /\ rows \subseteq Ready(p)
    /\ p \in Tick => Cardinality(rows) <= Limit
    /\ run' = [run EXCEPT ![p] = [at |-> "next", todo |-> rows, row |-> 0]]
    /\ UNCHANGED <<card, row, edit, held, stale, claimed>>

\* _upload_youtube_post marks the next of them uploading, without a second
\* look at it and, if the write fails, regardless.
UploadYoutubePost(p, r) ==
    /\ run[p].at = "next" /\ r \in run[p].todo
    /\ run' = [run EXCEPT ![p] = [at |-> "send", todo |-> run[p].todo \ {r}, row |-> r]]
    /\ \/ row' = [row EXCEPT ![r].status = "uploading"]
       \/ UNCHANGED row
    /\ UNCHANGED <<card, edit, held, stale, claimed>>

\* YouTube takes the video and its id is stored; a failure of this write, or of one whose commit went
\* through unanswered, goes to the same handler as a failed upload.  A
\* statement of the sync that fails takes the transaction with it, unnoticed.
StoreUpload(p) ==
    LET r == run[p].row IN
    /\ run[p].at = "send"
    /\ \/ /\ row' = [row EXCEPT ![r].status = "uploaded", ![r].video = TRUE]
          /\ SyncOrRaise(r)
          /\ Goto(p, "next") \/ Goto(p, "failed")
       \/ UNCHANGED <<card, row>> /\ (Goto(p, "next") \/ Goto(p, "failed"))
    /\ UNCHANGED <<edit, held, stale, claimed>>

\* The handler of failures, whatever raised on the way; it gives up if it
\* fails itself.
StoreFailure(p) ==
    LET r == run[p].row IN
    /\ run[p].at \in {"send", "failed"}
    /\ \/ row' = [row EXCEPT ![r].status = "failed"] /\ SyncOrRaise(r)
       \/ UNCHANGED <<card, row>>
    /\ Goto(p, "next")
    /\ UNCHANGED <<edit, held, stale, claimed>>

Return(p) ==
    /\ run[p].at = "next" /\ run[p].todo = {}
    /\ run' = [run EXCEPT ![p] = Idle]
    /\ UNCHANGED <<card, row, edit, held, stale, claimed>>

\* The dashboard dies: what was under way is gone, the tables stay.
Crash ==
    /\ edit' = NoEdit
    /\ held' = [w \in Rewriter |-> NoHold]
    /\ run' = [p \in Run |-> Idle]
    /\ UNCHANGED <<card, row, stale, claimed>>

-----------------------------------------------------------------------------
Board == \E c \in Card :
    \/ \E status \in Status : UpdateSocialItem(c, status)
    \/ DeleteSocialItem(c)

Rewriting == \E w \in Rewriter :
    \/ \E c \in Card : MarkTesting(w, c) \/ RegenDraftMeta(w, c)
    \/ WriteBack(w)

YoutubeQueue ==
    \/ YoutubeQueueAdd
    \/ \E r \in DOMAIN row : MarkPublished(r) \/ \E to \in Status : YoutubeQueueUpdate(r, to)
    \/ EditWrites

Process(p) ==
    \/ \E rows \in SUBSET DOMAIN row : Pick(p, rows)
    \/ \E r \in run[p].todo : UploadYoutubePost(p, r)
    \/ StoreUpload(p) \/ StoreFailure(p) \/ Return(p)

Next == Board \/ Rewriting \/ YoutubeQueue \/ Heal \/ Crash \/ \E p \in Run : Process(p)

\* The watcher runs every 15 minutes.
Spec == Init /\ [][Next]_vars /\ WF_vars(Heal)

-----------------------------------------------------------------------------
(* Properties                                                              *)

Rows(c) == {r \in DOMAIN row : row[r].clip = c}

\* Scheduling a card again finds the row it has: no card is mirrored twice,
\* so its clip is not put up twice, unless a request that had read the card
\* before wrote an older youtube_queue_id back over the one it has now.
OneRowPerCard == \A c \in Card \ stale : Cardinality(Rows(c)) <= 1

\* A card that reads uploaded or published stands for a row whose video is on
\* YouTube, however runs, edits of the row, syncs and heals interleave, as long as
\* no PATCH put a status of these there itself, in the card or in a row of it.
PublicCardsAreTrue ==
    \A c \in Card \ (stale \cup claimed) :
        card[c].status \in Public => \E r \in Rows(c) : row[r].video

\* A tick never uploads a row whose video it has, though an edit that raced
\* with the upload, or a failure after it, may have put the row back in line.
TicksUploadOnce ==
    [][\A p \in Tick : run[p].at = "next" /\ run'[p].at = "send" => ~row[run'[p].row].video]_vars

\* The inductive invariant behind it, while processors do not overlap: the rows
\* a tick has picked and not come to yet still lack their videos.
TickInv == /\ \A p, q \in Run : run[p] # Idle /\ run[q] # Idle => p = q
           /\ \A p \in Tick : /\ \A r \in run[p].todo : ~row[r].video
                              /\ run[p].at = "send" => run[p].row \notin run[p].todo

\* A card that still waits for a row that has finished is brought up to date,
\* though the sync at the end of the upload raised or never ran.
CardsCatchUp == \A c \in Card : c \in Orphaned ~> ~Behind(c, Finished)

=============================================================================
