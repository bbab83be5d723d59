--------------------------- MODULE Posting_proofs ----------------------------
(***************************************************************************)
(* Proofs about public posts, for any number of cards, rows, processors    *)
(* and rewriting requests: rows and cards, whether processors overlap or   *)
(* not, and what ticks upload, where they do not.                          *)
(***************************************************************************)
EXTENDS Posting, FiniteSetTheorems, TLAPS

\* What is under way names rows that exist.
RowsExist ==
    /\ \A c \in Card : card[c].link \in 0..Len(row)
    /\ \A w \in Rewriter : /\ held[w].link \in 0..Len(row)
                           /\ held[w] = NoHold \/ held[w].card \in Card
    /\ edit = NoEdit \/ edit.row \in DOMAIN row
    /\ \A p \in Run : /\ run[p].todo \subseteq DOMAIN row
                      /\ run[p].at \in {"send", "failed"} => run[p].row \in DOMAIN row

\* A card and the row made for it name each other.
LinkIsRow ==
    \A c \in Card \ stale :
        /\ \A r \in DOMAIN row : row[r].clip = c => card[c].link = r
        /\ card[c].link # 0 => row[card[c].link].clip = c

PublicRows == \A r \in DOMAIN row :
                  row[r].status \in Public => row[r].video \/ row[r].clip \in claimed \cup {NoCard}

PublicCards ==
    \A c \in Card \ (stale \cup claimed) :
        card[c].status \in Public => card[c].link # 0 /\ row[card[c].link].video

IInv == TypeOK /\ RowsExist /\ LinkIsRow /\ PublicRows /\ PublicCards

-----------------------------------------------------------------------------
(* The table                                                               *)

ClaimsGrow == claimed \subseteq claimed' /\ claimed' \subseteq Card

\* What the rows of the next state keep of those of this one.
RowsKept == /\ row' \in Seq(RowType)
            /\ Len(row) <= Len(row')
            /\ \A r \in DOMAIN row : /\ row'[r].clip = row[r].clip
                                     /\ row[r].video => row'[r].video
            /\ ClaimsGrow
            /\ \A r \in DOMAIN row' :
                  row'[r].status \in Public => row'[r].video \/ row'[r].clip \in claimed' \cup {NoCard}

LEMMA Replaced ==
    ASSUME row \in Seq(RowType), NEW r \in DOMAIN row, NEW new \in RowType,
           row' = [row EXCEPT ![r] = new]
    PROVE  /\ row' \in Seq(RowType) /\ Len(row') = Len(row)
           /\ \A q \in DOMAIN row : row'[q] = IF q = r THEN new ELSE row[q]
OBVIOUS

\* Changing the status of a row, to a public one only if it has its video.
LEMMA StatusKeepsRows ==
    ASSUME TypeOK, PublicRows, NEW r \in DOMAIN row, NEW s \in Status,
           UNCHANGED claimed \/ ClaimsGrow,
           s \in Public => row[r].video \/ row[r].clip \in claimed' \cup {NoCard},
           row' = [row EXCEPT ![r].status = s]
    PROVE  RowsKept /\ Len(row') = Len(row)
<1>1. row \in Seq(RowType) /\ row[r] \in RowType /\ r \in 1..Len(row)
  BY DEF TypeOK
<1>2. row' = [row EXCEPT ![r] = [row[r] EXCEPT !.status = s]]
  OBVIOUS
<1>3. [row[r] EXCEPT !.status = s] \in RowType
  BY <1>1 DEF RowType
<1>4. row' \in Seq(RowType) /\ Len(row') = Len(row)
  BY <1>1, <1>2, <1>3
<1>5. \A q \in DOMAIN row : row[q] \in RowType
  BY <1>1
<1>6. \A q \in DOMAIN row : row'[q] = IF q = r THEN [row[r] EXCEPT !.status = s] ELSE row[q]
  BY <1>1, <1>2
<1>7. \A q \in DOMAIN row : /\ row'[q].clip = row[q].clip
                            /\ row'[q].video = row[q].video
                            /\ row'[q].status = IF q = r THEN s ELSE row[q].status
  BY <1>5, <1>6 DEF RowType
<1> QED
  BY <1>1, <1>4, <1>7 DEF RowsKept, PublicRows, TypeOK, ClaimsGrow

\* Adding a row.
LEMMA AppendKeepsRows ==
    ASSUME TypeOK, PublicRows, NEW clip \in Card \cup {NoCard},
           row' = Append(row, NewRow(clip)), UNCHANGED claimed
    PROVE  /\ RowsKept /\ Len(row') = Len(row) + 1
           /\ row'[Len(row) + 1].clip = clip
<1>1. row \in Seq(RowType) /\ NewRow(clip) \in RowType
  BY DEF TypeOK, NewRow, RowType, Status
<1>2. row' \in Seq(RowType) /\ Len(row') = Len(row) + 1
  BY <1>1
<1>3. \A q \in DOMAIN row : row'[q] = row[q]
  BY <1>1
<1>4. row'[Len(row) + 1] = NewRow(clip)
  BY <1>1
<1>5. \A q \in DOMAIN row' : q \in DOMAIN row \/ q = Len(row) + 1
  BY <1>1, <1>2
<1>6. NewRow(clip).status \notin Public /\ NewRow(clip).clip = clip
  BY DEF NewRow, Public
<1> QED
  BY <1>1, <1>2, <1>3, <1>4, <1>5, <1>6 DEF RowsKept, PublicRows, TypeOK, ClaimsGrow

LEMMA SameRows ==
    ASSUME TypeOK, PublicRows, UNCHANGED row, UNCHANGED claimed \/ ClaimsGrow
    PROVE  RowsKept /\ Len(row') = Len(row)
BY DEF TypeOK, PublicRows, RowsKept, ClaimsGrow

\* StoreUpload's write.
LEMMA UploadKeepsRows ==
    ASSUME TypeOK, PublicRows, NEW r \in DOMAIN row, UNCHANGED claimed,
           row' = [row EXCEPT ![r].status = "uploaded", ![r].video = TRUE]
    PROVE  RowsKept /\ Len(row') = Len(row)
<1>1. row \in Seq(RowType) /\ row[r] \in RowType /\ r \in 1..Len(row)
  BY DEF TypeOK
<1> DEFINE marked == [row[r] EXCEPT !.status = "uploaded"]
           new == [marked EXCEPT !.video = TRUE]
<1>2. row' = [row EXCEPT ![r] = new]
  BY <1>1
<1>3. new \in RowType /\ new.clip = row[r].clip /\ new.video
  BY <1>1 DEF RowType, Status
<1> HIDE DEF marked, new
<1>4. /\ row' \in Seq(RowType) /\ Len(row') = Len(row)
      /\ \A q \in DOMAIN row : row'[q] = IF q = r THEN new ELSE row[q]
  BY <1>1, <1>2, <1>3, Replaced
<1> QED
  BY <1>1, <1>3, <1>4 DEF RowsKept, PublicRows, TypeOK, ClaimsGrow

-----------------------------------------------------------------------------
(* The cards                                                               *)

CardType == [status : Status, link : Nat]

\* Links that stay and new rows that have no card keep the two tables paired.
LEMMA LinksKept ==
    ASSUME IInv, RowsKept, stale \subseteq stale',
           \A c \in Card \ stale' : card'[c].link = card[c].link,
           \A r \in DOMAIN row' : r \in DOMAIN row \/ row'[r].clip = NoCard
    PROVE  LinkIsRow'
<1> SUFFICES ASSUME NEW c \in Card \ stale'
             PROVE  /\ \A r \in DOMAIN row' : row'[r].clip = c => card'[c].link = r
                    /\ card'[c].link # 0 => row'[card'[c].link].clip = c
  BY DEF LinkIsRow
<1>1. c \in Card \ stale /\ c # NoCard
  BY PostingAssumption
<1>2. card[c].link \in 0..Len(row) /\ row \in Seq(RowType)
  BY DEF IInv, RowsExist, TypeOK
<1>3. card[c].link # 0 => card[c].link \in DOMAIN row
  BY <1>2
<1>4. \A r \in DOMAIN row' : row'[r].clip = c => r \in DOMAIN row /\ row[r].clip = c
  BY <1>1 DEF RowsKept
<1> QED
  BY <1>1, <1>3, <1>4 DEF IInv, LinkIsRow, RowsKept

\* A card that becomes public follows its row.
LEMMA PublicKept ==
    ASSUME IInv, RowsKept, stale \subseteq stale',
           \A c \in Card \ stale' :
               /\ card'[c].link = card[c].link
               /\ card'[c].status \in Public =>
                    \/ c \in claimed' \/ card[c].status \in Public
                    \/ card[c].link # 0 /\ row'[card[c].link].status \in Public
    PROVE  PublicCards'
<1> SUFFICES ASSUME NEW c \in Card \ (stale' \cup claimed'), card'[c].status \in Public
             PROVE  card'[c].link # 0 /\ row'[card'[c].link].video
  BY DEF PublicCards
<1>1. c \in Card \ (stale \cup claimed)
  BY DEF RowsKept, ClaimsGrow
<1>2. card[c].link \in 0..Len(row) /\ row \in Seq(RowType)
  BY DEF IInv, RowsExist, TypeOK
<1>3. card[c].link # 0 => card[c].link \in DOMAIN row /\ card[c].link \in DOMAIN row'
  BY <1>2 DEF RowsKept
<1>4. CASE card[c].status \in Public
  BY <1>1, <1>3, <1>4 DEF IInv, PublicCards, RowsKept
<1>5. CASE card[c].link # 0 /\ row'[card[c].link].status \in Public
  BY <1>1, <1>3, <1>5, PostingAssumption DEF IInv, LinkIsRow, RowsKept
<1> QED
  BY <1>4, <1>5

\* A sync changes statuses only, to those of the rows.
LEMMA SyncFollows ==
    ASSUME IInv, RowsKept, Len(row') = Len(row),
           NEW rows \in SUBSET DOMAIN row, NEW cards \in SUBSET Card,
           Sync(rows, cards) \/ UNCHANGED card
    PROVE  /\ card' \in [Card -> CardType]
           /\ \A c \in Card :
                 /\ card'[c].link = card[c].link
                 /\ card'[c].status \in Public =>
                      \/ c \in claimed' \/ card[c].status \in Public
                      \/ card[c].link # 0 /\ row'[card[c].link].status \in Public
<1>1. card \in [Card -> CardType] /\ row \in Seq(RowType)
  BY DEF IInv, TypeOK, CardType
<1>2. CASE UNCHANGED card
  BY <1>1, <1>2
<1>3. CASE Sync(rows, cards)
  <2> DEFINE synced(c) == [card[c] EXCEPT !.status = row'[card[c].link].status]
  <2>1. card' = [c \in Card |-> card'[c]]
    BY <1>3 DEF Sync
  <2>2. \A c \in Card : card'[c] = card[c] \/ (card[c].link \in rows /\ card'[c] = synced(c))
    BY <1>3 DEF Sync
  <2>3. \A c \in Card : card[c].link \in rows =>
          /\ card[c].link # 0
          /\ row'[card[c].link].status \in Status
    <3>1. row' \in Seq(RowType) /\ DOMAIN row' = DOMAIN row /\ DOMAIN row = 1..Len(row)
      BY <1>1 DEF RowsKept
    <3>2. \A r \in rows : row'[r] \in RowType /\ r # 0
      BY <3>1
    <3> QED
      BY <3>2 DEF RowType
  <2>4. \A c \in Card : card[c].link \in rows =>
          /\ synced(c) \in CardType
          /\ synced(c).link = card[c].link
          /\ synced(c).status = row'[card[c].link].status
    BY <1>1, <2>3 DEF CardType
  <2> HIDE DEF synced
  <2>5. \A c \in Card : card'[c] \in CardType
    BY <1>1, <2>2, <2>4
  <2> QED
    BY <2>1, <2>2, <2>3, <2>4, <2>5
<1> QED
  BY <1>2, <1>3

\* What is under way stays well formed when the tables keep their rows.
LEMMA RestKept ==
    ASSUME IInv, RowsKept, UNCHANGED <<edit, held, stale>>,
           run' \in [Run -> [at : {"idle", "next", "send", "failed"},
                           todo : SUBSET Nat, row : Nat]],
           \A p \in Run : /\ run'[p].todo \subseteq DOMAIN row
                          /\ run'[p].at \in {"send", "failed"} => run'[p].row \in DOMAIN row,
           card' \in [Card -> CardType],
           \A c \in Card : card'[c].link \in 0..Len(row')
    PROVE  TypeOK' /\ RowsExist'
<1>1. row \in Seq(RowType) /\ row' \in Seq(RowType) /\ Len(row) <= Len(row')
  BY DEF IInv, TypeOK, RowsKept
<1>2. DOMAIN row \subseteq DOMAIN row' /\ 0..Len(row) \subseteq 0..Len(row')
  BY <1>1
<1>3. TypeOK'
  BY <1>1 DEF IInv, TypeOK, CardType, RowsKept, ClaimsGrow
<1>4. RowsExist'
  <2>1. \A p \in Run : /\ run'[p].todo \subseteq DOMAIN row'
                       /\ run'[p].at \in {"send", "failed"} => run'[p].row \in DOMAIN row'
    BY <1>2
  <2>2. \A w \in Rewriter : /\ held'[w].link \in 0..Len(row')
                            /\ held'[w] = NoHold \/ held'[w].card \in Card
    BY <1>2 DEF IInv, RowsExist
  <2>3. /\ edit' = NoEdit \/ edit'.row \in DOMAIN row'
    BY <1>2 DEF IInv, RowsExist
  <2> QED
    BY <2>1, <2>2, <2>3 DEF RowsExist, NoHold, NoEdit
<1> QED
  BY <1>3, <1>4

\* The same with the links kept.
LEMMA LinksInRange ==
    ASSUME IInv, RowsKept, \A c \in Card : card'[c].link = card[c].link
    PROVE  \A c \in Card : card'[c].link \in 0..Len(row')
<1>1. Len(row) \in Nat /\ Len(row') \in Nat /\ Len(row) <= Len(row')
  BY DEF IInv, TypeOK, RowsKept
<1> QED
  BY <1>1 DEF IInv, RowsExist

\* A step that leaves the links and adds no row of a card.
LEMMA Settled ==
    ASSUME IInv, RowsKept, UNCHANGED stale,
           \A r \in DOMAIN row' : r \in DOMAIN row \/ row'[r].clip = NoCard,
           \A c \in Card :
               /\ card'[c].link = card[c].link
               /\ card'[c].status \in Public =>
                    \/ c \in claimed' \/ card[c].status \in Public
                    \/ card[c].link # 0 /\ row'[card[c].link].status \in Public
    PROVE  LinkIsRow' /\ PublicRows' /\ PublicCards'
<1>1. LinkIsRow'
  BY LinksKept
<1>2. PublicRows'
  BY DEF RowsKept, PublicRows
<1>3. PublicCards'
  BY PublicKept
<1> QED
  BY <1>1, <1>2, <1>3

-----------------------------------------------------------------------------
(* The steps                                                               *)

LEMMA InitIInv == Init => IInv
<1> SUFFICES ASSUME Init PROVE IInv
  OBVIOUS
<1>1. row = <<>> /\ Len(row) = 0 /\ DOMAIN row = {}
  BY DEF Init
<1>2. TypeOK
  BY <1>1 DEF Init, TypeOK, NoEdit, NoHold, Idle, Status
<1>3. RowsExist
  BY <1>1 DEF Init, RowsExist, NoEdit, NoHold, Idle
<1>4. LinkIsRow /\ PublicRows /\ PublicCards
  BY <1>1 DEF Init, LinkIsRow, PublicRows, PublicCards, Public
<1> QED
  BY <1>2, <1>3, <1>4 DEF IInv

\* A step on the tables alone: the rows are kept, and cards change status.
LEMMA TablesStep ==
    ASSUME IInv, RowsKept, UNCHANGED <<edit, held, stale, run>>,
           card' \in [Card -> CardType],
           \A r \in DOMAIN row' : r \in DOMAIN row \/ row'[r].clip = NoCard,
           \A c \in Card :
               /\ card'[c].link = card[c].link
               /\ card'[c].status \in Public =>
                    \/ c \in claimed' \/ card[c].status \in Public
                    \/ card[c].link # 0 /\ row'[card[c].link].status \in Public
    PROVE  IInv'
<1>1. TypeOK' /\ RowsExist'
  <2>1. /\ run' \in [Run -> [at : {"idle", "next", "send", "failed"},
                            todo : SUBSET Nat, row : Nat]]
        /\ \A p \in Run : /\ run'[p].todo \subseteq DOMAIN row
                          /\ run'[p].at \in {"send", "failed"} => run'[p].row \in DOMAIN row
    BY DEF IInv, TypeOK, RowsExist
  <2> QED
    BY <2>1, LinksInRange, RestKept
<1>2. LinkIsRow' /\ PublicRows' /\ PublicCards'
  BY Settled
<1> QED
  BY <1>1, <1>2 DEF IInv

LEMMA DomainKept ==
    ASSUME row \in Seq(RowType), row' \in Seq(RowType), Len(row') = Len(row)
    PROVE  DOMAIN row' = DOMAIN row
OBVIOUS

LEMMA InsertStep ==
    ASSUME IInv, NEW c \in Card, card[c].link = 0,
           row' = Append(row, NewRow(c)),
           card' = [card EXCEPT ![c] = [status |-> "queued", link |-> Len(row) + 1]],
           UNCHANGED <<edit, held, run, stale, claimed>>
    PROVE  IInv'
<1>1. RowsKept /\ Len(row') = Len(row) + 1 /\ row'[Len(row) + 1].clip = c
  BY AppendKeepsRows DEF IInv
<1>2. row \in Seq(RowType) /\ card \in [Card -> CardType] /\ row' \in Seq(RowType)
  BY <1>1 DEF IInv, TypeOK, CardType, RowsKept
<1> DEFINE new == [status |-> "queued", link |-> Len(row) + 1]
<1>3. new \in CardType /\ new.link = Len(row) + 1 /\ new.status \notin Public
  BY <1>2 DEF CardType, Status, Public
<1>4. card'[c] = new /\ \A d \in Card : d # c => card'[d] = card[d]
  BY <1>2
<1> HIDE DEF new
<1>5. card' \in [Card -> CardType]
  <2>1. \A d \in Card : card'[d] \in CardType
    BY <1>2, <1>3, <1>4
  <2>2. card' = [d \in Card |-> card'[d]]
    BY <1>2
  <2> QED
    BY <2>1, <2>2
<1>6. \A d \in Card : card'[d].link \in 0..Len(row')
  BY <1>1, <1>2, <1>3, <1>4 DEF IInv, RowsExist
<1>7. TypeOK' /\ RowsExist'
  <2>1. /\ run' \in [Run -> [at : {"idle", "next", "send", "failed"},
                            todo : SUBSET Nat, row : Nat]]
        /\ \A p \in Run : /\ run'[p].todo \subseteq DOMAIN row
                          /\ run'[p].at \in {"send", "failed"} => run'[p].row \in DOMAIN row
    BY DEF IInv, TypeOK, RowsExist
  <2> QED
    BY <1>1, <1>5, <1>6, <2>1, RestKept
<1>8. \A r \in DOMAIN row' : r \in DOMAIN row \/ r = Len(row) + 1
  BY <1>1, <1>2
<1>9. \A d \in Card : card[d].link # 0 => card[d].link \in DOMAIN row /\ card[d].link \in DOMAIN row'
  BY <1>1, <1>2 DEF IInv, RowsExist
<1>10. LinkIsRow'
  <2> SUFFICES ASSUME NEW d \in Card \ stale
               PROVE  /\ \A r \in DOMAIN row' : row'[r].clip = d => card'[d].link = r
                      /\ card'[d].link # 0 => row'[card'[d].link].clip = d
    BY DEF LinkIsRow
  <2>1. CASE d = c
    <3>1. \A r \in DOMAIN row : row[r].clip # c
      <4> SUFFICES ASSUME NEW r \in DOMAIN row, row[r].clip = c PROVE FALSE
        OBVIOUS
      <4>1. r # 0
        BY <1>2
      <4> QED
        BY <2>1, <4>1 DEF IInv, LinkIsRow
    <3> QED
      BY <1>1, <1>3, <1>4, <1>8, <2>1, <3>1 DEF RowsKept
  <2>2. CASE d # c
    BY <1>1, <1>4, <1>8, <1>9, <2>2 DEF IInv, LinkIsRow, RowsKept
  <2> QED
    BY <2>1, <2>2
<1>11. PublicRows'
  BY <1>1 DEF RowsKept, PublicRows
<1>12. PublicCards'
  BY <1>1, <1>3, <1>4, <1>9 DEF IInv, PublicCards, RowsKept, ClaimsGrow
<1> QED
  BY <1>7, <1>10, <1>11, <1>12 DEF IInv

LEMMA CardsTyped == IInv => /\ claimed \subseteq Card
                            /\ card \in [Card -> CardType]
                            /\ row \in Seq(RowType) /\ DOMAIN row = 1..Len(row)
                            /\ run \in [Run -> [at : {"idle", "next", "send", "failed"},
                                                todo : SUBSET Nat, row : Nat]]
BY DEF IInv, TypeOK, CardType

\* A card given a status that is not public, on rows that are kept.
LEMMA CardStep ==
    ASSUME IInv, RowsKept, Len(row') = Len(row), UNCHANGED <<edit, held, stale, run>>,
           NEW c \in Card, NEW s \in Status, s = card[c].status \/ s \notin Public \/ c \in claimed',
           card' = [card EXCEPT ![c].status = s]
    PROVE  IInv'
<1>1. card \in [Card -> CardType] /\ row \in Seq(RowType) /\ row' \in Seq(RowType)
  BY CardsTyped DEF RowsKept
<1>2. DOMAIN row' = DOMAIN row
  BY <1>1, DomainKept
<1>3. card' \in [Card -> CardType]
  BY <1>1 DEF CardType
<1>4. \A d \in Card : card'[d].link = card[d].link
  BY <1>1 DEF CardType
<1>5. \A d \in Card : card'[d].status = IF d = c THEN s ELSE card[d].status
  BY <1>1 DEF CardType
<1> QED
  BY <1>2, <1>3, <1>4, <1>5, TablesStep

LEMMA BoardStep == IInv /\ Board => IInv'
<1> SUFFICES ASSUME IInv, Board PROVE IInv'
  OBVIOUS
<1>1. ASSUME NEW c \in Card, NEW s \in Status, UpdateSocialItem(c, s)
      PROVE  IInv'
  <2> DEFINE new == [card[c] EXCEPT !.status = s]
  <2>1. card \in [Card -> CardType] /\ row \in Seq(RowType) /\ DOMAIN row = 1..Len(row)
    BY CardsTyped
  <2>2. /\ new.link = card[c].link /\ ClaimsGrow
        /\ s = card[c].status \/ s \notin Public \/ c \in claimed'
    BY <1>1, <2>1, CardsTyped DEF UpdateSocialItem, CardType, Public, ClaimsGrow
  <2>3. /\ UNCHANGED <<edit, held, run, stale>>
        /\ s = "queued" => UNCHANGED claimed
    BY <1>1 DEF UpdateSocialItem, Public
  <2>4. CASE card' = [card EXCEPT ![c] = new] /\ UNCHANGED row
    <3>1. RowsKept /\ Len(row') = Len(row)
      BY <2>2, <2>4, SameRows DEF IInv
    <3>2. card' = [card EXCEPT ![c].status = s]
      BY <2>4
    <3> QED
      BY <2>2, <2>3, <3>1, <3>2, CardStep
  <2>5. CASE s = "queued" /\ Promote(c, new)
    <3>1. CASE card[c].link # 0
      <4> DEFINE r == card[c].link
                 t == IF row[r].status \in Editable THEN "queued" ELSE row[r].status
      <4>1. r \in DOMAIN row
        BY <2>1, <3>1 DEF IInv, RowsExist
      <4>2. /\ card' = [card EXCEPT ![c].status = s]
            /\ row' = [row EXCEPT ![r].status = t]
        BY <2>2, <2>5, <3>1 DEF Promote
      <4>3. row[r] \in RowType
        BY <2>1, <4>1
      <4>4. t \in Status /\ (t \in Public => row[r].video \/ row[r].clip \in claimed' \cup {NoCard})
        BY <2>2, <4>1, <4>3 DEF RowType, Status, Public, IInv, PublicRows, ClaimsGrow
      <4> HIDE DEF t
      <4>5. RowsKept /\ Len(row') = Len(row)
        BY <2>2, <4>1, <4>2, <4>4, StatusKeepsRows DEF IInv
      <4> QED
        BY <2>2, <2>3, <4>2, <4>5, CardStep
    <3>2. CASE card[c].link = 0
      <4>1. row' = Append(row, NewRow(c)) /\ Linked(c, new)
        BY <2>2, <2>5, <3>2 DEF Promote
      <4>2. new.status = "queued"
        <5>1. card[c] \in CardType
          BY <2>1
        <5> QED
          BY <2>5, <5>1 DEF CardType
      <4>3. card' = [card EXCEPT ![c] = [status |-> "queued", link |-> Len(row) + 1]]
        BY <4>1, <4>2 DEF Linked
      <4> QED
        BY <2>3, <2>5, <3>2, <4>1, <4>3, InsertStep
    <3> QED
      BY <3>1, <3>2
  <2> QED
    BY <1>1, <2>4, <2>5 DEF UpdateSocialItem
<1>2. ASSUME NEW c \in Card, DeleteSocialItem(c)
      PROVE  IInv'
  <2>1. RowsKept /\ Len(row') = Len(row)
    BY <1>2, SameRows DEF IInv, DeleteSocialItem
  <2> QED
    BY <1>2, <2>1, CardStep DEF DeleteSocialItem, Status, Public
<1> QED
  BY <1>1, <1>2 DEF Board

LEMMA RewritingStep == IInv /\ Rewriting => IInv'
<1> SUFFICES ASSUME IInv, Rewriting PROVE IInv'
  OBVIOUS
<1>1. card \in [Card -> CardType] /\ row \in Seq(RowType) /\ DOMAIN row = 1..Len(row)
  BY CardsTyped
<1>2. ASSUME NEW w \in Rewriter, NEW c \in Card, NEW from, Rewrites(w, c, from)
      PROVE  IInv'
  <2> DEFINE h == [card |-> c, link |-> card[c].link]
  <2>1. UNCHANGED <<card, row, edit, run, stale, claimed>> /\ held' = [held EXCEPT ![w] = h]
    BY <1>2 DEF Rewrites
  <2>2. /\ h \in [card : Card \cup {NoCard}, link : Nat]
        /\ h.link \in 0..Len(row) /\ h.card \in Card
    BY <1>1 DEF CardType, IInv, RowsExist
  <2> HIDE DEF h
  <2>3. TypeOK'
    BY <2>1, <2>2 DEF IInv, TypeOK
  <2>4. \A v \in Rewriter : held'[v] = IF v = w THEN h ELSE held[v]
    BY <2>1 DEF IInv, TypeOK
  <2>5. RowsExist'
    BY <2>1, <2>2, <2>4 DEF IInv, RowsExist, NoEdit
  <2> QED
    BY <2>1, <2>3, <2>5 DEF IInv, LinkIsRow, PublicRows, PublicCards
<1>3. ASSUME NEW w \in Rewriter, WriteBack(w)
      PROVE  IInv'
  <2> DEFINE c == held[w].card
             l == held[w].link
  <2>1. /\ held' = [held EXCEPT ![w] = NoHold]
        /\ UNCHANGED <<row, edit, run, claimed>>
        /\ \/ /\ card' = [card EXCEPT ![c].link = l]
              /\ stale' = IF l = card[c].link THEN stale ELSE stale \cup {c}
           \/ UNCHANGED <<card, stale>>
    BY <1>3 DEF WriteBack
  <2>2. l \in 0..Len(row) /\ l \in Nat /\ c \in Card \cup {NoCard}
    BY <1>1 DEF IInv, RowsExist, TypeOK
  <2>3. /\ card' \in [Card -> CardType]
        /\ \A d \in Card : card'[d].link \in 0..Len(row)
        /\ \A d \in Card : card'[d].status = card[d].status
        /\ \A d \in Card \ stale' : card'[d].link = card[d].link
        /\ stale \subseteq stale'
    <3>1. CASE UNCHANGED <<card, stale>>
      BY <1>1, <3>1 DEF IInv, RowsExist
    <3>2. CASE /\ card' = [card EXCEPT ![c].link = l]
               /\ stale' = IF l = card[c].link THEN stale ELSE stale \cup {c}
      <4>1. card' = [card EXCEPT ![c] = [card[c] EXCEPT !.link = l]]
        BY <3>2
      <4>2. c \in Card => /\ [card[c] EXCEPT !.link = l] \in CardType
                          /\ [card[c] EXCEPT !.link = l].link = l
                          /\ [card[c] EXCEPT !.link = l].status = card[c].status
        BY <1>1, <2>2 DEF CardType
      <4>3. \A d \in Card : card'[d] = IF d = c THEN [card[c] EXCEPT !.link = l] ELSE card[d]
        BY <1>1, <4>1
      <4>4. \A d \in Card : card[d].link \in 0..Len(row) /\ card[d] \in CardType
        BY <1>1 DEF IInv, RowsExist
      <4>5. card' \in [Card -> CardType]
        BY <1>1, <4>1, <4>2
      <4>6. \A d \in Card \ stale' : card'[d].link = card[d].link
        BY <3>2, <4>2, <4>3
      <4> QED
        BY <2>2, <3>2, <4>2, <4>3, <4>4, <4>5, <4>6
    <3> QED
      BY <2>1, <3>1, <3>2
  <2>4. stale' \subseteq Card
    <3>1. c \in Card
      BY <1>3 DEF IInv, RowsExist, WriteBack
    <3> QED
      BY <2>1, <3>1 DEF IInv, TypeOK
  <2>5. held' \in [Rewriter -> [card : Card \cup {NoCard}, link : Nat]]
    BY <2>1 DEF IInv, TypeOK, NoHold
  <2>6. TypeOK'
    BY <2>1, <2>3, <2>4, <2>5 DEF IInv, TypeOK, CardType
  <2>7. \A v \in Rewriter : /\ held'[v].link \in 0..Len(row)
                            /\ held'[v] = NoHold \/ held'[v].card \in Card
    BY <1>1, <2>1 DEF IInv, TypeOK, RowsExist, NoHold
  <2>8. RowsExist'
    BY <2>1, <2>3, <2>7 DEF IInv, RowsExist, NoEdit
  <2>9. RowsKept
    BY <2>1, SameRows DEF IInv
  <2>10. LinkIsRow'
    BY <2>1, <2>3, <2>9, LinksKept
  <2>11. PublicCards'
    BY <2>3, <2>9, PublicKept
  <2> QED
    BY <2>6, <2>8, <2>9, <2>10, <2>11 DEF IInv, RowsKept, PublicRows
<1> QED
  BY <1>2, <1>3 DEF Rewriting, MarkTesting, RegenDraftMeta

LEMMA QueueStep == IInv /\ YoutubeQueue => IInv'
<1> SUFFICES ASSUME IInv, YoutubeQueue PROVE IInv'
  OBVIOUS
<1>1. card \in [Card -> CardType] /\ row \in Seq(RowType) /\ DOMAIN row = 1..Len(row)
  BY CardsTyped
<1>2. ASSUME YoutubeQueueAdd PROVE IInv'
  <2>1. row' = Append(row, NewRow(NoCard)) /\ UNCHANGED <<card, edit, held, run, stale, claimed>>
    BY <1>2 DEF YoutubeQueueAdd
  <2>2. /\ RowsKept /\ Len(row') = Len(row) + 1
        /\ row'[Len(row) + 1].clip = NoCard
    BY <2>1, AppendKeepsRows DEF IInv
  <2>3. \A r \in DOMAIN row' : r \in DOMAIN row \/ row'[r].clip = NoCard
    BY <1>1, <2>2 DEF RowsKept
  <2> QED
    BY <1>1, <2>1, <2>2, <2>3, TablesStep
<1>3. ASSUME NEW r \in DOMAIN row, MarkPublished(r) PROVE IInv'
  <2>1. /\ row[r].status = "uploaded" /\ row' = [row EXCEPT ![r].status = "published"]
        /\ Sync({r}, Card) \/ UNCHANGED card
        /\ UNCHANGED <<edit, held, run, stale, claimed>>
    BY <1>3 DEF MarkPublished, Acknowledged, SyncOrRaise
  <2>2. row[r].video \/ row[r].clip \in claimed' \cup {NoCard}
    BY <2>1 DEF IInv, PublicRows, Public
  <2>3. RowsKept /\ Len(row') = Len(row)
    BY <2>1, <2>2, StatusKeepsRows DEF IInv, Status
  <2>4. DOMAIN row' = DOMAIN row
    BY <1>1, <2>3, DomainKept DEF RowsKept
  <2> QED
    BY <2>1, <2>3, <2>4, SyncFollows, TablesStep
<1>4. ASSUME NEW r \in DOMAIN row, NEW to \in Status, YoutubeQueueUpdate(r, to) PROVE IInv'
  <2>1. /\ edit' = [row |-> r, to |-> to] 
        /\ UNCHANGED <<card, row, held, run, stale, claimed>>
    BY <1>4 DEF YoutubeQueueUpdate
  <2>2. TypeOK'
    BY <1>1, <2>1 DEF IInv, TypeOK
  <2>3. RowsExist'
    BY <2>1 DEF IInv, RowsExist
  <2> QED
    BY <2>1, <2>2, <2>3 DEF IInv, LinkIsRow, PublicRows, PublicCards
<1>5. ASSUME EditWrites PROVE IInv'
  <2>1. /\ edit.row \in DOMAIN row /\ edit.to \in Status
        /\ edit' = NoEdit /\ UNCHANGED <<card, held, run, stale>>
    BY <1>5 DEF EditWrites, IInv, TypeOK, RowsExist
  <2>2. RowsKept /\ Len(row') = Len(row)
    <3> DEFINE Told == IF edit.to \in Public THEN claimed \cup ({row[edit.row].clip} \cap Card)
                                             ELSE claimed
    <3>1. Told \subseteq Card /\ claimed \subseteq Told
      BY CardsTyped
    <3>2. PICK r \in DOMAIN row : r = edit.row
      BY <2>1
    <3>3. PICK to \in Status : to = edit.to
      BY <2>1
    <3>4. CASE row' = [row EXCEPT ![edit.row].status = edit.to] /\ claimed' = Told
      <4>1. row' = [row EXCEPT ![r].status = to] /\ ClaimsGrow
        BY <3>1, <3>2, <3>3, <3>4 DEF ClaimsGrow
      <4>2. row[r].clip \in Card \cup {NoCard}
        <5>1. row[r] \in RowType
          BY <1>1
        <5> QED
          BY <5>1 DEF RowType
      <4>3. to \in Public => row[r].video \/ row[r].clip \in claimed' \cup {NoCard}
        BY <3>2, <3>3, <3>4, <4>2
      <4> QED
        BY <4>1, <4>3, StatusKeepsRows DEF IInv
    <3>5. CASE UNCHANGED <<row, claimed>>
      BY <3>5, SameRows DEF IInv
    <3> QED
      BY <1>5, <3>1, <3>4, <3>5 DEF EditWrites
  <2>3. row' \in Seq(RowType) /\ DOMAIN row' = DOMAIN row
    BY <1>1, <2>2, DomainKept DEF RowsKept
  <2>4. TypeOK'
    BY <2>1, <2>2, <2>3 DEF IInv, TypeOK, NoEdit, Status, RowsKept, ClaimsGrow
  <2>5. RowsExist'
    BY <2>1, <2>2, <2>3 DEF IInv, RowsExist, NoEdit
  <2>6. LinkIsRow' /\ PublicRows' /\ PublicCards'
    BY <2>1, <2>2, <2>3, Settled
  <2> QED
    BY <2>4, <2>5, <2>6 DEF IInv
<1> QED
  BY <1>2, <1>3, <1>4, <1>5 DEF YoutubeQueue

LEMMA HealStep == IInv /\ Heal => IInv'
<1> SUFFICES ASSUME IInv, Heal PROVE IInv'
  OBVIOUS
<1>1. Sync(DOMAIN row, Orphaned) /\ UNCHANGED <<row, edit, held, run, stale, claimed>>
  BY DEF Heal
<1>2. RowsKept /\ Len(row') = Len(row)
  BY <1>1, SameRows DEF IInv
<1>3. Orphaned \in SUBSET Card
  BY DEF Orphaned
<1> QED
  BY <1>1, <1>2, <1>3, SyncFollows, TablesStep

LEMMA CrashStep == IInv /\ Crash => IInv'
<1> SUFFICES ASSUME IInv, Crash PROVE IInv'
  OBVIOUS
<1>1. UNCHANGED <<card, row, stale, claimed>> /\ edit' = NoEdit
  BY DEF Crash
<1>2. TypeOK'
  BY <1>1 DEF IInv, Crash, TypeOK, NoEdit, NoHold, Idle, Status
<1>3. RowsExist'
  <2>1. 0 \in 0..Len(row)
    BY CardsTyped
  <2> QED
    BY <1>1, <2>1 DEF IInv, Crash, RowsExist, NoEdit, NoHold, Idle
<1> QED
  BY <1>1, <1>2, <1>3 DEF IInv, LinkIsRow, PublicRows, PublicCards

\* A processor goes on with rows it has picked, the tables as they are or
\* with the row's outcome.
LEMMA RunStep ==
    ASSUME IInv, RowsKept, Len(row') = Len(row), UNCHANGED <<edit, held, stale>>,
           NEW p \in Run, NEW at \in {"idle", "next", "send", "failed"},
           NEW todo \in SUBSET DOMAIN row, NEW r \in Nat,
           at \in {"send", "failed"} => r \in DOMAIN row,
           run' = [run EXCEPT ![p] = [at |-> at, todo |-> todo, row |-> r]],
           UNCHANGED card \/ \E q \in DOMAIN row : Sync({q}, Card)
    PROVE  IInv'
<1>1. row \in Seq(RowType) /\ DOMAIN row = 1..Len(row) /\ row' \in Seq(RowType)
  BY CardsTyped DEF RowsKept
<1>2. DOMAIN row' = DOMAIN row
  BY <1>1, DomainKept
<1>3. /\ card' \in [Card -> CardType]
      /\ \A c \in Card :
            /\ card'[c].link = card[c].link
            /\ card'[c].status \in Public =>
                 \/ c \in claimed' \/ card[c].status \in Public
                 \/ card[c].link # 0 /\ row'[card[c].link].status \in Public
  <2>1. CASE UNCHANGED card
    BY <2>1, CardsTyped
  <2>2. CASE \E q \in DOMAIN row : Sync({q}, Card)
    <3>1. PICK q \in DOMAIN row : Sync({q}, Card)
      BY <2>2
    <3> QED
      BY <3>1, SyncFollows
  <2> QED
    BY <2>1, <2>2
<1> DEFINE new == [at |-> at, todo |-> todo, row |-> r]
<1>4. new \in [at : {"idle", "next", "send", "failed"}, todo : SUBSET Nat, row : Nat]
  BY <1>1
<1>5. new.todo = todo /\ new.at = at /\ new.row = r
  OBVIOUS
<1> HIDE DEF new
<1>6. run' = [run EXCEPT ![p] = new]
  BY DEF new
<1>7. /\ run' \in [Run -> [at : {"idle", "next", "send", "failed"},
                          todo : SUBSET Nat, row : Nat]]
      /\ \A q \in Run : run'[q] = IF q = p THEN new ELSE run[q]
  BY <1>4, <1>6, CardsTyped
<1>8. \A q \in Run : /\ run'[q].todo \subseteq DOMAIN row
                     /\ run'[q].at \in {"send", "failed"} => run'[q].row \in DOMAIN row
  BY <1>5, <1>7 DEF IInv, RowsExist
<1>9. TypeOK' /\ RowsExist'
  <2>1. \A c \in Card : card'[c].link \in 0..Len(row')
    BY <1>3, LinksInRange
  <2>2. /\ run' \in [Run -> [at : {"idle", "next", "send", "failed"},
                            todo : SUBSET Nat, row : Nat]]
        /\ card' \in [Card -> CardType]
    BY <1>3, <1>7
  <2> QED
    BY <1>8, <2>1, <2>2, RestKept
<1>10. LinkIsRow' /\ PublicRows' /\ PublicCards'
  BY <1>2, <1>3, Settled
<1> QED
  BY <1>9, <1>10 DEF IInv

LEMMA ProcessStep == ASSUME NEW p \in Run PROVE IInv /\ Process(p) => IInv'
<1> SUFFICES ASSUME IInv, Process(p) PROVE IInv'
  OBVIOUS
<1>1. /\ run \in [Run -> [at : {"idle", "next", "send", "failed"}, todo : SUBSET Nat, row : Nat]]
      /\ DOMAIN row = 1..Len(row) /\ DOMAIN row \subseteq Nat
  BY CardsTyped
<1>2. /\ run[p].todo \in SUBSET DOMAIN row /\ run[p].row \in Nat
      /\ run[p].at \in {"send", "failed"} => run[p].row \in DOMAIN row
  BY <1>1 DEF IInv, RowsExist
<1>3. \A at : [run EXCEPT ![p].at = at]
             = [run EXCEPT ![p] = [at |-> at, todo |-> run[p].todo, row |-> run[p].row]]
  <2> SUFFICES ASSUME NEW at
               PROVE  [run EXCEPT ![p].at = at]
                    = [run EXCEPT ![p] = [at |-> at, todo |-> run[p].todo, row |-> run[p].row]]
    OBVIOUS
  <2>1. run[p] \in [at : {"idle", "next", "send", "failed"}, todo : SUBSET Nat, row : Nat]
    BY <1>1
  <2>2. [run[p] EXCEPT !.at = at] = [at |-> at, todo |-> run[p].todo, row |-> run[p].row]
    BY <2>1
  <2>3. [run EXCEPT ![p].at = at] = [run EXCEPT ![p] = [run[p] EXCEPT !.at = at]]
    OBVIOUS
  <2> QED
    BY <2>2, <2>3
<1>4. ASSUME NEW rows \in SUBSET DOMAIN row, Pick(p, rows) PROVE IInv'
  <2>1. /\ run' = [run EXCEPT ![p] = [at |-> "next", todo |-> rows, row |-> 0]]
        /\ UNCHANGED <<card, row, edit, held, stale, claimed>>
    BY <1>4 DEF Pick, Idle
  <2>2. RowsKept /\ Len(row') = Len(row)
    BY <2>1, SameRows DEF IInv
  <2> QED
    BY <2>1, <2>2, RunStep
<1>5. ASSUME NEW r \in run[p].todo, UploadYoutubePost(p, r) PROVE IInv'
  <2>1. /\ run' = [run EXCEPT ![p] = [at |-> "send", todo |-> run[p].todo \ {r}, row |-> r]]
        /\ UNCHANGED <<card, edit, held, stale, claimed>>
        /\ r \in DOMAIN row /\ r \in Nat
    BY <1>1, <1>2, <1>5 DEF UploadYoutubePost
  <2>2. RowsKept /\ Len(row') = Len(row)
    <3>1. CASE row' = [row EXCEPT ![r].status = "uploading"]
      BY <2>1, <3>1, StatusKeepsRows DEF IInv, Status, Public
    <3>2. CASE UNCHANGED row
      BY <2>1, <3>2, SameRows DEF IInv
    <3> QED
      BY <1>5, <3>1, <3>2 DEF UploadYoutubePost
  <2>3. run[p].todo \ {r} \in SUBSET DOMAIN row
    BY <1>2
  <2> QED
    BY <2>1, <2>2, <2>3, RunStep
<1>6. ASSUME StoreUpload(p) PROVE IInv'
  <2> DEFINE r == run[p].row
  <2>1. /\ r \in DOMAIN row /\ UNCHANGED <<edit, held, stale, claimed>>
        /\ Goto(p, "next") \/ Goto(p, "failed")
        /\ \/ /\ row' = [row EXCEPT ![r].status = "uploaded", ![r].video = TRUE]
              /\ Sync({r}, Card) \/ UNCHANGED card
           \/ UNCHANGED <<card, row>>
    BY <1>2, <1>6 DEF StoreUpload, SyncOrRaise
  <2>2. RowsKept /\ Len(row') = Len(row)
    BY <2>1, UploadKeepsRows, SameRows DEF IInv
  <2>3. UNCHANGED card \/ \E q \in DOMAIN row : Sync({q}, Card)
    BY <2>1
  <2>4. PICK at \in {"next", "failed"} : run' = [run EXCEPT ![p].at = at]
    BY <2>1 DEF Goto
  <2>5. run' = [run EXCEPT ![p] = [at |-> at, todo |-> run[p].todo, row |-> r]]
    BY <1>3, <2>4
  <2> QED
    BY <1>2, <2>1, <2>2, <2>3, <2>5, RunStep
<1>7. ASSUME StoreFailure(p) PROVE IInv'
  <2> DEFINE r == run[p].row
  <2>1. /\ r \in DOMAIN row /\ UNCHANGED <<edit, held, stale, claimed>>
        /\ run' = [run EXCEPT ![p].at = "next"]
        /\ \/ /\ row' = [row EXCEPT ![r].status = "failed"]
              /\ Sync({r}, Card) \/ UNCHANGED card
           \/ UNCHANGED <<card, row>>
    BY <1>2, <1>7 DEF StoreFailure, SyncOrRaise, Goto
  <2>2. RowsKept /\ Len(row') = Len(row)
    BY <2>1, StatusKeepsRows, SameRows DEF IInv, Status, Public
  <2>3. UNCHANGED card \/ \E q \in DOMAIN row : Sync({q}, Card)
    BY <2>1
  <2>4. run' = [run EXCEPT ![p] = [at |-> "next", todo |-> run[p].todo, row |-> r]]
    BY <1>3, <2>1
  <2> QED
    BY <1>2, <2>1, <2>2, <2>3, <2>4, RunStep
<1>8. ASSUME Return(p) PROVE IInv'
  <2>1. /\ run' = [run EXCEPT ![p] = [at |-> "idle", todo |-> {}, row |-> 0]]
        /\ UNCHANGED <<card, row, edit, held, stale, claimed>>
    BY <1>8 DEF Return, Idle
  <2>2. RowsKept /\ Len(row') = Len(row)
    BY <2>1, SameRows DEF IInv
  <2> QED
    BY <2>1, <2>2, RunStep
<1> QED
  BY <1>4, <1>5, <1>6, <1>7, <1>8 DEF Process

\* The invariant: rows and cards name each other, and what is public has its
\* video, or was called public by a PATCH.
THEOREM Invariance == Spec => []IInv
<1>1. IInv /\ UNCHANGED vars => IInv'
  BY DEF vars, IInv, TypeOK, RowsExist, LinkIsRow, PublicRows, PublicCards
<1>2. IInv /\ [Next]_vars => IInv'
  BY <1>1, BoardStep, RewritingStep, QueueStep, HealStep, CrashStep, ProcessStep DEF Next
<1> QED
  BY <1>2, InitIInv, PTL DEF Spec

\* No card is mirrored into youtube_queue twice, whatever is scheduled,
\* uploaded, synced and edited at once, unless an older youtube_queue_id was
\* written over its own.
THEOREM OneRow == Spec => []OneRowPerCard
<1>1. IInv => OneRowPerCard
  <2> SUFFICES ASSUME IInv, NEW c \in Card \ stale PROVE Cardinality(Rows(c)) <= 1
    BY DEF OneRowPerCard
  <2>1. Rows(c) \subseteq {card[c].link}
    BY DEF IInv, LinkIsRow, Rows
  <2>2. IsFiniteSet({card[c].link}) /\ Cardinality({card[c].link}) = 1
    BY FS_Singleton
  <2> QED
    BY <2>1, <2>2, FS_Subset
<1> QED
  BY <1>1, Invariance, PTL

\* A card that reads uploaded or published has its video on YouTube, unless a PATCH
\* called it that.
THEOREM PublicIsTrue == Spec => []PublicCardsAreTrue
<1>1. IInv => PublicCardsAreTrue
  <2> SUFFICES ASSUME IInv, NEW c \in Card \ (stale \cup claimed), card[c].status \in Public
               PROVE  \E r \in Rows(c) : row[r].video
    BY DEF PublicCardsAreTrue
  <2>1. card[c].link \in DOMAIN row
    BY CardsTyped DEF IInv, RowsExist, PublicCards
  <2> QED
    BY <2>1 DEF IInv, LinkIsRow, PublicCards, Rows
<1> QED
  BY <1>1, Invariance, PTL

-----------------------------------------------------------------------------
(* Ticks upload once, where processors do not overlap                      *)

LEMMA VideosKept ==
    ASSUME row \in Seq(RowType),
           \/ UNCHANGED row
           \/ \E q \in DOMAIN row : \E s : row' = [row EXCEPT ![q].status = s]
           \/ \E clip : row' = Append(row, NewRow(clip))
    PROVE  \A r \in DOMAIN row : row'[r].video = row[r].video
<1> SUFFICES ASSUME NEW r \in DOMAIN row PROVE row'[r].video = row[r].video
  OBVIOUS
<1>1. DOMAIN row = 1..Len(row) /\ r \in 1..Len(row) /\ row[r] \in RowType
  OBVIOUS
<1>2. ASSUME NEW q \in DOMAIN row, NEW s, row' = [row EXCEPT ![q].status = s]
      PROVE  row'[r].video = row[r].video
  <2>1. row'[r] = IF r = q THEN [row[r] EXCEPT !.status = s] ELSE row[r]
    BY <1>2
  <2>2. [row[r] EXCEPT !.status = s].video = row[r].video
    BY <1>1 DEF RowType
  <2> QED BY <2>1, <2>2
<1>3. ASSUME NEW clip, row' = Append(row, NewRow(clip)) PROVE row'[r].video = row[r].video
  <2>1. Append(row, NewRow(clip))[r] = row[r]
    BY <1>1
  <2> QED BY <1>3, <2>1
<1> QED BY <1>2, <1>3

\* Steps of the board, the queue's routes and the watcher.
LEMMA OthersKeepVideos ==
    ASSUME IInv, Board \/ Rewriting \/ YoutubeQueue \/ Heal
    PROVE  UNCHANGED run /\ \A r \in DOMAIN row : row'[r].video = row[r].video
<1>1. row \in Seq(RowType) /\ DOMAIN row = 1..Len(row)
  BY CardsTyped
<1>2. CASE Board
  <2>1. ASSUME NEW c \in Card, NEW status \in Status, UpdateSocialItem(c, status)
        PROVE  /\ UNCHANGED run
               /\ \/ UNCHANGED row
                  \/ \E q \in DOMAIN row : \E s : row' = [row EXCEPT ![q].status = s]
                  \/ \E clip : row' = Append(row, NewRow(clip))
    <3> DEFINE new == [card[c] EXCEPT !.status = status]
    <3>1. new.link = card[c].link /\ card[c].link \in 0..Len(row)
      BY CardsTyped DEF IInv, RowsExist
    <3>2. CASE Promote(c, new)
      <4>1. CASE new.link # 0 /\ row' = [row EXCEPT ![new.link].status = IF @ \in Editable THEN "queued" ELSE @]
        <5>1. new.link \in DOMAIN row
          BY <1>1, <3>1, <4>1
        <5> DEFINE s == IF row[new.link].status \in Editable THEN "queued" ELSE row[new.link].status
        <5>2. row' = [row EXCEPT ![new.link].status = s]
          BY <4>1
        <5> HIDE DEF s, new
        <5> QED BY <2>1, <5>1, <5>2 DEF UpdateSocialItem
      <4>2. CASE row' = Append(row, NewRow(c))
        BY <2>1, <4>2 DEF UpdateSocialItem
      <4> QED BY <3>2, <4>1, <4>2 DEF Promote
    <3>3. CASE UNCHANGED row
      BY <2>1, <3>3 DEF UpdateSocialItem
    <3> QED BY <2>1, <3>2, <3>3 DEF UpdateSocialItem
  <2>2. ASSUME NEW c \in Card, DeleteSocialItem(c) PROVE UNCHANGED <<run, row>>
    BY <2>2 DEF DeleteSocialItem
  <2> QED BY <1>1, <1>2, <2>1, <2>2, VideosKept DEF Board
<1>3. CASE Rewriting
  BY <1>3 DEF Rewriting, MarkTesting, RegenDraftMeta, Rewrites, WriteBack
<1>4. CASE YoutubeQueue
  <2>1. CASE YoutubeQueueAdd
    BY <1>1, <2>1, VideosKept DEF YoutubeQueueAdd
  <2>2. ASSUME NEW r \in DOMAIN row, MarkPublished(r)
        PROVE  UNCHANGED run /\ row' = [row EXCEPT ![r].status = "published"]
    BY <2>2 DEF MarkPublished
  <2>3. ASSUME NEW r \in DOMAIN row, NEW to \in Status, YoutubeQueueUpdate(r, to)
        PROVE  UNCHANGED <<run, row>>
    BY <2>3 DEF YoutubeQueueUpdate
  <2>4. CASE EditWrites
    <3>1. edit.row \in DOMAIN row /\ UNCHANGED run
      BY <2>4 DEF EditWrites, IInv, RowsExist
    <3>2. UNCHANGED row \/ row' = [row EXCEPT ![edit.row].status = edit.to]
      BY <2>4 DEF EditWrites
    <3> QED BY <1>1, <3>1, <3>2, VideosKept
  <2> QED BY <1>1, <1>4, <2>1, <2>2, <2>3, <2>4, VideosKept DEF YoutubeQueue
<1>5. CASE Heal
  BY <1>5 DEF Heal
<1> QED BY <1>2, <1>3, <1>4, <1>5

\* The rows a tick has left still lack their videos.
LEMMA Left ==
    ASSUME TickInv, NEW p \in Tick
    PROVE  /\ \A r \in run[p].todo : ~row[r].video
           /\ run[p].at = "send" => run[p].row \notin run[p].todo
  BY DEF TickInv

LEMMA StillLeft ==
    ASSUME TickInv, NEW p \in Tick, NEW todo, todo \subseteq run[p].todo,
           run[p].todo \subseteq DOMAIN row, \A r \in todo : row'[r].video = row[r].video
    PROVE  \A r \in todo : r \in DOMAIN row /\ ~row'[r].video
<1> SUFFICES ASSUME NEW r \in todo PROVE r \in DOMAIN row /\ ~row'[r].video
  OBVIOUS
<1>1. r \in run[p].todo /\ r \in DOMAIN row /\ row'[r].video = row[r].video
  OBVIOUS
<1>2. ~row[r].video
  BY <1>1, Left, Zenon
<1> QED BY <1>1, <1>2, Zenon

\* A step of a processor, which has been the only one under way.
LEMMA RunTick ==
    ASSUME IInv, TickInv, NEW p \in Run, \A q \in Run : q # p => run[q] = Idle,
           NEW new, run' = [run EXCEPT ![p] = new],
           p \in Tick => /\ \A r \in new.todo : r \in DOMAIN row /\ ~row'[r].video
                         /\ new.at = "send" => new.row \notin new.todo
    PROVE  TickInv'
<1>1. run'[p] = new /\ \A q \in Run : q # p => run'[q] = Idle
  BY CardsTyped
<1> QED BY <1>1 DEF TickInv, Run, Idle

LEMMA ProcessTick == ASSUME Alone, IInv, TickInv, NEW p \in Run, Process(p) PROVE TickInv'
<1>1. /\ row \in Seq(RowType) /\ run[p].todo \subseteq DOMAIN row
      /\ run \in [Run -> [at : {"idle", "next", "send", "failed"}, todo : SUBSET Nat, row : Nat]]
      /\ run[p].at \in {"send", "failed"} => run[p].row \in DOMAIN row
  BY CardsTyped DEF IInv, RowsExist
<1>2. ASSUME NEW rows \in SUBSET DOMAIN row, Pick(p, rows) PROVE TickInv'
  <2> DEFINE new == [at |-> "next", todo |-> rows, row |-> 0]
  <2>1. /\ \A q \in Run : run[q] = Idle
        /\ run' = [run EXCEPT ![p] = new] /\ UNCHANGED row
    BY <1>2 DEF Pick
  <2>2. p \in Tick => \A r \in rows : ~row[r].video
    BY <1>2 DEF Pick, Ready
  <2>3. new.todo = rows /\ new.at = "next"
    OBVIOUS
  <2> HIDE DEF new
  <2> QED BY <2>1, <2>2, <2>3, RunTick
<1>3. ASSUME run[p].at # "idle" PROVE \A q \in Run : q # p => run[q] = Idle
  BY <1>3 DEF TickInv, Idle
<1>4. ASSUME NEW r \in run[p].todo, UploadYoutubePost(p, r) PROVE TickInv'
  <2> DEFINE new == [at |-> "send", todo |-> run[p].todo \ {r}, row |-> r]
  <2>1. run' = [run EXCEPT ![p] = new] /\ run[p].at # "idle"
    BY <1>4 DEF UploadYoutubePost
  <2>2. \A q \in DOMAIN row : row'[q].video = row[q].video
    <3>1. UNCHANGED row \/ row' = [row EXCEPT ![r].status = "uploading"]
      BY <1>4 DEF UploadYoutubePost
    <3> QED BY <1>1, <3>1, VideosKept
  <2>3. new.todo \subseteq run[p].todo /\ new.row = r /\ r \notin new.todo
    OBVIOUS
  <2> HIDE DEF new
  <2>4. p \in Tick => \A q \in new.todo : q \in DOMAIN row /\ ~row'[q].video
    <3>1. \A q \in new.todo : row'[q].video = row[q].video
      BY <1>1, <2>2, <2>3
    <3> QED BY <1>1, <2>3, <3>1, StillLeft
  <2> QED BY <1>3, <2>1, <2>3, <2>4, RunTick
<1>5. ASSUME NEW at \in {"next", "failed"}, Goto(p, at), run[p].at # "idle",
             p \in Tick => \A r \in run[p].todo : row'[r].video = row[r].video
      PROVE  TickInv'
  <2> DEFINE new == [run[p] EXCEPT !.at = at]
  <2>1. run' = [run EXCEPT ![p] = new]
    BY <1>5 DEF Goto
  <2>2. new.todo = run[p].todo /\ new.at # "send"
    BY <1>1, <1>5
  <2> HIDE DEF new
  <2>3. p \in Tick => \A r \in new.todo : r \in DOMAIN row /\ ~row'[r].video
    BY <1>1, <1>5, <2>2, StillLeft
  <2> QED BY <1>3, <1>5, <2>1, <2>2, <2>3, RunTick
<1>6. ASSUME StoreUpload(p) PROVE TickInv'
  <2>1. PICK at \in {"next", "failed"} : Goto(p, at)
    BY <1>6 DEF StoreUpload
  <2>2. run[p].at = "send" /\ run[p].row \in DOMAIN row
    BY <1>1, <1>6 DEF StoreUpload
  <2>3. p \in Tick => \A r \in run[p].todo : row'[r].video = row[r].video
    <3> SUFFICES ASSUME p \in Tick, NEW r \in run[p].todo PROVE row'[r].video = row[r].video
      OBVIOUS
    <3>1. r # run[p].row
      BY <2>2, Left
    <3>2. CASE row' = [row EXCEPT ![run[p].row].status = "uploaded", ![run[p].row].video = TRUE]
      <4>1. row'[r] = row[r]
        BY <1>1, <3>1, <3>2
      <4> QED BY <4>1
    <3> QED BY <1>6, <3>2 DEF StoreUpload
  <2> QED BY <1>5, <2>1, <2>2, <2>3
<1>7. ASSUME StoreFailure(p) PROVE TickInv'
  <2>1. /\ Goto(p, "next") /\ run[p].at # "idle" /\ run[p].row \in DOMAIN row
        /\ UNCHANGED row \/ row' = [row EXCEPT ![run[p].row].status = "failed"]
    BY <1>1, <1>7 DEF StoreFailure
  <2>2. \A r \in run[p].todo : row'[r].video = row[r].video
    BY <1>1, <2>1, VideosKept
  <2> QED BY <1>5, <2>1, <2>2
<1>8. ASSUME Return(p) PROVE TickInv'
  <2>1. run' = [run EXCEPT ![p] = Idle] /\ run[p].at # "idle" /\ Idle.todo = {} /\ Idle.at # "send"
    BY <1>8 DEF Return, Idle
  <2> QED BY <1>3, <2>1, RunTick
<1> QED BY <1>2, <1>4, <1>6, <1>7, <1>8 DEF Process

LEMMA StepTick == ASSUME Alone, IInv, TickInv, [Next]_vars PROVE TickInv'
<1>1. \A p \in Run : run[p].todo \subseteq DOMAIN row
  BY DEF IInv, RowsExist
<1>2. CASE UNCHANGED vars
  BY <1>2 DEF vars, TickInv
<1>3. CASE Board \/ Rewriting \/ YoutubeQueue \/ Heal
  BY <1>1, <1>3, OthersKeepVideos DEF TickInv, Run
<1>4. CASE Crash
  BY <1>4 DEF Crash, TickInv, Idle, Run
<1>5. CASE \E p \in Run : Process(p)
  BY <1>5, ProcessTick
<1> QED BY <1>2, <1>3, <1>4, <1>5 DEF Next

\* The step by which a tick takes a row to upload.
LEMMA TickTakes ==
    ASSUME IInv, TickInv, [Next]_vars, NEW p \in Tick, run[p].at = "next", run'[p].at = "send"
    PROVE  ~row[run'[p].row].video
<1>1. p \in Run /\ run'[p] # run[p] /\ run'[p] # Idle
  BY DEF Run, Idle
<1>2. ~UNCHANGED vars /\ ~(Board \/ Rewriting \/ YoutubeQueue \/ Heal) /\ ~Crash
  BY <1>1, OthersKeepVideos DEF vars, Crash
<1>3. PICK q \in Run : Process(q)
  BY <1>2 DEF Next
<1>4. q = p
  <2>1. \E new : run' = [run EXCEPT ![q] = new]
    BY <1>3 DEF Process, Pick, UploadYoutubePost, StoreUpload, StoreFailure, Return, Goto
  <2> QED BY <1>1, <2>1
<1>5. PICK r \in run[p].todo : UploadYoutubePost(p, r)
  BY <1>3, <1>4, CardsTyped DEF Process, Pick, StoreUpload, StoreFailure, Return, Goto, Idle
<1>6. run'[p].row = r
  BY <1>1, <1>5, CardsTyped DEF UploadYoutubePost
<1> QED BY <1>5, <1>6, Left

LEMMA InitTick == ASSUME Init PROVE TickInv
  BY DEF Init, TickInv, Idle, Run

\* Where processors do not overlap, a tick never uploads a row whose video it
\* has, though a failure after the upload, or an edit that raced with it, put
\* the row back in line.
THEOREM TicksNeverRepeat == ASSUME Alone PROVE Spec => TicksUploadOnce
<1>1. Init => TickInv
  BY InitTick
<1>2. IInv /\ TickInv /\ [Next]_vars => TickInv'
  BY StepTick
<1>3. IInv /\ TickInv /\ [Next]_vars
        => [\A p \in Tick : run[p].at = "next" /\ run'[p].at = "send" => ~row[run'[p].row].video]_vars
  BY TickTakes
<1> QED BY <1>1, <1>2, <1>3, Invariance, PTL DEF Spec, TicksUploadOnce

=============================================================================
