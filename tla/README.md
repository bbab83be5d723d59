# Lucid Cove: a verification development

TLA+ models of the parts of Lucid Cove whose correctness hangs on concurrency,
on retries and on arithmetic: the credit ledger and the hires that use it, the
backlog board and its writers, the steward's queue, the daily tuning, approvals
of agents' actions, public posts, the tokens of the xAI subscription, and the
bookkeeping. TLC
checks them on small instances; TLAPS proves every safety property of the runs
that pass for all values of the parameters. Paths below are those of the repository; its
Python lives in `src/`.

## 1. The system

A Cove is one FastAPI process (`src/main.py`, one event loop) over PostgreSQL
and a Nextcloud, with a scheduler thread that hands its jobs to the same loop.
Agents (LangGraph graphs) act through tools; the operator through a dashboard;
other Coves and the Stripe service of the founding hub over HTTP.

| Part | State it keeps | Operations | What is hard |
|---|---|---|---|
| Credit ledger, `economy/ledger.py` | `wallets`, `txns`, `ledger_entries` | the planners, `post` | interleaved statements, lock order, retries by key, rounding |
| Market, `economy/market.py`, `routes/market.py`, `routes/credits.py` | none; referrals in `registry_handles` | purchase, commission, top-up | referral cycles, charged but not granted |
| Hires, `economy/hire.py` | `hire_requests` | `open_hire`, `act_on_hire` | three transactions per call, crash between them |
| Backlog board, `tools/backlog_tools.py` | one markdown file on WebDAV | `_cas_edit` of every tool, the purge | ETags, timeouts, PUTs that arrive late |
| Voice notes, `routes/jules*.py` | Inbox and Archive folders, the same board | save, `process_inbox` | unconditional writes, overlapping runs, failures per file |
| Steward queue, `tools/steward_queue_tools.py`, `routes/steward_queue.py` | `steward_queue` | add, update, purge, pull, delegate | read-then-write without locks, terminal states |
| Merge feedback, `tools/merge_feedback.py` | a sentinel in a row's notes | one pass per 15 minutes and on request | a plan made from stale rows, repeated passes |
| Tuning, `tuning/`, `graphs/ltp/`, `routes/system.py` | `echoes`, the dispatch flag, the package cache, the consent in `cove.yaml` | sweep, forced sweep, ltp-dispatch, consent given and withdrawn | overlapping dispatches, deduplication, partial failure, gates, retry for ever |
| Approvals, `tools/approval.py`, `tools/site_tools.py`, `routes/home.py` | `approval_requests`, branches on GitHub | block or propose, answer, execute or merge | double answers, failures between effect and report, crash between approval and execution |
| Public posts, `routes/action_board.py`, `routes/youtube.py`, `utils/scheduler.py`, `utils/social_youtube_sync.py` | `social_queue`, `youtube_queue` | schedule, edit, upload, sync, heal | two tables kept in step, long uploads, stale rewrites |
| Bookkeeping, `routes/bookkeeping.py`, `dashboard/books.py`, `dashboard/books_jobs.py` | ledger files on WebDAV, jobs in memory | line edits, typed lines, vendor map, new ledgers, Process | whole-file read-modify-write, late PUTs, re-imports |
| Video jobs, `routes/video_jobs.py` | a dictionary and `video_jobs` | spawn, execute, boot sweep | unordered upserts, restart |
| Delegation, `tools/delegation_tools.py` | `tasks`, queue rows | delegate, report back, boot sweep | restart in the middle of a turn |
| xAI tokens, `models/xai_oauth.py`, `routes/xai_auth.py` | a token file, a device-code flow | obtain, refresh, authorize, poll, revoke | rotating tokens, one refresh at a time, writes without the lock |
| Chat, memory, knowledge, models, onboarding, presences | threads, memories, accounts | | mostly text and third-party services |
| Browser interface, voice service, provisioning | | | not Python of the Cove, or scripts |

Interactions: hires and the market post to the ledger, through `post` only. The
board tools and the voice-note runs write the same file. A queue row's `done`
sends its ticket to the board's COMPLETED lane; pulling a ticket from the board
makes a queue row; merge feedback writes notes through the queue's `_update`.
The schedule starts voice-note runs, merge feedback, sweeps and uploads; sweeps
call the dispatcher of the tuning graph. A card of the Action Board and its row
of `youtube_queue` follow each other through `social_youtube_sync`. An agent's
tool call that needs consent becomes a row that the operator's request carries
out. Every model call over the xAI subscription goes through the token file.

## 2. The modules

| Module | Models | Composition |
|---|---|---|
| `LedgerPlans` | the planners and `affiliate_chain`, pure | used by all below |
| `PlanCases` | one business event and the plan made for it | `EXTENDS LedgerPlans` |
| `AtomicLedger` | what `post` promises: all or nothing, no overdraft, a key once | `EXTENDS LedgerPlans` |
| `Ledger` | `post`, one action per SQL statement, under PostgreSQL's locks | implements `AtomicLedger` |
| `EscrowContract` | what the hire layer promises | abstract |
| `Hire` | `open_hire` and `act_on_hire` | `EXTENDS AtomicLedger`, implements `EscrowContract` |
| `Board` | the board file, the tools, the voice-note runs | |
| `StewardQueue` | the queue's tools and routes, pull, delegation, merge feedback | |
| `TuningSweep` | the sweeps and ltp-dispatch under the dispatch lock | |
| `Consent` | what the approval tier promises | abstract |
| `Approvals` | raising, answering and carrying out requests | implements `Consent` |
| `Posting` | cards, YouTube rows, processors, the sync and the heal | |
| `XaiOauth` | the token file, the refresh lock, the settings page, the server | |
| `Books` | the ledgers of one Presence under their lock, over WebDAV | |
| `MC*` | instances for TLC | |
| `*_proofs` | theorems | |

Definitions that end in `_m` are faulty variants of the definition after them:
slips a maintainer could make. No other definition uses them; each shows that a
property below can fail.

### Correspondence

**Ledger.** `wallet`, `booked`, `known` and `posts` are the committed contents
of the three tables; `row` and `owner` are the newest version and the lock of
each wallet row. A `Poster` is one call of `post`; `pc`, `pos` and `seen` are
its place, its loop index and the balance it has read. `CheckKey` is the SELECT
by key, `InsertTxn` the INSERT that waits on the unique index while another
transaction holds the key, `FindWallet` and `CreateWallet` are `_wallet_id`,
`ReadBalance` is the SELECT ... FOR UPDATE with the guard, `WriteBalance` the
entry and the UPDATE. `DeadlockVictim` and `Crash` are the database's. The
callers' `allow_negative` is never used and left out.

**LedgerPlans.** Entries are records of wallet and change. `Rounded(n, p)` is
Python's `round(n * p / 100)`, half to even. Rates are whole percents.

**Hire.** A handler is several steps: its read, its post (one atomic step, as
`Ledger` justifies), its write. The hires in `Isolated` are those whose calls
take turns and do not die; all others overlap with them and with each other.
Hire ids come from a sequence.

**Board.** The text of the board says of each change how many rows it has put
there: open ones, those under Completed, and, for the properties, those that
clearing Completed has taken off; a lost edit is a missing row, a repeated one a
second row. An edit is `Additive` when it adds a line each time it is applied;
others do nothing to a board that has them (a ticket that is done is not done
again), move a row to Completed (`MovedRow`) or clear that lane (`Clearing`).
Each PUT gives the file a new ETag. A PUT that times out may have been stored,
may never arrive, or may arrive later (`late`); those of the edits in `Answered`
do not. A voice-note run lists, extracts, reads, writes and archives, one
request per step. `Calm` restricts to runs that take turns, that can read the
board and whose PUTs to it are answered. Nobody looks whether the MOVE to
Archive has failed: it may, under `Calm` too, and the history variable `kept`
counts the failures of each note.

**StewardQueue.** A handler reads in one step and writes what it decided in a
later one: the transactions are READ COMMITTED and lock nothing between. A write
may fail (`WriteRow`). A tool that has closed a row starts the sync of the board
(`pending`), which gets there later or not at all (`SyncBoard`, `toBoard`); only
the syncs of tickets in `Turns` are followed. Notes are the sequence of what was
appended. `Turns` are the tickets whose handlers take turns, `Pulls` those that
agents also pull and delegate; the handlers of different tickets always overlap.

**TuningSweep.** A caller is the schedule, the operator's forced sweep or the
route. Nothing awaits between the look at the flag and its set (with the
default delivery), which is therefore one step; each query is one. An agent's
echoes for a Drop are reduced to the age of the latest, and time passes by
`Ages`. `Broken` agents are those whose model never answers. `gate` is what must
be open: a host's instance type, no dry run, the consent of the operator
(`Decide`; `Allowed` is `team_auto_tune_allowed`, which lets a Cove go on that
has echoes and no decision) and the window from 07:00 to midnight (`Clock`). The
sweeps ask for what `MayStart` says, the route for nothing; the dispatcher
leaves the team alone where there is no host, and a dry run stores nothing. The
model is of `COVE_MODE=multi`, where the graph that ltp-dispatch starts only
pulls.

**Approvals.** A request is a row, the outcome of its call, and for a site edit
the branch that holds it. `Block` and `EditSite` raise it and `SaveRequest` is
the INSERT, whose failure the code logs and ignores. `Load`, `Respond` and what
`Proceed` leads to are one operator request: the route's SELECT, the conditional
UPDATE, then the tool (`RunTool`, `StoreResult`, `StoreError`), the merge
(`MergeBranch`, `DeleteMerged`, `StoreResult`) or the denial (`DeleteDenied`),
and the message and reply (`Reply`). A write may commit without being answered.
`outcome` is "none" until the call is attempted, then "success", when the answer
to the attempt reads as one (for a tool, its text by `_result_is_success`; for a
merge, GitHub's answer), or "unknown", when it may have had its effect or not.
`told` is what the operator's reply and the agent's message have said: the
latter says "approved and executed" of every approval. `Calm` are the calls that
no two agents make at the same moment.

**Posting.** A card has a status and the `youtube_queue_id` in its
`platform_data`; a row has a status, its clip and whether it has its video.
`Promote` is `_promote_youtube_post`, `Sync` is `sync_social_for_youtube_queue`,
whose failure the callers ignore. Requests that read a row or a card and write
later by what they read are two steps. A run picks rows, then uploads them one
after the other (`UploadYoutubePost`, then `StoreUpload` or `StoreFailure`).
Dates are left open. A PATCH of a card or a row may bring any status of
`CardSent` or `RowSent`: the bodies are not validated. `stale` and `claimed` are
history variables: the cards to which a rewriter gave back a link they no longer
had, and those that a PATCH itself called uploaded or published. `Alone` says that no processor
starts while another is at work.

**XaiOauth.** A step runs from one `await` to the next. Tokens are numbered as
the server mints them; `live` are the refresh tokens it accepts, `aged` and
`refused` the access tokens near their end and answered 401. `waiting` and
`holder` are the asyncio lock. `Begin` is `get_valid_access_token`, `Enter` and
`Told` are `_refresh_single_flight` with `refresh_access_token`, `Answer` the
model's answer in `_agenerate`; a `Poll` is the settings page's poll, which goes
on to present its device code. `Refreshes`, `Authorizes` and `Expires` are the
server's and the clock's.

**Books.** A ledger is the sequence of its rows; a row is its line, its
fingerprint `key` and its mark (category or state). A call waits in `line`,
whose head has the Presence's lock, reads the file and makes new content in one
step (nothing else may write in between, but a late PUT may land), and sends it;
`Stored`, `NotStored` and `Lands` are the server's side. `blank` marks the calls
that write a new ledger decided on outside the lock. `kept` is a history
variable: the facts of a ledger that the last acknowledged write left and that
no later request was about.

## 3. The runs

| Run | Question | Bounds and why they are enough |
|---|---|---|
| `ledger` | Do interleaved posts lose, invent or repeat credits? Does each end? Do they implement `AtomicLedger`? | Two calls, five requests over three members: a replayed key, an unkeyed post, two purchases with opposite lock orders, two holds of which one is refused, a buyer who is also an affiliate. `MaxUnkeyed` bounds posts without a key. The rates (50, 50, 25) keep the amounts small with all five entries in the plan. Third calls are covered by the theorems. |
| `plans` | Do all planners balance? Are affiliates others than the seller? Is a sale ever refused by its roundings? | Amounts 1 to 60 at the default rates cover every residue of the roundings (10%, then 30% and 10% of it), all 64 referral graphs of three members, cycles included; external costs of 0 and 1. |
| `hire` | What holds of the escrow when calls overlap and die between any two steps? Does a hire whose calls take turns keep its contract beside that? | Two hires of two amounts, two calls, one hire isolated, funds for one hire per buyer, one party also the other's affiliate. |
| `hire_one_settlement` | Is a hire either released or refunded? | One hire, two calls: a counterexample (section 6). |
| `board` | Is anything overwritten or added twice? Does every note's content reach the board, once, before it is archived, while the tools edit? | An edit that adds, one that moves the items of a note to Completed and one that clears that lane, two attempts of two tries (each branch of the code's two attempts and four tries), two runs in turn, two notes of which one has items. Only the PUTs of the edit that adds fail or arrive late (`Answered` has the others), which keeps the run short. The theorems have no such bounds. |
| `queue` | Is a merge noted truly, once, and without moving a row? Do rows keep to the matrix and to one open row per ticket? Is what the board calls completed done? | Two handlers, two rows, two tickets: one in turns, one with pulls and overlapping handlers; one pull request, room for two notes. |
| `sweep` | One dispatch at a time, no double tuning, cooldown; does everyone tune while the gates stay open? | Three callers, all values of the gates, a team of two (one broken), a presence, two Drops in turn: enough for an echo of another Drop and for one of an earlier round of this one. |
| `approvals` | Is consent asked and kept? Are reports true? Do cards pile up, or edits vanish? | Two agents, two operator requests, three requests, a tool and a site edit: one more request than can be answered at once, so that a card is raised again after its twin was decided. |
| `posting` | Is a clip mirrored once, uploaded once by ticks, and reported truly and in the end? | One card, two rows (one more than it should have, or a row of no card), a tick, a Publish Now, one rewriter and one row edit under way; cards may be sent draft, queued or uploaded, rows queued, cancelled or uploaded. Further cards and runs are covered by the theorems. |
| `tokens` | Is a consumed token replayed, a live one thrown away, a fresh one refreshed, a caller left waiting? | Two model calls and the settings page, two minted tokens: an authorization and its renewal, or a second authorization; a lock with a waiter that may be cancelled. The theorems have no such bound. |
| `books` | Does an acknowledged change stay? Does a statement line appear twice? | Two calls, a statement ledger fed by two statements that overlap in a line, a typed line, one category, two tries; one late PUT at a time. |
| `books_typed_lines` | Does a typed line stay when two requests make the ledger? | The same without `Calm`: a counterexample. |

Deadlock is checked in `sweep`, `posting`, `tokens` and `books`. The others may
stop: every credit is posted, every hire closed, every edit returned, every row
or request id used. The type invariants are proved with the inductive
invariants of section 4 and are in no cfg.

### Fairness

`ledger` assumes strong fairness of the steps of each call, the database's
deadlock detection among them, which runs after `deadlock_timeout` (row locks
are granted to those who wait); nothing is assumed of crashes. Without the
detector `EveryPostEnds` fails. `sweep` assumes weak fairness of each call's
steps (the loop runs them; the model calls have timeouts) and strong fairness of
the schedule's check of the flag (it comes every ten minutes, and forced sweeps
and ltp-dispatch do not hold the lock at each of these moments), of its queries
and of the model of an agent that is not broken: they may fail any number of
times but not always. This is what "retry anyone still missing" relies on. It is
assumed of the schedule only while its gates let it start, and nothing is
assumed of the gates: nobody has to consent, a consent may be withdrawn
(`scheduler.py:234-243`), the window ends at midnight (`:274`), the instance may
be no host and `LTP_DRY_RUN` is true unless it is set (`dispatch.py:75`).
`EveryoneTunes` therefore says of each agent and each Drop that stays that,
once the gates are open, the agent tunes or a gate is closed first.
`posting` assumes weak fairness of the heal alone, which the watcher runs every
15 minutes; nothing of the processors. `tokens` assumes weak fairness of the
next step of each call under way: requests have timeouts, so an answer or a
failure comes, and asyncio hands its lock to the longest waiter. Nothing is
assumed of the server's goodwill, of crashes or of cancellation.

## 4. What is proved

Each proof shows that an invariant is inductive, with one lemma per action, and
derives the properties from it. The invariants are defined in the modules of
the code, beside the properties that need them, and were checked by TLC before
they were proved. Some modules have a basic one, `IInv`, and others on top of it
for single properties.

**Ledger_proofs**, for any number of members, posters, keys and requests.
`IInv` says: an unlocked row is as committed (`LockInv`); a transaction has
locked every wallet it has written and moved it by exactly the entries done so
far (`WrittenInv`); a balance read is locked until written (`ReadInv`); keys of
open transactions are distinct and unposted (`KeyInv`). `BalancesMatchEntries`
by itself is not inductive: a commit keeps it only because the rows it
publishes are what they were when it locked them, plus its entries. From it:
type correctness, `Lockstep`, `NoOverdraft`, `Idempotency`, and `Serializability`,
that the SQL of `post` implements `AtomicLedger`: `CommitIsPost` maps the
commit to the atomic posting and `OtherStepsStutter` every other step to none.
Assumptions: `LedgerAssumption` (requests are plans of one to `MaxEntries`
entries).

The same module proves of the planners (`PlanCases`), for all rates, amounts and
referral graphs: every plan balances (`PlansBalance`), affiliates are others
(`NoSelfDealing`), and no sale is refused when the affiliate rates together are
at most half the fee (`NoRefusal`); the argument is that half-to-even roundings
of two parts that together are at most half of a whole never add up to more than
it (`HalfFits`). The default rates, 30 and 10, satisfy it.

**Hire_proofs**, for any members, hires, amounts, referrals and isolated hires,
any overlap and any crash (`HireAssumption`: finitely many members and hires,
and no release that the roundings refuse: `NoRefusal` says for which rates).

- `IInv` ties each leg's key to the handler that may still post it: released and
  cancelled hires have been paid (`SettledIsPaid`), and a hire that was undone
  has no hold (`UndoIsSafe`).
- `EscrowInv` adds that only hires with terms have legs (`LegsInv`): the escrow
  wallet is the sum of the legs (`EscrowAddsUp`). The sum over the hires is a
  recursive function over subsets. What it returns is shown from the smallest
  set for which it would be wrong (`SubsetInduction`, from `WFMin` over the
  naturals), because the library's induction theorems take an operator; the
  lemmas `SumsAdd`, `SumsSame`, `SumsPlus` and `SumsConst` are what the rest uses.
- `ContractInv` adds `TakesTurns` for each isolated hire: at most one call is on
  it, and an open one is held unless that call is about to fund, undo or close
  it. With it `ContractIsKept`: each step is one of `EscrowContract` or none,
  whatever the calls on the other hires do.
- `Conservation`: all wallets add up to 0, that is, what members, escrow and LP
  hold is what was issued ("no credits created or destroyed except at the
  issued/liability boundary", `tests/test_ledger.py:147`). `LedgerConserves` is
  the same for any posts under `AtomicLedger`, hence by `Serializability` for
  the balances that `post` commits.

**Board_proofs**, for any edits, tries, attempts, notes and runs, where there is
a board (`BoardExists`: without a file the first PUT is unconditional, and the
properties fail).

- `IInv` says that every conditional PUT on its way, its sender waiting or not,
  is stale or makes its edit to the board as it is: the tools' writes never
  overwrite a change (`NoStomp`). `OnlyEdits` and `SavedForGood` add that without
  runs every write is such a PUT, so that a saved row stays until Completed is
  cleared of it.
- `CopiesInv` bounds the rows an edit has put on the board, and on everything
  that may become the board, by the attempts made, cleared rows included: an
  attempt begins only when the PUTs of the earlier ones are stale
  (`RetriesSafe`).
- `NotesInv`, for `Calm`: the board has had the items of a note once if it is
  archived or on its way there, once more for each MOVE that failed, and of no
  others (`ItemsOnce`); they are there still unless Completed was cleared of them
  (`ArchivedStays`). The tools' PUTs do not disturb it because by `IInv` they
  edit what they read, and an edit loses no row: it moves it, or counts it as
  cleared.

**Approvals_proofs**, for any agents, handlers, calls and restarts.

- `IInv` says that an id drawn by an agent has no row yet (`DrawnInv`), that only
  the one handler whose UPDATE took the decision attempts the call, and only
  while there was no attempt (`AttemptInv`), and that a handler is about to store
  or say "executed" only of what was answered with success, and "denied" only of
  what was denied (`WordInv`, `ToldInv`). `ConsentKept` maps each step to one of
  `Consent` or to none; `TruthfulReports` is a conjunct. It is about the stored
  result and the operator's reply; of the agent's message it says only that
  approvals and denials are not mistaken for each other.
- `RaisedInv` adds what is raised: of the agents raising a calm call only one has
  looked and found nothing, and then there is no pending request
  (`NoSecondCard`); an edit has its branch before it has its row, and only the
  handler that settled the row deletes it (`NoLostEdit`).

**Posting_proofs**, for any cards, rows, processors and rewriters.

- `IInv`, with or without `Alone`: links point to rows, a row of a card that was
  not given back an older link is the one its link names (`LinkIsRow`), a public
  row has its video and a public card a public row, those apart that an edit
  called public itself (`claimed`). From it `OneRow` and `PublicIsTrue`.
- `TickInv`, for `Alone`: the rows a tick has picked and not come to yet lack
  their videos, because nobody else uploads meanwhile (`TicksNeverRepeat`).

**Agents_proofs**, for any agents, starters, tickets, handlers and updates.

- `SweepInv`: one call is past the dispatch lock (`MutualExclusion`), and so
  nobody else tunes between its look and its tunings; whom it has left to tune
  still misses the Drop (`NoSecondTuning`) and has not tuned a moment ago
  (`Cooldown`), since echoes only age meanwhile. The gates decide what starts and
  what is stored, and may change at any step (`GateInv`).
- `QueueInv`: a merge on record in a row, or that a pass is about to record, was
  a merge of a pull request of that number, in whichever repository
  (`TrueMergeNotes`); a completion that is on its way to the board, or there, is
  of a row that is done or purged (`BoardAndQueueAgree`); the rows that two
  handlers have in hand are disjoint for the tickets in `Turns`, so that what a
  handler read there is what it writes over. From it `NoSecondNote`,
  `NoDoubleQueueing` (tickets outside `Pulls`), `MatrixKept`, and `FeedbackIsANote`, which needs no turns.

**XaiOauth_proofs**, for any calls and any number of tokens: the cached refresh
token and every one that is on its way to being cached is new or the one
presented, only the holder of the lock presents one, and no cached or presented
one has a cached successor. `ReplayNever` follows, and with the freshness of
live tokens `WornOnly` and `LiveTokensKept`.

**Books_proofs**, for any calls, ledgers, statements, categories and limits.
`Distinct` (no two rows of one fingerprint, in the file, in a PUT under way or
late) gives `NeverTwins`, whoever makes ledgers. `AcknowledgedKept` needs
`Calm`: every content that may still be stored shows all that is `kept`, because
the lock serializes the writers and a late PUT's content is what the next reader
cannot overtake while the server works on it.

The conditions in these hypotheses (`BoardExists`, `Calm`, `Alone`, and the sets
`Isolated`, `Turns`, `Calm` of requests) are parameters of the models, not
assumptions on them: they guard actions or choose initial states, and section 6
says what TLC finds when they are lifted. The refinement mapping of `Hire` and
`Blockers` in `Ledger` have disjoint cases, since a CASE whose arms overlap
denotes any of them and nothing could be proved of it.

### Only model-checked

Liveness (`EveryPostEnds`, `EveryoneTunes`, `CardsCatchUp`, `CallsEnd`): its
proofs need fairness and ENABLED, which are out of the prover's reach. The
properties of the two runs that find a counterexample are of course not proved.
`CreditsConserved` is proved and in no cfg; TLC agrees when it is added to that
of `hire`.

## 5. What the checks show

The ledger holds under every interleaving tried and, by the theorems, under all.
The conditional writes of the board tools do what their header says, late PUTs
included. Merge feedback never moves a row, and only what is done in the queue
is completed on the board. The dispatch lock keeps one dispatch at a time, and
while the gates stay open everyone whose model works is tuned. Nothing runs
without consent or twice; what is stored and what the operator is told claim no
success that was not answered, though they may claim too little, and what the
agent is told may claim too much (section 6). A card mirrors into one row and
claims no video that is not there, unless somebody sent that claim. One process
refreshes once and never replays a token. What the books acknowledge stays,
where their ledgers exist.

Several of these hold under a condition the code does not enforce; the model
names it (`Isolated`, `Turns`, `Calm`, `Alone`, `BoardExists`, `GatesOpen`,
`stale`, `claimed`, `kept`) and the next section says what happens without it.

## 6. Where the code and its documentation disagree

Shown by a run:

- **A hire may be both released and refunded** (`economy/hire.py:72-120`). A
  cancel that read `accepted` posts its refund after the seller delivered and
  the buyer released: the three transactions of `act_on_hire` share no lock and
  the two keys differ.
- **A typed line may vanish** (`routes/bookkeeping.py:403-413`). The ledger of
  typed lines is found missing by reads made before the lock is there (a read
  that failed counts too) and then written blank, over lines added since.

Met while modelling; found by TLC in variants of the runs above, or read:

- `jules_process.py:376`: a saved edit of the board is lost to a voice-note run,
  which writes without `If-Match`; the tools' header says a stale writer "gets
  HTTP 412 instead of silently overwriting someone else's edit".
- `tuning/sweep.py:122`, `graphs/ltp/dispatch.py:125-136`: a forced sweep does
  not re-tune the team, because the dispatcher's own deduplication knows no
  force.
- `hire.py:53`: a process that dies after the INSERT leaves a `requested` hire
  that was never funded. `hire.py:116`: the closing UPDATE may reopen a settled
  row.
- `jules_process.py:372`: any failure to read the board is taken for an empty
  board. `:376`: of two overlapping runs one loses the items of a note that is
  archived. `:379`: whether the MOVE to Archive has succeeded (`:124-132`) is not
  looked at: the log says archived, and the next run files the note again.
- `backlog_tools.py:410`: two first writes of a board overwrite each other.
  `:418`: after a timeout and a 412 a line is added twice. `:590`: "nothing
  saved" for a PUT that may be stored.
- `steward_queue_tools.py:173`: an update that read a row before it was closed
  reopens it. `routes/steward_queue.py:86`: a double click inserts two rows.
  `backlog_tools.py:463`: a ticket in review gets a second row.
  `steward_queue_tools.py:137-141`: a sync of the board that fails is logged and
  never repeated, so that what is done may stay open on the board.
- `merge_feedback.py:158`: two overlapping passes note a merge twice. `:111`:
  numbers lose their repository, so that the note says no more than that some
  pull request of that number was merged.
- Tuning. The sweep tunes nobody, for as long as it takes, without the consent,
  outside the window, on an instance that is no host, or in a dry run, which is
  the default (`dispatch.py:75`). `dispatch.py:86`: nor does it tune the team to
  a package without coaching (not modelled).
- `economy/market.py:96` calls `ledger.apply_entries`, which does not exist.
- `tuning/dedup.py:60` looks back 20 hours, while its header says "No
  `tuned_at` date comparison. Ever."
- `routes/system.py:354`: ltp-trigger starts the single-mode graph without the
  dispatch lock.
- Approvals. `approval.py:293`: identical calls at the same moment, or a failing
  look, raise two cards. `:167-181`: when the INSERT fails the agent is told an
  id that no card has. `:127-148`: when the answer to the UPDATE is lost the
  route says 404, and the request stays approved and never runs, as it does
  after a crash before `home.py:224`. `:431-459`: a tool that ran is stored as
  an error when saving its result fails. `home.py:307-328`: a merge is reported
  as failed when the deletion of its branch raises. `home.py:354-373`: the
  message to the agent says "approved and executed" of every approval, of a push
  or a merge that failed too; `success` is passed and not used, and only the
  text of the result that follows tells. `approval.py:329-344`: that a tool
  succeeded is guessed from its text: an empty one, or one that does not look
  like an error, counts as success.
- Public posts. `action_board.py:1582-1609`, `youtube.py:794-823`: the status in
  a PATCH is not validated, though it is described as "New status: draft or
  queued." (`youtube.py:606-609`): a card or a row may be called uploaded
  without a video. `scheduler.py:1042-1046`: ticks may overlap (uploads take
  longer than their interval), and so may Publish Now: a row is then uploaded
  twice. A picked row that is cancelled meanwhile is uploaded anyway.
  `youtube.py:411`: process-queue has no `youtube_video_id IS NULL`, though
  "Same logic as the scheduler's 15-minute check". `action_board.py:2477` and
  `:1865-1885` write back a `platform_data` read earlier: a `youtube_queue_id`
  stored since is dropped and the next scheduling inserts a second row, against
  "re-scheduling updates the same row instead of duplicating"
  (`action_board.py:1620-1621`). Deleting a card leaves its row to be uploaded.
  A crash leaves rows `uploading`.
- xAI tokens. `xai_oauth.py:216-226` knows of another process's rotation only
  once it is cached: while it is on its way the cache is deleted, against "Only
  a genuine expiry/revoke (token unchanged) clears the cache". A revocation, or
  a new authorization, during a refresh is overwritten by the refresh's result.
  A rotation whose answer is lost needs a new authorization. `:560-568`: the
  synchronous call made inside the running loop blocks that loop until it ends,
  and for ever if it waits for a lock that a coroutine of that loop holds; it is
  not modelled, and `CallsEnd` is about asynchronous calls.
- Bookkeeping. `create_account`, `add_book` and `setup` decide as
  `_ensure_manual_ledger` does. Lines are addressed by their index on a page
  loaded earlier. A write reported as failed may be stored; repeating the
  request then adds a typed line twice. Placing a category may flip the sign of
  the amount, and with it the fingerprint: an overlapping statement imports the
  line again. Two genuine transactions of one date, payee and amount become
  one. `:86-97`: when the look-up of the Presence fails the lock is that of
  nobody's books.

## 7. Not modelled

The wording of messages, prompts and boards; authentication; HTTP between Coves;
the routes that forward to Nextcloud, Matrix and Stripe; memory search and
digestion; the browser; the voice service; provisioning. Of the modelled parts:
the log of the voice-note runs and the audio siblings; the message merge
feedback sends to the agent's thread; the host lock file, `http` delivery,
restarts and single mode in the tuning; X posting, testing/clear, the calendar
and an explicit `platform_data` in a PATCH; a second process on the token
volume; seed-map, add_category, the stamp of the filing book, returns, parsing
and grants in the bookkeeping; video jobs.

Most of the repository's lines are of these kinds: pages and scripts of the
browser and the installer, prompts, HTTP forwarding, media processing, parsing
of statements and returns. They keep no state that other actors race for, so a
model of them would repeat their text. The share of lines that the models cover
is therefore small, and what they cover is where state is shared.

External behaviour is assumed of: PostgreSQL (row locks, unique indexes,
deadlock detection), WebDAV (a PUT may be carried out after its client has
left; while the server works on one it answers others of the file 423), GitHub,
YouTube and xAI (any answer or none).

## 8. Plan

1. `VideoJobs`: the in-memory job, its unordered upserts, the boot sweep; with
   it the orphan sweep of delegations.
2. `XaiOauth` with a second process over the same file.
3. `TuningSweep` with single mode's graph, the host lock between two Coves
   (mtime, staleness, take-over) and restarts.
4. `QueueBoard`: the composition of `StewardQueue` and `Board` over the task
   that follows a done row.
5. Invitations and their claiming; the roll-over of threads.
6. Proofs: abstract specifications of the board (a set of changes, each added
   at most once per attempt) and of the queue (a ticket's life), with the
   refinements that the invariants of section 4 already carry; what holds of
   hires that overlap (`OneSettlement` for those on which no cancel does); the
   chain of assumptions from `NoRefusal` to `HireAssumption` as a theorem.

The suite stays at a dozen runs and forty properties, so that all of it can be
run at each change: a new module's properties take the place of those that a
theorem or a stronger property makes superfluous.
