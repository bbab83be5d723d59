------------------------------- MODULE Approvals -----------------------------
(***************************************************************************)
(* Approvals: an agent's tool_node (graphs/channels.py) blocks a call of   *)
(* the APPROVE tier, or a site tool commits its edit to a branch, and a    *)
(* row of approval_requests waits (tools/approval.py, site_tools.py); the  *)
(* operator answers (dashboard/routes/home.py), and the handler carries    *)
(* the call out and tells the agent.  A statement is a transaction whose   *)
(* commit may also go through without being answered; the process may die  *)
(* between any two steps.                                                  *)
(***************************************************************************)
EXTENDS Integers, FiniteSets

CONSTANTS Agent,      \* agent turns under way at once
          Handler,    \* requests to /api/approvals under way at once
          Req,        \* request ids 1..n, bounds the requests raised
          Call,       \* what agents ask for: a tool with its arguments
          SiteEdit,   \* the calls that edit a site; the others are blocked tools
          Calm        \* the calls that no two agents make at once, and whose
                      \* look for a pending request is answered

VARIABLES row,        \* approval_requests: status, result, call, by request id
          last,       \* the ids drawn (uuid4: never drawn twice)
          outcome,    \* "none"; "success", when the answer to the attempt reads as one,
                      \* for a merge GitHub's; else "unknown": it may have had its effect
          branch,     \* the site edits whose branch is on GitHub
          agent,      \* the agents' turns
          handler,    \* the answers under way
          told        \* what the operator and the agents have been told

vars == <<row, last, outcome, branch, agent, handler, told>>

ASSUME ApprovalAssumption == /\ IsFiniteSet(Req) /\ Req = 1..Cardinality(Req) /\ Call # {}
                             /\ SiteEdit \subseteq Call /\ Calm \subseteq Call \ SiteEdit

Status == {"none", "pending", "approved", "denied"}
Result == {"none", "ok", "failed"}          \* failed: the text of an error

Word == {"approved", "denied", "executed", "failed"}
Audience == {"operator", "agent"}

NoRow == [status |-> "none", result |-> "none", call |-> CHOOSE c \in Call : TRUE]
Resting == [at |-> "idle", id |-> 0, call |-> CHOOSE c \in Call : TRUE]
Idle == [at |-> "idle", id |-> 0, word |-> "denied"]

TypeOK == /\ row \in [Req -> [status : Status, result : Result, call : Call]]
          /\ last \in 0..Cardinality(Req)
          /\ outcome \in [Req -> {"none", "success", "unknown"}]
          /\ branch \subseteq Req
          /\ agent \in [Agent -> [at : {"idle", "save"}, id : Req \cup {0}, call : Call]]
          /\ handler \in [Handler -> [at : {"idle", "respond", "run", "merge", "unbranch", "store",
                                           "error", "clean", "tell"},
                                     id : Req \cup {0}, word : Word]]
          /\ told \subseteq Audience \X Req \X Word

Init == /\ row = [q \in Req |-> NoRow]
        /\ last = 0
        /\ outcome = [q \in Req |-> "none"]
        /\ branch = {}
        /\ agent = [a \in Agent |-> Resting]
        /\ handler = [h \in Handler |-> Idle]
        /\ told = {}

At(h, step) == handler[h].at = step
Move(h, step, word) ==
    handler' = [handler EXCEPT ![h] = [at |-> step, id |-> handler[h].id, word |-> word]]
Goto(h, step) == Move(h, step, handler[h].word)
Tell(h, word) == Move(h, "tell", word)
Finish(h) == handler' = [handler EXCEPT ![h] = Idle]

-----------------------------------------------------------------------------
(* Raising a request                                                       *)

Pending(c) == {q \in Req : row[q].status = "pending" /\ row[q].call = c}

\* Faulty: an identical request that is pending is not looked for.
Block_m(a, c) ==
    /\ agent[a] = Resting /\ c \notin SiteEdit
    /\ c \in Calm => \A b \in Agent : agent[b] # Resting => agent[b].call # c
    /\ last + 1 \in Req
    /\ last' = last + 1
    /\ agent' = [agent EXCEPT ![a] = [at |-> "save", id |-> last + 1, call |-> c]]
    /\ UNCHANGED <<row, outcome, branch, handler, told>>

\* block_for_approval: an identical pending request is reused, if the look for
\* one succeeds; a failing SELECT counts as none.
Block(a, c) ==
    /\ agent[a] = Resting /\ c \notin SiteEdit
    /\ c \in Calm => \A b \in Agent : agent[b] # Resting => agent[b].call # c
    /\ Pending(c) = {} \/ c \notin Calm
    /\ last + 1 \in Req
    /\ last' = last + 1
    /\ agent' = [agent EXCEPT ![a] = [at |-> "save", id |-> last + 1, call |-> c]]
    /\ UNCHANGED <<row, outcome, branch, handler, told>>

\* site_edit_file, site_create_file: a branch and, unless that fails, a commit.
EditSite(a, c) ==
    /\ agent[a] = Resting /\ c \in SiteEdit
    /\ last + 1 \in Req
    /\ last' = last + 1
    /\ branch' = branch \cup {last + 1}
    /\ \/ agent' = [agent EXCEPT ![a] = [at |-> "save", id |-> last + 1, call |-> c]]
       \/ UNCHANGED agent
    /\ UNCHANGED <<row, outcome, handler, told>>

\* _save_approval_to_db: whether the INSERT fails or not, the request is raised.
SaveRequest(a) ==
    /\ agent[a].at = "save"
    /\ \/ row' = [row EXCEPT ![agent[a].id] = [status |-> "pending", result |-> "none",
                                               call |-> agent[a].call]]
       \/ UNCHANGED row
    /\ agent' = [agent EXCEPT ![a] = Resting]
    /\ UNCHANGED <<last, outcome, branch, handler, told>>

-----------------------------------------------------------------------------
(* Answering it                                                            *)

\* The route's own SELECT finds a row, whatever its status.
Load(h, q, word) ==
    /\ handler[h] = Idle
    /\ row[q].status # "none"
    /\ handler' = [handler EXCEPT ![h] = [at |-> "respond", id |-> q, word |-> word]]
    /\ UNCHANGED <<row, last, outcome, branch, agent, told>>

IsEdit(q) == row[q].call \in SiteEdit

\* What follows the decision: the tool, the merge, or the clean-up.
Proceed(h) == Goto(h, IF handler[h].word = "denied" THEN "clean"
                      ELSE IF IsEdit(handler[h].id) THEN "merge" ELSE "run")

\* Faulty: the UPDATE does not ask for a pending row.
Respond_m(h) ==
    /\ At(h, "respond")
    /\ row' = [row EXCEPT ![handler[h].id].status = handler[h].word]
    /\ Proceed(h) \/ Finish(h)
    /\ UNCHANGED <<last, outcome, branch, agent, told>>

\* respond_to_approval: the UPDATE of a pending row, whose answer may be lost;
\* then, as when there is none, the route says 404 and does nothing more.
Respond(h) ==
    /\ At(h, "respond")
    /\ \/ /\ row[handler[h].id].status = "pending"
          /\ row' = [row EXCEPT ![handler[h].id].status = handler[h].word]
          /\ Proceed(h) \/ Finish(h)
       \/ Finish(h) /\ UNCHANGED row
    /\ UNCHANGED <<last, outcome, branch, agent, told>>

Attempt(h, how) == outcome' = [outcome EXCEPT ![handler[h].id] = how]

\* execute_approved_tool, up to the tool's return: whatever it did, the text reads
\* as a success (_result_is_success) or not, or it raises; or it is not found; or
\* the SELECT fails.
RunTool(h) ==
    /\ At(h, "run")
    /\ \/ Attempt(h, "success") /\ Move(h, "store", "executed")
       \/ Attempt(h, "unknown") /\ (Move(h, "store", "failed") \/ Goto(h, "error"))
       \/ (Tell(h, "failed") \/ Goto(h, "error")) /\ UNCHANGED outcome
    /\ UNCHANGED <<row, last, branch, agent, told>>

Stored(h, result) == row' = [row EXCEPT ![handler[h].id].result = result]

\* Faulty: what did not raise counts as executed (before #D52).
StoreResult_m(h) ==
    /\ At(h, "store")
    /\ \/ Stored(h, "ok") /\ Tell(h, "executed")
       \/ UNCHANGED row /\ Goto(h, "error")
    /\ UNCHANGED <<last, outcome, branch, agent, told>>

\* UPDATE ... SET result.  If it raises, committed or not, the result of a tool
\* becomes an error, and the merge of an edit is said to have failed.
StoreResult(h) ==
    /\ At(h, "store")
    /\ LET result == IF handler[h].word = "executed" THEN "ok" ELSE "failed" IN
       \/ Stored(h, result) /\ Goto(h, "tell")
       \/ /\ Stored(h, result) \/ UNCHANGED row
          /\ IF IsEdit(handler[h].id) THEN Tell(h, "failed") ELSE Goto(h, "error")
    /\ UNCHANGED <<last, outcome, branch, agent, told>>

\* "ERROR: ...", saved if the database lets it.
StoreError(h) ==
    /\ At(h, "error")
    /\ Stored(h, "failed") \/ UNCHANGED row
    /\ Tell(h, "failed")
    /\ UNCHANGED <<last, outcome, branch, agent, told>>

\* _execute_site_approval: merged; a conflict or an error, before or after GitHub
\* merged it; or not tried, for want of a token.
MergeBranch(h) ==
    /\ At(h, "merge")
    /\ \/ Attempt(h, "success") /\ Goto(h, "unbranch")
       \/ Attempt(h, "unknown") /\ Tell(h, "failed")
       \/ Tell(h, "failed") /\ UNCHANGED outcome
    /\ UNCHANGED <<row, last, branch, agent, told>>

Unbranched(h) == branch' = branch \ {handler[h].id}

\* The merged branch is deleted before the result is saved; a failure of the
\* one, carried out or not, leaves out the other.
DeleteMerged(h) ==
    /\ At(h, "unbranch")
    /\ \/ Unbranched(h) /\ Move(h, "store", "executed")
       \/ (Unbranched(h) \/ UNCHANGED branch) /\ Tell(h, "failed")
    /\ UNCHANGED <<row, last, outcome, agent, told>>

\* Faulty: the branch goes whether or not the denial was taken.
DeleteDenied_m(h) ==
    /\ At(h, "clean") \/ (At(h, "respond") /\ handler[h].word = "denied")
    /\ Unbranched(h)
    /\ IF At(h, "clean") THEN Tell(h, "denied") ELSE Finish(h)
    /\ UNCHANGED <<row, last, outcome, agent, told>>

\* _deny_site_approval: best effort.
DeleteDenied(h) ==
    /\ At(h, "clean")
    /\ Unbranched(h) \/ UNCHANGED branch
    /\ Tell(h, "denied")
    /\ UNCHANGED <<row, last, outcome, agent, told>>

\* The reply, and before it _inject_approval_resolution_message, best effort: the
\* agent is told "approved and executed" of all that was approved, failures too.
Reply(h) ==
    /\ At(h, "tell")
    /\ LET q == handler[h].id  word == handler[h].word IN
       told' = told \cup {<<"operator", q, word>>,
                          <<"agent", q, IF word = "denied" THEN "denied" ELSE "executed">>}
    /\ Finish(h)
    /\ UNCHANGED <<row, last, outcome, branch, agent>>

\* The process dies and comes back: only the database and GitHub remember.
Restart ==
    /\ agent' = [a \in Agent |-> Resting]
    /\ handler' = [h \in Handler |-> Idle]
    /\ UNCHANGED <<row, last, outcome, branch, told>>

Answering(h) == \/ \E q \in Req, word \in {"approved", "denied"} : Load(h, q, word)
                \/ Respond(h) \/ RunTool(h) \/ StoreResult(h) \/ StoreError(h)
                \/ MergeBranch(h) \/ DeleteMerged(h) \/ DeleteDenied(h) \/ Reply(h)

Next == \/ \E a \in Agent : \/ \E c \in Call : Block(a, c) \/ EditSite(a, c)
                            \/ SaveRequest(a)
        \/ \E h \in Handler : Answering(h)
        \/ Restart

Spec == Init /\ [][Next]_vars

-----------------------------------------------------------------------------
(* Properties                                                              *)

\* "Agents propose and WAIT": whoever answers at once, and whatever dies, each
\* request is decided once, and only an approved call is ever attempted, once.
Promise == INSTANCE Consent WITH decision <- [q \in Req |-> row[q].status]
KeepsConsent == Promise!Spec

\* "the approval card can't show a green checkmark on a failed push" (#D52): the
\* stored result and the operator's reply claim no success that was not answered;
\* and whoever is told of a denial, or of an approval, is told what was decided.
ReportsAreTrue ==
    /\ \A q \in Req : row[q].result = "ok" \/ <<"operator", q, "executed">> \in told
                        => outcome[q] = "success"
    /\ \A r \in told : r[3] = "denied" <=> row[r[2]].status = "denied"

\* "Dedupe: agents retry a blocked call": identical requests do not pile up.
OneCardPerCall == \A c \in Calm : Cardinality(Pending(c)) <= 1

\* The branch of an edit is the edit: it is there until the edit has been merged
\* or denied, however the handlers overlap or end.
EditsAreKept ==
    \A q \in Req : row[q].status # "none" /\ IsEdit(q) /\ q \notin branch
        => outcome[q] = "success" \/ row[q].status = "denied"

-----------------------------------------------------------------------------
(* The inductive invariant behind KeepsConsent and ReportsAreTrue          *)

\* An id belongs to one turn of an agent, and to no row before that.
DrawnInv == /\ \A q \in Req : q > last => row[q].status = "none"
            /\ \A a \in Agent : agent[a].at = "save" =>
                  agent[a].id \in 1..last /\ row[agent[a].id].status = "none"
            /\ \A a, b \in Agent : agent[a].at = "save" /\ agent[b].at = "save" /\ a # b =>
                  agent[a].id # agent[b].id

\* Only the handler whose UPDATE took the decision attempts the call.
Attempting(h) == handler[h].at \in {"run", "merge"}
AttemptInv == /\ \A h \in Handler : Attempting(h) =>
                    row[handler[h].id].status = "approved" /\ outcome[handler[h].id] = "none"
              /\ \A g, h \in Handler : Attempting(g) /\ Attempting(h) /\ g # h =>
                    handler[g].id # handler[h].id
              /\ \A q \in Req : row[q].status # "approved" => outcome[q] = "none"

\* What a handler is about to say.
WordInv == \A h \in Handler : handler[h].at # "idle" =>
    LET q == handler[h].id  word == handler[h].word IN
    /\ q \in Req /\ row[q].status # "none"
    /\ handler[h].at = "respond" => word \in {"approved", "denied"}
    /\ handler[h].at \in {"unbranch", "store", "error"} => row[q].status = "approved"
    /\ handler[h].at = "store" => word \in {"executed", "failed"}
    /\ handler[h].at = "clean" => row[q].status = "denied"
    /\ handler[h].at = "unbranch" => outcome[q] = "success"
    /\ handler[h].at \in {"store", "tell"} /\ word = "executed" => outcome[q] = "success"
    /\ handler[h].at = "tell" => row[q].status \in {"approved", "denied"}
                               /\ (word = "denied" <=> row[q].status = "denied")

ToldInv == \A r \in told : row[r[2]].status \in {"approved", "denied"}

IInv == TypeOK /\ DrawnInv /\ AttemptInv /\ WordInv /\ ToldInv /\ ReportsAreTrue

-----------------------------------------------------------------------------
(* The inductive invariant behind OneCardPerCall and EditsAreKept          *)

Saving(a) == agent[a].at = "save"

\* Nobody raises a calm call that is raised already.
CardInv == /\ \A c \in Calm : \A p, q \in Pending(c) : p = q
           /\ \A a \in Agent : Saving(a) /\ agent[a].call \in Calm => Pending(agent[a].call) = {}
           /\ \A a, b \in Agent : Saving(a) /\ Saving(b) /\ agent[a].call \in Calm
                  /\ agent[b].call = agent[a].call => a = b

\* An edit has its branch before it has its row.
EditInv == /\ EditsAreKept
           /\ \A a \in Agent : Saving(a) /\ agent[a].call \in SiteEdit => agent[a].id \in branch

RaisedInv == IInv /\ CardInv /\ EditInv

=============================================================================
