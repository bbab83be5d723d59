--------------------------- MODULE Approvals_proofs --------------------------
(***************************************************************************)
(* Approvals keep Consent, for any number of agents, handlers, requests    *)
(* and calls: IInv is inductive, and under it every step is a step of      *)
(* Consent or changes neither decisions nor outcomes.  RaisedInv adds what  *)
(* a retried call and a site edit leave behind.                            *)
(***************************************************************************)
EXTENDS Approvals, FiniteSetTheorems, TLAPS

\* The ids are the numbers up to a natural number.
LEMMA Ids == Cardinality(Req) \in Nat /\ Req = 1..Cardinality(Req) /\ Req \subseteq Nat
  BY ApprovalAssumption, FS_CardinalityType

LEMMA InitInv == Init => IInv
  <1> SUFFICES ASSUME Init PROVE IInv
    OBVIOUS
  <1> USE Ids, ApprovalAssumption
  <1>1. TypeOK
    BY DEF Init, TypeOK, NoRow, Resting, Idle, Status, Result, Word
  <1>2. DrawnInv /\ AttemptInv
    BY DEF Init, DrawnInv, AttemptInv, Attempting, NoRow, Resting, Idle
  <1>3. WordInv /\ ToldInv /\ ReportsAreTrue
    BY DEF Init, WordInv, ToldInv, ReportsAreTrue, NoRow, Idle
  <1> QED BY <1>1, <1>2, <1>3 DEF IInv

LEMMA BlockInv == ASSUME IInv, NEW a \in Agent, NEW c \in Call, Block(a, c) PROVE IInv'
  <1> USE Ids DEF At, Finish, Idle, Resting, Block
  <1> TypeOK /\ DrawnInv /\ AttemptInv /\ WordInv /\ ToldInv /\ ReportsAreTrue
    BY DEF IInv
  <1>1. TypeOK'
    BY DEF TypeOK, Status, Result, Word
  <1>2. DrawnInv'
    BY DEF TypeOK, Status, Result, Word, DrawnInv
  <1>3. AttemptInv'
    BY DEF TypeOK, Status, Result, Word, AttemptInv, Attempting, WordInv
  <1>4. WordInv'
    BY DEF TypeOK, Status, Result, Word, WordInv, AttemptInv, Attempting
  <1>5. ToldInv' /\ ReportsAreTrue'
    BY DEF TypeOK, Status, Result, Word, ToldInv, ReportsAreTrue, AttemptInv, Attempting, WordInv
  <1> QED BY <1>1, <1>2, <1>3, <1>4, <1>5 DEF IInv

LEMMA EditSiteInv == ASSUME IInv, NEW a \in Agent, NEW c \in Call, EditSite(a, c) PROVE IInv'
  <1> USE Ids DEF EditSite
  <1> TypeOK /\ DrawnInv /\ AttemptInv /\ WordInv /\ ToldInv /\ ReportsAreTrue
    BY DEF IInv
  <1>1. TypeOK'
    <2>1. CASE UNCHANGED agent
      BY <2>1 DEF TypeOK
    <2>2. CASE agent' = [agent EXCEPT ![a] = [at |-> "save", id |-> last + 1, call |-> c]]
      BY <2>2 DEF TypeOK
    <2> QED BY <2>1, <2>2
  <1>2. DrawnInv'
    <2>1. /\ last' = last + 1 /\ last + 1 \in Req /\ row' = row /\ last \in Nat
          /\ \A b \in Agent : agent'[b] = agent[b] \/ (b = a /\ agent'[b].id = last + 1)
      BY DEF TypeOK
    <2>2. \A b \in Agent : agent[b].at = "save" => agent[b].id \in 1..last
      BY DEF DrawnInv
    <2> QED BY <2>1, <2>2 DEF DrawnInv
  <1>3. AttemptInv' /\ WordInv' /\ ToldInv' /\ ReportsAreTrue'
    BY DEF AttemptInv, Attempting, WordInv, ToldInv, ReportsAreTrue
  <1> QED BY <1>1, <1>2, <1>3 DEF IInv

LEMMA SaveRequestInv == ASSUME IInv, NEW a \in Agent, SaveRequest(a) PROVE IInv'
  <1> USE Ids DEF SaveRequest
  <1> DEFINE q == agent[a].id
             new == [status |-> "pending", result |-> "none", call |-> agent[a].call]
  <1> TypeOK /\ DrawnInv /\ AttemptInv /\ WordInv /\ ToldInv /\ ReportsAreTrue
    BY DEF IInv
  <1>1. q \in Req /\ row[q].status = "none" /\ new \in [status : Status, result : Result, call : Call]
    BY DEF DrawnInv, TypeOK, Status, Result
  <1>2. \A p \in Req : p # q => row'[p] = row[p]
    BY DEF TypeOK
  <1>3. row'[q] = row[q] \/ row'[q] = new
    BY <1>1 DEF TypeOK
  <1>4. row' \in [Req -> [status : Status, result : Result, call : Call]]
    BY <1>1 DEF TypeOK
  <1>5. agent'[a] = Resting /\ \A b \in Agent : b # a => agent'[b] = agent[b]
    BY DEF TypeOK
  <1>6. TypeOK'
    BY <1>4, ApprovalAssumption DEF TypeOK, Resting
  <1>7. DrawnInv'
    <2>1. \A p \in Req : p > last' => row'[p].status = "none"
      BY <1>1, <1>2 DEF DrawnInv, TypeOK
    <2>2. ASSUME NEW b \in Agent, agent'[b].at = "save" PROVE b # a /\ agent'[b] = agent[b]
      BY <1>5, <2>2 DEF Resting
    <2>3. ASSUME NEW b \in Agent, agent'[b].at = "save"
          PROVE agent'[b].id \in 1..last' /\ row'[agent'[b].id].status = "none"
      <3>1. agent[b].id \in 1..last /\ row[agent[b].id].status = "none" /\ agent[b].id # q
        BY <2>2, <2>3 DEF DrawnInv
      <3> QED BY <1>2, <2>2, <2>3, <3>1 DEF TypeOK
    <2>4. ASSUME NEW b \in Agent, NEW d \in Agent, agent'[b].at = "save", agent'[d].at = "save", b # d
          PROVE agent'[b].id # agent'[d].id
      BY <2>2, <2>4 DEF DrawnInv
    <2> QED BY <2>1, <2>3, <2>4 DEF DrawnInv
  <1>8. outcome[q] = "none" /\ \A h \in Handler : handler[h].at # "idle" => handler[h].id # q
    BY <1>1 DEF AttemptInv, WordInv
  <1>9. AttemptInv'
    BY <1>1, <1>2, <1>3, <1>8 DEF AttemptInv, Attempting, WordInv
  <1>10. WordInv'
    BY <1>1, <1>2, <1>3, <1>8 DEF WordInv
  <1>11. ToldInv' /\ ReportsAreTrue'
    <2>1. \A r \in told : r[2] \in Req /\ r[2] # q /\ row'[r[2]] = row[r[2]]
      BY <1>1, <1>2 DEF ToldInv, TypeOK
    <2>2. \A p \in Req : row'[p].result = "ok" => row[p].result = "ok"
      BY <1>1, <1>2, <1>3
    <2>3. ToldInv'
      BY <2>1 DEF ToldInv
    <2> QED BY <2>1, <2>2, <2>3 DEF ReportsAreTrue
  <1> QED BY <1>6, <1>7, <1>9, <1>10, <1>11 DEF IInv

LEMMA LoadInv ==
    ASSUME IInv, NEW h \in Handler, NEW q \in Req, NEW word \in {"approved", "denied"}, Load(h, q, word)
    PROVE IInv'
  <1> USE Ids DEF At, Finish, Idle, Resting, Load
  <1> TypeOK /\ DrawnInv /\ AttemptInv /\ WordInv /\ ToldInv /\ ReportsAreTrue
    BY DEF IInv
  <1>1. TypeOK'
    BY DEF TypeOK, Status, Result, Word
  <1>2. DrawnInv'
    BY DEF DrawnInv
  <1>3. AttemptInv'
    BY DEF TypeOK, AttemptInv, Attempting, WordInv
  <1>4. WordInv'
    BY DEF TypeOK, WordInv
  <1>5. ToldInv' /\ ReportsAreTrue'
    BY DEF ToldInv, ReportsAreTrue
  <1> QED BY <1>1, <1>2, <1>3, <1>4, <1>5 DEF IInv

\* The generic step of a handler: h goes to new, and its request may change.
Steps == {"idle", "respond", "run", "merge", "unbranch", "store", "error", "clean", "tell"}
Handlers == [at : Steps, id : Req \cup {0}, word : Word]
RowTo(q, status, result) == [status |-> status, result |-> result, call |-> row[q].call]

\* What new may say of a request with that status and that outcome.
Says(new, status, ef) ==
    /\ new.at = "respond" => new.word \in {"approved", "denied"}
    /\ new.at \in {"unbranch", "store", "error"} => status = "approved"
    /\ new.at = "store" => new.word \in {"executed", "failed"}
    /\ new.at = "clean" => status = "denied"
    /\ new.at = "unbranch" => ef = "success"
    /\ new.at \in {"store", "tell"} /\ new.word = "executed" => ef = "success"
    /\ new.at = "tell" => status \in {"approved", "denied"} /\ (new.word = "denied" <=> status = "denied")

Allowed(h, new, status, result, ef) ==
    LET q == handler[h].id IN
    /\ handler[h].at # "idle"
    /\ new \in Handlers /\ (new.at # "idle" => new.id = q)
    /\ handler' = [handler EXCEPT ![h] = new]
    /\ status \in Status /\ result \in Result
    /\ row' = [row EXCEPT ![q] = RowTo(q, status, result)]
    /\ status = row[q].status \/ (row[q].status = "pending" /\ status \in {"approved", "denied"})
    /\ ef \in {"none", "success", "unknown"} /\ outcome' = [outcome EXCEPT ![q] = ef]
    /\ ef = outcome[q] \/ Attempting(h)
    /\ result = "ok" => result = row[q].result \/ ef = "success"
    /\ new.at \in {"run", "merge"} => row[q].status = "pending" /\ status = "approved" /\ ef = outcome[q]
    /\ Says(new, status, ef)
    /\ branch' \subseteq Req /\ UNCHANGED <<last, agent, told>>

LEMMA HandlerStep ==
    ASSUME IInv, NEW h \in Handler, NEW new, NEW status, NEW result, NEW ef,
           Allowed(h, new, status, result, ef)
    PROVE IInv'
  <1> USE Ids DEF RowTo, Allowed
  <1> DEFINE q == handler[h].id
  <1> TypeOK /\ DrawnInv /\ AttemptInv /\ WordInv /\ ToldInv /\ ReportsAreTrue
    BY DEF IInv
  <1>1. q \in Req /\ row[q].status # "none"
    BY DEF WordInv
  <1>2. /\ row \in [Req -> [status : Status, result : Result, call : Call]]
        /\ outcome \in [Req -> {"none", "success", "unknown"}]
        /\ handler \in [Handler -> Handlers]
    BY DEF TypeOK, Handlers, Steps
  <1>3. RowTo(q, status, result) \in [status : Status, result : Result, call : Call]
    BY <1>1, <1>2
  <1>4. /\ row' \in [Req -> [status : Status, result : Result, call : Call]]
        /\ outcome' \in [Req -> {"none", "success", "unknown"}]
        /\ handler' \in [Handler -> Handlers]
    BY <1>1, <1>2, <1>3
  <1>5. TypeOK'
    BY <1>4 DEF TypeOK, Handlers, Steps
  <1>6. /\ row'[q].status = status /\ row'[q].result = result /\ outcome'[q] = ef
        /\ \A p \in Req : p # q => row'[p] = row[p] /\ outcome'[p] = outcome[p]
        /\ handler'[h] = new /\ \A g \in Handler : g # h => handler'[g] = handler[g]
    BY <1>1, <1>2
  <1>7. DrawnInv'
    BY <1>1, <1>6 DEF DrawnInv, TypeOK
  <1>8. \A p \in Req : outcome[p] = "success" => outcome'[p] = "success"
    BY <1>1, <1>6 DEF AttemptInv
  <1>9. \A p \in Req : row[p].status # "pending" => row'[p].status = row[p].status
    BY <1>1, <1>6
  <1>10. AttemptInv'
    <2>1. ASSUME NEW g \in Handler, Attempting(g)'
          PROVE row'[handler'[g].id].status = "approved" /\ outcome'[handler'[g].id] = "none"
      <3>1. CASE g = h
        BY <1>1, <1>6, <2>1, <3>1 DEF Attempting, AttemptInv
      <3>2. CASE g # h
        <4>1. Attempting(g) /\ handler'[g].id = handler[g].id /\ handler[g].id \in Req
          BY <1>6, <2>1, <3>2 DEF Attempting, WordInv
        <4>2. row[handler[g].id].status = "approved" /\ outcome[handler[g].id] = "none"
          BY <4>1 DEF AttemptInv
        <4>3. handler[g].id = q => ef = outcome[q]
          BY <3>2, <4>1 DEF AttemptInv
        <4> QED BY <1>6, <1>9, <4>1, <4>2, <4>3
      <3> QED BY <3>1, <3>2
    <2>2. ASSUME NEW f \in Handler, NEW g \in Handler, Attempting(f)', Attempting(g)', f # g
          PROVE handler'[f].id # handler'[g].id
      BY <1>1, <1>6, <2>2 DEF Attempting, AttemptInv
    <2>3. ASSUME NEW p \in Req, row'[p].status # "approved" PROVE outcome'[p] = "none"
      BY <1>1, <1>6, <2>3 DEF AttemptInv
    <2> QED BY <2>1, <2>2, <2>3 DEF AttemptInv
  <1>11. WordInv'
    <2> SUFFICES ASSUME NEW g \in Handler, handler'[g].at # "idle"
                 PROVE handler'[g].id \in Req /\ row'[handler'[g].id].status # "none"
                       /\ Says(handler'[g], row'[handler'[g].id].status, outcome'[handler'[g].id])
      BY DEF WordInv, Says
    <2>1. CASE g = h
      BY <1>1, <1>6, <2>1
    <2>2. CASE g # h
      <3>1. handler'[g] = handler[g] /\ handler[g].id \in Req /\ row[handler[g].id].status # "none"
            /\ Says(handler[g], row[handler[g].id].status, outcome[handler[g].id])
        BY <1>6, <2>2 DEF WordInv, Says
      <3>2. row'[handler[g].id].status # "none"
        BY <1>1, <1>6, <3>1
      <3> QED BY <1>8, <1>9, <3>1, <3>2 DEF Says
    <2> QED BY <2>1, <2>2
  <1>12. ToldInv' /\ ReportsAreTrue'
    BY <1>1, <1>6, <1>8, <1>9 DEF ToldInv, ReportsAreTrue, TypeOK
  <1> QED BY <1>5, <1>7, <1>10, <1>11, <1>12 DEF IInv

\* Pointwise forms of what the actions do to a handler and to its request.
LEMMA Forms ==
    ASSUME IInv, NEW h \in Handler, handler[h].at # "idle"
    PROVE LET q == handler[h].id IN
          /\ q \in Req /\ handler[h] \in Handlers /\ row[q].status \in Status \ {"none"}
          /\ row[q].result \in Result /\ outcome[q] \in {"none", "success", "unknown"}
          /\ UNCHANGED row => row' = [row EXCEPT ![q] = RowTo(q, row[q].status, row[q].result)]
          /\ UNCHANGED outcome => outcome' = [outcome EXCEPT ![q] = outcome[q]]
  <1> DEFINE q == handler[h].id
  <1>1. q \in Req /\ row[q].status # "none"
    BY DEF IInv, WordInv
  <1>2. /\ row \in [Req -> [status : Status, result : Result, call : Call]]
        /\ outcome \in [Req -> {"none", "success", "unknown"}]
        /\ handler \in [Handler -> Handlers]
    BY DEF IInv, TypeOK, Handlers, Steps
  <1>3. row[q] = RowTo(q, row[q].status, row[q].result)
    BY <1>1, <1>2 DEF RowTo
  <1> QED BY <1>1, <1>2, <1>3

LEMMA StoredForm ==
    ASSUME IInv, NEW h \in Handler, handler[h].at # "idle", NEW result, Stored(h, result)
    PROVE row' = [row EXCEPT ![handler[h].id] = RowTo(handler[h].id, row[handler[h].id].status, result)]
  <1>1. row[handler[h].id] \in [status : Status, result : Result, call : Call]
    BY DEF IInv, TypeOK, WordInv
  <1>2. [row[handler[h].id] EXCEPT !.result = result]
           = RowTo(handler[h].id, row[handler[h].id].status, result)
    BY <1>1 DEF RowTo
  <1> QED BY <1>2 DEF Stored

LEMMA DecidedForm ==
    ASSUME IInv, NEW h \in Handler, handler[h].at # "idle", NEW status,
           row' = [row EXCEPT ![handler[h].id].status = status]
    PROVE row' = [row EXCEPT ![handler[h].id] = RowTo(handler[h].id, status, row[handler[h].id].result)]
  <1>1. row[handler[h].id] \in [status : Status, result : Result, call : Call]
    BY DEF IInv, TypeOK, WordInv
  <1>2. [row[handler[h].id] EXCEPT !.status = status]
           = RowTo(handler[h].id, status, row[handler[h].id].result)
    BY <1>1 DEF RowTo
  <1> QED BY <1>2

LEMMA RespondInv == ASSUME IInv, NEW h \in Handler, Respond(h) PROVE IInv'
  <1> DEFINE q == handler[h].id
             To(step, word) == [at |-> step, id |-> q, word |-> word]
  <1>t. TypeOK /\ AttemptInv /\ WordInv /\ ReportsAreTrue
    BY DEF IInv
  <1>a. handler[h].at = "respond" /\ UNCHANGED <<last, agent, told>> /\ UNCHANGED outcome
    BY DEF Respond, At
  <1>q. /\ q \in Req /\ handler[h].word \in Word /\ row[q].status \in Status \ {"none"}
        /\ row[q].result \in Result /\ outcome[q] \in {"none", "success", "unknown"}
        /\ UNCHANGED row => row' = [row EXCEPT ![q] = RowTo(q, row[q].status, row[q].result)]
        /\ UNCHANGED outcome => outcome' = [outcome EXCEPT ![q] = outcome[q]]
    BY Forms, <1>a DEF Handlers
  <1>w. handler[h].word \in {"approved", "denied"}
    BY <1>t, <1>a, <1>q DEF WordInv, AttemptInv, Attempting, ReportsAreTrue
  <1>b. branch' \subseteq Req
    BY <1>t DEF TypeOK, Respond
  <1>1. CASE UNCHANGED row /\ Finish(h)
    <2>1. Idle \in Handlers
      BY <1>q DEF Handlers, Steps, Word, Idle
    <2>2. Allowed(h, Idle, row[q].status, row[q].result, outcome[q])
      BY <1>a, <1>b, <1>q, <1>w, <1>1, <2>1
         DEF Allowed, Says, Attempting, Attempt, Goto, Tell, Move, Finish, Idle, Status, Result
    <2> QED BY <2>2, HandlerStep
  <1>2. CASE row' = [row EXCEPT ![q].status = handler[h].word] /\ row[q].status = "pending" /\ Finish(h)
    <2>1. row' = [row EXCEPT ![q] = RowTo(q, handler[h].word, row[q].result)]
      BY <1>a, <1>2, DecidedForm
    <2>2. Idle \in Handlers
      BY <1>q DEF Handlers, Steps, Word, Idle
    <2>3. Allowed(h, Idle, handler[h].word, row[q].result, outcome[q])
      BY <1>a, <1>b, <1>q, <1>w, <1>2, <2>1, <2>2
         DEF Allowed, Says, Attempting, Attempt, Goto, Tell, Move, Finish, Idle, Status, Result
    <2> QED BY <2>3, HandlerStep
  <1>3. CASE /\ row' = [row EXCEPT ![q].status = handler[h].word] /\ row[q].status = "pending"
            /\ handler[h].word = "denied" /\ Goto(h, "clean")
    <2>1. row' = [row EXCEPT ![q] = RowTo(q, handler[h].word, row[q].result)]
      BY <1>a, <1>3, DecidedForm
    <2>2. To("clean", handler[h].word) \in Handlers
      BY <1>q DEF Handlers, Steps, Word, Idle
    <2>3. Allowed(h, To("clean", handler[h].word), handler[h].word, row[q].result, outcome[q])
      BY <1>a, <1>b, <1>q, <1>w, <1>3, <2>1, <2>2
         DEF Allowed, Says, Attempting, Attempt, Goto, Tell, Move, Finish, Idle, Status, Result
    <2> QED BY <2>3, HandlerStep
  <1>4. CASE /\ row' = [row EXCEPT ![q].status = handler[h].word] /\ row[q].status = "pending"
            /\ handler[h].word = "approved" /\ Goto(h, "merge")
    <2>1. row' = [row EXCEPT ![q] = RowTo(q, handler[h].word, row[q].result)]
      BY <1>a, <1>4, DecidedForm
    <2>2. To("merge", handler[h].word) \in Handlers
      BY <1>q DEF Handlers, Steps, Word, Idle
    <2>3. Allowed(h, To("merge", handler[h].word), handler[h].word, row[q].result, outcome[q])
      BY <1>a, <1>b, <1>q, <1>w, <1>4, <2>1, <2>2
         DEF Allowed, Says, Attempting, Attempt, Goto, Tell, Move, Finish, Idle, Status, Result
    <2> QED BY <2>3, HandlerStep
  <1>5. CASE /\ row' = [row EXCEPT ![q].status = handler[h].word] /\ row[q].status = "pending"
            /\ handler[h].word = "approved" /\ Goto(h, "run")
    <2>1. row' = [row EXCEPT ![q] = RowTo(q, handler[h].word, row[q].result)]
      BY <1>a, <1>5, DecidedForm
    <2>2. To("run", handler[h].word) \in Handlers
      BY <1>q DEF Handlers, Steps, Word, Idle
    <2>3. Allowed(h, To("run", handler[h].word), handler[h].word, row[q].result, outcome[q])
      BY <1>a, <1>b, <1>q, <1>w, <1>5, <2>1, <2>2
         DEF Allowed, Says, Attempting, Attempt, Goto, Tell, Move, Finish, Idle, Status, Result
    <2> QED BY <2>3, HandlerStep
  <1>6. ASSUME row[q].status = "pending", row' = [row EXCEPT ![q].status = handler[h].word], Proceed(h)
        PROVE IInv'
    <2>1. CASE handler[h].word = "denied"
      BY <1>3, <1>6, <2>1 DEF Proceed
    <2>2. CASE handler[h].word = "approved" /\ IsEdit(q)
      BY <1>4, <1>6, <2>2 DEF Proceed
    <2>3. CASE handler[h].word = "approved" /\ ~IsEdit(q)
      BY <1>5, <1>6, <2>3 DEF Proceed
    <2> QED BY <1>w, <2>1, <2>2, <2>3
  <1> QED BY <1>1, <1>2, <1>6 DEF Respond

LEMMA RunToolInv == ASSUME IInv, NEW h \in Handler, RunTool(h) PROVE IInv'
  <1> DEFINE q == handler[h].id
             To(step, word) == [at |-> step, id |-> q, word |-> word]
  <1>t. TypeOK /\ AttemptInv /\ WordInv /\ ReportsAreTrue
    BY DEF IInv
  <1>a. handler[h].at = "run" /\ UNCHANGED <<last, agent, told>> /\ UNCHANGED row
    BY DEF RunTool, At
  <1>q. /\ q \in Req /\ handler[h].word \in Word /\ row[q].status \in Status \ {"none"}
        /\ row[q].result \in Result /\ outcome[q] \in {"none", "success", "unknown"}
        /\ UNCHANGED row => row' = [row EXCEPT ![q] = RowTo(q, row[q].status, row[q].result)]
        /\ UNCHANGED outcome => outcome' = [outcome EXCEPT ![q] = outcome[q]]
    BY Forms, <1>a DEF Handlers
  <1>w. row[q].status = "approved" /\ (row[q].result = "ok" => outcome[q] = "success")
    BY <1>t, <1>a, <1>q DEF WordInv, AttemptInv, Attempting, ReportsAreTrue
  <1>b. branch' \subseteq Req
    BY <1>t DEF TypeOK, RunTool
  <1>1. CASE Attempt(h, "success") /\ Move(h, "store", "executed")
    <2>1. To("store", "executed") \in Handlers
      BY <1>q DEF Handlers, Steps, Word, Idle
    <2>2. Allowed(h, To("store", "executed"), row[q].status, row[q].result, "success")
      BY <1>a, <1>b, <1>q, <1>w, <1>1, <2>1
         DEF Allowed, Says, Attempting, Attempt, Goto, Tell, Move, Finish, Idle, Status, Result
    <2> QED BY <2>2, HandlerStep
  <1>2. CASE Attempt(h, "unknown") /\ Move(h, "store", "failed")
    <2>1. To("store", "failed") \in Handlers
      BY <1>q DEF Handlers, Steps, Word, Idle
    <2>2. Allowed(h, To("store", "failed"), row[q].status, row[q].result, "unknown")
      BY <1>a, <1>b, <1>q, <1>w, <1>2, <2>1
         DEF Allowed, Says, Attempting, Attempt, Goto, Tell, Move, Finish, Idle, Status, Result
    <2> QED BY <2>2, HandlerStep
  <1>3. CASE Attempt(h, "unknown") /\ Goto(h, "error")
    <2>1. To("error", handler[h].word) \in Handlers
      BY <1>q DEF Handlers, Steps, Word, Idle
    <2>2. Allowed(h, To("error", handler[h].word), row[q].status, row[q].result, "unknown")
      BY <1>a, <1>b, <1>q, <1>w, <1>3, <2>1
         DEF Allowed, Says, Attempting, Attempt, Goto, Tell, Move, Finish, Idle, Status, Result
    <2> QED BY <2>2, HandlerStep
  <1>4. CASE UNCHANGED outcome /\ Tell(h, "failed")
    <2>1. To("tell", "failed") \in Handlers
      BY <1>q DEF Handlers, Steps, Word, Idle
    <2>2. Allowed(h, To("tell", "failed"), row[q].status, row[q].result, outcome[q])
      BY <1>a, <1>b, <1>q, <1>w, <1>4, <2>1
         DEF Allowed, Says, Attempting, Attempt, Goto, Tell, Move, Finish, Idle, Status, Result
    <2> QED BY <2>2, HandlerStep
  <1>5. CASE UNCHANGED outcome /\ Goto(h, "error")
    <2>1. To("error", handler[h].word) \in Handlers
      BY <1>q DEF Handlers, Steps, Word, Idle
    <2>2. Allowed(h, To("error", handler[h].word), row[q].status, row[q].result, outcome[q])
      BY <1>a, <1>b, <1>q, <1>w, <1>5, <2>1
         DEF Allowed, Says, Attempting, Attempt, Goto, Tell, Move, Finish, Idle, Status, Result
    <2> QED BY <2>2, HandlerStep
  <1> QED BY <1>w, <1>1, <1>2, <1>3, <1>4, <1>5 DEF RunTool, Attempt

LEMMA StoreResultInv == ASSUME IInv, NEW h \in Handler, StoreResult(h) PROVE IInv'
  <1> DEFINE q == handler[h].id
             To(step, word) == [at |-> step, id |-> q, word |-> word]
  <1>t. TypeOK /\ AttemptInv /\ WordInv /\ ReportsAreTrue
    BY DEF IInv
  <1>a. handler[h].at = "store" /\ UNCHANGED <<last, agent, told>> /\ UNCHANGED outcome
    BY DEF StoreResult, At
  <1>q. /\ q \in Req /\ handler[h].word \in Word /\ row[q].status \in Status \ {"none"}
        /\ row[q].result \in Result /\ outcome[q] \in {"none", "success", "unknown"}
        /\ UNCHANGED row => row' = [row EXCEPT ![q] = RowTo(q, row[q].status, row[q].result)]
        /\ UNCHANGED outcome => outcome' = [outcome EXCEPT ![q] = outcome[q]]
    BY Forms, <1>a DEF Handlers
  <1>w. /\ row[q].status = "approved" /\ handler[h].word \in {"executed", "failed"}
        /\ handler[h].word = "executed" => outcome[q] = "success"
    BY <1>t, <1>a, <1>q DEF WordInv, AttemptInv, Attempting, ReportsAreTrue
  <1>b. branch' \subseteq Req
    BY <1>t DEF TypeOK, StoreResult
  <1>1. CASE Stored(h, "ok") /\ handler[h].word = "executed" /\ Goto(h, "tell")
    <2>1. row' = [row EXCEPT ![q] = RowTo(q, row[q].status, "ok")]
      BY <1>a, <1>1, StoredForm
    <2>2. To("tell", handler[h].word) \in Handlers
      BY <1>q DEF Handlers, Steps, Word, Idle
    <2>3. Allowed(h, To("tell", handler[h].word), row[q].status, "ok", outcome[q])
      BY <1>a, <1>b, <1>q, <1>w, <1>1, <2>1, <2>2
         DEF Allowed, Says, Attempting, Attempt, Goto, Tell, Move, Finish, Idle, Status, Result
    <2> QED BY <2>3, HandlerStep
  <1>2. CASE Stored(h, "failed") /\ handler[h].word # "executed" /\ Goto(h, "tell")
    <2>1. row' = [row EXCEPT ![q] = RowTo(q, row[q].status, "failed")]
      BY <1>a, <1>2, StoredForm
    <2>2. To("tell", handler[h].word) \in Handlers
      BY <1>q DEF Handlers, Steps, Word, Idle
    <2>3. Allowed(h, To("tell", handler[h].word), row[q].status, "failed", outcome[q])
      BY <1>a, <1>b, <1>q, <1>w, <1>2, <2>1, <2>2
         DEF Allowed, Says, Attempting, Attempt, Goto, Tell, Move, Finish, Idle, Status, Result
    <2> QED BY <2>3, HandlerStep
  <1>3. CASE Stored(h, "ok") /\ handler[h].word = "executed" /\ Tell(h, "failed")
    <2>1. row' = [row EXCEPT ![q] = RowTo(q, row[q].status, "ok")]
      BY <1>a, <1>3, StoredForm
    <2>2. To("tell", "failed") \in Handlers
      BY <1>q DEF Handlers, Steps, Word, Idle
    <2>3. Allowed(h, To("tell", "failed"), row[q].status, "ok", outcome[q])
      BY <1>a, <1>b, <1>q, <1>w, <1>3, <2>1, <2>2
         DEF Allowed, Says, Attempting, Attempt, Goto, Tell, Move, Finish, Idle, Status, Result
    <2> QED BY <2>3, HandlerStep
  <1>4. CASE Stored(h, "failed") /\ Tell(h, "failed")
    <2>1. row' = [row EXCEPT ![q] = RowTo(q, row[q].status, "failed")]
      BY <1>a, <1>4, StoredForm
    <2>2. To("tell", "failed") \in Handlers
      BY <1>q DEF Handlers, Steps, Word, Idle
    <2>3. Allowed(h, To("tell", "failed"), row[q].status, "failed", outcome[q])
      BY <1>a, <1>b, <1>q, <1>w, <1>4, <2>1, <2>2
         DEF Allowed, Says, Attempting, Attempt, Goto, Tell, Move, Finish, Idle, Status, Result
    <2> QED BY <2>3, HandlerStep
  <1>5. CASE UNCHANGED row /\ Tell(h, "failed")
    <2>1. To("tell", "failed") \in Handlers
      BY <1>q DEF Handlers, Steps, Word, Idle
    <2>2. Allowed(h, To("tell", "failed"), row[q].status, row[q].result, outcome[q])
      BY <1>a, <1>b, <1>q, <1>w, <1>5, <2>1
         DEF Allowed, Says, Attempting, Attempt, Goto, Tell, Move, Finish, Idle, Status, Result
    <2> QED BY <2>2, HandlerStep
  <1>6. CASE Stored(h, "ok") /\ handler[h].word = "executed" /\ Goto(h, "error")
    <2>1. row' = [row EXCEPT ![q] = RowTo(q, row[q].status, "ok")]
      BY <1>a, <1>6, StoredForm
    <2>2. To("error", handler[h].word) \in Handlers
      BY <1>q DEF Handlers, Steps, Word, Idle
    <2>3. Allowed(h, To("error", handler[h].word), row[q].status, "ok", outcome[q])
      BY <1>a, <1>b, <1>q, <1>w, <1>6, <2>1, <2>2
         DEF Allowed, Says, Attempting, Attempt, Goto, Tell, Move, Finish, Idle, Status, Result
    <2> QED BY <2>3, HandlerStep
  <1>7. CASE Stored(h, "failed") /\ Goto(h, "error")
    <2>1. row' = [row EXCEPT ![q] = RowTo(q, row[q].status, "failed")]
      BY <1>a, <1>7, StoredForm
    <2>2. To("error", handler[h].word) \in Handlers
      BY <1>q DEF Handlers, Steps, Word, Idle
    <2>3. Allowed(h, To("error", handler[h].word), row[q].status, "failed", outcome[q])
      BY <1>a, <1>b, <1>q, <1>w, <1>7, <2>1, <2>2
         DEF Allowed, Says, Attempting, Attempt, Goto, Tell, Move, Finish, Idle, Status, Result
    <2> QED BY <2>3, HandlerStep
  <1>8. CASE UNCHANGED row /\ Goto(h, "error")
    <2>1. To("error", handler[h].word) \in Handlers
      BY <1>q DEF Handlers, Steps, Word, Idle
    <2>2. Allowed(h, To("error", handler[h].word), row[q].status, row[q].result, outcome[q])
      BY <1>a, <1>b, <1>q, <1>w, <1>8, <2>1
         DEF Allowed, Says, Attempting, Attempt, Goto, Tell, Move, Finish, Idle, Status, Result
    <2> QED BY <2>2, HandlerStep
  <1> QED BY <1>w, <1>1, <1>2, <1>3, <1>4, <1>5, <1>6, <1>7, <1>8 DEF StoreResult

LEMMA StoreErrorInv == ASSUME IInv, NEW h \in Handler, StoreError(h) PROVE IInv'
  <1> DEFINE q == handler[h].id
             To(step, word) == [at |-> step, id |-> q, word |-> word]
  <1>t. TypeOK /\ AttemptInv /\ WordInv /\ ReportsAreTrue
    BY DEF IInv
  <1>a. handler[h].at = "error" /\ UNCHANGED <<last, agent, told>> /\ UNCHANGED outcome /\ Tell(h, "failed")
    BY DEF StoreError, At
  <1>q. /\ q \in Req /\ handler[h].word \in Word /\ row[q].status \in Status \ {"none"}
        /\ row[q].result \in Result /\ outcome[q] \in {"none", "success", "unknown"}
        /\ UNCHANGED row => row' = [row EXCEPT ![q] = RowTo(q, row[q].status, row[q].result)]
        /\ UNCHANGED outcome => outcome' = [outcome EXCEPT ![q] = outcome[q]]
    BY Forms, <1>a DEF Handlers
  <1>w. row[q].status = "approved"
    BY <1>t, <1>a, <1>q DEF WordInv, AttemptInv, Attempting, ReportsAreTrue
  <1>b. branch' \subseteq Req
    BY <1>t DEF TypeOK, StoreError
  <1>1. CASE Stored(h, "failed")
    <2>1. row' = [row EXCEPT ![q] = RowTo(q, row[q].status, "failed")]
      BY <1>a, <1>1, StoredForm
    <2>2. To("tell", "failed") \in Handlers
      BY <1>q DEF Handlers, Steps, Word, Idle
    <2>3. Allowed(h, To("tell", "failed"), row[q].status, "failed", outcome[q])
      BY <1>a, <1>b, <1>q, <1>w, <1>1, <2>1, <2>2
         DEF Allowed, Says, Attempting, Attempt, Goto, Tell, Move, Finish, Idle, Status, Result
    <2> QED BY <2>3, HandlerStep
  <1>2. CASE UNCHANGED row
    <2>1. To("tell", "failed") \in Handlers
      BY <1>q DEF Handlers, Steps, Word, Idle
    <2>2. Allowed(h, To("tell", "failed"), row[q].status, row[q].result, outcome[q])
      BY <1>a, <1>b, <1>q, <1>w, <1>2, <2>1
         DEF Allowed, Says, Attempting, Attempt, Goto, Tell, Move, Finish, Idle, Status, Result
    <2> QED BY <2>2, HandlerStep
  <1> QED BY <1>w, <1>1, <1>2 DEF StoreError

LEMMA MergeBranchInv == ASSUME IInv, NEW h \in Handler, MergeBranch(h) PROVE IInv'
  <1> DEFINE q == handler[h].id
             To(step, word) == [at |-> step, id |-> q, word |-> word]
  <1>t. TypeOK /\ AttemptInv /\ WordInv /\ ReportsAreTrue
    BY DEF IInv
  <1>a. handler[h].at = "merge" /\ UNCHANGED <<last, agent, told>> /\ UNCHANGED row
    BY DEF MergeBranch, At
  <1>q. /\ q \in Req /\ handler[h].word \in Word /\ row[q].status \in Status \ {"none"}
        /\ row[q].result \in Result /\ outcome[q] \in {"none", "success", "unknown"}
        /\ UNCHANGED row => row' = [row EXCEPT ![q] = RowTo(q, row[q].status, row[q].result)]
        /\ UNCHANGED outcome => outcome' = [outcome EXCEPT ![q] = outcome[q]]
    BY Forms, <1>a DEF Handlers
  <1>w. row[q].status = "approved" /\ (row[q].result = "ok" => outcome[q] = "success")
    BY <1>t, <1>a, <1>q DEF WordInv, AttemptInv, Attempting, ReportsAreTrue
  <1>b. branch' \subseteq Req
    BY <1>t DEF TypeOK, MergeBranch
  <1>1. CASE Attempt(h, "success") /\ Goto(h, "unbranch")
    <2>1. To("unbranch", handler[h].word) \in Handlers
      BY <1>q DEF Handlers, Steps, Word, Idle
    <2>2. Allowed(h, To("unbranch", handler[h].word), row[q].status, row[q].result, "success")
      BY <1>a, <1>b, <1>q, <1>w, <1>1, <2>1
         DEF Allowed, Says, Attempting, Attempt, Goto, Tell, Move, Finish, Idle, Status, Result
    <2> QED BY <2>2, HandlerStep
  <1>2. CASE Attempt(h, "unknown") /\ Tell(h, "failed")
    <2>1. To("tell", "failed") \in Handlers
      BY <1>q DEF Handlers, Steps, Word, Idle
    <2>2. Allowed(h, To("tell", "failed"), row[q].status, row[q].result, "unknown")
      BY <1>a, <1>b, <1>q, <1>w, <1>2, <2>1
         DEF Allowed, Says, Attempting, Attempt, Goto, Tell, Move, Finish, Idle, Status, Result
    <2> QED BY <2>2, HandlerStep
  <1>3. CASE UNCHANGED outcome /\ Tell(h, "failed")
    <2>1. To("tell", "failed") \in Handlers
      BY <1>q DEF Handlers, Steps, Word, Idle
    <2>2. Allowed(h, To("tell", "failed"), row[q].status, row[q].result, outcome[q])
      BY <1>a, <1>b, <1>q, <1>w, <1>3, <2>1
         DEF Allowed, Says, Attempting, Attempt, Goto, Tell, Move, Finish, Idle, Status, Result
    <2> QED BY <2>2, HandlerStep
  <1> QED BY <1>w, <1>1, <1>2, <1>3 DEF MergeBranch, Attempt

LEMMA DeleteMergedInv == ASSUME IInv, NEW h \in Handler, DeleteMerged(h) PROVE IInv'
  <1> DEFINE q == handler[h].id
             To(step, word) == [at |-> step, id |-> q, word |-> word]
  <1>t. TypeOK /\ AttemptInv /\ WordInv /\ ReportsAreTrue
    BY DEF IInv
  <1>a. handler[h].at = "unbranch" /\ UNCHANGED <<last, agent, told>> /\ UNCHANGED <<row, outcome>>
    BY DEF DeleteMerged, Unbranched, At
  <1>q. /\ q \in Req /\ handler[h].word \in Word /\ row[q].status \in Status \ {"none"}
        /\ row[q].result \in Result /\ outcome[q] \in {"none", "success", "unknown"}
        /\ UNCHANGED row => row' = [row EXCEPT ![q] = RowTo(q, row[q].status, row[q].result)]
        /\ UNCHANGED outcome => outcome' = [outcome EXCEPT ![q] = outcome[q]]
    BY Forms, <1>a DEF Handlers
  <1>w. row[q].status = "approved" /\ outcome[q] = "success"
    BY <1>t, <1>a, <1>q DEF WordInv, AttemptInv, Attempting, ReportsAreTrue
  <1>b. branch' \subseteq Req
    BY <1>t DEF TypeOK, DeleteMerged, Unbranched
  <1>1. CASE Move(h, "store", "executed")
    <2>1. To("store", "executed") \in Handlers
      BY <1>q DEF Handlers, Steps, Word, Idle
    <2>2. Allowed(h, To("store", "executed"), row[q].status, row[q].result, outcome[q])
      BY <1>a, <1>b, <1>q, <1>w, <1>1, <2>1
         DEF Allowed, Says, Attempting, Attempt, Goto, Tell, Move, Finish, Idle, Status, Result
    <2> QED BY <2>2, HandlerStep
  <1>2. CASE Tell(h, "failed")
    <2>1. To("tell", "failed") \in Handlers
      BY <1>q DEF Handlers, Steps, Word, Idle
    <2>2. Allowed(h, To("tell", "failed"), row[q].status, row[q].result, outcome[q])
      BY <1>a, <1>b, <1>q, <1>w, <1>2, <2>1
         DEF Allowed, Says, Attempting, Attempt, Goto, Tell, Move, Finish, Idle, Status, Result
    <2> QED BY <2>2, HandlerStep
  <1> QED BY <1>w, <1>1, <1>2 DEF DeleteMerged, Unbranched

LEMMA DeleteDeniedInv == ASSUME IInv, NEW h \in Handler, DeleteDenied(h) PROVE IInv'
  <1> DEFINE q == handler[h].id
             To(step, word) == [at |-> step, id |-> q, word |-> word]
  <1>t. TypeOK /\ AttemptInv /\ WordInv /\ ReportsAreTrue
    BY DEF IInv
  <1>a. handler[h].at = "clean" /\ UNCHANGED <<last, agent, told>> /\ UNCHANGED <<row, outcome>>
    BY DEF DeleteDenied, Unbranched, At
  <1>q. /\ q \in Req /\ handler[h].word \in Word /\ row[q].status \in Status \ {"none"}
        /\ row[q].result \in Result /\ outcome[q] \in {"none", "success", "unknown"}
        /\ UNCHANGED row => row' = [row EXCEPT ![q] = RowTo(q, row[q].status, row[q].result)]
        /\ UNCHANGED outcome => outcome' = [outcome EXCEPT ![q] = outcome[q]]
    BY Forms, <1>a DEF Handlers
  <1>w. row[q].status = "denied"
    BY <1>t, <1>a, <1>q DEF WordInv, AttemptInv, Attempting, ReportsAreTrue
  <1>b. branch' \subseteq Req
    BY <1>t DEF TypeOK, DeleteDenied, Unbranched
  <1>1. CASE Tell(h, "denied")
    <2>1. To("tell", "denied") \in Handlers
      BY <1>q DEF Handlers, Steps, Word, Idle
    <2>2. Allowed(h, To("tell", "denied"), row[q].status, row[q].result, outcome[q])
      BY <1>a, <1>b, <1>q, <1>w, <1>1, <2>1
         DEF Allowed, Says, Attempting, Attempt, Goto, Tell, Move, Finish, Idle, Status, Result
    <2> QED BY <2>2, HandlerStep
  <1> QED BY <1>w, <1>1 DEF DeleteDenied, Unbranched

LEMMA ReplyInv == ASSUME IInv, NEW h \in Handler, Reply(h) PROVE IInv'
  <1> USE Ids DEF At, Finish, Idle, Resting, Reply
  <1> TypeOK /\ DrawnInv /\ AttemptInv /\ WordInv /\ ToldInv /\ ReportsAreTrue
    BY DEF IInv
  <1>1. TypeOK'
    <2>1. told' \subseteq Audience \X Req \X Word
      BY DEF TypeOK, WordInv, Audience, Word
    <2>2. handler' \in [Handler -> [at : {"idle", "respond", "run", "merge", "unbranch", "store",
                                         "error", "clean", "tell"},
                                   id : Req \cup {0}, word : Word]]
      BY DEF TypeOK, Word
    <2> QED BY <2>1, <2>2 DEF TypeOK
  <1>2. DrawnInv'
    BY DEF TypeOK, Status, Result, Word, DrawnInv, WordInv
  <1>3. AttemptInv'
    BY DEF TypeOK, Status, Result, Word, AttemptInv, Attempting, WordInv
  <1>4. WordInv'
    BY DEF TypeOK, Status, Result, Word, WordInv, AttemptInv, Attempting
  <1>5. ToldInv' /\ ReportsAreTrue'
    BY DEF TypeOK, Status, Result, Word, ToldInv, ReportsAreTrue, AttemptInv, Attempting, WordInv
  <1> QED BY <1>1, <1>2, <1>3, <1>4, <1>5 DEF IInv

LEMMA RestartInv == ASSUME IInv, Restart PROVE IInv'
  <1> USE Ids DEF At, Finish, Idle, Resting, Restart
  <1> TypeOK /\ DrawnInv /\ AttemptInv /\ WordInv /\ ToldInv /\ ReportsAreTrue
    BY DEF IInv
  <1>1. TypeOK'
    BY DEF TypeOK, Status, Result, Word
  <1>2. DrawnInv'
    BY DEF TypeOK, Status, Result, Word, DrawnInv
  <1>3. AttemptInv'
    BY DEF TypeOK, Status, Result, Word, AttemptInv, Attempting, WordInv
  <1>4. WordInv'
    BY DEF TypeOK, Status, Result, Word, WordInv, AttemptInv, Attempting
  <1>5. ToldInv' /\ ReportsAreTrue'
    BY DEF TypeOK, Status, Result, Word, ToldInv, ReportsAreTrue, AttemptInv, Attempting, WordInv
  <1> QED BY <1>1, <1>2, <1>3, <1>4, <1>5 DEF IInv

LEMMA NextInv == IInv /\ [Next]_vars => IInv'
  <1> SUFFICES ASSUME IInv, [Next]_vars PROVE IInv'
    OBVIOUS
  <1>1. ASSUME NEW a \in Agent, NEW c \in Call, Block(a, c) \/ EditSite(a, c) PROVE IInv'
    BY <1>1, BlockInv, EditSiteInv
  <1>2. ASSUME NEW a \in Agent, SaveRequest(a) PROVE IInv'
    BY <1>2, SaveRequestInv
  <1>3. ASSUME NEW h \in Handler, NEW q \in Req, NEW word \in {"approved", "denied"}, Load(h, q, word)
        PROVE IInv'
    BY <1>3, LoadInv
  <1>4. ASSUME NEW h \in Handler, Respond(h) \/ RunTool(h) \/ StoreResult(h) \/ StoreError(h) PROVE IInv'
    BY <1>4, RespondInv, RunToolInv, StoreResultInv, StoreErrorInv
  <1>5. ASSUME NEW h \in Handler, MergeBranch(h) \/ DeleteMerged(h) \/ DeleteDenied(h) \/ Reply(h) PROVE IInv'
    BY <1>5, MergeBranchInv, DeleteMergedInv, DeleteDeniedInv, ReplyInv
  <1>6. CASE Restart
    BY <1>6, RestartInv
  <1>7. CASE UNCHANGED vars
    BY <1>7 DEF vars, IInv, TypeOK, DrawnInv, AttemptInv, Attempting, WordInv, ToldInv, ReportsAreTrue
  <1> QED BY <1>1, <1>2, <1>3, <1>4, <1>5, <1>6, <1>7 DEF Next, Answering

-----------------------------------------------------------------------------
(* The theorems                                                            *)

\* Every state an interleaving, a failure or a restart can reach satisfies the
\* inductive invariant: ids are drawn once, one handler attempts a request.
THEOREM Invariance == Spec => []IInv
  BY InitInv, NextInv, PTL DEF Spec

\* The operator's reply and the stored result claim no success that was not
\* answered, and nobody is told of a decision other than the one taken.
THEOREM TruthfulReports == Spec => []ReportsAreTrue
  <1>1. IInv => ReportsAreTrue
    BY DEF IInv
  <1> QED BY <1>1, Invariance, PTL

\* The decision of a request, as Consent sees it.
decision == [q \in Req |-> row[q].status]

LEMMA SameDecision ==
    ASSUME IInv, NEW q \in Req, NEW status, NEW result, row' = [row EXCEPT ![q] = RowTo(q, status, result)]
    PROVE decision' = [decision EXCEPT ![q] = status]
  BY DEF IInv, TypeOK, RowTo, decision

LEMMA InitConsent == Init => Promise!Init
  BY DEF Init, Promise!Init, NoRow

LEMMA SaveConsent ==
    ASSUME IInv, NEW a \in Agent, SaveRequest(a)
    PROVE Promise!Next \/ (UNCHANGED decision /\ UNCHANGED outcome)
  <1> DEFINE q == agent[a].id
  <1>1. q \in Req /\ decision[q] = "none"
    BY Ids DEF IInv, TypeOK, DrawnInv, SaveRequest, decision
  <1>2. CASE UNCHANGED row
    BY <1>2 DEF SaveRequest, decision
  <1>3. CASE row' = [row EXCEPT ![q] = [status |-> "pending", result |-> "none", call |-> agent[a].call]]
    <2>1. decision' = [decision EXCEPT ![q] = "pending"]
      BY <1>1, <1>3 DEF IInv, TypeOK, decision
    <2>2. Promise!Decide(q, "none", "pending")
      BY <1>1, <2>1 DEF Promise!Decide, SaveRequest, decision
    <2> QED BY <1>1, <2>2 DEF Promise!Next
  <1> QED BY <1>2, <1>3 DEF SaveRequest

LEMMA RespondConsent ==
    ASSUME IInv, NEW h \in Handler, Respond(h)
    PROVE Promise!Next \/ (UNCHANGED decision /\ UNCHANGED outcome)
  <1> DEFINE q == handler[h].id
  <1>1. q \in Req /\ handler[h].at # "idle" /\ handler[h].word \in {"approved", "denied"}
    BY DEF IInv, WordInv, Respond, At
  <1>2. CASE UNCHANGED row
    BY <1>2 DEF Respond, decision
  <1>3. CASE row[q].status = "pending" /\ row' = [row EXCEPT ![q].status = handler[h].word]
    <2>1. row' = [row EXCEPT ![q] = RowTo(q, handler[h].word, row[q].result)]
      BY <1>1, <1>3, DecidedForm
    <2>2. decision' = [decision EXCEPT ![q] = handler[h].word]
      BY <1>1, <2>1, SameDecision
    <2>3. CASE handler[h].word = "approved"
      <3>1. Promise!Decide(q, "pending", "approved")
        BY <1>1, <1>3, <2>2, <2>3 DEF Promise!Decide, Respond, decision
      <3> QED BY <1>1, <3>1 DEF Promise!Next
    <2>4. CASE handler[h].word = "denied"
      <3>1. Promise!Decide(q, "pending", "denied")
        BY <1>1, <1>3, <2>2, <2>4 DEF Promise!Decide, Respond, decision
      <3> QED BY <1>1, <3>1 DEF Promise!Next
    <2> QED BY <1>1, <2>3, <2>4
  <1> QED BY <1>2, <1>3 DEF Respond

\* The only handler at "run" or "merge" for a request finds it approved and
\* never attempted.
LEMMA AttemptConsent ==
    ASSUME IInv, NEW h \in Handler, RunTool(h) \/ MergeBranch(h)
    PROVE Promise!Next \/ (UNCHANGED decision /\ UNCHANGED outcome)
  <1> DEFINE q == handler[h].id
  <1>1. Attempting(h) /\ UNCHANGED row
    BY DEF RunTool, MergeBranch, Attempting, At
  <1>2. q \in Req /\ decision[q] = "approved" /\ outcome[q] = "none" /\ UNCHANGED decision
    BY <1>1 DEF IInv, AttemptInv, WordInv, Attempting, decision
  <1>3. UNCHANGED outcome \/ Attempt(h, "success") \/ Attempt(h, "unknown")
    BY DEF RunTool, MergeBranch
  <1> QED BY <1>2, <1>3 DEF Attempt, Promise!Next, Promise!Act, decision

LEMMA StoreConsent ==
    ASSUME IInv, NEW h \in Handler, StoreResult(h) \/ StoreError(h)
    PROVE UNCHANGED decision /\ UNCHANGED outcome
  <1>1. handler[h].at # "idle" /\ UNCHANGED outcome
    BY DEF StoreResult, StoreError, At
  <1>2. handler[h].id \in Req
    BY <1>1 DEF IInv, WordInv
  <1>3. CASE UNCHANGED row
    BY <1>1, <1>3 DEF decision
  <1>4. ASSUME NEW result, Stored(h, result) PROVE UNCHANGED decision
    <2>1. decision' = [decision EXCEPT ![handler[h].id] = row[handler[h].id].status]
      BY <1>1, <1>2, <1>4, StoredForm, SameDecision
    <2> QED BY <1>2, <2>1 DEF decision
  <1>5. UNCHANGED row \/ \E result : Stored(h, result)
    BY DEF StoreResult, StoreError
  <1> QED BY <1>1, <1>3, <1>4, <1>5

LEMMA NextConsent ==
    IInv /\ [Next]_vars => [Promise!Next]_<<decision, outcome>>
  <1> SUFFICES ASSUME IInv, [Next]_vars
               PROVE Promise!Next \/ (UNCHANGED decision /\ UNCHANGED outcome)
    OBVIOUS
  <1>1. ASSUME NEW a \in Agent, SaveRequest(a) PROVE Promise!Next \/ UNCHANGED <<decision, outcome>>
    BY <1>1, SaveConsent
  <1>2. ASSUME NEW h \in Handler, Respond(h) PROVE Promise!Next \/ UNCHANGED <<decision, outcome>>
    BY <1>2, RespondConsent
  <1>3. ASSUME NEW h \in Handler, RunTool(h) \/ MergeBranch(h)
        PROVE Promise!Next \/ UNCHANGED <<decision, outcome>>
    BY <1>3, AttemptConsent
  <1>4. ASSUME NEW h \in Handler, StoreResult(h) \/ StoreError(h) PROVE UNCHANGED <<decision, outcome>>
    BY <1>4, StoreConsent
  <1>5. ASSUME NEW a \in Agent, NEW c \in Call, Block(a, c) \/ EditSite(a, c)
        PROVE UNCHANGED <<decision, outcome>>
    BY <1>5 DEF Block, EditSite, decision
  <1>6. ASSUME NEW h \in Handler, NEW q \in Req, NEW word \in {"approved", "denied"}, Load(h, q, word)
        PROVE UNCHANGED <<decision, outcome>>
    BY <1>6 DEF Load, decision
  <1>7. ASSUME NEW h \in Handler, DeleteMerged(h) \/ DeleteDenied(h) \/ Reply(h)
        PROVE UNCHANGED <<decision, outcome>>
    BY <1>7 DEF DeleteMerged, DeleteDenied, Reply, decision
  <1>8. CASE Restart \/ UNCHANGED vars
    BY <1>8 DEF Restart, vars, decision
  <1> QED BY <1>1, <1>2, <1>3, <1>4, <1>5, <1>6, <1>7, <1>8 DEF Next, Answering

\* Agents propose and wait: a request is decided once, only an approved call is
\* attempted, and only once, whatever overlaps, fails or dies.
THEOREM ConsentKept == Spec => KeepsConsent
  <1>1. Init => Promise!Init
    BY InitConsent
  <1>2. IInv /\ [Next]_vars => [Promise!Next]_<<[q \in Req |-> row[q].status], outcome>>
    BY NextConsent DEF decision
  <1> QED BY <1>1, <1>2, Invariance, PTL DEF Spec, KeepsConsent, Promise!Spec

-----------------------------------------------------------------------------
(* One card per call, and no edit without its branch                       *)

LEMMA Lookups ==
    ASSUME IInv
    PROVE  /\ row \in [Req -> [status : Status, result : Result, call : Call]]
           /\ outcome \in [Req -> {"none", "success", "unknown"}] /\ branch \subseteq Req
           /\ agent \in [Agent -> [at : {"idle", "save"}, id : Req \cup {0}, call : Call]]
           /\ \A h \in Handler : handler[h].at # "idle" => handler[h].id \in Req
           /\ \A a \in Agent : Saving(a) => /\ agent[a].id \in Req /\ agent[a].id \in 1..last
                                            /\ row[agent[a].id].status = "none"
  <1>1. /\ row \in [Req -> [status : Status, result : Result, call : Call]]
        /\ outcome \in [Req -> {"none", "success", "unknown"}] /\ branch \subseteq Req
        /\ agent \in [Agent -> [at : {"idle", "save"}, id : Req \cup {0}, call : Call]]
    BY DEF IInv, TypeOK
  <1>2. \A h \in Handler : handler[h].at # "idle" => handler[h].id \in Req
    BY DEF IInv, WordInv
  <1>3. \A a \in Agent : Saving(a) => /\ agent[a].id \in Req /\ agent[a].id \in 1..last
                                      /\ row[agent[a].id].status = "none"
    BY Ids DEF IInv, DrawnInv, TypeOK, Saving
  <1> QED BY <1>1, <1>2, <1>3

\* A handler moves no row but a pending one, takes nothing back, and removes only
\* the branch of an edit that has been merged or denied.
LEMMA HandlerLeaves ==
    ASSUME IInv, NEW h \in Handler, Answering(h)
    PROVE  /\ agent' = agent
           /\ \A q \in Req :
                /\ row'[q].call = row[q].call
                /\ \/ row'[q].status = row[q].status
                   \/ row[q].status = "pending" /\ row'[q].status \in {"approved", "denied"}
                /\ outcome[q] = "success" => outcome'[q] = "success"
           /\ \A q \in branch : q \in branch' \/ outcome[q] = "success" \/ row[q].status = "denied"
  <1> DEFINE Leaves == /\ agent' = agent
                       /\ \A q \in Req :
                            /\ row'[q].call = row[q].call
                            /\ \/ row'[q].status = row[q].status
                               \/ row[q].status = "pending" /\ row'[q].status \in {"approved", "denied"}
                            /\ outcome[q] = "success" => outcome'[q] = "success"
                       /\ \A q \in branch : q \in branch' \/ outcome[q] = "success" \/ row[q].status = "denied"
  <1> SUFFICES Leaves
    OBVIOUS
  <1>1. ASSUME NEW q \in Req, NEW word \in {"approved", "denied"}, Load(h, q, word) PROVE Leaves
    BY <1>1 DEF Load
  <1>2. CASE Respond(h)
    <2>1. /\ handler[h].at = "respond" /\ handler[h].id \in Req
          /\ handler[h].word \in {"approved", "denied"}
      BY <1>2, Lookups DEF Respond, At, IInv, WordInv
    <2>2. UNCHANGED <<agent, outcome, branch>>
      BY <1>2 DEF Respond
    <2>3. \/ row' = row
          \/ /\ row[handler[h].id].status = "pending"
             /\ row' = [row EXCEPT ![handler[h].id].status = handler[h].word]
      BY <1>2 DEF Respond
    <2> QED BY <2>1, <2>2, <2>3, Lookups
  <1>3. CASE RunTool(h) \/ MergeBranch(h)
    <2>1. /\ handler[h].id \in Req /\ outcome[handler[h].id] = "none"
          /\ UNCHANGED <<agent, row, branch>>
          /\ outcome' = outcome \/ Attempt(h, "success") \/ Attempt(h, "unknown")
      BY <1>3, Lookups DEF RunTool, MergeBranch, At, IInv, AttemptInv, Attempting
    <2> QED BY <2>1, Lookups DEF Attempt
  <1>4. CASE StoreResult(h) \/ StoreError(h)
    <2>1. /\ handler[h].at # "idle" /\ handler[h].id \in Req /\ UNCHANGED <<agent, outcome, branch>>
          /\ row' = row \/ \E result : Stored(h, result)
      BY <1>4, Lookups DEF StoreResult, StoreError, At
    <2>2. ASSUME NEW result, Stored(h, result)
          PROVE  \A q \in Req : row'[q].call = row[q].call /\ row'[q].status = row[q].status
      <3>1. row' = [row EXCEPT ![handler[h].id] = RowTo(handler[h].id, row[handler[h].id].status, result)]
        BY <2>1, <2>2, StoredForm
      <3> QED BY <2>1, <3>1, Lookups DEF RowTo
    <2>3. \A q \in Req : row'[q].call = row[q].call /\ row'[q].status = row[q].status
      BY <2>1, <2>2
    <2> QED BY <2>1, <2>3
  <1>5. CASE DeleteMerged(h)
    <2>1. /\ outcome[handler[h].id] = "success" /\ UNCHANGED <<agent, row, outcome>>
          /\ branch' = branch \/ branch' = branch \ {handler[h].id}
      BY <1>5 DEF DeleteMerged, At, IInv, WordInv, Unbranched
    <2> QED BY <2>1
  <1>6. CASE DeleteDenied(h)
    <2>1. /\ row[handler[h].id].status = "denied" /\ UNCHANGED <<agent, row, outcome>>
          /\ branch' = branch \/ branch' = branch \ {handler[h].id}
      BY <1>6 DEF DeleteDenied, At, IInv, WordInv, Unbranched
    <2> QED BY <2>1
  <1>7. CASE Reply(h)
    BY <1>7 DEF Reply
  <1> HIDE DEF Leaves
  <1> QED BY <1>1, <1>2, <1>3, <1>4, <1>5, <1>6, <1>7 DEF Answering

LEMMA AnsweringRaised ==
    ASSUME RaisedInv, NEW h \in Handler, Answering(h)
    PROVE  CardInv' /\ EditInv'
  <1>1. IInv /\ CardInv /\ EditInv
    BY DEF RaisedInv
  <1>2. /\ agent' = agent
        /\ \A q \in Req :
             /\ row'[q].call = row[q].call
             /\ \/ row'[q].status = row[q].status
                \/ row[q].status = "pending" /\ row'[q].status \in {"approved", "denied"}
             /\ outcome[q] = "success" => outcome'[q] = "success"
        /\ \A q \in branch : q \in branch' \/ outcome[q] = "success" \/ row[q].status = "denied"
    BY <1>1, HandlerLeaves
  <1>3. \A c : Pending(c)' \subseteq Pending(c)
    BY <1>2 DEF Pending
  <1>4. CardInv'
    BY <1>1, <1>2, <1>3 DEF CardInv, Saving
  <1>5. EditsAreKept'
    BY <1>1, <1>2 DEF EditInv, EditsAreKept, IsEdit
  <1>6. ASSUME NEW a \in Agent, Saving(a)', agent'[a].call \in SiteEdit PROVE agent'[a].id \in branch'
    <2>1. agent[a].id \in branch /\ row[agent[a].id].status = "none"
      BY <1>1, <1>2, <1>6, Lookups DEF EditInv, Saving
    <2>2. outcome[agent[a].id] = "none"
      BY <1>1, <1>2, <1>6, <2>1, Lookups DEF IInv, AttemptInv, Saving
    <2> QED BY <1>2, <2>1, <2>2
  <1> QED BY <1>4, <1>5, <1>6 DEF EditInv

\* An agent's call is calm only where nobody else has it in hand.
LEMMA BlockRaised ==
    ASSUME RaisedInv, NEW a \in Agent, NEW c \in Call, Block(a, c)
    PROVE  CardInv' /\ EditInv'
  <1>1. IInv /\ CardInv /\ EditInv
    BY DEF RaisedInv
  <1>2. /\ c \notin SiteEdit /\ UNCHANGED <<row, outcome, branch>>
        /\ c \in Calm => Pending(c) = {} /\ \A b \in Agent : agent[b] # Resting => agent[b].call # c
    BY DEF Block
  <1>3. /\ agent'[a].call = c /\ \A b \in Agent \ {a} : agent'[b] = agent[b]
        /\ \A b \in Agent : Saving(b) => agent[b] # Resting
    BY <1>1, Lookups DEF Block, Saving, Resting
  <1>4. \A d : Pending(d)' = Pending(d)
    BY <1>2 DEF Pending
  <1>5. CardInv'
    <2>1. \A b \in Agent \ {a} : Saving(b)' => Saving(b) /\ agent'[b].call = agent[b].call
      BY <1>3 DEF Saving
    <2>2. \A b \in Agent : Saving(b)' /\ agent'[b].call \in Calm => Pending(agent[b].call)' = {}
      BY <1>1, <1>2, <1>3, <1>4, <2>1 DEF CardInv
    <2>3. \A b, d \in Agent : Saving(b)' /\ Saving(d)' /\ agent'[b].call \in Calm
             /\ agent'[d].call = agent'[b].call => b = d
      BY <1>1, <1>2, <1>3, <2>1 DEF CardInv
    <2> QED BY <1>1, <1>4, <2>2, <2>3 DEF CardInv
  <1>6. EditInv'
    BY <1>1, <1>2, <1>3 DEF EditInv, EditsAreKept, IsEdit, Saving
  <1> QED BY <1>5, <1>6

LEMMA EditSiteRaised ==
    ASSUME RaisedInv, NEW a \in Agent, NEW c \in Call, EditSite(a, c)
    PROVE  CardInv' /\ EditInv'
  <1>1. IInv /\ CardInv /\ EditInv
    BY DEF RaisedInv
  <1>2. /\ c \in SiteEdit /\ c \notin Calm /\ UNCHANGED <<row, outcome>>
        /\ branch' = branch \cup {last + 1}
    BY ApprovalAssumption DEF EditSite
  <1>3. \A b \in Agent : \/ agent'[b] = agent[b]
                         \/ agent'[b].call = c /\ agent'[b].id = last + 1
    BY <1>1, Lookups DEF EditSite
  <1>4. \A d : Pending(d)' = Pending(d)
    BY <1>2 DEF Pending
  <1>5. \A b \in Agent : agent'[b].call \in Calm => agent'[b] = agent[b]
    BY <1>2, <1>3
  <1>6. CardInv'
    BY <1>1, <1>4, <1>5 DEF CardInv, Saving
  <1>7. EditInv'
    BY <1>1, <1>2, <1>3 DEF EditInv, EditsAreKept, IsEdit, Saving
  <1> QED BY <1>6, <1>7

LEMMA SaveRaised ==
    ASSUME RaisedInv, NEW a \in Agent, SaveRequest(a)
    PROVE  CardInv' /\ EditInv'
  <1> DEFINE n == agent[a].id
             c == agent[a].call
  <1>1. IInv /\ CardInv /\ EditInv /\ Saving(a)
    BY DEF RaisedInv, SaveRequest, Saving
  <1>2. n \in Req /\ row[n].status = "none" /\ UNCHANGED <<outcome, branch>>
    BY <1>1, Lookups DEF SaveRequest
  <1>3. /\ \A q \in Req \ {n} : row'[q] = row[q]
        /\ \/ row'[n] = row[n]
           \/ row'[n].status = "pending" /\ row'[n].call = c
    BY <1>1, <1>2, Lookups DEF SaveRequest
  <1>4. /\ ~Saving(a)' /\ \A b \in Agent \ {a} : agent'[b] = agent[b]
    BY <1>1, Lookups DEF SaveRequest, Saving, Resting
  <1>5. \A d : Pending(d)' \subseteq IF d = c THEN Pending(d) \cup {n} ELSE Pending(d)
    BY <1>2, <1>3 DEF Pending
  <1>6. CardInv'
    <2>1. ASSUME NEW d \in Calm, NEW p \in Pending(d)', NEW q \in Pending(d)' PROVE p = q
      <3>1. CASE d = c
        BY <1>1, <1>5, <2>1, <3>1 DEF CardInv
      <3>2. CASE d # c
        BY <1>1, <1>5, <2>1, <3>2 DEF CardInv
      <3> QED BY <3>1, <3>2
    <2>2. ASSUME NEW b \in Agent, Saving(b)', agent'[b].call \in Calm
          PROVE  Pending(agent[b].call)' = {}
      <3>1. b # a /\ agent'[b] = agent[b] /\ Saving(b)
        BY <1>4, <2>2 DEF Saving
      <3>2. agent[b].call # c /\ Pending(agent[b].call) = {}
        BY <1>1, <2>2, <3>1 DEF CardInv
      <3> QED BY <1>5, <3>1, <3>2
    <2>3. ASSUME NEW b \in Agent, NEW d \in Agent, Saving(b)', Saving(d)', agent'[b].call \in Calm,
                 agent'[d].call = agent'[b].call
          PROVE  b = d
      <3>1. agent'[b] = agent[b] /\ agent'[d] = agent[d] /\ Saving(b) /\ Saving(d)
        BY <1>4, <2>3 DEF Saving
      <3> QED BY <1>1, <2>3, <3>1 DEF CardInv
    <2> QED BY <2>1, <2>2, <2>3 DEF CardInv
  <1>7. EditsAreKept'
    <2>1. ASSUME NEW q \in Req, row'[q].status # "none", row'[q].call \in SiteEdit, q \notin branch
          PROVE  outcome[q] = "success" \/ row'[q].status = "denied"
      <3>1. row'[q] = row[q]
        BY <1>1, <1>2, <1>3, <2>1 DEF EditInv
      <3> QED BY <1>1, <2>1, <3>1 DEF EditInv, EditsAreKept, IsEdit
    <2> QED BY <1>2, <2>1 DEF EditsAreKept, IsEdit
  <1>8. ASSUME NEW b \in Agent, Saving(b)', agent'[b].call \in SiteEdit PROVE agent'[b].id \in branch'
    BY <1>1, <1>2, <1>4, <1>8 DEF EditInv, Saving
  <1> QED BY <1>6, <1>7, <1>8 DEF EditInv

LEMMA RaisedNextInv == RaisedInv /\ [Next]_vars => RaisedInv'
  <1> SUFFICES ASSUME RaisedInv, [Next]_vars PROVE CardInv' /\ EditInv'
    BY NextInv DEF RaisedInv
  <1>1. ASSUME NEW a \in Agent, NEW c \in Call, Block(a, c) PROVE CardInv' /\ EditInv'
    BY <1>1, BlockRaised
  <1>2. ASSUME NEW a \in Agent, NEW c \in Call, EditSite(a, c) PROVE CardInv' /\ EditInv'
    BY <1>2, EditSiteRaised
  <1>3. ASSUME NEW a \in Agent, SaveRequest(a) PROVE CardInv' /\ EditInv'
    BY <1>3, SaveRaised
  <1>4. ASSUME NEW h \in Handler, Answering(h) PROVE CardInv' /\ EditInv'
    BY <1>4, AnsweringRaised
  <1>5. CASE UNCHANGED <<row, outcome, branch>> /\ \A a \in Agent : Saving(a)' => agent'[a] = agent[a]
    <2>1. \A c : Pending(c)' = Pending(c)
      BY <1>5 DEF Pending
    <2>2. \A a \in Agent : Saving(a)' => Saving(a) /\ agent'[a] = agent[a]
      BY <1>5 DEF Saving
    <2>3. CardInv'
      BY <2>1, <2>2 DEF RaisedInv, CardInv
    <2> QED BY <1>5, <2>2, <2>3 DEF RaisedInv, EditInv, EditsAreKept, IsEdit
  <1>6. Restart \/ UNCHANGED vars =>
           UNCHANGED <<row, outcome, branch>> /\ \A a \in Agent : Saving(a)' => agent'[a] = agent[a]
    BY DEF Restart, vars, Saving, Resting
  <1> QED BY <1>1, <1>2, <1>3, <1>4, <1>5, <1>6 DEF Next

LEMMA RaisedInitInv == Init => RaisedInv
  <1> SUFFICES ASSUME Init PROVE CardInv /\ EditInv
    BY InitInv DEF RaisedInv
  <1>1. /\ \A q \in Req : row[q].status = "none"
        /\ \A a \in Agent : ~Saving(a)
    BY DEF Init, NoRow, Resting, Saving
  <1>2. \A c : Pending(c) = {}
    BY <1>1 DEF Pending
  <1> QED BY <1>1, <1>2 DEF CardInv, EditInv, EditsAreKept

\* What has been raised stays one card per calm call, and an edit has its branch.
THEOREM RaisedInvariance == Spec => []RaisedInv
  BY RaisedInitInv, RaisedNextInv, PTL DEF Spec

\* However handlers overlap, fail or die, an agent that retries a calm call adds no
\* second pending request of it.
THEOREM NoSecondCard == Spec => []OneCardPerCall
  <1>1. ASSUME RaisedInv, NEW c \in Calm PROVE Cardinality(Pending(c)) <= 1
    <2>1. \A p, q \in Pending(c) : p = q
      BY <1>1 DEF RaisedInv, CardInv
    <2>2. CASE Pending(c) = {}
      BY <2>2, FS_EmptySet
    <2>3. CASE Pending(c) # {}
      <3>1. PICK q \in Pending(c) : Pending(c) = {q}
        BY <2>1, <2>3
      <3> QED BY <3>1, FS_Singleton
    <2> QED BY <2>2, <2>3
  <1>2. RaisedInv => OneCardPerCall
    BY <1>1 DEF OneCardPerCall
  <1> QED BY <1>2, RaisedInvariance, PTL

\* The branch of an edit is there until the edit has been merged or denied.
THEOREM NoLostEdit == Spec => []EditsAreKept
  <1>1. RaisedInv => EditsAreKept
    BY DEF RaisedInv, EditInv
  <1> QED BY <1>1, RaisedInvariance, PTL

=============================================================================
