---------------------------- MODULE Agents_proofs ----------------------------
(***************************************************************************)
(* Proofs about what keeps the agents busy: the daily tuning (TuningSweep) *)
(* and the steward's queue (StewardQueue), for any number of agents,       *)
(* tickets and handlers.                                                   *)
(***************************************************************************)
EXTENDS StewardQueue, TuningSweep, FiniteSetTheorems, SequenceTheorems, TLAPS

-----------------------------------------------------------------------------
(* The tuning: one call at a time is past the lock                         *)

LEMMA SweepInitInv == SweepInit => SweepInv
  <1> SUFFICES ASSUME SweepInit PROVE SweepInv
    OBVIOUS
  <1>1. SweepTypeOK
    BY SweepAssumption DEF SweepInit, SweepTypeOK, CallOK, AtRest, Call, Age, Gate
  <1>2. OneDispatch
    BY DEF SweepInit, OneDispatch, Tuning, AtRest
  <1>3. \A s \in Starter : StillMissing(s, sweep[s]) /\ Rested(s, sweep[s])
    BY DEF SweepInit, StillMissing, Rested, AtRest
  <1> QED BY <1>1, <1>2, <1>3 DEF SweepInv

\* Where a call has the lock the others are at rest, so a step of it keeps SweepInv
\* if it keeps the call's part of it.
LEMMA CallStep ==
    ASSUME SweepInv, NEW s \in Starter, Tuning(s),
           drop' \in Drop, cached' \in Drop \cup {NoDrop}, gate' \in Gate, echoes' \in [Agent -> [Drop -> Age]],
           sweep' \in [Starter -> Call], \A t \in Starter \ {s} : sweep'[t] = sweep[t],
           running' = (sweep'[s].at # "idle"),
           CallOK(sweep[s])', StillMissing(s, sweep[s])', Rested(s, sweep[s])'
    PROVE  SweepInv'
  <1>1. \A t \in Starter \ {s} : sweep[t].at = "idle" /\ CallOK(sweep[t])
    BY DEF SweepInv, OneDispatch, Tuning, SweepTypeOK
  <1>2. \A t \in Starter \ {s} : CallOK(sweep[t])'
    BY <1>1 DEF CallOK
  <1>3. SweepTypeOK'
    BY <1>2 DEF SweepTypeOK
  <1>4. OneDispatch'
    <2>1. \A t \in Starter : sweep'[t].at # "idle" => t = s
      BY <1>1
    <2>2. (\E t \in Starter : sweep'[t].at # "idle") <=> sweep'[s].at # "idle"
      BY <2>1
    <2> QED BY <2>1, <2>2 DEF OneDispatch, Tuning
  <1>5. \A t \in Starter : StillMissing(t, sweep[t])' /\ Rested(t, sweep[t])'
    BY <1>1 DEF StillMissing, Rested
  <1> QED BY <1>3, <1>4, <1>5 DEF SweepInv

LEMMA ProceedStep ==
    ASSUME SweepInv, NEW s \in Starter, Tuning(s), NEW turn \in Call, turn.at # "idle",
           NEW empty \in {"end", "list"}, Proceed(s, turn, empty)
    PROVE  /\ sweep' \in [Starter -> Call]
           /\ \A t \in Starter \ {s} : sweep'[t] = sweep[t]
           /\ running' = (sweep'[s].at # "idle")
           /\ \/ turn.todo # {} /\ sweep'[s] = turn
              \/ turn.todo = {} /\ empty = "end" /\ sweep'[s] = AtRest
              \/ turn.todo = {} /\ empty = "list" /\ sweep'[s] = [turn EXCEPT !.at = "list"]
  <1>1. running = TRUE /\ sweep \in [Starter -> Call]
    BY DEF SweepInv, OneDispatch, SweepTypeOK
  <1>2. AtRest \in Call /\ AtRest.at = "idle"
    BY DEF AtRest, Call
  <1>3. [turn EXCEPT !.at = "list"] \in Call
    BY DEF Call
  <1>4. CASE turn.todo # {}
    BY <1>1, <1>4 DEF Proceed, Becomes
  <1>5. CASE turn.todo = {} /\ empty = "end"
    BY <1>1, <1>2, <1>5 DEF Proceed, Finish, Becomes
  <1>6. CASE turn.todo = {} /\ empty = "list"
    <2>1. sweep' = [sweep EXCEPT ![s] = [turn EXCEPT !.at = "list"]] /\ running' = running
      BY <1>6 DEF Proceed, Becomes
    <2>2. [turn EXCEPT !.at = "list"].at # "idle"
      BY DEF Call
    <2> QED BY <1>1, <1>3, <1>6, <2>1, <2>2
  <1> QED BY <1>4, <1>5, <1>6

LEMMA PublishInv == ASSUME SweepInv, NEW d \in Drop, Publish(d) PROVE SweepInv'
  <1>1. drop' \in Drop /\ UNCHANGED <<cached, echoes, running, sweep, gate>>
    BY DEF Publish
  <1>2. SweepTypeOK' /\ OneDispatch'
    BY <1>1 DEF SweepInv, SweepTypeOK, CallOK, OneDispatch, Tuning
  <1>3. \A s \in Starter : StillMissing(s, sweep[s])' /\ Rested(s, sweep[s])'
    BY <1>1 DEF SweepInv, StillMissing, Rested, RecentlyTuned
  <1> QED BY <1>2, <1>3 DEF SweepInv

\* What opens or shuts a gate moves nothing else.
LEMMA GateInv ==
    ASSUME SweepInv, Clock \/ \E consent \in {"on", "off"} : Decide(consent)
    PROVE  SweepInv'
  <1>1. gate' \in Gate /\ UNCHANGED <<drop, cached, echoes, running, sweep>>
    BY DEF Clock, Decide, SweepInv, SweepTypeOK, Gate
  <1>2. SweepTypeOK' /\ OneDispatch'
    BY <1>1 DEF SweepInv, SweepTypeOK, CallOK, OneDispatch, Tuning
  <1>3. \A s \in Starter : StillMissing(s, sweep[s])' /\ Rested(s, sweep[s])'
    BY <1>1 DEF SweepInv, StillMissing, Rested, RecentlyTuned
  <1> QED BY <1>2, <1>3 DEF SweepInv

\* Echoes that grow older make nobody tuned, or recently tuned.
LEMMA AgesInv ==
    ASSUME SweepInv, NEW a \in Agent, NEW d \in Drop,
           Ages(a, d, "minutes", "hours") \/ Ages(a, d, "hours", "none")
    PROVE  SweepInv'
  <1>1. PICK to \in {"hours", "none"} :
           /\ echoes' = [echoes EXCEPT ![a][d] = to]
           /\ echoes[a][d] \in Live
           /\ UNCHANGED <<drop, cached, running, sweep, gate>>
    BY DEF Ages, Live
  <1>2. echoes' \in [Agent -> [Drop -> Age]]
    BY <1>1 DEF SweepInv, SweepTypeOK, Age
  <1>3. /\ \A b \in Agent, e \in Drop : echoes'[b][e] \in Live => echoes[b][e] \in Live
        /\ \A b \in Agent, e \in Drop : echoes'[b][e] = "minutes" => echoes[b][e] = "minutes"
    BY <1>1 DEF SweepInv, SweepTypeOK
  <1>4. RecentlyTuned' \subseteq RecentlyTuned
    BY <1>3 DEF RecentlyTuned
  <1>5. SweepTypeOK' /\ OneDispatch'
    BY <1>1, <1>2 DEF SweepInv, SweepTypeOK, CallOK, OneDispatch, Tuning
  <1>6. ASSUME NEW s \in Starter PROVE StillMissing(s, sweep[s])' /\ Rested(s, sweep[s])'
    <2>1. sweep[s].at # "idle" => sweep[s].package \in Drop
      BY DEF SweepInv, SweepTypeOK, CallOK, Call
    <2>2. sweep[s].todo \subseteq Agent /\ sweep' = sweep
      BY <1>1 DEF SweepInv, SweepTypeOK, Call
    <2>3. StillMissing(s, sweep[s])'
      BY <1>3, <2>1, <2>2 DEF SweepInv, StillMissing
    <2>4. Rested(s, sweep[s])'
      BY <1>4, <2>2 DEF SweepInv, Rested
    <2> QED BY <2>3, <2>4
  <1> QED BY <1>5, <1>6 DEF SweepInv

\* The call that takes the lock finds it free: nobody else is past it.
LEMMA CheckInv ==
    ASSUME SweepInv, NEW s \in Starter, NEW package \in Drop \cup {NoDrop}, Check(s, package)
    PROVE  SweepInv'
  <1>1. /\ sweep[s].at = "idle" /\ drop' = drop /\ echoes' = echoes /\ gate' = gate
        /\ cached' \in Drop \cup {NoDrop}
    BY DEF Check, Acquire, SweepInv, SweepTypeOK
  <1>2. \A t \in Starter : sweep[t].at = "idle" /\ sweep[t] = AtRest
    BY DEF Check, SweepInv, OneDispatch, Tuning, SweepTypeOK, CallOK
  <1> DEFINE taken == [AtRest EXCEPT !.at = "tuned", !.package = package]
  <1>3. \/ sweep' = [sweep EXCEPT ![s] = AtRest] /\ running' = running
        \/ sweep' = [sweep EXCEPT ![s] = taken] /\ running' = TRUE /\ package \in Drop
    BY DEF Check, Acquire, Becomes
  <1>4. /\ AtRest \in Call /\ CallOK(AtRest) /\ AtRest.at = "idle"
        /\ package \in Drop => taken \in Call /\ CallOK(taken) /\ taken.at = "tuned"
    BY SweepAssumption DEF AtRest, Call, CallOK
  <1> HIDE DEF taken
  <1>5. /\ \A t \in Starter \ {s} : sweep'[t] = sweep[t]
        /\ sweep' \in [Starter -> Call]
        /\ \/ sweep'[s] = AtRest /\ running' = FALSE
           \/ sweep'[s] = taken /\ package \in Drop /\ running' = TRUE
    BY <1>2, <1>3, <1>4 DEF Check, SweepInv, SweepTypeOK
  <1>6. SweepTypeOK'
    <2>1. \A t \in Starter : CallOK(sweep'[t])
      BY <1>2, <1>4, <1>5
    <2>2. \A t \in Starter : CallOK(sweep[t])'
      BY <2>1 DEF CallOK
    <2> QED BY <1>1, <1>5, <2>2 DEF SweepInv, SweepTypeOK
  <1>7. OneDispatch'
    BY <1>2, <1>4, <1>5 DEF OneDispatch, Tuning
  <1>8. \A t \in Starter : sweep'[t].at \in {"idle", "tuned"}
    BY <1>2, <1>4, <1>5
  <1>9. \A t \in Starter : StillMissing(t, sweep[t])' /\ Rested(t, sweep[t])'
    BY <1>8 DEF StillMissing, Rested
  <1> QED BY <1>6, <1>7, <1>9 DEF SweepInv

LEMMA RestOK == /\ AtRest \in Call /\ AtRest.at = "idle" /\ CallOK(AtRest)
                /\ \A s : StillMissing(s, AtRest) /\ Rested(s, AtRest)
  BY SweepAssumption DEF AtRest, Call, CallOK, StillMissing, Rested

\* The next phase of a call, or its end, where no echo is stored.
LEMMA PhaseInv ==
    ASSUME SweepInv, NEW s \in Starter, Tuning(s), NEW turn \in Call, turn.at # "idle",
           NEW empty \in {"end", "list"}, Proceed(s, turn, empty), UNCHANGED <<drop, cached, echoes, gate>>,
           turn.todo # {} => CallOK(turn) /\ StillMissing(s, turn) /\ Rested(s, turn),
           empty = "list" => /\ turn.package # NoDrop /\ turn.agent = NoAgent
                             /\ s # "route" => RecentlyTuned \cap Presence \subseteq turn.recent
    PROVE  SweepInv'
  <1> DEFINE listing == [turn EXCEPT !.at = "list"]
  <1>1. /\ sweep' \in [Starter -> Call]
        /\ \A t \in Starter \ {s} : sweep'[t] = sweep[t]
        /\ running' = (sweep'[s].at # "idle")
        /\ \/ turn.todo # {} /\ sweep'[s] = turn
           \/ turn.todo = {} /\ empty = "end" /\ sweep'[s] = AtRest
           \/ turn.todo = {} /\ empty = "list" /\ sweep'[s] = listing
    BY ProceedStep
  <1>2. empty = "list" /\ turn.todo = {}
           => CallOK(listing) /\ StillMissing(s, listing) /\ Rested(s, listing)
    BY DEF CallOK, StillMissing, Rested, Call
  <1> HIDE DEF listing
  <1>3. CallOK(sweep'[s]) /\ StillMissing(s, sweep'[s]) /\ Rested(s, sweep'[s])
    BY <1>1, <1>2, RestOK
  <1>4. CallOK(sweep[s])' /\ StillMissing(s, sweep[s])' /\ Rested(s, sweep[s])'
    BY <1>3 DEF CallOK, StillMissing, Rested, RecentlyTuned
  <1> QED BY <1>1, <1>4, CallStep DEF SweepInv, SweepTypeOK

\* What a call under way is like.
LEMMA CallFacts ==
    ASSUME SweepInv, NEW s \in Starter
    PROVE  /\ sweep[s] \in Call /\ CallOK(sweep[s])
           /\ StillMissing(s, sweep[s]) /\ Rested(s, sweep[s])
           /\ Team \subseteq Agent /\ Presence \subseteq Agent
  BY DEF SweepInv, SweepTypeOK, Agent

LEMMA ReadTunedInv == ASSUME SweepInv, NEW s \in Starter, ReadTuned(s) PROVE SweepInv'
  <1> DEFINE done == IF s = "force" THEN {} ELSE TunedFor(sweep[s].package)
             routed == [sweep[s] EXCEPT !.at = "dispatch", !.todo = Team \ (done \cup {Steward})]
             swept == [sweep[s] EXCEPT !.at = "recent", !.todo = Team \ done]
  <1>1. /\ sweep[s].at = "tuned" /\ UNCHANGED <<drop, cached, echoes, gate>> /\ Tuning(s)
    BY DEF ReadTuned, Tuning
  <1>2. /\ sweep[s].agent = NoAgent /\ sweep[s].package # NoDrop
    BY <1>1, CallFacts DEF CallOK
  <1>3. \A a \in Team \ done : s # "force" => echoes[a][sweep[s].package] \notin Live
    BY <1>2 DEF TunedFor, Agent
  <1>4. CASE s = "route"
    <2>1. Proceed(s, routed, "end")
      BY <1>4 DEF ReadTuned
    <2>2. /\ routed \in Call /\ routed.at = "dispatch" /\ routed.package = sweep[s].package
          /\ routed.agent = NoAgent /\ routed.todo \subseteq Team \ done
      BY <1>2, CallFacts DEF Call
    <2> HIDE DEF routed, done
    <2>3. routed.todo # {} => CallOK(routed) /\ StillMissing(s, routed) /\ Rested(s, routed)
      BY <1>2, <1>3, <1>4, <2>2 DEF CallOK, StillMissing, Rested
    <2> QED BY <1>1, <2>1, <2>2, <2>3, PhaseInv
  <1>5. CASE s # "route"
    <2>1. Becomes(s, swept) /\ running' = running
      BY <1>5 DEF ReadTuned
    <2>2. /\ swept \in Call /\ swept.at = "recent" /\ swept.package = sweep[s].package
          /\ swept.agent = NoAgent /\ swept.todo = Team \ done
      BY <1>2, CallFacts DEF Call
    <2> HIDE DEF swept, done
    <2>3. CallOK(swept) /\ StillMissing(s, swept) /\ Rested(s, swept)
      BY <1>2, <1>3, <2>2 DEF CallOK, StillMissing, Rested
    <2>4. /\ sweep' \in [Starter -> Call] /\ sweep'[s] = swept
          /\ \A t \in Starter \ {s} : sweep'[t] = sweep[t]
      BY <2>1, <2>2 DEF Becomes, SweepInv, SweepTypeOK
    <2>5. running' = (sweep'[s].at # "idle")
      BY <1>1, <2>1, <2>2, <2>4 DEF SweepInv, OneDispatch
    <2>6. CallOK(sweep[s])' /\ StillMissing(s, sweep[s])' /\ Rested(s, sweep[s])'
      BY <1>1, <2>3, <2>4 DEF CallOK, StillMissing, Rested, RecentlyTuned
    <2> QED BY <1>1, <2>4, <2>5, <2>6, CallStep DEF SweepInv, SweepTypeOK
  <1> QED BY <1>4, <1>5

LEMMA ReadRecentInv == ASSUME SweepInv, NEW s \in Starter, ReadRecent(s) PROVE SweepInv'
  <1> DEFINE turn == [sweep[s] EXCEPT !.at = "dispatch", !.recent = RecentlyTuned,
                                      !.todo = sweep[s].todo \ RecentlyTuned]
  <1>1. /\ sweep[s].at = "recent" /\ UNCHANGED <<drop, cached, echoes, gate>> /\ Tuning(s)
        /\ Proceed(s, turn, "list")
    BY DEF ReadRecent, Tuning
  <1>2. /\ sweep[s].agent = NoAgent /\ sweep[s].package # NoDrop /\ sweep[s].todo \subseteq Team
    BY <1>1, CallFacts DEF CallOK
  <1>3. /\ turn \in Call /\ turn.at = "dispatch" /\ turn.package = sweep[s].package
        /\ turn.agent = NoAgent /\ turn.todo = sweep[s].todo \ RecentlyTuned
        /\ turn.recent = RecentlyTuned
    BY <1>2, CallFacts DEF Call, RecentlyTuned
  <1> HIDE DEF turn
  <1>4. CallOK(turn) \/ turn.todo = {}
    BY <1>2, <1>3 DEF CallOK
  <1>5. StillMissing(s, turn) /\ Rested(s, turn)
    BY <1>1, <1>2, <1>3, CallFacts DEF StillMissing, Rested
  <1> QED BY <1>1, <1>2, <1>3, <1>4, <1>5, PhaseInv

LEMMA ReadFailsInv == ASSUME SweepInv, NEW s \in Starter, ReadFails(s) PROVE SweepInv'
  <1>1. /\ UNCHANGED <<drop, cached, echoes, gate>> /\ Tuning(s)
        /\ sweep' = [sweep EXCEPT ![s] = AtRest] /\ running' = FALSE
    BY DEF ReadFails, Tuning, Finish, Becomes
  <1>2. /\ sweep' \in [Starter -> Call] /\ sweep'[s] = AtRest
        /\ \A t \in Starter \ {s} : sweep'[t] = sweep[t]
    BY <1>1, RestOK DEF SweepInv, SweepTypeOK
  <1>3. CallOK(sweep[s])' /\ StillMissing(s, sweep[s])' /\ Rested(s, sweep[s])'
    BY <1>2, RestOK DEF CallOK, StillMissing, Rested
  <1>4. running' = (sweep'[s].at # "idle")
    BY <1>1, <1>2, RestOK
  <1> QED BY <1>1, <1>2, <1>3, <1>4, CallStep DEF SweepInv, SweepTypeOK

LEMMA DispatchInv ==
    ASSUME SweepInv, NEW s \in Starter, Dispatch(s) PROVE SweepInv'
  <1>0. PICK done \in SUBSET Agent :
           Proceed(s, [sweep[s] EXCEPT !.at = "team", !.todo = sweep[s].todo \ done], AfterTeam(s))
    BY DEF Dispatch, TunedFor
  <1> DEFINE turn == [sweep[s] EXCEPT !.at = "team", !.todo = sweep[s].todo \ done]
  <1>1. /\ sweep[s].at = "dispatch" /\ UNCHANGED <<drop, cached, echoes, gate>> /\ Tuning(s)
        /\ Proceed(s, turn, AfterTeam(s))
    BY <1>0 DEF Dispatch, Tuning
  <1>2. /\ sweep[s].agent = NoAgent /\ sweep[s].package # NoDrop /\ sweep[s].todo \subseteq Team
    BY <1>1, CallFacts DEF CallOK
  <1>3. /\ turn \in Call /\ turn.at = "team" /\ turn.package = sweep[s].package
        /\ turn.agent = NoAgent /\ turn.todo = sweep[s].todo \ done
        /\ turn.recent = sweep[s].recent
    BY <1>2, CallFacts DEF Call
  <1>4. AfterTeam(s) \in {"end", "list"}
    BY DEF AfterTeam
  <1> HIDE DEF turn
  <1>5. CallOK(turn) \/ turn.todo = {}
    BY <1>2, <1>3 DEF CallOK
  <1>6. StillMissing(s, turn) /\ Rested(s, turn)
    BY <1>1, <1>2, <1>3, CallFacts DEF StillMissing, Rested
  <1>7. s # "route" => RecentlyTuned \cap Presence \subseteq turn.recent
    BY <1>3, <1>6 DEF Rested
  <1> QED BY <1>1, <1>2, <1>3, <1>4, <1>5, <1>6, <1>7, PhaseInv

LEMMA ListPresencesInv ==
    ASSUME SweepInv, NEW s \in Starter, NEW listed \in SUBSET Presence, NEW done \in SUBSET Agent,
           ListPresences(s, listed, done)
    PROVE  SweepInv'
  <1> DEFINE turn == [sweep[s] EXCEPT !.at = "presence",
                                      !.todo = (listed \ sweep[s].recent) \ done]
  <1>1. /\ sweep[s].at = "list" /\ UNCHANGED <<drop, cached, echoes, gate>> /\ Tuning(s)
        /\ Proceed(s, turn, "end")
    BY DEF ListPresences, Tuning
  <1>2. /\ sweep[s].agent = NoAgent /\ sweep[s].package # NoDrop
    BY <1>1, CallFacts DEF CallOK
  <1>3. /\ turn \in Call /\ turn.at = "presence" /\ turn.package = sweep[s].package
        /\ turn.agent = NoAgent /\ turn.todo = (listed \ sweep[s].recent) \ done
        /\ turn.recent = sweep[s].recent
    BY <1>2, CallFacts DEF Call
  <1> HIDE DEF turn
  <1>4. CallOK(turn) \/ turn.todo = {}
    BY <1>2, <1>3 DEF CallOK
  <1>5. StillMissing(s, turn) /\ Rested(s, turn)
    BY <1>1, <1>3, CallFacts DEF StillMissing, Rested
  <1> QED BY <1>1, <1>3, <1>4, <1>5, PhaseInv

LEMMA StartTuneInv ==
    ASSUME SweepInv, NEW s \in Starter, NEW a \in Agent, StartTune(s, a) PROVE SweepInv'
  <1> DEFINE turn == [sweep[s] EXCEPT !.agent = a]
  <1>1. /\ sweep[s].at \in {"team", "presence"} /\ a \in sweep[s].todo /\ Tuning(s)
        /\ UNCHANGED <<drop, cached, echoes, running, gate>>
        /\ sweep' = [sweep EXCEPT ![s] = turn]
    BY DEF StartTune, Tuning, Becomes
  <1>2. turn \in Call /\ CallOK(turn) /\ turn.at # "idle"
    BY <1>1, CallFacts DEF Call, CallOK
  <1>3. /\ turn.at = sweep[s].at /\ turn.todo = sweep[s].todo /\ turn.package = sweep[s].package
        /\ turn.recent = sweep[s].recent
    BY CallFacts DEF Call
  <1> HIDE DEF turn
  <1>4. StillMissing(s, turn) /\ Rested(s, turn)
    BY <1>3, CallFacts DEF StillMissing, Rested
  <1>5. /\ sweep' \in [Starter -> Call] /\ sweep'[s] = turn
        /\ \A t \in Starter \ {s} : sweep'[t] = sweep[t]
    BY <1>1, <1>2 DEF SweepInv, SweepTypeOK
  <1>6. CallOK(sweep[s])' /\ StillMissing(s, sweep[s])' /\ Rested(s, sweep[s])'
    BY <1>1, <1>2, <1>4, <1>5 DEF CallOK, StillMissing, Rested, RecentlyTuned
  <1>7. running' = (sweep'[s].at # "idle")
    BY <1>1, <1>2, <1>5 DEF SweepInv, OneDispatch
  <1> QED BY <1>1, <1>5, <1>6, <1>7, CallStep DEF SweepInv, SweepTypeOK

\* The loop's next turn, whatever came of this one.
LEMMA TunedTurn ==
    ASSUME SweepInv, NEW s \in Starter, sweep[s].agent # NoAgent, Tuned(s)
    PROVE  \E turn \in Call, empty \in {"end", "list"} :
             /\ Proceed(s, turn, empty)
             /\ turn = [sweep[s] EXCEPT !.agent = NoAgent, !.todo = sweep[s].todo \ {sweep[s].agent}]
             /\ sweep[s].at \in {"team", "presence"}
             /\ turn.at = sweep[s].at /\ turn.package = sweep[s].package /\ turn.agent = NoAgent
             /\ turn.recent = sweep[s].recent
             /\ turn.todo = sweep[s].todo \ {sweep[s].agent}
             /\ empty = "list" => turn.at = "team"
             /\ turn.todo # {} => CallOK(turn)
  <1> DEFINE turn == [sweep[s] EXCEPT !.agent = NoAgent, !.todo = sweep[s].todo \ {sweep[s].agent}]
             empty == IF turn.at = "team" THEN AfterTeam(s) ELSE "end"
  <1>1. Proceed(s, turn, empty)
    BY DEF Tuned
  <1>2. empty \in {"end", "list"} /\ (empty = "list" => turn.at = "team")
    BY DEF AfterTeam
  <1>3. turn \in Call /\ sweep[s].at \in {"team", "presence"}
    BY CallFacts DEF Call, CallOK
  <1>4. /\ turn.at = sweep[s].at /\ turn.package = sweep[s].package /\ turn.agent = NoAgent
        /\ turn.recent = sweep[s].recent /\ turn.todo = sweep[s].todo \ {sweep[s].agent}
    BY CallFacts DEF Call
  <1>5. turn.todo # {} => CallOK(turn)
    BY <1>3, <1>4, CallFacts DEF CallOK
  <1> QED BY <1>1, <1>2, <1>3, <1>4, <1>5

LEMMA TuneFailsInv == ASSUME SweepInv, NEW s \in Starter, TuneFails(s) PROVE SweepInv'
  <1>1. PICK turn \in Call, empty \in {"end", "list"} :
             /\ Proceed(s, turn, empty)
             /\ sweep[s].at \in {"team", "presence"}
             /\ turn.at = sweep[s].at /\ turn.package = sweep[s].package /\ turn.agent = NoAgent
             /\ turn.recent = sweep[s].recent
             /\ turn.todo = sweep[s].todo \ {sweep[s].agent}
             /\ empty = "list" => turn.at = "team"
             /\ turn.todo # {} => CallOK(turn)
    BY TunedTurn DEF TuneFails
  <1>2. UNCHANGED <<drop, cached, echoes, gate>> /\ Tuning(s)
    BY <1>1 DEF TuneFails, Tuning
  <1>3. StillMissing(s, turn) /\ Rested(s, turn)
    BY <1>1, CallFacts DEF StillMissing, Rested
  <1>4. empty = "list" => /\ turn.package # NoDrop
                          /\ s # "route" => RecentlyTuned \cap Presence \subseteq turn.recent
    BY <1>1, <1>3, CallFacts DEF CallOK, Rested
  <1> QED BY <1>1, <1>2, <1>3, <1>4, PhaseInv

\* The agent that tunes is left to nobody: it drops out of the only call that has
\* the lock, and no other agent's echoes change.
LEMMA StoreEchoInv ==
    ASSUME SweepInv, NEW s \in Starter, NEW a \in Agent, StoreEcho(s, a) PROVE SweepInv'
  <1>0. /\ sweep[s].agent = a /\ sweep[s].agent # NoAgent /\ drop' = drop /\ cached' = cached
        /\ gate' \in Gate
    BY SweepAssumption DEF StoreEcho, Agent, SweepInv, SweepTypeOK, Gate
  <1>1. PICK turn \in Call, empty \in {"end", "list"} :
             /\ Proceed(s, turn, empty)
             /\ sweep[s].at \in {"team", "presence"}
             /\ turn.at = sweep[s].at /\ turn.package = sweep[s].package /\ turn.agent = NoAgent
             /\ turn.recent = sweep[s].recent
             /\ turn.todo = sweep[s].todo \ {a}
             /\ empty = "list" => turn.at = "team"
             /\ turn.todo # {} => CallOK(turn)
    BY <1>0, TunedTurn DEF StoreEcho
  <1>2. /\ Tuning(s) /\ a \in sweep[s].todo /\ sweep[s].package \in Drop
        /\ sweep[s].at = "team" => sweep[s].todo \subseteq Team /\ a \notin Presence
    BY <1>0, <1>1, CallFacts, SweepAssumption DEF CallOK, Call, Tuning
  <1>3. /\ echoes' = [echoes EXCEPT ![a][sweep[s].package] = "minutes"]
        /\ echoes' \in [Agent -> [Drop -> Age]]
    BY <1>2 DEF StoreEcho, SweepInv, SweepTypeOK, Age
  <1>4. /\ \A b \in Agent \ {a} : echoes'[b] = echoes[b]
        /\ RecentlyTuned' \subseteq RecentlyTuned \cup {a}
    BY <1>3 DEF RecentlyTuned, SweepInv, SweepTypeOK
  <1> DEFINE listing == [turn EXCEPT !.at = "list"]
  <1>5. /\ sweep' \in [Starter -> Call]
        /\ \A t \in Starter \ {s} : sweep'[t] = sweep[t]
        /\ running' = (sweep'[s].at # "idle")
        /\ \/ turn.todo # {} /\ sweep'[s] = turn
           \/ turn.todo = {} /\ empty = "end" /\ sweep'[s] = AtRest
           \/ turn.todo = {} /\ empty = "list" /\ sweep'[s] = listing
    BY <1>1, <1>2, ProceedStep
  <1>6. /\ listing.at = "list" /\ listing.recent = turn.recent /\ listing.todo = turn.todo
        /\ listing.package = turn.package /\ listing.agent = turn.agent
    BY DEF Call
  <1>7. CallOK(sweep[s])'
    <2>1. turn.todo = {} => CallOK(listing)
      BY <1>1, <1>2, <1>6, SweepAssumption DEF CallOK
    <2>2. CallOK(sweep'[s])
      BY <1>1, <1>5, <2>1, RestOK
    <2> QED BY <2>2 DEF CallOK
  <1> HIDE DEF listing
  <1>8. turn.todo \subseteq Agent \ {a}
    BY <1>1, CallFacts DEF Call
  <1>9. StillMissing(s, sweep[s])'
    BY <1>1, <1>4, <1>5, <1>6, <1>8, RestOK, CallFacts DEF StillMissing
  <1>10. Rested(s, sweep[s])'
    BY <1>1, <1>2, <1>4, <1>5, <1>6, <1>8, RestOK, CallFacts DEF Rested
  <1> QED BY <1>0, <1>2, <1>3, <1>5, <1>7, <1>9, <1>10, CallStep DEF SweepInv, SweepTypeOK

LEMMA SweepStepInv == ASSUME SweepInv, NEW s \in Starter, Step(s) PROVE SweepInv'
  <1>1. CASE ReadTuned(s)
    BY <1>1, ReadTunedInv
  <1>2. CASE ReadRecent(s)
    BY <1>2, ReadRecentInv
  <1>3. CASE ReadFails(s)
    BY <1>3, ReadFailsInv
  <1>4. CASE Dispatch(s)
    BY <1>4, DispatchInv
  <1>5. ASSUME NEW done \in SUBSET Agent, NEW listed \in SUBSET Presence, ListPresences(s, listed, done)
        PROVE  SweepInv'
    BY <1>5, ListPresencesInv
  <1>6. ASSUME NEW a \in Agent, StartTune(s, a) PROVE SweepInv'
    BY <1>6, StartTuneInv
  <1>7. ASSUME NEW a \in Agent, StoreEcho(s, a) PROVE SweepInv'
    BY <1>7, StoreEchoInv
  <1>8. CASE TuneFails(s)
    BY <1>8, TuneFailsInv
  <1>9. TunedFor(sweep[s].package) \in SUBSET Agent
    BY DEF TunedFor
  <1> QED BY <1>1, <1>2, <1>3, <1>4, <1>5, <1>6, <1>7, <1>8, <1>9 DEF Step

LEMMA SweepNextInv == ASSUME SweepInv, [SweepNext]_sweepVars PROVE SweepInv'
  <1>1. CASE UNCHANGED sweepVars
    <2>1. UNCHANGED <<drop, cached, echoes, running, sweep, gate>>
      BY <1>1 DEF sweepVars
    <2>2. SweepTypeOK'
      BY <2>1 DEF SweepInv, SweepTypeOK, CallOK
    <2>3. OneDispatch'
      BY <2>1 DEF SweepInv, OneDispatch, Tuning
    <2>4. \A s \in Starter : StillMissing(s, sweep[s])' /\ Rested(s, sweep[s])'
      BY <2>1 DEF SweepInv, StillMissing, Rested, RecentlyTuned
    <2> QED BY <2>2, <2>3, <2>4 DEF SweepInv
  <1>2. ASSUME NEW d \in Drop, Publish(d) PROVE SweepInv'
    BY <1>2, PublishInv
  <1>3. ASSUME NEW a \in Agent, NEW d \in Drop,
               Ages(a, d, "minutes", "hours") \/ Ages(a, d, "hours", "none")
        PROVE  SweepInv'
    BY <1>3, AgesInv
  <1>4. ASSUME NEW s \in Starter, NEW package \in Drop \cup {NoDrop}, Check(s, package)
        PROVE  SweepInv'
    BY <1>4, CheckInv
  <1>5. ASSUME NEW s \in Starter, Step(s) PROVE SweepInv'
    BY <1>5, SweepStepInv
  <1>6. CASE Clock \/ \E consent \in {"on", "off"} : Decide(consent)
    BY <1>6, GateInv
  <1> QED BY <1>1, <1>2, <1>3, <1>4, <1>5, <1>6 DEF SweepNext

THEOREM SweepInvariance == SweepSpec => []SweepInv
  <1>1. SweepInv /\ [SweepNext]_sweepVars => SweepInv'
    BY SweepNextInv
  <1> QED BY <1>1, SweepInitInv, PTL DEF SweepSpec

\* However many calls are started, one dispatches at a time, and the flag says so.
THEOREM MutualExclusion == SweepSpec => []OneDispatch
  <1>1. SweepInv => OneDispatch
    BY DEF SweepInv
  <1> QED BY <1>1, SweepInvariance, PTL

\* No unforced call tunes an agent of the team to a Drop it tuned to today.
THEOREM NoSecondTuning == SweepSpec => TeamTunesOnce
  <1>1. ASSUME SweepInv, NEW s \in Starter, NEW a \in Team, StoreEcho(s, a), s # "force"
        PROVE  echoes[a][sweep[s].package] \notin Live
    <2>1. sweep[s].agent = a /\ a # NoAgent /\ a \notin Presence
      BY <1>1, SweepAssumption DEF StoreEcho
    <2>2. a \in sweep[s].todo /\ sweep[s].at = "team"
      BY <2>1, CallFacts, <1>1 DEF CallOK
    <2> QED BY <1>1, <2>2, CallFacts DEF StillMissing
  <1>2. SweepInv => [\A s \in Starter, a \in Team : StoreEcho(s, a) /\ s # "force"
                        => echoes[a][sweep[s].package] \notin Live]_sweepVars
    BY <1>1
  <1> QED BY <1>2, SweepInvariance, PTL DEF TeamTunesOnce

\* No sweep tunes an agent within twenty minutes of its last tuning.
THEOREM Cooldown == SweepSpec => CooldownKept
  <1>1. ASSUME SweepInv, NEW s \in Starter, NEW a \in Agent, StoreEcho(s, a), s # "route"
        PROVE  a \notin RecentlyTuned
    <2>1. sweep[s].agent = a /\ a # NoAgent
      BY <1>1, SweepAssumption DEF StoreEcho, Agent
    <2>2. a \in sweep[s].todo /\ sweep[s].at \in {"team", "presence"}
      BY <2>1, CallFacts, <1>1 DEF CallOK
    <2> QED BY <1>1, <2>2, CallFacts DEF Rested
  <1>2. SweepInv => [\A s \in Starter, a \in Agent : StoreEcho(s, a) /\ s # "route"
                        => a \notin RecentlyTuned]_sweepVars
    BY <1>1
  <1> QED BY <1>2, SweepInvariance, PTL DEF CooldownKept

-----------------------------------------------------------------------------
(* The queue: its ids, its sentinels and its calls                         *)

LEMMA Ids == /\ Cardinality(RowId) \in Nat /\ RowId = 1..Cardinality(RowId)
             /\ RowId \subseteq Nat
             /\ \A n \in RowId \cup {0} : n \in Nat /\ 1..n \subseteq RowId
  <1>1. Cardinality(RowId) \in Nat /\ RowId = 1..Cardinality(RowId)
    BY QueueAssumption, FS_CardinalityType
  <1>2. RowId \subseteq Nat
    BY <1>1
  <1>3. \A n \in RowId \cup {0} : n \in Nat /\ 1..n \subseteq RowId
    BY <1>1, <1>2
  <1> QED BY <1>1, <1>2, <1>3

LEMMA AtMostOne == ASSUME NEW S, \A x, y \in S : x = y PROVE Cardinality(S) <= 1
  <1>1. CASE S = {}
    BY <1>1, FS_EmptySet
  <1>2. CASE S # {}
    <2>1. PICK x \in S : S = {x}
      BY <1>2
    <2> QED BY <2>1, FS_Singleton
  <1> QED BY <1>1, <1>2

\* The notes, the statuses and the missing values are told apart.
LEMMA Sentinels ==
    /\ \A r \in Row : r # NoRow
    /\ \A w \in Words, n \in Number : w # Merged(n)
    /\ \A m, n \in Number : Merged(m) = Merged(n) => m = n
    /\ \A n \in Number : Merged(n) \in Text
    /\ Words \subseteq Text /\ Keep \notin Seq(Text) /\ Keep \notin Status
    /\ Keep \notin PR \cup {NoPR} /\ Keep \notin Words
  <1>1. \A r \in Row : r # NoRow
    <2>1. \A r \in Row : r.source \in Source
      BY DEF Row
    <2>2. NoRow.source = "none"
      BY DEF NoRow
    <2> QED BY <2>1, <2>2, QueueAssumption
  <1>2. /\ \A w \in Words, n \in Number : w # Merged(n)
        /\ \A n \in Number : Merged(n) \in Text
        /\ Words \subseteq Text
    BY QueueAssumption DEF Text
  <1>3. \A m, n \in Number : Merged(m) = Merged(n) => m = n
    BY DEF Merged
  <1>4. /\ Keep \notin Seq(Text) /\ Keep \notin Status
        /\ Keep \notin PR \cup {NoPR} /\ Keep \notin Words
    BY QueueAssumption DEF Text
  <1> QED BY <1>1, <1>2, <1>3, <1>4

\* What a call is, by what it is at.
LEMMA Kinds ==
    ASSUME NEW k \in CallType
    PROVE  \/ k = Idle /\ k.at = "idle"
           \/ /\ k.at = "write" /\ k.id \in RowId /\ k.status \in Status \cup {Keep}
              /\ k.pr \in PR \cup {NoPR, Keep} /\ k.notes \in Seq(Text) \cup {Keep}
              /\ k.tool \in BOOLEAN /\ k.todo \subseteq RowId \X Number
           \/ k.at = "insert" /\ k.source \in Source /\ k.status \in {"queued", "assigned"}
           \/ k.at = "ask" /\ k.seen \subseteq RowId \X PR \X Seq(Text)
           \/ k.at = "annotate" /\ k.todo \subseteq RowId \X Number
  BY DEF CallType, Idle

LEMMA RowsOfKinds ==
    ASSUME NEW k \in CallType
    PROVE  /\ k.at = "idle" => RowsOf(k) = {}
           /\ k.at = "insert" => RowsOf(k) = {}
           /\ k.at = "write" => RowsOf(k) = {k.id} \cup {x[1] : x \in k.todo}
           /\ k.at = "ask" => RowsOf(k) = {s[1] : s \in k.seen}
           /\ k.at = "annotate" => RowsOf(k) = {x[1] : x \in k.todo}
           /\ RowsOf(k) \subseteq RowId
  <1>1. /\ k.at = "idle" => RowsOf(k) = {}
        /\ k.at = "insert" => RowsOf(k) = {}
        /\ k.at = "write" => RowsOf(k) = {k.id} \cup {x[1] : x \in k.todo}
        /\ k.at = "ask" => RowsOf(k) = {s[1] : s \in k.seen}
        /\ k.at = "annotate" => RowsOf(k) = {x[1] : x \in k.todo}
    BY DEF RowsOf
  <1>2. RowsOf(k) \subseteq RowId
    BY <1>1, Kinds
  <1> QED BY <1>1, <1>2

\* The tickets in hand are those of the rows that were read.
LEMMA Hands ==
    ASSUME NEW k \in CallType
    PROVE  /\ \A i \in RowsOf(k) : IsRow(i) => rows[i].source \in InHand(k)
           /\ k.at = "insert" => k.source \in InHand(k)
           /\ \A s \in InHand(k) : \/ k.at = "insert" /\ s = k.source
                                   \/ \E i \in RowsOf(k) : IsRow(i) /\ s = rows[i].source
  BY DEF InHand, SourcesOf

LEMMA TypedRows ==
    ASSUME TypeOK, NEW i \in RowId, IsRow(i)
    PROVE  /\ rows[i] \in Row /\ rows[i].source \in Source /\ rows[i].status \in Status
           /\ rows[i].pr \in PR \cup {NoPR} /\ rows[i].notes \in Seq(Text)
  BY DEF TypeOK, IsRow, Row

-----------------------------------------------------------------------------
(* The queue's notes: the latest ones, the new one last                    *)

LEMMA LatestNotes ==
    ASSUME NEW notes \in Seq(Text), NEW x \in Text
    PROVE  /\ Latest(Append(notes, x)) \in Seq(Text)
           /\ Last(Latest(Append(notes, x))) = x
           /\ \A e : Contains(Latest(Append(notes, x)), e) => e = x \/ Contains(notes, e)
           /\ Once(notes) /\ (\A n \in Number : x = Merged(n) => ~Contains(notes, Merged(n)))
                 => Once(Latest(Append(notes, x)))
  <1> DEFINE all == Append(notes, x)
             from == IF Len(all) > MaxNotes THEN Len(all) - MaxNotes + 1 ELSE 1
             new == SubSeq(all, from, Len(all))
  <1>1. /\ all \in Seq(Text) /\ Len(all) = Len(notes) + 1 /\ Len(notes) \in Nat
        /\ \A j \in 1..Len(notes) : all[j] = notes[j]
        /\ all[Len(notes) + 1] = x
    BY AppendProperties
  <1>2. from \in 1..Len(all)
    BY <1>1, QueueAssumption
  <1>3. \A j \in from..Len(all) : all[j] \in Text
    BY <1>1, <1>2
  <1>4. /\ new \in Seq(Text) /\ Len(new) = Len(all) - from + 1
        /\ \A j \in 1..Len(new) : new[j] = all[from + j - 1]
    <2> HIDE DEF all, from
    <2>1. Len(all) \in Int /\ from \in Int /\ from <= Len(all)
      BY <1>1, <1>2
    <2> QED BY <2>1, <1>3, SubSeqProperties DEF new
  <1>5. new = Latest(all)
    BY DEF Latest
  <1> HIDE DEF all, from, new
  <1>6. Last(new) = x
    <2>1. Len(new) \in 1..Len(new) /\ from + Len(new) - 1 = Len(all)
      BY <1>1, <1>2, <1>4
    <2> QED BY <2>1, <1>1, <1>4 DEF Last
  <1>7. \A j \in 1..Len(new) : /\ from + j - 1 \in 1..Len(all)
                               /\ \/ from + j - 1 = Len(all) /\ new[j] = x
                                  \/ from + j - 1 \in 1..Len(notes) /\ new[j] = notes[from + j - 1]
    <2> SUFFICES ASSUME NEW j \in 1..Len(new)
                 PROVE  /\ from + j - 1 \in 1..Len(all)
                        /\ \/ from + j - 1 = Len(all) /\ new[j] = x
                           \/ from + j - 1 \in 1..Len(notes) /\ new[j] = notes[from + j - 1]
      OBVIOUS
    <2>0. /\ j \in Nat /\ from \in Nat /\ Len(all) \in Nat /\ 1 <= j /\ 1 <= from
          /\ j <= Len(all) - from + 1
      <3>1. Len(all) \in Nat /\ from \in Nat /\ 1 <= from /\ from <= Len(all)
        BY <1>1, <1>2
      <3>2. j \in 1..(Len(all) - from + 1)
        BY <1>4
      <3> QED BY <3>1, <3>2
    <2>1. from + j - 1 \in 1..Len(all) /\ new[j] = all[from + j - 1]
      BY <2>0, <1>4
    <2>2. from + j - 1 = Len(notes) + 1 \/ from + j - 1 \in 1..Len(notes)
      BY <2>1, <1>1, <1>2
    <2> QED BY <2>1, <2>2, <1>1
  <1>8. \A e : Contains(new, e) => e = x \/ Contains(notes, e)
    BY <1>7 DEF Contains
  <1>9. ASSUME Once(notes), \A n \in Number : x = Merged(n) => ~Contains(notes, Merged(n))
        PROVE  Once(new)
    <2> SUFFICES ASSUME NEW j \in DOMAIN new, NEW k \in DOMAIN new, NEW n \in Number,
                        new[j] = Merged(n), new[k] = Merged(n)
                 PROVE  j = k
      BY DEF Once
    <2>1. j \in 1..Len(new) /\ k \in 1..Len(new) /\ DOMAIN notes = 1..Len(notes)
      BY <1>4
    <2>2. CASE x = Merged(n)
      <3>1. \A i \in 1..Len(notes) : notes[i] # Merged(n)
        BY <1>9, <2>2 DEF Contains
      <3>2. from + j - 1 = Len(all) /\ from + k - 1 = Len(all)
        BY <1>7, <2>1, <3>1
      <3> QED BY <3>2, <2>1, <1>1, <1>2
    <2>3. CASE x # Merged(n)
      <3>1. /\ from + j - 1 \in 1..Len(notes) /\ notes[from + j - 1] = Merged(n)
            /\ from + k - 1 \in 1..Len(notes) /\ notes[from + k - 1] = Merged(n)
        BY <1>7, <2>1, <2>3
      <3>2. from + j - 1 = from + k - 1
        BY <3>1, <1>9, <2>1 DEF Once
      <3> QED BY <3>2, <2>1, <1>2, <1>1
    <2> QED BY <2>2, <2>3
  <1> QED BY <1>4, <1>5, <1>6, <1>8, <1>9 DEF all

-----------------------------------------------------------------------------
(* The queue: what a step leaves of the other calls                        *)

LEMMA QueueInitInv == Init => QueueInv
  <1> SUFFICES ASSUME Init PROVE QueueInv
    OBVIOUS
  <1>1. TypeOK
    BY DEF Init, TypeOK, CallType
  <1>2. \A i \in RowId : ~IsRow(i)
    BY DEF Init, IsRow
  <1>3. RowsInv
    BY <1>2 DEF Init, RowsInv, MergeNotesAreTrue, SyncsAgree, InTurns, Open, OpenRows
  <1>4. \A c \in Caller : CallInv(call[c]) /\ InHand(call[c]) = {}
    <2>1. RowsOf(Idle) = {} /\ Idle.at = "idle"
      BY DEF RowsOf, Idle
    <2>2. InHand(Idle) = {}
      BY <2>1 DEF InHand, SourcesOf
    <2>3. CallInv(Idle)
      BY <2>1 DEF CallInv, TrueCall, TimelyCall
    <2> QED BY <2>2, <2>3 DEF Init
  <1> QED BY <1>1, <1>3, <1>4 DEF QueueInv

LEMMA IdleInv == TypeOK => CallInv(Idle) /\ InHand(Idle) = {} /\ Idle \in CallType
  <1>1. RowsOf(Idle) = {} /\ Idle.at = "idle"
    BY DEF RowsOf, Idle
  <1> QED BY <1>1 DEF InHand, SourcesOf, CallInv, TrueCall, TimelyCall, CallType

\* A call stays sound where a step leaves alone the rows that it has read and are
\* of a ticket in turns.
LEMMA CallKept ==
    ASSUME TypeOK, TypeOK', NEW k \in CallType, CallInv(k),
           last <= last', merged \subseteq merged',
           \A i \in RowsOf(k) : InTurns(i)' =>
              InTurns(i) /\ rows'[i].status = rows[i].status /\ rows'[i].notes = rows[i].notes,
           k.at = "insert" /\ k.source \in Turns \ Pulls /\ Open(k.source) = {}
              => Open(k.source)' = {}
    PROVE  CallInv(k)'
  <1>1. (RowsOf(k) \subseteq 1..last)'
    BY Ids DEF CallInv, TypeOK
  <1>2. \A n : IsMerged(n) => IsMerged(n)'
    BY DEF IsMerged
  <1>3. TrueCall(k)'
    BY <1>2 DEF CallInv, TrueCall, TrueNotes
  <1>4. TimelyCall(k)'
    <2>1. CASE k.at = "write"
      <3>1. /\ k.id \in RowsOf(k) /\ \A x \in k.todo : x[1] \in RowsOf(k)
        BY <2>1, RowsOfKinds
      <3> QED BY <2>1, <3>1 DEF CallInv, TimelyCall
    <2>2. CASE k.at = "annotate"
      <3>1. \A x \in k.todo : x[1] \in RowsOf(k)
        BY <2>2, RowsOfKinds
      <3> QED BY <2>2, <3>1 DEF CallInv, TimelyCall
    <2>3. CASE k.at = "ask"
      <3>1. \A s \in k.seen : s[1] \in RowsOf(k)
        BY <2>3, RowsOfKinds
      <3> QED BY <2>3, <3>1 DEF CallInv, TimelyCall
    <2>4. CASE k.at = "insert"
      BY <2>4 DEF CallInv, TimelyCall
    <2>5. CASE k.at = "idle"
      BY <2>5 DEF TimelyCall
    <2> QED BY <2>1, <2>2, <2>3, <2>4, <2>5, Kinds
  <1> QED BY <1>1, <1>3, <1>4 DEF CallInv

\* No step gives a call a ticket by moving or removing rows.
LEMMA HandsKept ==
    ASSUME NEW k \in CallType,
           \A i \in RowsOf(k) : IsRow(i)' => IsRow(i) /\ rows'[i].source = rows[i].source
    PROVE  InHand(k)' \subseteq InHand(k)
  <1>1. SourcesOf(RowsOf(k))' \subseteq SourcesOf(RowsOf(k))
    <2>1. SourcesOf(RowsOf(k))' = {rows'[i].source : i \in {j \in RowsOf(k) : IsRow(j)'}}
      BY DEF SourcesOf
    <2> QED BY <2>1 DEF SourcesOf
  <1> QED BY <1>1 DEF InHand

\* A step of one call that only reads: the new call has to be sound, and its
\* tickets in no other hand.
LEMMA ReadStep ==
    ASSUME QueueInv, NEW c \in Caller, NEW k \in CallType, Goto(c, k),
           UNCHANGED <<rows, last, merged, board>>, CallInv(k),
           \A d \in Caller \ {c} : InHand(k) \cap InHand(call[d]) \cap Turns = {}
    PROVE  QueueInv'
  <1>1. /\ call' \in [Caller -> CallType] /\ call'[c] = k
        /\ \A d \in Caller \ {c} : call'[d] = call[d]
    BY DEF QueueInv, TypeOK, Goto
  <1>2. TypeOK'
    BY <1>1 DEF QueueInv, TypeOK, board
  <1>3. RowsInv'
    <2>1. \A i : IsRow(i)' = IsRow(i) /\ InTurns(i)' = InTurns(i)
      BY DEF IsRow, InTurns
    <2>2. \A s : Open(s)' = Open(s)
      BY <2>1 DEF Open, OpenRows
    <2>3. MergeNotesAreTrue' /\ SyncsAgree'
      BY <2>1 DEF QueueInv, RowsInv, MergeNotesAreTrue, SyncsAgree, board
    <2>4. \A i \in RowId : (i > last => ~IsRow(i))' /\ (InTurns(i) => Once(rows[i].notes))'
      BY <2>1 DEF QueueInv, RowsInv, Once
    <2>5. (toBoard \cup pending \subseteq 1..last)'
      BY DEF QueueInv, RowsInv, board
    <2>6. (\A s \in Turns \ Pulls : \A i, j \in Open(s) : i = j)'
      BY <2>2 DEF QueueInv, RowsInv
    <2> QED BY <2>3, <2>4, <2>5, <2>6 DEF RowsInv
  <1>4. ASSUME NEW d \in CallType, CallInv(d) PROVE CallInv(d)'
    <2>1. last <= last'
      BY Ids DEF QueueInv, TypeOK
    <2>2. \A i : InTurns(i)' = InTurns(i)
      BY DEF InTurns, IsRow
    <2>3. \A s : Open(s)' = Open(s)
      BY DEF Open, OpenRows, IsRow
    <2> QED BY <1>2, <1>4, <2>1, <2>2, <2>3, CallKept DEF QueueInv
  <1>5. (\A d \in Caller : CallInv(call[d]))'
    BY <1>1, <1>4 DEF QueueInv, TypeOK
  <1>6. \A d \in CallType : InHand(d)' = InHand(d)
    BY DEF InHand, SourcesOf, IsRow
  <1>7. (\A d, e \in Caller : d # e => InHand(call[d]) \cap InHand(call[e]) \cap Turns = {})'
    <2> SUFFICES ASSUME NEW d \in Caller, NEW e \in Caller, d # e
                 PROVE  InHand(call'[d]) \cap InHand(call'[e]) \cap Turns = {}
      BY <1>1, <1>6
    <2> QED BY <1>1 DEF QueueInv
  <1> QED BY <1>2, <1>3, <1>5, <1>7 DEF QueueInv

-----------------------------------------------------------------------------
(* The queue: the steps that only read                                     *)

\* A row's handler begins with a change that is true and that the row allows.
LEMMA ChangeBegins ==
    ASSUME QueueInv, NEW c \in Caller, NEW i \in RowId, IsRow(i), Begins(c, {rows[i].source}),
           NEW status \in Status \cup {Keep}, status # Keep => CanTransition(rows[i].status, status),
           NEW pr \in PR \cup {NoPR, Keep}, NEW notes \in Seq(Text) \cup {Keep},
           notes # Keep => /\ TrueNotes(notes)
                           /\ \A n \in Number : Last(notes) # Merged(n)
                           /\ InTurns(i) => Once(notes),
           NEW tool \in BOOLEAN, Goto(c, Change(i, status, pr, notes, tool, {})),
           UNCHANGED <<rows, last, merged, board>>
    PROVE  QueueInv'
  <1> DEFINE k == Change(i, status, pr, notes, tool, {})
  <1>1. /\ k \in CallType /\ k.at = "write" /\ k.id = i /\ k.status = status
        /\ k.notes = notes /\ k.todo = {} /\ RowsOf(k) = {i}
    <2>1. /\ k \in CallType /\ k.at = "write" /\ k.id = i /\ k.status = status
          /\ k.notes = notes /\ k.todo = {}
      BY DEF Change, CallType
    <2> HIDE DEF k
    <2> QED BY <2>1, RowsOfKinds
  <1>2. Goto(c, k)
    OBVIOUS
  <1> HIDE DEF k
  <1>3. RowsOf(k) \subseteq 1..last
    BY <1>1, Ids DEF QueueInv, RowsInv, TypeOK
  <1>4. TrueCall(k) /\ TimelyCall(k)
    BY <1>1 DEF TrueCall, TimelyCall
  <1>5. InHand(k) \subseteq {rows[i].source}
    BY <1>1 DEF InHand, SourcesOf
  <1>6. \A d \in Caller \ {c} : InHand(k) \cap InHand(call[d]) \cap Turns = {}
    BY <1>5 DEF Begins, InTurn
  <1> QED BY <1>1, <1>2, <1>3, <1>4, <1>6, ReadStep DEF CallInv

LEMMA ToolUpdateInv ==
    ASSUME QueueInv, NEW c \in Caller, NEW i \in RowId, NEW u \in Update, ToolUpdate(c, i, u)
    PROVE  QueueInv'
  <1>1. IsRow(i) /\ Begins(c, {rows[i].source}) /\ UNCHANGED <<rows, last, merged, board>>
    BY DEF ToolUpdate
  <1>2. /\ u.status \in Status \cup {Keep} /\ u.pr \in PR \cup {NoPR, Keep}
        /\ u.note \in Words \cup {Keep}
    BY QueueAssumption
  <1>3. \/ Appended(i, u.note) = Keep
        \/ u.note \in Words /\ Appended(i, u.note) = Latest(Append(rows[i].notes, u.note))
    BY <1>2 DEF Appended
  <1>4. rows[i].notes \in Seq(Text)
    BY <1>1, TypedRows DEF QueueInv
  <1>5. ASSUME u.note \in Words, NEW notes, notes = Latest(Append(rows[i].notes, u.note))
        PROVE  /\ notes \in Seq(Text) /\ TrueNotes(notes)
               /\ \A n \in Number : Last(notes) # Merged(n)
               /\ InTurns(i) => Once(notes)
    <2>1. u.note \in Text /\ \A n \in Number : u.note # Merged(n)
      BY <1>5, Sentinels
    <2>2. /\ notes \in Seq(Text) /\ Last(notes) = u.note
          /\ \A e : Contains(notes, e) => e = u.note \/ Contains(rows[i].notes, e)
          /\ Once(rows[i].notes) => Once(notes)
      BY <1>4, <1>5, <2>1, LatestNotes
    <2>3. TrueNotes(notes)
      BY <1>1, <2>1, <2>2 DEF TrueNotes, QueueInv, RowsInv, MergeNotesAreTrue, IsMerged
    <2>4. InTurns(i) => Once(notes)
      BY <2>2 DEF QueueInv, RowsInv
    <2> QED BY <2>1, <2>2, <2>3, <2>4
  <1>6. /\ Goto(c, Change(i, u.status, u.pr, Appended(i, u.note), TRUE, {}))
        /\ u.status # Keep => CanTransition(rows[i].status, u.status)
    BY DEF ToolUpdate
  <1>7. /\ Appended(i, u.note) \in Seq(Text) \cup {Keep}
        /\ Appended(i, u.note) # Keep => /\ TrueNotes(Appended(i, u.note))
                                         /\ \A n \in Number : Last(Appended(i, u.note)) # Merged(n)
                                         /\ InTurns(i) => Once(Appended(i, u.note))
    BY <1>3, <1>5
  <1> QED BY <1>1, <1>2, <1>6, <1>7, ChangeBegins

LEMMA RouteUpdateInv ==
    ASSUME QueueInv, NEW c \in Caller, NEW i \in RowId, NEW u \in Update, RouteUpdate(c, i, u)
    PROVE  QueueInv'
  <1>1. IsRow(i) /\ Begins(c, {rows[i].source}) /\ UNCHANGED <<rows, last, merged, board>>
    BY DEF RouteUpdate
  <1>2. /\ u.status \in Status \cup {Keep} /\ u.pr \in PR \cup {NoPR, Keep}
        /\ u.note \in Words \cup {Keep}
    BY QueueAssumption
  <1> DEFINE notes == IF u.note = Keep THEN Keep ELSE <<u.note>>
  <1>3. /\ Goto(c, Change(i, u.status, u.pr, notes, FALSE, {}))
        /\ u.status # Keep => CanTransition(rows[i].status, u.status)
    BY DEF RouteUpdate
  <1>4. /\ notes \in Seq(Text) \cup {Keep}
        /\ notes # Keep => /\ TrueNotes(notes) /\ Once(notes)
                           /\ \A n \in Number : Last(notes) # Merged(n)
    <2>1. CASE u.note = Keep
      BY <2>1
    <2>2. CASE u.note # Keep
      <3>1. u.note \in Text /\ \A n \in Number : u.note # Merged(n)
        BY <1>2, <2>2, Sentinels
      <3>2. /\ notes = <<u.note>> /\ <<u.note>> \in Seq(Text) /\ Len(<<u.note>>) = 1
            /\ DOMAIN <<u.note>> = 1..1 /\ <<u.note>>[1] = u.note
        BY <2>2, <3>1
      <3>3. \A n \in Number : ~Contains(<<u.note>>, Merged(n)) /\ Last(<<u.note>>) # Merged(n)
        BY <3>1, <3>2 DEF Contains, Last
      <3>4. Once(<<u.note>>)
        BY <3>2 DEF Once
      <3> QED BY <3>2, <3>3, <3>4 DEF TrueNotes
    <2> QED BY <2>1, <2>2
  <1> HIDE DEF notes
  <1> QED BY <1>1, <1>2, <1>3, <1>4, ChangeBegins

\* A new row of a ticket is to be inserted.
LEMMA InsertBegins ==
    ASSUME QueueInv, NEW c \in Caller, NEW source \in Source, Begins(c, {source}),
           NEW status \in {"queued", "assigned"},
           Goto(c, [at |-> "insert", source |-> source, status |-> status]),
           source \in Turns \ Pulls => Open(source) = {},
           UNCHANGED <<rows, last, merged, board>>
    PROVE  QueueInv'
  <1> DEFINE k == [at |-> "insert", source |-> source, status |-> status]
  <1>1. k \in CallType /\ k.at = "insert" /\ k.source = source
    BY DEF CallType
  <1>2. Goto(c, k)
    OBVIOUS
  <1> HIDE DEF k
  <1>3. RowsOf(k) = {}
    BY <1>1, RowsOfKinds
  <1>4. CallInv(k)
    BY <1>1, <1>3 DEF CallInv, TrueCall, TimelyCall
  <1>5. InHand(k) = {source}
    BY <1>1, <1>3 DEF InHand, SourcesOf
  <1>6. \A d \in Caller \ {c} : InHand(k) \cap InHand(call[d]) \cap Turns = {}
    BY <1>5 DEF Begins, InTurn
  <1> QED BY <1>1, <1>2, <1>4, <1>6, ReadStep

LEMMA AddInv ==
    ASSUME QueueInv, NEW c \in Caller, NEW source \in Source, Add(c, source)
    PROVE  QueueInv'
  BY InsertBegins DEF Add, Open

LEMMA PullInv ==
    ASSUME QueueInv, NEW c \in Caller, NEW source \in Source, NEW assign \in BOOLEAN,
           Pull(c, source, assign)
    PROVE  QueueInv'
  <1> DEFINE open == OpenRows(source, {"queued", "assigned"})
  <1>1. source \in Pulls /\ Begins(c, {source}) /\ UNCHANGED <<rows, last, merged, board>>
    BY DEF Pull
  <1>2. CASE Goto(c, [at |-> "insert", source |-> source,
                      status |-> IF assign THEN "assigned" ELSE "queued"])
    <2>1. (IF assign THEN "assigned" ELSE "queued") \in {"queued", "assigned"}
      OBVIOUS
    <2> QED BY <1>1, <1>2, <2>1, InsertBegins
  <1>3. ASSUME NEW i \in open, Goto(c, Change(i, "assigned", Keep, Keep, FALSE, {}))
        PROVE  QueueInv'
    <2>1. i \in RowId /\ IsRow(i) /\ rows[i].source = source
          /\ rows[i].status \in {"queued", "assigned"}
      BY DEF OpenRows
    <2>2. CanTransition(rows[i].status, "assigned")
      BY <2>1 DEF CanTransition, Transitions
    <2>3. "assigned" \in Status
      BY DEF Status
    <2> QED BY <1>1, <1>3, <2>1, <2>2, <2>3, ChangeBegins
  <1> QED BY <1>2, <1>3 DEF Pull

LEMMA FetchInv == ASSUME QueueInv, NEW c \in Caller, FetchInFlight(c) PROVE QueueInv'
  <1> DEFINE inFlight == {i \in RowId : IsRow(i) /\ rows[i].status \in {"assigned", "in_review"}
                                                 /\ rows[i].pr # NoPR}
             seen == {<<i, rows[i].pr, rows[i].notes>> : i \in inFlight}
             k == [at |-> "ask", seen |-> seen]
  <1>1. /\ Begins(c, SourcesOf(inFlight)) /\ Goto(c, k)
        /\ UNCHANGED <<rows, last, merged, board>>
    BY DEF FetchInFlight
  <1>2. \A i \in inFlight : /\ i \in 1..last /\ i \in RowId /\ IsRow(i)
                            /\ rows[i].pr \in PR /\ rows[i].notes \in Seq(Text)
    BY TypedRows, Ids DEF QueueInv, RowsInv, TypeOK
  <1>3. seen \subseteq RowId \X PR \X Seq(Text)
    BY <1>2
  <1>4. \A s \in seen : s[1] \in inFlight /\ s[3] = rows[s[1]].notes
    OBVIOUS
  <1>5. {s[1] : s \in seen} = inFlight
    <2>1. \A i \in inFlight : \E s \in seen : s[1] = i
      <3> SUFFICES ASSUME NEW i \in inFlight PROVE \E s \in seen : s[1] = i
        OBVIOUS
      <3>1. <<i, rows[i].pr, rows[i].notes>> \in seen
        OBVIOUS
      <3> QED BY <3>1
    <2> HIDE DEF seen, inFlight
    <2> QED BY <1>4, <2>1
  <1> HIDE DEF seen, inFlight
  <1>6. k \in CallType /\ k.at = "ask" /\ k.seen = seen
    BY <1>3 DEF CallType
  <1> HIDE DEF k
  <1>7. RowsOf(k) = inFlight
    BY <1>5, <1>6, RowsOfKinds
  <1>8. CallInv(k)
    BY <1>2, <1>4, <1>6, <1>7 DEF CallInv, TrueCall, TimelyCall
  <1>9. \A d \in Caller \ {c} : InHand(k) \cap InHand(call[d]) \cap Turns = {}
    <2>1. InHand(k) = SourcesOf(inFlight)
      BY <1>6, <1>7 DEF InHand
    <2> QED BY <1>1, <2>1 DEF Begins, InTurn
  <1> QED BY <1>1, <1>6, <1>8, <1>9, ReadStep

LEMMA AskInv == ASSUME QueueInv, NEW c \in Caller, AskGitHub(c) PROVE QueueInv'
  <1>1. /\ call[c].at = "ask" /\ call[c] \in CallType /\ CallInv(call[c])
        /\ UNCHANGED <<rows, last, merged, board>>
    BY DEF AskGitHub, QueueInv, TypeOK
  <1>2. PICK answered \in SUBSET {s[2] : s \in call[c].seen} :
           Goto(c, IF Planned(call[c].seen, answered) = {} THEN Idle
                   ELSE [at |-> "annotate", todo |-> Planned(call[c].seen, answered)])
    BY DEF AskGitHub
  <1> DEFINE seen == call[c].seen
             todo == Planned(seen, answered)
  <1>3. seen \subseteq RowId \X PR \X Seq(Text) /\ RowsOf(call[c]) = {s[1] : s \in seen}
    BY <1>1, Kinds, RowsOfKinds
  <1>4. \A x \in todo : \E s \in seen :
           /\ x = <<s[1], s[2][2]>> /\ s[2] \in PR /\ s[1] \in RowId
           /\ s[2][2] \in {pr[2] : pr \in answered \cap merged}
           /\ ~Contains(s[3], Merged(s[2][2]))
    BY <1>3 DEF Planned
  <1>5. \A x \in todo : x \in RowId \X Number
    BY <1>4 DEF PR
  <1>6. \A n \in {pr[2] : pr \in answered \cap merged} : IsMerged(n)
    <2> SUFFICES ASSUME NEW pr \in merged PROVE IsMerged(pr[2])
      OBVIOUS
    <2>1. pr = <<pr[1], pr[2]>> /\ pr[1] \in Repo
      BY DEF QueueInv, TypeOK, PR
    <2> QED BY <2>1 DEF IsMerged
  <1>7. CASE todo = {}
    <2>1. Goto(c, Idle) /\ CallInv(Idle) /\ Idle \in CallType /\ InHand(Idle) = {}
      BY <1>2, <1>7, IdleInv DEF QueueInv
    <2> QED BY <1>1, <2>1, ReadStep
  <1>8. CASE todo # {}
    <2> DEFINE k == [at |-> "annotate", todo |-> todo]
    <2>1. Goto(c, k)
      BY <1>2, <1>8
    <2> HIDE DEF todo
    <2>2. k \in CallType /\ k.at = "annotate" /\ k.todo = todo
      BY <1>5 DEF CallType
    <2> HIDE DEF k
    <2>3. RowsOf(k) \subseteq RowsOf(call[c])
      BY <1>3, <1>4, <2>2, RowsOfKinds
    <2>4. TrueCall(k)
      BY <1>4, <1>6, <2>2 DEF TrueCall
    <2>5. TimelyCall(k)
      <3>1. ASSUME NEW x \in todo, InTurns(x[1])
            PROVE  ~Contains(rows[x[1]].notes, Merged(x[2]))
        <4>1. PICK s \in seen : x = <<s[1], s[2][2]>> /\ ~Contains(s[3], Merged(s[2][2]))
          BY <1>4
        <4>2. s[3] = rows[s[1]].notes
          BY <1>1, <3>1, <4>1 DEF CallInv, TimelyCall
        <4> QED BY <4>1, <4>2
      <3> QED BY <2>2, <3>1 DEF TimelyCall
    <2>6. CallInv(k)
      BY <1>1, <2>3, <2>4, <2>5 DEF CallInv
    <2>7. InHand(k) \subseteq InHand(call[c])
      BY <1>1, <2>2, <2>3, Hands
    <2>8. \A d \in Caller \ {c} : InHand(k) \cap InHand(call[d]) \cap Turns = {}
      BY <2>7 DEF QueueInv
    <2> QED BY <1>1, <2>1, <2>2, <2>6, <2>8, ReadStep
  <1> QED BY <1>7, <1>8

LEMMA AnnotateInv == ASSUME QueueInv, NEW c \in Caller, Annotate(c) PROVE QueueInv'
  <1>1. /\ call[c].at = "annotate" /\ call[c] \in CallType /\ CallInv(call[c])
        /\ UNCHANGED <<rows, last, merged, board>>
    BY DEF Annotate, QueueInv, TypeOK
  <1>2. PICK x \in call[c].todo :
           LET rest == call[c].todo \ {x} IN
           Goto(c, IF IsRow(x[1])
                     THEN Change(x[1], Keep, Keep, Appended(x[1], Merged(x[2])), TRUE, rest)
                     ELSE IF rest = {} THEN Idle ELSE [at |-> "annotate", todo |-> rest])
    BY DEF Annotate
  <1> DEFINE i == x[1]
             n == x[2]
             rest == call[c].todo \ {x}
             notes == Latest(Append(rows[i].notes, Merged(n)))
  <1>3. /\ call[c].todo \subseteq RowId \X Number
        /\ RowsOf(call[c]) = {y[1] : y \in call[c].todo}
    BY <1>1, Kinds, RowsOfKinds
  <1>4. /\ i \in RowId /\ n \in Number /\ x = <<i, n>> /\ IsMerged(n)
        /\ \A y \in rest : /\ y[1] \in RowId /\ y[2] \in Number /\ IsMerged(y[2])
                           /\ y[1] = i => y[2] # n
        /\ rest \subseteq RowId \X Number
    BY <1>1, <1>3 DEF CallInv, TrueCall
  <1>5. \A y \in call[c].todo : InTurns(y[1]) => ~Contains(rows[y[1]].notes, Merged(y[2]))
    BY <1>1 DEF CallInv, TimelyCall
  <1>6. ASSUME NEW k \in CallType, Goto(c, k), RowsOf(k) \subseteq RowsOf(call[c]),
               k.at # "insert", TrueCall(k), TimelyCall(k)
        PROVE  QueueInv'
    <2>1. InHand(k) \subseteq InHand(call[c])
      BY <1>1, <1>6, Hands
    <2>2. \A d \in Caller \ {c} : InHand(k) \cap InHand(call[d]) \cap Turns = {}
      BY <2>1 DEF QueueInv
    <2>3. CallInv(k)
      BY <1>1, <1>6 DEF CallInv
    <2> QED BY <1>1, <1>6, <2>2, <2>3, ReadStep
  <1>7. CASE IsRow(i)
    <2> DEFINE k == Change(i, Keep, Keep, notes, TRUE, rest)
    <2>1. Goto(c, k)
      <3>1. Merged(n) # Keep
        BY <1>4, QueueAssumption, Sentinels
      <3> QED BY <1>2, <1>7, <3>1 DEF Appended
    <2>2. rows[i].notes \in Seq(Text) /\ Merged(n) \in Text
      BY <1>4, <1>7, TypedRows, Sentinels DEF QueueInv
    <2>3. /\ notes \in Seq(Text) /\ Last(notes) = Merged(n)
          /\ \A e : Contains(notes, e) => e = Merged(n) \/ Contains(rows[i].notes, e)
          /\ /\ Once(rows[i].notes)
             /\ \A m \in Number : Merged(n) = Merged(m) => ~Contains(rows[i].notes, Merged(m))
             => Once(notes)
      BY <2>2, LatestNotes
    <2> HIDE DEF notes, rest
    <2>4. /\ k \in CallType /\ k.at = "write" /\ k.id = i /\ k.status = Keep
          /\ k.notes = notes /\ k.todo = rest
      BY <1>4, <2>3 DEF Change, CallType
    <2> HIDE DEF k
    <2>5. RowsOf(k) \subseteq RowsOf(call[c])
      <3>1. RowsOf(k) = {i} \cup {y[1] : y \in rest}
        BY <2>4, RowsOfKinds
      <3> QED BY <1>3, <3>1 DEF rest
    <2>6. TrueCall(k)
      <3>1. TrueNotes(notes)
        <4> SUFFICES ASSUME NEW m \in Number, Contains(notes, Merged(m)) PROVE IsMerged(m)
          BY DEF TrueNotes
        <4>1. CASE Merged(m) = Merged(n)
          BY <4>1, <1>4, Sentinels
        <4>2. CASE Contains(rows[i].notes, Merged(m))
          BY <4>2, <1>4, <1>7 DEF QueueInv, RowsInv, MergeNotesAreTrue, IsMerged
        <4> QED BY <2>3, <4>1, <4>2
      <3> QED BY <1>4, <2>4, <3>1 DEF TrueCall
    <2>7. TimelyCall(k)
      <3>1. InTurns(i) => Once(notes)
        <4>1. InTurns(i) => Once(rows[i].notes) /\ ~Contains(rows[i].notes, Merged(n))
          BY <1>4, <1>5 DEF QueueInv, RowsInv
        <4>2. \A m \in Number : Merged(n) = Merged(m) => m = n
          BY <1>4, Sentinels
        <4> QED BY <2>3, <4>1, <4>2
      <3>2. ASSUME NEW y \in rest, InTurns(y[1])
            PROVE  /\ ~Contains(rows[y[1]].notes, Merged(y[2]))
                   /\ y[1] = i => ~Contains(notes, Merged(y[2]))
        <4>1. ~Contains(rows[y[1]].notes, Merged(y[2]))
          BY <1>5, <3>2 DEF rest
        <4>2. y[1] = i => Merged(y[2]) # Merged(n)
          BY <1>4, Sentinels
        <4> QED BY <2>3, <4>1, <4>2
      <3> QED BY <2>4, <3>1, <3>2 DEF TimelyCall
    <2> QED BY <1>6, <2>1, <2>4, <2>5, <2>6, <2>7
  <1>8. CASE ~IsRow(i) /\ rest = {}
    <2>1. Goto(c, Idle) /\ Idle.at = "idle"
      BY <1>2, <1>8 DEF Idle
    <2> QED BY <1>6, <2>1, IdleInv, RowsOfKinds DEF QueueInv, CallInv
  <1>9. CASE ~IsRow(i) /\ rest # {}
    <2> DEFINE k == [at |-> "annotate", todo |-> rest]
    <2>1. Goto(c, k)
      BY <1>2, <1>9
    <2>2. k \in CallType /\ k.at = "annotate" /\ k.todo = rest
      BY <1>4 DEF CallType
    <2> HIDE DEF k
    <2>3. RowsOf(k) \subseteq RowsOf(call[c])
      BY <1>3, <2>2, RowsOfKinds
    <2>4. TrueCall(k) /\ TimelyCall(k)
      BY <1>4, <1>5, <2>2 DEF TrueCall, TimelyCall
    <2> QED BY <1>6, <2>1, <2>2, <2>3, <2>4
  <1> QED BY <1>7, <1>8, <1>9

-----------------------------------------------------------------------------
(* The queue: the steps that change rows                                   *)

\* Where the rows change and no row comes back, the other calls stay sound and keep
\* their tickets to themselves.
LEMMA ChangeStep ==
    ASSUME QueueInv, TypeOK', RowsInv', last <= last', merged \subseteq merged',
           NEW moved \in SUBSET Caller, \A d \in Caller \ moved : call'[d] = call[d],
           \A c \in moved : CallInv(call[c])' /\ InHand(call[c])' \cap Turns \subseteq InHand(call[c]),
           \A d \in Caller \ moved : \A i \in RowsOf(call[d]) :
              IsRow(i)' => /\ IsRow(i) /\ rows'[i].source = rows[i].source
                           /\ rows[i].source \in Turns => /\ rows'[i].status = rows[i].status
                                                          /\ rows'[i].notes = rows[i].notes,
           \A d \in Caller \ moved :
              /\ call[d].at = "insert" /\ call[d].source \in Turns \ Pulls
              /\ Open(call[d].source) = {}
              => Open(call[d].source)' = {}
    PROVE  QueueInv'
  <1>1. ASSUME NEW d \in Caller \ moved PROVE CallInv(call[d])' /\ InHand(call[d])' \subseteq InHand(call[d])
    <2> DEFINE k == call[d]
    <2>1. k \in CallType /\ CallInv(k) /\ call'[d] = k /\ TypeOK
      BY DEF QueueInv, TypeOK
    <2>2. /\ \A i \in RowsOf(k) :
               IsRow(i)' => /\ IsRow(i) /\ rows'[i].source = rows[i].source
                            /\ rows[i].source \in Turns => /\ rows'[i].status = rows[i].status
                                                           /\ rows'[i].notes = rows[i].notes
          /\ k.at = "insert" /\ k.source \in Turns \ Pulls /\ Open(k.source) = {}
               => Open(k.source)' = {}
      OBVIOUS
    <2>3. ASSUME NEW kept \in CallType, kept = k PROVE CallInv(kept)' /\ InHand(kept)' \subseteq InHand(kept)
      <3> HIDE DEF k
      <3>1. \A i \in RowsOf(kept) : InTurns(i)' =>
               InTurns(i) /\ rows'[i].status = rows[i].status /\ rows'[i].notes = rows[i].notes
        BY <2>2, <2>3 DEF InTurns
      <3>2. CallInv(kept)'
        BY <2>1, <2>2, <2>3, <3>1, CallKept
      <3>3. InHand(kept)' \subseteq InHand(kept)
        BY <2>2, <2>3, HandsKept
      <3> QED BY <3>2, <3>3
    <2> QED BY <2>1, <2>3
  <1>2. (\A d \in Caller : CallInv(call[d]))'
    BY <1>1
  <1>3. (\A d, e \in Caller : d # e => InHand(call[d]) \cap InHand(call[e]) \cap Turns = {})'
    <2>1. \A d \in Caller : InHand(call[d])' \cap Turns \subseteq InHand(call[d]) \cap Turns
      BY <1>1
    <2> QED BY <2>1 DEF QueueInv
  <1> QED BY <1>2, <1>3 DEF QueueInv

\* In particular where one call moves on, and where none does.
LEMMA MovedStep ==
    ASSUME QueueInv, TypeOK', RowsInv', last <= last', merged \subseteq merged',
           NEW c \in Caller, \A d \in Caller \ {c} : call'[d] = call[d],
           CallInv(call[c])', InHand(call[c])' \cap Turns \subseteq InHand(call[c]),
           \A d \in Caller \ {c} : \A i \in RowsOf(call[d]) :
              IsRow(i)' => /\ IsRow(i) /\ rows'[i].source = rows[i].source
                           /\ rows[i].source \in Turns => /\ rows'[i].status = rows[i].status
                                                          /\ rows'[i].notes = rows[i].notes,
           \A d \in Caller \ {c} :
              /\ call[d].at = "insert" /\ call[d].source \in Turns \ Pulls
              /\ Open(call[d].source) = {}
              => Open(call[d].source)' = {}
    PROVE  QueueInv'
  <1> DEFINE moved == {c}
  <1>1. /\ moved \in SUBSET Caller
        /\ \A d \in moved : CallInv(call[d])' /\ InHand(call[d])' \cap Turns \subseteq InHand(call[d])
    OBVIOUS
  <1>2. \A d \in Caller \ moved : d \in Caller \ {c}
    OBVIOUS
  <1> HIDE DEF moved
  <1> QED BY <1>1, <1>2, ChangeStep

LEMMA UnmovedStep ==
    ASSUME QueueInv, TypeOK', RowsInv', last <= last', merged \subseteq merged', call' = call,
           \A d \in Caller : \A i \in RowsOf(call[d]) :
              IsRow(i)' => /\ IsRow(i) /\ rows'[i].source = rows[i].source
                           /\ rows[i].source \in Turns => /\ rows'[i].status = rows[i].status
                                                          /\ rows'[i].notes = rows[i].notes,
           \A d \in Caller :
              /\ call[d].at = "insert" /\ call[d].source \in Turns \ Pulls
              /\ Open(call[d].source) = {}
              => Open(call[d].source)' = {}
    PROVE  QueueInv'
  <1> DEFINE moved == {}
  <1>1. moved \in SUBSET Caller /\ \A d : d \notin moved
    OBVIOUS
  <1> HIDE DEF moved
  <1> QED BY <1>1, ChangeStep

\* What a call wants of its row, and what it gets.
LEMMA UpdatedRow ==
    ASSUME TypeOK, NEW w \in CallType, w.at = "write"
    PROVE  /\ Updated(w) \in [RowId -> Row \cup {NoRow}]
           /\ \A i \in RowId \ {w.id} : Updated(w)[i] = rows[i]
           /\ ~IsRow(w.id) => Updated(w)[w.id] = NoRow
           /\ IsRow(w.id) =>
                /\ Updated(w)[w.id] \in Row /\ Updated(w)[w.id].source = rows[w.id].source
                /\ Updated(w)[w.id].status = IF w.status = Keep THEN rows[w.id].status ELSE w.status
                /\ Updated(w)[w.id].notes = IF w.notes = Keep THEN rows[w.id].notes ELSE w.notes
  <1>1. /\ w.id \in RowId /\ w.status \in Status \cup {Keep}
        /\ w.pr \in PR \cup {NoPR, Keep} /\ w.notes \in Seq(Text) \cup {Keep}
        /\ rows \in [RowId -> Row \cup {NoRow}]
    BY Kinds DEF TypeOK
  <1>2. CASE ~IsRow(w.id)
    BY <1>1, <1>2 DEF Updated, IsRow
  <1>3. CASE IsRow(w.id)
    <2> DEFINE r == [source |-> rows[w.id].source,
                     status |-> IF w.status = Keep THEN rows[w.id].status ELSE w.status,
                     pr |-> IF w.pr = Keep THEN rows[w.id].pr ELSE w.pr,
                     notes |-> IF w.notes = Keep THEN rows[w.id].notes ELSE w.notes]
    <2>1. /\ rows[w.id].source \in Source /\ rows[w.id].status \in Status
          /\ rows[w.id].pr \in PR \cup {NoPR} /\ rows[w.id].notes \in Seq(Text)
      BY <1>1, <1>3, TypedRows
    <2>2. /\ r \in Row /\ r.source = rows[w.id].source
          /\ r.status = IF w.status = Keep THEN rows[w.id].status ELSE w.status
          /\ r.notes = IF w.notes = Keep THEN rows[w.id].notes ELSE w.notes
      BY <1>1, <2>1 DEF Row
    <2>3. Updated(w) = [rows EXCEPT ![w.id] = r]
      BY <1>1, <1>3 DEF Updated
    <2> HIDE DEF r
    <2> QED BY <1>1, <1>3, <2>2, <2>3
  <1> QED BY <1>2, <1>3

\* The UPDATE, or its failure: the row may have changed since it was read, but if
\* its ticket is in turns it has not.
LEMMA WriteRowInv == ASSUME QueueInv, NEW c \in Caller, WriteRow(c) PROVE QueueInv'
  <1> DEFINE w == call[c]
             new == Onward(w)
  <1>1. /\ w.at = "write" /\ w \in CallType /\ CallInv(w) /\ TypeOK /\ RowsInv
        /\ w.id \in RowId /\ w.status \in Status \cup {Keep}
        /\ w.pr \in PR \cup {NoPR, Keep} /\ w.notes \in Seq(Text) \cup {Keep}
        /\ w.todo \subseteq RowId \X Number
        /\ RowsOf(w) = {w.id} \cup {x[1] : x \in w.todo}
    <2>1. w.at = "write" /\ w \in CallType /\ CallInv(w) /\ TypeOK /\ RowsInv
      BY DEF WriteRow, QueueInv, TypeOK
    <2> QED BY <2>1, Kinds, RowsOfKinds
  <1>2. /\ last' = last /\ merged' = merged /\ toBoard' = toBoard
        /\ call' = [call EXCEPT ![c] = new]
        /\ \/ rows' = Updated(w) /\ pending' = pending \cup Syncs(w)
           \/ rows' = rows /\ pending' = pending
    BY DEF WriteRow, Goto
  <1>3. \A i \in RowId : IsRow(i) =>
           /\ rows[i] \in Row /\ rows[i].source \in Source /\ rows[i].status \in Status
           /\ rows[i].pr \in PR \cup {NoPR} /\ rows[i].notes \in Seq(Text)
    BY <1>1, TypedRows
  <1>4. /\ rows' \in [RowId -> Row \cup {NoRow}]
        /\ \A i \in RowId \ {w.id} : rows'[i] = rows[i]
        /\ ~IsRow(w.id) => rows'[w.id] = NoRow
        /\ IsRow(w.id) => /\ rows'[w.id] \in Row /\ rows'[w.id].source = rows[w.id].source
                          /\ \/ rows'[w.id].status = rows[w.id].status
                             \/ w.status # Keep /\ rows'[w.id].status = w.status
                          /\ \/ rows'[w.id].notes = rows[w.id].notes
                             \/ w.notes # Keep /\ rows'[w.id].notes = w.notes
        /\ pending' \subseteq RowId /\ pending \subseteq pending'
        /\ \A i \in pending' \ pending : i = w.id /\ rows'[i].status = "done"
    <2>1. CASE rows' = Updated(w) /\ pending' = pending \cup Syncs(w)
      <3>1. "done" # Keep
        BY Sentinels DEF Status
      <3>2. \A i \in Syncs(w) : i = w.id /\ w.status = "done" /\ IsRow(i)
        BY DEF Syncs, InTurns
      <3> HIDE DEF w
      <3> QED BY <1>1, <2>1, <3>1, <3>2, UpdatedRow DEF TypeOK
    <2>2. CASE rows' = rows /\ pending' = pending
      <3> HIDE DEF w
      <3> QED BY <1>1, <1>3, <2>2 DEF TypeOK, IsRow
    <2> QED BY <1>2, <2>1, <2>2
  <1>5. \A i \in RowId : /\ IsRow(i)' = IsRow(i)
                         /\ IsRow(i) => rows'[i].source = rows[i].source /\ rows'[i] \in Row
                         /\ InTurns(i)' = InTurns(i)
    BY <1>3, <1>4, Sentinels DEF IsRow, InTurns
  <1>6. /\ new \in CallType /\ call' \in [Caller -> CallType] /\ call'[c] = new
        /\ \A d \in Caller \ {c} : call'[d] = call[d]
        /\ w.todo = {} => new = Idle
        /\ w.todo # {} => new.at = "annotate" /\ new.todo = w.todo
    BY <1>1, <1>2 DEF CallType, TypeOK, Onward
  <1>7. TypeOK'
    BY <1>1, <1>2, <1>4, <1>6 DEF TypeOK
  <1>8. /\ w.notes # Keep => TrueNotes(w.notes)
        /\ InTurns(w.id) => /\ w.status # Keep => CanTransition(rows[w.id].status, w.status)
                            /\ w.notes # Keep => Once(w.notes)
        /\ \A x \in w.todo : /\ IsMerged(x[2])
                             /\ InTurns(x[1]) =>
                                  /\ ~Contains(rows[x[1]].notes, Merged(x[2]))
                                  /\ w.notes # Keep /\ x[1] = w.id => ~Contains(w.notes, Merged(x[2]))
    BY <1>1 DEF CallInv, TrueCall, TimelyCall
  <1> HIDE DEF w, new
  <1>9. RowsInv'
    <2>1. \A i \in RowId : (i > last => ~IsRow(i))'
      BY <1>1, <1>2, <1>5 DEF RowsInv
    <2>2. (toBoard \cup pending \subseteq 1..last)'
      BY <1>1, <1>2, <1>4 DEF RowsInv, CallInv
    <2>3. MergeNotesAreTrue'
      BY <1>1, <1>2, <1>4, <1>5, <1>8 DEF RowsInv, MergeNotesAreTrue, TrueNotes, IsMerged
    <2>4. SyncsAgree'
      <3> SUFFICES ASSUME NEW i \in (toBoard \cup pending)', InTurns(i)'
                   PROVE  rows'[i].status = "done"
        BY DEF SyncsAgree, InTurns
      <3>1. i \in RowId /\ InTurns(i)
        BY <1>1, <1>2, <1>4, <1>5 DEF TypeOK
      <3>2. i \in toBoard \cup pending => rows[i].status = "done"
        BY <1>1, <3>1 DEF RowsInv, SyncsAgree
      <3>3. \A s : CanTransition("done", s) => s = "done"
        BY DEF CanTransition, Transitions
      <3>4. i \in toBoard \cup pending => rows'[i].status = "done"
        BY <1>4, <1>8, <3>1, <3>2, <3>3 DEF InTurns
      <3> QED BY <1>2, <1>4, <3>4
    <2>5. \A i \in RowId : (InTurns(i) => Once(rows[i].notes))'
      <3> SUFFICES ASSUME NEW i \in RowId, InTurns(i) PROVE Once(rows'[i].notes)
        BY <1>5 DEF Once
      <3> QED BY <1>1, <1>4, <1>8 DEF RowsInv, InTurns
    <2>6. \A s \in Turns : Open(s)' \subseteq Open(s)
      <3> SUFFICES ASSUME NEW s \in Turns, NEW i \in Open(s)' PROVE i \in Open(s)
        OBVIOUS
      <3>1. i \in RowId /\ IsRow(i)' /\ rows'[i].source = s /\ rows'[i].status \in Status \ Closed
        BY DEF Open, OpenRows
      <3>2. IsRow(i) /\ rows[i].source = s /\ InTurns(i) /\ rows[i].status \in Status
        BY <1>3, <1>5, <3>1 DEF InTurns
      <3>3. rows[i].status \notin Closed
        <4>1. CASE i = w.id /\ w.status # Keep /\ rows'[i].status = w.status
          <5>1. CanTransition(rows[i].status, w.status) /\ w.status \notin Closed
            BY <1>4, <1>8, <3>1, <3>2, <4>1
          <5> QED BY <5>1 DEF CanTransition, Transitions, Closed
        <4>2. CASE rows'[i].status = rows[i].status
          BY <3>1, <4>2
        <4> QED BY <1>4, <3>1, <3>2, <4>1, <4>2 DEF InTurns
      <3> QED BY <3>1, <3>2, <3>3 DEF Open, OpenRows
    <2>7. (\A s \in Turns \ Pulls : \A i, j \in Open(s) : i = j)'
      BY <1>1, <2>6 DEF RowsInv
    <2> QED BY <2>1, <2>2, <2>3, <2>4, <2>5, <2>7 DEF RowsInv
  <1>10. CallInv(call[c])'
    <2>1. CASE w.todo = {}
      <3>1. RowsOf(Idle) = {} /\ Idle.at = "idle"
        BY RowsOfKinds, <1>6, <2>1 DEF Idle
      <3> QED BY <1>6, <2>1, <3>1 DEF CallInv, TrueCall, TimelyCall
    <2>2. CASE w.todo # {}
      <3>1. new.at = "annotate" /\ new.todo = w.todo /\ RowsOf(new) \subseteq 1..last
        BY <1>1, <1>6, <2>2, RowsOfKinds DEF CallInv
      <3>2. \A x \in w.todo : IsMerged(x[2])'
        BY <1>2, <1>8 DEF IsMerged
      <3>3. ASSUME NEW x \in w.todo, InTurns(x[1])' PROVE ~Contains(rows'[x[1]].notes, Merged(x[2]))
        <4>1. x[1] \in RowId /\ InTurns(x[1])
          BY <1>1, <1>5, <3>3
        <4> QED BY <1>4, <1>8, <4>1 DEF InTurns
      <3> QED BY <1>2, <1>6, <3>1, <3>2, <3>3 DEF CallInv, TrueCall, TimelyCall
    <2> QED BY <2>1, <2>2
  <1>11. InHand(call[c])' \cap Turns \subseteq InHand(call[c])
    <2>1. RowsOf(new) \subseteq RowsOf(w) /\ RowsOf(w) \subseteq RowId /\ new.at # "insert"
      BY <1>1, <1>6, RowsOfKinds DEF Idle
    <2>2. InHand(new) \subseteq InHand(w)
      BY <1>1, <1>6, <2>1, Hands
    <2>3. ASSUME NEW k \in CallType, k = new PROVE InHand(k)' \subseteq InHand(w)
      BY <1>5, <2>1, <2>2, <2>3, HandsKept
    <2> QED BY <1>6, <2>3 DEF w
  <1>12. ASSUME NEW d \in Caller \ {c}
         PROVE  /\ call[d] \in CallType /\ RowsOf(call[d]) \subseteq RowId
                /\ InTurns(w.id) => rows[w.id].source \notin InHand(call[d])
    <2>1. call[d] \in CallType /\ RowsOf(call[d]) \subseteq RowId
      BY <1>1, RowsOfKinds DEF TypeOK
    <2>2. InTurns(w.id) => rows[w.id].source \in InHand(w)
      BY <1>1, Hands DEF InTurns
    <2> QED BY <2>1, <2>2 DEF QueueInv, w, InTurns
  <1>13. ASSUME NEW d \in Caller \ {c}, NEW i \in RowsOf(call[d]), IsRow(i)'
         PROVE  /\ IsRow(i) /\ rows'[i].source = rows[i].source
                /\ rows[i].source \in Turns => /\ rows'[i].status = rows[i].status
                                               /\ rows'[i].notes = rows[i].notes
    <2>1. i \in RowId /\ IsRow(i) /\ rows'[i].source = rows[i].source
      BY <1>5, <1>12, <1>13
    <2>2. rows[i].source \in Turns => i # w.id
      BY <1>12, <2>1, Hands DEF InTurns
    <2> QED BY <1>4, <2>1, <2>2
  <1>14. ASSUME NEW d \in Caller \ {c}, call[d].at = "insert", call[d].source \in Turns \ Pulls,
                Open(call[d].source) = {}
         PROVE  Open(call[d].source)' = {}
    <2> DEFINE s == call[d].source
    <2>1. s \in InHand(call[d]) /\ call'[d] = call[d]
      BY <1>6, <1>12, <1>14, Hands
    <2>2. ASSUME NEW i \in RowId, IsRow(i)', rows'[i].source = s, rows'[i].status \in Status \ Closed
          PROVE  FALSE
      <3>1. IsRow(i) /\ rows[i].source = s /\ InTurns(i)
        BY <1>5, <1>14, <2>2 DEF InTurns
      <3>2. i # w.id
        BY <1>12, <2>1, <3>1
      <3> QED BY <1>4, <1>14, <2>2, <3>1, <3>2 DEF Open, OpenRows
    <2> QED BY <2>1, <2>2 DEF Open, OpenRows
  <1> QED
    <2>1. last <= last' /\ merged \subseteq merged'
      BY <1>1, <1>2, Ids DEF TypeOK
    <2> QED BY <1>6, <1>7, <1>9, <1>10, <1>11, <1>13, <1>14, <2>1, MovedStep

\* One UPDATE claims the rows there are: nobody else has the ticket in hand.
LEMMA DelegateInv ==
    ASSUME QueueInv, NEW c \in Caller, NEW source \in Source, Delegate(c, source)
    PROVE  QueueInv'
  <1> DEFINE open == OpenRows(source, {"queued", "assigned"})
  <1>1. source \in Pulls /\ Begins(c, {source}) /\ UNCHANGED <<last, merged, board>>
    BY DEF Delegate
  <1>2. CASE open = {}
    BY <1>1, <1>2, InsertBegins DEF Delegate
  <1>3. CASE open # {}
    <2>1. /\ rows' = [i \in RowId |-> IF i \in open THEN [rows[i] EXCEPT !.status = "assigned"]
                                                    ELSE rows[i]]
          /\ call' = call
      BY <1>3 DEF Delegate
    <2>2. \A i \in open : /\ i \in RowId /\ IsRow(i) /\ rows[i].source = source
                          /\ rows[i].status \in {"queued", "assigned"} /\ rows[i] \in Row
      BY TypedRows DEF OpenRows, QueueInv
    <2> HIDE DEF open
    <2>3. /\ \A i \in RowId \ open : rows'[i] = rows[i]
          /\ \A i \in open : /\ rows'[i].source = source /\ rows'[i].status = "assigned"
                             /\ rows'[i].notes = rows[i].notes /\ rows'[i] \in Row
      BY <2>1, <2>2 DEF Row, Status
    <2>4. \A i \in RowId : /\ IsRow(i)' = IsRow(i)
                           /\ IsRow(i) => /\ rows'[i].source = rows[i].source
                                          /\ rows'[i].notes = rows[i].notes
                           /\ InTurns(i)' = InTurns(i)
      BY <2>2, <2>3, Sentinels DEF IsRow, InTurns
    <2>5. TypeOK'
      <3>1. rows' \in [RowId -> Row \cup {NoRow}]
        BY <2>1, <2>3 DEF QueueInv, TypeOK
      <3> QED BY <1>1, <2>1, <3>1 DEF QueueInv, TypeOK, board
    <2>6. RowsInv'
      <3>1. RowsInv
        BY DEF QueueInv
      <3>2. \A i \in RowId : (i > last => ~IsRow(i))' /\ (InTurns(i) => Once(rows[i].notes))'
        BY <1>1, <2>4, <3>1 DEF RowsInv, Once, InTurns
      <3>3. (toBoard \cup pending \subseteq 1..last)'
        BY <1>1, <3>1 DEF RowsInv, board
      <3>4. MergeNotesAreTrue'
        BY <1>1, <2>4, <3>1 DEF RowsInv, MergeNotesAreTrue
      <3>5. SyncsAgree'
        BY <1>1, <2>2, <2>3, <2>4, <3>1 DEF RowsInv, SyncsAgree, QueueInv, TypeOK, board
      <3>6. ASSUME NEW s \in Turns \ Pulls PROVE Open(s)' \subseteq Open(s)
        BY <1>1, <2>2, <2>3, <2>4 DEF Open, OpenRows
      <3>7. (\A s \in Turns \ Pulls : \A i, j \in Open(s) : i = j)'
        BY <3>1, <3>6 DEF RowsInv
      <3> QED BY <3>2, <3>3, <3>4, <3>5, <3>7 DEF RowsInv
    <2>7. ASSUME NEW d \in Caller, NEW i \in RowsOf(call[d]), IsRow(i)'
          PROVE  /\ IsRow(i) /\ rows'[i].source = rows[i].source
                 /\ rows[i].source \in Turns => /\ rows'[i].status = rows[i].status
                                                /\ rows'[i].notes = rows[i].notes
      <3>1. call[d] \in CallType /\ i \in RowId /\ IsRow(i)
        BY <2>4, <2>7, RowsOfKinds DEF QueueInv, TypeOK
      <3>2. rows[i].source \in InHand(call[d])
        BY <3>1, Hands
      <3>3. rows[i].source \in Turns => i \notin open
        BY <1>1, <2>2, <3>2 DEF Begins, InTurn
      <3> QED BY <2>3, <2>4, <3>1, <3>3
    <2>8. ASSUME NEW d \in Caller, call[d].at = "insert", call[d].source \in Turns \ Pulls,
                 Open(call[d].source) = {}
          PROVE  Open(call[d].source)' = {}
      <3>1. Open(call[d].source)' \subseteq Open(call[d].source)
        BY <1>1, <2>1, <2>2, <2>3, <2>4, <2>8 DEF Open, OpenRows
      <3> QED BY <2>8, <3>1
    <2>9. last <= last' /\ merged \subseteq merged'
      BY <1>1, Ids DEF QueueInv, TypeOK
    <2> QED BY <2>1, <2>5, <2>6, <2>7, <2>8, <2>9, UnmovedStep
  <1> QED BY <1>2, <1>3

LEMMA ClearInv ==
    ASSUME QueueInv, NEW old \in SUBSET RowId, ClearCompleted(old)
    PROVE  QueueInv'
  <1>1. /\ \A i \in RowId : rows'[i] = IF i \in old THEN NoRow ELSE rows[i]
        /\ UNCHANGED <<last, merged, board, call>> /\ TypeOK /\ RowsInv
        /\ rows' \in [RowId -> Row \cup {NoRow}] /\ UNCHANGED <<pending, toBoard>>
    BY DEF ClearCompleted, QueueInv, TypeOK, board
  <1>2. \A i \in RowId : /\ IsRow(i)' => IsRow(i) /\ i \notin old /\ rows'[i] = rows[i]
                         /\ InTurns(i)' => InTurns(i)
    BY <1>1 DEF IsRow, InTurns
  <1>3. TypeOK'
    BY <1>1 DEF TypeOK
  <1>4. RowsInv'
    <2>1. \A i \in RowId : (i > last => ~IsRow(i))' /\ (InTurns(i) => Once(rows[i].notes))'
      BY <1>1, <1>2 DEF RowsInv, Once, InTurns
    <2>2. (toBoard \cup pending \subseteq 1..last)'
      BY <1>1 DEF RowsInv
    <2>3. MergeNotesAreTrue'
      BY <1>1, <1>2 DEF RowsInv, MergeNotesAreTrue
    <2>6. SyncsAgree'
      <3>1. \A i \in toBoard \cup pending : i \in RowId
        BY <1>1 DEF TypeOK
      <3>2. \A i \in RowId : InTurns(i)' => InTurns(i) /\ rows'[i] = rows[i]
        BY <1>2 DEF InTurns
      <3> QED BY <1>1, <3>1, <3>2 DEF RowsInv, SyncsAgree
    <2>4. ASSUME NEW s \in Turns PROVE Open(s)' \subseteq Open(s)
      BY <1>1, <1>2 DEF Open, OpenRows
    <2>5. (\A s \in Turns \ Pulls : \A i, j \in Open(s) : i = j)'
      BY <1>1, <2>4 DEF RowsInv
    <2> QED BY <2>1, <2>2, <2>3, <2>5, <2>6 DEF RowsInv
  <1>5. ASSUME NEW d \in Caller, NEW i \in RowsOf(call[d]), IsRow(i)'
        PROVE  /\ IsRow(i) /\ rows'[i].source = rows[i].source
               /\ rows[i].source \in Turns => /\ rows'[i].status = rows[i].status
                                              /\ rows'[i].notes = rows[i].notes
    <2>1. i \in RowId
      BY <1>1, <1>5, RowsOfKinds DEF TypeOK
    <2> QED BY <1>2, <1>5, <2>1
  <1>6. ASSUME NEW d \in Caller, call[d].at = "insert", call[d].source \in Turns \ Pulls,
               Open(call[d].source) = {}
        PROVE  Open(call[d].source)' = {}
    <2>1. Open(call[d].source)' \subseteq Open(call[d].source)
      BY <1>1, <1>2 DEF Open, OpenRows
    <2> QED BY <1>6, <2>1
  <1>7. last <= last' /\ merged \subseteq merged'
    BY <1>1, Ids DEF TypeOK
  <1> QED BY <1>1, <1>3, <1>4, <1>5, <1>6, <1>7, UnmovedStep

\* A sync that gets to the board, or is lost, leaves the rows alone.
LEMMA SyncInv == ASSUME QueueInv, NEW i \in pending, SyncBoard(i) PROVE QueueInv'
  <1>1. /\ UNCHANGED <<rows, last, merged, call>> /\ TypeOK /\ RowsInv
        /\ pending' \subseteq pending /\ (toBoard \cup pending)' \subseteq toBoard \cup pending
    BY DEF SyncBoard, QueueInv
  <1>2. TypeOK'
    BY <1>1 DEF TypeOK
  <1>3. \A j : IsRow(j)' = IsRow(j) /\ InTurns(j)' = InTurns(j)
    BY <1>1 DEF IsRow, InTurns
  <1>4. \A s : Open(s)' = Open(s)
    BY <1>1, <1>3 DEF Open, OpenRows
  <1>5. RowsInv'
    <2>1. \A j \in RowId : (j > last => ~IsRow(j))' /\ (InTurns(j) => Once(rows[j].notes))'
      BY <1>1, <1>3 DEF RowsInv, Once
    <2>2. (toBoard \cup pending \subseteq 1..last)' /\ MergeNotesAreTrue' /\ SyncsAgree'
      BY <1>1, <1>3 DEF RowsInv, MergeNotesAreTrue, SyncsAgree
    <2>3. (\A s \in Turns \ Pulls : \A j, k \in Open(s) : j = k)'
      BY <1>1, <1>4 DEF RowsInv
    <2> QED BY <2>1, <2>2, <2>3 DEF RowsInv
  <1>6. last <= last' /\ merged \subseteq merged'
    BY <1>1, Ids DEF TypeOK
  <1>7. \A d \in Caller : Open(call[d].source)' = Open(call[d].source)
    BY <1>1, <1>4
  <1> QED BY <1>1, <1>2, <1>3, <1>5, <1>6, <1>7, UnmovedStep

LEMMA MergeInv == ASSUME QueueInv, NEW pr \in PR, Merge(pr) PROVE QueueInv'
  <1>1. /\ merged' = merged \cup {pr} /\ UNCHANGED <<rows, last, pending, toBoard, call>>
        /\ TypeOK /\ RowsInv
    BY DEF Merge, QueueInv, board
  <1>2. TypeOK'
    BY <1>1 DEF TypeOK
  <1>3. \A i : IsRow(i)' = IsRow(i) /\ InTurns(i)' = InTurns(i)
    BY <1>1 DEF IsRow, InTurns
  <1>4. \A s : Open(s)' = Open(s)
    BY <1>1, <1>3 DEF Open, OpenRows
  <1>5. RowsInv'
    <2>1. \A i \in RowId : (i > last => ~IsRow(i))' /\ (InTurns(i) => Once(rows[i].notes))'
      BY <1>1, <1>3 DEF RowsInv, Once
    <2>2. (toBoard \cup pending \subseteq 1..last)' /\ MergeNotesAreTrue' /\ SyncsAgree'
      BY <1>1, <1>3 DEF RowsInv, MergeNotesAreTrue, SyncsAgree
    <2>3. (\A s \in Turns \ Pulls : \A i, j \in Open(s) : i = j)'
      BY <1>1, <1>4 DEF RowsInv
    <2> QED BY <2>1, <2>2, <2>3 DEF RowsInv
  <1>6. last <= last' /\ merged \subseteq merged'
    BY <1>1, Ids DEF TypeOK
  <1>7. \A d \in Caller : Open(call[d].source)' = Open(call[d].source)
    BY <1>1, <1>4
  <1> QED BY <1>1, <1>2, <1>3, <1>5, <1>6, <1>7, UnmovedStep

\* The new row has the next id, which no call has read.
LEMMA InsertRowInv == ASSUME QueueInv, NEW c \in Caller, InsertRow(c) PROVE QueueInv'
  <1> DEFINE n == last + 1
             k == call[c]
  <1>1. /\ k.at = "insert" /\ k \in CallType /\ k.source \in Source
        /\ k.status \in {"queued", "assigned"} /\ CallInv(k) /\ k.source \in InHand(k)
        /\ TypeOK /\ RowsInv
    BY Kinds, Hands DEF InsertRow, QueueInv, TypeOK
  <1>2. /\ n \in RowId /\ last' = n /\ UNCHANGED <<merged, pending, toBoard>>
        /\ rows' = [rows EXCEPT ![n] = [source |-> k.source, status |-> k.status,
                                        pr |-> NoPR, notes |-> <<>>]]
        /\ call' = [call EXCEPT ![c] = Idle]
    BY DEF InsertRow, Goto, board
  <1>3. last \in Nat /\ n \in Nat /\ n > last /\ n \notin 1..last /\ 1..last \subseteq 1..n
    BY <1>1, Ids DEF TypeOK
  <1> HIDE DEF n, k
  <1>4. /\ \A i \in RowId \ {n} : rows'[i] = rows[i]
        /\ rows'[n] = [source |-> k.source, status |-> k.status, pr |-> NoPR, notes |-> <<>>]
        /\ rows'[n] \in Row /\ rows' \in [RowId -> Row \cup {NoRow}]
    BY <1>1, <1>2 DEF TypeOK, Row, Status
  <1>5. rows'[n].source = k.source /\ rows'[n].status = k.status /\ rows'[n].notes = <<>>
    BY <1>4
  <1>6. /\ call' \in [Caller -> CallType] /\ call'[c] = Idle
        /\ \A d \in Caller \ {c} : call'[d] = call[d]
    BY <1>1, <1>2, IdleInv DEF TypeOK
  <1>7. TypeOK'
    BY <1>1, <1>2, <1>4, <1>6 DEF TypeOK
  <1>8. \A i \in RowId \ {n} : IsRow(i)' = IsRow(i) /\ InTurns(i)' = InTurns(i)
    BY <1>4 DEF IsRow, InTurns
  <1>9. ~IsRow(n)
    BY <1>1, <1>2, <1>3 DEF RowsInv
  <1>10. RowsInv'
    <2>1. \A i \in RowId : (i > last => ~IsRow(i))'
      <3> SUFFICES ASSUME NEW i \in RowId, i > n PROVE ~IsRow(i)'
        BY <1>2
      <3>1. i \in Nat /\ i # n /\ i > last
        BY <1>3, Ids
      <3> QED BY <1>1, <1>8, <3>1 DEF RowsInv
    <2>2. (toBoard \cup pending \subseteq 1..last)' /\ n \notin (toBoard \cup pending)'
      BY <1>1, <1>2, <1>3 DEF RowsInv
    <2>3. (\A e : ~Contains(<<>>, e)) /\ Once(<<>>)
      BY DEF Contains, Once
    <2>4. MergeNotesAreTrue'
      <3> SUFFICES ASSUME NEW i \in RowId, NEW m \in Number, IsRow(i)',
                          Contains(rows'[i].notes, Merged(m))
                   PROVE  \E repo \in Repo : <<repo, m>> \in merged
        BY <1>2 DEF MergeNotesAreTrue
      <3>1. i # n
        BY <1>5, <2>3
      <3> QED BY <1>1, <1>4, <1>8, <3>1 DEF RowsInv, MergeNotesAreTrue
    <2>5. SyncsAgree'
      <3>1. \A i \in (toBoard \cup pending)' : i \in toBoard \cup pending /\ i \in RowId \ {n}
        BY <1>1, <1>2, <2>2 DEF TypeOK
      <3> QED BY <1>1, <1>4, <1>8, <3>1 DEF RowsInv, SyncsAgree
    <2>6. \A i \in RowId : (InTurns(i) => Once(rows[i].notes))'
      <3> SUFFICES ASSUME NEW i \in RowId, InTurns(i)' PROVE Once(rows'[i].notes)
        BY DEF Once
      <3> QED BY <1>1, <1>4, <1>5, <1>8, <2>3 DEF RowsInv
    <2>7. (\A s \in Turns \ Pulls : \A i, j \in Open(s) : i = j)'
      <3> SUFFICES ASSUME NEW s \in Turns \ Pulls, NEW i \in Open(s)', NEW j \in Open(s)' PROVE i = j
        OBVIOUS
      <3>1. \A x \in Open(s)' : x \in Open(s) \/ x = n
        BY <1>4, <1>8 DEF Open, OpenRows
      <3>2. n \in Open(s)' => s = k.source
        BY <1>5 DEF Open, OpenRows
      <3>3. s = k.source => Open(s) = {}
        BY <1>1 DEF CallInv, TimelyCall
      <3> QED BY <1>1, <3>1, <3>2, <3>3 DEF RowsInv
    <2> QED BY <2>1, <2>2, <2>4, <2>5, <2>6, <2>7 DEF RowsInv
  <1>11. CallInv(call[c])' /\ InHand(call[c])' = {}
    <2>1. RowsOf(Idle) = {} /\ Idle.at = "idle"
      BY DEF RowsOf, Idle
    <2> QED BY <1>6, <2>1 DEF CallInv, TrueCall, TimelyCall, InHand, SourcesOf
  <1>12. ASSUME NEW d \in Caller \ {c}, NEW i \in RowsOf(call[d]), IsRow(i)'
         PROVE  /\ IsRow(i) /\ rows'[i].source = rows[i].source
                /\ rows[i].source \in Turns => /\ rows'[i].status = rows[i].status
                                               /\ rows'[i].notes = rows[i].notes
    <2>1. i \in RowId /\ i \in 1..last
      BY <1>1, <1>12, RowsOfKinds DEF TypeOK, QueueInv, CallInv
    <2>2. i # n
      BY <2>1, <1>3
    <2> QED BY <1>4, <1>8, <1>12, <2>1, <2>2
  <1>13. ASSUME NEW d \in Caller \ {c}, call[d].at = "insert", call[d].source \in Turns \ Pulls,
                Open(call[d].source) = {}
         PROVE  Open(call[d].source)' = {}
    <2>1. call[d].source \in InHand(call[d])
      BY <1>1, <1>13, Hands DEF TypeOK
    <2>2. call[d].source # k.source
      BY <1>1, <1>13, <2>1 DEF QueueInv, k
    <2>3. Open(call[d].source)' \subseteq Open(call[d].source)
      BY <1>4, <1>5, <1>6, <1>8, <2>2 DEF Open, OpenRows
    <2> QED BY <1>13, <2>3
  <1>14. last <= last' /\ merged \subseteq merged'
    BY <1>2, <1>3
  <1> QED BY <1>6, <1>7, <1>10, <1>11, <1>12, <1>13, <1>14, MovedStep

-----------------------------------------------------------------------------
(* The queue: the theorems                                                 *)

LEMMA QueueNextInv == ASSUME QueueInv, [Next]_vars PROVE QueueInv'
  <1>1. CASE UNCHANGED vars
    <2>1. UNCHANGED <<rows, last, merged, pending, toBoard, call>>
      BY <1>1 DEF vars, board
    <2>2. TypeOK' /\ RowsInv'
      <3>1. \A i : IsRow(i)' = IsRow(i) /\ InTurns(i)' = InTurns(i)
        BY <2>1 DEF IsRow, InTurns
      <3>2. \A s : Open(s)' = Open(s)
        BY <2>1, <3>1 DEF Open, OpenRows
      <3>3. \A i \in RowId : (i > last => ~IsRow(i))' /\ (InTurns(i) => Once(rows[i].notes))'
        BY <2>1, <3>1 DEF QueueInv, RowsInv, Once
      <3>4. (toBoard \cup pending \subseteq 1..last)' /\ MergeNotesAreTrue' /\ SyncsAgree'
        BY <2>1, <3>1 DEF QueueInv, RowsInv, MergeNotesAreTrue, SyncsAgree
      <3>5. (\A s \in Turns \ Pulls : \A i, j \in Open(s) : i = j)'
        BY <3>2 DEF QueueInv, RowsInv
      <3>6. TypeOK'
        BY <2>1 DEF QueueInv, TypeOK
      <3> QED BY <3>3, <3>4, <3>5, <3>6 DEF RowsInv
    <2>3. \A d \in Caller : Open(call[d].source)' = Open(call[d].source)
      BY <2>1 DEF Open, OpenRows, IsRow
    <2>4. \A i : IsRow(i)' => IsRow(i)
      BY <2>1 DEF IsRow
    <2>5. last <= last' /\ merged \subseteq merged'
      BY <2>1, Ids DEF QueueInv, TypeOK
    <2> QED BY <2>1, <2>2, <2>3, <2>4, <2>5, UnmovedStep
  <1>2. ASSUME NEW c \in Caller, NEW i \in RowId, NEW u \in Update,
               ToolUpdate(c, i, u) \/ RouteUpdate(c, i, u)
        PROVE  QueueInv'
    BY <1>2, ToolUpdateInv, RouteUpdateInv
  <1>3. ASSUME NEW c \in Caller, NEW s \in Source, Add(c, s) \/ Delegate(c, s) PROVE QueueInv'
    BY <1>3, AddInv, DelegateInv
  <1>4. ASSUME NEW c \in Caller, NEW s \in Source, NEW assign \in BOOLEAN, Pull(c, s, assign)
        PROVE  QueueInv'
    BY <1>4, PullInv
  <1>5. ASSUME NEW c \in Caller, WriteRow(c) \/ InsertRow(c) PROVE QueueInv'
    BY <1>5, WriteRowInv, InsertRowInv
  <1>6. ASSUME NEW c \in Caller, FetchInFlight(c) \/ AskGitHub(c) \/ Annotate(c) PROVE QueueInv'
    BY <1>6, FetchInv, AskInv, AnnotateInv
  <1>7. ASSUME NEW old \in SUBSET RowId, ClearCompleted(old) PROVE QueueInv'
    BY <1>7, ClearInv
  <1>8. ASSUME NEW pr \in PR, Merge(pr) PROVE QueueInv'
    BY <1>8, MergeInv
  <1>9. ASSUME NEW i \in pending, SyncBoard(i) PROVE QueueInv'
    BY <1>9, SyncInv
  <1> QED BY <1>1, <1>2, <1>3, <1>4, <1>5, <1>6, <1>7, <1>8, <1>9 DEF Next

\* However many handlers overlap, what a handler is about to write is true, and of a
\* ticket in turns it fits the row.
THEOREM QueueInvariance == Spec => []QueueInv
  BY QueueInitInv, QueueNextInv, PTL DEF Spec

\* The rows, the calls and the ids have their types.
THEOREM QueueTypes == Spec => []TypeOK
  <1>1. QueueInv => TypeOK
    BY DEF QueueInv
  <1> QED BY <1>1, QueueInvariance, PTL

\* However the handlers overlap, a row's merge note names a merged pull request.
THEOREM TrueMergeNotes == Spec => []MergeNotesAreTrue
  <1>1. QueueInv => MergeNotesAreTrue
    BY DEF QueueInv, RowsInv
  <1> QED BY <1>1, QueueInvariance, PTL

\* Of a ticket in turns no row has the note of one merge twice.
THEOREM NoSecondNote == Spec => []MergeNotedOnce
  <1>1. ASSUME QueueInv PROVE MergeNotedOnce
    <2> SUFFICES ASSUME NEW i \in RowId, NEW n \in Number, InTurns(i)
                 PROVE  Cardinality({j \in DOMAIN rows[i].notes : rows[i].notes[j] = Merged(n)}) <= 1
      BY DEF MergeNotedOnce, InTurns
    <2> DEFINE noted == {j \in DOMAIN rows[i].notes : rows[i].notes[j] = Merged(n)}
    <2>1. \A j, k \in noted : j = k
      BY <1>1 DEF QueueInv, RowsInv, Once
    <2> HIDE DEF noted
    <2>2. Cardinality(noted) <= 1
      BY <2>1, AtMostOne
    <2> QED BY <2>2 DEF noted
  <1> QED BY <1>1, QueueInvariance, PTL

\* However late its sync, and whatever fails, a row of a ticket in turns whose
\* completion got to the board is done.
THEOREM BoardAndQueueAgree == Spec => []BoardAgrees
  <1>1. QueueInv => BoardAgrees
    BY DEF QueueInv, RowsInv, SyncsAgree, BoardAgrees
  <1> QED BY <1>1, QueueInvariance, PTL

\* A ticket in turns that nobody pulls has at most one open row.
THEOREM NoDoubleQueueing == Spec => []OneOpenRowPerSource
  <1>1. ASSUME QueueInv PROVE OneOpenRowPerSource
    <2> SUFFICES ASSUME NEW s \in Turns \ Pulls PROVE Cardinality(Open(s)) <= 1
      BY DEF OneOpenRowPerSource, Open
    <2>1. \A i, j \in Open(s) : i = j
      BY <1>1 DEF QueueInv, RowsInv
    <2> QED BY <2>1, AtMostOne
  <1> QED BY <1>1, QueueInvariance, PTL

\* A write carries the status that its handler read the row to allow.
LEMMA WriteMoves ==
    ASSUME QueueInv, NEW c \in Caller, WriteRow(c), NEW i \in RowId, IsRow(i)
    PROVE  /\ rows'[i] # NoRow
           /\ \/ rows'[i].status = rows[i].status
              \/ i = call[c].id /\ call[c].status # Keep /\ rows'[i].status = call[c].status
  <1> DEFINE w == call[c]
  <1>1. w.at = "write" /\ w \in CallType /\ w.id \in RowId
    BY Kinds DEF WriteRow, QueueInv, TypeOK
  <1>2. rows' = Updated(w) \/ rows' = rows
    BY DEF WriteRow
  <1>3. /\ \A r \in Row : r # NoRow
        /\ IsRow(i) /\ TypeOK
    BY Sentinels DEF QueueInv
  <1> HIDE DEF w
  <1>4. CASE rows' = rows
    BY <1>3, <1>4 DEF IsRow
  <1>5. CASE rows' = Updated(w) /\ i # w.id
    BY <1>1, <1>3, <1>5, UpdatedRow DEF IsRow
  <1>6. ASSUME rows' = Updated(w), i = w.id
        PROVE  /\ rows'[i] # NoRow
               /\ \/ rows'[i].status = rows[i].status
                  \/ i = w.id /\ w.status # Keep /\ rows'[i].status = w.status
    BY <1>1, <1>3, <1>6, UpdatedRow
  <1> QED BY <1>2, <1>4, <1>5, <1>6 DEF w

\* Merge feedback moves no row, however the handlers overlap.
THEOREM FeedbackIsANote == Spec => FeedbackNeverMoves
  <1>1. ASSUME QueueInv, NEW c \in Caller, NEW i \in RowId, IsRow(i),
               \/ FetchInFlight(c) \/ AskGitHub(c) \/ Annotate(c)
               \/ /\ WriteRow(c) /\ call[c].notes # Keep
                  /\ \E n \in Number : Last(call[c].notes) = Merged(n)
        PROVE  rows'[i] # NoRow /\ rows'[i].status = rows[i].status
    <2>1. CASE FetchInFlight(c) \/ AskGitHub(c) \/ Annotate(c)
      <3>1. rows' = rows
        BY <2>1 DEF FetchInFlight, AskGitHub, Annotate
      <3> QED BY <1>1, <3>1 DEF IsRow
    <2>2. CASE /\ WriteRow(c) /\ call[c].notes # Keep
               /\ \E n \in Number : Last(call[c].notes) = Merged(n)
      <3>1. call[c].status = Keep
        BY <1>1, <2>2 DEF QueueInv, CallInv, TrueCall, WriteRow
      <3> QED BY <1>1, <2>2, <3>1, WriteMoves
    <2> QED BY <1>1, <2>1, <2>2
  <1>2. QueueInv => [(\E c \in Caller : FetchInFlight(c) \/ AskGitHub(c) \/ Annotate(c)
                          \/ (WriteRow(c) /\ call[c].notes # Keep
                              /\ \E n \in Number : Last(call[c].notes) = Merged(n)))
         => \A i \in RowId : IsRow(i) => rows'[i] # NoRow /\ rows'[i].status = rows[i].status]_vars
    BY <1>1
  <1> QED BY <1>2, QueueInvariance, PTL DEF FeedbackNeverMoves

\* Of a ticket in turns every row moves along the transition matrix, and is purged
\* only after it was closed.
THEOREM MatrixKept == Spec => LegalMoves
  <1>1. ASSUME QueueInv, Next, NEW i \in RowId, InTurns(i)
        PROVE  IF IsRow(i)' THEN CanTransition(rows[i].status, rows'[i].status)
                            ELSE rows[i].status \in Closed
    <2> DEFINE Legal == IF IsRow(i)' THEN CanTransition(rows[i].status, rows'[i].status)
                                     ELSE rows[i].status \in Closed
    <2>1. IsRow(i) /\ rows[i].status \in Status
      BY <1>1, TypedRows DEF InTurns, QueueInv
    <2>2. rows' = rows => Legal
      BY <2>1 DEF IsRow, CanTransition
    <2>3. ASSUME NEW c \in Caller, WriteRow(c) PROVE Legal
      <3>1. rows'[i] # NoRow
        BY <1>1, <2>1, <2>3, WriteMoves
      <3>2. CASE rows'[i].status = rows[i].status
        BY <3>1, <3>2 DEF IsRow, CanTransition
      <3>3. CASE i = call[c].id /\ call[c].status # Keep /\ rows'[i].status = call[c].status
        BY <1>1, <2>3, <3>1, <3>3 DEF QueueInv, CallInv, TimelyCall, WriteRow, IsRow
      <3> QED BY <1>1, <2>1, <2>3, <3>2, <3>3, WriteMoves
    <2>4. ASSUME NEW c \in Caller, InsertRow(c) PROVE Legal
      <3>1. i # last + 1
        BY <1>1, <2>1, Ids DEF QueueInv, RowsInv, TypeOK
      <3>2. rows'[i] = rows[i]
        BY <1>1, <2>4, <3>1 DEF InsertRow, QueueInv, TypeOK
      <3> QED BY <2>1, <3>2 DEF IsRow, CanTransition
    <2>5. ASSUME NEW c \in Caller, NEW s \in Source, Delegate(c, s) PROVE Legal
      <3>1. \/ rows' = rows
            \/ \A j \in RowId : rows'[j] = IF j \in OpenRows(s, {"queued", "assigned"})
                                             THEN [rows[j] EXCEPT !.status = "assigned"]
                                             ELSE rows[j]
        BY <2>5 DEF Delegate
      <3>2. CASE i \in OpenRows(s, {"queued", "assigned"}) /\ rows'[i] = [rows[i] EXCEPT !.status = "assigned"]
        <4>1. rows[i] \in Row /\ rows[i].status \in {"queued", "assigned"}
          BY <1>1, <2>1, <3>2, TypedRows DEF OpenRows, QueueInv
        <4>2. rows'[i].status = "assigned" /\ rows'[i] \in Row
          BY <3>2, <4>1 DEF Row, Status
        <4>3. CanTransition(rows[i].status, "assigned")
          BY <4>1 DEF CanTransition, Transitions
        <4> QED BY <4>2, <4>3, Sentinels DEF IsRow
      <3>3. CASE rows'[i] = rows[i]
        BY <2>1, <3>3 DEF IsRow, CanTransition
      <3> QED BY <2>2, <3>1, <3>2, <3>3
    <2>6. ASSUME NEW old \in SUBSET RowId, ClearCompleted(old) PROVE Legal
      BY <2>1, <2>6 DEF ClearCompleted, IsRow, CanTransition
    <2>7. ASSUME NEW c \in Caller, NEW u \in Update, NEW j \in RowId,
                 ToolUpdate(c, j, u) \/ RouteUpdate(c, j, u)
          PROVE  Legal
      BY <2>2, <2>7 DEF ToolUpdate, RouteUpdate
    <2>8. ASSUME NEW c \in Caller, NEW s \in Source, NEW assign \in BOOLEAN,
                 Add(c, s) \/ Pull(c, s, assign)
          PROVE  Legal
      BY <2>2, <2>8 DEF Add, Pull
    <2>9. ASSUME NEW c \in Caller, FetchInFlight(c) \/ AskGitHub(c) \/ Annotate(c) PROVE Legal
      BY <2>2, <2>9 DEF FetchInFlight, AskGitHub, Annotate
    <2>10. ASSUME NEW pr \in PR, Merge(pr) PROVE Legal
      BY <2>2, <2>10 DEF Merge
    <2>11. ASSUME NEW j \in pending, SyncBoard(j) PROVE Legal
      BY <2>2, <2>11 DEF SyncBoard
    <2> HIDE DEF Legal
    <2>12. Legal
      BY <1>1, <2>3, <2>4, <2>5, <2>6, <2>7, <2>8, <2>9, <2>10, <2>11 DEF Next
    <2> QED BY <2>12 DEF Legal
  <1>2. QueueInv /\ [Next]_vars =>
           [\A i \in RowId : IsRow(i) /\ rows[i].source \in Turns
              => IF IsRow(i)' THEN CanTransition(rows[i].status, rows'[i].status)
                              ELSE rows[i].status \in Closed]_vars
    BY <1>1 DEF InTurns
  <1> QED BY <1>2, QueueInvariance, PTL DEF LegalMoves, Spec

=============================================================================
