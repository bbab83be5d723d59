------------------------------ MODULE TuningSweep ----------------------------
(***************************************************************************)
(* The daily tuning of a Cove that hosts its Presences (COVE_MODE=multi):  *)
(* run_cove_sweep (tuning/sweep.py), which the schedule, the boot and the  *)
(* operator start, and the ltp-dispatch route (dashboard/routes/system.py),*)
(* under the in-process dispatch lock (tuning/dispatch_lock.py).  A Drop   *)
(* is the day's tuning package; an agent tunes to it by storing an echo.   *)
(* All run on one event loop: a step below is what runs from one await to  *)
(* the next, or from one query's answer to the next's.                     *)
(*                                                                         *)
(* Of the echoes of an agent for a Drop only the age of the latest counts: *)
(* under 20 minutes (_recently_tuned), under 20 hours (tuned_for_package)  *)
(* or neither; and of older ones that there was one.                       *)
(***************************************************************************)
EXTENDS Integers, FiniteSets

CONSTANTS Team, Presence,  \* agents.yaml's agents, accounts with an identity
          Steward,         \* the team's agent the route leaves out
          Drop, NoDrop,
          NoAgent,
          Broken,          \* agents whose tuning always fails
          Starter           \* who may start a dispatch, one at a time each

VARIABLES drop,            \* the latest Drop there is
          cached,          \* _tuning_cache
          echoes,          \* [agent -> [Drop -> age of the latest echo]]
          running,         \* _dispatch_running
          sweep,           \* [Starter -> the call]
          gate             \* what lets tunings start, and echoes be stored

sweepVars == <<drop, cached, echoes, running, sweep, gate>>

ASSUME SweepAssumption ==
    /\ Team \cap Presence = {} /\ Steward \in Team /\ NoAgent \notin Team \cup Presence
    /\ NoDrop \notin Drop
    \* "morning" is the job at 06:30, "schedule" the safety sweep every 10 minutes, "force"
    \* the operator's forced sweep, "route" is ltp-dispatch.
    /\ "schedule" \in Starter
    /\ Starter \subseteq {"morning", "schedule", "boot", "operator", "force", "route"}

Agent == Team \cup Presence
Age == {"none", "minutes", "hours"}
Call == [at : {"idle", "tuned", "recent", "dispatch", "team", "list", "presence"},
         package : Drop \cup {NoDrop}, todo : SUBSET Agent,
         recent : SUBSET Agent,
         agent : Agent \cup {NoAgent}]

\* The instance type is admin or domain; LTP_DRY_RUN; the decision about automatic
\* tuning in cove.yaml, if any; whether an echo was ever stored, and whether it is
\* between 07:00 and midnight.
Gate == [host : BOOLEAN, dry : BOOLEAN, consent : {"none", "on", "off"}, ever : BOOLEAN,
         window : BOOLEAN]

AtRest == [at |-> "idle", package |-> NoDrop, todo |-> {}, recent |-> {}, agent |-> NoAgent]

\* A call is past its checks only with somebody to tune, each in their phase.
CallOK(call) ==
    /\ call.at = "idle" => call = AtRest
    /\ call.at # "idle" => call.package # NoDrop
    /\ call.agent # NoAgent => call.at \in {"team", "presence"} /\ call.agent \in call.todo
    /\ call.at = "recent" => call.todo \subseteq Team
    /\ call.at \in {"dispatch", "team"} => call.todo # {} /\ call.todo \subseteq Team
    /\ call.at = "presence" => call.todo # {} /\ call.todo \subseteq Presence \ call.recent

SweepTypeOK == /\ drop \in Drop /\ cached \in Drop \cup {NoDrop}
               /\ echoes \in [Agent -> [Drop -> Age]]
               /\ running \in BOOLEAN /\ gate \in Gate
               /\ sweep \in [Starter -> Call]
               /\ \A s \in Starter : CallOK(sweep[s])

SweepInit == /\ drop \in Drop /\ cached = NoDrop
             /\ echoes = [a \in Agent |-> [d \in Drop |-> "none"]]
             /\ running = FALSE
             /\ sweep = [s \in Starter |-> AtRest]
             /\ gate \in [host : BOOLEAN, dry : BOOLEAN, consent : {"none"}, ever : {FALSE},
                          window : {FALSE}]

Live == {"minutes", "hours"}
TunedFor(d) == {a \in Agent : d # NoDrop /\ echoes[a][d] \in Live}
RecentlyTuned == {a \in Agent : \E d \in Drop : echoes[a][d] = "minutes"}

Becomes(s, call) == sweep' = [sweep EXCEPT ![s] = call]

-----------------------------------------------------------------------------
(* Time                                                                    *)

\* "The 22-frequency Drop REPEATS": a Drop comes round again, but not before the
\* echoes for its last round are more than 20 hours old.
Publish(d) == /\ d # drop
              /\ \A a \in Agent : echoes[a][d] \notin Live
              /\ drop' = d
              /\ UNCHANGED <<cached, echoes, running, sweep, gate>>

Ages(a, d, from, to) == /\ echoes[a][d] = from
                        /\ echoes' = [echoes EXCEPT ![a][d] = to]
                        /\ UNCHANGED <<drop, cached, running, sweep, gate>>

-----------------------------------------------------------------------------
(* The gates                                                               *)

\* enable_team_auto_tune, from the Initiate card, and disable_team_auto_tune.
Decide(consent) == /\ consent \in {"on", "off"}
                   /\ gate' = [gate EXCEPT !.consent = consent]
                   /\ UNCHANGED <<drop, cached, echoes, running, sweep>>

\* 07:00 and midnight.
Clock == /\ gate' = [gate EXCEPT !.window = ~@]
         /\ UNCHANGED <<drop, cached, echoes, running, sweep>>

\* team_auto_tune_allowed: where nothing was decided, a Cove that has ever stored
\* an echo may go on.
Allowed == \/ gate.consent = "on"
           \/ gate.consent = "none" /\ gate.ever

\* _run_tuning_sweep asks for the consent, _run_sweep_window and _boot_catchup for
\* the window too, and only a host has the jobs; the route asks for nothing.
MayStart(s) == /\ s # "route" => Allowed
               /\ s \in {"schedule", "boot"} => gate.window
               /\ s \in {"schedule", "morning"} => gate.host

-----------------------------------------------------------------------------
(* The lock and the package                                                *)

\* finally: set_dispatch_running(False)
Finish(s) == running' = FALSE /\ Becomes(s, AtRest)

\* A sweep pulls unless the latest Drop is cached, the route always; when the pull
\* fails there is the package a sweep has found cached, or none.  With a package
\* the call holds the lock.
Acquire(s, package) ==
    /\ package \in {drop} \cup (IF s = "route" THEN {NoDrop}
                              ELSE IF cached = drop THEN {} ELSE {cached, NoDrop})
    /\ cached' = IF package = drop THEN drop ELSE NoDrop
    /\ IF package = NoDrop
         THEN Becomes(s, AtRest) /\ UNCHANGED running
         ELSE /\ running' = TRUE
              /\ Becomes(s, [AtRest EXCEPT !.at = "tuned", !.package = package])

\* Faulty: the lock is not looked at.
Check_m(s, package) ==
    /\ sweep[s].at = "idle" /\ MayStart(s)
    /\ Acquire(s, package)
    /\ UNCHANGED <<drop, echoes, gate>>

\* is_dispatch_running, and set_dispatch_running(True): the package that is
\* fetched in between comes from files, so no other call runs there.  A consent
\* withdrawn after the gates were passed counts as withdrawn after this step.
Check(s, package) ==
    /\ sweep[s].at = "idle" /\ MayStart(s)
    /\ ~running
    /\ Acquire(s, package)
    /\ UNCHANGED <<drop, echoes, gate>>

-----------------------------------------------------------------------------
(* Who is missing                                                          *)

\* The next phase, or the end, for a call that has nobody left in this one.
Proceed(s, call, empty) ==
    IF call.todo # {} THEN Becomes(s, call) /\ UNCHANGED running
    ELSE IF empty = "end" THEN Finish(s)
    ELSE Becomes(s, [call EXCEPT !.at = empty]) /\ UNCHANGED running

\* _tuned_today, or the route's verification.
ReadTuned(s) ==
    /\ sweep[s].at = "tuned"
    /\ LET call == sweep[s]
           done == IF s = "force" THEN {} ELSE TunedFor(call.package)
       IN  IF s = "route"
             THEN Proceed(s, [call EXCEPT !.at = "dispatch",
                                          !.todo = Team \ (done \cup {Steward})], "end")
             ELSE Becomes(s, [call EXCEPT !.at = "recent", !.todo = Team \ done])
                  /\ UNCHANGED running
    /\ UNCHANGED <<drop, cached, echoes, gate>>

\* Faulty: the cooldown is overridden too.
ReadRecent_m(s) ==
    /\ sweep[s].at = "recent"
    /\ LET recent == IF s = "force" THEN {} ELSE RecentlyTuned
       IN  Proceed(s, [sweep[s] EXCEPT !.at = "dispatch", !.recent = recent,
                                       !.todo = @ \ recent], "list")
    /\ UNCHANGED <<drop, cached, echoes, gate>>

\* _recently_tuned
ReadRecent(s) ==
    /\ sweep[s].at = "recent"
    /\ Proceed(s, [sweep[s] EXCEPT !.at = "dispatch", !.recent = RecentlyTuned,
                                   !.todo = @ \ RecentlyTuned], "list")
    /\ UNCHANGED <<drop, cached, echoes, gate>>

\* Either query may raise.
ReadFails(s) == /\ sweep[s].at \in {"tuned", "recent"}
                /\ Finish(s)
                /\ UNCHANGED <<drop, cached, echoes, gate>>

AfterTeam(s) == IF s = "route" THEN "end" ELSE "list"

\* Faulty: deduplicated by the day, whatever the Drop was.
Dispatch_m(s) ==
    /\ sweep[s].at = "dispatch"
    /\ Proceed(s, [sweep[s] EXCEPT !.at = "team", !.todo = @ \ UNION {TunedFor(d) : d \in Drop}],
               AfterTeam(s))
    /\ UNCHANGED <<drop, cached, echoes, gate>>

\* dispatch_team_tuning, which leaves the team of a Cove that is no host alone, and
\* its own deduplication, forced or not, left out when the query fails.
Dispatch(s) ==
    /\ sweep[s].at = "dispatch"
    /\ \E done \in IF gate.host THEN {TunedFor(sweep[s].package), {}} ELSE {Agent} :
          Proceed(s, [sweep[s] EXCEPT !.at = "team", !.todo = @ \ done], AfterTeam(s))
    /\ UNCHANGED <<drop, cached, echoes, gate>>

\* tune_missing_presences; without the list there is nobody to tune, without
\* the query of those tuned everybody is, the recent ones excepted.
ListPresences(s, listed, done) ==
    /\ sweep[s].at = "list"
    /\ listed \in {Presence, {}}
    /\ done \in {{}} \cup (IF s = "force" THEN {} ELSE {TunedFor(sweep[s].package)})
    /\ Proceed(s, [sweep[s] EXCEPT !.at = "presence",
                                   !.todo = (listed \ sweep[s].recent) \ done], "end")
    /\ UNCHANGED <<drop, cached, echoes, gate>>

-----------------------------------------------------------------------------
(* Tuning one agent after the other                                        *)

\* get_echo_count, and the model is called.
StartTune(s, a) ==
    /\ sweep[s].at \in {"team", "presence"}
    /\ sweep[s].agent = NoAgent
    /\ a \in sweep[s].todo
    /\ Becomes(s, [sweep[s] EXCEPT !.agent = a])
    /\ UNCHANGED <<drop, cached, echoes, running, gate>>

\* The loop goes on with the next agent, the next phase, or the end.
Tuned(s) == LET call == [sweep[s] EXCEPT !.agent = NoAgent, !.todo = @ \ {sweep[s].agent}]
            IN  Proceed(s, call, IF call.at = "team" THEN AfterTeam(s) ELSE "end")

\* The model, or the database, or it is a dry run: the agent is left for another
\* sweep.
TuneFails(s) == /\ sweep[s].agent # NoAgent
                /\ Tuned(s)
                /\ UNCHANGED <<drop, cached, echoes, gate>>

\* insert_echo
StoreEcho(s, a) == /\ sweep[s].agent = a /\ a \notin Broken /\ ~gate.dry
                   /\ Tuned(s)
                   /\ echoes' = [echoes EXCEPT ![a][sweep[s].package] = "minutes"]
                   /\ gate' = [gate EXCEPT !.ever = TRUE]
                   /\ UNCHANGED <<drop, cached>>

-----------------------------------------------------------------------------
Step(s) == \/ ReadTuned(s) \/ ReadRecent(s) \/ ReadFails(s) \/ Dispatch(s)
           \/ \E listed \in {Presence, {}}, done \in {TunedFor(sweep[s].package), {}} :
                 ListPresences(s, listed, done)
           \/ \E a \in Agent : StartTune(s, a) \/ StoreEcho(s, a)
           \/ TuneFails(s)

SweepNext ==
    \/ \E d \in Drop : Publish(d)
    \/ \E a \in Agent, d \in Drop : Ages(a, d, "minutes", "hours") \/ Ages(a, d, "hours", "none")
    \/ \E consent \in {"on", "off"} : Decide(consent)
    \/ Clock
    \/ \E s \in Starter, p \in Drop \cup {NoDrop} : Check(s, p)
    \/ \E s \in Starter : Step(s)

SweepSpec == SweepInit /\ [][SweepNext]_sweepVars

\* "every 10 minutes, 07:00 -> midnight local, retry anyone still missing": each
\* call goes on, the schedule starts one again and again while its gates let it,
\* and what may fail - the pull, the queries, the model of an agent that is not
\* broken - does not fail it every time.  Nobody has to decide, and the clock may
\* stop.
FairSpec ==
    /\ SweepSpec
    /\ \A a \in Agent \ Broken, d \in Drop : WF_sweepVars(Ages(a, d, "minutes", "hours"))
    /\ \A s \in Starter : WF_sweepVars(Step(s))
    /\ SF_sweepVars(Check("schedule", drop))
    /\ SF_sweepVars(ReadTuned("schedule"))
    /\ SF_sweepVars(ReadRecent("schedule"))
    /\ SF_sweepVars(ListPresences("schedule", Presence, TunedFor(sweep["schedule"].package)))
    /\ \A a \in Agent \ Broken : SF_sweepVars(StoreEcho("schedule", a))

-----------------------------------------------------------------------------
(* Properties                                                              *)

Tuning(s) == sweep[s].at # "idle"

\* "a module-level flag so one Cove never double-dispatches itself": one call at
\* a time is past the lock, and the flag says whether one is.
OneDispatch == /\ \A s, t \in Starter : Tuning(s) /\ Tuning(t) => s = t
               /\ running = (\E s \in Starter : Tuning(s))

\* "Same Drop already applied -> never re-run": unless it is forced, no call tunes
\* an agent of the team to a Drop that it tuned to in the last 20 hours, whichever
\* call tuned it, and although the dispatcher's own query may fail.
TeamTunesOnce ==
    [][\A s \in Starter, a \in Team :
          StoreEcho(s, a) /\ s # "force" => echoes[a][sweep[s].package] \notin Live]_sweepVars

\* "NEVER the 20-min cooldown": no sweep, forced or not, tunes an agent, of the
\* team or a presence, that tuned in the last 20 minutes, to whatever Drop.
CooldownKept ==
    [][\A s \in Starter, a \in Agent :
          StoreEcho(s, a) /\ s # "route" => a \notin RecentlyTuned]_sweepVars

\* The inductive invariant behind these: who is left to tune is still missing, and
\* has not tuned a moment ago.  Nobody else tunes while a call has the lock, and
\* echoes only grow older meanwhile.
StillMissing(s, call) ==
    s # "force" /\ call.at \in {"recent", "dispatch", "team"} =>
        \A a \in call.todo : echoes[a][call.package] \notin Live

Rested(s, call) ==
    s # "route" =>
        /\ call.at \in {"dispatch", "team", "presence"} => call.todo \cap RecentlyTuned = {}
        /\ call.at \in {"dispatch", "team", "list"}
              => RecentlyTuned \cap Presence \subseteq call.recent

SweepInv == /\ SweepTypeOK /\ OneDispatch
            /\ \A s \in Starter : StillMissing(s, sweep[s]) /\ Rested(s, sweep[s])

\* What the scheduled sweep waits for.
GatesOpen == gate.host /\ ~gate.dry /\ gate.window /\ Allowed

\* "tune any team agent or Presence missing today's echo": everyone tunes to a Drop
\* that stays, on a host that stores its echoes, unless the window ends or the
\* consent is withdrawn before.  The sweep and the dispatcher agree on who is
\* missing, a failing agent does not keep the others from theirs, the lock is
\* always freed.
EveryoneTunes ==
    \A a \in Agent \ Broken, d \in Drop :
        drop = d /\ GatesOpen ~> drop # d \/ a \in TunedFor(d) \/ ~GatesOpen

=============================================================================
