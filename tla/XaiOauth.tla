------------------------------- MODULE XaiOauth -------------------------------
(***************************************************************************)
(* The tokens of the operator's xAI subscription (models/xai_oauth.py,     *)
(* dashboard/routes/xai_auth.py).  One file caches an access token and the *)
(* refresh token that renews it.  The calls of the model share the file:   *)
(* they renew the tokens under a lock, the settings page authorizes the    *)
(* Cove anew and revokes the authorization without it.  The server may     *)
(* rotate the refresh token, and refuses one that was rotated.             *)
(*                                                                         *)
(* A step runs from one await to the next: the event loop runs nothing     *)
(* else in between.  Tokens are numbered as the server mints them.         *)
(***************************************************************************)
EXTENDS Integers, Sequences

CONSTANTS Chat,        \* calls of ChatXAI._agenerate under way at once
          Poll,        \* runs of the poll route under way at once
          MaxTokens    \* bounds the tokens the server mints

VARIABLES cache,       \* tokens.json
          minted,      \* server: how many tokens it has minted
          live,        \* server: the refresh tokens it accepts
          refused,     \* server: the access tokens it answers 401
          aged,        \* access tokens within 5 minutes of their expires_at
          flow,        \* _active_flows has a device code
          code,        \* server: that code can be traded for tokens
          holder,      \* of _refresh_lock
          waiting,     \* for _refresh_lock, in order
          call,        \* the calls and polls
          replaced     \* history: refresh tokens whose successor was cached

vars == <<cache, minted, live, refused, aged, flow, code, holder, waiting, call, replaced>>
server == <<minted, live, refused, aged, code>>
lock == <<holder, waiting>>

Call == Chat \cup Poll
None == 0
Token == 1 .. MaxTokens
NoTokens == [access |-> None, refresh |-> None]

ASSUME XaiAssumption == MaxTokens \in Nat /\ Chat \cap Poll = {} /\ None \notin Call

\* idle, waiting for the lock, a refresh sent, its answer there, the request of
\* the model sent, sent again, the device code presented, its tokens there.
At == {"idle", "wait", "asked", "told", "use", "retry", "device", "granted"}
Idle == [at |-> "idle", access |-> None, ask |-> None, got |-> NoTokens]
Pair == [access : Token \cup {None}, refresh : Token \cup {None}]

TypeOK == /\ cache \in Pair
          /\ minted \in 0 .. MaxTokens
          /\ live \subseteq 1 .. minted /\ refused \subseteq Token /\ aged \subseteq Token
          /\ flow \in BOOLEAN /\ code \in BOOLEAN
          /\ holder \in Call \cup {None} /\ waiting \in Seq(Call)
          /\ call \in [Call -> [at : At, access : Token \cup {None},
                                ask : Token \cup {None}, got : Pair]]
          /\ replaced \subseteq Token

Init == /\ cache = NoTokens
        /\ minted = 0 /\ live = {} /\ refused = {} /\ aged = {}
        /\ flow = FALSE /\ code = FALSE
        /\ holder = None /\ waiting = <<>>
        /\ call = [c \in Call |-> Idle]
        /\ replaced = {}

-----------------------------------------------------------------------------
(* How a call goes on                                                      *)

Becomes(c, new) == call' = [call EXCEPT ![c] = new]
Ends(c) == Becomes(c, Idle)

\* get_valid_access_token or _refresh_single_flight returned: the request of
\* the model goes out, or goes out again; the poll finds the Cove authorized.
Obtains(c, access) ==
    \/ /\ c \in Chat
       /\ Becomes(c, [Idle EXCEPT !.access = access,
                                  !.at = IF call[c].access = None THEN "use" ELSE "retry"])
       /\ UNCHANGED flow
    \/ c \in Poll /\ Ends(c) /\ flow' = FALSE

\* They raised ValueError: a poll presents its device code, if it has one.
Raises(c) ==
    /\ IF c \in Poll /\ flow THEN Becomes(c, [Idle EXCEPT !.at = "device"]) ELSE Ends(c)
    /\ UNCHANGED flow

\* async with _refresh_lock
Queue(c, access) ==
    /\ waiting' = Append(waiting, c)
    /\ Becomes(c, [Idle EXCEPT !.at = "wait", !.access = access])
    /\ UNCHANGED <<cache, holder, flow, replaced>>

\* Faulty: only a call that succeeds releases the lock.
Release_m(c) == holder' = IF call[c].got = NoTokens THEN holder ELSE None

Release(c) == holder' = None

-----------------------------------------------------------------------------
(* get_valid_access_token                                                  *)

Begin(c) ==
    /\ call[c] = Idle
    /\ \/ cache = NoTokens /\ Raises(c) /\ UNCHANGED <<cache, lock, replaced>>
       \/ /\ cache # NoTokens /\ cache.access \notin aged
          /\ Obtains(c, cache.access)
          /\ UNCHANGED <<cache, lock, replaced>>
       \/ cache # NoTokens /\ cache.access \in aged /\ Queue(c, None)
    /\ UNCHANGED server

\* _agenerate: the answer to the request.  A first 401 is for the lock, if there
\* is anything to refresh with; every other answer ends the call.
Answer(c) ==
    LET renews == call[c].at = "use" /\ call[c].access \in refused /\ cache.refresh # None IN
    /\ call[c].at \in {"use", "retry"}
    /\ \/ renews /\ Queue(c, call[c].access)
       \/ ~renews /\ Ends(c) /\ UNCHANGED <<cache, lock, flow, replaced>>
    /\ UNCHANGED server

-----------------------------------------------------------------------------
(* _refresh_single_flight                                                  *)

\* Faulty: the lock does not keep the next one out.
CanEnter_m(c) == waiting # <<>> /\ Head(waiting) = c

CanEnter(c) ==
    /\ call[c].at = "wait"
    /\ holder = None /\ waiting # <<>> /\ Head(waiting) = c

\* Faulty: the cache is not looked at again.
Renewed_m(c) == FALSE

\* Whether, while the call waited, another renewed the tokens.
Renewed(c) == /\ cache.access # None
              /\ IF call[c].access = None THEN cache.access \notin aged
                                          ELSE cache.access # call[c].access

\* With the lock: the tokens renewed by another will do; else the refresh token
\* is presented, if there is one.
Enter(c) ==
    /\ CanEnter(c)
    /\ waiting' = Tail(waiting)
    /\ \/ Renewed(c) /\ Obtains(c, cache.access) /\ UNCHANGED holder
       \/ ~Renewed(c) /\ cache.refresh = None /\ Raises(c) /\ UNCHANGED holder
       \/ /\ ~Renewed(c) /\ cache.refresh # None
          /\ Becomes(c, [call[c] EXCEPT !.at = "asked", !.ask = cache.refresh])
          /\ holder' = c
          /\ UNCHANGED flow
    /\ UNCHANGED <<cache, server, replaced>>

\* Faulty: the cache is deleted whatever is in it.
RotatedByAnother_m(c) == FALSE

\* The file holds another refresh token than the one presented.
RotatedByAnother(c) == cache.refresh \notin {None, call[c].ask}

\* refresh_access_token has its answer: the tokens are cached; or the refresh
\* token was refused, and the cache is deleted unless it holds another by now.
Told(c) ==
    /\ call[c].at = "told"
    /\ Release(c)
    /\ \/ /\ call[c].got # NoTokens
          /\ cache' = call[c].got
          /\ replaced' = replaced \cup ({call[c].ask} \ {call[c].got.refresh})
          /\ Obtains(c, call[c].got.access)
       \/ /\ call[c].got = NoTokens /\ RotatedByAnother(c)
          /\ Obtains(c, cache.access)
          /\ UNCHANGED <<cache, replaced>>
       \/ /\ call[c].got = NoTokens /\ ~RotatedByAnother(c)
          /\ cache' = NoTokens
          /\ Raises(c)
          /\ UNCHANGED replaced
    /\ UNCHANGED <<server, waiting>>

\* Any other answer, none in 30 seconds, or a cancelled call.  What the server
\* has done it has done.
Fail(c) ==
    /\ call[c].at \notin {"idle", "wait"}
    /\ IF call[c].at \in {"asked", "told"} THEN Release(c) ELSE UNCHANGED holder
    /\ Ends(c)
    \* A device code the server does not know is forgotten.
    /\ flow' \in IF call[c].at = "device" THEN {flow, FALSE} ELSE {flow}
    /\ UNCHANGED <<cache, server, waiting, replaced>>

\* A call that waits for the lock is cancelled.
Cancel(i) ==
    /\ Ends(waiting[i])
    /\ waiting' = SubSeq(waiting, 1, i - 1) \o SubSeq(waiting, i + 1, Len(waiting))
    /\ UNCHANGED <<cache, server, flow, holder, replaced>>

-----------------------------------------------------------------------------
(* The settings page                                                       *)

\* xai_auth_start
StartFlow ==
    /\ flow' = TRUE /\ code' = TRUE
    /\ UNCHANGED <<cache, minted, live, refused, aged, lock, call, replaced>>

\* poll_for_token has its tokens: they are cached, without the lock.
Granted(c) ==
    /\ call[c].at = "granted"
    /\ cache' = call[c].got
    /\ Ends(c)
    /\ flow' = FALSE
    /\ UNCHANGED <<server, lock, replaced>>

\* xai_auth_revoke; the server is not told.
Revoke ==
    /\ cache' = NoTokens /\ flow' = FALSE
    /\ UNCHANGED <<server, lock, call, replaced>>

-----------------------------------------------------------------------------
(* The server and the clock                                                *)

\* A token is renewed, by a new refresh token or for the same one, or refused.
Refreshes(c) ==
    LET new == minted + 1
        tells(pair) == Becomes(c, [call[c] EXCEPT !.at = "told", !.got = pair]) IN
    /\ call[c].at = "asked"
    /\ \/ /\ call[c].ask \in live /\ minted < MaxTokens
          /\ minted' = new
          /\ \/ /\ live' = (live \ {call[c].ask}) \cup {new}
                /\ tells([access |-> new, refresh |-> new])
             \/ /\ UNCHANGED live
                /\ tells([access |-> new, refresh |-> call[c].ask])
       \/ call[c].ask \notin live /\ tells(NoTokens) /\ UNCHANGED <<minted, live>>
    /\ UNCHANGED <<cache, refused, aged, flow, code, lock, replaced>>

\* The operator has approved: the device code is traded, once.
Authorizes(c) ==
    LET new == minted + 1 IN
    /\ call[c].at = "device" /\ code /\ minted < MaxTokens
    /\ minted' = new
    /\ live' = live \cup {new}
    /\ code' = FALSE
    /\ Becomes(c, [call[c] EXCEPT !.at = "granted", !.got = [access |-> new, refresh |-> new]])
    /\ UNCHANGED <<cache, refused, aged, flow, lock, replaced>>

\* A refresh token ends, an access token is refused, one nears its end.
Expires ==
    /\ \E t \in 1 .. minted :
           \/ live' = live \ {t} /\ UNCHANGED <<refused, aged>>
           \/ refused' = refused \cup {t} /\ UNCHANGED <<live, aged>>
           \/ aged' = aged \cup {t} /\ UNCHANGED <<live, refused>>
    /\ UNCHANGED <<cache, minted, flow, code, lock, call, replaced>>

\* The dashboard restarts: the file stays.
Crash ==
    /\ call' = [c \in Call |-> Idle]
    /\ holder' = None /\ waiting' = <<>>
    /\ flow' = FALSE
    /\ UNCHANGED <<cache, server, replaced>>

-----------------------------------------------------------------------------
\* What a call under way does next, or the server for it.
Step(c) == Answer(c) \/ Enter(c) \/ Told(c) \/ Granted(c) \/ Refreshes(c) \/ Authorizes(c) \/ Fail(c)

Next == \/ \E c \in Call : Begin(c) \/ Step(c)
        \/ \E i \in DOMAIN waiting : Cancel(i)
        \/ StartFlow \/ Revoke \/ Expires \/ Crash

\* Requests are given 30 seconds (those of the model their own timeout), and the
\* lock goes to who waits longest.
Spec == Init /\ [][Next]_vars /\ \A c \in Call : WF_vars(Step(c))

-----------------------------------------------------------------------------
(* Properties                                                              *)

Refreshing(c) == call[c].at \in {"asked", "told"}

\* "waiters reuse the fresh token instead of presenting a consumed one": no
\* request carries a refresh token whose successor was cached, though tokens are
\* revoked and granted without the lock while one is on its way.
NoReplay == \A c \in Call : Refreshing(c) => call[c].ask \notin replaced

\* "refreshing at most once across concurrent callers": tokens are renewed only
\* if the access token in the cache has worn out, however many calls found so
\* before they waited for the lock.
OnlyWornRefreshed ==
    [][\A c \in Call : call[c].at # "asked" /\ call'[c].at = "asked"
          => cache.access \in aged \cup refused]_vars

\* "Only a genuine expiry/revoke clears the cache": unless the operator revokes
\* it, an authorization is never deleted while the server honours it.
KeepsLiveTokens ==
    [][cache # NoTokens /\ cache' = NoTokens => Revoke \/ cache.refresh \notin live]_vars

\* Every call ends: a lost answer, an exception or a cancelled call never leaves
\* the lock to no one.
CallsEnd == \A c \in Call : call[c] # Idle ~> call[c] = Idle

=============================================================================
