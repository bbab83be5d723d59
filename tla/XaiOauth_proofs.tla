--------------------------- MODULE XaiOauth_proofs ----------------------------
(***************************************************************************)
(* Proofs about the xAI tokens, for any number of calls, polls and tokens. *)
(***************************************************************************)
EXTENDS XaiOauth, TLAPS

CallType == [at : At, access : Token \cup {None}, ask : Token \cup {None}, got : Pair]

\* The refresh tokens that were minted and have no successor in the cache.
Unreplaced == (1 .. minted) \ replaced

\* What a call carries is not replaced, and it refreshes with the lock.
Sound(c) ==
    /\ Refreshing(c) => holder = c /\ call[c].ask \in Unreplaced
    /\ call[c].at = "told" => call[c].got = NoTokens \/ call[c].got.refresh \in Unreplaced
    /\ call[c].at = "granted" => /\ call[c].got.refresh \in Unreplaced
                                 /\ call[c].got.refresh # cache.refresh

\* A token just granted to c is known to no other call.
Apart(c, d) ==
    call[c].at = "granted" =>
        /\ Refreshing(d) => call[d].ask # call[c].got.refresh
        /\ call[d].at \in {"told", "granted"} => call[d].got.refresh # call[c].got.refresh

Carried == /\ replaced \subseteq 1 .. minted
           /\ cache.refresh \in Unreplaced \cup {None}
           /\ \A c \in Call : Sound(c)
           /\ \A c, d \in Call : c # d => Apart(c, d)

IInv == TypeOK /\ Carried

-----------------------------------------------------------------------------
(* Types                                                                   *)

LEMMA Types ==
    ASSUME TypeOK
    PROVE  /\ call \in [Call -> CallType] /\ Idle \in CallType
           /\ minted \in Nat /\ None \notin Token /\ 1 .. minted \subseteq Token
           /\ \A c \in Call : call[c] \in CallType
BY XaiAssumption DEF TypeOK, CallType, Idle, NoTokens, Pair, Token, None, At

LEMMA BecomesType ==
    ASSUME TypeOK, NEW c \in Call, NEW new \in CallType, Becomes(c, new)
    PROVE  call' \in [Call -> CallType]
BY Types DEF Becomes

LEMMA ObtainsType ==
    ASSUME TypeOK, NEW c \in Call, NEW access \in Token \cup {None}, Obtains(c, access)
    PROVE  call' \in [Call -> CallType] /\ flow' \in BOOLEAN
<1>1. [Idle EXCEPT !.access = access,
                   !.at = IF call[c].access = None THEN "use" ELSE "retry"] \in CallType
  BY Types DEF CallType, Idle, At
<1> QED
  BY <1>1, Types, BecomesType DEF Obtains, Ends, TypeOK

LEMMA RaisesType ==
    ASSUME TypeOK, NEW c \in Call, Raises(c)
    PROVE  call' \in [Call -> CallType] /\ flow' \in BOOLEAN
<1>1. [Idle EXCEPT !.at = "device"] \in CallType
  BY Types DEF CallType, Idle, At
<1> QED
  BY <1>1, Types, BecomesType DEF Raises, Ends, TypeOK

LEMMA QueueType ==
    ASSUME TypeOK, NEW c \in Call, NEW access \in Token \cup {None}, Queue(c, access)
    PROVE  call' \in [Call -> CallType] /\ waiting' \in Seq(Call)
<1>1. [Idle EXCEPT !.at = "wait", !.access = access] \in CallType
  BY Types DEF CallType, Idle, At
<1>2. waiting' \in Seq(Call)
  BY DEF Queue, TypeOK
<1> QED
  BY <1>1, <1>2, BecomesType DEF Queue

LEMMA InitType == Init => TypeOK
<1> SUFFICES ASSUME Init PROVE TypeOK
  OBVIOUS
<1>1. NoTokens \in Pair /\ Idle \in [at : At, access : Token \cup {None}, ask : Token \cup {None}, got : Pair]
  BY DEF Pair, NoTokens, Idle, At
<1>2. 0 \in 0 .. MaxTokens /\ <<>> \in Seq(Call)
  BY XaiAssumption
<1> QED
  BY <1>1, <1>2 DEF Init, TypeOK

LEMMA NextType ==
    ASSUME IInv, [Next]_vars
    PROVE  TypeOK'
<1> USE DEF server, lock
<1>0. TypeOK
  BY DEF IInv
<1> USE <1>0
<1>t. /\ cache \in Pair /\ cache.access \in Token \cup {None} /\ cache.refresh \in Token \cup {None}
      /\ NoTokens \in Pair
  BY Types DEF TypeOK, Pair, NoTokens
<1>1. CASE UNCHANGED vars
  BY <1>1 DEF vars, TypeOK
<1>2. ASSUME NEW c \in Call, Begin(c)  PROVE TypeOK'
  <2>1. call' \in [Call -> CallType] /\ flow' \in BOOLEAN /\ waiting' \in Seq(Call)
    BY <1>2, <1>t, Types, ObtainsType, RaisesType, QueueType DEF Begin, Queue, TypeOK
  <2> QED
    BY <1>2, <2>1 DEF Begin, Queue, TypeOK, CallType
<1>3. ASSUME NEW c \in Call, Answer(c)  PROVE TypeOK'
  <2>0. call[c].access \in Token \cup {None}
    BY Types DEF CallType
  <2>1. call' \in [Call -> CallType] /\ flow' \in BOOLEAN /\ waiting' \in Seq(Call)
    BY <1>3, <2>0, Types, BecomesType, QueueType DEF Answer, Ends, Queue, TypeOK
  <2> QED
    BY <1>3, <2>1 DEF Answer, Queue, TypeOK, CallType
<1>4. ASSUME NEW c \in Call, Enter(c)  PROVE TypeOK'
  <2>1. waiting' \in Seq(Call)
    BY <1>4 DEF Enter, CanEnter, TypeOK
  <2>2. [call[c] EXCEPT !.at = "asked", !.ask = cache.refresh] \in CallType
    BY <1>t, Types DEF CallType, At
  <2>3. call' \in [Call -> CallType] /\ flow' \in BOOLEAN /\ holder' \in Call \cup {None}
    BY <1>4, <1>t, <2>2, ObtainsType, RaisesType, BecomesType DEF Enter, TypeOK
  <2> QED
    BY <1>4, <2>1, <2>3 DEF Enter, TypeOK, CallType
<1>5. ASSUME NEW c \in Call, Told(c)  PROVE TypeOK'
  <2>1. /\ call[c].got \in Pair /\ call[c].got.access \in Token \cup {None}
        /\ call[c].ask \in Token \cup {None}
    BY Types DEF CallType, Pair
  <2>2. call' \in [Call -> CallType] /\ flow' \in BOOLEAN
    BY <1>5, <1>t, <2>1, ObtainsType, RaisesType DEF Told
  <2>3. cache' \in Pair /\ holder' \in Call \cup {None}
    BY <1>5, <1>t, <2>1 DEF Told, Release
  <2>4. call[c].ask \in Token
    BY <1>5, Types DEF Told, IInv, Carried, Sound, Refreshing, Unreplaced
  <2> QED
    BY <1>5, <2>2, <2>3, <2>4 DEF Told, TypeOK, CallType
<1>6. ASSUME NEW c \in Call, Fail(c)  PROVE TypeOK'
  <2>1. call' \in [Call -> CallType] /\ flow' \in BOOLEAN
    BY <1>6, Types, BecomesType DEF Fail, Ends, TypeOK
  <2> QED
    BY <1>6, <2>1 DEF Fail, Release, TypeOK, CallType
<1>7. ASSUME NEW i \in DOMAIN waiting, Cancel(i)  PROVE TypeOK'
  <2>1. waiting \in Seq(Call) /\ waiting[i] \in Call /\ i \in 1 .. Len(waiting)
    BY DEF TypeOK
  <2>2. waiting' \in Seq(Call)
    BY <1>7, <2>1 DEF Cancel
  <2>3. call' \in [Call -> CallType]
    BY <1>7, <2>1, Types, BecomesType DEF Cancel, Ends
  <2> QED
    BY <1>7, <2>2, <2>3 DEF Cancel, TypeOK, CallType
<1>8. CASE StartFlow
  BY <1>8 DEF StartFlow, TypeOK
<1>9. ASSUME NEW c \in Call, Granted(c)  PROVE TypeOK'
  <2>1. call' \in [Call -> CallType] /\ call[c].got \in Pair
    BY <1>9, Types, BecomesType DEF Granted, Ends, CallType
  <2> QED
    BY <1>9, <2>1 DEF Granted, TypeOK, CallType
<1>10. CASE Revoke
  BY <1>10, <1>t DEF Revoke, TypeOK
<1>11. ASSUME NEW c \in Call, Refreshes(c)  PROVE TypeOK'
  <2>1. minted' \in 0 .. MaxTokens /\ live' \subseteq 1 .. minted'
    BY <1>11, XaiAssumption DEF Refreshes, TypeOK
  <2>2. ASSUME minted < MaxTokens
        PROVE  /\ [access |-> minted + 1, refresh |-> minted + 1] \in Pair
               /\ [access |-> minted + 1, refresh |-> call[c].ask] \in Pair
    BY <2>2, Types, XaiAssumption DEF Pair, Token, CallType
  <2>3. \A pair \in Pair : [call[c] EXCEPT !.at = "told", !.got = pair] \in CallType
    BY Types DEF CallType, At
  <2>4. call' \in [Call -> CallType]
    BY <1>11, <1>t, <2>2, <2>3, BecomesType DEF Refreshes
  <2> QED
    BY <1>11, <2>1, <2>4 DEF Refreshes, TypeOK, CallType
<1>12. ASSUME NEW c \in Call, Authorizes(c)  PROVE TypeOK'
  <2>1. minted' \in 0 .. MaxTokens /\ live' \subseteq 1 .. minted'
    BY <1>12, XaiAssumption DEF Authorizes, TypeOK
  <2>2. [access |-> minted + 1, refresh |-> minted + 1] \in Pair
    BY <1>12, Types, XaiAssumption DEF Authorizes, Pair, Token
  <2>3. [call[c] EXCEPT !.at = "granted",
                        !.got = [access |-> minted + 1, refresh |-> minted + 1]] \in CallType
    BY <2>2, Types DEF CallType, At
  <2>4. call' \in [Call -> CallType]
    BY <1>12, <2>3, BecomesType DEF Authorizes
  <2> QED
    BY <1>12, <2>1, <2>4 DEF Authorizes, TypeOK, CallType
<1>13. CASE Expires
  BY <1>13, Types DEF Expires, TypeOK
<1>14. CASE Crash
  <2>1. call' \in [Call -> CallType]
    BY <1>14, Types DEF Crash
  <2>2. waiting' \in Seq(Call)
    BY <1>14 DEF Crash
  <2> QED
    BY <1>14, <2>1, <2>2 DEF Crash, TypeOK, CallType
<1>15. ASSUME NEW c \in Call, Step(c)  PROVE TypeOK'
  BY <1>3, <1>4, <1>5, <1>6, <1>9, <1>11, <1>12, <1>15 DEF Step
<1>16. CASE Next
  <2>1. CASE \E c \in Call : Begin(c) \/ Step(c)
    BY <1>2, <1>15, <2>1
  <2>2. CASE \E i \in DOMAIN waiting : Cancel(i)
    BY <1>7, <2>2
  <2> QED
    BY <1>8, <1>10, <1>13, <1>14, <1>16, <2>1, <2>2 DEF Next
<1> QED
  BY <1>1, <1>16

-----------------------------------------------------------------------------
(* Tokens in flight                                                        *)

Busy == {"asked", "told", "granted"}

\* A call that goes on to carry no token, with the lock or without it, disturbs
\* no other, whose lock it does not take.
LEMMA Quiet ==
    ASSUME IInv, NEW c \in Call, NEW new \in CallType, Becomes(c, new), new.at \notin Busy,
           minted' = minted, replaced' = replaced, cache' \in {cache, NoTokens},
           holder' = holder \/ holder \notin Call \ {c}
    PROVE  Carried'
<1>1. \A d \in Call : call'[d] = IF d = c THEN new ELSE call[d]
  BY Types DEF IInv, Becomes
<1>2. cache'.refresh \in {cache.refresh, None} /\ None \notin Unreplaced
  BY DEF NoTokens, Unreplaced, None
<1>3. Unreplaced' = Unreplaced
  BY DEF Unreplaced
<1>4. \A d \in Call : Sound(d)'
  BY <1>1, <1>2, <1>3 DEF IInv, Carried, Sound, Refreshing, Busy
<1>5. \A d, e \in Call : d # e => Apart(d, e)'
  BY <1>1 DEF IInv, Carried, Apart, Refreshing, Busy
<1> QED
  BY <1>2, <1>3, <1>4, <1>5 DEF IInv, Carried

LEMMA QuietSteps ==
    ASSUME IInv, NEW c \in Call, NEW access \in Token \cup {None},
           Obtains(c, access) \/ Raises(c) \/ Queue(c, access) \/ Ends(c)
    PROVE  \E new \in CallType : Becomes(c, new) /\ new.at \notin Busy
<1>1. /\ Idle \in CallType
      /\ [Idle EXCEPT !.access = access,
                      !.at = IF call[c].access = None THEN "use" ELSE "retry"] \in CallType
      /\ [Idle EXCEPT !.at = "device"] \in CallType
      /\ [Idle EXCEPT !.at = "wait", !.access = access] \in CallType
  BY Types DEF IInv, CallType, Idle, At
<1>2. /\ Idle.at \notin Busy
      /\ [Idle EXCEPT !.access = access,
                      !.at = IF call[c].access = None THEN "use" ELSE "retry"].at \notin Busy
      /\ [Idle EXCEPT !.at = "device"].at \notin Busy
      /\ [Idle EXCEPT !.at = "wait", !.access = access].at \notin Busy
  BY DEF Idle, Busy
<1>3. CASE Obtains(c, access)
  BY <1>1, <1>2, <1>3 DEF Obtains, Ends
<1>4. CASE Raises(c)
  BY <1>1, <1>2, <1>4 DEF Raises, Ends
<1>5. CASE Queue(c, access)
  BY <1>1, <1>2, <1>5 DEF Queue
<1>6. CASE Ends(c)
  BY <1>1, <1>2, <1>6 DEF Ends
<1> QED
  BY <1>3, <1>4, <1>5, <1>6

LEMMA NextCarried ==
    ASSUME IInv, [Next]_vars
    PROVE  Carried'
<1> USE DEF server, lock
<1>0. TypeOK
  BY DEF IInv
<1>t. /\ cache.access \in Token \cup {None} /\ cache.refresh \in Token \cup {None}
      /\ None \in Token \cup {None}
      /\ \A c \in Call : /\ call[c].access \in Token \cup {None}
                         /\ call[c].got.access \in Token \cup {None}
  BY <1>0, Types DEF TypeOK, Pair, CallType
<1>1. ASSUME minted' = minted, UNCHANGED <<cache, holder, call, replaced>>  PROVE Carried'
  BY <1>1 DEF IInv, Carried, Sound, Apart, Refreshing, Unreplaced
<1>2. ASSUME NEW c \in Call, Begin(c)  PROVE Carried'
  <2>1. \E new \in CallType : Becomes(c, new) /\ new.at \notin Busy
    BY <1>2, <1>t, QuietSteps DEF Begin
  <2> QED
    BY <1>2, <2>1, Quiet DEF Begin, Queue
<1>3. ASSUME NEW c \in Call, Answer(c)  PROVE Carried'
  <2>1. \E new \in CallType : Becomes(c, new) /\ new.at \notin Busy
    BY <1>3, <1>t, QuietSteps DEF Answer
  <2> QED
    BY <1>3, <2>1, Quiet DEF Answer, Queue
<1>4. ASSUME NEW c \in Call, Enter(c)  PROVE Carried'
  <2>1. CASE call'[c].at # "asked"
    <3>1. \E new \in CallType : Becomes(c, new) /\ new.at \notin Busy
      <4>1. [call[c] EXCEPT !.at = "asked", !.ask = cache.refresh].at = "asked"
        BY <1>0, Types DEF CallType
      <4>2. ~Becomes(c, [call[c] EXCEPT !.at = "asked", !.ask = cache.refresh])
        BY <1>0, <2>1, <4>1, Types DEF Becomes
      <4> QED
        BY <1>4, <1>t, <4>2, QuietSteps DEF Enter
    <3>2. holder = None /\ None \notin Call
      BY <1>4, XaiAssumption DEF Enter, CanEnter
    <3> QED
      BY <1>4, <3>1, <3>2, Quiet DEF Enter
  <2>2. CASE call'[c].at = "asked"
    <3>1. ~\E new \in CallType : Becomes(c, new) /\ new.at \notin Busy
      BY <1>0, <2>2, Types DEF Becomes, Busy
    <3>2. /\ Becomes(c, [call[c] EXCEPT !.at = "asked", !.ask = cache.refresh])
          /\ holder = None /\ holder' = c /\ cache.refresh # None
      BY <1>4, <1>t, <3>1, QuietSteps DEF Enter, CanEnter
    <3>3. \A d \in Call : call'[d] = IF d = c THEN [call[c] EXCEPT !.at = "asked",
                                                                !.ask = cache.refresh]
                                              ELSE call[d]
      BY <1>0, <3>2, Types DEF Becomes
    <3>4. call'[c].at = "asked" /\ call'[c].ask = cache.refresh
      BY <1>0, <2>2, <3>3, Types DEF CallType
    <3>5. \A d \in Call : d # c => call'[d] = call[d]
      BY <3>3
    <3>6. cache.refresh \in Unreplaced /\ Unreplaced' = Unreplaced /\ cache' = cache
      BY <1>4, <3>2 DEF Enter, IInv, Carried, Unreplaced
    <3>7. \A d \in Call : ~Refreshing(d)
      BY <3>2, XaiAssumption DEF IInv, Carried, Sound
    <3>8. \A d \in Call : Sound(d)'
      BY <3>2, <3>4, <3>5, <3>6, <3>7 DEF IInv, Carried, Sound, Refreshing
    <3>9. \A d, e \in Call : d # e => Apart(d, e)'
      BY <3>4, <3>5, <3>6 DEF IInv, Carried, Sound, Apart, Refreshing
    <3> QED
      BY <1>4, <3>6, <3>8, <3>9 DEF Enter, IInv, Carried
  <2> QED
    BY <2>1, <2>2
<1>5. ASSUME NEW c \in Call, Told(c)  PROVE Carried'
  <2>1. Refreshing(c) /\ holder = c /\ holder' = None
    BY <1>5 DEF Told, Release, Refreshing, IInv, Carried, Sound
  <2>2. PICK new \in CallType : Becomes(c, new) /\ new.at \notin Busy
    BY <1>5, <1>t, QuietSteps DEF Told
  <2>3. CASE replaced' = replaced /\ cache' \in {cache, NoTokens}
    BY <1>5, <2>1, <2>2, <2>3, Quiet DEF Told
  <2>4. CASE /\ call[c].got # NoTokens
             /\ cache' = call[c].got
             /\ replaced' = replaced \cup ({call[c].ask} \ {call[c].got.refresh})
    <3>1. \A d \in Call : call'[d] = IF d = c THEN new ELSE call[d]
      BY <1>0, <2>2, Types DEF Becomes
    <3>2. /\ call[c].got.refresh \in Unreplaced /\ call[c].ask \in Unreplaced
          /\ minted' = minted
      BY <1>5, <2>1, <2>4 DEF Told, IInv, Carried, Sound
    <3>3. /\ call[c].got.refresh \in Unreplaced' /\ replaced' \subseteq 1 .. minted'
          /\ Unreplaced \ {call[c].ask} \subseteq Unreplaced'
      BY <2>4, <3>2 DEF Unreplaced, IInv, Carried
    <3>4. \A d \in Call : d # c => ~Refreshing(d)
      BY <2>1 DEF IInv, Carried, Sound
    <3>5. \A d \in Call : ~Refreshing(d)'
      BY <2>2, <3>1, <3>4 DEF Refreshing, Busy
    <3>6. \A d \in Call : call'[d].at = "granted" => d # c /\ call'[d] = call[d]
      BY <2>2, <3>1 DEF Busy
    <3>7. \A d \in Call : Sound(d)'
      <4>1. ASSUME NEW d \in Call, call'[d].at = "granted"
            PROVE  /\ call'[d].got.refresh \in Unreplaced'
                   /\ call'[d].got.refresh # cache'.refresh
        <5>1. d # c /\ call'[d] = call[d] /\ Apart(d, c) /\ Sound(d)
          BY <3>6, <4>1 DEF IInv, Carried
        <5> QED
          BY <1>5, <2>1, <2>4, <3>3, <4>1, <5>1 DEF Told, Apart, Sound
      <4> QED
        BY <3>5, <4>1 DEF Sound, Refreshing
    <3>8. \A d, e \in Call : d # e => Apart(d, e)'
      <4>1. ASSUME NEW d \in Call, NEW e \in Call, d # e, call'[d].at = "granted",
                   call'[e].at \in {"told", "granted"}
            PROVE  call'[e].got.refresh # call'[d].got.refresh
        BY <3>5, <3>6, <4>1 DEF IInv, Carried, Apart, Refreshing
      <4> QED
        BY <3>5, <4>1 DEF Apart
    <3> QED
      BY <2>4, <3>3, <3>7, <3>8 DEF Carried
  <2> QED
    BY <1>5, <2>3, <2>4 DEF Told
<1>6. ASSUME NEW c \in Call, Fail(c)  PROVE Carried'
  <2>1. \E new \in CallType : Becomes(c, new) /\ new.at \notin Busy
    BY <1>6, <1>t, QuietSteps DEF Fail
  <2>2. holder' = holder \/ holder \notin Call \ {c}
    BY <1>6 DEF Fail, Refreshing, IInv, Carried, Sound
  <2> QED
    BY <1>6, <2>1, <2>2, Quiet DEF Fail
<1>7. ASSUME NEW i \in DOMAIN waiting, Cancel(i)  PROVE Carried'
  <2>1. waiting[i] \in Call
    BY <1>0 DEF TypeOK
  <2>2. \E new \in CallType : Becomes(waiting[i], new) /\ new.at \notin Busy
    BY <1>7, <1>t, <2>1, QuietSteps DEF Cancel
  <2> QED
    BY <1>7, <2>1, <2>2, Quiet DEF Cancel
<1>8. CASE StartFlow
  BY <1>8, <1>1 DEF StartFlow
<1>9. ASSUME NEW c \in Call, Granted(c)  PROVE Carried'
  <2>1. /\ \A d \in Call : call'[d] = IF d = c THEN Idle ELSE call[d]
        /\ Idle.at = "idle"
    BY <1>0, <1>9, Types DEF Granted, Ends, Becomes, Idle
  <2>2. call[c].got.refresh \in Unreplaced /\ Unreplaced' = Unreplaced
    BY <1>9 DEF Granted, IInv, Carried, Sound, Unreplaced
  <2>3. \A d \in Call : Sound(d)'
    <3>1. ASSUME NEW d \in Call, d # c  PROVE Sound(d)'
      <4>1. call'[d] = call[d] /\ Sound(d) /\ Apart(d, c)
        BY <2>1, <3>1 DEF IInv, Carried
      <4>2. call[d].at = "granted" => call[d].got.refresh # call[c].got.refresh
        BY <1>9, <4>1 DEF Granted, Apart
      <4> QED
        BY <1>9, <2>2, <4>1, <4>2 DEF Granted, Sound, Refreshing
    <3>2. Sound(c)'
      BY <2>1 DEF Sound, Refreshing
    <3> QED
      BY <3>1, <3>2
  <2>4. \A d, e \in Call : d # e => Apart(d, e)'
    BY <2>1 DEF IInv, Carried, Apart, Refreshing
  <2> QED
    BY <1>9, <2>2, <2>3, <2>4 DEF Granted, IInv, Carried
<1>10. CASE Revoke
  <2>1. cache'.refresh = None /\ None \notin Unreplaced /\ Unreplaced' = Unreplaced
    BY <1>10 DEF Revoke, NoTokens, Unreplaced, None
  <2>2. \A d \in Call : Sound(d)'
    BY <1>10, <2>1 DEF Revoke, IInv, Carried, Sound, Refreshing
  <2> QED
    BY <1>10, <2>1, <2>2 DEF Revoke, IInv, Carried, Apart, Refreshing
<1>11. ASSUME NEW c \in Call, Refreshes(c)  PROVE Carried'
  <2>1. PICK pair \in Pair : /\ Becomes(c, [call[c] EXCEPT !.at = "told", !.got = pair])
                             /\ \/ pair = NoTokens /\ minted' = minted
                                \/ /\ minted' = minted + 1 /\ minted < MaxTokens
                                   /\ pair.refresh \in {minted + 1, call[c].ask}
    <3>1. ASSUME minted < MaxTokens
          PROVE  /\ [access |-> minted + 1, refresh |-> minted + 1] \in Pair
                 /\ [access |-> minted + 1, refresh |-> call[c].ask] \in Pair
      BY <1>0, <3>1, Types, XaiAssumption DEF Pair, Token, CallType
    <3>2. NoTokens \in Pair
      BY DEF NoTokens, Pair
    <3> QED
      BY <1>11, <3>1, <3>2 DEF Refreshes
  <2>2. \A d \in Call : call'[d] = IF d = c THEN [call[c] EXCEPT !.at = "told", !.got = pair]
                                            ELSE call[d]
    BY <1>0, <2>1, Types DEF Becomes
  <2>3. /\ call'[c].at = "told" /\ call'[c].ask = call[c].ask /\ call'[c].got = pair
        /\ \A d \in Call : d # c => call'[d] = call[d]
    BY <1>0, <2>2, Types DEF CallType
  <2>4. /\ minted \in Nat /\ Unreplaced \subseteq Unreplaced' /\ minted' \in Nat
        /\ minted' = minted + 1 => minted + 1 \in Unreplaced' /\ minted + 1 \notin Unreplaced
        /\ UNCHANGED <<cache, holder, replaced>>
    BY <1>0, <1>11, <2>1, Types DEF Refreshes, Unreplaced, IInv, Carried
  <2>5. Refreshing(c) /\ Sound(c) /\ call[c].ask \in Unreplaced
    BY <1>11 DEF Refreshes, Refreshing, IInv, Carried, Sound
  <2>6. pair = NoTokens \/ pair.refresh \in Unreplaced'
    BY <2>1, <2>4, <2>5
  <2>7. \A d \in Call : Sound(d)'
    BY <2>3, <2>4, <2>5, <2>6 DEF IInv, Carried, Sound, Refreshing
  <2>8. \A d, e \in Call : d # e => Apart(d, e)'
    <3>1. ASSUME NEW d \in Call, d # c, call[d].at = "granted"
          PROVE  call[c].ask # call[d].got.refresh /\ pair.refresh # call[d].got.refresh
      <4>1. Sound(d) /\ Apart(d, c) /\ call[d].got.refresh \in Unreplaced
        BY <3>1 DEF IInv, Carried, Sound
      <4>2. None \notin Unreplaced /\ NoTokens.refresh = None
        BY DEF Unreplaced, None, NoTokens
      <4> QED
        BY <2>1, <2>4, <2>5, <3>1, <4>1, <4>2 DEF Apart
    <3> QED
      BY <2>3, <3>1 DEF IInv, Carried, Apart, Refreshing
  <2>9. replaced' \subseteq 1 .. minted'
    BY <2>1, <2>4 DEF IInv, Carried
  <2>10. cache'.refresh \in Unreplaced' \cup {None}
    BY <2>4 DEF IInv, Carried
  <2> QED
    BY <2>7, <2>8, <2>9, <2>10 DEF Carried
<1>12. ASSUME NEW c \in Call, Authorizes(c)  PROVE Carried'
  <2> DEFINE new == [access |-> minted + 1, refresh |-> minted + 1]
  <2>2. \A d \in Call : call'[d] = IF d = c THEN [call[c] EXCEPT !.at = "granted", !.got = new]
                                            ELSE call[d]
    BY <1>0, <1>12, Types DEF Authorizes, Becomes
  <2>3. /\ call'[c].at = "granted" /\ call'[c].got.refresh = minted + 1
        /\ \A d \in Call : d # c => call'[d] = call[d]
    <3>1. new.refresh = minted + 1
      OBVIOUS
    <3> HIDE DEF new
    <3>2. call'[c].at = "granted" /\ call'[c].got = new
      BY <1>0, <2>2, Types DEF CallType
    <3> QED
      BY <2>2, <3>1, <3>2
  <2>4. /\ minted \in Nat /\ Unreplaced \subseteq Unreplaced' /\ minted' = minted + 1
        /\ minted + 1 \in Unreplaced' /\ minted + 1 \notin Unreplaced /\ minted + 1 # None
        /\ UNCHANGED <<cache, holder, replaced>>
    BY <1>0, <1>12, Types DEF Authorizes, Unreplaced, IInv, Carried, None
  <2>5. cache.refresh # minted + 1
    BY <2>4 DEF IInv, Carried
  <2>6. \A d \in Call : Sound(d)'
    BY <2>3, <2>4, <2>5 DEF IInv, Carried, Sound, Refreshing
  <2>7. \A d, e \in Call : d # e => Apart(d, e)'
    <3>1. ASSUME NEW d \in Call, d # c
          PROVE  /\ Refreshing(d) => call[d].ask # minted + 1
                 /\ call[d].at \in {"told", "granted"} => call[d].got.refresh # minted + 1
      <4>1. NoTokens.refresh = None
        BY DEF NoTokens
      <4> QED
        BY <2>4, <3>1, <4>1 DEF IInv, Carried, Sound
    <3> QED
      BY <2>3, <3>1 DEF IInv, Carried, Apart, Refreshing
  <2> QED
    BY <2>4, <2>6, <2>7 DEF IInv, Carried, Unreplaced
<1>13. CASE Expires
  BY <1>13, <1>1 DEF Expires
<1>14. CASE Crash
  <2>1. \A d \in Call : call'[d].at = "idle"
    BY <1>14 DEF Crash, Idle
  <2> QED
    BY <1>14, <2>1 DEF Crash, IInv, Carried, Sound, Apart, Refreshing, Unreplaced
<1>15. CASE UNCHANGED vars
  BY <1>1, <1>15 DEF vars
<1>16. CASE Next
  <2>1. ASSUME NEW c \in Call, Step(c)  PROVE Carried'
    BY <1>3, <1>4, <1>5, <1>6, <1>9, <1>11, <1>12, <2>1 DEF Step
  <2>2. CASE \E c \in Call : Begin(c) \/ Step(c)
    BY <1>2, <2>1, <2>2
  <2>3. CASE \E i \in DOMAIN waiting : Cancel(i)
    BY <1>7, <2>3
  <2> QED
    BY <1>8, <1>10, <1>13, <1>14, <1>16, <2>2, <2>3 DEF Next
<1> QED
  BY <1>15, <1>16

-----------------------------------------------------------------------------
LEMMA InitCarried == Init => Carried
<1> SUFFICES ASSUME Init PROVE Carried
  OBVIOUS
<1>1. \A c \in Call : call[c].at = "idle"
  BY DEF Init, Idle
<1> QED
  BY <1>1 DEF Init, Carried, Sound, Apart, Refreshing, NoTokens

\* The states of xai_oauth.py and the server are always of their types, a refresh
\* is in flight only with the lock, and what a call carries was never replaced.
THEOREM Invariance == Spec => []IInv
<1>1. Init => IInv
  BY InitType, InitCarried DEF IInv
<1>2. IInv /\ [Next]_vars => IInv'
  BY NextType, NextCarried DEF IInv
<1> QED
  BY <1>1, <1>2, PTL DEF Spec

-----------------------------------------------------------------------------
(* What a call believes of its tokens                                      *)

\* A call that waits since a 401 failed with a refused token, one told that its
\* refresh token is refused was told so by the server, and tokens come in pairs.
Honest(c) ==
    /\ call[c].at = "wait" => call[c].access \in refused \cup {None}
    /\ call[c].at = "told" /\ call[c].got = NoTokens => call[c].ask \notin live
    /\ call[c].got.access = None => call[c].got = NoTokens

Informed == /\ cache.access = None => cache = NoTokens
            /\ \A c \in Call : Honest(c)

\* Changes of the server that leave what calls believe true.
Settled == refused \subseteq refused' /\ live' \cap (1 .. minted) \subseteq live

LEMMA NoneSound ==
    ASSUME IInv, Settled, NEW d \in Call, Honest(d), call'[d] = call[d]
    PROVE  Honest(d)'
<1>1. call[d].at = "told" => call[d].ask \in 1 .. minted
  BY DEF IInv, Carried, Sound, Refreshing, Unreplaced
<1> QED
  BY <1>1 DEF Honest, Settled

LEMMA ServerSettles ==
    ASSUME IInv, [Next]_vars
    PROVE  Settled
<1> USE DEF server, lock
<1>0. TypeOK /\ minted \in Nat
  BY Types DEF IInv
<1>1. ASSUME NEW c \in Call, Begin(c) \/ Step(c)  PROVE Settled
  <2>1. CASE Begin(c) \/ Answer(c) \/ Enter(c) \/ Told(c) \/ Granted(c) \/ Fail(c)
    BY <2>1 DEF Begin, Answer, Enter, Told, Granted, Fail, Settled
  <2>2. CASE Refreshes(c)
    BY <1>0, <2>2 DEF Refreshes, Settled
  <2>3. CASE Authorizes(c)
    BY <1>0, <2>3 DEF Authorizes, Settled
  <2> QED
    BY <1>1, <2>1, <2>2, <2>3 DEF Step
<1>2. ASSUME NEW i \in DOMAIN waiting, Cancel(i)  PROVE Settled
  BY <1>2 DEF Cancel, Settled
<1>3. CASE StartFlow \/ Revoke \/ Expires \/ Crash \/ UNCHANGED vars
  BY <1>3 DEF StartFlow, Revoke, Expires, Crash, vars, Settled
<1> QED
  BY <1>1, <1>2, <1>3 DEF Next

\* A call that goes on to carry no token it got.
LEMMA QuietHonest ==
    ASSUME IInv, Informed, Settled, NEW c \in Call, NEW new \in CallType, Becomes(c, new),
           new.got = NoTokens, new.at # "told",
           new.at = "wait" => new.access \in refused \cup {None}
    PROVE  \A d \in Call : Honest(d)'
<1>1. \A d \in Call : call'[d] = IF d = c THEN new ELSE call[d]
  BY Types DEF IInv, Becomes
<1>2. Honest(c)'
  BY <1>1 DEF Honest, Settled
<1> QED
  BY <1>1, <1>2, NoneSound DEF Informed

LEMMA QuietForms ==
    ASSUME IInv, NEW c \in Call, NEW access \in Token \cup {None},
           Obtains(c, access) \/ Raises(c) \/ Ends(c)
    PROVE  \E new \in CallType : Becomes(c, new) /\ new.got = NoTokens /\ new.at \notin {"wait", "told"}
<1>1. /\ Idle \in CallType
      /\ [Idle EXCEPT !.access = access,
                      !.at = IF call[c].access = None THEN "use" ELSE "retry"] \in CallType
      /\ [Idle EXCEPT !.at = "device"] \in CallType
  BY Types DEF IInv, CallType, Idle, At
<1>2. /\ Idle.got = NoTokens /\ Idle.at \notin {"wait", "told"}
      /\ [Idle EXCEPT !.at = "device"].got = NoTokens
      /\ [Idle EXCEPT !.at = "device"].at \notin {"wait", "told"}
      /\ [Idle EXCEPT !.access = access,
                      !.at = IF call[c].access = None THEN "use" ELSE "retry"].got = NoTokens
      /\ [Idle EXCEPT !.access = access,
                      !.at = IF call[c].access = None THEN "use" ELSE "retry"].at
             \notin {"wait", "told"}
  BY DEF Idle
<1>3. CASE Obtains(c, access)
  BY <1>1, <1>2, <1>3 DEF Obtains, Ends
<1>4. CASE Raises(c)
  BY <1>1, <1>2, <1>4 DEF Raises, Ends
<1>5. CASE Ends(c)
  BY <1>1, <1>2, <1>5 DEF Ends
<1> QED
  BY <1>3, <1>4, <1>5

LEMMA QueueHonest ==
    ASSUME IInv, Informed, Settled, NEW c \in Call,
           NEW access \in (refused \cap Token) \cup {None}, Queue(c, access)
    PROVE  Informed'
<1> DEFINE new == [Idle EXCEPT !.at = "wait", !.access = access]
<1>1. new \in CallType /\ new.got = NoTokens /\ new.at = "wait" /\ new.access = access
  BY Types DEF IInv, CallType, Idle, At
<1>2. Becomes(c, new) /\ cache' = cache
  BY DEF Queue
<1> HIDE DEF new
<1> QED
  BY <1>1, <1>2, QuietHonest DEF Informed

LEMMA NextInformed ==
    ASSUME IInv, Informed, [Next]_vars
    PROVE  Informed'
<1> USE DEF server, lock
<1>0. TypeOK /\ Settled
  BY ServerSettles DEF IInv
<1>t. /\ cache.access \in Token \cup {None} /\ None \in Token \cup {None}
      /\ \A c \in Call : /\ call[c].access \in Token \cup {None}
                         /\ call[c].got.access \in Token \cup {None}
  BY <1>0, Types DEF TypeOK, Pair, CallType
<1>1. ASSUME UNCHANGED call, cache' \in {cache, NoTokens}  PROVE Informed'
  BY <1>0, <1>1, NoneSound DEF Informed
<1>q. ASSUME NEW c \in Call, NEW access \in Token \cup {None},
             Obtains(c, access) \/ Raises(c) \/ Ends(c)
      PROVE  \A d \in Call : Honest(d)'
  BY <1>0, <1>q, QuietForms, QuietHonest
<1>2. ASSUME NEW c \in Call, Begin(c)  PROVE Informed'
  BY <1>0, <1>2, <1>t, <1>q, QueueHonest DEF Begin, Informed
<1>3. ASSUME NEW c \in Call, Answer(c)  PROVE Informed'
  <2>1. CASE Queue(c, call[c].access) /\ call[c].access \in refused
    BY <1>0, <1>t, <2>1, QueueHonest
  <2> QED
    BY <1>3, <1>t, <1>q, <2>1 DEF Answer, Informed
<1>4. ASSUME NEW c \in Call, Enter(c)  PROVE Informed'
  <2> DEFINE new == [call[c] EXCEPT !.at = "asked", !.ask = cache.refresh]
  <2>1. CASE Becomes(c, new)
    <3>1. \A d \in Call : call'[d] = IF d = c THEN new ELSE call[d]
      BY <1>0, <2>1, Types DEF Becomes
    <3>2. new.at = "asked" /\ new.got = call[c].got
      BY <1>0, Types DEF CallType
    <3> HIDE DEF new
    <3>3. Honest(c)'
      BY <3>1, <3>2 DEF Informed, Honest
    <3> QED
      BY <1>0, <1>4, <3>1, <3>3, NoneSound DEF Enter, Informed
  <2>2. CASE Obtains(c, cache.access) \/ Raises(c)
    BY <1>4, <1>t, <1>q, <2>2 DEF Enter, Informed
  <2> QED
    BY <1>4, <2>1, <2>2 DEF Enter
<1>5. ASSUME NEW c \in Call, Told(c)  PROVE Informed'
  <2>1. \A d \in Call : Honest(d)'
    BY <1>5, <1>t, <1>q DEF Told
  <2>2. cache' \in {cache, NoTokens, call[c].got}
    BY <1>5 DEF Told
  <2> QED
    BY <2>1, <2>2 DEF Informed, Honest
<1>6. ASSUME NEW c \in Call, Fail(c)  PROVE Informed'
  BY <1>6, <1>t, <1>q DEF Fail, Informed
<1>7. ASSUME NEW i \in DOMAIN waiting, Cancel(i)  PROVE Informed'
  <2>1. waiting[i] \in Call
    BY <1>0 DEF TypeOK
  <2> QED
    BY <1>7, <1>t, <1>q, <2>1 DEF Cancel, Informed
<1>8. ASSUME NEW c \in Call, Granted(c)  PROVE Informed'
  <2>1. \A d \in Call : Honest(d)'
    BY <1>8, <1>t, <1>q DEF Granted
  <2> QED
    BY <1>8, <2>1 DEF Granted, Informed, Honest
<1>9. ASSUME NEW c \in Call, Refreshes(c)  PROVE Informed'
  <2>0. /\ call[c].at = "asked" /\ cache' = cache
        /\ minted \in Nat /\ (None = 0)
    BY <1>0, <1>9, Types DEF Refreshes, None
  <2>1. PICK pair : /\ Becomes(c, [call[c] EXCEPT !.at = "told", !.got = pair])
                    /\ pair.access = None => pair = NoTokens
                    /\ pair = NoTokens => call[c].ask \notin live /\ live' = live
    <3>1. CASE call[c].ask \in live
      <4>1. /\ [access |-> minted + 1, refresh |-> minted + 1].access # None
            /\ [access |-> minted + 1, refresh |-> minted + 1] # NoTokens
            /\ [access |-> minted + 1, refresh |-> call[c].ask].access # None
            /\ [access |-> minted + 1, refresh |-> call[c].ask] # NoTokens
        BY <2>0 DEF NoTokens
      <4> QED
        BY <1>9, <3>1, <4>1 DEF Refreshes
    <3>2. CASE call[c].ask \notin live
      BY <1>9, <3>2 DEF Refreshes
    <3> QED
      BY <3>1, <3>2
  <2>2. \A d \in Call : call'[d] = IF d = c THEN [call[c] EXCEPT !.at = "told", !.got = pair]
                                            ELSE call[d]
    BY <1>0, <2>1, Types DEF Becomes
  <2>3. call'[c].at = "told" /\ call'[c].ask = call[c].ask /\ call'[c].got = pair
    BY <1>0, <2>2, Types DEF CallType
  <2>4. Honest(c)'
    BY <2>1, <2>3 DEF Honest
  <2> QED
    BY <1>0, <2>0, <2>2, <2>4, NoneSound DEF Informed
<1>10. ASSUME NEW c \in Call, Authorizes(c)  PROVE Informed'
  <2> DEFINE new == [access |-> minted + 1, refresh |-> minted + 1]
  <2>1. \A d \in Call : call'[d] = IF d = c THEN [call[c] EXCEPT !.at = "granted", !.got = new]
                                            ELSE call[d]
    BY <1>0, <1>10, Types DEF Authorizes, Becomes
  <2>2. new.access # None
    BY <1>0, Types DEF None
  <2> HIDE DEF new
  <2>3. call'[c].at = "granted" /\ call'[c].got = new
    BY <1>0, <2>1, Types DEF CallType
  <2>4. Honest(c)'
    BY <2>2, <2>3 DEF Honest
  <2> QED
    BY <1>0, <1>10, <2>1, <2>4, NoneSound DEF Authorizes, Informed
<1>11. CASE StartFlow \/ Revoke \/ Expires \/ UNCHANGED vars
  BY <1>1, <1>11 DEF StartFlow, Revoke, Expires, vars
<1>12. CASE Crash
  <2>1. \A d \in Call : call'[d] = Idle
    BY <1>12 DEF Crash
  <2> QED
    BY <1>12, <2>1 DEF Crash, Informed, Honest, Idle
<1>13. CASE Next
  <2>1. ASSUME NEW c \in Call, Step(c)  PROVE Informed'
    BY <1>3, <1>4, <1>5, <1>6, <1>8, <1>9, <1>10, <2>1 DEF Step
  <2>2. CASE \E c \in Call : Begin(c) \/ Step(c)
    BY <1>2, <2>1, <2>2
  <2>3. CASE \E i \in DOMAIN waiting : Cancel(i)
    BY <1>7, <2>3
  <2> QED
    BY <1>11, <1>12, <1>13, <2>2, <2>3 DEF Next
<1> QED
  BY <1>11, <1>13

LEMMA AlwaysInformed == Spec => [](IInv /\ Informed)
<1>1. Init => Informed
  BY DEF Init, Informed, Honest, Idle, NoTokens
<1>2. Informed /\ IInv /\ [Next]_vars => Informed'
  BY NextInformed
<1> QED
  BY <1>1, <1>2, Invariance, PTL DEF Spec

\* _refresh_lock and the second look at the cache keep every call, whatever the
\* settings page does meanwhile, from presenting a refresh token that was rotated
\* and whose successor was cached.
THEOREM ReplayNever == Spec => []NoReplay
<1>1. IInv => NoReplay
  BY DEF IInv, Carried, Sound, NoReplay, Unreplaced
<1> QED
  BY <1>1, Invariance, PTL

LEMMA AskedByEntering ==
    ASSUME IInv, [Next]_vars, NEW c \in Call, call[c].at # "asked", call'[c].at = "asked"
    PROVE  Enter(c) /\ ~Renewed(c) /\ cache.refresh # None
<1> USE DEF server, lock
<1>0. TypeOK /\ call \in [Call -> CallType]
  BY Types DEF IInv
<1>t. /\ cache.access \in Token \cup {None} /\ None \in Token \cup {None}
      /\ \A d \in Call : /\ call[d].access \in Token \cup {None}
                         /\ call[d].got.access \in Token \cup {None}
  BY <1>0, Types DEF TypeOK, Pair, CallType
<1>1. ASSUME NEW d \in Call, NEW new, Becomes(d, new)  PROVE d = c /\ new.at = "asked"
  BY <1>0, <1>1 DEF Becomes
<1>2. ASSUME NEW d \in Call, NEW access \in Token \cup {None},
             Obtains(d, access) \/ Raises(d) \/ Queue(d, access) \/ Ends(d)
      PROVE  FALSE
  BY <1>1, <1>2, QuietSteps DEF Busy
<1>3. ASSUME NEW d \in Call, Begin(d) \/ Answer(d) \/ Told(d) \/ Granted(d) \/ Fail(d)
      PROVE  FALSE
  BY <1>2, <1>3, <1>t DEF Begin, Answer, Told, Granted, Fail
<1>4. ASSUME NEW d \in Call, NEW pair,
             Becomes(d, [call[d] EXCEPT !.at = "told", !.got = pair])
                \/ Becomes(d, [call[d] EXCEPT !.at = "granted", !.got = pair])
      PROVE  FALSE
  <2>1. /\ [call[d] EXCEPT !.at = "told", !.got = pair].at = "told"
        /\ [call[d] EXCEPT !.at = "granted", !.got = pair].at = "granted"
    BY <1>0 DEF CallType
  <2> QED
    BY <1>1, <1>4, <2>1
<1>5. ASSUME NEW d \in Call, Refreshes(d) \/ Authorizes(d)  PROVE FALSE
  BY <1>4, <1>5 DEF Refreshes, Authorizes
<1>6. ASSUME NEW i \in DOMAIN waiting, Cancel(i)  PROVE FALSE
  <2>1. waiting[i] \in Call
    BY <1>0 DEF TypeOK
  <2> QED
    BY <1>2, <1>6, <1>t, <2>1 DEF Cancel
<1>7. CASE StartFlow \/ Revoke \/ Expires \/ Crash \/ UNCHANGED vars
  BY <1>7 DEF StartFlow, Revoke, Expires, Crash, vars, Idle
<1>8. ASSUME NEW d \in Call, Enter(d)  PROVE d = c /\ ~Renewed(d) /\ cache.refresh # None
  BY <1>1, <1>2, <1>8, <1>t DEF Enter
<1>9. PICK d \in Call : Enter(d)
  BY <1>3, <1>5, <1>6, <1>7 DEF Next, Step
<1> QED
  BY <1>8, <1>9

\* Calls that waited while another renewed the tokens reuse them: whatever the
\* settings page does meanwhile, a refresh is for an access token worn out.
THEOREM WornOnly == Spec => OnlyWornRefreshed
<1>1. ASSUME IInv, Informed, [Next]_vars, NEW c \in Call,
             call[c].at # "asked", call'[c].at = "asked"
      PROVE  cache.access \in aged \cup refused
  <2>1. Enter(c) /\ ~Renewed(c) /\ cache.refresh # None
    BY <1>1, AskedByEntering
  <2>2. call[c].at = "wait" /\ call[c].access \in refused \cup {None}
    BY <1>1, <2>1 DEF Enter, CanEnter, Informed, Honest
  <2>3. cache.access # None
    BY <1>1, <2>1 DEF Informed, NoTokens
  <2> QED
    BY <2>1, <2>2, <2>3 DEF Renewed
<1> QED
  <2>1. IInv /\ Informed /\ [Next]_vars =>
           [\A c \in Call : call[c].at # "asked" /\ call'[c].at = "asked"
              => cache.access \in aged \cup refused]_vars
    BY <1>1
  <2> QED
    BY <2>1, AlwaysInformed, PTL DEF OnlyWornRefreshed, Spec

\* An authorization that the server honours is deleted by the operator only.
THEOREM LiveTokensKept == Spec => KeepsLiveTokens
<1>1. ASSUME IInv, Informed, [Next]_vars, cache # NoTokens, cache' = NoTokens, ~Revoke
      PROVE  cache.refresh \notin live
  <2>1. ASSUME NEW c \in Call, Told(c)  PROVE cache.refresh \notin live
    <3>1. call[c].got = NoTokens /\ cache.refresh \in {None, call[c].ask}
      BY <1>1, <2>1 DEF Told, RotatedByAnother
    <3>2. call[c].ask \notin live /\ None \notin live
      BY <1>1, <2>1, <3>1 DEF Told, Informed, Honest, IInv, TypeOK, None
    <3> QED
      BY <3>1, <3>2
  <2>2. ASSUME NEW c \in Call, Granted(c)  PROVE FALSE
    <3>1. call[c].got.refresh = None
      BY <1>1, <2>2 DEF Granted, NoTokens
    <3> QED
      BY <1>1, <2>2, <3>1 DEF Granted, IInv, Carried, Sound, Unreplaced, None
  <2>3. ASSUME cache' = cache  PROVE FALSE
    BY <1>1, <2>3
  <2>4. ASSUME NEW c \in Call, Begin(c) \/ Step(c)  PROVE Told(c) \/ Granted(c)
    BY <2>3, <2>4 DEF Step, Begin, Answer, Enter, Fail, Refreshes, Authorizes, Queue
  <2>5. ASSUME NEW i \in DOMAIN waiting, Cancel(i)  PROVE FALSE
    BY <2>3, <2>5 DEF Cancel
  <2>6. CASE StartFlow \/ Expires \/ Crash \/ UNCHANGED vars
    BY <2>3, <2>6 DEF StartFlow, Expires, Crash, vars
  <2> QED
    BY <1>1, <2>1, <2>2, <2>4, <2>5, <2>6 DEF Next
<1> QED
  <2>1. IInv /\ Informed /\ [Next]_vars =>
           [cache # NoTokens /\ cache' = NoTokens => Revoke \/ cache.refresh \notin live]_vars
    BY <1>1
  <2> QED
    BY <2>1, AlwaysInformed, PTL DEF KeepsLiveTokens, Spec


=============================================================================
