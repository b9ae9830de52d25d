----------------------------- MODULE Login_proofs ----------------------------
(***************************************************************************)
(* Theorems of Login, for any number of browsers and requests, any limits, *)
(* any skew and any number of lost Redis calls.                            *)
(***************************************************************************)
EXTENDS Login, FiniteSetTheorems, TLAPS

Codes == Code \cup RecoveryCode \cup {<<0, 0>>}
Afters == {"idle", "complete", "clear"}
Proofs == {"none", "password", "code", "recovery"}
Seens == SUBSET State
Handler == [pc : Places, read : State, code : Codes, after : Afters, by : Proofs,
            seen : Seens]

(* What a session was given for, among the states the request has seen.     *)
Justified(q) ==
    /\ q.by = "password" => \E m \in q.seen : ~m.enabled
    /\ q.by = "code" => \E m \in q.seen : m.enabled /\ m.secret = q.code[1]
    /\ q.by \notin {"password", "code"} => \E m \in q.seen : m.enabled

(* What handler q has established by the place it is at, m being the        *)
(* account's second factor.                                                 *)
Sound(q, m) ==
    /\ q \in Handler
    /\ q.pc # "idle" => m \in q.seen
    /\ q.pc = "verifyCode" => q.read \in q.seen /\ q.read.enabled
    /\ q.pc = "burn" => /\ q.by = "recovery"
                        /\ q.after = "complete" => \E n \in q.seen : n.enabled
    /\ q.pc = "complete" => Justified(q)

FactorInv ==
    /\ mfa \in State
    /\ req \in [Client -> Handler]
    /\ \A c \in Client : Sound(req[c], mfa)
    /\ EnabledHasSecret

----------------------------------------------------------------------------
(* What a handler does to its own locals.                                   *)

Placed(q, place) == [q EXCEPT !.pc = place]
Arrived(q, place, m) == [q EXCEPT !.pc = place, !.seen = {m}]
Passed(q) == [q EXCEPT !.pc = "complete", !.by = "password"]
Coded(q, k, place) == [q EXCEPT !.pc = place, !.code = k, !.by = "code", !.read = Off]
Matched(q, k, place) == [q EXCEPT !.pc = "burn", !.code = k, !.after = place,
                                  !.by = "recovery", !.read = Off]
Having(q, place, m) == [q EXCEPT !.pc = place, !.read = m]
Seeing(q, m) == [q EXCEPT !.seen = @ \cup {m}]

LEMMA OffIsState == Off \in State /\ <<0, 0>> \in Codes /\ Idle \in Handler
<1>1. Off \in State
  BY DEF Off, State, NoSecret
<1> QED
  BY <1>1 DEF Codes, Idle, Handler, Places, Afters, Proofs, Seens

LEMMA SoundIdle == ASSUME NEW m PROVE Sound(Idle, m)
<1>1. Idle \in Handler /\ Idle.pc = "idle"
  BY OffIsState DEF Idle
<1> QED
  BY <1>1 DEF Sound

LEMMA SoundPlaced ==
    ASSUME NEW q, NEW m, Sound(q, m), q.pc # "idle",
           NEW place \in Places \ {"verifyCode", "burn", "complete"}
    PROVE  Sound(Placed(q, place), m)
<1>1. /\ Placed(q, place) \in Handler
      /\ Placed(q, place).pc = place /\ Placed(q, place).seen = q.seen
  BY DEF Sound, Handler, Placed
<1> QED
  BY <1>1 DEF Sound

LEMMA SoundArrived ==
    ASSUME NEW q \in Handler, NEW m \in State,
           NEW place \in Places \ {"verifyCode", "burn", "complete"}
    PROVE  Sound(Arrived(q, place, m), m)
<1>1. {m} \in Seens
  BY DEF Seens
<1>2. /\ Arrived(q, place, m) \in Handler
      /\ Arrived(q, place, m).pc = place /\ Arrived(q, place, m).seen = {m}
  BY <1>1 DEF Handler, Arrived
<1> QED
  BY <1>2 DEF Sound

(* The right password, when the state that is read asks for no code.        *)
LEMMA SoundPassed ==
    ASSUME NEW q, NEW m, Sound(q, m), q.pc # "idle", ~m.enabled
    PROVE  Sound(Passed(q), m)
<1>1. "complete" \in Places /\ "password" \in Proofs /\ q \in Handler
  BY DEF Places, Proofs, Sound
<1>2. /\ Passed(q) \in Handler /\ Passed(q).pc = "complete"
      /\ Passed(q).by = "password" /\ Passed(q).seen = q.seen
  BY <1>1 DEF Handler, Passed
<1> QED
  BY <1>2 DEF Sound, Justified

(* A code that is valid for the secret the handler has read.                *)
LEMMA SoundCoded ==
    ASSUME NEW q, NEW m, Sound(q, m), NEW k \in Code, NEW place,
           \/ q.pc = "verifyCode" /\ place = "complete" /\ k[1] = q.read.secret
           \/ q.pc = "activateCode" /\ place = "enable"
    PROVE  Sound(Coded(q, k, place), m)
<1>1. place \in Places /\ "code" \in Proofs /\ k \in Codes /\ Off \in State
         /\ q \in Handler
  BY OffIsState DEF Places, Proofs, Codes, Sound
<1>2. /\ Coded(q, k, place) \in Handler /\ Coded(q, k, place).pc = place
      /\ Coded(q, k, place).by = "code" /\ Coded(q, k, place).code = k
      /\ Coded(q, k, place).seen = q.seen
  BY <1>1 DEF Handler, Coded
<1> QED
  BY <1>2 DEF Sound, Justified

(* A recovery code that was there, not burnt yet.                           *)
LEMMA SoundMatched ==
    ASSUME NEW q, NEW m, Sound(q, m), NEW k \in RecoveryCode, NEW place,
           \/ q.pc = "verifyCode" /\ place = "complete"
           \/ q.pc = "disableCode" /\ place = "clear"
    PROVE  Sound(Matched(q, k, place), m)
<1>1. /\ place \in Afters /\ "burn" \in Places /\ "recovery" \in Proofs /\ k \in Codes
      /\ Off \in State /\ q \in Handler
  BY OffIsState DEF Places, Proofs, Codes, Afters, Sound
<1>2. /\ Matched(q, k, place) \in Handler /\ Matched(q, k, place).pc = "burn"
      /\ Matched(q, k, place).by = "recovery" /\ Matched(q, k, place).after = place
      /\ Matched(q, k, place).seen = q.seen
  BY <1>1 DEF Handler, Matched
<1> QED
  BY <1>2 DEF Sound

(* One that was burnt: the session, or the disabling.                       *)
LEMMA SoundBurnt ==
    ASSUME NEW q, NEW m, Sound(q, m), q.pc = "burn"
    PROVE  Sound(Placed(q, q.after), m)
<1>1. q.after \in Places /\ q.after \notin {"verifyCode", "burn"} /\ q \in Handler
  BY DEF Sound, Handler, Afters, Places
<1>2. /\ Placed(q, q.after) \in Handler /\ Placed(q, q.after).pc = q.after
      /\ Placed(q, q.after).by = q.by /\ Placed(q, q.after).seen = q.seen
  BY <1>1 DEF Handler, Placed
<1> QED
  BY <1>1, <1>2 DEF Sound, Justified

LEMMA SoundHaving ==
    ASSUME NEW q, NEW m \in State, Sound(q, m), q.pc # "idle", NEW place,
           \/ place = "verifyCode" /\ m.enabled
           \/ place \in {"activateCode", "disableCode"}
    PROVE  Sound(Having(q, place, m), m)
<1>1. place \in Places /\ place \notin {"idle", "burn", "complete"} /\ q \in Handler
  BY DEF Places, Sound
<1>2. /\ Having(q, place, m) \in Handler /\ Having(q, place, m).pc = place
      /\ Having(q, place, m).read = m /\ Having(q, place, m).seen = q.seen
  BY <1>1 DEF Handler, Having
<1> QED
  BY <1>1, <1>2 DEF Sound

(* Another request changes the second factor: the handler has seen both.    *)
LEMMA SoundSeeing ==
    ASSUME NEW q, NEW m, Sound(q, m), NEW n \in State
    PROVE  Sound(Seeing(q, n), n)
<1>1. q \in Handler /\ q.seen \cup {n} \in Seens
  BY DEF Sound, Handler, Seens
<1>2. /\ Seeing(q, n) \in Handler
      /\ Seeing(q, n).pc = q.pc /\ Seeing(q, n).read = q.read
      /\ Seeing(q, n).code = q.code /\ Seeing(q, n).after = q.after
      /\ Seeing(q, n).by = q.by /\ Seeing(q, n).seen = q.seen \cup {n}
  BY <1>1 DEF Handler, Seeing
<1> QED
  BY <1>2 DEF Sound, Justified

----------------------------------------------------------------------------
(* Every step keeps what the handlers have established.                     *)

LEMMA OneHandler ==
    ASSUME FactorInv, mfa' = mfa, NEW c \in Client, NEW q, GoOn(c, q), Sound(q, mfa)
    PROVE  FactorInv'
<1>1. q \in Handler
  BY DEF Sound
<1>2. req' \in [Client -> Handler]
         /\ \A x \in Client : req'[x] = IF x = c THEN q ELSE req[x]
  BY <1>1 DEF FactorInv, GoOn
<1>3. \A x \in Client : Sound(req'[x], mfa)
  BY <1>2 DEF FactorInv
<1> QED
  BY <1>2, <1>3 DEF FactorInv, EnabledHasSecret

LEMMA SameHandlers ==
    ASSUME FactorInv, mfa' = mfa, req' = req
    PROVE  FactorInv'
  BY DEF FactorInv, EnabledHasSecret

LEMMA WriteSeen ==
    ASSUME FactorInv, mfa' \in State, EnabledHasSecret', NEW ending, Write(ending)
    PROVE  FactorInv'
<1>1. ASSUME NEW c \in Client
      PROVE  Sound(req'[c], mfa')
  <2>1. req'[c] = IF c \in ending THEN Idle
                  ELSE IF At(c, "idle") THEN req[c] ELSE Seeing(req[c], mfa')
    BY DEF Write, Seeing
  <2>2. Sound(req[c], mfa)
    BY DEF FactorInv
  <2>3. At(c, "idle") => Sound(req[c], mfa')
    BY <2>2 DEF At, Sound
  <2>4. Sound(Seeing(req[c], mfa'), mfa')
    BY <2>2, SoundSeeing
  <2> QED
    BY <2>1, <2>3, <2>4, SoundIdle
<1>2. req' \in [Client -> Handler]
  BY <1>1 DEF Write, Sound
<1> QED
  BY <1>1, <1>2 DEF FactorInv

LEMMA Ends ==
    ASSUME FactorInv, mfa' = mfa, NEW c \in Client, End(c)
    PROVE  FactorInv'
  BY OneHandler, SoundIdle DEF End

LEMMA Goes ==
    ASSUME FactorInv, mfa' = mfa, NEW c \in Client, ~At(c, "idle"),
           NEW place \in Places \ {"verifyCode", "burn", "complete"}, GoTo(c, place)
    PROVE  FactorInv'
<1>1. Sound(Placed(req[c], place), mfa)
  BY SoundPlaced DEF FactorInv, At
<1> QED
  BY <1>1, OneHandler DEF GoTo, Placed

(* Signing in, up to the session.                                           *)
LEMMA LoginFactor ==
    ASSUME FactorInv, NEW c \in Client,
           \/ Arrive(c) \/ GiveUp(c) \/ Check(c) \/ CheckLock(c) \/ Password(c)
           \/ RecordFailure(c)
           \/ SetLock(c) \/ ReadState(c) \/ Complete(c)
    PROVE  FactorInv'
<1>1. CASE Arrive(c)
  <2>1. PICK place \in {"check", "verify", "stage", "activate", "disable"} :
           GoOn(c, Arrived(req[c], place, mfa))
    BY <1>1 DEF Arrive, Arrived
  <2>2. place \in Places \ {"verifyCode", "burn", "complete"} /\ mfa' = mfa
    BY <1>1, <2>1 DEF Places, Arrive, factor
  <2>3. Sound(Arrived(req[c], place, mfa), mfa)
    BY <2>2, SoundArrived DEF FactorInv
  <2> QED
    BY <2>1, <2>2, <2>3, OneHandler
<1>2. CASE GiveUp(c)
  BY <1>2, Ends DEF GiveUp, factor
<1>3. CASE Check(c) \/ CheckLock(c)
  <2>1. {"checkLock", "password"} \subseteq Places \ {"verifyCode", "burn", "complete"}
    BY DEF Places
  <2>2. mfa' = mfa /\ ~At(c, "idle")
        /\ (End(c) \/ GoTo(c, "checkLock") \/ GoTo(c, "password"))
    BY <1>3 DEF Check, CheckLock, factor, At
  <2> QED
    BY <2>1, <2>2, Ends, Goes
<1>4. CASE Password(c)
  <2>1. "state" \in Places \ {"verifyCode", "burn", "complete"}
        /\ "record" \in Places \ {"verifyCode", "burn", "complete"}
    BY DEF Places
  <2>2. mfa' = mfa /\ ~At(c, "idle") /\ (GoTo(c, "state") \/ GoTo(c, "record"))
    BY <1>4 DEF Password, factor, At
  <2> QED
    BY <2>1, <2>2, Goes
<1>5. CASE RecordFailure(c)
  <2>1. "lock" \in Places \ {"verifyCode", "burn", "complete"}
    BY DEF Places
  <2>2. mfa' = mfa /\ ~At(c, "idle") /\ (GoTo(c, "lock") \/ End(c))
    BY <1>5 DEF RecordFailure, factor, At
  <2> QED
    BY <2>1, <2>2, Ends, Goes
<1>6. CASE SetLock(c)
  BY <1>6, Ends DEF SetLock, factor
<1>7. CASE ReadState(c)
  <2>1. mfa' = mfa /\ At(c, "state")
           /\ (End(c) \/ (~mfa.enabled /\ GoOn(c, Passed(req[c]))))
    BY <1>7 DEF ReadState, factor, AsksCode, Passed
  <2>2. ~mfa.enabled => Sound(Passed(req[c]), mfa)
    BY <2>1, SoundPassed DEF FactorInv, At
  <2> QED
    BY <2>1, <2>2, Ends, OneHandler
<1>8. CASE Complete(c)
  BY <1>8, Ends DEF Complete, factor
<1> QED
  BY <1>1, <1>2, <1>3, <1>4, <1>5, <1>6, <1>7, <1>8

(* Codes: read the state, validate, consume or burn.                        *)
LEMMA CodeFactor ==
    ASSUME FactorInv, recovery \subseteq RecoveryCode, NEW c \in Client,
           \/ VerifyMFA(c) \/ ActivateMFA(c) \/ DisableMFA(c)
           \/ VerifyCode(c) \/ ActivateCode(c) \/ DisableCode(c) \/ Burn(c)
    PROVE  FactorInv'
<1>1. CASE VerifyMFA(c) \/ ActivateMFA(c) \/ DisableMFA(c)
  <2>1. /\ mfa' = mfa /\ ~At(c, "idle")
        /\ \/ End(c)
           \/ mfa.enabled /\ GoOn(c, Having(req[c], "verifyCode", mfa))
           \/ \E place \in {"activateCode", "disableCode"} : GoOn(c,
                 Having(req[c], place, mfa))
    BY <1>1 DEF VerifyMFA, ActivateMFA, DisableMFA, ReadFor, factor, At, Having
  <2>2. /\ mfa.enabled => Sound(Having(req[c], "verifyCode", mfa), mfa)
        /\ \A place \in {"activateCode", "disableCode"} : Sound(Having(req[c], place,
              mfa), mfa)
    BY <2>1, SoundHaving DEF FactorInv, At
  <2> QED
    BY <2>1, <2>2, Ends, OneHandler
<1>2. CASE VerifyCode(c)
  <2>1. /\ mfa' = mfa /\ req[c].pc = "verifyCode"
        /\ \/ End(c) \/ GoTo(c, "record")
           \/ \E k \in Code : /\ k[1] = req[c].read.secret
                              /\ GoOn(c, Coded(req[c], k, "complete"))
           \/ \E k \in recovery : GoOn(c, Matched(req[c], k, "complete"))
    BY <1>2
       DEF VerifyCode, Consume, Valid, Accept, MatchRecovery, factor, At, Coded,
           Matched
  <2>2. "record" \in Places \ {"verifyCode", "burn", "complete"} /\ ~At(c, "idle")
    BY <2>1 DEF Places, At
  <2>3. /\ \A k \in Code : k[1] = req[c].read.secret
              => Sound(Coded(req[c], k, "complete"), mfa)
        /\ \A k \in recovery : Sound(Matched(req[c], k, "complete"), mfa)
    BY <2>1, SoundCoded, SoundMatched DEF FactorInv
  <2> QED
    BY <2>1, <2>2, <2>3, Ends, Goes, OneHandler
<1>3. CASE ActivateCode(c)
  <2>1. /\ mfa' = mfa /\ req[c].pc = "activateCode"
        /\ \/ End(c)
           \/ \E k \in Code : GoOn(c, Coded(req[c], k, "enable"))
    BY <1>3 DEF ActivateCode, Consume, Accept, factor, At, Coded
  <2>2. \A k \in Code : Sound(Coded(req[c], k, "enable"), mfa)
    BY <2>1, SoundCoded DEF FactorInv
  <2> QED
    BY <2>1, <2>2, Ends, OneHandler
<1>4. CASE DisableCode(c)
  <2>1. /\ mfa' = mfa /\ req[c].pc = "disableCode"
        /\ \/ End(c) \/ GoTo(c, "clear")
           \/ \E k \in recovery : GoOn(c, Matched(req[c], k, "clear"))
    BY <1>4 DEF DisableCode, MatchRecovery, factor, At, Matched
  <2>2. "clear" \in Places \ {"verifyCode", "burn", "complete"} /\ ~At(c, "idle")
    BY <2>1 DEF Places, At
  <2>3. \A k \in recovery : Sound(Matched(req[c], k, "clear"), mfa)
    BY <2>1, SoundMatched DEF FactorInv
  <2> QED
    BY <2>1, <2>2, <2>3, Ends, Goes, OneHandler
<1>5. CASE Burn(c)
  <2>1. /\ mfa' = mfa /\ req[c].pc = "burn"
        /\ \/ End(c) \/ GoTo(c, "record")
           \/ GoOn(c, Placed(req[c], req[c].after))
    BY <1>5 DEF Burn, factor, At, Placed, GoTo
  <2>2. "record" \in Places \ {"verifyCode", "burn", "complete"} /\ ~At(c, "idle")
    BY <2>1 DEF Places, At
  <2>3. Sound(Placed(req[c], req[c].after), mfa)
    BY <2>1, SoundBurnt DEF FactorInv
  <2> QED
    BY <2>1, <2>2, <2>3, Ends, Goes, OneHandler
<1> QED
  BY <1>1, <1>2, <1>3, <1>4, <1>5

(* The writes to the second factor.                                         *)
LEMMA WritesFactor ==
    ASSUME FactorInv, secrets \in 0 .. MaxSecrets,
           ResetByAdmin \/ \E c \in Client : Enroll(c) \/ Enable(c) \/ Disable(c)
    PROVE  FactorInv'
<1>1. ASSUME NEW c \in Client, Enroll(c) PROVE FactorInv'
  <2>1. secrets + 1 \in Secret /\ secrets + 1 # NoSecret
    BY <1>1, LoginAssumption DEF Enroll, Secret, NoSecret
  <2>2. mfa' = [enabled |-> FALSE, secret |-> secrets + 1] /\ Write({c})
    BY <1>1 DEF Enroll
  <2>3. mfa' \in State /\ EnabledHasSecret'
    BY <2>1, <2>2 DEF State, EnabledHasSecret
  <2> QED
    BY <2>2, <2>3, WriteSeen
<1>2. ASSUME NEW c \in Client, Enable(c) PROVE FactorInv'
  <2>1. mfa' = [mfa EXCEPT !.enabled = @ \/ SwitchedOn] /\ Write({c})
    BY <1>2 DEF Enable
  <2>2. /\ mfa'.enabled = (mfa.enabled \/ mfa.secret # NoSecret)
        /\ mfa'.secret = mfa.secret
    BY <2>1 DEF FactorInv, State, SwitchedOn
  <2>3. mfa' \in State
    BY <2>1, <2>2 DEF FactorInv, State, SwitchedOn
  <2>4. EnabledHasSecret'
    BY <2>2 DEF FactorInv, EnabledHasSecret
  <2> QED
    BY <2>1, <2>3, <2>4, WriteSeen
<1>3. ASSUME ResetByAdmin \/ \E c \in Client : Disable(c) PROVE FactorInv'
  <2>1. mfa' = Off /\ \E ending : Write(ending)
    BY <1>3 DEF Disable, ResetByAdmin, Cleared
  <2>2. mfa' \in State /\ EnabledHasSecret'
    BY <2>1, OffIsState DEF EnabledHasSecret, Off
  <2> QED
    BY <2>1, <2>2, WriteSeen
<1> QED
  BY <1>1, <1>2, <1>3

----------------------------------------------------------------------------
(* The other variables' types, but for the bounds of the limiter's counters. *)

Remembered == [code : Code, until : 1 .. MaxTime + 3]

StoreTypes ==
    /\ recovery \subseteq RecoveryCode /\ orgRequire \in BOOLEAN /\ locked \in BOOLEAN
    /\ used \subseteq Remembered
    /\ session \subseteq Client /\ pending \subseteq Client
    /\ now \in 0 .. MaxTime /\ secrets \in 0 .. MaxSecrets /\ sets \in 0 .. MaxSets
    /\ accepted \in [Code -> Nat] /\ spent \in [RecoveryCode -> Nat]
    /\ requests \in 0 .. MaxRequests /\ faults \in 0 .. MaxFaults

LEMMA CallsKeep ==
    ASSUME faults \in 0 .. MaxFaults, RedisAnswers \/ RedisFails
    PROVE  faults' \in 0 .. MaxFaults /\ faults' >= faults
  BY LoginAssumption DEF RedisAnswers, RedisFails

(* Steps that leave the codes alone.                                        *)
LEMMA QuietTypes ==
    ASSUME StoreTypes, NEW c \in Client,
           \/ Arrive(c) \/ GiveUp(c) \/ Check(c) \/ CheckLock(c) \/ Password(c)
           \/ RecordFailure(c)
           \/ SetLock(c) \/ ReadState(c) \/ Complete(c)
           \/ VerifyMFA(c) \/ ActivateMFA(c) \/ DisableMFA(c) \/ Logout(c)
                 \/ PendingEnds(c)
    PROVE  /\ StoreTypes' /\ UNCHANGED <<recovery, sets, secrets, used, accepted, spent,
                 now>>
           /\ faults' >= faults
<1>1. UNCHANGED <<recovery, sets, secrets, used, accepted, spent, now>>
  BY DEF Arrive, GiveUp, Check, CheckLock, Password, RecordFailure, SetLock, ReadState,
         Complete, VerifyMFA, ActivateMFA, DisableMFA, ReadFor, Logout, PendingEnds,
         factor, history
<1>2. faults' \in 0 .. MaxFaults /\ faults' >= faults
  <2>1. RedisAnswers \/ RedisFails
    BY DEF Arrive, GiveUp, Check, CheckLock, Password, RecordFailure, SetLock, ReadState,
           Complete, VerifyMFA, ActivateMFA, DisableMFA, ReadFor, Logout, PendingEnds,
           RedisAnswers
  <2> QED
    BY <2>1, CallsKeep DEF StoreTypes
<1>3. requests' \in 0 .. MaxRequests
  <2>1. requests' = requests \/ (requests < MaxRequests /\ requests' = requests + 1)
    BY DEF Arrive, GiveUp, Check, CheckLock, Password, RecordFailure, SetLock, ReadState,
           Complete, VerifyMFA, ActivateMFA, DisableMFA, ReadFor, Logout, PendingEnds
  <2> QED
    BY <2>1, LoginAssumption DEF StoreTypes
<1>4. session' \subseteq Client /\ pending' \subseteq Client
  BY DEF StoreTypes, Arrive, GiveUp, Check, CheckLock, Password, RecordFailure, SetLock,
         ReadState, Complete, VerifyMFA, ActivateMFA, DisableMFA, ReadFor, Logout, PendingEnds,
            cookies
<1>5. orgRequire' \in BOOLEAN /\ locked' \in BOOLEAN
  BY DEF StoreTypes, Arrive, GiveUp, Check, CheckLock, Password, RecordFailure, SetLock,
         ReadState, Complete, VerifyMFA, ActivateMFA, DisableMFA, ReadFor, Logout, PendingEnds,
            limiter
<1> QED
  BY <1>1, <1>2, <1>3, <1>4, <1>5 DEF StoreTypes

(* Steps of the other kind keep everything else.                            *)
LEMMA CodeTypes ==
    ASSUME StoreTypes, NEW c \in Client,
           VerifyCode(c) \/ ActivateCode(c) \/ DisableCode(c) \/ Burn(c)
    PROVE  StoreTypes' /\ faults' >= faults
<1>1. /\ UNCHANGED <<orgRequire, locked, session, pending, now, secrets, sets,
            requests>>
  BY DEF VerifyCode, ActivateCode, DisableCode, Burn, factor, cookies, limiter
<1>2. faults' \in 0 .. MaxFaults /\ faults' >= faults
  <2>1. RedisAnswers \/ RedisFails
    BY DEF VerifyCode, ActivateCode, DisableCode, Burn, Consume, MatchRecovery,
           RedisAnswers
  <2> QED
    BY <2>1, CallsKeep DEF StoreTypes
<1>3. recovery' \subseteq RecoveryCode /\ spent' \in [RecoveryCode -> Nat]
  BY DEF StoreTypes, VerifyCode, ActivateCode, DisableCode, Burn, factor
<1>4. \A k \in Code : [code |-> k, until |-> now + ConsumeTTL] \in Remembered
  BY LoginAssumption DEF StoreTypes, Remembered, ConsumeTTL
<1>5. used' \subseteq Remembered /\ accepted' \in [Code -> Nat]
  <2>1. \/ used' = used /\ accepted' = accepted
        \/ \E k \in Code :
              /\ accepted' = [accepted EXCEPT ![k] = @ + 1]
              /\ used' \subseteq used \cup {[code |-> k, until |-> now + ConsumeTTL]}
    BY DEF VerifyCode, ActivateCode, DisableCode, Burn, Consume, Accept, MatchRecovery
  <2> QED
    BY <1>4, <2>1 DEF StoreTypes
<1> QED
  BY <1>1, <1>2, <1>3, <1>5 DEF StoreTypes

LEMMA WriteTypes ==
    ASSUME StoreTypes,
           ResetByAdmin \/ \E c \in Client : Enroll(c) \/ Enable(c) \/ Disable(c)
    PROVE  StoreTypes'
<1>1. ASSUME NEW c \in Client, Enroll(c) PROVE StoreTypes'
  BY <1>1, LoginAssumption DEF StoreTypes, Enroll, limiter, cookies, history
<1>2. ASSUME NEW c \in Client, Enable(c) PROVE StoreTypes'
  <2>1. sets + 1 \in 1 .. MaxSets /\ Issued(sets + 1) \subseteq RecoveryCode
    BY <1>2, LoginAssumption DEF StoreTypes, Enable, Issued, RecoveryCode
  <2> QED
    BY <1>2, <2>1 DEF StoreTypes, Enable, limiter, cookies, history
<1>3. ASSUME NEW c \in Client, Disable(c) PROVE StoreTypes'
  BY <1>3 DEF StoreTypes, Disable, Cleared, limiter, cookies, history
<1>4. ASSUME ResetByAdmin PROVE StoreTypes'
  BY <1>4, LoginAssumption
     DEF StoreTypes, ResetByAdmin, Cleared, limiter, cookies, history
<1> QED
  BY <1>1, <1>2, <1>3, <1>4

LEMMA TimeTypes ==
    ASSUME StoreTypes, SetPolicy \/ Tick \/ IpWindowEnds \/ AcctWindowEnds \/ LockEnds
    PROVE  StoreTypes'
<1>1. CASE SetPolicy
  BY <1>1, LoginAssumption DEF StoreTypes, SetPolicy, factor, limiter, cookies, history
<1>2. CASE Tick
  BY <1>2, LoginAssumption DEF StoreTypes, Tick, factor, limiter, cookies, history
<1>3. CASE IpWindowEnds \/ AcctWindowEnds \/ LockEnds
  BY <1>3
     DEF StoreTypes, IpWindowEnds, AcctWindowEnds, LockEnds, factor, limiter, cookies,
         history
<1> QED
  BY <1>1, <1>2, <1>3

----------------------------------------------------------------------------
(* One-time and recovery codes.                                             *)

(* A code that was accepted more often than Redis failed is remembered as   *)
(* long as it is valid.                                                     *)
Outlived(k) == now > k[2] + Skew
Kept(k) == \E e \in used : e.code = k /\ e.until > k[2] + Skew

CodeInv ==
    /\ \A k \in Code : accepted[k] <= 1 + faults
    /\ \A k \in Code : accepted[k] > faults => Kept(k) \/ Outlived(k)
    /\ \A k \in RecoveryCode : spent[k] <= 1 /\ (k[1] > sets => spent[k] = 0)
    /\ \A k \in recovery : spent[k] = 0 /\ k[1] = sets

LEMMA CodeNumbers ==
    ASSUME NEW k \in Code
    PROVE  k[1] \in Nat /\ k[2] \in Int
  BY LoginAssumption DEF Code, Secret, Step

LEMMA QuietCodes ==
    ASSUME CodeInv, StoreTypes, faults' \in 0 .. MaxFaults, faults' >= faults,
           UNCHANGED <<recovery, sets, used, accepted, spent, now>>
    PROVE  CodeInv'
<1>1. \A k \in Code : accepted[k] \in Nat /\ accepted'[k] = accepted[k]
  BY DEF StoreTypes
<1>2. faults \in Nat /\ faults' \in Nat
  BY LoginAssumption DEF StoreTypes
<1>3. \A k \in Code : Kept(k)' = Kept(k) /\ Outlived(k)' = Outlived(k)
  BY DEF Kept, Outlived
<1>4. \A k \in Code : accepted'[k] <= 1 + faults'
  BY <1>1, <1>2 DEF CodeInv
<1>5. \A k \in Code : accepted'[k] > faults' => Kept(k)' \/ Outlived(k)'
  BY <1>1, <1>2, <1>3 DEF CodeInv
<1> QED
  BY <1>4, <1>5 DEF CodeInv

(* Consume, where the code's life is no longer than the time it is kept.    *)
LEMMA ConsumeCodes ==
    ASSUME 2 * Skew + 1 <= ConsumeTTL, CodeInv, StoreTypes,
           NEW c, NEW code \in Code, NEW next, Consume(c, code, next),
           UNCHANGED <<recovery, sets, spent, now>>
    PROVE  CodeInv'
<1>1. faults \in Nat /\ now \in Nat /\ Skew \in Nat /\ ConsumeTTL \in Nat
  BY LoginAssumption DEF StoreTypes, ConsumeTTL
<1>2. code[2] \in Int /\ now - Skew <= code[2] /\ code[2] <= now + Skew
  BY <1>1, CodeNumbers DEF Consume, Valid
<1>3. \A k \in Code : accepted[k] \in Nat
  BY DEF StoreTypes
<1>4. \A k \in Code : Kept(k) => Kept(k)'
  BY DEF Consume, Kept
<1>5. \A k \in Code : Outlived(k)' = Outlived(k)
  BY DEF Outlived
<1>6. CASE RedisAnswers /\ Fresh(code) /\ Accept(c, code, next)
           /\ used' = used \cup {[code |-> code, until |-> now + ConsumeTTL]}
  <2>1. faults' = faults
    BY <1>6 DEF RedisAnswers
  <2>2. accepted[code] <= faults
    <3>1. ~Kept(code) /\ ~Outlived(code)
      BY <1>1, <1>2, <1>6 DEF Fresh, Kept, Outlived
    <3> QED
      BY <1>1, <1>3, <3>1 DEF CodeInv
  <2>3. \A k \in Code : accepted'[k] = IF k = code THEN accepted[k] + 1 ELSE accepted[k]
    BY <1>6 DEF Accept, StoreTypes
  <2>4. Kept(code)'
    <3>1. now + ConsumeTTL > code[2] + Skew
      BY <1>1, <1>2
    <3> DEFINE e == [code |-> code, until |-> now + ConsumeTTL]
    <3>2. e \in used' /\ e.code = code /\ e.until > code[2] + Skew
      BY <1>6, <3>1
    <3> HIDE DEF e
    <3> QED
      BY <3>2 DEF Kept
  <2>5. \A k \in Code : accepted'[k] <= 1 + faults'
    BY <1>1, <1>3, <2>1, <2>2, <2>3 DEF CodeInv
  <2>6. \A k \in Code : accepted'[k] > faults' => Kept(k)' \/ Outlived(k)'
    BY <1>1, <1>3, <1>4, <1>5, <2>1, <2>3, <2>4 DEF CodeInv
  <2> QED
    BY <2>5, <2>6 DEF CodeInv
<1>7. CASE RedisFails /\ Accept(c, code, next) /\ UNCHANGED used
  <2>1. faults' = faults + 1
    BY <1>7 DEF RedisFails
  <2>2. \A k \in Code : accepted'[k] = IF k = code THEN accepted[k] + 1 ELSE accepted[k]
    BY <1>7 DEF Accept, StoreTypes
  <2>3. \A k \in Code : accepted'[k] <= 1 + faults'
    BY <1>1, <1>3, <2>1, <2>2 DEF CodeInv
  <2>4. \A k \in Code : accepted'[k] > faults' => Kept(k)' \/ Outlived(k)'
    BY <1>1, <1>3, <1>4, <1>5, <2>1, <2>2 DEF CodeInv
  <2> QED
    BY <2>3, <2>4 DEF CodeInv
<1>8. CASE RedisAnswers /\ UNCHANGED <<used, accepted>>
  <2>1. faults' \in 0 .. MaxFaults /\ faults' >= faults
    BY <1>8, CallsKeep DEF StoreTypes
  <2> QED
    BY <1>8, <2>1, QuietCodes
<1> QED
  BY <1>6, <1>7, <1>8 DEF Consume

LEMMA BurnCodes ==
    ASSUME CodeInv, StoreTypes, NEW c \in Client, Burn(c)
    PROVE  CodeInv'
<1>1. UNCHANGED <<sets, used, accepted, now, faults>>
  BY DEF Burn
<1>2. \A k \in Code : Kept(k)' = Kept(k) /\ Outlived(k)' = Outlived(k)
  BY <1>1 DEF Kept, Outlived
<1>3. /\ \A k \in RecoveryCode : spent'[k] <= 1 /\ (k[1] > sets' => spent'[k] = 0)
      /\ \A k \in recovery' : spent'[k] = 0 /\ k[1] = sets'
  <2>1. CASE recovery' \in {recovery, recovery \ {req[c].code}} /\ UNCHANGED spent
    BY <1>1, <2>1 DEF CodeInv
  <2>2. CASE /\ Unused(req[c].code) /\ recovery' = recovery \ {req[c].code}
             /\ spent' = [spent EXCEPT ![req[c].code] = @ + 1]
    <3> DEFINE b == req[c].code
    <3>1. b \in RecoveryCode /\ spent[b] = 0 /\ b[1] = sets
      BY <2>2 DEF Unused, CodeInv, StoreTypes
    <3>2. \A k \in RecoveryCode : spent'[k] = IF k = b THEN 1 ELSE spent[k]
      BY <2>2, <3>1 DEF StoreTypes
    <3>3. \A k \in recovery' : k \in RecoveryCode /\ k # b /\ k \in recovery
      BY <2>2 DEF StoreTypes
    <3> QED
      BY <1>1, <3>1, <3>2, <3>3, LoginAssumption DEF CodeInv, StoreTypes
  <2> QED
    BY <2>1, <2>2 DEF Burn
<1> QED
  BY <1>1, <1>2, <1>3 DEF CodeInv

(* New sets of recovery codes, and the end of a set.                        *)
LEMMA SetCodes ==
    ASSUME CodeInv, StoreTypes,
           ResetByAdmin \/ \E c \in Client : Enroll(c) \/ Enable(c) \/ Disable(c)
    PROVE  CodeInv'
<1>1. UNCHANGED <<used, accepted, spent, now, faults>>
  BY DEF ResetByAdmin, Enroll, Enable, Disable, history
<1>2. \A k \in Code : Kept(k)' = Kept(k) /\ Outlived(k)' = Outlived(k)
  BY <1>1 DEF Kept, Outlived
<1>3. \/ recovery' \subseteq recovery /\ sets' = sets
      \/ recovery' = Issued(sets + 1) /\ sets' = sets + 1
  BY DEF ResetByAdmin, Enroll, Enable, Disable, Cleared
<1>4. sets \in Nat /\ \A k \in RecoveryCode : k[1] \in Nat
  BY LoginAssumption DEF StoreTypes, RecoveryCode
<1>5. recovery' \subseteq RecoveryCode
  BY WriteTypes DEF StoreTypes
<1>6. /\ \A k \in RecoveryCode : spent'[k] <= 1 /\ (k[1] > sets' => spent'[k] = 0)
      /\ \A k \in recovery' : spent'[k] = 0 /\ k[1] = sets'
  <2>1. CASE recovery' \subseteq recovery /\ sets' = sets
    BY <1>1, <2>1 DEF CodeInv
  <2>2. CASE recovery' = Issued(sets + 1) /\ sets' = sets + 1
    <3>1. \A k \in recovery' : k[1] = sets + 1 /\ k \in RecoveryCode
      BY <1>5, <2>2 DEF Issued
    <3> QED
      BY <1>1, <1>4, <2>2, <3>1 DEF CodeInv
  <2> QED
    BY <1>3, <2>1, <2>2
<1> QED
  BY <1>1, <1>2, <1>6 DEF CodeInv

(* A remembered code is forgotten when its time has passed.                 *)
LEMMA TickCodes ==
    ASSUME CodeInv, StoreTypes, Tick
    PROVE  CodeInv'
<1>1. UNCHANGED <<recovery, sets, accepted, spent, faults>> /\ now' = now + 1
         /\ now \in Nat
  BY LoginAssumption DEF Tick, factor, history, StoreTypes
<1>2. ASSUME NEW k \in Code, Kept(k) \/ Outlived(k)
      PROVE  Kept(k)' \/ Outlived(k)'
  <2>1. k[2] + Skew \in Int
    BY CodeNumbers, LoginAssumption
  <2>2. CASE Outlived(k)
    BY <1>1, <2>1, <2>2 DEF Outlived
  <2>3. CASE Kept(k)
    <3>1. PICK e \in used : e.code = k /\ e.until > k[2] + Skew
      BY <2>3 DEF Kept
    <3>2. e.until \in Int
      BY LoginAssumption DEF StoreTypes, Remembered
    <3>3. CASE e.until > now'
      BY <3>1, <3>3 DEF Tick, Kept
    <3>4. CASE ~(e.until > now')
      BY <1>1, <2>1, <3>1, <3>2, <3>4 DEF Outlived
    <3> QED
      BY <3>3, <3>4
  <2> QED
    BY <1>2, <2>2, <2>3
<1> QED
  BY <1>1, <1>2 DEF CodeInv

----------------------------------------------------------------------------
(* The limiter: failures that were counted, failures that a handler still   *)
(* has to record, and lost calls make up for the passwords that were tried. *)

In(places) == {x \in Client : req[x].pc \in places}
Pw == Cardinality(In({"password"}))
Aim == Cardinality(In({"checkLock", "password"}))
Rec == Cardinality(In({"record"}))
Lock == Cardinality(In({"lock"}))
Act == Cardinality(In(Places \ {"idle", "lock"}))
Try == Cardinality(In(Places \ {"idle", "record", "lock"}))
Everyone == Cardinality(Client)

(* Tries since a counter was cleared, the count n below its limit or        *)
(* nothing known of it; p requests are past its check, r and l still owe    *)
(* the limiter a write, f writes are lost.                                  *)
IpBudget(t, n, p, r, f) ==
    /\ t \in Nat /\ n \in Nat
    /\ t <= n + r + f
    /\ t + p <= IpLimit + Everyone - 1 + f

AcctBudget(t, n, k, p, r, l, f) ==
    /\ t \in Nat /\ n \in Nat
    /\ ~k => t <= n + r + l + f /\ t <= AcctLimit - 1 + r + l + f
    /\ t + p <= AcctLimit + Everyone - 1 + f

(* A count n and its tries t are paid for by requests.                      *)
Paid(n, t, a, y, q) == n + a <= q /\ t + y <= q

BudgetInv ==
    /\ IpBudget(ipTries, ipCount, Aim, Rec, faults)
    /\ AcctBudget(acctTries, acctCount, locked, Pw, Rec, Lock, faults)
    /\ Paid(ipCount, ipTries, Act, Try, requests)
    /\ Paid(acctCount, acctTries, Act, Try, requests)

(* Client c goes from one place to another, or nobody moves.                *)
Moves(c, from, to) ==
    /\ req[c].pc = from /\ req'[c].pc = to
    /\ \A x \in Client : x # c => req'[x].pc = req[x].pc

One(b) == IF b THEN 1 ELSE 0

LEMMA CountIn ==
    ASSUME NEW places
    PROVE  IsFiniteSet(In(places)) /\ Cardinality(In(places)) \in Nat
<1>1. In(places) \in SUBSET Client
  BY DEF In
<1>2. IsFiniteSet(In(places))
  BY <1>1, FS_Subset, LoginAssumption
<1> QED
  BY <1>2, FS_CardinalityType

LEMMA CountMove ==
    ASSUME NEW c \in Client, NEW from, NEW to, Moves(c, from, to), NEW places
    PROVE  /\ Cardinality(In(places)) \in Nat
           /\ Cardinality(In(places)') =
                 Cardinality(In(places)) - One(from \in places) + One(to \in places)
<1>1. IsFiniteSet(In(places)) /\ Cardinality(In(places)) \in Nat
  BY CountIn
<1>2. c \in In(places) <=> from \in places
  BY DEF In, Moves
<1>3. CASE to \in places
  <2>1. In(places)' = In(places) \cup {c}
    BY <1>3 DEF In, Moves
  <2>2. Cardinality(In(places)') = IF from \in places THEN Cardinality(In(places))
                                   ELSE Cardinality(In(places)) + 1
    BY <1>1, <1>2, <2>1, FS_AddElement
  <2> QED
    BY <1>1, <1>3, <2>2 DEF One
<1>4. CASE to \notin places
  <2>1. In(places)' = In(places) \ {c}
    BY <1>4 DEF In, Moves
  <2>2. Cardinality(In(places)') = IF from \in places THEN Cardinality(In(places)) - 1
                                   ELSE Cardinality(In(places))
    BY <1>1, <1>2, <2>1, FS_RemoveElement
  <2> QED
    BY <1>1, <1>4, <2>2 DEF One
<1> QED
  BY <1>3, <1>4

(* A client is in one place at a time.                                      *)
CountsOK ==
    /\ Pw \in Nat /\ Aim \in Nat /\ Rec \in Nat /\ Lock \in Nat /\ Act \in Nat /\ Try \in Nat
    /\ Everyone \in Nat /\ Pw + Rec + Lock <= Everyone /\ Aim + Rec + Lock <= Everyone

LEMMA CountApart ==
    ASSUME NEW places, "record" \notin places, "lock" \notin places
    PROVE  /\ Cardinality(In(places)) \in Nat /\ Rec \in Nat /\ Lock \in Nat
           /\ Cardinality(In(places)) + Rec + Lock <= Everyone
<1>1. /\ IsFiniteSet(In(places)) /\ IsFiniteSet(In({"record"}))
      /\ IsFiniteSet(In({"lock"}))
      /\ Cardinality(In(places)) \in Nat /\ Rec \in Nat /\ Lock \in Nat
  BY CountIn DEF Rec, Lock
<1>2. In(places) \cap In({"record"}) = {}
      /\ (In(places) \cup In({"record"})) \cap In({"lock"}) = {}
  BY DEF In
<1>3. PICK A, B, C : A = In(places) /\ B = In({"record"}) /\ C = In({"lock"})
  OBVIOUS
<1>4. /\ IsFiniteSet(A \cup B)
      /\ Cardinality(A \cup B) = Cardinality(A) + Cardinality(B)
  <2>1. Cardinality(A \cap B) = 0
    BY <1>2, <1>3, FS_EmptySet
  <2>2. Cardinality(A) \in Nat /\ Cardinality(B) \in Nat
    BY <1>1, <1>3 DEF Rec
  <2>3. IsFiniteSet(A) /\ IsFiniteSet(B)
    BY <1>1, <1>3
  <2>4. /\ IsFiniteSet(A \cup B)
        /\ Cardinality(A \cup B) = Cardinality(A) + Cardinality(B) - Cardinality(A \cap B)
    BY <2>3, FS_Union
  <2>. QED  BY <2>1, <2>2, <2>4
<1>5. Cardinality((A \cup B) \cup C) = Cardinality(A) + Cardinality(B) + Cardinality(C)
  <2>1. Cardinality((A \cup B) \cap C) = 0
    BY <1>2, <1>3, FS_EmptySet
  <2>2. Cardinality(A) \in Nat /\ Cardinality(B) \in Nat /\ Cardinality(C) \in Nat
    BY <1>1, <1>3 DEF Rec, Lock
  <2>3. IsFiniteSet(A \cup B) /\ IsFiniteSet(C)
    BY <1>1, <1>3, <1>4
  <2>4. Cardinality((A \cup B) \cup C)
           = Cardinality(A \cup B) + Cardinality(C) - Cardinality((A \cup B) \cap C)
    BY <2>3, FS_Union
  <2>. QED  BY <1>4, <2>1, <2>2, <2>4
<1>6. Cardinality((A \cup B) \cup C) <= Everyone
  <2>1. (A \cup B) \cup C \in SUBSET Client
    BY <1>3 DEF In
  <2>. QED  BY <2>1, FS_Subset, LoginAssumption DEF Everyone
<1> QED
  BY <1>1, <1>3, <1>5, <1>6 DEF Rec, Lock

LEMMA CountAll == CountsOK
<1>1. Act \in Nat /\ Try \in Nat
  BY CountIn DEF Act, Try
<1>2. Pw \in Nat /\ Rec \in Nat /\ Lock \in Nat /\ Pw + Rec + Lock <= Everyone
  BY CountApart DEF Pw
<1>3. Aim \in Nat /\ Aim + Rec + Lock <= Everyone
  BY CountApart DEF Aim
<1>4. Everyone \in Nat
  BY FS_CardinalityType, LoginAssumption DEF Everyone
<1> QED
  BY <1>1, <1>2, <1>3, <1>4 DEF CountsOK

(* What a move does to each count.                                          *)
LEMMA Counts ==
    ASSUME NEW c \in Client, NEW from, NEW to \in Places, Moves(c, from, to)
    PROVE  /\ Pw \in Nat /\ Aim \in Nat /\ Rec \in Nat /\ Lock \in Nat /\ Act \in Nat /\ Try \in Nat
           /\ Pw' \in Nat /\ Aim' \in Nat /\ Rec' \in Nat /\ Lock' \in Nat /\ Act' \in Nat
                 /\ Try' \in Nat
           /\ Everyone \in Nat /\ Pw + Rec + Lock <= Everyone /\ Aim + Rec + Lock <= Everyone
           /\ Pw' + Rec' + Lock' <= Everyone /\ Aim' + Rec' + Lock' <= Everyone
           /\ Pw' = Pw - One(from = "password") + One(to = "password")
           /\ Aim' = Aim - One(from \in {"checkLock", "password"})
                         + One(to \in {"checkLock", "password"})
           /\ Rec' = Rec - One(from = "record") + One(to = "record")
           /\ Lock' = Lock - One(from = "lock") + One(to = "lock")
           /\ from \in Places =>
                 /\ Act' = Act - One(from \notin {"idle", "lock"}) + One(to \notin {"idle", "lock"})
                 /\ Try' = Try - One(from \notin {"idle", "record", "lock"})
                               + One(to \notin {"idle", "record", "lock"})
<1>1. CountsOK /\ CountsOK'
  BY CountAll, PTL
<1>2. /\ Pw' \in Nat /\ Aim' \in Nat /\ Rec' \in Nat /\ Lock' \in Nat
      /\ Act' \in Nat /\ Try' \in Nat
      /\ Pw' + Rec' + Lock' <= Everyone /\ Aim' + Rec' + Lock' <= Everyone
  BY <1>1 DEF CountsOK, Everyone
<1>3. Pw' = Pw - One(from = "password") + One(to = "password")
  <2>1. Pw' = Pw - One(from \in {"password"}) + One(to \in {"password"})
    BY CountMove DEF Pw
  <2> QED
    BY <2>1 DEF One
<1>4. Rec' = Rec - One(from = "record") + One(to = "record")
  <2>1. Rec' = Rec - One(from \in {"record"}) + One(to \in {"record"})
    BY CountMove DEF Rec
  <2> QED
    BY <2>1 DEF One
<1>5. Lock' = Lock - One(from = "lock") + One(to = "lock")
  <2>1. Lock' = Lock - One(from \in {"lock"}) + One(to \in {"lock"})
    BY CountMove DEF Lock
  <2> QED
    BY <2>1 DEF One
<1>6. ASSUME from \in Places
      PROVE  Act' = Act - One(from \notin {"idle", "lock"}) + One(to \notin {"idle",
                "lock"})
  <2>1. Act' = Act - One(from \in Places \ {"idle", "lock"})
                   + One(to \in Places \ {"idle", "lock"})
    BY CountMove DEF Act
  <2> QED
    BY <1>6, <2>1 DEF One
<1>7. ASSUME from \in Places
      PROVE  Try' = Try - One(from \notin {"idle", "record", "lock"})
                        + One(to \notin {"idle", "record", "lock"})
  <2>1. Try' = Try - One(from \in Places \ {"idle", "record", "lock"})
                   + One(to \in Places \ {"idle", "record", "lock"})
    BY CountMove DEF Try
  <2> QED
    BY <1>7, <2>1 DEF One
<1>8. Aim' = Aim - One(from \in {"checkLock", "password"})
                 + One(to \in {"checkLock", "password"})
  BY CountMove DEF Aim
<1> QED
  BY <1>1, <1>2, <1>3, <1>4, <1>5, <1>6, <1>7, <1>8 DEF CountsOK

LEMMA MoveOn ==
    ASSUME FactorInv, NEW c \in Client, NEW q, GoOn(c, q)
    PROVE  Moves(c, req[c].pc, q.pc)
  BY DEF FactorInv, GoOn, Moves

LEMMA MoveTo ==
    ASSUME FactorInv, NEW c \in Client, NEW place, GoTo(c, place)
    PROVE  Moves(c, req[c].pc, place)
<1>1. [req[c] EXCEPT !.pc = place].pc = place
  BY DEF FactorInv, Handler
<1> QED
  BY <1>1, MoveOn DEF GoTo

LEMMA MoveEnd ==
    ASSUME FactorInv, NEW c \in Client, End(c)
    PROVE  Moves(c, req[c].pc, "idle")
  BY MoveOn DEF End, Idle

LEMMA MoveWrite ==
    ASSUME FactorInv, NEW c \in Client, Write({c})
    PROVE  Moves(c, req[c].pc, "idle")
  BY DEF FactorInv, Write, Moves, Handler, Idle

(* What happens to the numbers.                                             *)
LEMMA IpQuiet ==
    ASSUME NEW t, NEW n, NEW p \in Nat, NEW p2 \in Nat, NEW r \in Nat, NEW r2 \in Nat,
           NEW f \in Nat, NEW f2 \in Nat, IpBudget(t, n, p, r, f),
           p2 <= p, r2 >= r, f2 >= f
    PROVE  IpBudget(t, n, p2, r2, f2)
  BY CountAll, LoginAssumption DEF CountsOK, IpBudget

LEMMA IpLost ==
    ASSUME NEW t, NEW n, NEW p \in Nat, NEW r \in Nat, NEW r2 \in Nat, NEW f \in Nat,
           IpBudget(t, n, p, r, f), r2 = r - 1 \/ r2 = r
    PROVE  IpBudget(t, n, p, r2, f + 1)
  BY CountAll, LoginAssumption DEF CountsOK, IpBudget

LEMMA IpPasses ==
    ASSUME NEW t, NEW n, NEW p \in Nat, NEW r \in Nat, NEW f \in Nat, NEW l \in Nat,
           IpBudget(t, n, p, r, f), n < IpLimit, (p + 1) + r + l <= Everyone
    PROVE  IpBudget(t, n, p + 1, r, f)
  BY CountAll, LoginAssumption DEF CountsOK, IpBudget

LEMMA IpUnchecked ==
    ASSUME NEW t, NEW n, NEW p \in Nat, NEW r \in Nat, NEW f \in Nat,
           IpBudget(t, n, p, r, f)
    PROVE  IpBudget(t, n, p + 1, r, f + 1)
  BY CountAll, LoginAssumption DEF CountsOK, IpBudget

LEMMA IpWrong ==
    ASSUME NEW t, NEW n, NEW p \in Nat, NEW r \in Nat, NEW f \in Nat,
           IpBudget(t, n, p, r, f)
    PROVE  IpBudget(t + 1, n, p - 1, r + 1, f)
  BY CountAll, LoginAssumption DEF CountsOK, IpBudget

LEMMA IpRecords ==
    ASSUME NEW t, NEW n, NEW p \in Nat, NEW r \in Nat, NEW f \in Nat,
           IpBudget(t, n, p, r, f)
    PROVE  IpBudget(t, n + 1, p, r - 1, f)
  BY CountAll, LoginAssumption DEF CountsOK, IpBudget

LEMMA IpClears ==
    ASSUME NEW p \in Nat, NEW r \in Nat, NEW l \in Nat, NEW f \in Nat,
           p + r + l <= Everyone
    PROVE  IpBudget(0, 0, p, r, f)
  BY CountAll, LoginAssumption DEF CountsOK, IpBudget

LEMMA AcctQuiet ==
    ASSUME NEW t, NEW n, NEW k, NEW p \in Nat, NEW p2 \in Nat, NEW r \in Nat,
           NEW r2 \in Nat, NEW l \in Nat, NEW l2 \in Nat, NEW f \in Nat, NEW f2 \in Nat,
           AcctBudget(t, n, k, p, r, l, f), p2 <= p, r2 >= r, l2 >= l, f2 >= f
    PROVE  AcctBudget(t, n, k, p2, r2, l2, f2)
  BY CountAll, LoginAssumption DEF CountsOK, AcctBudget

LEMMA AcctLost ==
    ASSUME NEW t, NEW n, NEW k, NEW p \in Nat, NEW r \in Nat, NEW r2 \in Nat,
           NEW l \in Nat, NEW l2 \in Nat, NEW f \in Nat,
              AcctBudget(t, n, k, p, r, l, f),
           (r2 = r - 1 /\ l2 = l) \/ (r2 = r /\ l2 = l - 1)
    PROVE  AcctBudget(t, n, k, p, r2, l2, f + 1)
  BY CountAll, LoginAssumption DEF CountsOK, AcctBudget

LEMMA AcctPasses ==
    ASSUME NEW t, NEW n, NEW k, NEW p \in Nat, NEW r \in Nat, NEW l \in Nat,
              NEW f \in Nat,
           AcctBudget(t, n, k, p, r, l, f), ~k, (p + 1) + r + l <= Everyone
    PROVE  AcctBudget(t, n, k, p + 1, r, l, f)
  BY CountAll, LoginAssumption DEF CountsOK, AcctBudget

LEMMA AcctUnchecked ==
    ASSUME NEW t, NEW n, NEW k, NEW p \in Nat, NEW r \in Nat, NEW l \in Nat,
              NEW f \in Nat,
           AcctBudget(t, n, k, p, r, l, f)
    PROVE  AcctBudget(t, n, k, p + 1, r, l, f + 1)
  BY CountAll, LoginAssumption DEF CountsOK, AcctBudget

LEMMA AcctWrong ==
    ASSUME NEW t, NEW n, NEW k, NEW p \in Nat, NEW r \in Nat, NEW l \in Nat,
              NEW f \in Nat,
           AcctBudget(t, n, k, p, r, l, f)
    PROVE  AcctBudget(t + 1, n, k, p - 1, r + 1, l, f)
  BY CountAll, LoginAssumption DEF CountsOK, AcctBudget

LEMMA AcctRecords ==
    ASSUME NEW t, NEW n, NEW k, NEW p \in Nat, NEW r \in Nat, NEW l \in Nat,
              NEW f \in Nat,
           AcctBudget(t, n, k, p, r, l, f)
    PROVE  /\ AcctBudget(t, n + 1, k, p, r - 1, l + 1, f)
           /\ n + 1 < AcctLimit => AcctBudget(t, n + 1, k, p, r - 1, l, f)
  BY CountAll, LoginAssumption DEF CountsOK, AcctBudget

LEMMA AcctLocks ==
    ASSUME NEW t, NEW n, NEW k, NEW p \in Nat, NEW r \in Nat, NEW l \in Nat,
              NEW l2 \in Nat,
           NEW f \in Nat, AcctBudget(t, n, k, p, r, l, f)
    PROVE  AcctBudget(t, n, TRUE, p, r, l2, f)
  BY CountAll, LoginAssumption DEF CountsOK, AcctBudget

LEMMA AcctClears ==
    ASSUME NEW n \in Nat, NEW k, NEW p \in Nat, NEW r \in Nat, NEW l \in Nat,
              NEW f \in Nat,
           p + r + l <= Everyone
    PROVE  AcctBudget(0, n, k, p, r, l, f)
  BY CountAll, LoginAssumption DEF CountsOK, AcctBudget

LEMMA PaidQuiet ==
    ASSUME NEW n \in Nat, NEW t \in Nat, NEW a \in Nat, NEW a2 \in Nat, NEW y \in Nat,
           NEW y2 \in Nat, NEW q \in Nat, NEW q2 \in Nat,
           Paid(n, t, a, y, q), a2 <= a, y2 <= y, q2 >= q
    PROVE  Paid(n, t, a2, y2, q2)
  BY DEF Paid

LEMMA PaidActs ==
    ASSUME NEW n \in Nat, NEW t \in Nat, NEW a \in Nat, NEW y \in Nat, NEW q \in Nat,
           Paid(n, t, a, y, q)
    PROVE  /\ Paid(n, t, a + 1, y + 1, q + 1)
           /\ Paid(n, t + 1, a, y - 1, q)
           /\ Paid(n + 1, t, a - 1, y, q)
  BY DEF Paid

LEMMA PaidClears ==
    ASSUME NEW n \in Nat, NEW t \in Nat, NEW a \in Nat, NEW y \in Nat, NEW q \in Nat,
           Paid(n, t, a, y, q)
    PROVE  Paid(n, 0, a, y, q) /\ Paid(0, 0, a, y, q)
  BY DEF Paid

LEMMA BudgetTypes ==
    ASSUME BudgetInv, StoreTypes
    PROVE  /\ ipCount \in Nat /\ acctCount \in Nat /\ ipTries \in Nat
                 /\ acctTries \in Nat
           /\ faults \in Nat /\ requests \in Nat
  BY LoginAssumption DEF BudgetInv, IpBudget, AcctBudget, StoreTypes

(* The counters stay as they are, and no failure is dropped.                *)
LEMMA QuietBudget ==
    ASSUME BudgetInv, StoreTypes, NEW c \in Client,
           NEW from \in Places \ {"idle", "record", "lock"},
           NEW to \in Places \ {"checkLock", "password", "lock"}, Moves(c, from, to),
           UNCHANGED limiter, faults' \in Nat, faults' >= faults, UNCHANGED requests
    PROVE  BudgetInv'
<1>1. /\ ipCount' = ipCount /\ acctCount' = acctCount /\ locked' = locked
      /\ ipTries' = ipTries /\ acctTries' = acctTries /\ requests' = requests
  BY DEF limiter
<1>2. /\ ipCount \in Nat /\ acctCount \in Nat /\ ipTries \in Nat /\ acctTries \in Nat
      /\ faults \in Nat /\ requests \in Nat
  BY BudgetTypes
<1>3. Pw' <= Pw /\ Aim' <= Aim /\ Rec' >= Rec /\ Lock' >= Lock /\ Act' <= Act /\ Try' <= Try
  BY Counts DEF One
<1>4. /\ Pw \in Nat /\ Aim \in Nat /\ Rec \in Nat /\ Lock \in Nat /\ Act \in Nat /\ Try \in Nat
      /\ Pw' \in Nat /\ Aim' \in Nat /\ Rec' \in Nat /\ Lock' \in Nat
      /\ Act' \in Nat /\ Try' \in Nat
  BY Counts
<1>5. IpBudget(ipTries, ipCount, Aim', Rec', faults')
  BY <1>2, <1>3, <1>4, IpQuiet DEF BudgetInv
<1>6. AcctBudget(acctTries, acctCount, locked, Pw', Rec', Lock', faults')
  BY <1>2, <1>3, <1>4, AcctQuiet DEF BudgetInv
<1>7. requests >= requests
  BY <1>2
<1>8. Paid(ipCount, ipTries, Act', Try', requests)
  BY <1>2, <1>3, <1>4, <1>7, PaidQuiet DEF BudgetInv
<1>9. Paid(acctCount, acctTries, Act', Try', requests)
  BY <1>2, <1>3, <1>4, <1>7, PaidQuiet DEF BudgetInv
<1> QED
  BY <1>1, <1>5, <1>6, <1>8, <1>9 DEF BudgetInv

(* Nobody moves.                                                            *)
LEMMA SameCounts ==
    ASSUME \A x \in Client : req'[x].pc = req[x].pc
    PROVE  Pw' = Pw /\ Aim' = Aim /\ Rec' = Rec /\ Lock' = Lock /\ Act' = Act /\ Try' = Try
<1>1. \A places : In(places)' = In(places)
  BY DEF In
<1> QED
  BY <1>1 DEF Pw, Aim, Rec, Lock, Act, Try

LEMMA StillBudget ==
    ASSUME BudgetInv, StoreTypes, \A x \in Client : req'[x].pc = req[x].pc,
           UNCHANGED limiter, UNCHANGED faults, requests' \in Nat, requests' >= requests
    PROVE  BudgetInv'
<1>1. /\ ipCount' = ipCount /\ acctCount' = acctCount /\ locked' = locked
      /\ ipTries' = ipTries /\ acctTries' = acctTries /\ faults' = faults
  BY DEF limiter
<1>2. /\ ipCount \in Nat /\ acctCount \in Nat /\ ipTries \in Nat /\ acctTries \in Nat
      /\ faults \in Nat /\ requests \in Nat
  BY BudgetTypes
<1>3. Pw' = Pw /\ Aim' = Aim /\ Rec' = Rec /\ Lock' = Lock /\ Act' = Act /\ Try' = Try
  BY SameCounts
<1>4. Act \in Nat /\ Try \in Nat /\ Act <= Act /\ Try <= Try
  BY CountAll DEF CountsOK
<1>5. Paid(ipCount, ipTries, Act, Try, requests')
  BY <1>2, <1>4, PaidQuiet DEF BudgetInv
<1>6. Paid(acctCount, acctTries, Act, Try, requests')
  BY <1>2, <1>4, PaidQuiet DEF BudgetInv
<1> QED
  BY <1>1, <1>3, <1>5, <1>6 DEF BudgetInv

(* A counter is cleared, and with it the tries that count towards it.       *)
LEMMA ClearedBudget ==
    ASSUME BudgetInv, StoreTypes, IpWindowEnds \/ AcctWindowEnds \/ LockEnds
    PROVE  BudgetInv'
<1>1. req' = req /\ faults' = faults /\ requests' = requests
  BY DEF IpWindowEnds, AcctWindowEnds, LockEnds
<1>2. Pw' = Pw /\ Aim' = Aim /\ Rec' = Rec /\ Lock' = Lock /\ Act' = Act /\ Try' = Try
  BY <1>1, SameCounts
<1>3. /\ Pw \in Nat /\ Aim \in Nat /\ Rec \in Nat /\ Lock \in Nat /\ Act \in Nat /\ Try \in Nat
      /\ Pw + Rec + Lock <= Everyone /\ Aim + Rec + Lock <= Everyone
  BY CountAll DEF CountsOK
<1>4. /\ ipCount \in Nat /\ acctCount \in Nat /\ ipTries \in Nat /\ acctTries \in Nat
      /\ faults \in Nat /\ requests \in Nat
  BY BudgetTypes
<1>5. /\ Paid(0, 0, Act, Try, requests)
      /\ Paid(acctCount, 0, Act, Try, requests)
  BY <1>3, <1>4, PaidClears DEF BudgetInv
<1>6. CASE IpWindowEnds
  <2>1. IpBudget(0, 0, Aim, Rec, faults)
    BY <1>3, <1>4, IpClears
  <2> QED
    BY <1>1, <1>2, <1>5, <1>6, <2>1 DEF BudgetInv, IpWindowEnds
<1>7. CASE AcctWindowEnds
  <2>1. AcctBudget(0, 0, locked, Pw, Rec, Lock, faults)
    BY <1>3, <1>4, AcctClears
  <2> QED
    BY <1>1, <1>2, <1>5, <1>7, <2>1 DEF BudgetInv, AcctWindowEnds
<1>8. CASE LockEnds
  <2>1. AcctBudget(0, acctCount, FALSE, Pw, Rec, Lock, faults)
    BY <1>3, <1>4, AcctClears
  <2> QED
    BY <1>1, <1>2, <1>5, <1>8, <2>1 DEF BudgetInv, LockEnds
<1> QED
  BY <1>6, <1>7, <1>8

LEMMA ArriveBudget ==
    ASSUME FactorInv, StoreTypes, BudgetInv, NEW c \in Client, Arrive(c)
    PROVE  BudgetInv'
<1>1. /\ ipCount' = ipCount /\ acctCount' = acctCount /\ locked' = locked
      /\ ipTries' = ipTries /\ acctTries' = acctTries /\ requests' = requests + 1
      /\ faults' = faults /\ req[c].pc = "idle"
  BY DEF Arrive, limiter, At
<1>2. PICK place \in {"check", "verify", "stage", "activate", "disable"} :
         GoOn(c, [req[c] EXCEPT !.pc = place, !.seen = {mfa}])
  BY DEF Arrive
<1>3. [req[c] EXCEPT !.pc = place, !.seen = {mfa}].pc = place
  BY DEF FactorInv, Handler
<1>4. Moves(c, "idle", place)
  BY <1>1, <1>2, <1>3, MoveOn
<1>5. place \in Places /\ "idle" \in Places
  BY DEF Places
<1>6. Pw' = Pw /\ Aim' = Aim /\ Rec' = Rec /\ Lock' = Lock /\ Act' = Act + 1 /\ Try' = Try + 1
  BY <1>4, <1>5, Counts DEF One
<1>7. Act \in Nat /\ Try \in Nat
  BY CountAll DEF CountsOK
<1>8. /\ Paid(ipCount, ipTries, Act + 1, Try + 1, requests + 1)
      /\ Paid(acctCount, acctTries, Act + 1, Try + 1, requests + 1)
  BY <1>7, BudgetTypes, PaidActs DEF BudgetInv
<1> QED
  BY <1>1, <1>6, <1>8 DEF BudgetInv

LEMMA GiveUpBudget ==
    ASSUME FactorInv, StoreTypes, BudgetInv, NEW c \in Client, GiveUp(c)
    PROVE  BudgetInv'
<1>1. UNCHANGED limiter /\ UNCHANGED requests /\ Moves(c, req[c].pc, "idle")
  BY MoveEnd DEF GiveUp
<1>2. req[c].pc \in Places \ {"idle"} /\ "idle" \in Places
  BY DEF FactorInv, Handler, GiveUp, At, Places
<1>3. faults \in Nat /\ requests \in Nat /\ ipCount \in Nat /\ acctCount \in Nat
      /\ ipTries \in Nat /\ acctTries \in Nat
  BY BudgetTypes
<1>4. CASE req[c].pc \notin {"record", "lock"}
  <2>1. faults' = faults /\ faults' \in Nat /\ faults' >= faults
    BY <1>3, <1>4 DEF GiveUp
  <2>2. req[c].pc \in Places \ {"idle", "record", "lock"}
        /\ "idle" \in Places \ {"checkLock", "password", "lock"}
    BY <1>2, <1>4
  <2> QED
    BY <1>1, <2>1, <2>2, QuietBudget
<1>5. CASE req[c].pc \in {"record", "lock"}
  <2>1. faults' = faults + 1
    BY <1>5 DEF GiveUp, RedisFails
  <2>2. /\ ipCount' = ipCount /\ acctCount' = acctCount /\ locked' = locked
        /\ ipTries' = ipTries /\ acctTries' = acctTries /\ requests' = requests
    BY <1>1 DEF limiter
  <2>3. /\ Pw' = Pw /\ Aim' = Aim /\ (Rec' = Rec - 1 \/ Rec' = Rec)
        /\ ((Rec' = Rec - 1 /\ Lock' = Lock) \/ (Rec' = Rec /\ Lock' = Lock - 1))
        /\ Act' <= Act /\ Try' <= Try
    BY <1>1, <1>2, <1>5, Counts DEF One
  <2>4. /\ Pw \in Nat /\ Aim \in Nat /\ Rec \in Nat /\ Lock \in Nat /\ Act \in Nat /\ Try \in Nat
        /\ Pw' \in Nat /\ Aim' \in Nat /\ Rec' \in Nat /\ Lock' \in Nat
        /\ Act' \in Nat /\ Try' \in Nat
    BY <1>1, <1>2, Counts
  <2>5. IpBudget(ipTries, ipCount, Aim, Rec', faults + 1)
    BY <1>3, <2>3, <2>4, IpLost DEF BudgetInv
  <2>6. AcctBudget(acctTries, acctCount, locked, Pw, Rec', Lock', faults + 1)
    BY <1>3, <2>3, <2>4, AcctLost DEF BudgetInv
  <2>7. requests >= requests
    BY <1>3
  <2>8. Paid(ipCount, ipTries, Act', Try', requests)
    BY <1>3, <2>3, <2>4, <2>7, PaidQuiet DEF BudgetInv
  <2>9. Paid(acctCount, acctTries, Act', Try', requests)
    BY <1>3, <2>3, <2>4, <2>7, PaidQuiet DEF BudgetInv
  <2> QED
    BY <2>1, <2>2, <2>3, <2>5, <2>6, <2>8, <2>9 DEF BudgetInv
<1> QED
  BY <1>4, <1>5

(* The attempts that have passed a check are of different clients.          *)
LEMMA CheckBudget ==
    ASSUME FactorInv, StoreTypes, BudgetInv, NEW c \in Client, Check(c)
    PROVE  BudgetInv'
<1>1. UNCHANGED limiter /\ UNCHANGED requests /\ req[c].pc = "check"
  BY DEF Check, At
<1>2. /\ ipCount' = ipCount /\ acctCount' = acctCount /\ locked' = locked
      /\ ipTries' = ipTries /\ acctTries' = acctTries /\ requests' = requests
  BY <1>1 DEF limiter
<1>3. faults \in Nat /\ requests \in Nat /\ ipCount \in Nat /\ acctCount \in Nat
      /\ ipTries \in Nat /\ acctTries \in Nat
  BY BudgetTypes
<1>4. "check" \in Places \ {"idle", "record", "lock"} /\ "check" \in Places
      /\ "idle" \in Places \ {"checkLock", "password", "lock"}
      /\ "checkLock" \in Places /\ "password" \in Places
  BY DEF Places
<1>5. CASE RedisAnswers /\ End(c)
  <2>1. faults' = faults /\ faults' \in Nat /\ faults' >= faults
    BY <1>3, <1>5 DEF RedisAnswers
  <2>2. Moves(c, "check", "idle")
    BY <1>1, <1>5, MoveEnd
  <2> QED
    BY <1>1, <1>4, <2>1, <2>2, QuietBudget
<1>7. CASE RedisAnswers /\ ~Throttled /\ GoTo(c, "checkLock")
  <2>1. /\ Pw' = Pw /\ Aim' = Aim + 1 /\ Rec' = Rec /\ Lock' = Lock /\ Act' = Act
        /\ Try' = Try /\ Aim \in Nat /\ Rec \in Nat /\ Lock \in Nat
        /\ Aim' + Rec' + Lock' <= Everyone
    <3>1. Moves(c, "check", "checkLock")
      BY <1>1, <1>7, MoveTo
    <3> QED
      BY <1>4, <3>1, Counts DEF One
  <2>2. ipCount < IpLimit
    BY <1>3, <1>7, LoginAssumption DEF Throttled
  <2>3. (Aim + 1) + Rec + Lock <= Everyone
    BY <2>1
  <2>4. IpBudget(ipTries, ipCount, Aim + 1, Rec, faults)
    BY <1>3, <2>1, <2>2, <2>3, IpPasses DEF BudgetInv
  <2> QED
    BY <1>2, <1>7, <2>1, <2>4 DEF BudgetInv, RedisAnswers
<1>8. CASE RedisFails /\ GoTo(c, "password")
  <2>1. /\ Pw' = Pw + 1 /\ Aim' = Aim + 1 /\ Rec' = Rec /\ Lock' = Lock /\ Act' = Act
        /\ Try' = Try /\ Pw \in Nat /\ Aim \in Nat /\ Rec \in Nat /\ Lock \in Nat
    <3>1. Moves(c, "check", "password")
      BY <1>1, <1>8, MoveTo
    <3> QED
      BY <1>4, <3>1, Counts DEF One
  <2>2. IpBudget(ipTries, ipCount, Aim + 1, Rec, faults + 1)
    BY <1>3, <2>1, IpUnchecked DEF BudgetInv
  <2>3. AcctBudget(acctTries, acctCount, locked, Pw + 1, Rec, Lock, faults + 1)
    BY <1>3, <2>1, AcctUnchecked DEF BudgetInv
  <2> QED
    BY <1>2, <1>8, <2>1, <2>2, <2>3 DEF BudgetInv, RedisFails
<1> QED
  BY <1>5, <1>7, <1>8 DEF Check

LEMMA CheckLockBudget ==
    ASSUME FactorInv, StoreTypes, BudgetInv, NEW c \in Client, CheckLock(c)
    PROVE  BudgetInv'
<1>1. UNCHANGED limiter /\ UNCHANGED requests /\ req[c].pc = "checkLock"
  BY DEF CheckLock, At
<1>2. /\ ipCount' = ipCount /\ acctCount' = acctCount /\ locked' = locked
      /\ ipTries' = ipTries /\ acctTries' = acctTries /\ requests' = requests
  BY <1>1 DEF limiter
<1>3. faults \in Nat /\ requests \in Nat /\ ipCount \in Nat /\ acctCount \in Nat
      /\ ipTries \in Nat /\ acctTries \in Nat
  BY BudgetTypes
<1>4. "checkLock" \in Places \ {"idle", "record", "lock"} /\ "checkLock" \in Places
      /\ "idle" \in Places \ {"checkLock", "password", "lock"} /\ "password" \in Places
  BY DEF Places
<1>5. CASE RedisAnswers /\ End(c)
  <2>1. faults' = faults /\ faults' \in Nat /\ faults' >= faults
    BY <1>3, <1>5 DEF RedisAnswers
  <2>2. Moves(c, "checkLock", "idle")
    BY <1>1, <1>5, MoveEnd
  <2> QED
    BY <1>1, <1>4, <2>1, <2>2, QuietBudget
<1>6. ASSUME GoTo(c, "password")
      PROVE  /\ Pw' = Pw + 1 /\ Aim' = Aim /\ Rec' = Rec /\ Lock' = Lock /\ Act' = Act
             /\ Try' = Try /\ Pw \in Nat /\ Aim \in Nat /\ Rec \in Nat /\ Lock \in Nat
             /\ Pw' + Rec' + Lock' <= Everyone
  <2>1. Moves(c, "checkLock", "password")
    BY <1>1, <1>6, MoveTo
  <2> QED
    BY <1>4, <2>1, Counts DEF One
<1>7. CASE RedisAnswers /\ ~locked /\ GoTo(c, "password")
  <2>1. (Pw + 1) + Rec + Lock <= Everyone
    BY <1>6, <1>7
  <2>2. AcctBudget(acctTries, acctCount, locked, Pw + 1, Rec, Lock, faults)
    BY <1>3, <1>6, <1>7, <2>1, AcctPasses DEF BudgetInv
  <2> QED
    BY <1>2, <1>6, <1>7, <2>2 DEF BudgetInv, RedisAnswers
<1>8. CASE RedisFails /\ GoTo(c, "password")
  <2>1. Aim >= Aim /\ Aim <= Aim /\ Rec >= Rec /\ faults + 1 >= faults /\ faults + 1 \in Nat
    BY <1>3, <1>6, <1>8
  <2>2. IpBudget(ipTries, ipCount, Aim, Rec, faults + 1)
    BY <1>3, <1>6, <1>8, <2>1, IpQuiet DEF BudgetInv
  <2>3. AcctBudget(acctTries, acctCount, locked, Pw + 1, Rec, Lock, faults + 1)
    BY <1>3, <1>6, <1>8, AcctUnchecked DEF BudgetInv
  <2> QED
    BY <1>2, <1>6, <1>8, <2>2, <2>3 DEF BudgetInv, RedisFails
<1> QED
  BY <1>5, <1>7, <1>8 DEF CheckLock

LEMMA PasswordBudget ==
    ASSUME FactorInv, StoreTypes, BudgetInv, NEW c \in Client, Password(c)
    PROVE  BudgetInv'
<1>1. /\ ipCount' = ipCount /\ acctCount' = acctCount /\ locked' = locked
      /\ requests' = requests /\ faults' = faults /\ req[c].pc = "password"
  BY DEF Password, At
<1>2. faults \in Nat /\ requests \in Nat /\ ipCount \in Nat /\ acctCount \in Nat
      /\ ipTries \in Nat /\ acctTries \in Nat
  BY BudgetTypes
<1>3. "password" \in Places \ {"idle", "record", "lock"} /\ "password" \in Places
      /\ "state" \in Places \ {"checkLock", "password", "lock"} /\ "record" \in Places
  BY DEF Places
<1>4. CASE GoTo(c, "state") /\ UNCHANGED <<ipTries, acctTries>>
  <2>1. UNCHANGED limiter /\ UNCHANGED requests /\ faults' \in Nat /\ faults' >= faults
    BY <1>1, <1>2, <1>4 DEF limiter
  <2>2. Moves(c, "password", "state")
    BY <1>1, <1>4, MoveTo
  <2> QED
    BY <1>3, <2>1, <2>2, QuietBudget
<1>5. CASE GoTo(c, "record") /\ ipTries' = ipTries + 1 /\ acctTries' = acctTries + 1
  <2>1. Moves(c, "password", "record")
    BY <1>1, <1>5, MoveTo
  <2>2. /\ Pw' = Pw - 1 /\ Aim' = Aim - 1 /\ Rec' = Rec + 1 /\ Lock' = Lock /\ Act' = Act
              /\ Try' = Try - 1
        /\ Pw \in Nat /\ Aim \in Nat /\ Rec \in Nat /\ Lock \in Nat /\ Act \in Nat /\ Try \in Nat
    BY <1>3, <2>1, Counts DEF One
  <2>3. IpBudget(ipTries + 1, ipCount, Aim - 1, Rec + 1, faults)
    BY <1>2, <2>2, IpWrong DEF BudgetInv
  <2>4. AcctBudget(acctTries + 1, acctCount, locked, Pw - 1, Rec + 1, Lock, faults)
    BY <1>2, <2>2, AcctWrong DEF BudgetInv
  <2>5. /\ Paid(ipCount, ipTries + 1, Act, Try - 1, requests)
        /\ Paid(acctCount, acctTries + 1, Act, Try - 1, requests)
    BY <1>2, <2>2, PaidActs DEF BudgetInv
  <2> QED
    BY <1>1, <1>5, <2>2, <2>3, <2>4, <2>5 DEF BudgetInv
<1> QED
  BY <1>4, <1>5 DEF Password

LEMMA RecordBudget ==
    ASSUME FactorInv, StoreTypes, BudgetInv, NEW c \in Client, RecordFailure(c)
    PROVE  BudgetInv'
<1>1. /\ locked' = locked /\ ipTries' = ipTries /\ acctTries' = acctTries
      /\ requests' = requests /\ req[c].pc = "record"
  BY DEF RecordFailure, At
<1>2. faults \in Nat /\ requests \in Nat /\ ipCount \in Nat /\ acctCount \in Nat
      /\ ipTries \in Nat /\ acctTries \in Nat
  BY BudgetTypes
<1>3. "record" \in Places /\ "lock" \in Places /\ "idle" \in Places
  BY DEF Places
<1>4. /\ Pw \in Nat /\ Aim \in Nat /\ Rec \in Nat /\ Lock \in Nat /\ Act \in Nat /\ Try \in Nat
      /\ Act - 1 <= Act /\ Try <= Try /\ requests >= requests
  BY <1>2, CountAll DEF CountsOK
<1>5. ASSUME End(c)
      PROVE  /\ Pw' = Pw /\ Aim' = Aim /\ Rec' = Rec - 1 /\ Lock' = Lock /\ Act' = Act - 1
                   /\ Try' = Try
             /\ Act - 1 \in Nat /\ Rec - 1 \in Nat
  <2>1. Moves(c, "record", "idle")
    BY <1>1, <1>5, MoveEnd
  <2> QED
    BY <1>3, <2>1, Counts DEF One
<1>6. ASSUME GoTo(c, "lock")
      PROVE  Pw' = Pw /\ Aim' = Aim /\ Rec' = Rec - 1 /\ Lock' = Lock + 1 /\ Act' = Act - 1
                /\ Try' = Try
  <2>1. Moves(c, "record", "lock")
    BY <1>1, <1>6, MoveTo
  <2> QED
    BY <1>3, <2>1, Counts DEF One
<1>7. CASE RedisAnswers /\ ipCount' = ipCount + 1 /\ acctCount' = acctCount + 1
           /\ (IF Locks(acctCount + 1) THEN GoTo(c, "lock") ELSE End(c))
  <2>1. IpBudget(ipTries, ipCount + 1, Aim, Rec - 1, faults)
    BY <1>2, <1>4, IpRecords DEF BudgetInv
  <2>2. /\ Paid(ipCount + 1, ipTries, Act - 1, Try, requests)
        /\ Paid(acctCount + 1, acctTries, Act - 1, Try, requests)
    BY <1>2, <1>4, PaidActs DEF BudgetInv
  <2>3. CASE Locks(acctCount + 1)
    <3>1. AcctBudget(acctTries, acctCount + 1, locked, Pw, Rec - 1, Lock + 1, faults)
      BY <1>2, <1>4, AcctRecords DEF BudgetInv
    <3> QED
      BY <1>1, <1>6, <1>7, <2>1, <2>2, <2>3, <3>1 DEF BudgetInv, RedisAnswers
  <2>4. CASE ~Locks(acctCount + 1)
    <3>1. acctCount + 1 < AcctLimit
      BY <1>2, <2>4, LoginAssumption DEF Locks
    <3>2. AcctBudget(acctTries, acctCount + 1, locked, Pw, Rec - 1, Lock, faults)
      BY <1>2, <1>4, <3>1, AcctRecords DEF BudgetInv
    <3> QED
      BY <1>1, <1>5, <1>7, <2>1, <2>2, <2>4, <3>2 DEF BudgetInv, RedisAnswers
  <2> QED
    BY <2>3, <2>4
<1>8. CASE RedisFails /\ End(c) /\ UNCHANGED <<ipCount, acctCount>>
  <2>0. Rec - 1 \in Nat
    BY <1>5, <1>8
  <2>1. IpBudget(ipTries, ipCount, Aim, Rec - 1, faults + 1)
    BY <1>2, <1>4, <2>0, IpLost DEF BudgetInv
  <2>2. AcctBudget(acctTries, acctCount, locked, Pw, Rec - 1, Lock, faults + 1)
    BY <1>2, <1>4, <2>0, AcctLost DEF BudgetInv
  <2>3. Paid(ipCount, ipTries, Act - 1, Try, requests)
    BY <1>2, <1>4, <1>5, <1>8, PaidQuiet DEF BudgetInv
  <2>4. Paid(acctCount, acctTries, Act - 1, Try, requests)
    BY <1>2, <1>4, <1>5, <1>8, PaidQuiet DEF BudgetInv
  <2> QED
    BY <1>1, <1>5, <1>8, <2>1, <2>2, <2>3, <2>4 DEF BudgetInv, RedisFails
<1> QED
  BY <1>7, <1>8 DEF RecordFailure

LEMMA LockBudget ==
    ASSUME FactorInv, StoreTypes, BudgetInv, NEW c \in Client, SetLock(c)
    PROVE  BudgetInv'
<1>1. /\ ipCount' = ipCount /\ acctCount' = acctCount /\ ipTries' = ipTries
      /\ acctTries' = acctTries /\ requests' = requests /\ req[c].pc = "lock"
  BY DEF SetLock, At
<1>2. faults \in Nat /\ requests \in Nat /\ ipCount \in Nat /\ acctCount \in Nat
      /\ ipTries \in Nat /\ acctTries \in Nat
  BY BudgetTypes
<1>3. Moves(c, "lock", "idle") /\ "lock" \in Places /\ "idle" \in Places
  BY <1>1, MoveEnd DEF SetLock, Places
<1>4. /\ Pw' = Pw /\ Aim' = Aim /\ Rec' = Rec /\ Lock' = Lock - 1 /\ Act' = Act /\ Try' = Try
      /\ Pw \in Nat /\ Aim \in Nat /\ Rec \in Nat /\ Lock \in Nat /\ Lock' \in Nat
  BY <1>3, Counts DEF One
<1>5. CASE RedisAnswers /\ locked' = TRUE
  <2>1. AcctBudget(acctTries, acctCount, TRUE, Pw, Rec, Lock', faults)
    BY <1>2, <1>4, AcctLocks DEF BudgetInv
  <2> QED
    BY <1>1, <1>4, <1>5, <2>1 DEF BudgetInv, RedisAnswers
<1>6. CASE RedisFails /\ UNCHANGED locked
  <2>1. IpBudget(ipTries, ipCount, Aim, Rec, faults + 1)
    BY <1>2, <1>4, IpLost DEF BudgetInv
  <2>2. AcctBudget(acctTries, acctCount, locked, Pw, Rec, Lock', faults + 1)
    BY <1>2, <1>4, AcctLost DEF BudgetInv
  <2> QED
    BY <1>1, <1>4, <1>6, <2>1, <2>2 DEF BudgetInv, RedisFails
<1> QED
  BY <1>5, <1>6 DEF SetLock

LEMMA CompleteBudget ==
    ASSUME FactorInv, StoreTypes, BudgetInv, NEW c \in Client, Complete(c)
    PROVE  BudgetInv'
<1>1. /\ ipCount' = ipCount /\ ipTries' = ipTries /\ requests' = requests
      /\ req[c].pc = "complete"
  BY DEF Complete, At
<1>2. faults \in Nat /\ requests \in Nat /\ ipCount \in Nat /\ acctCount \in Nat
      /\ ipTries \in Nat /\ acctTries \in Nat
  BY BudgetTypes
<1>3. /\ Moves(c, "complete", "idle")
      /\ "complete" \in Places \ {"idle", "record", "lock"} /\ "complete" \in Places
      /\ "idle" \in Places \ {"checkLock", "password", "lock"} /\ "idle" \in Places
  BY <1>1, MoveEnd DEF Complete, Places
<1>4. CASE RedisFails /\ UNCHANGED <<acctCount, locked, acctTries>>
  <2>1. UNCHANGED limiter /\ UNCHANGED requests /\ faults' \in Nat /\ faults' >= faults
    BY <1>1, <1>2, <1>4 DEF limiter, RedisFails
  <2> QED
    BY <1>3, <2>1, QuietBudget
<1>5. CASE RedisAnswers /\ acctCount' = 0 /\ locked' = FALSE /\ acctTries' = 0
  <2>1. /\ Pw' = Pw /\ Aim' = Aim /\ Rec' = Rec /\ Lock' = Lock /\ Act' <= Act /\ Try' <= Try
        /\ Pw \in Nat /\ Aim \in Nat /\ Rec \in Nat /\ Lock \in Nat /\ Act \in Nat /\ Try \in Nat
        /\ Act' \in Nat /\ Try' \in Nat /\ Pw + Rec + Lock <= Everyone
        /\ Aim + Rec + Lock <= Everyone
    BY <1>3, Counts DEF One
  <2>2. AcctBudget(0, 0, FALSE, Pw, Rec, Lock, faults)
    BY <1>2, <2>1, AcctClears
  <2>3. requests >= requests
    BY <1>2
  <2>4. Paid(ipCount, ipTries, Act', Try', requests)
    BY <1>2, <2>1, <2>3, PaidQuiet DEF BudgetInv
  <2>5. Paid(acctCount, acctTries, Act', Try', requests)
    BY <1>2, <2>1, <2>3, PaidQuiet DEF BudgetInv
  <2>6. Paid(0, 0, Act', Try', requests)
    BY <1>2, <2>1, <2>5, PaidClears
  <2> QED
    BY <1>1, <1>5, <2>1, <2>2, <2>4, <2>6 DEF BudgetInv, RedisAnswers
<1> QED
  BY <1>4, <1>5 DEF Complete

(* The second factor's handlers owe the limiter nothing while they run.     *)
LEMMA FactorBudget ==
    ASSUME FactorInv, StoreTypes, BudgetInv, NEW c \in Client,
           \/ ReadState(c) \/ Burn(c) \/ VerifyMFA(c) \/ VerifyCode(c) \/ Enroll(c)
           \/ ActivateMFA(c) \/ ActivateCode(c) \/ Enable(c)
           \/ DisableMFA(c) \/ DisableCode(c) \/ Disable(c)
    PROVE  BudgetInv'
<1> DEFINE Target == Places \ {"checkLock", "password", "lock"}
<1>1. UNCHANGED limiter /\ UNCHANGED requests
  BY DEF ReadState, Burn, VerifyMFA, VerifyCode, Enroll, ActivateMFA, ActivateCode,
         Enable, DisableMFA, DisableCode, Disable, ReadFor
<1>2. req[c].pc \in Places \ {"idle", "record", "lock"}
  BY DEF ReadState, Burn, VerifyMFA, VerifyCode, Enroll, ActivateMFA, ActivateCode,
         Enable, DisableMFA, DisableCode, Disable, At, Places
<1>3. faults' \in Nat /\ faults' >= faults
  <2>1. faults \in Nat
    BY BudgetTypes
  <2>2. faults' = faults \/ faults' = faults + 1
    BY DEF ReadState, Burn, VerifyMFA, VerifyCode, Enroll, ActivateMFA, ActivateCode,
           Enable, DisableMFA, DisableCode, Disable, ReadFor, Consume, MatchRecovery,
           RedisAnswers, RedisFails
  <2> QED
    BY <2>1, <2>2
<1>4. ASSUME NEW place \in Target, GoTo(c, place) PROVE BudgetInv'
  <2>1. Moves(c, req[c].pc, place)
    BY <1>4, MoveTo
  <2> QED
    BY <1>1, <1>2, <1>3, <2>1, QuietBudget
<1>5. ASSUME NEW q, q.pc \in Target, GoOn(c, q) PROVE BudgetInv'
  <2>1. Moves(c, req[c].pc, q.pc)
    BY <1>5, MoveOn
  <2> QED
    BY <1>1, <1>2, <1>3, <1>5, <2>1, QuietBudget
<1>6. ASSUME End(c) PROVE BudgetInv'
  <2>1. Moves(c, req[c].pc, "idle") /\ "idle" \in Target
    BY <1>6, MoveEnd DEF Places
  <2> QED
    BY <1>1, <1>2, <1>3, <2>1, QuietBudget
<1>7. ASSUME Write({c}) PROVE BudgetInv'
  <2>1. Moves(c, req[c].pc, "idle") /\ "idle" \in Target
    BY <1>7, MoveWrite DEF Places
  <2> QED
    BY <1>1, <1>2, <1>3, <2>1, QuietBudget
<1>8. /\ "complete" \in Target /\ "verifyCode" \in Target /\ "activateCode" \in Target
      /\ "disableCode" \in Target /\ "enable" \in Target /\ "clear" \in Target
      /\ "record" \in Target /\ "burn" \in Target /\ "idle" \in Target
  BY DEF Places
<1> HIDE DEF Target
<1>9. ASSUME NEW next \in Target, NEW otherwise \in {"idle", "record"},
             MatchRecovery(c, next, otherwise)
      PROVE  BudgetInv'
  <2>1. CASE \E k \in recovery : GoOn(c, Matched(req[c], k, next))
    <3>1. PICK k \in recovery : GoOn(c, Matched(req[c], k, next))
      BY <2>1
    <3>2. Matched(req[c], k, next).pc = "burn"
      BY DEF FactorInv, Handler, Matched
    <3> QED
      BY <1>5, <1>8, <3>1, <3>2
  <2>2. CASE otherwise = "idle" /\ End(c)
    BY <1>6, <2>2
  <2>3. CASE GoTo(c, otherwise)
    BY <1>4, <1>8, <1>9, <2>3
  <2> QED
    BY <1>9, <2>1, <2>2, <2>3 DEF MatchRecovery, Matched
<1>10. ASSUME NEW k \in Code, NEW next \in Target, Consume(c, k, next)
       PROVE  BudgetInv'
  <2>1. CASE Accept(c, k, next)
    <3>1. Coded(req[c], k, next).pc = next
      BY DEF FactorInv, Handler, Coded
    <3>2. GoOn(c, Coded(req[c], k, next))
      BY <2>1 DEF Accept, Coded
    <3> QED
      BY <1>5, <3>1, <3>2
  <2>2. CASE End(c)
    BY <1>6, <2>2
  <2> QED
    BY <1>10, <2>1, <2>2 DEF Consume
<1>11. ASSUME NEW allowed, NEW next \in Target, ReadFor(c, allowed, next)
       PROVE  BudgetInv'
  <2>1. CASE GoOn(c, Having(req[c], next, mfa))
    <3>1. Having(req[c], next, mfa).pc = next
      BY DEF FactorInv, Handler, Having
    <3> QED
      BY <1>5, <2>1, <3>1
  <2>2. CASE End(c)
    BY <1>6, <2>2
  <2> QED
    BY <1>11, <2>1, <2>2 DEF ReadFor, Having
<1>12. CASE ReadState(c)
  <2>1. CASE GoOn(c, Passed(req[c]))
    <3>1. Passed(req[c]).pc = "complete"
      BY DEF FactorInv, Handler, Passed
    <3> QED
      BY <1>5, <1>8, <2>1, <3>1
  <2> QED
    BY <1>6, <1>12, <2>1 DEF ReadState, Passed
<1>13. CASE Burn(c)
  <2>1. CASE GoTo(c, req[c].after)
    <3>1. req[c].after \in Target
      BY <1>8 DEF FactorInv, Handler, Afters
    <3> QED
      BY <1>4, <2>1, <3>1
  <2>2. CASE GoTo(c, "record")
    BY <1>4, <1>8, <2>2
  <2> QED
    BY <1>6, <1>13, <2>1, <2>2 DEF Burn
<1>14. CASE VerifyMFA(c) \/ ActivateMFA(c) \/ DisableMFA(c)
  BY <1>8, <1>11, <1>14 DEF VerifyMFA, ActivateMFA, DisableMFA
<1>15. CASE VerifyCode(c)
  BY <1>8, <1>9, <1>10, <1>15 DEF VerifyCode
<1>16. CASE ActivateCode(c)
  BY <1>6, <1>8, <1>10, <1>16 DEF ActivateCode
<1>17. CASE DisableCode(c)
  BY <1>4, <1>8, <1>9, <1>17 DEF DisableCode
<1>18. CASE Enroll(c) \/ Enable(c) \/ Disable(c)
  BY <1>7, <1>18 DEF Enroll, Enable, Disable
<1> QED
  BY <1>12, <1>13, <1>14, <1>15, <1>16, <1>17, <1>18

LEMMA QuietSteps ==
    ASSUME FactorInv, StoreTypes, BudgetInv,
           \/ \E c \in Client : Logout(c) \/ PendingEnds(c)
           \/ ResetByAdmin \/ SetPolicy \/ Tick
    PROVE  BudgetInv'
<1>1. UNCHANGED limiter /\ UNCHANGED faults
  BY DEF Logout, PendingEnds, ResetByAdmin, SetPolicy, Tick
<1>2. requests' \in Nat /\ requests' >= requests
  <2>1. requests \in Nat
    BY BudgetTypes
  <2>2. requests' = requests \/ requests' = requests + 1
    BY DEF Logout, PendingEnds, ResetByAdmin, SetPolicy, Tick
  <2> QED
    BY <2>1, <2>2
<1>3. \A x \in Client : req'[x].pc = req[x].pc
  <2>1. CASE ResetByAdmin
    BY <2>1 DEF ResetByAdmin, Write, FactorInv, Handler
  <2>2. CASE req' = req
    BY <2>2
  <2> QED
    BY <2>1, <2>2 DEF Logout, PendingEnds, SetPolicy, Tick
<1> QED
  BY <1>1, <1>2, <1>3, StillBudget

----------------------------------------------------------------------------
(* The invariant.                                                           *)

IInv == FactorInv /\ StoreTypes /\ BudgetInv

LEMMA InitInv == Init => IInv
<1> SUFFICES ASSUME Init PROVE IInv
  OBVIOUS
<1>1. \/ /\ mfa = [enabled |-> TRUE, secret |-> 1]
         /\ recovery = Issued(1) /\ secrets = 1 /\ sets = 1
      \/ mfa = Off /\ recovery = {} /\ secrets = 0 /\ sets = 0
  BY DEF Init
<1>2. FactorInv
  <2>1. mfa \in State /\ EnabledHasSecret
    <3>1. CASE mfa = [enabled |-> TRUE, secret |-> 1]
      <4>1. mfa.enabled = TRUE /\ mfa.secret = 1 /\ 1 \in Secret
        BY <3>1, LoginAssumption DEF Secret
      <4> QED
        BY <3>1, <4>1 DEF State, EnabledHasSecret, NoSecret
    <3>2. CASE mfa = Off
      BY <3>2, OffIsState DEF EnabledHasSecret, Off
    <3> QED
      BY <1>1, <3>1, <3>2
  <2>2. req = [c \in Client |-> Idle]
    BY DEF Init
  <2> QED
    BY <2>1, <2>2, OffIsState, SoundIdle DEF FactorInv
<1>3. StoreTypes
  <2>1. /\ secrets \in 0 .. MaxSecrets /\ sets \in 0 .. MaxSets
        /\ recovery \subseteq RecoveryCode
    BY <1>1, LoginAssumption DEF Issued, RecoveryCode
  <2>2. /\ orgRequire = FALSE /\ locked = FALSE /\ used = {} /\ session = {}
        /\ pending = {} /\ now = 0 /\ requests = 0 /\ faults = 0
        /\ accepted = [k \in Code |-> 0] /\ spent = [k \in RecoveryCode |-> 0]
    BY DEF Init
  <2>3. accepted \in [Code -> Nat] /\ spent \in [RecoveryCode -> Nat]
    BY <2>2
  <2>4. 0 \in 0 .. MaxTime /\ 0 \in 0 .. MaxRequests /\ 0 \in 0 .. MaxFaults
    BY LoginAssumption
  <2> QED
    BY <2>1, <2>2, <2>3, <2>4 DEF StoreTypes
<1>4. BudgetInv
  <2>1. /\ ipCount = 0 /\ acctCount = 0 /\ ipTries = 0 /\ acctTries = 0
        /\ faults = 0 /\ requests = 0
    BY DEF Init
  <2>2. /\ Pw \in Nat /\ Aim \in Nat /\ Rec \in Nat /\ Lock \in Nat
        /\ Pw + Rec + Lock <= Everyone /\ Aim + Rec + Lock <= Everyone
    BY CountAll DEF CountsOK
  <2>3. IpBudget(0, 0, Aim, Rec, 0) /\ AcctBudget(0, 0, locked, Pw, Rec, Lock, 0)
    BY <2>2, IpClears, AcctClears
  <2>4. \A c \in Client : req[c].pc = "idle"
    BY DEF Init, Idle
  <2>5. Act = 0 /\ Try = 0
    BY <2>4, FS_EmptySet DEF Act, Try, In
  <2> QED
    BY <2>1, <2>3, <2>5 DEF BudgetInv, Paid
<1> QED
  BY <1>2, <1>3, <1>4 DEF IInv

LEMMA StepInv == IInv /\ Next => IInv'
<1> SUFFICES ASSUME IInv, Next PROVE IInv'
  OBVIOUS
<1>0. /\ FactorInv /\ StoreTypes /\ BudgetInv
      /\ recovery \subseteq RecoveryCode /\ secrets \in 0 .. MaxSecrets
  BY DEF IInv, StoreTypes
<1>1. ASSUME NEW c \in Client, Arrive(c) PROVE IInv'
  BY <1>0, <1>1, LoginFactor, QuietTypes, ArriveBudget DEF IInv
<1>2. ASSUME NEW c \in Client, GiveUp(c) PROVE IInv'
  BY <1>0, <1>2, LoginFactor, QuietTypes, GiveUpBudget DEF IInv
<1>3. ASSUME NEW c \in Client, Check(c) \/ CheckLock(c) PROVE IInv'
  BY <1>0, <1>3, LoginFactor, QuietTypes, CheckBudget, CheckLockBudget DEF IInv
<1>4. ASSUME NEW c \in Client, Password(c) PROVE IInv'
  BY <1>0, <1>4, LoginFactor, QuietTypes, PasswordBudget DEF IInv
<1>5. ASSUME NEW c \in Client, RecordFailure(c) PROVE IInv'
  BY <1>0, <1>5, LoginFactor, QuietTypes, RecordBudget DEF IInv
<1>6. ASSUME NEW c \in Client, SetLock(c) PROVE IInv'
  BY <1>0, <1>6, LoginFactor, QuietTypes, LockBudget DEF IInv
<1>7. ASSUME NEW c \in Client, Complete(c) PROVE IInv'
  BY <1>0, <1>7, LoginFactor, QuietTypes, CompleteBudget DEF IInv
<1>8. ASSUME NEW c \in Client, ReadState(c) PROVE IInv'
  BY <1>0, <1>8, LoginFactor, QuietTypes, FactorBudget DEF IInv
<1>9. ASSUME NEW c \in Client, VerifyMFA(c) \/ ActivateMFA(c) \/ DisableMFA(c)
      PROVE  IInv'
  BY <1>0, <1>9, CodeFactor, QuietTypes, FactorBudget DEF IInv
<1>10. ASSUME NEW c \in Client, VerifyCode(c) \/ ActivateCode(c) \/ DisableCode(c)
                 \/ Burn(c)
       PROVE  IInv'
  BY <1>0, <1>10, CodeFactor, CodeTypes, FactorBudget DEF IInv
<1>11. ASSUME NEW c \in Client, Enroll(c) \/ Enable(c) \/ Disable(c)
       PROVE  IInv'
  BY <1>0, <1>11, WritesFactor, WriteTypes, FactorBudget DEF IInv
<1>12. CASE ResetByAdmin
  BY <1>0, <1>12, WritesFactor, WriteTypes, QuietSteps DEF IInv
<1>13. ASSUME UNCHANGED <<mfa, req>> PROVE FactorInv'
  BY <1>0, <1>13 DEF FactorInv, EnabledHasSecret
<1>14. ASSUME NEW c \in Client, Logout(c) \/ PendingEnds(c) PROVE IInv'
  <2>1. FactorInv'
    BY <1>13, <1>14 DEF Logout, PendingEnds, factor
  <2> QED
    BY <1>0, <1>14, <2>1, QuietTypes, QuietSteps DEF IInv
<1>15. CASE SetPolicy \/ Tick
  <2>1. FactorInv'
    BY <1>13, <1>15 DEF SetPolicy, Tick, factor
  <2> QED
    BY <1>0, <1>15, <2>1, TimeTypes, QuietSteps DEF IInv
<1>16. CASE IpWindowEnds \/ AcctWindowEnds \/ LockEnds
  <2>1. FactorInv'
    BY <1>13, <1>16 DEF IpWindowEnds, AcctWindowEnds, LockEnds, factor
  <2> QED
    BY <1>0, <1>16, <2>1, TimeTypes, ClearedBudget DEF IInv
<1> QED
  BY <1>1, <1>2, <1>3, <1>4, <1>5, <1>6, <1>7, <1>8, <1>9, <1>10, <1>11, <1>12, <1>14,
     <1>15, <1>16 DEF Next

LEMMA StutterInv == IInv /\ UNCHANGED vars => IInv'
<1> SUFFICES ASSUME IInv, UNCHANGED vars PROVE IInv'
  OBVIOUS
<1>1. /\ req' = req /\ mfa' = mfa /\ UNCHANGED limiter /\ faults' = faults
      /\ requests' = requests
  BY DEF vars, limiter
<1>2. FactorInv'
  BY <1>1 DEF IInv, FactorInv, EnabledHasSecret
<1>3. StoreTypes'
  BY DEF IInv, StoreTypes, vars
<1>4. requests' \in Nat /\ requests' >= requests
  BY <1>1, BudgetTypes DEF IInv
<1>5. BudgetInv'
  BY <1>1, <1>4, StillBudget DEF IInv
<1> QED
  BY <1>2, <1>3, <1>5 DEF IInv

LEMMA Invariance == Spec => []IInv
  BY InitInv, StepInv, StutterInv, PTL DEF Spec

(* The codes, where Redis remembers one for as long as it is valid.         *)
LEMMA CodeInit == Init => CodeInv
<1> SUFFICES ASSUME Init PROVE CodeInv
  OBVIOUS
<1>1. /\ accepted = [k \in Code |-> 0] /\ spent = [k \in RecoveryCode |-> 0]
            /\ faults = 0
      /\ \/ recovery = Issued(1) /\ sets = 1
         \/ recovery = {}
  BY DEF Init
<1>2. \A k \in recovery : k \in RecoveryCode /\ k[1] = sets
  BY <1>1, LoginAssumption DEF Issued, RecoveryCode
<1> QED
  BY <1>1, <1>2 DEF CodeInv

LEMMA CodeStep ==
    ASSUME 2 * Skew + 1 <= ConsumeTTL
    PROVE  IInv /\ CodeInv /\ [Next]_vars => CodeInv'
<1> SUFFICES ASSUME IInv, CodeInv, [Next]_vars PROVE CodeInv'
  OBVIOUS
<1>1. StoreTypes
  BY DEF IInv
<1>2. ASSUME UNCHANGED <<recovery, sets, used, accepted, spent, now>>,
             faults' \in 0 .. MaxFaults, faults' >= faults
      PROVE  CodeInv'
  BY <1>1, <1>2, QuietCodes
<1>3. faults \in 0 .. MaxFaults /\ faults >= faults
  BY <1>1, LoginAssumption DEF StoreTypes
<1>4. ASSUME NEW c \in Client,
             \/ Arrive(c) \/ GiveUp(c) \/ Check(c) \/ CheckLock(c) \/ Password(c)
           \/ RecordFailure(c)
             \/ SetLock(c) \/ ReadState(c) \/ Complete(c) \/ VerifyMFA(c)
             \/ ActivateMFA(c) \/ DisableMFA(c) \/ Logout(c) \/ PendingEnds(c)
      PROVE  CodeInv'
  <2>1. StoreTypes' /\ faults' >= faults
        /\ UNCHANGED <<recovery, sets, secrets, used, accepted, spent, now>>
    BY <1>1, <1>4, QuietTypes
  <2> QED
    BY <1>2, <2>1 DEF StoreTypes
<1>5. ASSUME NEW c \in Client, NEW k \in Code, NEW next, Consume(c, k, next),
             UNCHANGED <<recovery, sets, spent, now>>
      PROVE  CodeInv'
  BY <1>1, <1>5, ConsumeCodes
<1>6. ASSUME NEW c \in Client, VerifyCode(c) \/ ActivateCode(c) \/ DisableCode(c)
      PROVE  CodeInv'
  <2>1. UNCHANGED <<recovery, sets, spent, now>>
    BY <1>6 DEF VerifyCode, ActivateCode, DisableCode, factor
  <2>2. CASE UNCHANGED <<used, accepted, faults>>
    BY <1>2, <1>3, <2>1, <2>2
  <2>3. CASE \E k \in Code : Consume(c, k, "complete") \/ Consume(c, k, "enable")
    BY <1>5, <2>1, <2>3
  <2> QED
    BY <1>6, <2>2, <2>3 DEF VerifyCode, ActivateCode, DisableCode, MatchRecovery
<1>7. ASSUME NEW c \in Client, Burn(c) PROVE CodeInv'
  BY <1>1, <1>7, BurnCodes
<1>8. CASE ResetByAdmin \/ \E c \in Client : Enroll(c) \/ Enable(c) \/ Disable(c)
  BY <1>1, <1>8, SetCodes
<1>9. CASE Tick
  BY <1>1, <1>9, TickCodes
<1>10. CASE SetPolicy \/ IpWindowEnds \/ AcctWindowEnds \/ LockEnds \/ UNCHANGED vars
  <2>1. UNCHANGED <<recovery, sets, used, accepted, spent, now, faults>>
    BY <1>10
       DEF SetPolicy, IpWindowEnds, AcctWindowEnds, LockEnds, vars, factor, history
  <2> QED
    BY <1>2, <1>3, <2>1
<1> QED
  BY <1>4, <1>6, <1>7, <1>8, <1>9, <1>10 DEF Next

----------------------------------------------------------------------------
(* Theorems.                                                                *)

(* Every variable has its type: the handlers' locals, Redis and the rows.   *)
THEOREM LoginTypes == Spec => []TypeOK
<1>1. IInv => TypeOK
  <2> SUFFICES ASSUME IInv PROVE TypeOK
    OBVIOUS
  <2>1. /\ ipCount \in Nat /\ acctCount \in Nat /\ ipTries \in Nat /\ acctTries \in Nat
        /\ requests \in 0 .. MaxRequests /\ Act \in Nat /\ Try \in Nat
    BY CountAll, BudgetTypes DEF IInv, StoreTypes, CountsOK
  <2>2. /\ ipCount + Act <= requests /\ acctCount + Act <= requests
        /\ ipTries + Try <= requests /\ acctTries + Try <= requests
    BY DEF IInv, BudgetInv, Paid
  <2>3. /\ ipCount \in 0 .. MaxRequests /\ acctCount \in 0 .. MaxRequests
        /\ ipTries \in 0 .. MaxRequests /\ acctTries \in 0 .. MaxRequests
    BY <2>1, <2>2, LoginAssumption
  <2>4. mfa \in State /\ req \in [Client -> Handler]
    BY DEF IInv, FactorInv
  <2>5. StoreTypes
    BY DEF IInv
  <2> QED
    BY <2>3, <2>4, <2>5
       DEF TypeOK, StoreTypes, Handler, Codes, Afters, Proofs, Seens, Remembered
<1> QED
  BY <1>1, Invariance, PTL

(* Limiter.Check and RecordFailure bound the wrong passwords of an address  *)
(* in one window, and of an account between two locks, for any number of    *)
(* requests that race between the two calls.                                *)
THEOREM BoundedFailures == Spec => []FailureBudgets
<1>1. IInv => FailureBudgets
  <2> SUFFICES ASSUME IInv PROVE FailureBudgets
    OBVIOUS
  <2>1. /\ Pw \in Nat /\ Aim \in Nat /\ Everyone \in Nat /\ ipTries \in Nat /\ acctTries \in Nat
        /\ faults \in Nat
    BY CountAll, BudgetTypes DEF IInv, CountsOK
  <2>2. /\ ipTries + Aim <= IpLimit + Everyone - 1 + faults
        /\ acctTries + Pw <= AcctLimit + Everyone - 1 + faults
    BY DEF IInv, BudgetInv, IpBudget, AcctBudget
  <2>3. /\ ipTries <= IpLimit + (Everyone - 1 + faults)
        /\ acctTries <= AcctLimit + (Everyone - 1 + faults)
    BY <2>1, <2>2, LoginAssumption
  <2> QED
    BY <2>3 DEF FailureBudgets, Everyone
<1> QED
  BY <1>1, Invariance, PTL

(* Store.ActivateMFA never switches the factor on without a secret.         *)
THEOREM FactorHasSecret == Spec => []EnabledHasSecret
<1>1. IInv => EnabledHasSecret
  BY DEF IInv, FactorInv
<1> QED
  BY <1>1, Invariance, PTL

(* Limiter.Consume and Store.BurnRecoveryCode accept a code once, if the    *)
(* key outlives the steps the code is valid in: 90 seconds against one step *)
(* of 30 seconds and a skew of one on each side.                            *)
THEOREM CodesAcceptedOnce ==
    ASSUME 2 * Skew + 1 <= ConsumeTTL
    PROVE  Spec => []CodesOnce
<1>1. CodeInv => CodesOnce
  BY DEF CodeInv, CodesOnce
<1>2. IInv /\ CodeInv /\ [Next]_vars => CodeInv'
  BY CodeStep
<1> QED
  BY <1>1, <1>2, CodeInit, Invariance, PTL DEF Spec

(* completeLogin gives a session for what MFAState, the one-time code or    *)
(* the recovery code has shown in the course of the same request.           *)
THEOREM SessionsRest == Spec => SessionRestsOnFactor
<1> DEFINE Rests ==
      \A c \in Client : (At(c, "complete") /\ c \in session' /\ c \notin session) =>
         CASE req[c].by = "password" -> \E m \in req[c].seen : ~m.enabled
           [] req[c].by = "code" ->
                 \E m \in req[c].seen : m.enabled /\ m.secret = req[c].code[1]
           [] OTHER -> \E m \in req[c].seen : m.enabled
<1>1. IInv => Rests
  <2> SUFFICES ASSUME IInv, NEW c \in Client, At(c, "complete")
               PROVE  CASE req[c].by = "password" -> \E m \in req[c].seen : ~m.enabled
                        [] req[c].by = "code" ->
                              \E m \in req[c].seen : m.enabled
                                 /\ m.secret = req[c].code[1]
                        [] OTHER -> \E m \in req[c].seen : m.enabled
    OBVIOUS
  <2>1. Justified(req[c])
    BY DEF IInv, FactorInv, Sound, At
  <2> QED
    BY <2>1 DEF Justified
<1> QED
  BY <1>1, Invariance, PTL DEF SessionRestsOnFactor
=============================================================================
