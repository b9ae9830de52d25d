-------------------------------- MODULE Login --------------------------------
(***************************************************************************)
(* Signing in to one account: the rate limiter, the second factor and its  *)
(* enrolment, one-time and recovery codes, several browsers at once.       *)
(*                                                                         *)
(* Each handler is the sequence of its calls to Postgres and Redis; what   *)
(* it read stays in its locals while other requests write.  Time is        *)
(* counted in TOTP steps of 30 seconds: the code <<s, t>> of secret s is   *)
(* for step t.  The windows of the failure counters and of the lock end    *)
(* at any moment.  Password hashing, encryption and the tokens' encoding   *)
(* are abstracted: a browser holds a session, a pending second factor,     *)
(* both or neither.                                                        *)
(***************************************************************************)
EXTENDS Integers, FiniteSets

CONSTANTS
    Client,        \* browsers, all behind one address
    IpLimit,       \* ipLimit: failures of an address
    AcctLimit,     \* acctLimit: failures of the account
    Skew,          \* skewSteps: neighbouring steps a code is accepted in
    CodesPerSet,   \* recovery codes issued together
    Initial,       \* the account's second factor at the start: subset of {"on", "off"}
    (* Bounds of the model. *)
    MaxTime, MaxSecrets, MaxSets, MaxRequests, MaxFaults

ASSUME LoginAssumption ==
    /\ IpLimit \in Nat \ {0} /\ AcctLimit \in Nat \ {0}
    /\ Skew \in Nat /\ CodesPerSet \in Nat
    /\ Initial \subseteq {"on", "off"}
    /\ MaxTime \in Nat /\ MaxSecrets \in Nat \ {0} /\ MaxSets \in Nat \ {0}
    /\ MaxRequests \in Nat /\ MaxFaults \in Nat
    /\ IsFiniteSet(Client)

VARIABLES
    mfa,          \* users.totp_enabled and totp_secret (0: null)
    recovery,     \* unused rows of mfa_recovery_codes
    orgRequire,   \* organizations.require_mfa
    ipCount, acctCount, locked,   \* rl:ip, rl:acct, rl:acct:lock
    used,         \* used:totp keys: one-time codes with the step they expire in
    req,          \* req[c]: the handler working for c, and its locals
    session,      \* browsers with a session cookie
    pending,      \* browsers with an MFA-pending cookie
    now,
    secrets, sets,     \* secrets generated, sets of recovery codes issued
    (* History. *)
    ipTries, acctTries,   \* wrong passwords since a counter was last cleared
    accepted,     \* how often each one-time code was accepted
    spent,        \* how often each recovery code was accepted
    requests, faults

Secret == 1 .. MaxSecrets
Step == -Skew .. MaxTime + Skew
Code == Secret \X Step
RecoveryCode == (1 .. MaxSets) \X (1 .. CodesPerSet)
NoSecret == 0
State == [enabled : BOOLEAN, secret : Secret \cup {NoSecret}]
Off == [enabled |-> FALSE, secret |-> NoSecret]

Places == {"idle", "check", "checkLock", "password", "record", "lock", "state", "complete",
           "verify", "verifyCode", "stage", "activate", "activateCode", "enable",
           "disable", "disableCode", "clear", "burn"}
Idle == [pc |-> "idle", read |-> Off, code |-> <<0, 0>>, after |-> "idle", by |-> "none",
         seen |-> {}]

limiter == <<ipCount, acctCount, locked, ipTries, acctTries>>
factor == <<mfa, recovery, secrets, sets>>
history == <<accepted, spent>>
cookies == <<session, pending>>
vars == <<mfa, recovery, orgRequire, ipCount, acctCount, locked, used, req, session,
          pending, now, secrets, sets, ipTries, acctTries, accepted, spent,
          requests, faults>>

(* GenerateRecoveryCodes.                                                   *)
MutIssued(n) == {n} \X (0 .. CodesPerSet)   \* Mutant: one code too many.
Issued(n) == {n} \X (1 .. CodesPerSet)

Init ==
    /\ \E i \in Initial :
          IF i = "on" THEN /\ mfa = [enabled |-> TRUE, secret |-> 1]
                           /\ recovery = Issued(1) /\ secrets = 1 /\ sets = 1
                      ELSE mfa = Off /\ recovery = {} /\ secrets = 0 /\ sets = 0
    /\ orgRequire = FALSE
    /\ ipCount = 0 /\ acctCount = 0 /\ locked = FALSE /\ used = {}
    /\ req = [c \in Client |-> Idle]
    /\ session = {} /\ pending = {}
    /\ now = 0
    /\ ipTries = 0 /\ acctTries = 0
    /\ accepted = [k \in Code |-> 0] /\ spent = [k \in RecoveryCode |-> 0]
    /\ requests = 0 /\ faults = 0

----------------------------------------------------------------------------
(* Requests.                                                                *)

At(c, place) == req[c].pc = place
GoOn(c, q) == req' = [req EXCEPT ![c] = q]
GoTo(c, place) == GoOn(c, [req[c] EXCEPT !.pc = place])
End(c) == GoOn(c, Idle)

(* The requests of `ending` end with a write to mfa, which the others that  *)
(* are running live through (`seen` is history).                            *)
Write(ending) ==
    req' = [c \in Client |->
              IF c \in ending THEN Idle
              ELSE IF At(c, "idle") THEN req[c]
              ELSE [req[c] EXCEPT !.seen = @ \cup {mfa'}]]

RedisAnswers == UNCHANGED faults
RedisFails == faults < MaxFaults /\ faults' = faults + 1

(* A request arrives; the endpoints behind Require need a session, verify   *)
(* an MFA-pending token.                                                    *)
Arrive(c) ==
    /\ At(c, "idle") /\ requests < MaxRequests
    /\ requests' = requests + 1
    /\ \E place \in {"check"} \cup (IF c \in pending THEN {"verify"} ELSE {})
                  \cup (IF c \in session THEN {"stage", "activate", "disable"} ELSE {}) :
          GoOn(c, [req[c] EXCEPT !.pc = place, !.seen = {mfa}])
    /\ UNCHANGED <<factor, orgRequire, limiter, used, cookies, now, history, faults>>

(* A request ends early: a database error, a cancelled context, a restart.  *)
(* Where it owes the limiter a write, that is a lost Redis call.            *)
GiveUp(c) ==
    /\ ~At(c, "idle")
    /\ IF req[c].pc \in {"record", "lock"} THEN RedisFails ELSE UNCHANGED faults
    /\ End(c)
    /\ UNCHANGED <<factor, orgRequire, limiter, used, cookies, now, history, requests>>

(***************************************************************************)
(* login                                                                   *)
(***************************************************************************)
Throttled == ipCount >= IpLimit

(* Limiter.Check reads the address's count, then the account's lock; either *)
(* call lets the attempt through when Redis does not answer.                *)
Check(c) ==
    /\ At(c, "check")
    /\ \/ RedisAnswers /\ (IF Throttled THEN End(c) ELSE GoTo(c, "checkLock"))
       \/ RedisFails /\ GoTo(c, "password")
    /\ UNCHANGED <<factor, orgRequire, limiter, used, cookies, now, history, requests>>

CheckLock(c) ==
    /\ At(c, "checkLock")
    /\ \/ RedisAnswers /\ (IF locked THEN End(c) ELSE GoTo(c, "password"))
       \/ RedisFails /\ GoTo(c, "password")
    /\ UNCHANGED <<factor, orgRequire, limiter, used, cookies, now, history, requests>>

(* UserByEmail and VerifyPassword.                                          *)
Password(c) ==
    /\ At(c, "password")
    /\ \/ GoTo(c, "state") /\ UNCHANGED <<ipTries, acctTries>>
       \/ /\ GoTo(c, "record")
          /\ ipTries' = ipTries + 1 /\ acctTries' = acctTries + 1
    /\ UNCHANGED <<factor, orgRequire, ipCount, acctCount, locked, used, cookies, now,
                   history, requests, faults>>

(* Limiter.RecordFailure: both counters in one transaction, the lock in a   *)
(* second call.                                                             *)
MutLocks(n) == n = AcctLimit   \* Mutant: locks at the limit, not from it on.
Locks(n) == n >= AcctLimit

RecordFailure(c) ==
    /\ At(c, "record")
    /\ \/ /\ RedisAnswers
          /\ ipCount' = ipCount + 1 /\ acctCount' = acctCount + 1
          /\ IF Locks(acctCount + 1) THEN GoTo(c, "lock") ELSE End(c)
       \/ RedisFails /\ End(c) /\ UNCHANGED <<ipCount, acctCount>>
    /\ UNCHANGED <<factor, orgRequire, locked, ipTries, acctTries, used, cookies, now,
                   history, requests>>

SetLock(c) ==
    /\ At(c, "lock")
    /\ \/ RedisAnswers /\ locked' = TRUE
       \/ RedisFails /\ UNCHANGED locked
    /\ End(c)
    /\ UNCHANGED <<factor, orgRequire, ipCount, acctCount, ipTries, acctTries, used,
                   cookies, now, history, requests>>

(* MFAState after the right password: a pending token and no session, or    *)
(* the session.  The organization's policy lets an unenrolled user in.      *)
MutAsksCode == mfa.enabled /\ orgRequire   \* Mutant: only where the policy demands it.
AsksCode == mfa.enabled

ReadState(c) ==
    /\ At(c, "state")
    /\ \/ /\ AsksCode /\ End(c)
          /\ session' = session \ {c} /\ pending' = pending \cup {c}
       \/ /\ ~AsksCode
          /\ GoOn(c, [req[c] EXCEPT !.pc = "complete", !.by = "password"])
          /\ UNCHANGED cookies
    /\ UNCHANGED <<factor, orgRequire, limiter, used, now, history, requests, faults>>

(* completeLogin: the session, and Limiter.Reset.                           *)
Complete(c) ==
    /\ At(c, "complete")
    /\ session' = session \cup {c} /\ pending' = pending \ {c}
    /\ \/ RedisAnswers /\ acctCount' = 0 /\ locked' = FALSE /\ acctTries' = 0
       \/ RedisFails /\ UNCHANGED <<acctCount, locked, acctTries>>
    /\ End(c)
    /\ UNCHANGED <<factor, orgRequire, ipCount, ipTries, used, now, history, requests>>

(***************************************************************************)
(* One-time codes and recovery codes.                                      *)
(***************************************************************************)
Valid(code, secret) == code[1] = secret /\ code[2] \in now - Skew .. now + Skew

(* Limiter.Consume keeps a code for 90 seconds: SET NX with an expiry.      *)
MutConsumeTTL == 2   \* Mutant: the code's step and one neighbour.
ConsumeTTL == 3
Fresh(code) == \A k \in used : k.code # code

Accept(c, code, next) ==
    /\ accepted' = [accepted EXCEPT ![code] = @ + 1]
    /\ GoOn(c, [req[c] EXCEPT !.pc = next, !.code = code, !.by = "code", !.read = Off])

(* Validate against the secret the handler read, then Consume, which        *)
(* accepts the code when Redis does not answer.                             *)
Consume(c, code, next) ==
    /\ Valid(code, req[c].read.secret)
    /\ \/ /\ RedisAnswers /\ Fresh(code)
          /\ used' = used \cup {[code |-> code, until |-> now + ConsumeTTL]}
          /\ Accept(c, code, next)
       \/ RedisFails /\ Accept(c, code, next) /\ UNCHANGED used
       \/ RedisAnswers /\ ~Fresh(code) /\ End(c) /\ UNCHANGED <<used, accepted>>

(* burnRecoveryCode: UnusedRecoveryHashes finds the input's row, or not.    *)
MatchRecovery(c, next, otherwise) ==
    /\ \/ \E k \in recovery :
             GoOn(c, [req[c] EXCEPT !.pc = "burn", !.code = k, !.after = next,
                                    !.by = "recovery", !.read = Off])
       \/ IF otherwise = "idle" THEN End(c) ELSE GoTo(c, otherwise)
    /\ UNCHANGED <<used, accepted, faults>>

Unused(k) == k \in recovery

(* Store.BurnRecoveryCode; a code that is gone by now, or an error of the   *)
(* database, which has burned it or not, counts as no match.                *)
Burn(c) ==
    /\ At(c, "burn")
    /\ LET k == req[c].code IN
       \/ /\ Unused(k)
          /\ recovery' = recovery \ {k}
          /\ spent' = [spent EXCEPT ![k] = @ + 1]
          /\ GoTo(c, req[c].after)
       \/ /\ recovery' \in {recovery, recovery \ {k}} /\ UNCHANGED spent
          /\ IF req[c].after = "complete" THEN GoTo(c, "record") ELSE End(c)
    /\ UNCHANGED <<mfa, secrets, sets, orgRequire, limiter, used, cookies, now, accepted,
                   requests, faults>>

(***************************************************************************)
(* verify, enroll, activate, disable; reset and policy.                    *)
(***************************************************************************)
ReadFor(c, allowed, next) ==
    /\ \/ allowed /\ GoOn(c, [req[c] EXCEPT !.pc = next, !.read = mfa])
       \/ ~allowed /\ End(c)
    /\ UNCHANGED <<factor, orgRequire, limiter, used, cookies, now, history, requests, faults>>

VerifyMFA(c) ==
    At(c, "verify") /\ ReadFor(c, mfa.enabled /\ mfa.secret # NoSecret, "verifyCode")
ActivateMFA(c) == At(c, "activate") /\ ReadFor(c, mfa.secret # NoSecret, "activateCode")
DisableMFA(c) == At(c, "disable") /\ ReadFor(c, mfa.enabled /\ ~orgRequire, "disableCode")

VerifyCode(c) ==
    /\ At(c, "verifyCode")
    /\ \/ \E k \in Code : Consume(c, k, "complete")
       \/ MatchRecovery(c, "complete", "record")
    /\ UNCHANGED <<factor, orgRequire, limiter, cookies, now, spent, requests>>

ActivateCode(c) ==
    /\ At(c, "activateCode")
    /\ \/ \E k \in Code : Consume(c, k, "enable")
       \/ End(c) /\ UNCHANGED <<used, accepted, faults>>
    /\ UNCHANGED <<factor, orgRequire, limiter, cookies, now, spent, requests>>

(* disableMFA validates a code without consuming it.                        *)
DisableCode(c) ==
    /\ At(c, "disableCode")
    /\ \/ /\ \E k \in Code : Valid(k, req[c].read.secret)
          /\ GoTo(c, "clear") /\ UNCHANGED <<used, accepted, faults>>
       \/ MatchRecovery(c, "clear", "idle")
    /\ UNCHANGED <<factor, orgRequire, limiter, cookies, now, spent, requests>>

(* enrollMFA: StagePendingSecret overwrites secret and switch.              *)
Enroll(c) ==
    /\ At(c, "stage") /\ secrets < MaxSecrets
    /\ secrets' = secrets + 1
    /\ mfa' = [enabled |-> FALSE, secret |-> secrets + 1]
    /\ Write({c})
    /\ UNCHANGED <<recovery, sets, orgRequire, limiter, used, cookies, now, history,
                   requests, faults>>

(* Store.ActivateMFA: switched on if there is still a secret; the recovery  *)
(* codes are replaced in any case.                                          *)
MutSwitchedOn == TRUE   \* Mutant: without totp_secret IS NOT NULL.
SwitchedOn == mfa.secret # NoSecret

Enable(c) ==
    /\ At(c, "enable") /\ sets < MaxSets
    /\ sets' = sets + 1 /\ recovery' = Issued(sets + 1)
    /\ mfa' = [mfa EXCEPT !.enabled = @ \/ SwitchedOn]
    /\ Write({c})
    /\ UNCHANGED <<secrets, orgRequire, limiter, used, cookies, now, history, requests,
                   faults>>

(* Store.DisableMFA.                                                        *)
Cleared == mfa' = Off /\ recovery' = {} /\ UNCHANGED <<secrets, sets>>

Disable(c) ==
    /\ At(c, "clear")
    /\ Cleared /\ Write({c})
    /\ UNCHANGED <<orgRequire, limiter, used, cookies, now, history, requests, faults>>

ResetByAdmin ==
    /\ requests < MaxRequests /\ requests' = requests + 1
    /\ Cleared /\ Write({})
    /\ UNCHANGED <<orgRequire, limiter, used, cookies, now, history, faults>>

SetPolicy ==
    /\ requests < MaxRequests /\ requests' = requests + 1
    /\ orgRequire' = ~orgRequire
    /\ UNCHANGED <<factor, limiter, used, req, cookies, now, history, faults>>

Logout(c) ==
    /\ c \in session /\ session' = session \ {c}
    /\ UNCHANGED <<factor, orgRequire, limiter, used, req, pending, now, history, requests, faults>>

----------------------------------------------------------------------------
(* Time.                                                                    *)

Tick ==
    /\ now < MaxTime /\ now' = now + 1
    /\ used' = {k \in used : k.until > now'}
    /\ UNCHANGED <<factor, orgRequire, limiter, req, cookies, history, requests, faults>>

IpWindowEnds ==
    /\ ipCount > 0 /\ ipCount' = 0 /\ ipTries' = 0
    /\ UNCHANGED <<factor, orgRequire, acctCount, locked, acctTries, used, req, cookies,
                   now, history, requests, faults>>

AcctWindowEnds ==
    /\ acctCount > 0 /\ acctCount' = 0 /\ acctTries' = 0
    /\ UNCHANGED <<factor, orgRequire, ipCount, locked, ipTries, used, req, cookies,
                   now, history, requests, faults>>

(* The lock ends and the count stays.                                       *)
LockEnds ==
    /\ locked /\ locked' = FALSE /\ acctTries' = 0
    /\ UNCHANGED <<factor, orgRequire, ipCount, acctCount, ipTries, used, req, cookies,
                   now, history, requests, faults>>

(* The pending token's five minutes are over.                               *)
PendingEnds(c) ==
    /\ c \in pending /\ pending' = pending \ {c}
    /\ UNCHANGED <<factor, orgRequire, limiter, used, req, session, now, history, requests, faults>>

Next ==
    \/ \E c \in Client :
          \/ Arrive(c) \/ GiveUp(c)
          \/ Check(c) \/ CheckLock(c) \/ Password(c) \/ RecordFailure(c) \/ SetLock(c)
          \/ ReadState(c) \/ Complete(c) \/ Burn(c)
          \/ VerifyMFA(c) \/ VerifyCode(c) \/ Enroll(c)
          \/ ActivateMFA(c) \/ ActivateCode(c) \/ Enable(c)
          \/ DisableMFA(c) \/ DisableCode(c) \/ Disable(c)
          \/ Logout(c) \/ PendingEnds(c)
    \/ ResetByAdmin \/ SetPolicy
    \/ Tick \/ IpWindowEnds \/ AcctWindowEnds \/ LockEnds

Spec == Init /\ [][Next]_vars

----------------------------------------------------------------------------
(* Properties.                                                              *)

(* Every variable has its type.                                             *)
TypeOK ==
    /\ mfa \in State /\ recovery \subseteq RecoveryCode /\ orgRequire \in BOOLEAN
    /\ ipCount \in 0 .. MaxRequests /\ acctCount \in 0 .. MaxRequests
    /\ locked \in BOOLEAN
    /\ used \subseteq [code : Code, until : 1 .. MaxTime + 3]
    /\ req \in [Client -> [pc : Places, read : State,
                           code : Code \cup RecoveryCode \cup {<<0, 0>>},
                           after : {"idle", "complete", "clear"},
                           by : {"none", "password", "code", "recovery"},
                           seen : SUBSET State]]
    /\ session \subseteq Client /\ pending \subseteq Client
    /\ now \in 0 .. MaxTime /\ secrets \in 0 .. MaxSecrets /\ sets \in 0 .. MaxSets
    /\ ipTries \in 0 .. MaxRequests /\ acctTries \in 0 .. MaxRequests
    /\ accepted \in [Code -> Nat] /\ spent \in [RecoveryCode -> Nat]
    /\ requests \in 0 .. MaxRequests /\ faults \in 0 .. MaxFaults

(* In one window of its counter, an address tries at most ipLimit wrong     *)
(* passwords, and one more for every other request that had passed the      *)
(* check already, or whose failure Redis did not record (Check and          *)
(* RecordFailure are separate calls).  Between two locks of the account, or *)
(* since its counter was cleared, the same holds with acctLimit: a lock     *)
(* that ends leaves the count, and the next failure locks again             *)
(* (RecordFailure's >=).                                                    *)
FailureBudgets ==
    LET slack == Cardinality(Client) - 1 + faults IN
    ipTries <= IpLimit + slack /\ acctTries <= AcctLimit + slack

(* A one-time code is accepted once, by login or by activation, over the    *)
(* whole time it is valid, unless Redis failed (Consume's 90 seconds        *)
(* against three steps); a recovery code is accepted once, whatever         *)
(* requests race for it, and none of a replaced set is accepted.            *)
CodesOnce ==
    /\ \A k \in Code : accepted[k] <= 1 + faults
    /\ \A k \in RecoveryCode : spent[k] <= 1
    /\ \A k \in recovery : spent[k] = 0 /\ k[1] = sets

(* A second factor that is on has a secret to check codes against: an       *)
(* activation that races a reset or a disable does not lock the user out.   *)
EnabledHasSecret == mfa.enabled => mfa.secret # NoSecret

(* A session rests on what the account asked for while the request ran: on  *)
(* a password alone only if the second factor was off at some moment of it, *)
(* on a code only if it was on with that code's secret.                     *)
SessionRestsOnFactor ==
    [][\A c \in Client : (At(c, "complete") /\ c \in session' /\ c \notin session) =>
          CASE req[c].by = "password" -> \E m \in req[c].seen : ~m.enabled
            [] req[c].by = "code" -> \E m \in req[c].seen : m.enabled /\ m.secret = req[c].code[1]
            [] OTHER -> \E m \in req[c].seen : m.enabled]_vars

(* The second factor goes off by a disable, which has seen a code, or by an *)
(* admin's reset (disableMFA's promise that it cannot be stripped quietly,  *)
(* enrollMFA's that abandoning an enrolment changes nothing).               *)
OnUntilProof ==
    [][(mfa.enabled /\ ~mfa'.enabled) => (ResetByAdmin \/ \E c \in Client : Disable(c))]_vars
=============================================================================
