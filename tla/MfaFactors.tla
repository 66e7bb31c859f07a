----------------------------- MODULE MfaFactors -----------------------------
(***************************************************************************)
(* The second factor of one account: TOTP codes, recovery codes, the       *)
(* challenge between password and code, the lock on wrong codes            *)
(* (src/app/main.py, the /api/auth/mfa routes and step-up).                *)
(*                                                                         *)
(* Handlers that need a bearer hold the account lock to the end and are    *)
(* one step each.  mfa_verify has no bearer: it reads the denylist and the *)
(* account without a lock, decides, and then claims what it found with a   *)
(* conditional UPDATE, so it takes three steps.  Passwords, bearers and    *)
(* rate limits are checked before the steps below; a refusal changes       *)
(* nothing here.                                                           *)
(***************************************************************************)
EXTENDS Naturals, FiniteSets

CONSTANTS
    Requests,        \* mfa_verify calls in progress at once
    Challenges,      \* mfa_token ids
    Codes,           \* recovery codes
    NoFactor,        \* a code that matches nothing
    NoChallenge,     \* a request that is idle
    RecoveryCodes,   \* codes handed out by an activation (mfa_recovery_codes)
    LockoutAttempts, \* mfa_lockout_attempts
    LockoutTime,     \* login_lockout_seconds, in TOTP periods
    MaxLockoutTime,  \* mfa_lockout_max_seconds, in TOTP periods
    ChallengeLife,   \* mfa_challenge_minutes, in TOTP periods
    Start,           \* the TOTP counter when the account is made
    MaxTime,         \* bound: the last TOTP counter
    MaxSecrets,      \* bound: enrolments
    MaxVersion,      \* bound: token_version
    MaxFailed        \* bound: wrong codes in a row

Window == 1          \* valid_window of TotpService.verify

Totps    == [secret : 1..MaxSecrets, counter : 1..(MaxTime + Window)]
Factors  == Totps \cup Codes

ASSUME MfaAssumption ==
    /\ Totps \cap Codes = {} /\ NoFactor \notin Factors
    /\ NoChallenge \notin Challenges
    /\ LockoutAttempts \in Nat \ {0}
    /\ {RecoveryCodes, LockoutTime, MaxLockoutTime, ChallengeLife, Start, MaxTime,
        MaxSecrets, MaxVersion, MaxFailed} \subseteq Nat
    /\ Window < Start /\ Start <= MaxTime

\* Arithmetic for the proofs, whose provers do not know the powers of two.
ASSUME PowersOfTwo == \A d \in 0..16 : 2^d \in Nat

VARIABLES
    now,             \* time, in TOTP periods
    acct,            \* the account row
    code,            \* mfa_recovery_codes
    challenge,       \* minted mfa_tokens, and whether revoked_tokens has them
    req,             \* mfa_verify calls between two of their statements
    secrets,         \* history: secrets generated so far
    accepted,        \* history: how often each factor was accepted
    opened,          \* history: sessions each challenge opened
    inRow            \* history: wrong codes since the last lock or reset

vars == <<now, acct, code, challenge, req, secrets, accepted, opened, inRow>>

Account  == [active : BOOLEAN, enabled : BOOLEAN, ver : Nat, pw : Nat,
             secret : 0..MaxSecrets, last : Nat, failed : Nat, lockedUntil : Nat]
Challenge == [state : {"new", "open", "used"}, ver : Nat, pw : Nat, exp : Nat]
Request  == [pc : {"idle", "account", "claim", "recover", "miss"},
             chal : Challenges \cup {NoChallenge}, factor : Factors \cup {NoFactor},
             failed : Nat, familiar : BOOLEAN]

TypeOK ==
    /\ now \in Start..MaxTime
    /\ acct \in Account
    /\ acct.enabled => acct.secret # 0
    /\ acct.secret <= secrets
    /\ code \in [Codes -> {"new", "unused", "used", "deleted"}]
    /\ challenge \in [Challenges -> Challenge]
    /\ req \in [Requests -> Request]
    /\ \A r \in Requests : /\ req[r].pc # "idle" => req[r].chal \in Challenges
                           /\ req[r].pc = "claim" => req[r].factor \in Totps
                           /\ req[r].pc = "recover" => req[r].factor \in Codes
    /\ secrets \in 0..MaxSecrets
    /\ accepted \in [Factors -> Nat]
    /\ opened \in [Challenges -> Nat]
    /\ inRow \in Nat

Idle == [pc |-> "idle", chal |-> NoChallenge, factor |-> NoFactor, failed |-> 0,
         familiar |-> FALSE]

\* A registered account, signed in, without a second factor.
Init ==
    /\ now = Start
    /\ acct = [active |-> TRUE, enabled |-> FALSE, ver |-> 1, pw |-> 1, secret |-> 0,
               last |-> 0, failed |-> 0, lockedUntil |-> 0]
    /\ code = [k \in Codes |-> "new"]
    /\ challenge = [c \in Challenges |-> [state |-> "new", ver |-> 1, pw |-> 1, exp |-> 0]]
    /\ req = [r \in Requests |-> Idle]
    /\ secrets = 0
    /\ accepted = [f \in Factors |-> 0]
    /\ opened = [c \in Challenges |-> 0]
    /\ inRow = 0

-----------------------------------------------------------------------------
(* What a presented code is worth.                                         *)

\* TotpService.verify: the code of this secret for a period near now, and later
\* than the last one accepted.
Matches(f) ==
    /\ f \in Totps
    /\ f.secret = acct.secret
    /\ now - Window <= f.counter /\ f.counter <= now + Window
    /\ acct.last < f.counter

Unused(f) == f \in Codes /\ code[f] = "unused"

MfaLocked == acct.lockedUntil > now

\* claim_totp_counter and consume_recovery_code under the account lock.
Redeem(f) ==
    /\ Matches(f) \/ Unused(f)
    /\ code' = [k \in Codes |-> IF k = f THEN "used" ELSE code[k]]
    /\ accepted' = [accepted EXCEPT ![f] = @ + 1]

LastAfter(f) == IF f \in Totps THEN f.counter ELSE acct.last

-----------------------------------------------------------------------------
(* Handlers under the account lock.                                        *)

\* mfa_enroll: a new secret, pending until a code proves it.
MfaEnroll ==
    /\ acct.active /\ ~acct.enabled
    /\ secrets < MaxSecrets
    /\ secrets' = secrets + 1
    /\ acct' = [acct EXCEPT !.secret = secrets + 1]
    /\ UNCHANGED <<now, code, challenge, req, accepted, opened, inRow>>

\* mfa_activate: the pending secret is proved, recovery codes are made, every
\* session ends.
MfaActivate(f, K) ==
    /\ acct.active /\ ~acct.enabled
    /\ acct.ver < MaxVersion
    /\ Matches(f)
    /\ \A k \in K : code[k] = "new"
    /\ Cardinality(K) = RecoveryCodes
    /\ acct' = [acct EXCEPT !.enabled = TRUE, !.last = f.counter, !.failed = 0,
                            !.lockedUntil = 0, !.ver = acct.ver + 1]
    /\ code' = [k \in Codes |-> IF k \in K THEN "unused" ELSE code[k]]
    /\ accepted' = [accepted EXCEPT ![f] = @ + 1]
    /\ inRow' = 0
    /\ UNCHANGED <<now, challenge, req, secrets, opened>>

Disabled == [acct EXCEPT !.enabled = FALSE, !.secret = 0, !.last = 0, !.failed = 0,
                         !.lockedUntil = 0, !.ver = acct.ver + 1]

\* mfa_disable, with the password and a second factor.  A denial by policy
\* rolls the factor back.
MfaDisable(f) ==
    /\ acct.active /\ acct.enabled
    /\ acct.ver < MaxVersion
    /\ Matches(f) \/ Unused(f)
    /\ acct' = Disabled
    /\ code' = [k \in Codes |-> IF code[k] = "new" THEN "new" ELSE "deleted"]
    /\ accepted' = [accepted EXCEPT ![f] = @ + 1]
    /\ inRow' = 0
    /\ UNCHANGED <<now, challenge, req, secrets, opened>>

\* step_up_authentication of an account with a second factor.
StepUp(f) ==
    /\ acct.active /\ acct.enabled
    /\ Redeem(f)
    /\ acct' = [acct EXCEPT !.last = LastAfter(f)]
    /\ UNCHANGED <<now, challenge, req, secrets, opened, inRow>>

\* change_password: whoever guesses codes no longer knows the password.
ChangePassword ==
    /\ acct.active
    /\ acct.ver < MaxVersion
    /\ acct' = [acct EXCEPT !.pw = acct.pw + 1, !.ver = acct.ver + 1, !.failed = 0,
                            !.lockedUntil = 0]
    /\ inRow' = 0
    /\ UNCHANGED <<now, code, challenge, req, secrets, accepted, opened>>

\* confirm_password_reset: a mailbox is not a second factor, the lock stays.
ConfirmPasswordReset ==
    /\ acct.active
    /\ acct.ver < MaxVersion
    /\ acct' = [acct EXCEPT !.pw = acct.pw + 1, !.ver = acct.ver + 1]
    /\ UNCHANGED <<now, code, challenge, req, secrets, accepted, opened, inRow>>

\* update_user_status: suspension and reactivation both end every session.
UpdateUserStatus(active) ==
    /\ acct.active # active
    /\ acct.ver < MaxVersion
    /\ acct' = [acct EXCEPT !.active = active, !.ver = acct.ver + 1]
    /\ UNCHANGED <<now, code, challenge, req, secrets, accepted, opened, inRow>>

\* login with the right password: a challenge instead of a session.
Login(c) ==
    /\ acct.active /\ acct.enabled
    /\ challenge[c].state = "new"
    /\ challenge' = [challenge EXCEPT ![c] = [state |-> "open", ver |-> acct.ver, pw |-> acct.pw,
                                              exp |-> now + ChallengeLife]]
    /\ UNCHANGED <<now, acct, code, req, secrets, accepted, opened, inRow>>

-----------------------------------------------------------------------------
(* mfa_verify.                                                             *)

\* The challenge is decoded and looked up in the denylist.
PresentChallenge(r, c) ==
    /\ req[r].pc = "idle"
    /\ challenge[c].state = "open" /\ now < challenge[c].exp
    /\ req' = [req EXCEPT ![r] = [Idle EXCEPT !.pc = "account", !.chal = c]]
    /\ UNCHANGED <<now, acct, code, challenge, secrets, accepted, opened, inRow>>

\* The account is read, without a lock; the lock on wrong codes is looked at,
\* for unfamiliar sources; the code is compared.
ReadAccount(r, f, familiar) ==
    /\ req[r].pc = "account"
    /\ acct.active /\ acct.enabled /\ acct.ver = challenge[req[r].chal].ver
    /\ familiar \/ ~MfaLocked
    /\ \/ f = NoFactor /\ req' = [req EXCEPT ![r].pc = "miss", ![r].failed = acct.failed,
                                             ![r].familiar = familiar]
       \/ /\ Matches(f) \/ Unused(f)
          /\ req' = [req EXCEPT ![r].pc = IF f \in Totps THEN "claim" ELSE "recover",
                                ![r].factor = f, ![r].failed = acct.failed,
                                ![r].familiar = familiar]
    /\ UNCHANGED <<now, acct, code, challenge, secrets, accepted, opened, inRow>>

\* Mutation of SameAccount: token_version is not compared.
StillEnabled(r) == acct.enabled

\* The WHERE clauses of claim_totp_counter and of claim_mfa_account_version
\* with the recovery code's UPDATE.
SameAccount(r) == acct.enabled /\ acct.ver = challenge[req[r].chal].ver

\* Mutation of Claimable: the counter is not compared again by the UPDATE.
ClaimOnRead(r) == SameAccount(r)

Claimable(r) ==
    /\ SameAccount(r)
    /\ IF req[r].pc = "claim" THEN acct.last < req[r].factor.counter
                              ELSE code[req[r].factor] = "unused"

\* The unique key of revoked_tokens.
NotReplayed(r) == challenge[req[r].chal].state = "open"

\* user.mfa_failed_attempts = 0 is written only if the value read was not 0
\* already, so a wrong code that commits after the read is not forgotten.
FailedAfter(r) == IF req[r].failed = 0 THEN acct.failed ELSE 0

\* The factor is claimed, the challenge goes to the denylist, the session is
\* issued, in one transaction.
SignIn(r) ==
    LET c == req[r].chal
        f == req[r].factor
    IN  /\ req[r].pc \in {"claim", "recover"}
        /\ Claimable(r)
        /\ NotReplayed(r)
        /\ acct' = [acct EXCEPT !.last = LastAfter(f), !.failed = FailedAfter(r)]
        /\ code' = [k \in Codes |-> IF k = f THEN "used" ELSE code[k]]
        /\ challenge' = [challenge EXCEPT ![c].state = "used"]
        /\ req' = [req EXCEPT ![r] = Idle]
        /\ accepted' = [accepted EXCEPT ![f] = @ + 1]
        /\ opened' = [opened EXCEPT ![c] = @ + 1]
        /\ inRow' = 0
        /\ UNCHANGED <<now, secrets>>

\* Mutation of FailedNow: the count is raised in the program.
FailedOnRead(r) == req[r].failed + 1

\* record_mfa_failure counts in the database ...
FailedNow(r) == acct.failed + 1

\* ... and every multiple of LockoutAttempts locks, for twice as long each time.
LockSeconds(n) ==
    LET locks     == n \div LockoutAttempts
        doublings == IF locks > 16 THEN 16 ELSE locks - 1
        length    == LockoutTime * 2^doublings
    IN  IF length < MaxLockoutTime THEN length ELSE MaxLockoutTime

\* No factor matched, or a recovery code that matched could not be claimed.
RecordMfaFailure(r) ==
    LET n     == FailedNow(r)
        locks == n % LockoutAttempts = 0
    IN  /\ \/ req[r].pc = "miss"
           \/ req[r].pc = "recover" /\ ~Claimable(r)
        /\ n <= MaxFailed
        /\ acct' = [acct EXCEPT !.failed = n,
                                !.lockedUntil = IF locks THEN now + LockSeconds(n)
                                                         ELSE acct.lockedUntil]
        /\ req' = [req EXCEPT ![r] = Idle]
        /\ inRow' = IF locks THEN 0 ELSE inRow + 1
        /\ UNCHANGED <<now, code, challenge, secrets, accepted, opened>>

\* A TOTP claim that updates no row, a challenge that is already in the
\* denylist, any refusal and any lost worker: nothing is committed.
Abandon(r) ==
    /\ req[r].pc # "idle"
    /\ req' = [req EXCEPT ![r] = Idle]
    /\ UNCHANGED <<now, acct, code, challenge, secrets, accepted, opened, inRow>>

-----------------------------------------------------------------------------

\* enforce_retention forgets an expired challenge: its row leaves the denylist.
Sweep(c) ==
    /\ challenge[c].state = "used" /\ challenge[c].exp <= now
    /\ challenge' = [challenge EXCEPT ![c].state = "open"]
    /\ UNCHANGED <<now, acct, code, req, secrets, accepted, opened, inRow>>

Tick ==
    /\ now < MaxTime
    /\ now' = now + 1
    /\ UNCHANGED <<acct, code, challenge, req, secrets, accepted, opened, inRow>>

Next ==
    \/ Tick \/ MfaEnroll \/ ChangePassword \/ ConfirmPasswordReset
    \/ \E active \in BOOLEAN : UpdateUserStatus(active)
    \/ \E f \in Totps, K \in SUBSET Codes : MfaActivate(f, K)
    \/ \E f \in Factors : MfaDisable(f) \/ StepUp(f)
    \/ \E c \in Challenges : Login(c) \/ Sweep(c)
    \/ \E r \in Requests, c \in Challenges : PresentChallenge(r, c)
    \/ \E r \in Requests, f \in Factors \cup {NoFactor}, familiar \in BOOLEAN :
          ReadAccount(r, f, familiar)
    \/ \E r \in Requests : SignIn(r) \/ RecordMfaFailure(r) \/ Abandon(r)

Spec == Init /\ [][Next]_vars

-----------------------------------------------------------------------------
(* Properties.                                                             *)

\* claim_totp_counter promises that a time step is consumed once "across
\* concurrent requests", and consume_recovery_code burns what it accepts: no
\* factor is accepted twice, by whichever of activation, sign-in, step-up and
\* disabling, through any re-enrolment.
FactorWorksOnce == \A f \in Factors : accepted[f] <= 1

\* mfa_verify: "Two valid factors racing on one challenge must produce one
\* login".  It does as long as the challenge lasts; afterwards the sweep may
\* have forgotten that it was used while a request still holds it.
ChallengeOpensOnce ==
    \A c \in Challenges : now < challenge[c].exp => opened[c] <= 1

\* A session is opened under the password that was proved, for an active
\* account, with a factor of its present enrolment, although all three were
\* checked without a lock.
SignInIsCurrent ==
    [][\A r \in Requests : SignIn(r) =>
          /\ acct.active
          /\ challenge[req[r].chal].pw = acct.pw
          /\ req[r].factor \in Totps => req[r].factor.secret = acct.secret]_vars

\* record_mfa_failure: "every Nth consecutive one locks the account", however
\* many requests guess at once.
NthFailureLocks == inRow < LockoutAttempts

\* tests/test_mfa_lockout.py: "While locked even the right code is refused to a
\* stranger, and not consumed."
LockedRefusesStrangers ==
    [][\A r \in Requests : SignIn(r) /\ ~req[r].familiar => ~MfaLocked]_vars

\* Neither a factor nor the challenge of a password step proves a sign-in twice
\* (mfa_verify, verify_and_consume_mfa and the denylist).
ProofsWorkOnce == FactorWorksOnce /\ ChallengeOpensOnce

-----------------------------------------------------------------------------
(* The inductive invariant behind the properties above.                    *)

\* A code that was accepted is behind the counter of its secret, and a secret
\* is never drawn again.
AcceptedTotpIsBehind ==
    \A f \in Totps : accepted[f] # 0 =>
        /\ accepted[f] = 1
        /\ f.secret <= secrets
        /\ f.secret = acct.secret => f.counter <= acct.last

AcceptedCodeIsSpent ==
    \A k \in Codes : accepted[k] # 0 => accepted[k] = 1 /\ code[k] \in {"used", "deleted"}

\* A challenge that still has the account's version was issued for the account
\* as it is.
ChallengeIsCurrent ==
    \A c \in Challenges : challenge[c].state # "new" =>
        /\ challenge[c].ver <= acct.ver
        /\ challenge[c].ver = acct.ver =>
              acct.active /\ acct.enabled /\ challenge[c].pw = acct.pw

\* What a request matched is of the account's present secret, unless the version
\* has changed since.
MatchIsCurrent ==
    \A r \in Requests :
        /\ req[r].pc # "idle" => challenge[req[r].chal].state # "new"
        /\ req[r].pc = "claim" /\ challenge[req[r].chal].ver = acct.ver =>
              req[r].factor.secret = acct.secret

\* An unexpired challenge that has opened a session is in the denylist.
OpenedIsUsed ==
    \A c \in Challenges :
        /\ challenge[c].state = "new" => opened[c] = 0
        /\ now < challenge[c].exp => IF challenge[c].state = "used" THEN opened[c] <= 1
                                                                   ELSE opened[c] = 0

\* The counter in the database is never behind the wrong codes in a row.
RowIsCounted == inRow <= acct.failed % LockoutAttempts

IInv ==
    /\ TypeOK
    /\ AcceptedTotpIsBehind /\ AcceptedCodeIsSpent
    /\ ChallengeIsCurrent /\ MatchIsCurrent /\ OpenedIsUsed
    /\ RowIsCounted
=============================================================================
