-------------------------- MODULE MfaFactors_proofs --------------------------
(***************************************************************************)
(* Proofs about how an account is signed in to, recovered and alerted:     *)
(* MfaFactors, Passkeys, LoginGuard, UiTokens, AccountRecovery with Mailer *)
(* and Notices, for any requests, challenges, codes, keys, networks, tabs, *)
(* mails, phones, subscriptions and limits.                                *)
(***************************************************************************)
EXTENDS MfaFactors, Passkeys, LoginGuard, UiTokens, AccountRecovery, Notices,
        FiniteSetTheorems, SequenceTheorems, WellFoundedInduction, TLAPS

\* The next number's remainder is one more, unless it is zero.
LEMMA NextRemainder ==
  ASSUME NEW n \in Nat \ {0}, NEW a \in Nat
  PROVE  (a + 1) % n = 0 \/ (a + 1) % n = (a % n) + 1
<1> DEFINE q == a \div n
           s == a % n
<1>1. q \in Nat /\ s \in 0..(n - 1) /\ a = n * q + s
  OBVIOUS
<1>2. ASSUME NEW p \in Nat, NEW t \in Nat, t < n
      PROVE  (n * p + t) % n = t
  BY <1>2
<1>3. CASE s + 1 < n
  <2>1. a + 1 = n * q + (s + 1)
    BY <1>1
  <2>2. (n * q + (s + 1)) % n = s + 1
    BY <1>1, <1>2, <1>3
  <2> QED  BY <2>1, <2>2
<1>4. CASE s + 1 = n
  <2>1. a + 1 = n * (q + 1) + 0
    BY <1>1, <1>4
  <2> QED  BY <1>1, <1>2, <2>1
<1> QED  BY <1>1, <1>3, <1>4

\* The length of a lock is a number.
LEMMA LockIsFinite ==
  ASSUME NEW n \in Nat \ {0}, n % LockoutAttempts = 0
  PROVE  LockSeconds(n) \in Nat
<1> DEFINE l == n \div LockoutAttempts
           d == IF l > 16 THEN 16 ELSE l - 1
<1>1. l \in Nat /\ n = LockoutAttempts * l
  BY MfaAssumption
<1>2. l # 0
  BY <1>1, MfaAssumption
<1>3. d \in 0..16
  BY <1>1, <1>2
<1>4. 2^d \in Nat
  BY <1>3, PowersOfTwo
<1>5. LockoutTime * 2^d \in Nat
  BY <1>4, MfaAssumption
<1> QED  BY <1>5, MfaAssumption DEF LockSeconds

\* The inductive invariant holds of every behaviour: one step per handler of
\* src/app/main.py, and under it the parts that the handler can disturb.
THEOREM Invariance == Spec => []IInv
<1>1. Init => IInv
  BY MfaAssumption DEF Init, IInv, TypeOK, Account, Challenge, Request, Idle, Totps,
     Factors, Window,
     AcceptedTotpIsBehind, AcceptedCodeIsSpent, ChallengeIsCurrent, MatchIsCurrent,
        OpenedIsUsed, RowIsCounted
<1>2. IInv /\ [Next]_vars => IInv'
  <2> SUFFICES ASSUME IInv, [Next]_vars PROVE IInv'
    OBVIOUS
  <2> USE MfaAssumption
  <2>1. CASE Tick
    <3>1. OpenedIsUsed'
      BY <2>1 DEF Tick, IInv, OpenedIsUsed, TypeOK, Challenge
    <3>2. TypeOK' /\ AcceptedTotpIsBehind' /\ AcceptedCodeIsSpent' /\ ChallengeIsCurrent' /\
          MatchIsCurrent' /\ RowIsCounted'
      BY <2>1 DEF Tick, IInv, TypeOK, AcceptedTotpIsBehind, AcceptedCodeIsSpent,
         ChallengeIsCurrent, MatchIsCurrent, RowIsCounted
    <3> QED  BY <3>1, <3>2 DEF IInv
  <2>2. CASE MfaEnroll
    <3>1. TypeOK'
      BY <2>2 DEF MfaEnroll, IInv, TypeOK, Account
    <3>2. AcceptedTotpIsBehind'
      BY <2>2 DEF MfaEnroll, IInv, AcceptedTotpIsBehind, TypeOK, Totps
    <3>3. MatchIsCurrent'
      BY <2>2 DEF MfaEnroll, IInv, MatchIsCurrent, ChallengeIsCurrent, TypeOK
    <3>4. AcceptedCodeIsSpent' /\ ChallengeIsCurrent' /\ OpenedIsUsed' /\ RowIsCounted'
      BY <2>2 DEF MfaEnroll, IInv, AcceptedCodeIsSpent, ChallengeIsCurrent, OpenedIsUsed,
         RowIsCounted
    <3> QED  BY <3>1, <3>2, <3>3, <3>4 DEF IInv
  <2>3. CASE ChangePassword
    <3>1. TypeOK'
      <4>1. acct.ver + 1 \in Nat /\ acct.pw + 1 \in Nat
        BY DEF IInv, TypeOK, Account
      <4>2. acct' \in Account /\ (acct'.enabled => acct'.secret # 0) /\
            acct'.secret <= secrets
        BY <2>3, <4>1 DEF ChangePassword, IInv, TypeOK, Account
      <4> QED  BY <2>3, <4>2 DEF ChangePassword, IInv, TypeOK, Challenge, Request
    <3>2. ChallengeIsCurrent'
      BY <2>3 DEF ChangePassword, IInv, ChallengeIsCurrent, TypeOK, Account, Challenge
    <3>3. MatchIsCurrent'
      BY <2>3 DEF ChangePassword, IInv, MatchIsCurrent, ChallengeIsCurrent, TypeOK, Account
    <3>4. AcceptedTotpIsBehind' /\ AcceptedCodeIsSpent' /\ OpenedIsUsed' /\ RowIsCounted'
      BY <2>3 DEF ChangePassword, IInv, AcceptedTotpIsBehind, AcceptedCodeIsSpent,
         OpenedIsUsed, RowIsCounted
    <3> QED  BY <3>1, <3>2, <3>3, <3>4 DEF IInv
  <2>4. CASE ConfirmPasswordReset
    <3>1. TypeOK'
      <4>1. acct.ver + 1 \in Nat /\ acct.pw + 1 \in Nat
        BY DEF IInv, TypeOK, Account
      <4>2. acct' \in Account /\ (acct'.enabled => acct'.secret # 0) /\
            acct'.secret <= secrets
        BY <2>4, <4>1 DEF ConfirmPasswordReset, IInv, TypeOK, Account
      <4> QED  BY <2>4, <4>2 DEF ConfirmPasswordReset, IInv, TypeOK, Challenge, Request
    <3>2. ChallengeIsCurrent'
      BY <2>4 DEF ConfirmPasswordReset, IInv, ChallengeIsCurrent, TypeOK, Account, Challenge
    <3>3. MatchIsCurrent'
      BY <2>4 DEF ConfirmPasswordReset, IInv, MatchIsCurrent, ChallengeIsCurrent, TypeOK,
         Account
    <3>4. AcceptedTotpIsBehind' /\ AcceptedCodeIsSpent' /\ OpenedIsUsed' /\ RowIsCounted'
      BY <2>4 DEF ConfirmPasswordReset, IInv, AcceptedTotpIsBehind, AcceptedCodeIsSpent,
         OpenedIsUsed, RowIsCounted
    <3> QED  BY <3>1, <3>2, <3>3, <3>4 DEF IInv
  <2>5. ASSUME NEW active \in BOOLEAN, UpdateUserStatus(active)
        PROVE  IInv'
    <3>1. TypeOK'
      <4>1. acct.ver + 1 \in Nat /\ acct.pw + 1 \in Nat
        BY DEF IInv, TypeOK, Account
      <4>3. acct' \in Account
        BY <2>5, <4>1 DEF UpdateUserStatus, IInv, TypeOK, Account
      <4>4. (acct'.enabled => acct'.secret # 0) /\ acct'.secret <= secrets
        BY <2>5 DEF UpdateUserStatus, IInv, TypeOK, Account
      <4> QED  BY <2>5, <4>3, <4>4 DEF UpdateUserStatus, IInv, TypeOK, Challenge, Request
    <3>2. ChallengeIsCurrent'
      BY <2>5 DEF UpdateUserStatus, IInv, ChallengeIsCurrent, TypeOK, Account, Challenge
    <3>3. MatchIsCurrent'
      BY <2>5 DEF UpdateUserStatus, IInv, MatchIsCurrent, ChallengeIsCurrent, TypeOK,
         Account
    <3>4. AcceptedTotpIsBehind' /\ AcceptedCodeIsSpent' /\ OpenedIsUsed' /\ RowIsCounted'
      BY <2>5 DEF UpdateUserStatus, IInv, AcceptedTotpIsBehind, AcceptedCodeIsSpent,
         OpenedIsUsed, RowIsCounted
    <3> QED  BY <3>1, <3>2, <3>3, <3>4 DEF IInv
  <2>6. ASSUME NEW f \in Totps, NEW K \in SUBSET Codes, MfaActivate(f, K)
        PROVE  IInv'
    <3>1. TypeOK'
      <4>1. acct \in Account /\ acct.ver + 1 \in Nat /\ f.counter \in Nat
        BY <2>6 DEF IInv, TypeOK, Account, Totps, Window
      <4>2. ASSUME NEW b \in BOOLEAN
            PROVE  [acct EXCEPT !.enabled = b, !.last = f.counter, !.failed = 0,
                                !.lockedUntil = 0, !.ver = acct.ver + 1] \in Account
        BY <4>1 DEF Account
      <4>3. acct' \in Account
        BY <2>6, <4>2, TRUE \in BOOLEAN DEF MfaActivate
      <4>4. (acct'.enabled => acct'.secret # 0) /\ acct'.secret <= secrets
        BY <2>6 DEF MfaActivate, IInv, TypeOK, Account, Matches, Totps
      <4> QED  BY <2>6, <4>3, <4>4 DEF MfaActivate, Factors, IInv, TypeOK, Challenge,
         Request
    <3>2. AcceptedTotpIsBehind'
      BY <2>6 DEF MfaActivate, Matches, IInv, AcceptedTotpIsBehind, TypeOK, Account, Totps
    <3>3. ChallengeIsCurrent'
      BY <2>6 DEF MfaActivate, Matches, IInv, ChallengeIsCurrent, TypeOK, Account, Challenge
    <3>4. MatchIsCurrent'
      BY <2>6 DEF MfaActivate, Matches, IInv, MatchIsCurrent, ChallengeIsCurrent, TypeOK,
         Account
    <3>5. AcceptedCodeIsSpent' /\ OpenedIsUsed' /\ RowIsCounted'
      BY <2>6 DEF MfaActivate, IInv, AcceptedCodeIsSpent, OpenedIsUsed, RowIsCounted
    <3> QED  BY <3>1, <3>2, <3>3, <3>4, <3>5 DEF IInv
  <2>7. ASSUME NEW f \in Factors, MfaDisable(f)
        PROVE  IInv'
    <3>1. TypeOK'
      <4>1. acct \in Account /\ acct.ver + 1 \in Nat /\ 0 \in 0..MaxSecrets
        BY DEF IInv, TypeOK, Account
      <4>2. ASSUME NEW b \in BOOLEAN
            PROVE  [acct EXCEPT !.enabled = b, !.secret = 0, !.last = 0, !.failed = 0,
                                !.lockedUntil = 0, !.ver = acct.ver + 1] \in Account
        BY <4>1 DEF Account
      <4>3. acct' \in Account
        BY <2>7, <4>2, FALSE \in BOOLEAN DEF MfaDisable, Disabled
      <4>4. (acct'.enabled => acct'.secret # 0) /\ acct'.secret <= secrets
        BY <2>7 DEF MfaDisable, Disabled, IInv, TypeOK, Account
      <4> QED  BY <2>7, <4>3, <4>4 DEF MfaDisable, Disabled, IInv, TypeOK, Challenge,
         Request
    <3>2. AcceptedTotpIsBehind'
      BY <2>7 DEF MfaDisable, Matches, Unused, Disabled, IInv, AcceptedTotpIsBehind,
         TypeOK, Account, Totps
    <3>3. AcceptedCodeIsSpent'
      BY <2>7 DEF MfaDisable, Matches, Unused, Disabled, IInv, AcceptedCodeIsSpent
    <3>4. ChallengeIsCurrent'
      BY <2>7 DEF MfaDisable, Matches, Unused, Disabled, IInv, ChallengeIsCurrent,
         TypeOK, Account, Challenge
    <3>5. MatchIsCurrent'
      BY <2>7 DEF MfaDisable, Matches, Unused, Disabled, IInv, MatchIsCurrent,
         ChallengeIsCurrent, TypeOK, Account
    <3>6. RowIsCounted'
      BY <2>7 DEF MfaDisable, Matches, Unused, Disabled, IInv, RowIsCounted
    <3>7. OpenedIsUsed'
      BY <2>7 DEF MfaDisable, IInv, OpenedIsUsed
    <3> QED  BY <3>1, <3>2, <3>3, <3>4, <3>5, <3>6, <3>7 DEF IInv
  <2>8. ASSUME NEW f \in Factors, StepUp(f)
        PROVE  IInv'
    <3>1. TypeOK'
      BY <2>8 DEF StepUp, Redeem, Matches, Unused, LastAfter, IInv, TypeOK, Account, Totps
    <3>2. AcceptedTotpIsBehind'
      BY <2>8 DEF StepUp, Redeem, Matches, Unused, LastAfter, IInv, AcceptedTotpIsBehind,
         TypeOK, Account, Totps
    <3>3. AcceptedCodeIsSpent'
      BY <2>8 DEF StepUp, Redeem, Matches, Unused, LastAfter, IInv, AcceptedCodeIsSpent
    <3>4. ChallengeIsCurrent' /\ MatchIsCurrent' /\ OpenedIsUsed' /\ RowIsCounted'
      BY <2>8 DEF StepUp, IInv, ChallengeIsCurrent, MatchIsCurrent, OpenedIsUsed,
         RowIsCounted
    <3> QED  BY <3>1, <3>2, <3>3, <3>4 DEF IInv
  <2>9. ASSUME NEW c \in Challenges, Login(c)
        PROVE  IInv'
    <3>1. TypeOK'
      BY <2>9 DEF Login, IInv, TypeOK, Account, Challenge
    <3>2. ChallengeIsCurrent'
      BY <2>9 DEF Login, IInv, ChallengeIsCurrent, TypeOK, Account
    <3>3. AcceptedTotpIsBehind' /\ AcceptedCodeIsSpent' /\ MatchIsCurrent' /\
          OpenedIsUsed' /\ RowIsCounted'
      BY <2>9 DEF Login, IInv, AcceptedTotpIsBehind, AcceptedCodeIsSpent, MatchIsCurrent,
         OpenedIsUsed, RowIsCounted
    <3> QED  BY <3>1, <3>2, <3>3 DEF IInv
  <2>10. ASSUME NEW c \in Challenges, Sweep(c)
        PROVE  IInv'
    <3>1. TypeOK'
      BY <2>10 DEF Sweep, IInv, TypeOK, Challenge
    <3>2. OpenedIsUsed'
      BY <2>10 DEF Sweep, IInv, OpenedIsUsed, TypeOK, Challenge
    <3>3. AcceptedTotpIsBehind' /\ AcceptedCodeIsSpent' /\ ChallengeIsCurrent' /\
          MatchIsCurrent' /\ RowIsCounted'
      BY <2>10 DEF Sweep, IInv, AcceptedTotpIsBehind, AcceptedCodeIsSpent,
         ChallengeIsCurrent, MatchIsCurrent, RowIsCounted
    <3> QED  BY <3>1, <3>2, <3>3 DEF IInv
  <2>11. ASSUME NEW r \in Requests, NEW c \in Challenges, PresentChallenge(r, c)
        PROVE  IInv'
    <3>1. TypeOK'
      <4>1. [Idle EXCEPT !.pc = "account", !.chal = c] \in Request
        BY DEF Idle, Request
      <4> QED  BY <2>11, <4>1 DEF PresentChallenge, IInv, TypeOK, Idle
    <3>2. AcceptedTotpIsBehind' /\ AcceptedCodeIsSpent' /\ ChallengeIsCurrent' /\
          MatchIsCurrent' /\ OpenedIsUsed' /\ RowIsCounted'
      BY <2>11 DEF PresentChallenge, IInv, AcceptedTotpIsBehind, AcceptedCodeIsSpent,
         ChallengeIsCurrent, MatchIsCurrent, OpenedIsUsed, RowIsCounted
    <3> QED  BY <3>1, <3>2 DEF IInv
  <2>12. ASSUME NEW r \in Requests, NEW f \in Factors \cup {NoFactor},
     NEW familiar \in BOOLEAN,
              ReadAccount(r, f, familiar)
        PROVE  IInv'
    <3>1. TypeOK'
      BY <2>12 DEF ReadAccount, Matches, Unused, IInv, TypeOK, Request
    <3>2. MatchIsCurrent'
      BY <2>12 DEF ReadAccount, Matches, Unused, IInv, MatchIsCurrent,
         ChallengeIsCurrent, TypeOK, Request
    <3>3. AcceptedTotpIsBehind' /\ AcceptedCodeIsSpent' /\ ChallengeIsCurrent' /\
          OpenedIsUsed' /\ RowIsCounted'
      BY <2>12 DEF ReadAccount, IInv, AcceptedTotpIsBehind, AcceptedCodeIsSpent,
         ChallengeIsCurrent, OpenedIsUsed, RowIsCounted
    <3> QED  BY <3>1, <3>2, <3>3 DEF IInv
  <2>13. ASSUME NEW r \in Requests, SignIn(r)
        PROVE  IInv'
    <3>1. TypeOK'
      <4>1. PICK c \in Challenges, f \in Factors : c = req[r].chal /\ f = req[r].factor
        BY <2>13 DEF SignIn, IInv, TypeOK, Request, Factors
      <4>2. LastAfter(f) \in Nat /\ FailedAfter(r) \in Nat
        BY <4>1 DEF LastAfter, FailedAfter, Totps, IInv, TypeOK, Account
      <4>3. acct' \in Account /\ (acct'.enabled => acct'.secret # 0) /\
            acct'.secret <= secrets
        BY <2>13, <4>1, <4>2 DEF SignIn, IInv, TypeOK, Account
      <4>4. challenge' \in [Challenges -> Challenge]
        BY <2>13, <4>1 DEF SignIn, IInv, TypeOK, Challenge
      <4>5. Idle \in Request
        BY DEF Idle, Request
      <4> QED  BY <2>13, <4>1, <4>3, <4>4, <4>5 DEF SignIn, Idle, IInv, TypeOK
    <3>2. AcceptedTotpIsBehind'
      BY <2>13 DEF SignIn, Claimable, SameAccount, NotReplayed, LastAfter, FailedAfter,
         IInv, AcceptedTotpIsBehind, MatchIsCurrent, TypeOK, Account, Totps
    <3>3. AcceptedCodeIsSpent'
      BY <2>13 DEF SignIn, Claimable, SameAccount, NotReplayed, LastAfter, FailedAfter,
         IInv, AcceptedCodeIsSpent, TypeOK
    <3>4. ChallengeIsCurrent'
      BY <2>13 DEF SignIn, Claimable, SameAccount, NotReplayed, LastAfter, FailedAfter,
         IInv, ChallengeIsCurrent
    <3>5. MatchIsCurrent'
      BY <2>13 DEF SignIn, Claimable, SameAccount, NotReplayed, LastAfter, FailedAfter,
         IInv, TypeOK, MatchIsCurrent, ChallengeIsCurrent, Account, Challenge, Request,
         Totps, Factors, Idle
    <3>6. OpenedIsUsed'
      BY <2>13 DEF SignIn, Claimable, SameAccount, NotReplayed, LastAfter, FailedAfter,
         IInv, OpenedIsUsed, TypeOK
    <3>7. RowIsCounted'
      BY <2>13 DEF SignIn, Claimable, SameAccount, NotReplayed, LastAfter, FailedAfter,
         IInv, RowIsCounted, TypeOK, Account
    <3> QED  BY <3>1, <3>2, <3>3, <3>4, <3>5, <3>6, <3>7 DEF IInv
  <2>14. ASSUME NEW r \in Requests, RecordMfaFailure(r)
        PROVE  IInv'
    <3>1. TypeOK'
      <4> DEFINE n == FailedNow(r)
                 until == IF n % LockoutAttempts = 0 THEN now + LockSeconds(n) ELSE acct.lockedUntil
      <4>1. n \in Nat \ {0}
        BY DEF FailedNow, IInv, TypeOK, Account
      <4>2. until \in Nat
        BY <4>1, LockIsFinite DEF IInv, TypeOK, Account
      <4>3. acct' = [acct EXCEPT !.failed = n, !.lockedUntil = until]
        BY <2>14 DEF RecordMfaFailure
      <4> HIDE DEF n, until
      <4>4. acct' \in Account /\ (acct'.enabled => acct'.secret # 0) /\
            acct'.secret <= secrets
        BY <4>1, <4>2, <4>3 DEF IInv, TypeOK, Account
      <4>5. Idle \in Request /\ Idle.pc = "idle"
        BY DEF Idle, Request
      <4>6. inRow' \in Nat
        BY <2>14 DEF RecordMfaFailure, IInv, TypeOK
      <4> QED  BY <2>14, <4>4, <4>5, <4>6 DEF RecordMfaFailure, IInv, TypeOK
    <3>2. MatchIsCurrent'
      BY <2>14 DEF RecordMfaFailure, FailedNow, IInv, TypeOK, MatchIsCurrent,
         ChallengeIsCurrent, Account, Challenge, Request, Totps, Factors, Idle
    <3>3. RowIsCounted'
      BY <2>14, NextRemainder, LockIsFinite DEF RecordMfaFailure, FailedNow, IInv,
         RowIsCounted, TypeOK, Account
    <3>4. AcceptedTotpIsBehind' /\ AcceptedCodeIsSpent' /\ ChallengeIsCurrent' /\
          OpenedIsUsed'
      BY <2>14 DEF RecordMfaFailure, IInv, AcceptedTotpIsBehind, AcceptedCodeIsSpent,
         ChallengeIsCurrent, OpenedIsUsed
    <3> QED  BY <3>1, <3>2, <3>3, <3>4 DEF IInv
  <2>15. ASSUME NEW r \in Requests, Abandon(r)
        PROVE  IInv'
    <3>1. TypeOK'
      BY <2>15 DEF Abandon, IInv, TypeOK, Account, Challenge, Request, Idle, Totps,
         Factors, Window
    <3>2. MatchIsCurrent'
      BY <2>15 DEF Abandon, IInv, TypeOK, MatchIsCurrent, ChallengeIsCurrent, Account,
         Challenge, Request, Totps, Factors, Idle
    <3>3. AcceptedTotpIsBehind' /\ AcceptedCodeIsSpent' /\ ChallengeIsCurrent' /\
          OpenedIsUsed' /\ RowIsCounted'
      BY <2>15 DEF Abandon, IInv, AcceptedTotpIsBehind, AcceptedCodeIsSpent,
         ChallengeIsCurrent, OpenedIsUsed, RowIsCounted
    <3> QED  BY <3>1, <3>2, <3>3 DEF IInv
  <2>16. CASE UNCHANGED vars
    BY <2>16 DEF vars, IInv, TypeOK, Matches, AcceptedTotpIsBehind, AcceptedCodeIsSpent,
       ChallengeIsCurrent, MatchIsCurrent, OpenedIsUsed, RowIsCounted
  <2> QED  BY <2>1, <2>2, <2>3, <2>4, <2>5, <2>6, <2>7, <2>8, <2>9, <2>10, <2>11, <2>12,
     <2>13, <2>14, <2>15, <2>16 DEF Next
<1> QED  BY <1>1, <1>2, PTL DEF Spec

-----------------------------------------------------------------------------

\* Every variable keeps its type, and an account with mfa_enabled has a secret.
THEOREM MfaTypeCorrect == Spec => []TypeOK
<1>1. IInv => TypeOK
  BY DEF IInv
<1> QED  BY <1>1, Invariance, PTL

\* claim_totp_counter and consume_recovery_code: no factor is accepted twice,
\* for any number of concurrent sign-ins and any number of re-enrolments.
THEOREM FactorsWorkOnce == Spec => []FactorWorksOnce
<1>1. IInv => FactorWorksOnce
  BY DEF IInv, FactorWorksOnce, AcceptedTotpIsBehind, AcceptedCodeIsSpent, Factors, TypeOK
<1> QED  BY <1>1, Invariance, PTL

\* mfa_verify: until it expires, one challenge opens at most one session.
THEOREM ChallengesOpenOnce == Spec => []ChallengeOpensOnce
<1>1. IInv => ChallengeOpensOnce
  BY DEF IInv, ChallengeOpensOnce, OpenedIsUsed, TypeOK
<1> QED  BY <1>1, Invariance, PTL

\* record_mfa_failure: LockoutAttempts wrong codes in a row never pass without
\* a lock, whatever the threshold and however many requests guess at once.
THEOREM NthFailureAlwaysLocks == Spec => []NthFailureLocks
<1>1. IInv => NthFailureLocks
  <2>1. ASSUME IInv
        PROVE  acct.failed % LockoutAttempts \in 0..(LockoutAttempts - 1)
    BY <2>1, MfaAssumption DEF IInv, TypeOK, Account
  <2> QED  BY <2>1, MfaAssumption DEF IInv, NthFailureLocks, RowIsCounted, TypeOK
<1> QED  BY <1>1, Invariance, PTL

\* mfa_verify: the conditional UPDATE on the version makes up for the reads
\* without a lock; a session opens only for the account as it is.
THEOREM SignInsAreCurrent == Spec => SignInIsCurrent
<1>1. IInv /\ [Next]_vars =>
        [\A r \in Requests : SignIn(r) =>
            /\ acct.active
            /\ challenge[req[r].chal].pw = acct.pw
            /\ req[r].factor \in Totps => req[r].factor.secret = acct.secret]_vars
  <2> SUFFICES ASSUME IInv, NEW r \in Requests, SignIn(r)
               PROVE  /\ acct.active
                      /\ challenge[req[r].chal].pw = acct.pw
                      /\ req[r].factor \in Totps => req[r].factor.secret = acct.secret
    OBVIOUS
  <2>1. /\ req[r].pc \in {"claim", "recover"}
        /\ req[r].chal \in Challenges
        /\ challenge[req[r].chal].state # "new"
        /\ challenge[req[r].chal].ver = acct.ver
    BY DEF SignIn, Claimable, SameAccount, IInv, TypeOK, MatchIsCurrent
  <2>2. acct.active /\ challenge[req[r].chal].pw = acct.pw
    BY <2>1 DEF IInv, ChallengeIsCurrent
  <2>3. ASSUME req[r].factor \in Totps
        PROVE  req[r].factor.secret = acct.secret
    <3>1. req[r].pc = "claim"
      BY <2>1, <2>3, MfaAssumption DEF IInv, TypeOK
    <3> QED  BY <2>1, <3>1 DEF IInv, MatchIsCurrent
  <2> QED  BY <2>2, <2>3
<1> QED  BY <1>1, Invariance, PTL DEF Spec, SignInIsCurrent

\* mfa_verify: a factor and a challenge each prove one sign-in.
THEOREM ProofsAlwaysWorkOnce == Spec => []ProofsWorkOnce
<1>1. FactorWorksOnce /\ ChallengeOpensOnce => ProofsWorkOnce
  BY DEF ProofsWorkOnce
<1> QED  BY <1>1, FactorsWorkOnce, ChallengesOpenOnce, PTL

-----------------------------------------------------------------------------
(* Passkeys.                                                               *)

\* A challenge that was not used gets its proof, and is used with it.
LEMMA ProofIsFirst ==
    ASSUME PasskeyIInv, NEW c \in Ceremonies, ceremony[c].state = "open",
           NEW kind \in CeremonyKinds, NEW a \in Owners, NEW s \in Bearers \cup {NoOwner},
           NEW k \in Credentials, Consume(c), Prove(c, kind, a, s, k),
           kind = ceremony[c].purpose, s = ceremony[c].bearer,
           kind # "authenticate" => a = ceremony[c].owner
    PROVE  /\ proved' \in [Ceremonies -> Seq(Proof)]
           /\ proved'[c][Len(proved'[c])] = [kind |-> kind, owner |-> a, bearer |-> s, key |-> k]
           /\ RedeemedOnce' /\ ProvedIsUsed'
<1>. DEFINE p == [kind |-> kind, owner |-> a, bearer |-> s, key |-> k]
<1>1. p \in Proof /\ p.kind = kind /\ p.owner = a /\ p.bearer = s
    BY DEF Proof
<1>2. /\ proved \in [Ceremonies -> Seq(Proof)] /\ ceremony \in [Ceremonies -> CeremonyRow]
      /\ proved[c] = <<>>
    BY DEF PasskeyIInv, PasskeyTypeOK, ProvedIsUsed
<1>3. /\ proved' \in [Ceremonies -> Seq(Proof)]
      /\ proved'[c] = <<p>>
      /\ \A d \in Ceremonies \ {c} : proved'[d] = proved[d]
    <2>1. Append(proved[c], p) = <<p>> /\ Append(proved[c], p) \in Seq(Proof)
        BY <1>1, <1>2
    <2>2. proved' = [proved EXCEPT ![c] = Append(@, p)]
        BY DEF Prove
    <2>. HIDE DEF p
    <2>. QED
        BY <1>2, <2>1, <2>2
<1>0. ceremony' = [ceremony EXCEPT ![c] = [ceremony[c] EXCEPT !.state = "consumed"]]
    BY DEF Consume
<1>4. /\ ceremony'[c].state = "consumed" /\ ceremony'[c].purpose = ceremony[c].purpose
      /\ ceremony'[c].bearer = ceremony[c].bearer /\ ceremony'[c].owner = ceremony[c].owner
      /\ \A d \in Ceremonies \ {c} : ceremony'[d] = ceremony[d]
    <2>1. ceremony[c] \in CeremonyRow /\ ceremony'[c] = [ceremony[c] EXCEPT !.state = "consumed"]
        BY <1>0, <1>2
    <2>2. \A d \in Ceremonies \ {c} : ceremony'[d] = ceremony[d]
        BY <1>0, <1>2
    <2>. QED
        BY <2>1, <2>2 DEF CeremonyRow
<1>5. Len(proved'[c]) = 1 /\ proved'[c][1] = p /\ proved'[c] # <<>>
    BY <1>3
<1>. HIDE DEF p
<1>6. RedeemedOnce'
    <2>1. ASSUME NEW d \in Ceremonies, d # c
          PROVE  proved'[d] = proved[d] /\ ceremony'[d] = ceremony[d]
        BY <1>3, <1>4, <2>1
    <2>2. /\ Len(proved'[c]) <= 1
          /\ proved'[c][1].kind = ceremony'[c].purpose
          /\ proved'[c][1].bearer = ceremony'[c].bearer
          /\ proved'[c][1].kind # "authenticate" => proved'[c][1].owner = ceremony'[c].owner
        BY <1>1, <1>4, <1>5
    <2>. QED
        BY <2>1, <2>2 DEF PasskeyIInv, RedeemedOnce
<1>7. ProvedIsUsed'
    BY <1>3, <1>4 DEF PasskeyIInv, ProvedIsUsed
<1>. QED
    BY <1>3, <1>5, <1>6, <1>7 DEF p

\* A step that proves nothing only moves a challenge on, or makes one that had no
\* proof.
LEMMA NothingProved ==
    ASSUME PasskeyIInv, UNCHANGED proved,
           \A c \in Ceremonies :
               \/ ceremony'[c] = ceremony[c]
               \/ ceremony[c].state = "none"
               \/ /\ ceremony'[c].state \in {"consumed", "swept"}
                  /\ ceremony'[c].purpose = ceremony[c].purpose
                  /\ ceremony'[c].owner = ceremony[c].owner
                  /\ ceremony'[c].bearer = ceremony[c].bearer
    PROVE  RedeemedOnce' /\ ProvedIsUsed'
<1>1. ASSUME NEW c \in Ceremonies, proved[c] # <<>>
      PROVE  /\ ceremony'[c].state \in {"consumed", "swept"}
             /\ ceremony'[c].purpose = ceremony[c].purpose
             /\ ceremony'[c].owner = ceremony[c].owner /\ ceremony'[c].bearer = ceremony[c].bearer
    BY <1>1 DEF PasskeyIInv, ProvedIsUsed
<1>2. RedeemedOnce'
    BY <1>1 DEF PasskeyIInv, RedeemedOnce
<1>3. ProvedIsUsed'
    BY <1>1 DEF ProvedIsUsed
<1>. QED
    BY <1>2, <1>3

\* What a handler does to a challenge.
LEMMA CeremonyMoves ==
    ASSUME PasskeyTypeOK, NEW c \in Ceremonies
    PROVE  /\ Consume(c) => /\ ceremony' \in [Ceremonies -> CeremonyRow]
                            /\ ceremony'[c].state = "consumed"
                            /\ ceremony'[c].purpose = ceremony[c].purpose
                            /\ ceremony'[c].owner = ceremony[c].owner
                            /\ ceremony'[c].bearer = ceremony[c].bearer
                            /\ \A d \in Ceremonies \ {c} : ceremony'[d] = ceremony[d]
           /\ \A purpose \in CeremonyKinds, a \in Owners \cup {NoOwner},
                 s \in Bearers \cup {NoOwner} :
                 NewChallenge(c, purpose, a, s) =>
                    /\ ceremony' \in [Ceremonies -> CeremonyRow]
                    /\ ceremony[c].state = "none"
                    /\ \A d \in Ceremonies \ {c} : ceremony'[d] = ceremony[d]
<1>1. moment \in Nat /\ moment + CeremonyLife \in Nat
    BY PasskeysAssumption DEF PasskeyTypeOK
<1>2. ceremony \in [Ceremonies -> CeremonyRow]
    BY DEF PasskeyTypeOK
<1>. QED
    BY <1>1, <1>2 DEF Consume, NewChallenge, CeremonyRow

\* A key that answers moves its counter forward, and no other key's counter moves.
LEMMA CounterMoves ==
    ASSUME PasskeyTypeOK, NEW x \in Assertion,
           credential' = [credential EXCEPT ![x.key].count = x.count],
           Advances(x.count, credential[x.key].count)
    PROVE  /\ credential' \in [Credentials -> [owner : Owners \cup {NoOwner}, count : Nat]]
           /\ credential'[x.key].count = x.count
           /\ \A k \in Credentials : credential'[k].count >= credential[k].count
<1>1. /\ credential \in [Credentials -> [owner : Owners \cup {NoOwner}, count : Nat]]
      /\ x.key \in Credentials /\ x.count \in Nat
    BY DEF PasskeyTypeOK, Assertion
<1>2. credential' = [credential EXCEPT ![x.key] = [credential[x.key] EXCEPT !.count = x.count]]
    OBVIOUS
<1>3. /\ credential'[x.key] = [credential[x.key] EXCEPT !.count = x.count]
      /\ \A k \in Credentials : k # x.key => credential'[k] = credential[k]
      /\ credential[x.key] \in [owner : Owners \cup {NoOwner}, count : Nat]
    BY <1>1, <1>2
<1>4. /\ credential'[x.key].count = x.count
      /\ credential'[x.key] \in [owner : Owners \cup {NoOwner}, count : Nat]
    BY <1>1, <1>3
<1>5. credential' \in [Credentials -> [owner : Owners \cup {NoOwner}, count : Nat]]
    BY <1>1, <1>2, <1>4
<1>6. \A k \in Credentials : credential[k].count \in Nat
    BY <1>1
<1>7. x.count >= credential[x.key].count
    BY <1>1, <1>6 DEF Advances
<1>8. \A k \in Credentials : credential'[k].count >= credential[k].count
    BY <1>3, <1>4, <1>6, <1>7
<1>. QED
    BY <1>4, <1>5, <1>8

\* What a step must show of the grants it makes.
Granted(c) ==
    LET p == proved'[c][Len(proved'[c])]
    IN  /\ p.owner \in activeOwners
        /\ credential[p.key].owner = p.owner
        /\ Advances(credential'[p.key].count, credential[p.key].count)

\* A registration: an unknown key is stored, and its challenge proves it.
LEMMA RegistrationKeeps ==
    ASSUME PasskeyIInv, NEW s \in Bearers, NEW a \in Owners, NEW c \in Ceremonies,
           NEW k \in Credentials, RegistrationVerify(s, a, c, k)
    PROVE  PasskeyIInv' /\ FreshGrant
<1>1. PasskeyTypeOK /\ Consume(c) /\ ceremony[c].state = "open"
    BY DEF RegistrationVerify, Consumable, PasskeyIInv
<1>2. /\ ceremony' \in [Ceremonies -> CeremonyRow]
      /\ ceremony'[c].state = "consumed" /\ ceremony'[c].purpose = ceremony[c].purpose
      /\ ceremony'[c].owner = ceremony[c].owner /\ ceremony'[c].bearer = ceremony[c].bearer
      /\ \A d \in Ceremonies \ {c} : ceremony'[d] = ceremony[d]
    BY <1>1, CeremonyMoves
<1>3. CASE credential[k].owner = NoOwner
    <2>1. /\ credential' = [credential EXCEPT ![k] = [owner |-> a, count |-> signs[k]]]
          /\ Prove(c, "register", a, NoOwner, k)
        BY <1>3 DEF RegistrationVerify
    <2>2. /\ proved' \in [Ceremonies -> Seq(Proof)] /\ RedeemedOnce' /\ ProvedIsUsed'
        BY <1>1, <2>1, ProofIsFirst DEF RegistrationVerify, Consumable, CeremonyKinds
    <2>3. credential' \in [Credentials -> [owner : Owners \cup {NoOwner}, count : Nat]]
        BY <1>1, <2>1 DEF PasskeyTypeOK
    <2>4. PasskeyTypeOK'
        BY <1>1, <1>2, <2>2, <2>3 DEF PasskeyTypeOK, RegistrationVerify
    <2>5. \A j \in Credentials : credential[j].owner # NoOwner => credential'[j] = credential[j]
        BY <1>1, <1>3, <2>1 DEF PasskeyTypeOK
    <2>6. \A j \in Credentials : credential[j].count \in Nat
        BY <1>1 DEF PasskeyTypeOK
    <2>7. \A d \in Ceremonies : proved'[d] # proved[d] => ceremony[d].purpose = "register"
        BY <1>1, <2>1 DEF Prove, PasskeyTypeOK, RegistrationVerify, Consumable
    <2>8. FreshGrant
        BY <2>5, <2>6, <2>7 DEF FreshGrant
    <2>. QED
        BY <2>2, <2>4, <2>8 DEF PasskeyIInv
<1>4. CASE credential[k].owner # NoOwner
    <2>1. UNCHANGED <<credential, proved>>
        BY <1>4 DEF RegistrationVerify
    <2>2. RedeemedOnce' /\ ProvedIsUsed'
        BY <1>2, <2>1, NothingProved
    <2>3. PasskeyTypeOK'
        BY <1>1, <1>2, <2>1 DEF PasskeyTypeOK, RegistrationVerify
    <2>4. \A j \in Credentials : credential[j].count \in Nat
        BY <1>1 DEF PasskeyTypeOK
    <2>5. FreshGrant
        BY <2>1, <2>4 DEF FreshGrant
    <2>. QED
        BY <2>2, <2>3, <2>5 DEF PasskeyIInv
<1>. QED
    BY <1>3, <1>4

\* An assertion that is accepted: the counter moves, and if the account may have
\* what it is for, the challenge proves it.
LEMMA AssertionKeeps ==
    ASSUME PasskeyIInv, NEW x \in Assertion, NEW a \in Owners,
           NEW kind \in CeremonyKinds, NEW s \in Bearers \cup {NoOwner},
           ceremony[x.challenge].state = "open", kind = ceremony[x.challenge].purpose,
           s = ceremony[x.challenge].bearer,
           kind # "authenticate" => a = ceremony[x.challenge].owner,
           Consume(x.challenge), credential[x.key].owner = a,
           Advances(x.count, credential[x.key].count),
           credential' = [credential EXCEPT ![x.key].count = x.count],
           \/ a \in activeOwners /\ Prove(x.challenge, kind, a, s, x.key)
           \/ UNCHANGED proved
    PROVE  /\ ceremony' \in [Ceremonies -> CeremonyRow]
           /\ credential' \in [Credentials -> [owner : Owners \cup {NoOwner}, count : Nat]]
           /\ proved' \in [Ceremonies -> Seq(Proof)]
           /\ RedeemedOnce' /\ ProvedIsUsed' /\ FreshGrant
<1>. DEFINE c == x.challenge
<1>1. PasskeyTypeOK /\ c \in Ceremonies /\ x.key \in Credentials
    BY DEF PasskeyIInv, Assertion
<1>2. /\ ceremony' \in [Ceremonies -> CeremonyRow]
      /\ ceremony'[c].state = "consumed" /\ ceremony'[c].purpose = ceremony[c].purpose
      /\ ceremony'[c].owner = ceremony[c].owner /\ ceremony'[c].bearer = ceremony[c].bearer
      /\ \A d \in Ceremonies \ {c} : ceremony'[d] = ceremony[d]
    BY <1>1, CeremonyMoves
<1>3. /\ credential' \in [Credentials -> [owner : Owners \cup {NoOwner}, count : Nat]]
      /\ credential'[x.key].count = x.count
      /\ \A k \in Credentials : credential'[k].count >= credential[k].count
    BY <1>1, CounterMoves
<1>4. CASE UNCHANGED proved
    <2>1. RedeemedOnce' /\ ProvedIsUsed'
        BY <1>2, <1>4, NothingProved
    <2>2. FreshGrant
        BY <1>3, <1>4 DEF FreshGrant
    <2>3. proved' \in [Ceremonies -> Seq(Proof)]
        BY <1>1, <1>4 DEF PasskeyTypeOK
    <2>. QED
        BY <1>2, <1>3, <2>1, <2>2, <2>3
<1>5. CASE a \in activeOwners /\ Prove(c, kind, a, s, x.key)
    <2>1. /\ proved' \in [Ceremonies -> Seq(Proof)]
          /\ proved'[c][Len(proved'[c])] = [kind |-> kind, owner |-> a, bearer |-> s, key |-> x.key]
          /\ RedeemedOnce' /\ ProvedIsUsed'
        BY <1>1, <1>5, ProofIsFirst, ZenonT(60)
    <2>2. Granted(c)
        BY <1>3, <1>5, <2>1 DEF Granted
    <2>3. \A d \in Ceremonies : proved'[d] # proved[d] => d = c
        BY <1>1, <1>5 DEF Prove, PasskeyTypeOK
    <2>4. \A d \in Ceremonies : proved'[d] # proved[d] => Granted(d)
        BY <2>2, <2>3
    <2>5. FreshGrant
        BY <1>3, <2>4 DEF FreshGrant, Granted
    <2>. QED
        BY <1>2, <1>3, <2>1, <2>5
<1>. QED
    BY <1>4, <1>5

\* Every step keeps the invariant, and grants freshly.
LEMMA PasskeyStep == PasskeyIInv /\ [PasskeyNext]_passkeyVars => PasskeyIInv' /\ FreshGrant
<1>. SUFFICES ASSUME PasskeyIInv, [PasskeyNext]_passkeyVars PROVE PasskeyIInv' /\ FreshGrant
    OBVIOUS
<1>1. PasskeyTypeOK /\ \A k \in Credentials : credential[k].count \in Nat
    BY DEF PasskeyIInv, PasskeyTypeOK
<1>2. ASSUME UNCHANGED <<credential, proved>>
      PROVE  FreshGrant
    BY <1>1, <1>2 DEF FreshGrant
<1>3. ASSUME UNCHANGED <<ceremony, proved>>
      PROVE  RedeemedOnce' /\ ProvedIsUsed'
    BY <1>3 DEF PasskeyIInv, RedeemedOnce, ProvedIsUsed
<1>4. CASE PasskeyTick
    <2>1. moment' \in 0..MaxMoment
        BY <1>1, <1>4, PasskeysAssumption DEF PasskeyTick, PasskeyTypeOK
    <2>2. PasskeyTypeOK'
        BY <1>1, <1>4, <2>1 DEF PasskeyTick, PasskeyTypeOK
    <2>. QED
        BY <1>2, <1>3, <1>4, <2>2 DEF PasskeyTick, PasskeyIInv
<1>5. ASSUME NEW c \in Ceremonies, AuthenticationOptions(c) PROVE PasskeyIInv' /\ FreshGrant
    <2>1. /\ ceremony' \in [Ceremonies -> CeremonyRow] /\ ceremony[c].state = "none"
          /\ \A d \in Ceremonies \ {c} : ceremony'[d] = ceremony[d]
        BY <1>1, <1>5, CeremonyMoves DEF AuthenticationOptions, CeremonyKinds
    <2>2. RedeemedOnce' /\ ProvedIsUsed'
        BY <1>5, <2>1, NothingProved DEF AuthenticationOptions
    <2>3. PasskeyTypeOK'
        BY <1>1, <1>5, <2>1 DEF AuthenticationOptions, PasskeyTypeOK
    <2>. QED
        BY <1>2, <1>5, <2>2, <2>3 DEF AuthenticationOptions, PasskeyIInv
<1>6. ASSUME NEW c \in Ceremonies, SweepCeremony(c) PROVE PasskeyIInv' /\ FreshGrant
    <2>1. ceremony' = [ceremony EXCEPT ![c] = [ceremony[c] EXCEPT !.state = "swept"]]
        BY <1>6 DEF SweepCeremony
    <2>2. /\ ceremony'[c] = [ceremony[c] EXCEPT !.state = "swept"] /\ ceremony[c] \in CeremonyRow
          /\ \A d \in Ceremonies \ {c} : ceremony'[d] = ceremony[d]
        BY <1>1, <2>1 DEF PasskeyTypeOK
    <2>3. /\ ceremony'[c] \in CeremonyRow /\ ceremony'[c].state = "swept"
          /\ ceremony'[c].purpose = ceremony[c].purpose
          /\ ceremony'[c].owner = ceremony[c].owner /\ ceremony'[c].bearer = ceremony[c].bearer
        BY <2>2 DEF CeremonyRow
    <2>4. ceremony' \in [Ceremonies -> CeremonyRow]
        BY <1>1, <2>1, <2>2, <2>3 DEF PasskeyTypeOK
    <2>5. RedeemedOnce' /\ ProvedIsUsed'
        BY <1>6, <2>2, <2>3, NothingProved DEF SweepCeremony
    <2>6. PasskeyTypeOK'
        BY <1>1, <1>6, <2>4 DEF SweepCeremony, PasskeyTypeOK
    <2>. QED
        BY <1>2, <1>6, <2>5, <2>6 DEF SweepCeremony, PasskeyIInv
<1>7. ASSUME NEW s \in Bearers, EndBearer(s) PROVE PasskeyIInv' /\ FreshGrant
    <2>1. PasskeyTypeOK'
        BY <1>1, <1>7 DEF EndBearer, PasskeyTypeOK
    <2>. QED
        BY <1>2, <1>3, <1>7, <2>1 DEF EndBearer, PasskeyIInv
<1>8. ASSUME NEW a \in Owners, SuspendOwner(a) PROVE PasskeyIInv' /\ FreshGrant
    <2>1. PasskeyTypeOK'
        BY <1>1, <1>8 DEF SuspendOwner, PasskeyTypeOK
    <2>. QED
        BY <1>2, <1>3, <1>8, <2>1 DEF SuspendOwner, PasskeyIInv
<1>9. ASSUME NEW s \in Bearers, NEW a \in Owners, NEW c \in Ceremonies,
             RegistrationOptions(s, a, c) \/ StepUpOptions(s, a, c)
      PROVE  PasskeyIInv' /\ FreshGrant
    <2>1. \/ NewChallenge(c, "register", a, NoOwner)
          \/ NewChallenge(c, "step_up", a, s)
        BY <1>9 DEF RegistrationOptions, StepUpOptions
    <2>2. /\ UNCHANGED <<moment, activeOwners, bearer, credential, signs, signed, signingIn, proved>>
        BY <1>9 DEF RegistrationOptions, StepUpOptions
    <2>3. /\ ceremony' \in [Ceremonies -> CeremonyRow] /\ ceremony[c].state = "none"
          /\ \A d \in Ceremonies \ {c} : ceremony'[d] = ceremony[d]
        BY <1>1, <2>1, CeremonyMoves DEF CeremonyKinds
    <2>4. RedeemedOnce' /\ ProvedIsUsed'
        BY <2>2, <2>3, NothingProved
    <2>5. PasskeyTypeOK'
        BY <1>1, <2>2, <2>3 DEF PasskeyTypeOK
    <2>. QED
        BY <1>2, <2>2, <2>4, <2>5 DEF PasskeyIInv
<1>10. ASSUME NEW s \in Bearers, NEW a \in Owners, NEW c \in Ceremonies, NEW k \in Credentials,
              RegistrationVerify(s, a, c, k)
       PROVE  PasskeyIInv' /\ FreshGrant
    BY <1>10, RegistrationKeeps
<1>11. ASSUME NEW s \in Bearers, NEW a \in Owners, NEW k \in Credentials, DeletePasskey(s, a, k)
       PROVE  PasskeyIInv' /\ FreshGrant
    <2>1. /\ credential' = [credential EXCEPT ![k] = [owner |-> NoOwner, count |-> 0]]
          /\ UNCHANGED <<moment, activeOwners, bearer, ceremony, signs, signed, signingIn, proved>>
        BY <1>11 DEF DeletePasskey
    <2>2. /\ credential' \in [Credentials -> [owner : Owners \cup {NoOwner}, count : Nat]]
          /\ \A j \in Credentials : credential'[j] = credential[j] \/ credential'[j].owner = NoOwner
        BY <1>1, <2>1 DEF PasskeyTypeOK
    <2>3. PasskeyTypeOK'
        BY <1>1, <2>1, <2>2 DEF PasskeyTypeOK
    <2>4. FreshGrant
        BY <1>1, <2>1, <2>2 DEF FreshGrant
    <2>. QED
        BY <1>3, <2>1, <2>3, <2>4 DEF PasskeyIInv
<1>12. ASSUME NEW k \in Credentials, NEW c \in Ceremonies, NEW n \in 0..MaxCount, Sign(k, c, n)
       PROVE  PasskeyIInv' /\ FreshGrant
    <2>1. n \in Nat /\ signs \in [Credentials -> Nat]
        BY <1>1, PasskeysAssumption DEF PasskeyTypeOK
    <2>2. [key |-> k, challenge |-> c, count |-> n] \in Assertion
        BY <2>1 DEF Assertion
    <2>3. signs' \in [Credentials -> Nat] /\ signed' \subseteq Assertion
        BY <1>1, <1>12, <2>1, <2>2 DEF Sign, PasskeyTypeOK
    <2>4. PasskeyTypeOK'
        BY <1>1, <1>12, <2>3 DEF Sign, PasskeyTypeOK
    <2>. QED
        BY <1>2, <1>3, <1>12, <2>4 DEF Sign, PasskeyIInv
<1>13. ASSUME NEW s \in Bearers, NEW a \in Owners, NEW x \in signed, StepUpVerify(s, a, x)
       PROVE  PasskeyIInv' /\ FreshGrant
    <2>1. /\ x \in Assertion /\ x.challenge \in Ceremonies /\ a \in activeOwners
          /\ ceremony[x.challenge].state = "open" /\ ceremony[x.challenge].purpose = "step_up"
          /\ ceremony[x.challenge].owner = a /\ ceremony[x.challenge].bearer = s
          /\ Consume(x.challenge)
          /\ UNCHANGED <<moment, activeOwners, bearer, signs, signed, signingIn>>
        BY <1>1, <1>13 DEF StepUpVerify, Bears, Consumable, PasskeyTypeOK, Assertion
    <2>2. CASE credential[x.key].owner = a /\ Advances(x.count, credential[x.key].count)
        <3>1. /\ credential' = [credential EXCEPT ![x.key].count = x.count]
              /\ Prove(x.challenge, "step_up", a, s, x.key)
            BY <1>13, <2>2 DEF StepUpVerify
        <3>2. /\ ceremony' \in [Ceremonies -> CeremonyRow]
              /\ credential' \in [Credentials -> [owner : Owners \cup {NoOwner}, count : Nat]]
              /\ proved' \in [Ceremonies -> Seq(Proof)]
              /\ RedeemedOnce' /\ ProvedIsUsed' /\ FreshGrant
            BY <2>1, <2>2, <3>1, AssertionKeeps DEF CeremonyKinds
        <3>3. PasskeyTypeOK'
            BY <1>1, <2>1, <3>2 DEF PasskeyTypeOK
        <3>. QED
            BY <3>2, <3>3 DEF PasskeyIInv
    <2>3. CASE ~(credential[x.key].owner = a /\ Advances(x.count, credential[x.key].count))
        <3>1. UNCHANGED <<credential, proved>>
            BY <1>13, <2>3 DEF StepUpVerify
        <3>2. /\ ceremony' \in [Ceremonies -> CeremonyRow]
              /\ ceremony'[x.challenge].state = "consumed"
              /\ ceremony'[x.challenge].purpose = ceremony[x.challenge].purpose
              /\ ceremony'[x.challenge].owner = ceremony[x.challenge].owner
              /\ ceremony'[x.challenge].bearer = ceremony[x.challenge].bearer
              /\ \A d \in Ceremonies \ {x.challenge} : ceremony'[d] = ceremony[d]
            BY <1>1, <2>1, CeremonyMoves
        <3>3. RedeemedOnce' /\ ProvedIsUsed'
            BY <3>1, <3>2, NothingProved
        <3>4. PasskeyTypeOK'
            BY <1>1, <2>1, <3>1, <3>2 DEF PasskeyTypeOK
        <3>. QED
            BY <1>2, <3>1, <3>3, <3>4 DEF PasskeyIInv
    <2>. QED
        BY <2>2, <2>3
<1>14. ASSUME NEW i \in SignIns, NEW x \in signed, FindOwner(i, x) PROVE PasskeyIInv' /\ FreshGrant
    <2>1. /\ x \in Assertion /\ x.key \in Credentials
          /\ credential[x.key] \in [owner : Owners \cup {NoOwner}, count : Nat]
        BY <1>1 DEF PasskeyTypeOK, Assertion
    <2>2. [assertion |-> x, owner |-> credential[x.key].owner, seen |-> credential[x.key].count]
              \in SignInRow
        BY <2>1 DEF SignInRow
    <2>3. signingIn' \in [SignIns -> SignInRow \cup {NoSignIn}]
        BY <1>1, <1>14, <2>2 DEF FindOwner, PasskeyTypeOK
    <2>4. PasskeyTypeOK'
        BY <1>1, <1>14, <2>3 DEF FindOwner, PasskeyTypeOK
    <2>. QED
        BY <1>2, <1>3, <1>14, <2>4 DEF FindOwner, PasskeyIInv
<1>15. ASSUME NEW i \in SignIns, AuthenticationVerify(i) PROVE PasskeyIInv' /\ FreshGrant
    <2>. DEFINE x == signingIn[i].assertion
                a == signingIn[i].owner
    <2>1. /\ x \in Assertion /\ x.challenge \in Ceremonies /\ a \in Owners \cup {NoOwner}
          /\ UNCHANGED <<moment, activeOwners, bearer, signs, signed>>
        BY <1>1, <1>15 DEF AuthenticationVerify, PasskeyTypeOK, SignInRow, Assertion
    <2>2. signingIn' \in [SignIns -> SignInRow \cup {NoSignIn}]
        BY <1>1, <1>15 DEF AuthenticationVerify, PasskeyTypeOK
    <2>3. CASE ~Consumable(x.challenge, "authenticate", NoOwner, NoOwner)
        <3>1. UNCHANGED <<ceremony, credential, proved>>
            BY <1>15, <2>3 DEF AuthenticationVerify
        <3>2. PasskeyTypeOK'
            BY <1>1, <2>1, <2>2, <3>1 DEF PasskeyTypeOK
        <3>. QED
            BY <1>2, <1>3, <3>1, <3>2 DEF PasskeyIInv
    <2>4. CASE Consumable(x.challenge, "authenticate", NoOwner, NoOwner)
        <3>1. /\ ceremony[x.challenge].state = "open"
              /\ ceremony[x.challenge].purpose = "authenticate"
              /\ ceremony[x.challenge].bearer = NoOwner
              /\ Consume(x.challenge)
            BY <1>15, <2>4 DEF AuthenticationVerify, Consumable
        <3>2. /\ ceremony' \in [Ceremonies -> CeremonyRow]
              /\ ceremony'[x.challenge].state = "consumed"
              /\ ceremony'[x.challenge].purpose = ceremony[x.challenge].purpose
              /\ ceremony'[x.challenge].owner = ceremony[x.challenge].owner
              /\ ceremony'[x.challenge].bearer = ceremony[x.challenge].bearer
              /\ \A d \in Ceremonies \ {x.challenge} : ceremony'[d] = ceremony[d]
            BY <1>1, <2>1, <3>1, CeremonyMoves
        <3>3. CASE a # NoOwner /\ credential[x.key].owner = a
                     /\ Advances(x.count, CurrentCount(i, x.key))
            <4>1. /\ a \in Owners /\ Advances(x.count, credential[x.key].count)
                  /\ credential' = [credential EXCEPT ![x.key].count = x.count]
                  /\ \/ a \in activeOwners /\ Prove(x.challenge, "authenticate", a, NoOwner, x.key)
                     \/ UNCHANGED proved
                BY <1>15, <2>1, <2>4, <3>3 DEF AuthenticationVerify, CurrentCount
            <4>. HIDE DEF x, a
            <4>2. /\ credential' \in [Credentials -> [owner : Owners \cup {NoOwner}, count : Nat]]
                  /\ proved' \in [Ceremonies -> Seq(Proof)]
                  /\ RedeemedOnce' /\ ProvedIsUsed' /\ FreshGrant
                BY <2>1, <3>1, <3>3, <4>1, AssertionKeeps DEF CeremonyKinds
            <4>3. PasskeyTypeOK'
                BY <1>1, <2>1, <2>2, <3>2, <4>2 DEF PasskeyTypeOK
            <4>. QED
                BY <4>2, <4>3 DEF PasskeyIInv
        <3>4. CASE ~(a # NoOwner /\ credential[x.key].owner = a
                       /\ Advances(x.count, CurrentCount(i, x.key)))
            <4>1. UNCHANGED <<credential, proved>>
                BY <1>15, <2>4, <3>4 DEF AuthenticationVerify
            <4>. HIDE DEF x, a
            <4>2. RedeemedOnce' /\ ProvedIsUsed'
                BY <3>2, <4>1, NothingProved
            <4>3. PasskeyTypeOK'
                BY <1>1, <2>1, <2>2, <3>2, <4>1 DEF PasskeyTypeOK
            <4>. QED
                BY <1>2, <4>1, <4>2, <4>3 DEF PasskeyIInv
        <3>. QED
            BY <3>3, <3>4
    <2>. QED
        BY <2>3, <2>4
<1>16. CASE UNCHANGED passkeyVars
    <2>1. PasskeyTypeOK'
        BY <1>1, <1>16 DEF passkeyVars, PasskeyTypeOK
    <2>. QED
        BY <1>2, <1>3, <1>16, <2>1 DEF passkeyVars, PasskeyIInv
<1>. QED
    BY <1>4, <1>5, <1>6, <1>7, <1>8, <1>9, <1>10, <1>11, <1>12, <1>13, <1>14, <1>15, <1>16
       DEF PasskeyNext

\* A challenge is used in the transaction that proves something with it.
THEOREM PasskeyInvariance == PasskeySpec => []PasskeyIInv
<1>1. PasskeyInit => PasskeyIInv
    <2>. SUFFICES ASSUME PasskeyInit PROVE PasskeyIInv
        OBVIOUS
    <2>1. 0 \in 0..MaxMoment
        BY PasskeysAssumption
    <2>2. <<>> \in Seq(Proof) /\ Len(<<>>) = 0
        OBVIOUS
    <2>3. PasskeyTypeOK
        BY <2>1, <2>2 DEF PasskeyInit, PasskeyTypeOK, CeremonyRow, CeremonyKinds
    <2>4. RedeemedOnce /\ ProvedIsUsed
        BY <2>2 DEF PasskeyInit, RedeemedOnce, ProvedIsUsed
    <2>. QED
        BY <2>3, <2>4 DEF PasskeyIInv
<1>. QED
    BY <1>1, PasskeyStep, PTL DEF PasskeySpec

\* ChallengeProvesOnce, of every behaviour of the ceremonies in passkeys.py: a
\* challenge proves once, for whom it was made, and a grant is to an active account
\* that owns the key, with a counter that moved on.
THEOREM ChallengesProveOnce == PasskeySpec => ChallengeProvesOnce
<1>1. PasskeyIInv => PasskeyTypeOK /\ RedeemedOnce
    BY DEF PasskeyIInv
<1>2. PasskeyIInv /\ [PasskeyNext]_passkeyVars => [FreshGrant]_passkeyVars
    BY PasskeyStep
<1>. QED
    BY <1>1, <1>2, PasskeyInvariance, PTL DEF PasskeySpec, ChallengeProvesOnce

-----------------------------------------------------------------------------
(* The password stage.                                                     *)

\* A sign-in that is added keeps what is said of those before it.
LEMMA SignInAdded ==
    ASSUME GuardIInv, NEW h, h \in SignInEvent, history' = Append(history, h), h.after <= Len(history),
           IsAnnounced(history', Len(history) + 1)
    PROVE  /\ history' \in Seq(SignInEvent) /\ Len(history') = Len(history) + 1
           /\ Len(history) \in Nat /\ history'[Len(history) + 1] = h
           /\ \A j \in 1..Len(history) : history'[j] = history[j]
           /\ NewBrowsersAreAnnounced' /\ AssessedBefore'
<1>. history \in Seq(SignInEvent) /\ Len(history) \in Nat
    BY DEF GuardIInv, GuardTypeOK
<1>1. \A j \in 1..Len(history) : history[j] \in SignInEvent
    OBVIOUS
<1>. \A g \in SignInEvent : g.after \in Nat
    BY LoginGuardAssumption DEF SignInEvent
<1>2. /\ history' \in Seq(SignInEvent) /\ Len(history') = Len(history) + 1
      /\ history'[Len(history) + 1] = h
      /\ \A j \in 1..Len(history) : history'[j] = history[j]
    OBVIOUS
<1>3. AssessedBefore /\ NewBrowsersAreAnnounced
    BY DEF GuardIInv
<1>4. AssessedBefore'
    BY <1>1, <1>2, <1>3 DEF AssessedBefore
<1>5. ASSUME NEW i \in 1..Len(history)
      PROVE  IsAnnounced(history', i)
    <2>1. i \in Nat /\ i \in 1..Len(history')
        BY <1>2
    <2>2. /\ history'[i] = history[i] /\ history[i].after < i
          /\ history[i].after \in Nat /\ IsAnnounced(history, i)
        BY <1>1, <1>2, <1>3 DEF AssessedBefore, NewBrowsersAreAnnounced
    <2>3. \A j \in 1..i - 1 : history'[j] = history[j]
        BY <1>2, <2>1
    <2>4. \A j \in 1..history[i].after : history'[j] = history[j]
        BY <2>1, <2>2, <2>3
    <2>. QED
        BY <2>2, <2>3, <2>4 DEF IsAnnounced
<1>6. NewBrowsersAreAnnounced'
    <2>1. \A i \in 1..Len(history') : i \in 1..Len(history) \/ i = Len(history) + 1
        BY <1>2
    <2>. QED
        BY <1>5, <2>1 DEF NewBrowsersAreAnnounced
<1>. QED
    BY <1>2, <1>4, <1>6

\* A request as it was assessed.
LEMMA AssessedTypes ==
    ASSUME GuardTypeOK, NEW r \in LoginRequests, assessed[r].step = "assessed"
    PROVE  assessed[r] \in AssessedLogin /\ assessed[r] # NoLogin
BY DEF GuardTypeOK, AssessedLogin, NoLogin

\* An assessment stands as long as the rows it was made of do, and time only passes.
LEMMA AssessmentsStay ==
    ASSUME NEW q \in AssessedLogin, NEW rows, NEW more, NEW time \in Nat, NEW later \in Nat,
           rows \in Seq(SignInEvent), more \in Seq(SignInEvent),
           later >= time, Len(more) >= Len(rows), \A j \in 1..Len(rows) : more[j] = rows[j],
           StillSo(q, rows, time)
    PROVE  StillSo(q, more, later)
<1>1. /\ q.rows \in Nat /\ Len(rows) \in Nat /\ Len(more) \in Nat
      /\ \A j \in 1..Len(rows) : rows[j] \in SignInEvent
    BY DEF AssessedLogin
<1>2. \A g \in SignInEvent : g.at \in Nat
    BY LoginGuardAssumption DEF SignInEvent
<1>3. q.rows <= Len(rows)
    BY DEF StillSo
<1>4. \A j \in 1..q.rows : j \in 1..Len(rows) /\ more[j] = rows[j]
    BY <1>1, <1>3
<1>5. \A j \in 1..q.rows : more[j].at + HistoryLife >= later => rows[j].at + HistoryLife >= time
    BY <1>1, <1>2, <1>4, LoginGuardAssumption
<1>6. \A j \in 1..Len(rows) : j \in 1..Len(more)
    BY <1>1
<1>7. q.rows <= Len(more)
    BY <1>1, <1>3
<1>8. q.device # NoDevice => \E j \in 1..Len(more) : more[j].ref = q.device
    BY <1>6 DEF StillSo
<1>9. q.source.knownIp => \E j \in 1..q.rows : more[j].net = q.net
    BY <1>4 DEF StillSo
<1>10. q.device = NoDevice
         /\ (\E j \in 1..q.rows : more[j].at + HistoryLife >= later /\ more[j].ref # NoDevice)
       => IsNewDevice(q.source)
    BY <1>4, <1>5 DEF StillSo
<1>11. q.source.trusted <=> q.device # NoDevice
    BY DEF StillSo
<1>. QED
    BY <1>7, <1>8, <1>9, <1>10, <1>11 DEF StillSo

\* Every other request's assessment, when one request is decided or begins.
LEMMA OtherAssessments ==
    ASSUME GuardTypeOK, AssessmentsHold, loginClock' \in Nat, loginClock' >= loginClock,
           history' \in Seq(SignInEvent), Len(history') >= Len(history),
           \A j \in 1..Len(history) : history'[j] = history[j],
           NEW x \in LoginRequests, assessed[x] # NoLogin
    PROVE  StillSo(assessed[x], history', loginClock')
<1>1. assessed[x] \in AssessedLogin /\ loginClock \in Nat /\ history \in Seq(SignInEvent)
    BY LoginGuardAssumption DEF GuardTypeOK
<1>2. StillSo(assessed[x], history, loginClock)
    BY DEF AssessmentsHold
<1>. QED
    BY <1>1, <1>2, AssessmentsStay

\* The source of a request, as the rows of the trail show it.
LEMMA SourceIsSound ==
    ASSUME GuardIInv, NEW n \in Nets, NEW f \in Families, NEW d \in 0..MaxSignIns + 1,
           NEW right \in BOOLEAN, d = NoDevice \/ \E t \in tokens : d = Verified(t), NEW q,
           q = [step |-> "assessed", net |-> n, family |-> f, device |-> d, right |-> right,
                rows |-> Len(history), source |-> Source(n, d, f)]
    PROVE  q \in AssessedLogin /\ StillSo(q, history, loginClock)
<1>1. history \in Seq(SignInEvent) /\ Len(history) \in Nat
    BY DEF GuardIInv, GuardTypeOK
<1>2. /\ (RecentSignIns # {}) \in BOOLEAN /\ (\E h \in RecentSignIns : h.net = n) \in BOOLEAN
      /\ KnownDevice(d, f) \in BOOLEAN /\ (d # NoDevice) \in BOOLEAN
    BY Zenon DEF KnownDevice
<1>3. q \in AssessedLogin
    BY <1>1, <1>2 DEF AssessedLogin, Source
<1>4. /\ q.rows = Len(history) /\ q.device = d /\ q.net = n
      /\ q.source.trusted = (d # NoDevice)
      /\ q.source.knownIp = (\E h \in RecentSignIns : h.net = n)
      /\ IsNewDevice(q.source) = (RecentSignIns # {} /\ ~KnownDevice(d, f))
    BY DEF Source, IsNewDevice
<1>5. ASSUME d # NoDevice PROVE \E j \in 1..Len(history) : history[j].ref = d
    <2>1. PICK t \in tokens : d = Verified(t)
        BY <1>5
    <2>2. d = t.device
        BY <1>5, <2>1 DEF Verified
    <2>. QED
        BY <2>1, <2>2 DEF GuardIInv, TokensAreEarned
<1>6. ASSUME NEW h \in RecentSignIns, h.net = n PROVE \E j \in 1..Len(history) : history[j].net = n
    BY <1>6 DEF RecentSignIns, Completed
<1>7. ASSUME d = NoDevice,
             \E j \in 1..Len(history) : history[j].at + HistoryLife >= loginClock /\ history[j].ref # NoDevice
      PROVE  RecentSignIns # {} /\ ~KnownDevice(d, f)
    <2>1. PICK h \in RecentSignIns : h.ref # NoDevice
        BY <1>7 DEF RecentSignIns, Completed
    <2>. QED
        BY <1>7, <2>1 DEF KnownDevice
<1>8. q.rows <= Len(history)
    BY <1>1, <1>4
<1>9. q.source.trusted <=> q.device # NoDevice
    BY <1>4
<1>10. q.source.knownIp => \E j \in 1..q.rows : history[j].net = q.net
    BY <1>4, <1>6
<1>. QED
    BY <1>3, <1>4, <1>5, <1>7, <1>8, <1>9, <1>10 DEF StillSo

\* A failure counted, and the lock it may set.
LEMMA FailureCounted ==
    ASSUME GuardIInv
    PROVE  /\ Count \in Nat /\ Lock \in Nat /\ loginClock + Lockout \in Nat
           /\ LockActive => Lock = lockedUntil
           /\ Lock <= loginClock + Lockout /\ lockedUntil <= loginClock + Lockout
           /\ loginClock \in Nat /\ lockedUntil \in Nat
BY LoginGuardAssumption DEF GuardIInv, GuardTypeOK, LocksAreBounded, Count, Lock, LockActive

LEMMA GuardStep == GuardIInv /\ [GuardNext]_guardVars => GuardIInv' /\ SmartStep
<1>. SUFFICES ASSUME GuardIInv, [GuardNext]_guardVars PROVE GuardIInv' /\ SmartStep
    OBVIOUS
<1>1. GuardTypeOK /\ NewBrowsersAreAnnounced /\ TokensAreEarned /\ AssessedBefore /\ AssessmentsHold
    BY DEF GuardIInv
<1>2. history \in Seq(SignInEvent) /\ Len(history) \in Nat /\ loginClock \in Nat
    BY <1>1, LoginGuardAssumption DEF GuardTypeOK
<1>3. NoLogin.step # "assessed"
    BY DEF NoLogin
<1>4. ASSUME UNCHANGED <<history, tokens, assessed>>, loginClock' \in 0..LastTime,
             loginClock' >= loginClock, failed' \in Nat, lockedUntil' \in Nat,
             lockedUntil' <= loginClock' + Lockout
      PROVE  GuardIInv' /\ SmartStep
    <2>1. GuardTypeOK'
        BY <1>1, <1>4 DEF GuardTypeOK
    <2>2. loginClock' \in Nat
        BY <1>4, LoginGuardAssumption
    <2>3. AssessmentsHold'
        BY <1>1, <1>2, <1>4, <2>2, OtherAssessments DEF AssessmentsHold
    <2>4. NewBrowsersAreAnnounced' /\ TokensAreEarned' /\ AssessedBefore' /\ LocksAreBounded'
        BY <1>1, <1>4 DEF NewBrowsersAreAnnounced, TokensAreEarned, AssessedBefore, LocksAreBounded
    <2>5. SmartStep
        BY <1>3, <1>4 DEF SmartStep
    <2>. QED
        BY <2>1, <2>3, <2>4, <2>5 DEF GuardIInv
<1>5. CASE GuardTick
    <2>1. loginClock' \in 0..LastTime /\ loginClock' >= loginClock
        BY <1>2, <1>5, LoginGuardAssumption DEF GuardTick
    <2>2. lockedUntil' \in Nat /\ failed' \in Nat /\ lockedUntil' <= loginClock' + Lockout
        BY <1>1, <1>2, <1>5, <2>1, LoginGuardAssumption, FailureCounted DEF GuardTick, GuardTypeOK
    <2>. QED
        BY <1>4, <1>5, <2>1, <2>2 DEF GuardTick
<1>6. CASE PasswordReset
    <2>1. loginClock' \in 0..LastTime /\ loginClock' >= loginClock /\ 0 <= loginClock' + Lockout
        BY <1>1, <1>2, <1>6, LoginGuardAssumption DEF PasswordReset, GuardTypeOK
    <2>. QED
        BY <1>4, <1>6, <2>1 DEF PasswordReset
<1>7. CASE UNCHANGED guardVars
    <2>1. loginClock' \in 0..LastTime /\ loginClock' >= loginClock /\ failed' \in Nat
        BY <1>1, <1>2, <1>7 DEF guardVars, GuardTypeOK
    <2>2. lockedUntil' \in Nat /\ lockedUntil' <= loginClock' + Lockout
        BY <1>7, FailureCounted DEF guardVars
    <2>. QED
        BY <1>4, <1>7, <2>1, <2>2 DEF guardVars
<1>8. ASSUME NEW r \in LoginRequests, NEW n \in Nets, NEW f \in Families,
             NEW d \in 0..MaxSignIns + 1, NEW right \in BOOLEAN, Assess(r, n, f, d, right)
      PROVE  GuardIInv' /\ SmartStep
    <2>1. PICK q : q = [step |-> "assessed", net |-> n, family |-> f, device |-> d, right |-> right,
                        rows |-> Len(history), source |-> Source(n, d, f)]
        OBVIOUS
    <2>2. /\ assessed' = [assessed EXCEPT ![r] = q]
          /\ UNCHANGED <<loginClock, failed, lockedUntil, history, tokens>>
        BY <1>8, <2>1 DEF Assess
    <2>3. q \in AssessedLogin /\ StillSo(q, history, loginClock) /\ q.step = "assessed"
        BY <1>8, <2>1, SourceIsSound DEF Assess
    <2>4. /\ assessed'[r] = q
          /\ \A x \in LoginRequests : x # r => assessed'[x] = assessed[x]
          /\ assessed' \in [LoginRequests -> AssessedLogin \cup {NoLogin}]
        BY <1>1, <2>2, <2>3 DEF GuardTypeOK
    <2>5. GuardTypeOK'
        BY <1>1, <2>2, <2>4 DEF GuardTypeOK
    <2>6. AssessmentsHold'
        BY <1>1, <2>2, <2>3, <2>4 DEF AssessmentsHold
    <2>7. NewBrowsersAreAnnounced' /\ TokensAreEarned' /\ AssessedBefore'
        BY <1>1, <2>2 DEF NewBrowsersAreAnnounced, TokensAreEarned, AssessedBefore
    <2>8. LocksAreBounded'
        BY <2>2, FailureCounted DEF LocksAreBounded
    <2>9. SmartStep
        BY <1>2, <1>3, <2>2, <2>3, <2>4, FailureCounted DEF SmartStep
    <2>. QED
        BY <2>5, <2>6, <2>7, <2>8, <2>9 DEF GuardIInv
<1>9. ASSUME NEW r \in LoginRequests, RefuseLogin(r) PROVE GuardIInv' /\ SmartStep
    <2>1. PICK q : q = assessed[r]
        OBVIOUS
    <2>2. /\ q.step = "assessed" /\ (~q.right \/ IsLocked(q.source))
          /\ assessed' = [assessed EXCEPT ![r] = NoLogin]
          /\ UNCHANGED <<loginClock, history, tokens>>
          /\ \/ IsLocked(q.source) /\ UNCHANGED <<failed, lockedUntil>>
             \/ /\ ~IsLocked(q.source) /\ failed' = Count + 1
                /\ lockedUntil' = IF Count + 1 >= FailedLimit THEN loginClock + Lockout ELSE Lock
        BY <1>9, <2>1 DEF RefuseLogin
    <2>3. /\ assessed'[r] = NoLogin
          /\ \A x \in LoginRequests : x # r => assessed'[x] = assessed[x]
          /\ assessed' \in [LoginRequests -> AssessedLogin \cup {NoLogin}]
        BY <1>1, <2>2 DEF GuardTypeOK
    <2>4. /\ failed' \in Nat /\ lockedUntil' \in Nat /\ lockedUntil' <= loginClock + Lockout
          /\ LockActive => lockedUntil' >= lockedUntil
        <3>1. CASE UNCHANGED <<failed, lockedUntil>>
            BY <1>1, <3>1, FailureCounted DEF GuardTypeOK
        <3>2. CASE failed' = Count + 1
                   /\ lockedUntil' = IF Count + 1 >= FailedLimit THEN loginClock + Lockout ELSE Lock
            BY <3>2, FailureCounted, LoginGuardAssumption
        <3>. QED
            BY <2>2, <3>1, <3>2
    <2>5. GuardTypeOK'
        BY <1>1, <2>2, <2>3, <2>4 DEF GuardTypeOK
    <2>6. AssessmentsHold'
        BY <1>1, <2>2, <2>3 DEF AssessmentsHold
    <2>7. NewBrowsersAreAnnounced' /\ TokensAreEarned' /\ AssessedBefore' /\ LocksAreBounded'
        BY <1>1, <2>2, <2>4
           DEF NewBrowsersAreAnnounced, TokensAreEarned, AssessedBefore, LocksAreBounded
    <2>8. SmartStep
        <3>1. ~(q.right /\ Familiar(q.source))
            BY <2>2 DEF IsLocked
        <3>2. ASSUME NEW x \in LoginRequests, assessed[x].step = "assessed", assessed'[x] = NoLogin
              PROVE  ~(assessed[x].right /\ Familiar(assessed[x].source))
            BY <1>3, <2>1, <2>3, <3>1, <3>2
        <3>. QED
            BY <1>2, <2>2, <2>4, <3>2 DEF SmartStep
    <2>. QED
        BY <2>5, <2>6, <2>7, <2>8 DEF GuardIInv
<1>10. ASSUME NEW r \in LoginRequests, FinishSignIn(r) PROVE GuardIInv' /\ SmartStep
    <2>1. PICK q : q = assessed[r]
        OBVIOUS
    <2>2. PICK d : d = IF q.device # NoDevice THEN q.device ELSE NewDeviceId
        OBVIOUS
    <2>3. PICK h : h = [net |-> q.net, family |-> q.family, at |-> loginClock, ref |-> d,
                        token |-> q.device # NoDevice,
                        alerts |-> (IF IsNewDevice(q.source) THEN {"new_device"} ELSE {})
                                   \cup (IF Travel(q.net) THEN {"travel"} ELSE {}),
                        after |-> q.rows]
        OBVIOUS
    <2>4. /\ q.step = "assessed" /\ Len(history) < MaxSignIns /\ q.right /\ ~IsLocked(q.source)
          /\ failed' = AfterSuccess[1] /\ lockedUntil' = AfterSuccess[2]
          /\ history' = Append(history, h)
          /\ tokens' = tokens \cup {[device |-> d, issued |-> loginClock]}
          /\ assessed' = [assessed EXCEPT ![r] = NoLogin]
          /\ UNCHANGED loginClock
        BY <1>10, <2>1, <2>2, <2>3 DEF FinishSignIn
    <2>5. q \in AssessedLogin /\ q # NoLogin /\ StillSo(q, history, loginClock)
        BY <1>1, <2>1, <2>4, AssessedTypes DEF AssessmentsHold
    <2>6. d \in 1..MaxSignIns + 1
        <3>1. q.device \in 0..MaxSignIns + 1
            BY <2>5 DEF AssessedLogin
        <3>2. NewDeviceId \in 1..MaxSignIns + 1
            BY <1>2, <2>4, LoginGuardAssumption DEF NewDeviceId
        <3>. QED
            BY <2>2, <3>1, <3>2, LoginGuardAssumption DEF NoDevice
    <2>7. q.rows \in Nat /\ q.rows <= Len(history) /\ q.rows \in 0..MaxSignIns
        BY <1>2, <2>4, <2>5, LoginGuardAssumption DEF AssessedLogin, StillSo
    <2>8. h \in SignInEvent
        <3>1. q.net \in Nets /\ q.family \in Families /\ (q.device # NoDevice) \in BOOLEAN
            BY <2>5 DEF AssessedLogin
        <3>2. loginClock \in 0..LastTime /\ d \in 0..MaxSignIns + 1
            BY <1>1, <2>6, LoginGuardAssumption DEF GuardTypeOK
        <3>3. ((IF IsNewDevice(q.source) THEN {"new_device"} ELSE {})
                \cup (IF Travel(q.net) THEN {"travel"} ELSE {})) \in SUBSET {"new_device", "travel"}
            OBVIOUS
        <3>. QED
            BY <2>3, <2>7, <3>1, <3>2, <3>3 DEF SignInEvent
    <2>9. /\ h.net = q.net /\ h.at = loginClock /\ h.ref = d /\ h.after = q.rows
          /\ h.token = (q.device # NoDevice)
          /\ IsNewDevice(q.source) => "new_device" \in h.alerts
        BY <2>3
    <2>10. /\ history'[Len(history) + 1] = h
           /\ \A j \in 1..Len(history) : history'[j] = history[j]
           /\ Len(history') = Len(history) + 1
        BY <1>2, <2>4, <2>8
    <2>11. IsAnnounced(history', Len(history) + 1)
        <3>1. Len(history) + 1 - 1 = Len(history)
            BY <1>2
        <3>2. \A j \in 1..h.after : history'[j] = history[j]
            BY <1>2, <2>7, <2>9, <2>10
        <3>3. h.token => \E j \in 1..Len(history) : history'[j].ref = h.ref
            BY <2>2, <2>5, <2>9, <2>10 DEF StillSo
        <3>4. ASSUME ~h.token,
                     \E j \in 1..h.after : history'[j].at + HistoryLife >= h.at /\ history'[j].ref # NoDevice
              PROVE  "new_device" \in h.alerts
            BY <2>5, <2>9, <3>2, <3>4 DEF StillSo
        <3>. QED
            BY <2>10, <3>1, <3>3, <3>4 DEF IsAnnounced
    <2>12. /\ history' \in Seq(SignInEvent) /\ NewBrowsersAreAnnounced' /\ AssessedBefore'
        BY <2>4, <2>7, <2>8, <2>9, <2>11, SignInAdded
    <2>13. /\ assessed'[r] = NoLogin
           /\ \A x \in LoginRequests : x # r => assessed'[x] = assessed[x]
           /\ assessed' \in [LoginRequests -> AssessedLogin \cup {NoLogin}]
        BY <1>1, <2>4 DEF GuardTypeOK
    <2>14. /\ failed' \in Nat /\ lockedUntil' \in Nat /\ lockedUntil' <= loginClock + Lockout
           /\ LockActive => lockedUntil' = lockedUntil
        BY <1>1, <2>4, FailureCounted DEF AfterSuccess, GuardTypeOK
    <2>15. GuardTypeOK'
        <3>1. [device |-> d, issued |-> loginClock] \in [device : 1..MaxSignIns + 1, issued : 0..LastTime]
            BY <1>1, <2>6 DEF GuardTypeOK
        <3>. QED
            BY <1>1, <2>4, <2>12, <2>13, <2>14, <3>1 DEF GuardTypeOK
    <2>16. AssessmentsHold'
        <3>1. Len(history') >= Len(history) /\ loginClock' \in Nat /\ loginClock' >= loginClock
            BY <1>2, <2>4, <2>10
        <3>2. ASSUME NEW x \in LoginRequests, assessed'[x] # NoLogin
              PROVE  StillSo(assessed'[x], history', loginClock')
            <4>1. assessed'[x] = assessed[x]
                BY <2>13, <3>2
            <4>. QED
                BY <1>1, <2>10, <2>12, <3>1, <3>2, <4>1, OtherAssessments
        <3>. QED
            BY <3>2 DEF AssessmentsHold
    <2>17. TokensAreEarned'
        <3>1. ASSUME NEW t \in tokens PROVE \E j \in 1..Len(history') : history'[j].ref = t.device
            <4>1. PICK j \in 1..Len(history) : history[j].ref = t.device
                BY <1>1 DEF TokensAreEarned
            <4>2. j \in 1..Len(history') /\ history'[j].ref = t.device
                BY <1>2, <2>10, <4>1
            <4>. QED
                BY <4>2
        <3>2. Len(history) + 1 \in 1..Len(history') /\ history'[Len(history) + 1].ref = d
            BY <1>2, <2>9, <2>10
        <3>3. ASSUME NEW t \in tokens' PROVE t \in tokens \/ t.device = d
            BY <2>4
        <3>. QED
            BY <3>1, <3>2, <3>3 DEF TokensAreEarned
    <2>18. LocksAreBounded'
        BY <2>4, <2>14 DEF LocksAreBounded
    <2>19. SmartStep
        <3>1. history' # history
            BY <1>2, <2>10
        <3>2. ASSUME LockActive
              PROVE  h.token \/ \E i \in 1..h.after : history[i].net = h.net
            BY <2>4, <2>5, <2>9, <3>2 DEF IsLocked, Familiar, StillSo
        <3>3. history'[Len(history')] = h
            BY <2>10
        <3>4. LockActive => lockedUntil' >= lockedUntil
            BY <2>14, FailureCounted
        <3>. QED
            BY <3>1, <3>2, <3>3, <3>4 DEF SmartStep
    <2>. QED
        BY <2>12, <2>15, <2>16, <2>17, <2>18, <2>19 DEF GuardIInv
<1>. QED
    BY <1>5, <1>6, <1>7, <1>8, <1>9, <1>10 DEF GuardNext

\* What the password stage rests on: a device token is earned by a completed
\* sign-in, and an assessment made before the account lock is still true under it.
THEOREM GuardInvariance == GuardSpec => []GuardIInv
<1>1. GuardInit => GuardIInv
    <2>. SUFFICES ASSUME GuardInit PROVE GuardIInv
        OBVIOUS
    <2>1. 0 \in 0..LastTime /\ 0 \in 0..MaxSignIns /\ 0 \in 0..MaxSignIns + 1 /\ 0 <= 0 + Lockout
        BY LoginGuardAssumption
    <2>2. /\ history \in Seq(SignInEvent)
          /\ Len(history) = 0 \/ (Len(history) = 1 /\ history[1].token = FALSE
                                    /\ history[1].ref = NoDevice /\ history[1].after = 0)
        <3>1. CASE history = <<>>
            BY <3>1
        <3>2. CASE \E n \in Nets, f \in Families :
                      history = <<[net |-> n, family |-> f, at |-> 0, ref |-> NoDevice,
                                   token |-> FALSE, alerts |-> {}, after |-> 0]>>
            <4>1. PICK n \in Nets, f \in Families :
                      history = <<[net |-> n, family |-> f, at |-> 0, ref |-> NoDevice,
                                   token |-> FALSE, alerts |-> {}, after |-> 0]>>
                BY <3>2
            <4>2. [net |-> n, family |-> f, at |-> 0, ref |-> NoDevice,
                   token |-> FALSE, alerts |-> {}, after |-> 0] \in SignInEvent
                BY <2>1 DEF SignInEvent, NoDevice
            <4>. QED
                BY <4>1, <4>2
        <3>. QED
            BY <3>1, <3>2 DEF GuardInit
    <2>3. GuardTypeOK
        BY <2>1, <2>2 DEF GuardInit, GuardTypeOK
    <2>4. NewBrowsersAreAnnounced
        BY <2>2 DEF NewBrowsersAreAnnounced, IsAnnounced
    <2>5. TokensAreEarned /\ AssessedBefore /\ AssessmentsHold /\ LocksAreBounded
        BY <2>1, <2>2 DEF GuardInit, TokensAreEarned, AssessedBefore, AssessmentsHold, LocksAreBounded
    <2>. QED
        BY <2>3, <2>4, <2>5 DEF GuardIInv
<1>. QED
    BY <1>1, GuardStep, PTL DEF GuardSpec

\* LockoutIsSmart, of every behaviour of the password stage in login: no right
\* password from a familiar source is refused by a lock, no active lock is
\* shortened, and no new browser signs in unannounced.
THEOREM LockoutStaysSmart == GuardSpec => LockoutIsSmart
<1>1. GuardIInv => GuardTypeOK /\ NewBrowsersAreAnnounced
    BY DEF GuardIInv
<1>2. GuardIInv /\ [GuardNext]_guardVars => [SmartStep]_guardVars
    BY GuardStep
<1>. QED
    BY <1>1, <1>2, GuardInvariance, PTL DEF GuardSpec, LockoutIsSmart

-----------------------------------------------------------------------------
(* The tokens of a browser.                                                *)

\* A set of numbers has a least one.
LEMMA LeastNumber ==
    ASSUME NEW S \in SUBSET Nat, S # {}
    PROVE  \E x \in S : \A y \in S : x <= y
<1>1. PICK x \in S : \A y \in S : ~(<<y, x>> \in OpToRel(<, Nat))
    BY NatLessThanWellFounded, WFMin, Zenon
<1>2. ASSUME NEW y \in S, y < x PROVE FALSE
    <2>1. <<y, x>> \in Nat \X Nat /\ <<y, x>>[1] = y /\ <<y, x>>[2] = x
        OBVIOUS
    <2>2. <<y, x>> \in OpToRel(<, Nat)
        BY <1>2, <2>1 DEF OpToRel
    <2>. QED
        BY <1>1, <2>2
<1>. QED
    BY <1>2

\* Rotations lead to later tokens, so following them comes to an end ...
LEMMA RotationsEnd ==
    ASSUME TabTypeOK, KeptAreIssued, NEW n \in Tokens
    PROVE  Current(n) \in Reach(n)
<1>1. n \in Reach(n) /\ Reach(n) \subseteq Tokens
    BY DEF Reach
<1>2. \A k \in Tokens : k \in Nat /\ MaxToken - k \in Nat
    BY UiTokensAssumption DEF Tokens
<1>3. PICK left : left = {MaxToken - k : k \in Reach(n)}
    OBVIOUS
<1>4. left \in SUBSET Nat /\ left # {}
    BY <1>1, <1>2, <1>3
<1>5. PICK d \in left : \A e \in left : d <= e
    BY <1>4, LeastNumber
<1>6. PICK k \in Reach(n) : d = MaxToken - k
    BY <1>3, <1>5
<1>7. ASSUME successor[k] # 0 PROVE FALSE
    <2>1. k \in Tokens /\ successor[k] \in Tokens /\ k < successor[k]
        BY <1>1, <1>6, <1>7, UiTokensAssumption DEF TabTypeOK, KeptAreIssued, Issued
    <2>2. successor[k] \in Reach(n)
        BY <1>6, <1>7, <2>1 DEF Reach, Followed
    <2>3. MaxToken - successor[k] \in left
        BY <1>3, <2>2
    <2>. QED
        BY <1>2, <1>5, <1>6, <2>1, <2>3, UiTokensAssumption
<1>8. k \in Stops(n) /\ Stops(n) \in SUBSET Nat /\ Stops(n) \subseteq Reach(n)
    BY <1>1, <1>2, <1>6, <1>7 DEF Stops
<1>9. \E x \in Stops(n) : \A y \in Stops(n) : x <= y
    BY <1>8, LeastNumber
<1>10. Current(n) \in Stops(n)
    BY <1>9 DEF Current
<1>. QED
    BY <1>8, <1>10

\* ... and stays in the login it started from.
LEMMA CurrentStays ==
    ASSUME TabTypeOK, KeptAreIssued, LoginsStayApart, NEW n \in Tokens
    PROVE  Current(n) \in Tokens /\ login[Current(n)] = login[n]
<1>1. PICK S : S = {k \in Tokens : login[k] = login[n]}
    OBVIOUS
<1>2. S \in SUBSET Tokens /\ n \in S
    BY <1>1
<1>3. Followed(S)
    <2>. SUFFICES ASSUME NEW k \in S, successor[k] # 0 PROVE successor[k] \in S
        BY DEF Followed
    <2>1. k \in Tokens /\ login[k] = login[n]
        BY <1>1
    <2>2. successor[k] \in Tokens /\ login[successor[k]] = login[k]
        BY <2>1 DEF KeptAreIssued, Issued, LoginsStayApart
    <2>. QED
        BY <1>1, <2>1, <2>2
<1>4. Current(n) \in S
    BY <1>2, <1>3, RotationsEnd DEF Reach
<1>. QED
    BY <1>1, <1>4

\* An issued token leads to an issued one.
LEMMA CurrentIsIssued ==
    ASSUME TabIInv, NEW n \in Issued
    PROVE  Current(n) \in Issued /\ login[Current(n)] = login[n]
<1>1. n \in Tokens /\ login[n] # 0
    BY DEF Issued
<1>2. Current(n) \in Tokens /\ login[Current(n)] = login[n]
    BY <1>1, CurrentStays DEF TabIInv
<1>. QED
    BY <1>1, <1>2 DEF Issued

\* What is live and what was ended keep their types when a token is turned away.
LEMMA TurnedAway ==
    ASSUME TabTypeOK, NEW n \in Issued, TurnAway(n)
    PROVE  live' \subseteq Tokens /\ stolen' \subseteq 1..MaxLogin
<1>1. login[n] \in 1..MaxLogin
    BY UiTokensAssumption DEF TabTypeOK, Issued
<1>2. live \subseteq Tokens /\ stolen \subseteq 1..MaxLogin
    BY DEF TabTypeOK
<1>. QED
    BY <1>1, <1>2 DEF TurnAway

\* The next token is later than all that were issued, and changes nothing of them.
LEMMA NextIsIssued ==
    ASSUME TabIInv, NEW m, IsNext(m), NEW v \in 1..MaxLogin, login' = [login EXCEPT ![m] = v]
    PROVE  /\ m \in Tokens /\ Issued' = Issued \cup {m} /\ login'[m] = v
           /\ login' \in [Tokens -> 0..MaxLogin]
           /\ \A n \in Issued : n \in Tokens /\ n < m /\ login'[n] = login[n]
           /\ IssuedInOrder'
<1>1. m \in Tokens /\ m \notin Issued /\ login \in [Tokens -> 0..MaxLogin] /\ v # 0 /\ v \in 0..MaxLogin
    BY UiTokensAssumption DEF TabIInv, TabTypeOK, IsNext
<1>2. /\ login' \in [Tokens -> 0..MaxLogin] /\ login'[m] = v
      /\ \A n \in Tokens : n # m => login'[n] = login[n]
    BY <1>1
<1>3. Issued' = Issued \cup {m}
    BY <1>1, <1>2 DEF Issued
<1>4. ASSUME NEW n \in Issued PROVE n \in Tokens /\ n < m /\ login'[n] = login[n]
    <2>1. n \in Tokens /\ n # m
        BY <1>1 DEF Issued
    <2>2. n \in Nat /\ m \in Nat /\ n >= 1 /\ m >= 1
        BY <1>1, <2>1, UiTokensAssumption DEF Tokens
    <2>3. CASE m < n
        <3>1. m \in 1..n
            BY <2>2, <2>3
        <3>. QED
            BY <1>1, <3>1 DEF TabIInv, IssuedInOrder
    <2>. QED
        BY <1>2, <2>1, <2>2, <2>3
<1>5. IssuedInOrder'
    <2>. SUFFICES ASSUME NEW n \in Issued \cup {m}, NEW k \in 1..n PROVE k \in Issued \cup {m}
        BY <1>3 DEF IssuedInOrder
    <2>1. CASE n \in Issued
        BY <2>1 DEF TabIInv, IssuedInOrder
    <2>2. CASE n = m
        <3>1. m \in Nat
            BY <1>1, UiTokensAssumption DEF Tokens
        <3>2. k = m \/ k \in 1..m - 1
            BY <2>2, <3>1
        <3>. QED
            BY <3>2 DEF IsNext
    <2>. QED
        BY <2>1, <2>2
<1>. QED
    BY <1>1, <1>2, <1>3, <1>4, <1>5

\* Only a moved token moves the cookie, and within its login.
LEMMA CookieStays == TabIInv => SameLoginCookie
<1>. SUFFICES ASSUME TabIInv, NEW t \in Tabs
     PROVE  /\ RotateToken(t) /\ saved # 0 => login[saved'] = login[saved]
            /\ Publish(t) /\ tab[t] # 0 => login[tab'[t]] = login[tab[t]]
    BY DEF SameLoginCookie
<1>1. renewal[t].pc # "idle" => login[renewal[t].got] = login[renewal[t].from]
    BY DEF TabIInv, LoginsStayApart
<1>2. ASSUME RotateToken(t) PROVE login[saved'] = login[saved]
    BY <1>1, <1>2 DEF RotateToken, MovedTo
<1>3. ASSUME Publish(t) PROVE login[tab'[t]] = login[tab[t]]
    <2>1. tab \in [Tabs -> 0..MaxToken]
        BY DEF TabIInv, TabTypeOK
    <2>. QED
        BY <1>1, <1>3, <2>1 DEF Publish
<1>. QED
    BY <1>2, <1>3

\* A step that issues no token keeps what is said of those that were.
LEMMA NoneIssued ==
    ASSUME TabIInv, login' = login
    PROVE  Issued' = Issued /\ IssuedInOrder'
BY DEF TabIInv, IssuedInOrder, Issued

\* A step of the tabs and of the API: rotations and renewals stay, no token is issued.
LEMMA RenewalsStay ==
    ASSUME TabIInv, UNCHANGED <<renewal, login, successor>>,
           tab' \in [Tabs -> 0..MaxToken], live' \subseteq Tokens, rotated' \subseteq Tokens,
           stolen' \subseteq 1..MaxLogin, ticket' \subseteq Tokens, ended' \subseteq Tokens,
           saved' \in 0..MaxToken,
           \A t \in Tabs : tab'[t] # 0 => tab'[t] \in Issued,
           saved' # 0 => saved' \in Issued, ticket' \subseteq Issued
    PROVE  TabIInv'
<1>1. TabTypeOK /\ LoginsStayApart /\ KeptAreIssued
    BY DEF TabIInv
<1>2. Issued' = Issued /\ IssuedInOrder'
    BY NoneIssued
<1>3. TabTypeOK'
    BY <1>1 DEF TabTypeOK, Tokens
<1>4. LoginsStayApart'
    BY <1>1 DEF LoginsStayApart, Tokens
<1>5. KeptAreIssued'
    BY <1>1, <1>2 DEF KeptAreIssued, Tokens
<1>. QED
    BY <1>2, <1>3, <1>4, <1>5 DEF TabIInv

\* A token that is issued leaves rotations and renewals as they are.
LEMMA IssuedApart ==
    ASSUME TabIInv, NEW m, IsNext(m), NEW v \in 1..MaxLogin, login' = [login EXCEPT ![m] = v],
           successor' = successor
    PROVE  /\ \A n \in Tokens : successor'[n] # 0 => login'[successor'[n]] = login'[n]
           /\ \A t \in Tabs : renewal[t].pc # "idle" =>
                login'[renewal[t].got] = login'[renewal[t].from]
<1>1. \A n \in Issued : login'[n] = login[n]
    BY NextIsIssued
<1>2. LoginsStayApart /\ KeptAreIssued
    BY DEF TabIInv
<1>. QED
    BY <1>1, <1>2 DEF LoginsStayApart, KeptAreIssued

LEMMA TabStep == TabIInv /\ [TabNext]_tabVars => TabIInv'
<1>. SUFFICES ASSUME TabIInv, [TabNext]_tabVars PROVE TabIInv'
    OBVIOUS
<1>1. TabTypeOK /\ LoginsStayApart /\ IssuedInOrder /\ KeptAreIssued
    BY DEF TabIInv
<1>2. /\ tab \in [Tabs -> 0..MaxToken] /\ live \subseteq Tokens /\ rotated \subseteq Tokens
      /\ stolen \subseteq 1..MaxLogin /\ ticket \subseteq Tokens /\ ended \subseteq Tokens
      /\ saved \in 0..MaxToken
    BY <1>1 DEF TabTypeOK
<1>3. /\ \A t \in Tabs : tab[t] # 0 => tab[t] \in Issued
      /\ saved # 0 => saved \in Issued
      /\ ticket \subseteq Issued
    BY <1>1 DEF KeptAreIssued
<1>4. Issued \subseteq Tokens /\ \A n \in Issued : n \in 0..MaxToken /\ login[n] \in 1..MaxLogin
    BY <1>1, UiTokensAssumption DEF Issued, Tokens, TabTypeOK
<1>5. ASSUME NEW t \in Tabs, DoLogin(t) PROVE TabIInv'
    <2>1. PICK logins : logins = {login[k] : k \in Issued}
        OBVIOUS
    <2>2. Cardinality(logins) \in Nat
        <3>1. logins \subseteq 1..MaxLogin
            BY <1>4, <2>1
        <3>2. IsFiniteSet(1..MaxLogin)
            BY FS_Interval, UiTokensAssumption
        <3>. QED
            BY <3>1, <3>2, FS_Subset, FS_CardinalityType
    <2>3. PICK v : v = Cardinality(logins) + 1
        OBVIOUS
    <2>4. PICK n \in Tokens :
              /\ Cardinality(logins) < MaxLogin /\ IsNext(n)
              /\ login' = [login EXCEPT ![n] = v]
              /\ live' = live \cup {n} /\ tab' = [tab EXCEPT ![t] = n]
        BY <1>5, <2>1, <2>3 DEF DoLogin
    <2>5. UNCHANGED <<renewal, rotated, stolen, successor, ticket, saved, ended>>
        BY <1>5 DEF DoLogin
    <2>6. v \in 1..MaxLogin
        BY <2>2, <2>3, <2>4, UiTokensAssumption
    <2>7. /\ Issued' = Issued \cup {n} /\ login'[n] = v
          /\ login' \in [Tokens -> 0..MaxLogin] /\ IssuedInOrder'
          /\ \A k \in Issued : k < n /\ login'[k] = login[k]
        BY <2>4, <2>6, NextIsIssued
    <2>8. /\ tab' \in [Tabs -> 0..MaxToken]
          /\ \A x \in Tabs : tab'[x] # 0 => tab'[x] \in Issued'
        BY <1>2, <1>3, <2>4, <2>7, UiTokensAssumption DEF Tokens
    <2>9. TabTypeOK'
        BY <1>1, <2>4, <2>5, <2>7, <2>8 DEF TabTypeOK, Tokens
    <2>10. LoginsStayApart'
        BY <2>4, <2>5, <2>6, IssuedApart DEF LoginsStayApart, Tokens
    <2>11. KeptAreIssued'
        BY <1>1, <2>5, <2>7, <2>8 DEF KeptAreIssued, Tokens
    <2>. QED
        BY <2>7, <2>9, <2>10, <2>11 DEF TabIInv
<1>6. ASSUME NEW t \in Tabs, RememberSession(t) PROVE TabIInv'
    BY <1>2, <1>3, <1>4, <1>6, RenewalsStay DEF RememberSession
<1>7. ASSUME NEW n \in Tokens, NEW arrives \in BOOLEAN, Attach(n, arrives) PROVE TabIInv'
    <2>1. saved' \in 0..MaxToken /\ (saved' # 0 => saved' \in Issued) /\ ticket' \subseteq Issued
        BY <1>3, <1>4, <1>7, UiTokensAssumption DEF Attach
    <2>. QED
        BY <1>2, <1>3, <1>4, <1>7, <2>1, RenewalsStay DEF Attach
<1>8. ASSUME NEW n \in Tokens, TicketExpires(n) PROVE TabIInv'
    BY <1>2, <1>3, <1>4, <1>8, RenewalsStay DEF TicketExpires
<1>9. ASSUME NEW t \in Tabs, CallApi(t) PROVE TabIInv'
    <2>1. tab[t] \in Issued /\ TurnAway(Current(tab[t])) /\ ended' = ended \cup {tab[t]}
          /\ UNCHANGED <<tab, renewal, login, rotated, successor, ticket, saved>>
        BY <1>3, <1>9 DEF CallApi
    <2>2. live' \subseteq Tokens /\ stolen' \subseteq 1..MaxLogin
        BY <1>1, <2>1, CurrentIsIssued, TurnedAway
    <2>3. ended' \subseteq Tokens
        BY <1>2, <1>4, <2>1
    <2>. QED
        BY <1>2, <1>3, <2>1, <2>2, <2>3, RenewalsStay
<1>10. ASSUME NEW t \in Tabs, ExtendSession(t) PROVE TabIInv'
    <2>1. PICK n : n = Current(tab[t])
        OBVIOUS
    <2>2. PICK m \in Tokens :
              /\ IsNext(m) /\ login' = [login EXCEPT ![m] = login[n]]
              /\ live' = (live \ {n}) \cup {m}
              /\ renewal' = [renewal EXCEPT ![t] = [pc |-> "rotate", from |-> tab[t], used |-> n,
                                                   got |-> m]]
        BY <1>10, <2>1 DEF ExtendSession
    <2>3. tab[t] # 0 /\ rotated' = rotated \cup {n}
          /\ UNCHANGED <<tab, stolen, successor, ticket, saved, ended>>
        BY <1>10, <2>1 DEF ExtendSession
    <2>4. tab[t] \in Issued /\ n \in Issued /\ login[n] = login[tab[t]]
        BY <1>3, <2>1, <2>3, CurrentIsIssued
    <2>5. PICK v \in 1..MaxLogin : v = login[n]
        BY <1>4, <2>4
    <2>6. /\ Issued' = Issued \cup {m} /\ login'[m] = v
          /\ login' \in [Tokens -> 0..MaxLogin] /\ IssuedInOrder'
          /\ \A k \in Issued : k < m /\ login'[k] = login[k]
        BY <2>2, <2>5, NextIsIssued
    <2>7. /\ renewal'[t].pc = "rotate" /\ renewal'[t].from = tab[t] /\ renewal'[t].got = m
          /\ \A x \in Tabs : x # t => renewal'[x] = renewal[x]
        BY <1>1, <2>2 DEF TabTypeOK
    <2>8. TabTypeOK'
        <3>1. [pc |-> "rotate", from |-> tab[t], used |-> n, got |-> m]
                \in [pc : {"idle", "rotate", "publish"}, from : 0..MaxToken, used : 0..MaxToken,
                     got : 0..MaxToken]
            BY <1>2, <1>4, <2>4, UiTokensAssumption DEF Tokens
        <3>2. renewal' \in [Tabs -> [pc : {"idle", "rotate", "publish"}, from : 0..MaxToken,
                                     used : 0..MaxToken, got : 0..MaxToken]]
            BY <1>1, <2>2, <3>1 DEF TabTypeOK
        <3>3. live' \subseteq Tokens /\ rotated' \subseteq Tokens
            BY <1>2, <1>4, <2>2, <2>3, <2>4
        <3>. QED
            BY <1>1, <2>3, <2>6, <3>2, <3>3 DEF TabTypeOK, Tokens
    <2>9. LoginsStayApart'
        <3>1. /\ \A k \in Tokens : successor'[k] # 0 => login'[successor'[k]] = login'[k]
              /\ \A x \in Tabs : renewal[x].pc # "idle" =>
                   login'[renewal[x].got] = login'[renewal[x].from]
            BY <2>2, <2>3, <2>5, IssuedApart
        <3>2. login'[m] = login'[tab[t]]
            BY <2>4, <2>5, <2>6
        <3>3. ASSUME NEW x \in Tabs, renewal'[x].pc # "idle"
              PROVE  login'[renewal'[x].got] = login'[renewal'[x].from]
            BY <2>7, <3>1, <3>2, <3>3
        <3>. QED
            BY <3>1, <3>3 DEF LoginsStayApart, Tokens
    <2>10. KeptAreIssued'
        <3>1. ASSUME NEW x \in Tabs, renewal'[x].pc # "idle"
              PROVE  /\ renewal'[x].from \in Issued' /\ renewal'[x].got \in Issued'
                     /\ renewal'[x].from < renewal'[x].got
            BY <1>1, <2>4, <2>6, <2>7, <3>1 DEF KeptAreIssued
        <3>. QED
            BY <1>1, <2>3, <2>6, <3>1 DEF KeptAreIssued, Tokens
    <2>. QED
        BY <2>6, <2>8, <2>9, <2>10 DEF TabIInv
<1>11. ASSUME NEW t \in Tabs, RotateToken(t) PROVE TabIInv'
    <2>1. PICK c : c = renewal[t]
        OBVIOUS
    <2>2. PICK done : done = [pc |-> "publish", from |-> c.from, used |-> 0, got |-> c.got]
        OBVIOUS
    <2>3. c \in [pc : {"idle", "rotate", "publish"}, from : 0..MaxToken, used : 0..MaxToken,
                 got : 0..MaxToken]
        BY <1>1, <2>1 DEF TabTypeOK
    <2>4. /\ c.pc = "rotate"
          /\ successor' = [successor EXCEPT ![c.from] = c.got] \/ successor' = successor
          /\ saved' = (IF saved = c.from THEN c.got ELSE saved)
          /\ ticket' = (IF c.from \in ticket THEN (ticket \ {c.from}) \cup {c.got} ELSE ticket)
          /\ UNCHANGED <<tab, login, live, rotated, stolen, ended>>
        BY <1>11, <2>1 DEF RotateToken, MovedTo
    <2>5. renewal' = [renewal EXCEPT ![t] = done]
        <3>1. renewal' = [renewal EXCEPT ![t] = [renewal[t] EXCEPT !.pc = "publish", !.used = 0]]
            BY <1>1, <1>11 DEF RotateToken, TabTypeOK
        <3>2. PICK e : e = [c EXCEPT !.pc = "publish"]
            OBVIOUS
        <3>3. e = [pc |-> "publish", from |-> c.from, used |-> c.used, got |-> c.got]
            BY <2>3, <3>2
        <3>4. [e EXCEPT !.used = 0] = done
            BY <2>2, <3>3
        <3>5. [c EXCEPT !.pc = "publish", !.used = 0] = done
            BY <3>2, <3>4
        <3>. QED
            BY <2>1, <3>1, <3>5
    <2>6. /\ done.pc = "publish" /\ done.from = c.from /\ done.got = c.got
          /\ done \in [pc : {"idle", "rotate", "publish"}, from : 0..MaxToken, used : 0..MaxToken,
                       got : 0..MaxToken]
        BY <2>2, <2>3, UiTokensAssumption
    <2>7. /\ c.from \in Issued /\ c.got \in Issued /\ c.from < c.got /\ login[c.got] = login[c.from]
        BY <1>1, <2>1, <2>4 DEF KeptAreIssued, LoginsStayApart
    <2>8. /\ renewal'[t] = done /\ \A x \in Tabs : x # t => renewal'[x] = renewal[x]
          /\ renewal' \in [Tabs -> [pc : {"idle", "rotate", "publish"}, from : 0..MaxToken,
                                    used : 0..MaxToken, got : 0..MaxToken]]
        BY <1>1, <2>5, <2>6 DEF TabTypeOK
    <2>9. /\ successor' \in [Tokens -> 0..MaxToken]
          /\ \A k \in Tokens :
                successor'[k] = successor[k] \/ (k = c.from /\ successor'[k] = c.got)
        BY <1>1, <1>4, <2>3, <2>4, <2>7 DEF TabTypeOK
    <2>10. Issued' = Issued /\ IssuedInOrder'
        BY <2>4, NoneIssued
    <2>11. /\ saved' \in 0..MaxToken /\ (saved' # 0 => saved' \in Issued)
           /\ ticket' \subseteq Issued /\ ticket' \subseteq Tokens
        BY <1>2, <1>3, <1>4, <2>4, <2>7
    <2>12. TabTypeOK'
        BY <1>1, <2>4, <2>8, <2>9, <2>11 DEF TabTypeOK, Tokens
    <2>13. LoginsStayApart'
        <3>1. ASSUME NEW x \in Tabs, renewal'[x].pc # "idle"
              PROVE  login[renewal'[x].got] = login[renewal'[x].from]
            BY <1>1, <2>6, <2>7, <2>8, <3>1 DEF LoginsStayApart
        <3>2. ASSUME NEW k \in Tokens, successor'[k] # 0 PROVE login[successor'[k]] = login[k]
            BY <1>1, <2>7, <2>9, <3>2 DEF LoginsStayApart
        <3>. QED
            BY <2>4, <3>1, <3>2 DEF LoginsStayApart, Tokens
    <2>14. KeptAreIssued'
        <3>1. ASSUME NEW x \in Tabs, renewal'[x].pc # "idle"
              PROVE  /\ renewal'[x].from \in Issued /\ renewal'[x].got \in Issued
                     /\ renewal'[x].from < renewal'[x].got
            BY <1>1, <2>6, <2>7, <2>8, <3>1 DEF KeptAreIssued
        <3>2. ASSUME NEW k \in Tokens, successor'[k] # 0
              PROVE  k \in Issued /\ successor'[k] \in Issued /\ k < successor'[k]
            BY <1>1, <2>7, <2>9, <3>2 DEF KeptAreIssued
        <3>. QED
            BY <1>3, <2>4, <2>10, <2>11, <3>1, <3>2 DEF KeptAreIssued, Tokens
    <2>. QED
        BY <2>10, <2>12, <2>13, <2>14 DEF TabIInv
<1>12. ASSUME NEW t \in Tabs, Publish(t) PROVE TabIInv'
    <2>1. /\ renewal[t].pc = "publish" /\ renewal' = [renewal EXCEPT ![t] = NoRenewal]
          /\ tab' = (IF tab[t] = renewal[t].from THEN [tab EXCEPT ![t] = renewal[t].got] ELSE tab)
          /\ UNCHANGED <<login, live, rotated, stolen, successor, ticket, saved, ended>>
        BY <1>12 DEF Publish
    <2>2. Issued' = Issued /\ IssuedInOrder'
        BY <2>1, NoneIssued
    <2>3. /\ renewal'[t].pc = "idle" /\ \A x \in Tabs : x # t => renewal'[x] = renewal[x]
          /\ renewal' \in [Tabs -> [pc : {"idle", "rotate", "publish"}, from : 0..MaxToken,
                                    used : 0..MaxToken, got : 0..MaxToken]]
        BY <1>1, <2>1, UiTokensAssumption DEF TabTypeOK, NoRenewal
    <2>4. renewal[t].got \in Issued
        BY <1>1, <2>1 DEF KeptAreIssued
    <2>5. /\ tab' \in [Tabs -> 0..MaxToken]
          /\ \A x \in Tabs : tab'[x] # 0 => tab'[x] \in Issued
        BY <1>2, <1>3, <1>4, <2>1, <2>4
    <2>6. TabTypeOK'
        BY <1>1, <2>1, <2>3, <2>5 DEF TabTypeOK, Tokens
    <2>7. LoginsStayApart'
        BY <1>1, <2>1, <2>3 DEF LoginsStayApart, Tokens
    <2>8. KeptAreIssued'
        BY <1>1, <2>1, <2>2, <2>3, <2>5 DEF KeptAreIssued, Tokens
    <2>. QED
        BY <2>2, <2>6, <2>7, <2>8 DEF TabIInv
<1>13. ASSUME NEW t \in Tabs, RestoreSession(t) PROVE TabIInv'
    <2>1. saved \in Issued /\ UNCHANGED <<renewal, login, rotated, successor, ticket>>
        BY <1>3, <1>13 DEF RestoreSession
    <2>2. CASE Current(saved) \in live
        <3>1. tab' = [tab EXCEPT ![t] = saved] /\ UNCHANGED <<live, stolen, saved, ended>>
            BY <1>13, <2>2 DEF RestoreSession
        <3>2. /\ tab' \in [Tabs -> 0..MaxToken]
              /\ \A x \in Tabs : tab'[x] # 0 => tab'[x] \in Issued
            BY <1>2, <1>3, <2>1, <3>1
        <3>. QED
            BY <1>2, <1>3, <2>1, <3>1, <3>2, RenewalsStay
    <2>3. CASE Current(saved) \notin live
        <3>1. /\ tab' = [tab EXCEPT ![t] = 0] /\ TurnAway(Current(saved)) /\ saved' = 0
              /\ ended' = ended \cup {saved}
            BY <1>13, <2>3 DEF RestoreSession
        <3>2. live' \subseteq Tokens /\ stolen' \subseteq 1..MaxLogin
            BY <1>1, <2>1, <3>1, CurrentIsIssued, TurnedAway
        <3>3. /\ tab' \in [Tabs -> 0..MaxToken] /\ saved' \in 0..MaxToken
              /\ \A x \in Tabs : tab'[x] # 0 => tab'[x] \in Issued
            BY <1>2, <1>3, <3>1, UiTokensAssumption
        <3>4. ended' \subseteq Tokens
            BY <1>2, <1>4, <2>1, <3>1
        <3>. QED
            BY <1>2, <1>3, <2>1, <3>1, <3>2, <3>3, <3>4, RenewalsStay
    <2>. QED
        BY <2>2, <2>3
<1>14. ASSUME NEW t \in Tabs, DoLogout(t) PROVE TabIInv'
    <2>1. PICK closed : closed = UNION {Family(n) : n \in Asked(t) \cap live}
        OBVIOUS
    <2>2. PICK reused :
              reused = {n \in Asked(t) \ live : Reused(n) /\ Family(n) \cap (live \ closed) # {}}
        OBVIOUS
    <2>3. /\ live' = live \ (closed \cup UNION {Family(n) : n \in reused})
          /\ stolen' = stolen \cup {login[n] : n \in reused}
          /\ saved' = 0 /\ tab' = [tab EXCEPT ![t] = 0]
          /\ UNCHANGED <<renewal, login, rotated, successor, ticket, ended>>
        BY <1>14, <2>1, <2>2 DEF DoLogout
    <2>4. ASSUME NEW n \in reused PROVE login[n] \in 1..MaxLogin
        <3>1. PICK k \in {tab[t], saved} \ {0} : n = Current(k)
            BY <2>2 DEF Asked
        <3>2. k \in Issued
            BY <1>3, <3>1
        <3>. QED
            BY <1>4, <3>1, <3>2, CurrentIsIssued
    <2>5. live' \subseteq Tokens /\ stolen' \subseteq 1..MaxLogin
        BY <1>2, <2>3, <2>4
    <2>6. /\ tab' \in [Tabs -> 0..MaxToken] /\ saved' \in 0..MaxToken
          /\ \A x \in Tabs : tab'[x] # 0 => tab'[x] \in Issued
        BY <1>2, <1>3, <2>3, UiTokensAssumption
    <2>. QED
        BY <1>2, <1>3, <2>3, <2>5, <2>6, RenewalsStay
<1>15. ASSUME NEW t \in Tabs, ExpireTab(t) PROVE TabIInv'
    <2>1. /\ tab' = [tab EXCEPT ![t] = 0] /\ ended' = ended \ {tab[t]}
          /\ UNCHANGED <<renewal, login, live, rotated, stolen, successor, ticket, saved>>
        BY <1>15 DEF ExpireTab
    <2>2. /\ tab' \in [Tabs -> 0..MaxToken] /\ ended' \subseteq Tokens
          /\ \A x \in Tabs : tab'[x] # 0 => tab'[x] \in Issued
        BY <1>2, <1>3, <2>1, UiTokensAssumption
    <2>. QED
        BY <1>2, <1>3, <2>1, <2>2, RenewalsStay
<1>16. CASE UNCHANGED tabVars
    BY <1>2, <1>3, <1>16, RenewalsStay DEF tabVars
<1>. QED
    BY <1>5, <1>6, <1>7, <1>8, <1>9, <1>10, <1>11, <1>12, <1>13, <1>14, <1>15, <1>16 DEF TabNext

\* What the store keeps was issued, and is renewed only to a later token of its login.
THEOREM TabInvariance == TabSpec => []TabIInv
<1>1. TabInit => TabIInv
    <2>. SUFFICES ASSUME TabInit PROVE TabIInv
        OBVIOUS
    <2>1. 0 \in 0..MaxToken /\ 0 \in 0..MaxLogin
        BY UiTokensAssumption
    <2>2. TabTypeOK
        BY <2>1 DEF TabInit, TabTypeOK, NoRenewal
    <2>3. Issued = {}
        BY DEF TabInit, Issued
    <2>4. LoginsStayApart /\ IssuedInOrder /\ KeptAreIssued
        BY <2>3 DEF TabInit, NoRenewal, LoginsStayApart, IssuedInOrder, KeptAreIssued
    <2>. QED
        BY <2>2, <2>4 DEF TabIInv
<1>. QED
    BY <1>1, TabStep, PTL DEF TabSpec

\* CookieKeepsLogin, of every behaviour of the tabs and BrowserSessionStore: neither
\* a rotation, a renewal nor a page reload turns one sign-in into another.
THEOREM CookiesKeepLogin == TabSpec => CookieKeepsLogin
<1>1. TabIInv => TabTypeOK /\ LoginsStayApart
    BY DEF TabIInv
<1>2. TabIInv /\ [TabNext]_tabVars => [SameLoginCookie]_tabVars
    BY CookieStays
<1>. QED
    BY <1>1, <1>2, TabInvariance, PTL DEF TabSpec, CookieKeepsLogin

-----------------------------------------------------------------------------
(* AccountRecovery and Mailer.                                             *)

MailStates == Holding \cup {"none", "busy", "refused", "over"}

\* The inductive invariant of Mailer: the slots are accounted for.
MailIInv == MailTypeOK /\ MailSlotsAreAccounted

\* The messages that hold a slot.
Held == {m \in Mails : mail[m] \in Holding}

LEMMA HeldAreFinite == IsFiniteSet(Held) /\ Cardinality(Held) \in Nat
BY MailerAssumption, FS_Subset, FS_CardinalityType DEF Held

\* One message moves, and the slots with it.
LEMMA MoveFits ==
  ASSUME MailIInv, NEW m \in Mails, NEW v \in MailStates,
         mail' = [mail EXCEPT ![m] = v],
         IF v \in Holding
         THEN IF mail[m] \in Holding THEN mailsActive' = mailsActive
              ELSE mailsActive' = mailsActive + 1 /\ mailsActive < MailSlots
         ELSE IF mail[m] \in Holding THEN mailsActive' = mailsActive - 1
              ELSE mailsActive' = mailsActive,
         stage' = stage, v = "queued" => stage # "closed",
         sentMails' \subseteq Mails
  PROVE  MailIInv'
<1> USE MailerAssumption
<1>1. /\ mail \in [Mails -> MailStates] /\ stage \in {"open", "closing", "closed"}
      /\ mailsActive = Cardinality(Held) /\ mailsActive <= MailSlots /\ mailsActive \in Nat
      /\ stage = "closed" => In("queued") = {}
  BY DEF MailIInv, MailTypeOK, MailStates, MailSlotsAreAccounted, Held
<1>2. mail' \in [Mails -> MailStates] /\ \A o \in Mails : mail'[o] = IF o = m THEN v ELSE mail[o]
  BY <1>1
<1>3. IsFiniteSet(Held)
  BY HeldAreFinite
<1>4. mailsActive' = Cardinality(Held') /\ mailsActive' <= MailSlots /\ mailsActive' \in Nat
  <2>1. CASE v \in Holding /\ mail[m] \in Holding
    <3>1. Held' = Held
      BY <1>2, <2>1 DEF Held
    <3> QED  BY <1>1, <2>1, <3>1
  <2>2. CASE v \in Holding /\ mail[m] \notin Holding
    <3>1. Held' = Held \cup {m} /\ m \notin Held
      BY <1>2, <2>2 DEF Held
    <3>2. Cardinality(Held') = Cardinality(Held) + 1
      BY <1>3, <3>1, FS_AddElement
    <3> QED  BY <1>1, <2>2, <3>2
  <2>3. CASE v \notin Holding /\ mail[m] \in Holding
    <3>1. Held' = Held \ {m} /\ m \in Held
      BY <1>2, <2>3 DEF Held
    <3>2. Cardinality(Held') = Cardinality(Held) - 1 /\ Cardinality(Held') \in Nat
      BY <1>3, <3>1, FS_RemoveElement, FS_CardinalityType
    <3> QED  BY <1>1, <2>3, <3>2
  <2>4. CASE v \notin Holding /\ mail[m] \notin Holding
    <3>1. Held' = Held
      BY <1>2, <2>4 DEF Held
    <3> QED  BY <1>1, <2>4, <3>1
  <2> QED  BY <2>1, <2>2, <2>3, <2>4
<1>5. stage' = "closed" => In("queued")' = {}
  BY <1>1, <1>2 DEF In
<1>6. MailTypeOK'
  BY <1>1, <1>2, <1>4 DEF MailTypeOK, MailStates
<1> QED  BY <1>4, <1>5, <1>6 DEF MailIInv, MailSlotsAreAccounted, Held

\* A message that was refused stays so, and what reached a mailbox stays there.
MailStays == /\ \A m \in Mails : mail[m] = "refused" => mail'[m] = "refused"
             /\ sentMails \subseteq sentMails'

\* send takes a slot if there is one.
LEMMA ReserveFits ==
  ASSUME MailIInv, NEW m \in Mails, Reserve(m)
  PROVE  MailIInv' /\ MailStays
<1>1. mail \in [Mails -> MailStates] /\ mail[m] = "none" /\ sentMails \subseteq Mails
  BY DEF MailIInv, MailTypeOK, MailStates, Reserve
<1>2. CASE stage = "open" /\ HasMailSlot
  BY <1>1, <1>2, MoveFits DEF Reserve, HasMailSlot, Holding, MailStates, MailStays
<1>3. CASE ~(stage = "open" /\ HasMailSlot)
  BY <1>1, <1>3, MoveFits DEF Reserve, HasMailSlot, Holding, MailStates, MailStays
<1> QED  BY <1>2, <1>3

\* Every step of the pool keeps its slots accounted for.
LEMMA PoolFits ==
  ASSUME MailIInv,
         (\E m \in Mails : MailStep(m)) \/ CloseMailer \/ Shutdown \/ Restart \/ MailLost
  PROVE  MailIInv' /\ MailStays
<1> USE MailerAssumption
<1>1. /\ mail \in [Mails -> MailStates] /\ stage \in {"open", "closing", "closed"}
      /\ sentMails \subseteq Mails
      /\ mailsActive = Cardinality(Held) /\ mailsActive <= MailSlots /\ mailsActive \in Nat
      /\ stage = "closed" => In("queued") = {}
  BY DEF MailIInv, MailTypeOK, MailStates, MailSlotsAreAccounted, Held
<1>2. ASSUME NEW m \in Mails, Submit(m)
      PROVE  MailIInv' /\ MailStays
  <2>1. CASE stage = "open"
    BY <1>1, <1>2, <2>1, MoveFits DEF Submit, Holding, MailStates, MailStays
  <2>2. CASE stage # "open"
    BY <1>1, <1>2, <2>2, MoveFits DEF Submit, Holding, MailStates, MailStays
  <2> QED  BY <2>1, <2>2
<1>3. ASSUME NEW m \in Mails, Take(m)
      PROVE  MailIInv' /\ MailStays
  BY <1>1, <1>3, MoveFits DEF Take, Holding, MailStates, MailStays
<1>4. ASSUME NEW m \in Mails, NEW arrives \in BOOLEAN, Deliver(m, arrives)
      PROVE  MailIInv' /\ MailStays
  BY <1>1, <1>4, MoveFits DEF Deliver, Holding, MailStates, MailStays
<1>5. ASSUME NEW m \in Mails, Forget(m)
      PROVE  MailIInv' /\ MailStays
  BY <1>1, <1>5, MoveFits DEF Forget, Forgotten, Holding, MailStates, MailStays
<1>6. CASE CloseMailer \/ Restart
  <2>1. mail' = mail /\ mailsActive' = mailsActive /\ sentMails' = sentMails
        /\ stage' \in {"open", "closing"}
    BY <1>6 DEF CloseMailer, Restart
  <2> QED  BY <1>1, <2>1 DEF MailIInv, MailTypeOK, MailSlotsAreAccounted, MailStays
<1>7. CASE Shutdown
  <2>1. /\ mailsActive' = mailsActive /\ sentMails' = sentMails /\ stage' = "closed"
        /\ mail' = [m \in Mails |-> IF mail[m] = "queued" THEN "cancelled" ELSE mail[m]]
    BY <1>7 DEF Shutdown
  <2>2. mail' \in [Mails -> MailStates]
    BY <1>1, <2>1 DEF MailStates, Holding
  <2>3. Held' = Held
    BY <1>1, <2>1 DEF Held, Holding
  <2>4. In("queued")' = {}
    BY <1>1, <2>1 DEF In
  <2> QED  BY <1>1, <2>1, <2>2, <2>3, <2>4 DEF MailIInv, MailTypeOK, MailStates,
               MailSlotsAreAccounted, MailStays, Held
<1>8. CASE MailLost
  <2>1. /\ mailsActive' = 0 /\ sentMails' = sentMails /\ stage' = "open"
        /\ mail' = [m \in Mails |-> IF mail[m] \in Holding \cup {"busy"} THEN "over"
                                                                       ELSE mail[m]]
    BY <1>8 DEF MailLost
  <2>2. mail' \in [Mails -> MailStates]
    BY <1>1, <2>1 DEF MailStates, Holding
  <2>3. Held' = {}
    BY <1>1, <2>1 DEF Held, Holding
  <2>4. Cardinality(Held') = 0
    BY <2>3, FS_EmptySet
  <2>5. MailStays
    BY <1>1, <2>1 DEF MailStays, Holding
  <2> QED  BY <1>1, <2>1, <2>2, <2>4, <2>5 DEF MailIInv, MailTypeOK, MailStates,
               MailSlotsAreAccounted, Held
<1> QED  BY <1>2, <1>3, <1>4, <1>5, <1>6, <1>7, <1>8 DEF MailStep

\* A code that is unused has guesses left, and one that was burned was refused.
CodeFits(q, n, where) ==
    /\ q.state = "new" => n = 0
    /\ q.state = "active" => n < CodeAttempts
    /\ q.state = "burned" => where = "refused"

CodesFit == \A k \in MailedCodes : CodeFits(mailedCode[k], misses[k], mail[k])

\* The inductive invariant of AccountRecovery.
RecoveryIInv == RecoveryTypeOK /\ MailIInv /\ CodesFit /\ MailboxIsProved

\* How an unused code ends, other than in a refusal.
Ends == {"used", "superseded", "exhausted", "void", "swept"}

CodeMoves(old, new) ==
    \/ new = old
    \/ old.state = "active" /\ \E s \in Ends : new = [old EXCEPT !.state = s]

\* An UPDATE of codes touches their state only.
LEMMA RetireKeeps ==
  ASSUME NEW rows \in [MailedCodes -> Row], NEW K, NEW s \in Ends \cup {"burned"}
  PROVE  /\ Retire(rows, K, s) \in [MailedCodes -> Row]
         /\ \A k \in MailedCodes :
               Retire(rows, K, s)[k] = IF k \in K THEN [rows[k] EXCEPT !.state = s] ELSE rows[k]
<1>1. ASSUME NEW k \in MailedCodes
      PROVE  rows[k] \in Row /\ [rows[k] EXCEPT !.state = s] \in Row
  <2>1. rows[k] \in Row
    OBVIOUS
  <2> QED  BY <2>1 DEF Row, Ends
<1> QED  BY <1>1 DEF Retire

\* Codes that end as they may still fit.
LEMMA EndedCodesFit ==
  ASSUME RecoveryIInv, mailedCode' \in [MailedCodes -> Row],
         \A k \in MailedCodes : CodeMoves(mailedCode[k], mailedCode'[k]),
         UNCHANGED <<misses, mailVars>>
  PROVE  CodesFit' /\ MailIInv'
<1>1. MailIInv'
  BY DEF RecoveryIInv, MailIInv, MailTypeOK, MailSlotsAreAccounted, In, mailVars
<1>2. ASSUME NEW k \in MailedCodes
      PROVE  CodeFits(mailedCode'[k], misses[k], mail[k])
  <2>1. CodeFits(mailedCode[k], misses[k], mail[k]) /\ CodeMoves(mailedCode[k], mailedCode'[k])
    BY DEF RecoveryIInv, CodesFit
  <2>2. mailedCode[k] \in Row
    BY DEF RecoveryIInv, RecoveryTypeOK
  <2>3. CASE mailedCode'[k] = mailedCode[k]
    BY <2>1, <2>3
  <2>4. ASSUME NEW s \in Ends, mailedCode'[k] = [mailedCode[k] EXCEPT !.state = s]
        PROVE  CodeFits(mailedCode'[k], misses[k], mail[k])
    <3>1. mailedCode'[k].state = s
      BY <2>2, <2>4 DEF Row
    <3> QED  BY <3>1 DEF CodeFits, Ends
  <2> QED  BY <2>1, <2>3, <2>4 DEF CodeMoves
<1> QED  BY <1>1, <1>2 DEF CodesFit, mailVars

\* A mailbox stays proved while the codes that were used, and what was mailed, stay.
LEMMA MailboxStays ==
  ASSUME RecoveryIInv, sentMails \subseteq sentMails',
         \A k \in MailedCodes : mailedCode[k].state = "used" => mailedCode'[k] = mailedCode[k],
         \A a \in Accounts : holder'[a].mailbox \in {holder[a].mailbox, NoMailbox}
  PROVE  MailboxIsProved'
<1> SUFFICES ASSUME NEW a \in Accounts, holder'[a].mailbox # NoMailbox
             PROVE  /\ \A b \in Accounts \ {a} : holder'[b].mailbox # holder'[a].mailbox
                    /\ \E k \in sentMails' :
                          /\ mailedCode'[k].owner = a /\ mailedCode'[k].to = holder'[a].mailbox
                          /\ mailedCode'[k].purpose = "email_verify"
                          /\ mailedCode'[k].state = "used"
  BY DEF MailboxIsProved
<1>1. holder'[a].mailbox = holder[a].mailbox
  OBVIOUS
<1>2. PICK k \in sentMails : /\ mailedCode[k].owner = a /\ mailedCode[k].to = holder[a].mailbox
                             /\ mailedCode[k].purpose = "email_verify"
                             /\ mailedCode[k].state = "used"
  BY <1>1 DEF RecoveryIInv, MailboxIsProved
<1>3. k \in MailedCodes
  BY DEF RecoveryIInv, MailIInv, MailTypeOK, MailedCodes
<1>4. \A b \in Accounts \ {a} : holder[b].mailbox # holder[a].mailbox
  BY <1>1 DEF RecoveryIInv, MailboxIsProved
<1>5. \A b \in Accounts \ {a} : holder'[b].mailbox # holder'[a].mailbox
  BY <1>1, <1>4
<1> QED  BY <1>1, <1>2, <1>3, <1>5

\* Nothing is used up, so no reset is to be judged.
LEMMA NoReset ==
  ASSUME \A k \in MailedCodes : mailedCode[k].state = "active" => mailedCode'[k].state # "used"
  PROVE  CurrentReset
BY DEF CurrentReset

\* A new code replaces the older ones of its purpose.
LEMMA IssuedFits ==
  ASSUME RecoveryIInv, NEW a \in Accounts, NEW p \in Purposes, NEW to \in Mailboxes,
         IssueCode(a, p, to)
  PROVE  RecoveryIInv' /\ CurrentReset
<1> USE RecoveryAssumption
<1>1. PICK k \in MailedCodes :
        /\ mailedCode[k].state = "new"
        /\ mailedCode' = [Retire(mailedCode, Active(a, p), "superseded") EXCEPT
                             ![k] = [state |-> "active", owner |-> a, purpose |-> p, to |-> to,
                                     pw |-> holder[a].pw, expires |-> recoveryClock + CodeLife]]
  BY DEF IssueCode
<1>2. UNCHANGED <<recoveryClock, holder, misses, mailVars>>
  BY DEF IssueCode
<1>3. RecoveryTypeOK /\ mailedCode \in [MailedCodes -> Row]
  BY DEF RecoveryIInv, RecoveryTypeOK
<1>4. PICK q : q = [state |-> "active", owner |-> a, purpose |-> p, to |-> to,
                    pw |-> holder[a].pw, expires |-> recoveryClock + CodeLife]
  OBVIOUS
<1>5. q \in Row /\ q.state = "active"
  <2>1. holder[a].pw \in Nat /\ recoveryClock + CodeLife \in Nat
    BY <1>3 DEF RecoveryTypeOK, HolderRow
  <2> QED  BY <1>4, <2>1 DEF Row
<1>6. PICK r : r = Retire(mailedCode, Active(a, p), "superseded")
  OBVIOUS
<1>7. /\ r \in [MailedCodes -> Row]
      /\ \A j \in MailedCodes :
            r[j] = IF j \in Active(a, p) THEN [mailedCode[j] EXCEPT !.state = "superseded"]
                                         ELSE mailedCode[j]
  BY <1>3, <1>6, RetireKeeps DEF Ends
<1>8. /\ mailedCode' \in [MailedCodes -> Row]
      /\ \A j \in MailedCodes : mailedCode'[j] = IF j = k THEN q ELSE r[j]
  BY <1>1, <1>4, <1>5, <1>6, <1>7
<1>9. ASSUME NEW j \in MailedCodes
      PROVE  /\ mailedCode[j].state = "used" => mailedCode'[j] = mailedCode[j]
             /\ mailedCode[j].state = "active" => mailedCode'[j].state # "used"
             /\ CodeFits(mailedCode'[j], misses[j], mail[j])
  <2>1. mailedCode[j] \in Row /\ CodeFits(mailedCode[j], misses[j], mail[j])
    BY <1>3 DEF RecoveryIInv, CodesFit
  <2>2. CASE j = k
    <3>1. mailedCode'[j] = q /\ misses[j] = 0 /\ mailedCode[j].state = "new"
      BY <1>1, <1>8, <2>1, <2>2 DEF CodeFits
    <3> QED  BY <1>5, <3>1 DEF CodeFits
  <2>3. CASE j # k /\ j \in Active(a, p)
    <3>1. mailedCode'[j] = [mailedCode[j] EXCEPT !.state = "superseded"]
          /\ mailedCode[j].state = "active"
      BY <1>7, <1>8, <2>3 DEF Active
    <3>2. mailedCode'[j].state = "superseded"
      BY <2>1, <3>1 DEF Row
    <3> QED  BY <3>1, <3>2 DEF CodeFits
  <2>4. CASE j # k /\ j \notin Active(a, p)
    BY <1>7, <1>8, <2>1, <2>4
  <2> QED  BY <2>2, <2>3, <2>4
<1>10. MailIInv' /\ RecoveryTypeOK'
  <2>1. MailIInv'
    BY <1>2 DEF RecoveryIInv, MailIInv, MailTypeOK, MailSlotsAreAccounted, In, mailVars
  <2> QED  BY <1>2, <1>3, <1>8, <2>1 DEF RecoveryTypeOK, MailIInv
<1>11. CodesFit'
  BY <1>2, <1>9 DEF CodesFit, mailVars
<1>12. MailboxIsProved'
  BY <1>2, <1>9, MailboxStays DEF mailVars
<1> QED  BY <1>9, <1>10, <1>11, <1>12, NoReset DEF RecoveryIInv

\* A wrong guess is counted, and the last one ends the code.
LEMMA MissFits ==
  ASSUME RecoveryIInv, NEW a \in Accounts, NEW p \in Purposes, CountMiss(a, p)
  PROVE  RecoveryIInv' /\ CurrentReset
<1> USE RecoveryAssumption
<1>1. PICK k \in MailedCodes :
        /\ Candidate(a, p, k)
        /\ misses' = [misses EXCEPT ![k] = misses[k] + 1]
        /\ mailedCode' = IF misses[k] + 1 >= CodeAttempts
                         THEN Retire(mailedCode, {k}, "exhausted") ELSE mailedCode
  BY DEF CountMiss, MissesNow
<1>2. UNCHANGED <<recoveryClock, holder, mailVars>>
  BY DEF CountMiss
<1>3. RecoveryTypeOK /\ mailedCode \in [MailedCodes -> Row] /\ misses \in [MailedCodes -> Nat]
  BY DEF RecoveryIInv, RecoveryTypeOK
<1>4. mailedCode[k].state = "active" /\ misses[k] \in Nat
  BY <1>1, <1>3 DEF Candidate, Active
<1>5. misses' \in [MailedCodes -> Nat] /\ misses'[k] = misses[k] + 1
      /\ \A j \in MailedCodes : j # k => misses'[j] = misses[j]
  BY <1>1, <1>3
<1>6. /\ mailedCode' \in [MailedCodes -> Row]
      /\ \A j \in MailedCodes : j # k => mailedCode'[j] = mailedCode[j]
      /\ IF misses[k] + 1 >= CodeAttempts THEN mailedCode'[k].state = "exhausted"
                                          ELSE mailedCode'[k] = mailedCode[k]
  <2>1. CASE misses[k] + 1 >= CodeAttempts
    <3> DEFINE K == {k}
    <3>1. mailedCode' = Retire(mailedCode, K, "exhausted") /\ \A j : j \in K <=> j = k
      BY <1>1, <2>1
    <3> HIDE DEF K
    <3>2. /\ mailedCode' \in [MailedCodes -> Row]
          /\ \A j \in MailedCodes :
                mailedCode'[j] = IF j \in K THEN [mailedCode[j] EXCEPT !.state = "exhausted"]
                                            ELSE mailedCode[j]
      BY <1>3, <3>1, RetireKeeps DEF Ends
    <3>3. mailedCode[k] \in Row
      BY <1>3
    <3>4. mailedCode'[k].state = "exhausted"
      BY <3>1, <3>2, <3>3 DEF Row
    <3> QED  BY <2>1, <3>1, <3>2, <3>4
  <2>2. CASE ~(misses[k] + 1 >= CodeAttempts)
    BY <1>1, <1>3, <2>2
  <2> QED  BY <2>1, <2>2
<1>7. ASSUME NEW j \in MailedCodes
      PROVE  CodeFits(mailedCode'[j], misses'[j], mail[j])
  <2>1. CodeFits(mailedCode[j], misses[j], mail[j])
    BY DEF RecoveryIInv, CodesFit
  <2>2. CASE j = k
    <3>1. mailedCode'[j].state = "exhausted" \/ (mailedCode'[j].state = "active"
                                                  /\ misses'[j] < CodeAttempts)
      BY <1>3, <1>4, <1>5, <1>6, <2>2
    <3> QED  BY <3>1 DEF CodeFits
  <2>3. CASE j # k
    BY <1>5, <1>6, <2>1, <2>3
  <2> QED  BY <2>2, <2>3
<1>8. ASSUME NEW j \in MailedCodes
      PROVE  /\ mailedCode[j].state = "used" => mailedCode'[j] = mailedCode[j]
             /\ mailedCode[j].state = "active" => mailedCode'[j].state # "used"
  BY <1>4, <1>6
<1>9. MailIInv' /\ RecoveryTypeOK'
  <2>1. MailIInv'
    BY <1>2 DEF RecoveryIInv, MailIInv, MailTypeOK, MailSlotsAreAccounted, In, mailVars
  <2> QED  BY <1>2, <1>3, <1>5, <1>6, <2>1 DEF RecoveryTypeOK, MailIInv
<1>10. CodesFit'
  BY <1>2, <1>7 DEF CodesFit, mailVars
<1>11. MailboxIsProved'
  BY <1>2, <1>8, MailboxStays DEF mailVars
<1> QED  BY <1>8, <1>9, <1>10, <1>11, NoReset DEF RecoveryIInv

\* A code is entered, and others of the account end with it.
LEMMA UsedCode ==
  ASSUME RecoveryTypeOK, NEW k \in MailedCodes, mailedCode[k].state = "active",
         NEW K \in SUBSET MailedCodes, \A j \in K : mailedCode[j].state = "active",
         NEW r, r = Retire(mailedCode, K, "void"), mailedCode' = Retire(r, {k}, "used")
  PROVE  /\ mailedCode' \in [MailedCodes -> Row]
         /\ mailedCode'[k] = [mailedCode[k] EXCEPT !.state = "used"]
         /\ \A j \in MailedCodes : CodeMoves(mailedCode[j], mailedCode'[j])
         /\ \A j \in MailedCodes : mailedCode[j].state = "used" => mailedCode'[j] = mailedCode[j]
         /\ \A j \in MailedCodes :
               mailedCode[j].state = "active" /\ mailedCode'[j].state = "used" => j = k
<1>1. mailedCode \in [MailedCodes -> Row]
  BY DEF RecoveryTypeOK
<1>3. /\ r \in [MailedCodes -> Row]
      /\ \A j \in MailedCodes : r[j] = IF j \in K THEN [mailedCode[j] EXCEPT !.state = "void"]
                                                  ELSE mailedCode[j]
  BY <1>1, RetireKeeps DEF Ends
<1>4. /\ mailedCode' \in [MailedCodes -> Row]
      /\ \A j \in MailedCodes : mailedCode'[j] = IF j = k THEN [r[j] EXCEPT !.state = "used"]
                                                         ELSE r[j]
  <2> DEFINE I == {k}
  <2>1. mailedCode' = Retire(r, I, "used") /\ \A j : j \in I <=> j = k
    OBVIOUS
  <2> HIDE DEF I
  <2>2. /\ Retire(r, I, "used") \in [MailedCodes -> Row]
        /\ \A j \in MailedCodes :
              Retire(r, I, "used")[j] = IF j \in I THEN [r[j] EXCEPT !.state = "used"] ELSE r[j]
    BY <1>3, RetireKeeps DEF Ends
  <2> QED  BY <2>1, <2>2
<1>5. ASSUME NEW j \in MailedCodes
      PROVE  /\ j = k => mailedCode'[j] = [mailedCode[j] EXCEPT !.state = "used"]
             /\ j # k /\ j \in K => mailedCode'[j] = [mailedCode[j] EXCEPT !.state = "void"]
                                    /\ mailedCode'[j].state = "void"
                                    /\ mailedCode[j].state = "active"
             /\ j # k /\ j \notin K => mailedCode'[j] = mailedCode[j]
  <2>1. mailedCode[j] \in Row
    BY <1>1
  <2>2. [[mailedCode[j] EXCEPT !.state = "void"] EXCEPT !.state = "used"]
           = [mailedCode[j] EXCEPT !.state = "used"]
    BY <2>1 DEF Row
  <2>3. j \in K => [mailedCode[j] EXCEPT !.state = "void"].state = "void"
    BY <2>1 DEF Row
  <2>4. j \in K => r[j] = [mailedCode[j] EXCEPT !.state = "void"]
    BY <1>3
  <2>5. j \notin K => r[j] = mailedCode[j]
    BY <1>3
  <2>6. mailedCode'[j] = IF j = k THEN [r[j] EXCEPT !.state = "used"] ELSE r[j]
    BY <1>4
  <2>7. j = k => mailedCode'[j] = [mailedCode[j] EXCEPT !.state = "used"]
    BY <2>2, <2>4, <2>5, <2>6
  <2> QED  BY <2>3, <2>4, <2>5, <2>6, <2>7
<1>6. ASSUME NEW j \in MailedCodes
      PROVE  CodeMoves(mailedCode[j], mailedCode'[j])
  BY <1>5 DEF CodeMoves, Ends
<1> QED  BY <1>4, <1>5, <1>6

\* confirm_password_reset accepts a code of the password and mailbox of today.
LEMMA ResetFits ==
  ASSUME RecoveryIInv, NEW a \in Accounts, NEW k \in MailedCodes, ConfirmReset(a, k)
  PROVE  RecoveryIInv' /\ CurrentReset
<1> USE RecoveryAssumption
<1>1. RecoveryTypeOK /\ holder \in [Accounts -> HolderRow]
  BY DEF RecoveryIInv, RecoveryTypeOK
<1>2. /\ holder[a].mailbox # NoMailbox /\ k \in sentMails
      /\ mailedCode[k].state = "active" /\ mailedCode[k].owner = a
      /\ mailedCode[k].pw = holder[a].pw /\ mailedCode[k].to = holder[a].mailbox
      /\ holder' = [holder EXCEPT ![a].pw = holder[a].pw + 1]
      /\ mailedCode' = Retire(Retire(mailedCode, Active(a, "password_reset"), "void"), {k}, "used")
      /\ UNCHANGED <<recoveryClock, misses, mailVars>>
  BY DEF ConfirmReset, Candidate, Active, BoundTo
<1>3. \A j \in Active(a, "password_reset") : mailedCode[j].state = "active"
  BY DEF Active
<1>4. /\ mailedCode' \in [MailedCodes -> Row]
      /\ \A j \in MailedCodes : CodeMoves(mailedCode[j], mailedCode'[j])
      /\ \A j \in MailedCodes : mailedCode[j].state = "used" => mailedCode'[j] = mailedCode[j]
      /\ \A j \in MailedCodes :
            mailedCode[j].state = "active" /\ mailedCode'[j].state = "used" => j = k
  <2>1. PICK K : K = Active(a, "password_reset")
    OBVIOUS
  <2>2. K \in SUBSET MailedCodes /\ \A j \in K : mailedCode[j].state = "active"
    BY <2>1 DEF Active
  <2>3. PICK r : r = Retire(mailedCode, K, "void")
    OBVIOUS
  <2>4. mailedCode' = Retire(r, {k}, "used") /\ mailedCode[k].state = "active"
    BY <1>2, <2>1, <2>3
  <2> QED  BY <1>1, <2>2, <2>3, <2>4, UsedCode
<1>5. CodesFit' /\ MailIInv'
  BY <1>2, <1>4, EndedCodesFit
<1>6. /\ holder' \in [Accounts -> HolderRow]
      /\ \A b \in Accounts : holder'[b].mailbox = holder[b].mailbox
  <2>1. holder[a] \in HolderRow /\ holder[a].pw + 1 \in Nat
    BY <1>1 DEF HolderRow
  <2>2. PICK h : h = [holder[a] EXCEPT !.pw = holder[a].pw + 1]
    OBVIOUS
  <2>3. h \in HolderRow /\ h.mailbox = holder[a].mailbox
    BY <2>1, <2>2 DEF HolderRow
  <2>4. holder' = [holder EXCEPT ![a] = h]
    BY <1>1, <1>2, <2>2
  <2> QED  BY <1>1, <2>3, <2>4
<1>7. RecoveryTypeOK'
  BY <1>1, <1>2, <1>4, <1>5, <1>6 DEF RecoveryTypeOK, MailIInv
<1>8. MailboxIsProved'
  BY <1>2, <1>4, <1>6, MailboxStays DEF mailVars
<1>9. misses[k] < CodeAttempts
  BY <1>2 DEF RecoveryIInv, CodesFit, CodeFits
<1>10. CurrentReset
  BY <1>2, <1>4, <1>9 DEF CurrentReset
<1> QED  BY <1>5, <1>7, <1>8, <1>10 DEF RecoveryIInv

\* verify_account_email gives the mailbox to the account whose code was entered.
LEMMA MailboxFits ==
  ASSUME RecoveryIInv, NEW a \in Accounts, NEW k \in MailedCodes, VerifyAccountEmail(a, k)
  PROVE  RecoveryIInv' /\ CurrentReset
<1> USE RecoveryAssumption
<1>1. RecoveryTypeOK /\ holder \in [Accounts -> HolderRow] /\ mailedCode[k] \in Row
  BY DEF RecoveryIInv, RecoveryTypeOK
<1>2. PICK K \in SUBSET MailedCodes :
               /\ \A j \in K : mailedCode[j].state = "active"
               /\ mailedCode' = Retire(Retire(mailedCode, K, "void"), {k}, "used")
  <2>1. PICK K : K = IF holder[a].mailbox = mailedCode[k].to THEN {}
                                                             ELSE Active(a, "password_reset")
    OBVIOUS
  <2>2. K \in SUBSET MailedCodes /\ \A j \in K : mailedCode[j].state = "active"
    BY <2>1 DEF Active
  <2>3. mailedCode' = Retire(Retire(mailedCode, K, "void"), {k}, "used")
    BY <2>1 DEF VerifyAccountEmail
  <2> QED  BY <2>2, <2>3
<1>3. /\ k \in sentMails
      /\ mailedCode[k].state = "active" /\ mailedCode[k].owner = a
      /\ mailedCode[k].purpose = "email_verify"
      /\ \A b \in Accounts \ {a} : holder[b].mailbox # mailedCode[k].to
      /\ holder' = [holder EXCEPT ![a].mailbox = mailedCode[k].to]
      /\ UNCHANGED <<recoveryClock, misses, mailVars>>
  BY DEF VerifyAccountEmail, Candidate, Active
<1>4. /\ mailedCode' \in [MailedCodes -> Row]
      /\ mailedCode'[k] = [mailedCode[k] EXCEPT !.state = "used"]
      /\ \A j \in MailedCodes : CodeMoves(mailedCode[j], mailedCode'[j])
      /\ \A j \in MailedCodes : mailedCode[j].state = "used" => mailedCode'[j] = mailedCode[j]
      /\ \A j \in MailedCodes :
            mailedCode[j].state = "active" /\ mailedCode'[j].state = "used" => j = k
  <2>1. PICK r : r = Retire(mailedCode, K, "void")
    OBVIOUS
  <2>2. mailedCode' = Retire(r, {k}, "used") /\ mailedCode[k].state = "active"
    BY <1>2, <1>3, <2>1
  <2> QED  BY <1>1, <1>2, <2>1, <2>2, UsedCode, ZenonT(60)
<1>5. CodesFit' /\ MailIInv'
  BY <1>3, <1>4, EndedCodesFit
<1>6. /\ holder' \in [Accounts -> HolderRow] /\ holder'[a].mailbox = mailedCode[k].to
      /\ \A b \in Accounts \ {a} : holder'[b] = holder[b]
  <2>1. holder[a] \in HolderRow /\ mailedCode[k].to \in Mailboxes
    BY <1>1 DEF Row
  <2>2. PICK h : h = [holder[a] EXCEPT !.mailbox = mailedCode[k].to]
    OBVIOUS
  <2>3. h \in HolderRow /\ h.mailbox = mailedCode[k].to
    BY <2>1, <2>2 DEF HolderRow
  <2>4. holder' = [holder EXCEPT ![a] = h]
    BY <1>1, <1>3, <2>2
  <2> QED  BY <1>1, <2>3, <2>4
<1>7. RecoveryTypeOK'
  BY <1>1, <1>3, <1>4, <1>5, <1>6 DEF RecoveryTypeOK, MailIInv
<1>8. MailboxIsProved'
  <2> SUFFICES ASSUME NEW b \in Accounts, holder'[b].mailbox # NoMailbox
               PROVE  /\ \A c \in Accounts \ {b} : holder'[c].mailbox # holder'[b].mailbox
                      /\ \E j \in sentMails' :
                            /\ mailedCode'[j].owner = b /\ mailedCode'[j].to = holder'[b].mailbox
                            /\ mailedCode'[j].purpose = "email_verify"
                            /\ mailedCode'[j].state = "used"
    BY DEF MailboxIsProved
  <2>1. sentMails' = sentMails /\ sentMails \subseteq MailedCodes
    BY <1>1, <1>3 DEF mailVars, RecoveryTypeOK, MailTypeOK, MailedCodes
  <2>2. CASE b = a
    <3>1. /\ mailedCode'[k].owner = a /\ mailedCode'[k].to = mailedCode[k].to
          /\ mailedCode'[k].purpose = "email_verify" /\ mailedCode'[k].state = "used"
      BY <1>1, <1>3, <1>4 DEF Row
    <3>2. \A c \in Accounts \ {b} : holder'[c].mailbox # holder'[b].mailbox
      BY <1>3, <1>6, <2>2
    <3> QED  BY <1>3, <1>6, <2>1, <2>2, <3>1, <3>2
  <2>3. CASE b # a
    <3>1. holder'[b] = holder[b]
      BY <1>6, <2>3
    <3>2. PICK j \in sentMails :
             /\ mailedCode[j].owner = b /\ mailedCode[j].to = holder[b].mailbox
             /\ mailedCode[j].purpose = "email_verify" /\ mailedCode[j].state = "used"
      BY <3>1 DEF RecoveryIInv, MailboxIsProved
    <3>3. mailedCode'[j] = mailedCode[j]
      BY <1>4, <2>1, <3>2
    <3>4. \A c \in Accounts \ {b} : holder[c].mailbox # holder[b].mailbox
      BY <3>1 DEF RecoveryIInv, MailboxIsProved
    <3>5. \A c \in Accounts \ {b} : holder'[c].mailbox # holder'[b].mailbox
      <4>1. holder'[a].mailbox # holder'[b].mailbox
        BY <1>3, <1>6, <2>3, <3>1
      <4>2. \A c \in Accounts \ {a, b} : holder'[c].mailbox # holder'[b].mailbox
        BY <1>6, <3>1, <3>4
      <4> QED  BY <4>1, <4>2
    <3> QED  BY <2>1, <3>1, <3>2, <3>3, <3>5
  <2> QED  BY <2>2, <2>3
<1>9. CurrentReset
  BY <1>3, <1>4 DEF CurrentReset
<1> QED  BY <1>5, <1>7, <1>8, <1>9 DEF RecoveryIInv

\* Codes of an account end and no mailbox is given.
LEMMA CodesEnd ==
  ASSUME RecoveryIInv, NEW K, \A j \in K : j \in MailedCodes => mailedCode[j].state = "active",
         NEW s \in {"void", "swept"}, mailedCode' = Retire(mailedCode, K, s),
         holder' \in [Accounts -> HolderRow],
         \A b \in Accounts : holder'[b].mailbox \in {holder[b].mailbox, NoMailbox},
         UNCHANGED <<recoveryClock, misses, mailVars>>
  PROVE  RecoveryIInv' /\ CurrentReset
<1>1. RecoveryTypeOK /\ mailedCode \in [MailedCodes -> Row]
  BY DEF RecoveryIInv, RecoveryTypeOK
<1>2. /\ mailedCode' \in [MailedCodes -> Row]
      /\ \A j \in MailedCodes : mailedCode'[j] = IF j \in K THEN [mailedCode[j] EXCEPT !.state = s]
                                                            ELSE mailedCode[j]
  BY <1>1, RetireKeeps DEF Ends
<1>3. ASSUME NEW j \in MailedCodes
      PROVE  /\ CodeMoves(mailedCode[j], mailedCode'[j])
             /\ mailedCode[j].state = "used" => mailedCode'[j] = mailedCode[j]
             /\ mailedCode[j].state = "active" => mailedCode'[j].state # "used"
  <2>1. mailedCode[j] \in Row
    BY <1>1
  <2>2. CASE j \in K
    <3>1. mailedCode'[j] = [mailedCode[j] EXCEPT !.state = s] /\ mailedCode[j].state = "active"
      BY <1>2, <2>2
    <3>2. mailedCode'[j].state = s
      BY <2>1, <3>1 DEF Row
    <3> QED  BY <3>1, <3>2 DEF CodeMoves, Ends
  <2>3. CASE j \notin K
    BY <1>2, <2>3 DEF CodeMoves
  <2> QED  BY <2>2, <2>3
<1>4. CodesFit' /\ MailIInv'
  BY <1>2, <1>3, EndedCodesFit
<1>5. RecoveryTypeOK'
  BY <1>1, <1>2, <1>4 DEF RecoveryTypeOK, MailIInv
<1>6. MailboxIsProved'
  BY <1>3, MailboxStays DEF mailVars
<1> QED  BY <1>3, <1>4, <1>5, <1>6, NoReset DEF RecoveryIInv

\* The mail moves and at most burns what was refused.
LEMMA MailMoves ==
  ASSUME RecoveryIInv, MailIInv', MailStays, UNCHANGED recoveryVars
  PROVE  RecoveryIInv' /\ CurrentReset
<1>1. UNCHANGED <<recoveryClock, holder, mailedCode, misses>>
  BY DEF recoveryVars
<1>2. RecoveryTypeOK'
  BY <1>1 DEF RecoveryIInv, RecoveryTypeOK, MailIInv
<1>3. CodesFit'
  BY <1>1 DEF RecoveryIInv, CodesFit, CodeFits, MailStays, MailedCodes
<1>4. MailboxIsProved'
  BY <1>1, MailboxStays DEF MailStays
<1> QED  BY <1>1, <1>2, <1>3, <1>4, NoReset DEF RecoveryIInv

\* A code whose mail was refused is burned.
LEMMA RefusalFits ==
  ASSUME RecoveryIInv, NEW k \in MailedCodes, MailRefused(k)
  PROVE  RecoveryIInv' /\ CurrentReset
<1>1. RecoveryTypeOK /\ mailedCode \in [MailedCodes -> Row] /\ MailIInv
      /\ mail \in [Mails -> MailStates] /\ k \in Mails
  BY DEF RecoveryIInv, RecoveryTypeOK, MailTypeOK, MailStates, MailedCodes
<1> DEFINE K == {k} \cap Active(mailedCode[k].owner, "password_reset")
<1>0. \A j \in K : j = k /\ mailedCode[j].state = "active"
  BY DEF Active
<1>2. /\ mail[k] = "busy" /\ mail' = [mail EXCEPT ![k] = "refused"]
      /\ mailedCode' = Retire(mailedCode, K, "burned")
      /\ UNCHANGED <<recoveryClock, holder, misses, mailsActive, stage, sentMails>>
  BY DEF MailRefused, BurnUndelivered
<1> HIDE DEF K
<1>3. MailIInv'
  <2>1. sentMails' \subseteq Mails
    BY <1>1, <1>2 DEF MailIInv, MailTypeOK
  <2> QED  BY <1>1, <1>2, <2>1, MoveFits DEF Holding, MailStates
<1>4. /\ mailedCode' \in [MailedCodes -> Row]
      /\ \A j \in MailedCodes :
            mailedCode'[j] = IF j \in K THEN [mailedCode[j] EXCEPT !.state = "burned"]
                                        ELSE mailedCode[j]
  BY <1>1, <1>2, RetireKeeps DEF Ends
<1>5. ASSUME NEW j \in MailedCodes
      PROVE  /\ CodeFits(mailedCode'[j], misses[j], mail'[j])
             /\ mailedCode[j].state = "used" => mailedCode'[j] = mailedCode[j]
             /\ mailedCode[j].state = "active" => mailedCode'[j].state # "used"
  <2>1. mailedCode[j] \in Row /\ CodeFits(mailedCode[j], misses[j], mail[j])
    BY <1>1 DEF RecoveryIInv, CodesFit
  <2>2. CASE j \in K
    <3>1. j = k /\ mailedCode[j].state = "active"
      BY <1>0, <2>2
    <3>2. mailedCode'[j].state = "burned" /\ mail'[j] = "refused"
      BY <1>1, <1>2, <1>4, <2>1, <2>2, <3>1 DEF Row
    <3> QED  BY <3>1, <3>2 DEF CodeFits
  <2>3. CASE j \notin K
    <3>1. mailedCode'[j] = mailedCode[j] /\ (mail[j] = "refused" => mail'[j] = "refused")
      BY <1>1, <1>2, <1>4, <2>3 DEF MailedCodes
    <3> QED  BY <2>1, <3>1 DEF CodeFits
  <2> QED  BY <2>2, <2>3
<1>6. CodesFit'
  BY <1>2, <1>5 DEF CodesFit
<1>7. RecoveryTypeOK'
  BY <1>1, <1>2, <1>3, <1>4 DEF RecoveryTypeOK, MailIInv
<1>8. MailboxIsProved'
  BY <1>2, <1>5, MailboxStays
<1> QED  BY <1>3, <1>5, <1>6, <1>7, <1>8, NoReset DEF RecoveryIInv

\* Every handler of the account routes, and every step of the mailer, keeps the
\* invariant, and a password is reset only by a current code.
LEMMA RecoveryStep ==
  RecoveryIInv /\ [RecoveryNext]_accountVars
     => RecoveryIInv' /\ (CurrentReset \/ UNCHANGED accountVars)
<1> SUFFICES ASSUME RecoveryIInv, [RecoveryNext]_accountVars
             PROVE  RecoveryIInv' /\ (CurrentReset \/ UNCHANGED accountVars)
  OBVIOUS
<1> USE RecoveryAssumption
<1>0. RecoveryTypeOK /\ MailIInv /\ holder \in [Accounts -> HolderRow]
      /\ MailedCodes = Mails
  BY DEF RecoveryIInv, RecoveryTypeOK, MailedCodes
<1>1. CASE RecoveryTick
  <2>1. /\ recoveryClock' \in 0..RecoveryEnd
        /\ UNCHANGED <<holder, mailedCode, misses, mailVars>>
    BY <1>0, <1>1 DEF RecoveryTick, RecoveryTypeOK
  <2>2. MailIInv' /\ CodesFit' /\ MailboxIsProved'
    BY <2>1 DEF RecoveryIInv, MailIInv, MailTypeOK, MailSlotsAreAccounted, In, mailVars,
       CodesFit, MailboxIsProved
  <2>3. RecoveryTypeOK'
    BY <1>0, <2>1, <2>2 DEF RecoveryTypeOK, MailIInv
  <2>4. CurrentReset
    BY <2>1, NoReset
  <2> QED  BY <2>2, <2>3, <2>4 DEF RecoveryIInv
<1>2. CASE SweepCodes
  <2>1. /\ mailedCode' = Retire(mailedCode, Expired, "swept")
        /\ UNCHANGED <<recoveryClock, holder, misses, mailVars>>
    BY <1>2 DEF SweepCodes
  <2>2. \A j \in Expired : mailedCode[j].state = "active"
    BY DEF Expired
  <2> QED  BY <1>0, <2>1, <2>2, CodesEnd
<1>3. CASE MailerStep
  <2>1. MailIInv' /\ MailStays /\ UNCHANGED recoveryVars
    BY <1>0, <1>3, PoolFits DEF MailerStep
  <2> QED  BY <2>1, MailMoves
<1>4. ASSUME NEW k \in MailedCodes, SendCode(k)
      PROVE  RecoveryIInv' /\ CurrentReset
  <2>1. MailIInv' /\ MailStays /\ UNCHANGED recoveryVars
    BY <1>0, <1>4, ReserveFits DEF SendCode
  <2> QED  BY <2>1, MailMoves
<1>5. ASSUME NEW k \in MailedCodes, MailRefused(k)
      PROVE  RecoveryIInv' /\ CurrentReset
  BY <1>5, RefusalFits
<1>6. ASSUME NEW a \in Accounts, NEW m \in Mailboxes, RequestEmailVerification(a, m)
      PROVE  RecoveryIInv' /\ CurrentReset
  BY <1>6, IssuedFits DEF RequestEmailVerification, Purposes
<1>7. ASSUME NEW a \in Accounts, NEW k \in MailedCodes, VerifyAccountEmail(a, k)
      PROVE  RecoveryIInv' /\ CurrentReset
  BY <1>7, MailboxFits
<1>8. ASSUME NEW a \in Accounts, NEW k \in MailedCodes, ConfirmReset(a, k)
      PROVE  RecoveryIInv' /\ CurrentReset
  BY <1>8, ResetFits
<1>9. ASSUME NEW a \in Accounts, VerifyEmailWrongly(a) \/ ConfirmWrongly(a)
      PROVE  RecoveryIInv' /\ CurrentReset
  BY <1>9, MissFits DEF VerifyEmailWrongly, ConfirmWrongly, Purposes
<1>10. ASSUME NEW a \in Accounts, RemoveAccountEmail(a)
       PROVE  RecoveryIInv' /\ CurrentReset
  <2> DEFINE K == UNION {Active(a, p) : p \in Purposes}
  <2>1. /\ mailedCode' = Retire(mailedCode, K, "void")
        /\ holder' = [holder EXCEPT ![a].mailbox = NoMailbox]
        /\ UNCHANGED <<recoveryClock, misses, mailVars>>
    BY <1>10 DEF RemoveAccountEmail
  <2>2. \A j \in K : mailedCode[j].state = "active"
    BY DEF Active
  <2>3. PICK h : h = [holder[a] EXCEPT !.mailbox = NoMailbox]
    OBVIOUS
  <2>4. h \in HolderRow /\ h.mailbox = NoMailbox
    <3>1. holder[a] \in HolderRow
      BY <1>0
    <3> QED  BY <2>3, <3>1 DEF HolderRow
  <2>5. holder' = [holder EXCEPT ![a] = h]
    BY <1>0, <2>1, <2>3
  <2>6. holder' \in [Accounts -> HolderRow]
        /\ \A b \in Accounts : holder'[b].mailbox \in {holder[b].mailbox, NoMailbox}
    BY <1>0, <2>4, <2>5
  <2> HIDE DEF K
  <2> QED  BY <2>1, <2>2, <2>6, CodesEnd
<1>11. ASSUME NEW a \in Accounts, RequestPasswordReset(a)
       PROVE  RecoveryIInv' /\ CurrentReset
  <2>1. holder[a].mailbox \in Mailboxes
    BY <1>0, <1>11 DEF RequestPasswordReset, HolderRow
  <2> QED  BY <1>11, <2>1, IssuedFits DEF RequestPasswordReset, Purposes
<1>12. ASSUME NEW a \in Accounts, ChangeHolderPassword(a) \/ UpdateHolderStatus(a)
       PROVE  RecoveryIInv' /\ CurrentReset
  <2>1. UNCHANGED <<recoveryClock, mailedCode, misses, mailVars>>
    BY <1>12 DEF ChangeHolderPassword, UpdateHolderStatus
  <2>2. holder[a] \in HolderRow
    BY <1>0
  <2>3. PICK h : /\ h \in HolderRow /\ h.mailbox = holder[a].mailbox
                 /\ holder' = [holder EXCEPT ![a] = h]
    <3>1. CASE ChangeHolderPassword(a)
      <4>1. PICK h : h = [holder[a] EXCEPT !.pw = holder[a].pw + 1]
        OBVIOUS
      <4>2. h \in HolderRow /\ h.mailbox = holder[a].mailbox
        BY <2>2, <4>1 DEF HolderRow
      <4>3. holder' = [holder EXCEPT ![a] = h]
        BY <1>0, <3>1, <4>1 DEF ChangeHolderPassword
      <4> QED  BY <4>2, <4>3
    <3>2. CASE UpdateHolderStatus(a)
      <4>1. PICK h : h = [holder[a] EXCEPT !.active = ~holder[a].active]
        OBVIOUS
      <4>2. h \in HolderRow /\ h.mailbox = holder[a].mailbox
        BY <2>2, <4>1 DEF HolderRow
      <4>3. holder' = [holder EXCEPT ![a] = h]
        BY <1>0, <3>2, <4>1 DEF UpdateHolderStatus
      <4> QED  BY <4>2, <4>3
    <3> QED  BY <1>12, <3>1, <3>2
  <2>4. holder' \in [Accounts -> HolderRow]
        /\ \A b \in Accounts : holder'[b].mailbox = holder[b].mailbox
    BY <1>0, <2>3
  <2>5. MailIInv' /\ CodesFit'
    BY <2>1 DEF RecoveryIInv, MailIInv, MailTypeOK, MailSlotsAreAccounted, In, mailVars,
       CodesFit
  <2>6. RecoveryTypeOK'
    BY <1>0, <2>1, <2>4, <2>5 DEF RecoveryTypeOK, MailIInv
  <2>7. MailboxIsProved'
    BY <2>1, <2>4, MailboxStays DEF mailVars
  <2>8. CurrentReset
    BY <2>1, NoReset
  <2> QED  BY <2>5, <2>6, <2>7, <2>8 DEF RecoveryIInv
<1>13. CASE UNCHANGED accountVars
  <2>1. UNCHANGED recoveryVars /\ UNCHANGED mailVars
    BY <1>13 DEF accountVars
  <2>2. MailIInv' /\ MailStays
    BY <1>0, <2>1 DEF MailIInv, MailTypeOK, MailSlotsAreAccounted, In, mailVars, MailStays
  <2> QED  BY <1>13, <2>1, <2>2, MailMoves
<1> QED  BY <1>1, <1>2, <1>3, <1>4, <1>5, <1>6, <1>7, <1>8, <1>9, <1>10, <1>11, <1>12, <1>13
         DEF RecoveryNext

\* The invariant of AccountRecovery, with that of Mailer, holds of every behaviour.
THEOREM RecoveryInvariance == RecoverySpec => []RecoveryIInv
<1>1. RecoveryInit => RecoveryIInv
  <2> SUFFICES ASSUME RecoveryInit PROVE RecoveryIInv
    OBVIOUS
  <2> USE RecoveryAssumption, MailerAssumption
  <2>1. MailIInv
    <3>1. MailTypeOK /\ In("queued") = {}
      BY DEF RecoveryInit, MailInit, MailTypeOK, In
    <3>2. {m \in Mails : mail[m] \in Holding} = {}
      BY DEF RecoveryInit, MailInit, Holding
    <3>3. Cardinality({m \in Mails : mail[m] \in Holding}) = 0
      BY <3>2, FS_EmptySet
    <3>4. mailsActive = 0 /\ 0 <= MailSlots
      BY DEF RecoveryInit, MailInit
    <3> QED  BY <3>1, <3>3, <3>4 DEF MailIInv, MailSlotsAreAccounted
  <2>2. mailedCode \in [MailedCodes -> Row] /\ misses \in [MailedCodes -> Nat]
        /\ \A k \in MailedCodes : mailedCode[k].state = "new" /\ misses[k] = 0
    <3>1. (CHOOSE a \in Accounts : TRUE) \in Accounts
      OBVIOUS
    <3>2. (CHOOSE m \in Mailboxes : TRUE) \in Mailboxes
      OBVIOUS
    <3>3. [state |-> "new", owner |-> CHOOSE a \in Accounts : TRUE,
           purpose |-> "email_verify", to |-> CHOOSE m \in Mailboxes : TRUE,
           pw |-> 0, expires |-> 0] \in Row
      BY <3>1, <3>2 DEF Row, Purposes
    <3> QED  BY <3>3 DEF RecoveryInit
  <2>3. holder \in [Accounts -> HolderRow] /\ \A a \in Accounts : holder[a].mailbox = NoMailbox
    BY DEF RecoveryInit, HolderRow
  <2>4. recoveryClock \in 0..RecoveryEnd
    BY DEF RecoveryInit
  <2>5. RecoveryTypeOK
    BY <2>1, <2>2, <2>3, <2>4 DEF RecoveryTypeOK, MailIInv
  <2>6. CodesFit /\ MailboxIsProved
    BY <2>2, <2>3 DEF CodesFit, CodeFits, MailboxIsProved
  <2> QED  BY <2>1, <2>5, <2>6 DEF RecoveryIInv
<1> QED  BY <1>1, RecoveryStep, PTL DEF RecoverySpec

\* Recovery by mail: a mailbox is one account's and was proved by a code that reached
\* it, a code the mailer took is never burned, and a password is reset only with a code
\* that reached the account's mailbox of today under its password of today.
THEOREM RecoveryStaysProved == RecoverySpec => RecoveryIsProved
<1>1. RecoveryIInv => RecoveryTypeOK /\ MailboxIsProved /\ OnlyRefusedCodesBurn
  BY DEF RecoveryIInv, CodesFit, CodeFits, OnlyRefusedCodesBurn
<1>2. RecoveryIInv /\ [RecoveryNext]_accountVars => [CurrentReset]_accountVars
  BY RecoveryStep
<1> QED  BY <1>1, <1>2, RecoveryInvariance, PTL DEF RecoverySpec, RecoveryIsProved

\* A function over the first numbers is a sequence.
LEMMA Numbered ==
  ASSUME NEW n \in Nat, NEW S, NEW s \in [1..n -> S]
  PROVE  s \in Seq(S) /\ Len(s) = n /\ DOMAIN s = 1..n
<1>1. s \in Seq(S)
  BY SeqDef
<1>2. Len(s) = n
  <2>1. Len(s) \in Nat /\ DOMAIN s = 1..Len(s)
    BY <1>1
  <2>2. DOMAIN s = 1..n
    OBVIOUS
  <2> QED  BY <2>1, <2>2
<1> QED  BY <1>1, <1>2

-----------------------------------------------------------------------------
(* Notices.                                                                *)

\* A challenge was born, is kept for two days and while it is open has guesses left.
ProofFits(q, h) ==
    /\ q.born <= h
    /\ q.state = "swept" => q.born + 2 * Day <= h
    /\ q.state = "open" => q.guesses < MaxGuesses

ProofsFit == \A i \in 1..Len(proof) : ProofFits(proof[i], hour)

\* The inductive invariant of Notices.
NoticeIInv == NoticeTypeOK /\ ProofsFit /\ SmsBudgetIsDurable

\* The challenges of a sequence, as sequences keep them.
LEMMA ProofsAre ==
  ASSUME NoticeTypeOK, NEW i \in 1..Len(proof)
  PROVE  /\ Len(proof) \in Nat /\ proof[i] \in PhoneProof
         /\ proof[i].born \in Nat /\ proof[i].guesses \in Nat
<1>1. Len(proof) \in Nat /\ proof[i] \in PhoneProof
  BY DEF NoticeTypeOK
<1> QED  BY <1>1 DEF PhoneProof

\* What changes states and bearers, and no birth, leaves the budget alone.
LEMMA BirthsStay ==
  ASSUME NoticeIInv, hour' = hour, Len(proof') = Len(proof),
         \A i \in 1..Len(proof) : /\ proof'[i].owner = proof[i].owner
                                  /\ proof'[i].phone = proof[i].phone
                                  /\ proof'[i].born = proof[i].born
  PROVE  SmsBudgetIsDurable'
<1>1. ASSUME NEW p, NEW h
      PROVE  {i \in 1..Len(proof) : proof[i].phone = p /\ proof[i].born = h}'
                = {i \in 1..Len(proof) : proof[i].phone = p /\ proof[i].born = h}
  OBVIOUS
<1>2. ASSUME NEW a, NEW h, NEW n
      PROVE  BornIn(a, h, n)' = BornIn(a, h, n)
  BY DEF BornIn
<1>3. \A p \in Phones, h \in 0..hour' :
         Cardinality({i \in 1..Len(proof) : proof[i].phone = p /\ proof[i].born = h}') <= TargetLimit
  BY <1>1 DEF NoticeIInv, SmsBudgetIsDurable
<1>4. \A a \in Recipients, h \in 0..hour' :
         Cardinality(BornIn(a, h, 1)') <= HourLimit /\ Cardinality(BornIn(a, h, Day)') <= DayLimit
  BY <1>2 DEF NoticeIInv, SmsBudgetIsDurable
<1> QED  BY <1>3, <1>4 DEF SmsBudgetIsDurable

\* An UPDATE of challenges touches their state only.
LEMMA UpdateKeeps ==
  ASSUME NoticeTypeOK, NEW I,
         NEW s \in {"used", "exhausted", "superseded", "removed", "swept"}
  PROVE  /\ Update(I, s) \in Seq(PhoneProof) /\ Len(Update(I, s)) = Len(proof)
         /\ \A i \in 1..Len(proof) :
               Update(I, s)[i] = IF i \in I THEN [proof[i] EXCEPT !.state = s] ELSE proof[i]
<1> DEFINE u == Update(I, s)
<1>1. Len(proof) \in Nat
  BY DEF NoticeTypeOK
<1>2. ASSUME NEW i \in 1..Len(proof)
      PROVE  (IF i \in I THEN [proof[i] EXCEPT !.state = s] ELSE proof[i]) \in PhoneProof
  BY ProofsAre DEF PhoneProof
<1>3. u \in [1..Len(proof) -> PhoneProof]
  BY <1>2 DEF Update
<1>4. u \in Seq(PhoneProof) /\ Len(u) = Len(proof)
  BY <1>1, <1>3, Numbered
<1> QED  BY <1>4 DEF Update

\* An UPDATE that sweeps nothing young keeps the invariant.
LEMMA UpdateFits ==
  ASSUME NoticeIInv, NEW I,
         NEW s \in {"used", "exhausted", "superseded", "removed", "swept"},
         s = "swept" => \A i \in I : i \in 1..Len(proof) => proof[i].born + 2 * Day <= hour,
         hour' = hour, proof' = Update(I, s)
  PROVE  /\ proof' \in Seq(PhoneProof) /\ Len(proof') = Len(proof)
         /\ ProofsFit' /\ SmsBudgetIsDurable'
<1>1. NoticeTypeOK
  BY DEF NoticeIInv
<1>2. /\ proof' \in Seq(PhoneProof) /\ Len(proof') = Len(proof)
      /\ \A i \in 1..Len(proof) :
            proof'[i] = IF i \in I THEN [proof[i] EXCEPT !.state = s] ELSE proof[i]
  BY <1>1, UpdateKeeps, SMTT(90)
<1>3. ASSUME NEW i \in 1..Len(proof)
      PROVE  /\ proof'[i].owner = proof[i].owner /\ proof'[i].phone = proof[i].phone
             /\ proof'[i].born = proof[i].born /\ proof'[i].guesses = proof[i].guesses
             /\ proof'[i].state = IF i \in I THEN s ELSE proof[i].state
  BY <1>1, <1>2, ProofsAre DEF PhoneProof
<1>4. SmsBudgetIsDurable'
  BY <1>2, <1>3, BirthsStay
<1>5. ASSUME NEW i \in 1..Len(proof)
      PROVE  ProofFits(proof'[i], hour)
  BY <1>3 DEF ProofFits, NoticeIInv, ProofsFit
<1>6. ProofsFit'
  BY <1>2, <1>5 DEF ProofsFit
<1> QED  BY <1>2, <1>4, <1>6

\* A set that fits and gains one of fewer members still fits.
LEMMA OneMoreFits ==
  ASSUME NEW n \in Nat, NEW S \in SUBSET (1..n), NEW T \in SUBSET (1..n),
         NEW limit \in Nat, Cardinality(T) < limit, S \subseteq T
  PROVE  Cardinality(S \cup {n + 1}) <= limit
<1>1. IsFiniteSet(1..n)
  BY FS_Interval
<1>2. IsFiniteSet(T) /\ Cardinality(T) \in Nat
  BY <1>1, FS_Subset, FS_CardinalityType
<1>3. IsFiniteSet(S) /\ Cardinality(S) <= Cardinality(T) /\ Cardinality(S) \in Nat
  BY <1>2, FS_Subset, FS_CardinalityType
<1>4. n + 1 \notin S
  OBVIOUS
<1>5. Cardinality(S \cup {n + 1}) = Cardinality(S) + 1
  BY <1>3, <1>4, FS_AddElement
<1> QED  BY <1>2, <1>3, <1>5

\* A challenge is issued within the budgets of every hour and day it falls into.
LEMMA IssueFits ==
  ASSUME NoticeIInv, NEW s \in AlertBearers, NEW a \in Recipients, NEW p \in Phones,
         RequestPhone(s, a, p)
  PROVE  NoticeIInv'
<1> USE NoticesAssumption
<1> DEFINE n == Len(proof)
           u == Update(Open(a), "superseded")
           q == [state |-> "open", owner |-> a, bearer |-> s, phone |-> p,
                 born |-> hour, guesses |-> 0]
<1>1. NoticeTypeOK /\ n \in Nat /\ hour \in Nat
  BY DEF NoticeIInv, NoticeTypeOK
<1>2. /\ u \in Seq(PhoneProof) /\ Len(u) = n
      /\ \A i \in 1..n : u[i] = IF i \in Open(a) THEN [proof[i] EXCEPT !.state = "superseded"]
                                                ELSE proof[i]
  BY <1>1, UpdateKeeps
<1>3. q \in PhoneProof
  BY <1>1 DEF PhoneProof
<1>4. proof' = Append(u, q)
  BY DEF RequestPhone
<1> HIDE DEF u
<1>5. /\ proof' \in Seq(PhoneProof) /\ Len(proof') = n + 1 /\ proof'[n + 1] = q
      /\ \A i \in 1..n : proof'[i] = u[i]
  BY <1>2, <1>3, <1>4
<1>6. ASSUME NEW i \in 1..n
      PROVE  /\ proof'[i].owner = proof[i].owner /\ proof'[i].phone = proof[i].phone
             /\ proof'[i].born = proof[i].born /\ proof'[i].guesses = proof[i].guesses
             /\ proof'[i].state = IF i \in Open(a) THEN "superseded" ELSE proof[i].state
             /\ proof[i].born \in Nat
             /\ ProofFits(proof[i], hour)
  <2>1. proof[i] \in PhoneProof /\ proof[i].born \in Nat
    BY <1>1, ProofsAre
  <2>2. proof'[i] = IF i \in Open(a) THEN [proof[i] EXCEPT !.state = "superseded"] ELSE proof[i]
    BY <1>2, <1>5
  <2>3. ProofFits(proof[i], hour)
    BY DEF NoticeIInv, ProofsFit
  <2> QED  BY <2>1, <2>2, <2>3 DEF PhoneProof
<1>7. NoticeTypeOK'
  BY <1>1, <1>5 DEF NoticeTypeOK, RequestPhone, Delivery, Reading
<1>8. ProofsFit'
  <2>1. ASSUME NEW i \in 1..n
        PROVE  ProofFits(proof'[i], hour)
    BY <1>6 DEF ProofFits
  <2>2. ProofFits(proof'[n + 1], hour)
    BY <1>1, <1>5 DEF ProofFits
  <2>3. hour' = hour
    BY DEF RequestPhone
  <2> QED  BY <1>1, <1>5, <2>1, <2>2, <2>3 DEF ProofsFit
<1>9. ASSUME NEW r \in Phones, NEW h \in 0..hour
      PROVE  Cardinality({i \in 1..Len(proof') : proof'[i].phone = r /\ proof'[i].born = h})
                <= TargetLimit
  <2> DEFINE S == {i \in 1..n : proof[i].phone = r /\ proof[i].born = h}
             N == {i \in 1..Len(proof') : proof'[i].phone = r /\ proof'[i].born = h}
  <2>1. CASE r = p /\ h = hour
    <3>1. N = S \cup {n + 1}
      BY <1>1, <1>5, <1>6, <2>1
    <3>2. S \subseteq SentTo(p)
      BY <1>1, <1>6, <2>1 DEF SentTo, Stored, ProofFits
    <3>3. Cardinality(SentTo(p)) < TargetLimit /\ SentTo(p) \in SUBSET (1..n)
      BY DEF RequestPhone, SentTo, Stored
    <3> QED  BY <1>1, <3>1, <3>2, <3>3, OneMoreFits
  <2>2. CASE ~(r = p /\ h = hour)
    <3>1. N = S
      BY <1>1, <1>5, <1>6, <2>2
    <3>2. Cardinality(S) <= TargetLimit
      BY DEF NoticeIInv, SmsBudgetIsDurable
    <3> QED  BY <3>1, <3>2
  <2> QED  BY <2>1, <2>2
<1>10. ASSUME NEW b \in Recipients, NEW h \in 0..hour, NEW d \in {1, Day}, NEW limit \in Nat,
              Cardinality(BornIn(b, h, d)) <= limit,
              Cardinality(ProofsIssued(a, d)) < limit
       PROVE  Cardinality({i \in 1..Len(proof') : /\ proof'[i].owner = b
                                                  /\ h <= proof'[i].born
                                                  /\ proof'[i].born < h + d}) <= limit
  <2> DEFINE N == {i \in 1..Len(proof') : /\ proof'[i].owner = b
                                          /\ h <= proof'[i].born /\ proof'[i].born < h + d}
  <2>0. d \in Nat \ {0} /\ d <= Day /\ h \in Nat
    BY <1>1
  <2>1. CASE b = a /\ hour < h + d
    <3>1. N = BornIn(a, h, d) \cup {n + 1}
      BY <1>1, <1>5, <1>6, <2>0, <2>1 DEF BornIn
    <3>2. BornIn(a, h, d) \subseteq ProofsIssued(a, d)
      <4>1. ASSUME NEW i \in BornIn(a, h, d)
            PROVE  i \in 1..n /\ proof[i].owner = a /\ proof[i].born + d > hour
                   /\ proof[i].born + 2 * Day > hour
        BY <1>1, <1>6, <2>0, <2>1, SMTT(60) DEF BornIn
      <4>2. ASSUME NEW i \in BornIn(a, h, d)
            PROVE  proof[i].state # "swept"
        BY <1>1, <1>6, <4>1 DEF ProofFits
      <4> QED  BY <4>1, <4>2 DEF ProofsIssued, Stored
    <3>3. ProofsIssued(a, d) \in SUBSET (1..n) /\ BornIn(a, h, d) \in SUBSET (1..n)
      BY DEF ProofsIssued, Stored, BornIn
    <3>4. Cardinality(BornIn(a, h, d) \cup {n + 1}) <= limit
      <4> HIDE DEF n
      <4> QED  BY <1>1, <1>10, <3>2, <3>3, OneMoreFits
    <3> QED  BY <3>1, <3>4
  <2>2. CASE ~(b = a /\ hour < h + d)
    <3>1. N = BornIn(b, h, d)
      BY <1>1, <1>5, <1>6, <2>0, <2>2 DEF BornIn
    <3> QED  BY <1>10, <3>1
  <2> QED  BY <2>1, <2>2
<1>11. ASSUME NEW b \in Recipients, NEW h \in 0..hour
       PROVE  Cardinality(BornIn(b, h, 1)') <= HourLimit
  <2>1. Cardinality(BornIn(b, h, 1)) <= HourLimit
    BY DEF NoticeIInv, SmsBudgetIsDurable
  <2>2. Cardinality(ProofsIssued(a, 1)) < HourLimit
    BY DEF RequestPhone
  <2>3. Cardinality({i \in 1..Len(proof') : /\ proof'[i].owner = b
                                            /\ h <= proof'[i].born
                                            /\ proof'[i].born < h + 1}) <= HourLimit
    BY <1>10, <2>1, <2>2
  <2> QED  BY <2>3 DEF BornIn
<1>12. ASSUME NEW b \in Recipients, NEW h \in 0..hour
       PROVE  Cardinality(BornIn(b, h, Day)') <= DayLimit
  <2>1. Cardinality(BornIn(b, h, Day)) <= DayLimit
    BY DEF NoticeIInv, SmsBudgetIsDurable
  <2>2. Cardinality(ProofsIssued(a, Day)) < DayLimit
    BY DEF RequestPhone
  <2>3. Cardinality({i \in 1..Len(proof') : /\ proof'[i].owner = b
                                            /\ h <= proof'[i].born
                                            /\ proof'[i].born < h + Day}) <= DayLimit
    BY <1>10, <2>1, <2>2
  <2> QED  BY <2>3 DEF BornIn
<1>13. SmsBudgetIsDurable'
  <2>1. hour' = hour
    BY DEF RequestPhone
  <2>2. \A r \in Phones, h \in 0..hour' :
           Cardinality({i \in 1..Len(proof') : proof'[i].phone = r /\ proof'[i].born = h})
              <= TargetLimit
    BY <1>9, <2>1
  <2>3. \A b \in Recipients, h \in 0..hour' :
           Cardinality(BornIn(b, h, 1)') <= HourLimit /\ Cardinality(BornIn(b, h, Day)') <= DayLimit
    BY <1>11, <1>12, <2>1
  <2> QED  BY <2>2, <2>3 DEF SmsBudgetIsDurable
<1> QED  BY <1>7, <1>8, <1>13 DEF NoticeIInv

\* A delivery that has begun, as its records keep it.
LEMMA DeliveriesAre ==
  ASSUME NoticeTypeOK, NEW t \in Tasks, task[t].pc # "idle" \/ task[t].expired # 0
  PROVE  /\ task[t] \in Delivery /\ task[t].owner \in Recipients
         /\ task[t].rows \subseteq Reading /\ task[t].expired \in 0..Len(row)
<1>1. task[t] \in {NoDelivery} \cup Delivery
  BY DEF NoticeTypeOK
<1>2. task[t] # NoDelivery
  BY DEF NoDelivery
<1>3. task[t] \in Delivery
  BY <1>1, <1>2
<1> QED  BY <1>3 DEF Delivery

\* What a step of the pool may leave behind.
LEMMA DeliveriesFit ==
  ASSUME NoticeIInv, row' \in Seq(Subscription),
         Len(row') >= Len(row),
         UNCHANGED <<hour, alertBearer, phone, proof, texts>>,
         stopped' \in BOOLEAN, gone' \subseteq Reading',
         \A t \in Tasks : task'[t] = task[t] \/ task'[t] \in {NoDelivery} \cup Delivery,
         task' \in [Tasks -> {task'[t] : t \in Tasks}]
  PROVE  NoticeIInv'
<1>1. NoticeTypeOK /\ Len(row) \in Nat /\ Len(row') \in Nat
  BY DEF NoticeIInv, NoticeTypeOK
<1>2. Delivery \subseteq Delivery'
  <2>1. Reading \subseteq Reading' /\ 0..Len(row) \subseteq 0..Len(row')
    BY <1>1 DEF Reading
  <2> QED  BY <2>1 DEF Delivery
<1>3. task' \in [Tasks -> {NoDelivery} \cup Delivery']
  BY <1>1, <1>2 DEF NoticeTypeOK
<1>4. NoticeTypeOK'
  BY <1>1, <1>3 DEF NoticeTypeOK, NoDelivery
<1>5. ProofsFit' /\ SmsBudgetIsDurable'
  BY ZenonT(60) DEF NoticeIInv, ProofsFit, SmsBudgetIsDurable, BornIn
<1> QED  BY <1>4, <1>5 DEF NoticeIInv

\* What a step of the phone routes may leave behind.
LEMMA ChallengesFit ==
  ASSUME NoticeIInv, proof' \in Seq(PhoneProof), Len(proof') = Len(proof),
         hour' \in 0..MaxHour,
         alertBearer' \in [AlertBearers -> Recipients \cup {NoRecipient}],
         phone' \in [Recipients -> Phones \cup {NoRecipient}],
         texts' \subseteq 1..Len(proof),
         UNCHANGED <<row, task, stopped, gone>>
  PROVE  NoticeTypeOK'
BY DEF NoticeIInv, NoticeTypeOK, Delivery, Reading

\* Every route, sweep and step of the pool keeps the invariant, and alerts no phone
\* that was not proved.
LEMMA NoticeStep ==
  NoticeIInv /\ [NoticeNext]_noticeVars
     => NoticeIInv' /\ (ProvedPhone \/ UNCHANGED noticeVars)
<1> SUFFICES ASSUME NoticeIInv, [NoticeNext]_noticeVars
             PROVE  NoticeIInv' /\ (ProvedPhone \/ UNCHANGED noticeVars)
  OBVIOUS
<1> USE NoticesAssumption
<1>0. /\ NoticeTypeOK /\ ProofsFit /\ SmsBudgetIsDurable
      /\ Len(proof) \in Nat /\ Len(row) \in Nat /\ hour \in Nat
      /\ proof \in Seq(PhoneProof)
      /\ row \in Seq(Subscription)
      /\ \A i \in 1..Len(proof) : proof[i] \in PhoneProof
  BY DEF NoticeIInv, NoticeTypeOK
<1>a. ASSUME phone' = phone
      PROVE  ProvedPhone
  BY <1>a DEF ProvedPhone
<1>1. CASE NoticeTick
  <2>1. NoticeTypeOK'
    BY <1>0, <1>1, ChallengesFit DEF NoticeTick, NoticeTypeOK
  <2>2. ProofsFit'
    <3>1. ASSUME NEW i \in 1..Len(proof)
          PROVE  ProofFits(proof[i], hour + 1)
      <4>1. ProofFits(proof[i], hour) /\ proof[i].born \in Nat
        BY <1>0, ProofsAre DEF ProofsFit
      <4> QED  BY <1>0, <4>1, SMTT(60) DEF ProofFits
    <3> QED  BY <1>1, <3>1 DEF NoticeTick, ProofsFit
  <2>3. SmsBudgetIsDurable'
    <3>1. ASSUME NEW i \in 1..Len(proof)
          PROVE  proof[i].born \in Nat /\ proof[i].born < hour + 1
      <4>1. ProofFits(proof[i], hour) /\ proof[i].born \in Nat
        BY <1>0, ProofsAre DEF ProofsFit
      <4> QED  BY <1>0, <4>1 DEF ProofFits
    <3>2. ASSUME NEW p \in Phones, NEW h \in 0..(hour + 1)
          PROVE  Cardinality({i \in 1..Len(proof) : proof[i].phone = p /\ proof[i].born = h})
                    <= TargetLimit
      <4>1. CASE h = hour + 1
        <5>1. {i \in 1..Len(proof) : proof[i].phone = p /\ proof[i].born = h} = {}
          BY <3>1, <4>1
        <5>2. Cardinality({i \in 1..Len(proof) : proof[i].phone = p /\ proof[i].born = h}) = 0
          BY <5>1, FS_EmptySet
        <5> QED  BY <5>2
      <4>2. CASE h # hour + 1
        BY <1>0, <4>2 DEF SmsBudgetIsDurable
      <4> QED  BY <4>1, <4>2
    <3>3. ASSUME NEW a \in Recipients, NEW h \in 0..(hour + 1)
          PROVE  Cardinality(BornIn(a, h, 1)) <= HourLimit
                 /\ Cardinality(BornIn(a, h, Day)) <= DayLimit
      <4>1. CASE h = hour + 1
        <5>1. BornIn(a, h, 1) = {} /\ BornIn(a, h, Day) = {}
          BY <1>0, <3>1, <4>1 DEF BornIn
        <5> QED  BY <5>1, FS_EmptySet
      <4>2. CASE h # hour + 1
        BY <1>0, <4>2 DEF SmsBudgetIsDurable
      <4> QED  BY <4>1, <4>2
    <3>4. hour' = hour + 1 /\ proof' = proof
      BY <1>1 DEF NoticeTick
    <3>5. \A p \in Phones, h \in 0..hour' :
             Cardinality({i \in 1..Len(proof') : proof'[i].phone = p /\ proof'[i].born = h})
                <= TargetLimit
      BY <3>2, <3>4
    <3>6. \A a \in Recipients, h \in 0..hour' :
             Cardinality(BornIn(a, h, 1)') <= HourLimit /\ Cardinality(BornIn(a, h, Day)') <= DayLimit
      <4>1. ASSUME NEW a, NEW h, NEW n
            PROVE  BornIn(a, h, n)' = BornIn(a, h, n)
        BY <3>4 DEF BornIn
      <4> QED  BY <3>3, <3>4, <4>1
    <3> QED  BY <3>5, <3>6 DEF SmsBudgetIsDurable
  <2>4. phone' = phone
    BY <1>1 DEF NoticeTick
  <2> QED  BY <1>a, <2>1, <2>2, <2>3, <2>4 DEF NoticeIInv
<1>2. CASE SweepProofs
  <2>1. /\ proof' \in Seq(PhoneProof) /\ Len(proof') = Len(proof)
        /\ ProofsFit' /\ SmsBudgetIsDurable'
    BY <1>2, UpdateFits DEF SweepProofs
  <2>2. NoticeTypeOK'
    BY <1>0, <1>2, <2>1, ChallengesFit DEF SweepProofs, NoticeTypeOK
  <2>3. phone' = phone
    BY <1>2 DEF SweepProofs
  <2> QED  BY <1>a, <2>1, <2>2, <2>3 DEF NoticeIInv
<1>3. ASSUME NEW j \in 1..Len(proof), TextArrives(j)
      PROVE  NoticeIInv' /\ ProvedPhone
  <2>1. texts' \subseteq 1..Len(proof) /\ phone' = phone
    BY <1>0, <1>3 DEF TextArrives, NoticeTypeOK
  <2>2. NoticeTypeOK'
    BY <1>0, <1>3, <2>1, ChallengesFit DEF TextArrives, NoticeTypeOK
  <2>3. ProofsFit' /\ SmsBudgetIsDurable'
    <3>1. hour' = hour /\ proof' = proof
      BY <1>3 DEF TextArrives
    <3>2. SmsBudgetIsDurable'
      BY <1>0, <3>1, BirthsStay
    <3> QED  BY <1>0, <3>1, <3>2 DEF ProofsFit
  <2> QED  BY <1>a, <2>1, <2>2, <2>3 DEF NoticeIInv
<1>4. ASSUME NEW s \in AlertBearers, Logout(s)
      PROVE  NoticeIInv' /\ ProvedPhone
  <2> DEFINE e(i) == IF proof[i].bearer = s THEN [proof[i] EXCEPT !.bearer = NoRecipient]
                                            ELSE proof[i]
  <2>1. proof' = [i \in 1..Len(proof) |-> e(i)] /\ phone' = phone /\ hour' = hour
    BY <1>4 DEF Logout
  <2>2. ASSUME NEW i \in 1..Len(proof)
        PROVE  /\ e(i) \in PhoneProof
               /\ e(i).owner = proof[i].owner /\ e(i).phone = proof[i].phone
               /\ e(i).born = proof[i].born /\ e(i).guesses = proof[i].guesses
               /\ e(i).state = proof[i].state
    <3>1. proof[i] \in PhoneProof
      BY <1>0
    <3> QED  BY <3>1 DEF PhoneProof
  <2> HIDE DEF e
  <2>3. proof' \in [1..Len(proof) -> PhoneProof]
    BY <2>1, <2>2
  <2>4. proof' \in Seq(PhoneProof) /\ Len(proof') = Len(proof)
    BY <1>0, <2>3, Numbered
  <2>5. ASSUME NEW i \in 1..Len(proof)
        PROVE  /\ proof'[i].owner = proof[i].owner /\ proof'[i].phone = proof[i].phone
               /\ proof'[i].born = proof[i].born /\ proof'[i].guesses = proof[i].guesses
               /\ proof'[i].state = proof[i].state
    BY <2>1, <2>2
  <2>6. SmsBudgetIsDurable'
    BY <2>1, <2>4, <2>5, BirthsStay
  <2>7. ProofsFit'
    BY <1>0, <2>1, <2>4, <2>5, SMTT(60) DEF ProofsFit, ProofFits
  <2>8. NoticeTypeOK'
    <3>1. alertBearer' \in [AlertBearers -> Recipients \cup {NoRecipient}]
      BY <1>0, <1>4 DEF Logout, NoticeTypeOK
    <3>2. /\ hour' \in 0..MaxHour /\ phone' \in [Recipients -> Phones \cup {NoRecipient}]
          /\ texts' \subseteq 1..Len(proof) /\ UNCHANGED <<row, task, stopped, gone>>
      BY <1>0, <1>4 DEF Logout, NoticeTypeOK
    <3> QED  BY <2>4, <3>1, <3>2, ChallengesFit
  <2> QED  BY <1>a, <2>1, <2>6, <2>7, <2>8 DEF NoticeIInv
<1>5. ASSUME NEW s \in AlertBearers, NEW a \in Recipients, NEW p \in Phones,
             RequestPhone(s, a, p)
      PROVE  NoticeIInv' /\ ProvedPhone
  <2>1. phone' = phone
    BY <1>5 DEF RequestPhone
  <2> QED  BY <1>5, <1>a, <2>1, IssueFits
<1>6. ASSUME NEW s \in AlertBearers, NEW a \in Recipients, RemovePhone(s, a)
      PROVE  NoticeIInv' /\ ProvedPhone
  <2>1. /\ proof' \in Seq(PhoneProof) /\ Len(proof') = Len(proof)
        /\ ProofsFit' /\ SmsBudgetIsDurable'
    BY <1>6, UpdateFits DEF RemovePhone, RemovedKept
  <2>2. phone' \in [Recipients -> Phones \cup {NoRecipient}]
    BY <1>0, <1>6 DEF RemovePhone, NoticeTypeOK
  <2>3. NoticeTypeOK'
    BY <1>0, <1>6, <2>1, <2>2, ChallengesFit DEF RemovePhone, NoticeTypeOK
  <2>4. ProvedPhone
    BY <1>0, <1>6 DEF RemovePhone, ProvedPhone, NoticeTypeOK
  <2> QED  BY <2>1, <2>3, <2>4 DEF NoticeIInv
<1>7. ASSUME NEW s \in AlertBearers, NEW a \in Recipients, NEW j \in 1..Len(proof),
             VerifyPhone(s, a, j)
      PROVE  NoticeIInv' /\ ProvedPhone
  <2>1. /\ proof' \in Seq(PhoneProof) /\ Len(proof') = Len(proof)
        /\ ProofsFit' /\ SmsBudgetIsDurable'
    BY <1>7, UpdateFits DEF VerifyPhone
  <2>2. /\ proof[j] \in PhoneProof /\ proof[j].phone \in Phones
        /\ ProofFits(proof[j], hour)
    <3>1. proof[j] \in PhoneProof
      BY <1>0
    <3> QED  BY <1>0, <3>1 DEF ProofsFit, PhoneProof
  <2>3. phone' \in [Recipients -> Phones \cup {NoRecipient}]
    BY <1>0, <1>7, <2>2 DEF VerifyPhone, NoticeTypeOK
  <2>4. NoticeTypeOK'
    BY <1>0, <1>7, <2>1, <2>3, ChallengesFit DEF VerifyPhone, NoticeTypeOK
  <2>5. ASSUME NEW b \in Recipients, phone'[b] # phone[b]
        PROVE  b = a /\ phone'[b] = proof[j].phone
    BY <1>0, <1>7, <2>5 DEF VerifyPhone, NoticeTypeOK
  <2>6. /\ j \in texts /\ proof[j].owner = a /\ proof[j].state = "open"
        /\ proof[j].bearer = s /\ alertBearer[s] = a
    BY <1>7 DEF VerifyPhone, Valid, Open
  <2>7. proof[j].guesses < MaxGuesses /\ proof[j].bearer # NoRecipient
    BY <2>2, <2>6 DEF ProofFits
  <2>8. ProvedPhone
    BY <2>5, <2>6, <2>7 DEF ProvedPhone
  <2> QED  BY <2>1, <2>4, <2>8 DEF NoticeIInv
<1>8. ASSUME NEW s \in AlertBearers, NEW a \in Recipients, NEW j \in 1..Len(proof),
             VerifyPhoneWrongly(s, a, j)
      PROVE  NoticeIInv' /\ ProvedPhone
  <2> DEFINE g == proof[j].guesses + 1
             d == IF g >= MaxGuesses THEN "exhausted" ELSE "open"
  <2>1. proof[j] \in PhoneProof /\ g \in Nat /\ proof[j].state = "open"
    <3>1. proof[j] \in PhoneProof /\ proof[j].guesses \in Nat
      BY <1>0, ProofsAre
    <3> QED  BY <1>8, <3>1, SMTT(60) DEF VerifyPhoneWrongly, Valid, Open
  <2>2. PICK q : q = [proof[j] EXCEPT !.guesses = g, !.state = d]
    OBVIOUS
  <2>3. /\ q \in PhoneProof /\ q.owner = proof[j].owner /\ q.phone = proof[j].phone
        /\ q.born = proof[j].born /\ q.guesses = g /\ q.state = d
    BY <2>1, <2>2 DEF PhoneProof
  <2>4. proof' = [proof EXCEPT ![j] = q]
    BY <1>0, <1>8, <2>1, <2>2 DEF VerifyPhoneWrongly
  <2>5. proof' \in Seq(PhoneProof) /\ Len(proof') = Len(proof)
    BY <1>0, <2>3, <2>4
  <2>6. ASSUME NEW i \in 1..Len(proof)
        PROVE  proof'[i] = IF i = j THEN q ELSE proof[i]
    BY <1>0, <2>4
  <2>7. hour' = hour /\ phone' = phone
    BY <1>8 DEF VerifyPhoneWrongly
  <2>8. SmsBudgetIsDurable'
    <3>1. \A i \in 1..Len(proof) : /\ proof'[i].owner = proof[i].owner
                                   /\ proof'[i].phone = proof[i].phone
                                   /\ proof'[i].born = proof[i].born
      BY <2>3, <2>6
    <3> QED  BY <2>5, <2>7, <3>1, BirthsStay
  <2>9. ProofsFit'
    <3>1. ASSUME NEW i \in 1..Len(proof)
          PROVE  ProofFits(proof'[i], hour)
      <4>1. CASE i = j
        <5>1. proof[j].born <= hour
          BY <1>0 DEF ProofsFit, ProofFits
        <5>2. q.state # "swept" /\ (q.state = "open" => q.guesses < MaxGuesses)
          BY <2>1, <2>3
        <5> QED  BY <2>3, <2>6, <4>1, <5>1, <5>2 DEF ProofFits
      <4>2. CASE i # j
        BY <1>0, <2>6, <4>2 DEF ProofsFit
      <4> QED  BY <4>1, <4>2
    <3> QED  BY <2>5, <2>7, <3>1 DEF ProofsFit
  <2>10. NoticeTypeOK'
    BY <1>0, <1>8, <2>5, ChallengesFit DEF VerifyPhoneWrongly, NoticeTypeOK
  <2> QED  BY <1>a, <2>7, <2>8, <2>9, <2>10 DEF NoticeIInv
<1>9. CASE CloseNotices \/ StartNotices
  <2>1. /\ UNCHANGED <<hour, alertBearer, phone, proof, texts, row, gone>> /\ task' = task
        /\ stopped' \in BOOLEAN
    BY <1>9 DEF CloseNotices, StartNotices
  <2>2. /\ task' \in [Tasks -> {task'[t] : t \in Tasks}]
        /\ gone' \subseteq Reading'
    BY <1>0, <2>1 DEF NoticeTypeOK, Reading
  <2>3. NoticeIInv'
    BY <1>0, <2>1, <2>2, DeliveriesFit
  <2> QED  BY <1>a, <2>1, <2>3
<1>10. ASSUME NEW j \in 1..Len(row), Drop(j)
       PROVE  NoticeIInv' /\ ProvedPhone
  <2>1. PICK v : v = row[j].version
    OBVIOUS
  <2>2. v \in 1..MaxRowVersion
    <3>1. row[j] \in Subscription
      BY <1>0
    <3> QED  BY <2>1, <3>1 DEF Subscription
  <2>3. /\ UNCHANGED <<hour, alertBearer, phone, proof, texts, row, stopped>> /\ task' = task
        /\ gone' = gone \cup {<<j, v>>}
    BY <1>10, <2>1 DEF Drop
  <2>4. gone' \subseteq Reading' /\ task' \in [Tasks -> {task'[t] : t \in Tasks}]
    BY <1>0, <2>2, <2>3 DEF NoticeTypeOK, Reading
  <2>5. NoticeIInv'
    BY <1>0, <2>3, <2>4, DeliveriesFit DEF NoticeTypeOK
  <2> QED  BY <1>a, <2>3, <2>5
<1>11. ASSUME NEW s \in AlertBearers, NEW a \in Recipients, NEW e \in Endpoints,
              SubscribePush(s, a, e)
       PROVE  NoticeIInv' /\ ProvedPhone
  <2>1. ASSUME row' = Append(row, [owner |-> a, endpoint |-> e, version |-> 1])
        PROVE  row' \in Seq(Subscription) /\ Len(row') = Len(row) + 1
    <3>1. [owner |-> a, endpoint |-> e, version |-> 1] \in Subscription
      BY DEF Subscription
    <3> QED  BY <1>0, <2>1, <3>1
  <2>2. ASSUME NEW i \in Registered(e) \cap RowsOf(a), row[i].version < MaxRowVersion,
               row' = [row EXCEPT ![i].version = @ + 1]
        PROVE  row' \in Seq(Subscription) /\ Len(row') = Len(row)
    <3>1. i \in 1..Len(row) /\ row[i] \in Subscription
      BY <1>0 DEF RowsOf
    <3>2. PICK q : q = [row[i] EXCEPT !.version = @ + 1]
      OBVIOUS
    <3>3. q \in Subscription
      BY <2>2, <3>1, <3>2, SMTT(60) DEF Subscription
    <3>4. row' = [row EXCEPT ![i] = q]
      BY <2>2, <3>1, <3>2
    <3> QED  BY <1>0, <3>1, <3>3, <3>4
  <2>3. row' \in Seq(Subscription) /\ Len(row') >= Len(row)
    BY <1>0, <1>11, <2>1, <2>2 DEF SubscribePush
  <2>4. UNCHANGED <<hour, alertBearer, phone, proof, texts, stopped, gone>> /\ task' = task
    BY <1>11 DEF SubscribePush
  <2>5. gone' \subseteq Reading' /\ task' \in [Tasks -> {task'[t] : t \in Tasks}]
    BY <1>0, <2>3, <2>4, SMTT(60) DEF NoticeTypeOK, Reading
  <2>6. NoticeIInv'
    BY <1>0, <2>3, <2>4, <2>5, DeliveriesFit DEF NoticeTypeOK
  <2> QED  BY <1>a, <2>4, <2>6
<1>12. ASSUME NEW s \in AlertBearers, NEW a \in Recipients, NEW I \in SUBSET RowsOf(a),
              Unsubscribe(s, a, I)
       PROVE  NoticeIInv' /\ ProvedPhone
  <2>1. row' \in [1..Len(row) -> Subscription]
    <3>1. row' = [i \in 1..Len(row) |->
                     IF i \in I THEN [row[i] EXCEPT !.owner = NoRecipient] ELSE row[i]]
      BY <1>12 DEF Unsubscribe
    <3>2. ASSUME NEW i \in 1..Len(row)
          PROVE  (IF i \in I THEN [row[i] EXCEPT !.owner = NoRecipient] ELSE row[i])
                    \in Subscription
      <4>1. PICK q : q = row[i]
        OBVIOUS
      <4>2. q \in Subscription
        BY <1>0, <4>1
      <4>3. [q EXCEPT !.owner = NoRecipient] \in Subscription
        BY <4>2 DEF Subscription
      <4> QED  BY <4>1, <4>2, <4>3
    <3> QED  BY <3>1, <3>2
  <2>2. /\ row' \in Seq(Subscription)
        /\ Len(row') = Len(row)
    BY <1>0, <2>1, Numbered
  <2>3. /\ UNCHANGED <<hour, alertBearer, phone, proof, texts>> /\ task' = task
        /\ stopped' \in BOOLEAN /\ gone' \subseteq Reading'
        /\ task' \in [Tasks -> {task'[t] : t \in Tasks}]
    BY <1>0, <1>12, <2>2 DEF Unsubscribe, NoticeTypeOK, Reading
  <2>4. NoticeIInv'
    BY <1>0, <2>2, <2>3, DeliveriesFit
  <2> QED  BY <1>a, <2>3, <2>4
<1>13. ASSUME NEW t \in Tasks, NEW a \in Recipients, Notify(t, a)
       PROVE  NoticeIInv' /\ ProvedPhone
  <2> DEFINE q == [NoDelivery EXCEPT !.pc = "queued", !.owner = a]
  <2>0. PICK n : n = NoDelivery
    OBVIOUS
  <2>1. q \in Delivery
    <3>1. {} \in SUBSET Reading /\ 0 \in 0..Len(row) /\ NoRecipient \in Phones \cup {NoRecipient}
      BY <1>0
    <3>2. n \in [pc : {"idle"}, owner : {NoRecipient}, rows : {{}}, expired : {0},
                phone : {NoRecipient}]
      BY <2>0 DEF NoDelivery
    <3>3. [n EXCEPT !.pc = "queued", !.owner = a] \in Delivery
      BY <3>1, <3>2 DEF Delivery
    <3> QED  BY <2>0, <3>3
  <2>2. \A o \in Tasks : task'[o] = task[o] \/ task'[o] \in {NoDelivery} \cup Delivery
    <3>1. task' = [task EXCEPT ![t] = q]
      BY <1>13 DEF Notify
    <3> HIDE DEF q
    <3> QED  BY <1>0, <2>1, <3>1 DEF NoticeTypeOK
  <2>3. /\ UNCHANGED <<hour, alertBearer, phone, proof, texts, row, stopped, gone>>
        /\ task' \in [Tasks -> {task'[o] : o \in Tasks}]
    BY <1>0, <1>13 DEF Notify, NoticeTypeOK
  <2>5. gone' \subseteq Reading'
    BY <1>0, <2>3 DEF NoticeTypeOK, Reading
  <2>4. NoticeIInv'
    BY <1>0, <2>2, <2>3, <2>5, DeliveriesFit DEF NoticeTypeOK
  <2> QED  BY <1>a, <2>3, <2>4
<1>14. ASSUME NEW t \in Tasks, Lookup(t)
       PROVE  NoticeIInv' /\ ProvedPhone
  <2>1. task[t] \in Delivery /\ task[t].owner \in Recipients
    BY <1>0, <1>14, DeliveriesAre DEF Lookup
  <2> DEFINE R == {<<i, row[i].version>> : i \in RowsOf(task[t].owner)}
  <2>2. PICK q : q = [task[t] EXCEPT !.pc = "sending", !.rows = R, !.phone = phone[task[t].owner]]
    OBVIOUS
  <2>3. q \in Delivery
    <3>1. R \subseteq Reading
      <4>1. ASSUME NEW i \in RowsOf(task[t].owner)
            PROVE  i \in 1..Len(row) /\ row[i].version \in 1..MaxRowVersion
        <5>1. i \in 1..Len(row) /\ row[i] \in Subscription
          BY <1>0 DEF RowsOf
        <5> QED  BY <5>1 DEF Subscription
      <4> QED  BY <4>1 DEF Reading
    <3>2. phone[task[t].owner] \in Phones \cup {NoRecipient}
      BY <1>0, <2>1 DEF NoticeTypeOK
    <3> HIDE DEF R
    <3> QED  BY <2>1, <2>2, <3>1, <3>2 DEF Delivery
  <2>4. task' = [task EXCEPT ![t] = q]
    <3>1. task' = [task EXCEPT ![t] = [task[t] EXCEPT !.pc = "sending", !.rows = R,
                                                      !.phone = phone[task[t].owner]]]
      BY <1>0, <1>14, ZenonT(60) DEF Lookup, NoticeTypeOK
    <3> HIDE DEF R
    <3> QED  BY <2>2, <3>1, ZenonT(60)
  <2>5. \A o \in Tasks : task'[o] = task[o] \/ task'[o] \in {NoDelivery} \cup Delivery
    BY <1>0, <2>3, <2>4, SMTT(60) DEF NoticeTypeOK
  <2>6. /\ UNCHANGED <<hour, alertBearer, phone, proof, texts, row, stopped, gone>>
        /\ task' \in [Tasks -> {task'[o] : o \in Tasks}]
    BY <1>0, <1>14 DEF Lookup, NoticeTypeOK
  <2>8. gone' \subseteq Reading'
    BY <1>0, <2>6 DEF NoticeTypeOK, Reading
  <2>7. NoticeIInv'
    BY <1>0, <2>5, <2>6, <2>8, DeliveriesFit DEF NoticeTypeOK
  <2> QED  BY <1>a, <2>6, <2>7
<1>15. ASSUME NEW t \in Tasks, Finish(t)
       PROVE  NoticeIInv' /\ ProvedPhone
  <2>1. \A o \in Tasks : task'[o] = task[o] \/ task'[o] \in {NoDelivery} \cup Delivery
    BY <1>0, <1>15 DEF Finish, NoticeTypeOK
  <2>2. /\ UNCHANGED <<hour, alertBearer, phone, proof, texts, row, stopped, gone>>
        /\ task' \in [Tasks -> {task'[o] : o \in Tasks}]
    BY <1>0, <1>15 DEF Finish, NoticeTypeOK
  <2>4. gone' \subseteq Reading'
    BY <1>0, <2>2 DEF NoticeTypeOK, Reading
  <2>3. NoticeIInv'
    BY <1>0, <2>1, <2>2, <2>4, DeliveriesFit DEF NoticeTypeOK
  <2> QED  BY <1>a, <2>2, <2>3
<1>16. ASSUME NEW t \in Tasks, NEW x \in task[t].rows, Push(t, x)
       PROVE  NoticeIInv' /\ ProvedPhone
  <2>1. task[t] \in Delivery /\ x \in Reading
    BY <1>0, <1>16, DeliveriesAre DEF Push
  <2>2. PICK n : n = IF AnswersGone(x) THEN x[1] ELSE 0
    OBVIOUS
  <2>3. n \in 0..Len(row)
    BY <1>0, <2>1, <2>2 DEF Reading
  <2>4. [task[t] EXCEPT !.rows = @ \ {x}, !.expired = n] \in Delivery
    BY <2>1, <2>3 DEF Delivery
  <2>5. task' = [task EXCEPT ![t] = [task[t] EXCEPT !.rows = @ \ {x}, !.expired = n]]
    BY <1>0, <1>16, <2>2 DEF Push, NoticeTypeOK
  <2>6. \A o \in Tasks : task'[o] = task[o] \/ task'[o] \in {NoDelivery} \cup Delivery
    BY <1>0, <2>4, <2>5 DEF NoticeTypeOK
  <2>7. /\ UNCHANGED <<hour, alertBearer, phone, proof, texts, row, stopped, gone>>
        /\ task' \in [Tasks -> {task'[o] : o \in Tasks}]
    BY <1>0, <1>16 DEF Push, NoticeTypeOK
  <2>8. gone' \subseteq Reading'
    BY <1>0, <2>7 DEF NoticeTypeOK, Reading
  <2>9. NoticeIInv'
    BY <1>0, <2>6, <2>7, <2>8, DeliveriesFit DEF NoticeTypeOK
  <2> QED  BY <1>a, <2>7, <2>9
<1>18. ASSUME NEW t \in Tasks, DeleteExpired(t)
       PROVE  NoticeIInv' /\ ProvedPhone
  <2>1. task[t] \in Delivery
    BY <1>0, <1>18, DeliveriesAre DEF DeleteExpired
  <2>2. [task[t] EXCEPT !.expired = 0] \in Delivery
    <3>1. 0 \in 0..Len(row)
      BY <1>0
    <3> QED  BY <2>1, <3>1 DEF Delivery
  <2>3. \A o \in Tasks : task'[o] = task[o] \/ task'[o] \in {NoDelivery} \cup Delivery
    BY <1>0, <1>18, <2>2 DEF DeleteExpired, NoticeTypeOK
  <2>4. row' \in Seq(Subscription) /\ Len(row') = Len(row)
    <3>1. row' = [i \in 1..Len(row) |->
                     IF i = task[t].expired /\ row[i].owner = task[t].owner
                     THEN [row[i] EXCEPT !.owner = NoRecipient] ELSE row[i]]
      BY <1>18 DEF DeleteExpired, DeleteByRow
    <3>2. ASSUME NEW i \in 1..Len(row)
          PROVE  (IF i = task[t].expired /\ row[i].owner = task[t].owner
                  THEN [row[i] EXCEPT !.owner = NoRecipient] ELSE row[i]) \in Subscription
      <4>1. PICK q : q = row[i]
        OBVIOUS
      <4>2. q \in Subscription
        BY <1>0, <4>1
      <4>3. [q EXCEPT !.owner = NoRecipient] \in Subscription
        BY <4>2 DEF Subscription
      <4> QED  BY <4>1, <4>2, <4>3
    <3>3. row' \in [1..Len(row) -> Subscription]
      BY <3>1, <3>2
    <3> QED  BY <1>0, <3>3, Numbered
  <2>5. /\ UNCHANGED <<hour, alertBearer, phone, proof, texts, stopped, gone>>
        /\ task' \in [Tasks -> {task'[o] : o \in Tasks}]
    BY <1>0, <1>18 DEF DeleteExpired, NoticeTypeOK
  <2>6. gone' \subseteq Reading'
    BY <1>0, <2>4, <2>5 DEF NoticeTypeOK, Reading
  <2>7. NoticeIInv'
    BY <1>0, <2>3, <2>4, <2>5, <2>6, DeliveriesFit DEF NoticeTypeOK
  <2> QED  BY <1>a, <2>5, <2>7
<1>17. CASE UNCHANGED noticeVars
  <2>1. /\ UNCHANGED <<hour, alertBearer, phone, proof, texts, row, stopped, gone>>
        /\ task' = task
    BY <1>17 DEF noticeVars
  <2>2. /\ task' \in [Tasks -> {task'[t] : t \in Tasks}] /\ stopped' \in BOOLEAN
        /\ gone' \subseteq Reading'
    BY <1>0, <2>1 DEF NoticeTypeOK, Reading
  <2>3. NoticeIInv'
    BY <1>0, <2>1, <2>2, DeliveriesFit
  <2> QED  BY <1>17, <2>3
<1> QED  BY <1>1, <1>2, <1>3, <1>4, <1>5, <1>6, <1>7, <1>8, <1>9, <1>10, <1>11, <1>12, <1>13,
            <1>14, <1>15, <1>16, <1>17, <1>18 DEF NoticeNext, PhoneStep, PushStep

\* The invariant of Notices holds of every behaviour.
THEOREM NoticeInvariance == NoticeSpec => []NoticeIInv
<1>1. NoticeInit => NoticeIInv
  <2> SUFFICES ASSUME NoticeInit PROVE NoticeIInv
    OBVIOUS
  <2>1. NoticeTypeOK
    <3>1. proof \in Seq(PhoneProof) /\ texts \subseteq 1..Len(proof)
          /\ row \in Seq(Subscription)
          /\ gone \subseteq Reading
      BY DEF NoticeInit
    <3>2. task \in [Tasks -> {NoDelivery} \cup Delivery] /\ stopped \in BOOLEAN
      BY DEF NoticeInit
    <3>3. /\ hour \in 0..MaxHour /\ phone \in [Recipients -> Phones \cup {NoRecipient}]
          /\ alertBearer \in [AlertBearers -> Recipients \cup {NoRecipient}]
      BY NoticesAssumption DEF NoticeInit
    <3> QED  BY <3>1, <3>2, <3>3 DEF NoticeTypeOK
  <2>2. Len(proof) = 0 /\ ProofsFit
    BY DEF NoticeInit, ProofsFit
  <2>3. SmsBudgetIsDurable
    <3>1. ASSUME NEW p, NEW h
          PROVE  Cardinality({i \in 1..Len(proof) : proof[i].phone = p /\ proof[i].born = h}) = 0
      <4>1. {i \in 1..Len(proof) : proof[i].phone = p /\ proof[i].born = h} = {}
        BY <2>2
      <4> QED  BY <4>1, FS_EmptySet
    <3>2. ASSUME NEW a, NEW h, NEW n
          PROVE  Cardinality(BornIn(a, h, n)) = 0
      <4>1. BornIn(a, h, n) = {}
        BY <2>2 DEF BornIn
      <4> QED  BY <4>1, FS_EmptySet
    <3>3. \A p \in Phones, h \in 0..hour :
             Cardinality({i \in 1..Len(proof) : proof[i].phone = p /\ proof[i].born = h})
                <= TargetLimit
      <4>1. ASSUME NEW p \in Phones, NEW h \in 0..hour
            PROVE  Cardinality({i \in 1..Len(proof) : proof[i].phone = p /\ proof[i].born = h})
                      <= TargetLimit
        <5>1. Cardinality({i \in 1..Len(proof) : proof[i].phone = p /\ proof[i].born = h}) = 0
          BY <3>1
        <5>2. 0 <= TargetLimit
          BY NoticesAssumption
        <5> QED  BY <5>1, <5>2
      <4> QED  BY <4>1
    <3>4. \A a \in Recipients, h \in 0..hour :
             Cardinality(BornIn(a, h, 1)) <= HourLimit /\ Cardinality(BornIn(a, h, Day)) <= DayLimit
      <4>1. ASSUME NEW a \in Recipients, NEW h \in 0..hour
            PROVE  Cardinality(BornIn(a, h, 1)) <= HourLimit
                   /\ Cardinality(BornIn(a, h, Day)) <= DayLimit
        <5>1. Cardinality(BornIn(a, h, 1)) = 0 /\ Cardinality(BornIn(a, h, Day)) = 0
          BY <3>2
        <5>2. 0 <= HourLimit /\ 0 <= DayLimit
          BY NoticesAssumption
        <5> QED  BY <5>1, <5>2
      <4> QED  BY <4>1
    <3> QED  BY <3>3, <3>4 DEF SmsBudgetIsDurable
  <2> QED  BY <2>1, <2>2, <2>3 DEF NoticeIInv
<1> QED  BY <1>1, NoticeStep, PTL DEF NoticeSpec

\* A phone is alerted only after the session that named it entered the code that
\* reached it, and the budget of verification texts holds in every hour and day.
THEOREM PhonesAreProved == NoticeSpec => PhoneIsProved
<1>1. NoticeIInv => NoticeTypeOK /\ SmsBudgetIsDurable
  BY DEF NoticeIInv
<1>2. NoticeIInv /\ [NoticeNext]_noticeVars => [ProvedPhone]_noticeVars
  BY NoticeStep
<1> QED  BY <1>1, <1>2, NoticeInvariance, PTL DEF NoticeSpec, PhoneIsProved

\* What a delivery was told is gone was dropped.
AnswersFit ==
    \A t \in Tasks : task[t].expired # 0 =>
        task[t].expired \in 1..Len(row) /\ WasDropped(task[t].expired)

\* A row keeps its place, and its version never goes back.
LEMMA VersionsGrow ==
  ASSUME NoticeIInv, [NoticeNext]_noticeVars
  PROVE  /\ Len(row') >= Len(row) /\ gone \subseteq gone'
         /\ \A j \in 1..Len(row) : row'[j].version >= row[j].version
<1> USE NoticesAssumption
<1>0. /\ NoticeTypeOK /\ Len(row) \in Nat /\ row \in Seq(Subscription)
      /\ \A j \in 1..Len(row) : row[j] \in Subscription /\ row[j].version \in Nat
  <2>1. NoticeTypeOK /\ Len(row) \in Nat /\ row \in Seq(Subscription)
    BY DEF NoticeIInv, NoticeTypeOK
  <2>2. ASSUME NEW j \in 1..Len(row)
        PROVE  row[j] \in Subscription /\ row[j].version \in Nat
    <3>1. row[j] \in Subscription
      BY <2>1
    <3> QED  BY <3>1 DEF Subscription
  <2> QED  BY <2>1, <2>2
<1>1. CASE row' = row /\ gone \subseteq gone'
  BY <1>0, <1>1
<1>2. ASSUME NEW s, NEW a, NEW e, SubscribePush(s, a, e)
      PROVE  /\ Len(row') >= Len(row) /\ gone' = gone
             /\ \A j \in 1..Len(row) : row'[j].version >= row[j].version
  <2>1. CASE row' = Append(row, [owner |-> a, endpoint |-> e, version |-> 1])
    BY <1>0, <1>2, <2>1 DEF SubscribePush
  <2>2. ASSUME NEW i \in Registered(e) \cap RowsOf(a), row' = [row EXCEPT ![i].version = @ + 1]
        PROVE  Len(row') = Len(row) /\ \A j \in 1..Len(row) : row'[j].version >= row[j].version
    <3>1. i \in 1..Len(row) /\ row[i] \in Subscription /\ row[i].version \in Nat
      BY <1>0 DEF RowsOf
    <3>2. [row[i] EXCEPT !.version = @ + 1].version = row[i].version + 1
      BY <3>1 DEF Subscription
    <3>3. ASSUME NEW j \in 1..Len(row)
          PROVE  row'[j].version >= row[j].version
      <4>1. CASE j = i
        BY <1>0, <2>2, <3>1, <3>2, <4>1
      <4>2. CASE j # i
        BY <1>0, <2>2, <4>2
      <4> QED  BY <4>1, <4>2
    <3> QED  BY <1>0, <2>2, <3>3
  <2>3. \/ row' = Append(row, [owner |-> a, endpoint |-> e, version |-> 1])
        \/ \E i \in Registered(e) \cap RowsOf(a) : row' = [row EXCEPT ![i].version = @ + 1]
    BY <1>2 DEF SubscribePush
  <2>4. CASE \E i \in Registered(e) \cap RowsOf(a) : row' = [row EXCEPT ![i].version = @ + 1]
    <3>1. Len(row') = Len(row) /\ \A j \in 1..Len(row) : row'[j].version >= row[j].version
      BY <2>2, <2>4
    <3> QED  BY <1>0, <1>2, <3>1 DEF SubscribePush
  <2> QED  BY <2>1, <2>3, <2>4
<1>3. ASSUME gone' = gone,
             \E P : row' = [j \in 1..Len(row) |-> IF j \in P THEN [row[j] EXCEPT !.owner = NoRecipient]
                                                            ELSE row[j]]
      PROVE  /\ Len(row') >= Len(row) /\ gone \subseteq gone'
             /\ \A j \in 1..Len(row) : row'[j].version >= row[j].version
  <2>1. PICK P : row' = [j \in 1..Len(row) |-> IF j \in P THEN [row[j] EXCEPT !.owner = NoRecipient]
                                                            ELSE row[j]]
    BY <1>3
  <2>2. ASSUME NEW j \in 1..Len(row)
        PROVE  row'[j].version = row[j].version
    <3>1. row[j] \in Subscription
      BY <1>0
    <3>2. [row[j] EXCEPT !.owner = NoRecipient].version = row[j].version
      BY <3>1 DEF Subscription
    <3> QED  BY <2>1, <3>2
  <2>3. Len(row') = Len(row)
    BY <1>0, <2>1
  <2> QED  BY <1>0, <1>3, <2>2, <2>3
<1>4. CASE PhoneStep
  <2>1. row' = row /\ gone' = gone
    BY <1>4 DEF PhoneStep, NoticeTick, SweepProofs, TextArrives, Logout, RequestPhone, RemovePhone,
                VerifyPhone, VerifyPhoneWrongly
  <2> QED  BY <1>1, <2>1
<1>5. ASSUME NEW s, NEW a, NEW I, Unsubscribe(s, a, I)
      PROVE  /\ Len(row') >= Len(row) /\ gone \subseteq gone'
             /\ \A j \in 1..Len(row) : row'[j].version >= row[j].version
  BY <1>3, <1>5 DEF Unsubscribe
<1>6. ASSUME NEW t, DeleteExpired(t)
      PROVE  /\ Len(row') >= Len(row) /\ gone \subseteq gone'
             /\ \A j \in 1..Len(row) : row'[j].version >= row[j].version
  <2> DEFINE P == {j \in {task[t].expired} : row[j].owner = task[t].owner}
  <2>1. row' = [j \in 1..Len(row) |-> IF j \in P THEN [row[j] EXCEPT !.owner = NoRecipient]
                                                  ELSE row[j]]
    BY <1>6 DEF DeleteExpired, DeleteByRow
  <2>2. gone' = gone
    BY <1>6 DEF DeleteExpired
  <2> HIDE DEF P
  <2> QED  BY <1>3, <2>1, <2>2
<1>7. CASE PushStep
  <2>1. CASE \/ CloseNotices \/ StartNotices \/ \E j \in 1..Len(row) : Drop(j)
             \/ \E t \in Tasks, a \in Recipients : Notify(t, a)
             \/ \E t \in Tasks : Lookup(t) \/ Finish(t)
             \/ \E t \in Tasks : \E x \in task[t].rows : Push(t, x)
    <3>1. row' = row /\ gone \subseteq gone'
      BY <2>1, ZenonT(60) DEF CloseNotices, StartNotices, Drop, Notify, Lookup, Finish, Push
    <3> QED  BY <1>1, <3>1
  <2> QED  BY <1>2, <1>5, <1>6, <1>7, <2>1 DEF PushStep
<1> QED  BY <1>1, <1>4, <1>7 DEF NoticeNext, noticeVars

\* What was dropped stays dropped, whatever takes its place in the row.
LEMMA DroppedStays ==
  ASSUME NoticeIInv, [NoticeNext]_noticeVars, NEW j \in 1..Len(row), WasDropped(j)
  PROVE  j \in 1..Len(row') /\ WasDropped(j)'
<1>1. /\ Len(row') >= Len(row) /\ gone \subseteq gone' /\ row'[j].version >= row[j].version
      /\ row \in Seq(Subscription)
  BY VersionsGrow DEF NoticeIInv, NoticeTypeOK
<1>2. PICK v \in 1..row[j].version : <<j, v>> \in gone
  BY DEF WasDropped
<1>3. Len(row) \in Nat /\ Len(row') \in Nat /\ row[j].version \in Nat /\ row'[j].version \in Nat
  <2>1. NoticeIInv'
    BY NoticeStep
  <2>2. row \in Seq(Subscription) /\ row' \in Seq(Subscription)
    BY <2>1 DEF NoticeIInv, NoticeTypeOK, Subscription
  <2>3. Len(row) \in Nat /\ Len(row') \in Nat
    BY <2>2
  <2>4. row[j] \in Subscription /\ row'[j] \in Subscription
    BY <1>1, <2>2, <2>3
  <2> QED  BY <2>3, <2>4, NoticesAssumption DEF Subscription
<1>4. j \in 1..Len(row') /\ v \in 1..row'[j].version /\ <<j, v>> \in gone'
  BY <1>1, <1>2, <1>3
<1> QED  BY <1>4 DEF WasDropped

\* A delivery has an answer from a push of its own, or had it before.
LEMMA AnswersCome ==
  ASSUME NoticeIInv, [NoticeNext]_noticeVars, NEW t \in Tasks,
         task'[t].expired # 0, task'[t].expired # task[t].expired
  PROVE  \E x \in task[t].rows :
            AnswersGone(x) /\ task'[t].expired = x[1] /\ row' = row /\ gone' = gone
<1>0. DOMAIN task = Tasks
  BY DEF NoticeIInv, NoticeTypeOK
<1>1. task' # task
  OBVIOUS
<1>2. ~PhoneStep /\ ~UNCHANGED noticeVars /\ PushStep
  BY <1>1 DEF NoticeNext, PhoneStep, NoticeTick, SweepProofs, TextArrives, Logout, RequestPhone,
              RemovePhone, VerifyPhone, VerifyPhoneWrongly, noticeVars
<1>3. ASSUME NEW u \in Tasks, NEW a, Notify(u, a)
      PROVE  FALSE
  BY <1>0, <1>3 DEF Notify, NoDelivery
<1>4. ASSUME NEW u \in Tasks, Lookup(u) \/ DeleteExpired(u) \/ Finish(u)
      PROVE  FALSE
  <2>1. CASE Lookup(u)
    <3> DEFINE R == {<<i, row[i].version>> : i \in RowsOf(task[u].owner)}
    <3>1. task' = [task EXCEPT ![u] = [task[u] EXCEPT !.pc = "sending", !.rows = R,
                                                      !.phone = phone[task[u].owner]]]
      BY <1>0, <2>1, ZenonT(60) DEF Lookup
    <3> HIDE DEF R
    <3>2. task'[t].expired = task[t].expired
      <4>1. PICK q : q = task[u]
        OBVIOUS
      <4>2. q \in Delivery
        BY <2>1, <4>1, DeliveriesAre DEF Lookup, NoticeIInv
      <4>3. [q EXCEPT !.pc = "sending", !.rows = R, !.phone = phone[task[u].owner]].expired
               = q.expired
        BY <4>2 DEF Delivery
      <4> QED  BY <1>0, <3>1, <4>1, <4>3
    <3> QED  BY <3>2
  <2>2. CASE DeleteExpired(u)
    <3>1. task' = [task EXCEPT ![u] = [task[u] EXCEPT !.expired = 0]]
      BY <1>0, <2>2 DEF DeleteExpired
    <3>2. u = t
      BY <1>0, <1>1, <3>1
    <3>3. task'[t].expired = 0
      <4>1. PICK q : q = task[t]
        OBVIOUS
      <4>2. q \in Delivery
        BY <2>2, <3>2, <4>1, DeliveriesAre DEF DeleteExpired, NoticeIInv
      <4>3. [q EXCEPT !.expired = 0].expired = 0
        BY <4>2 DEF Delivery
      <4> QED  BY <1>0, <3>1, <3>2, <4>1, <4>3
    <3> QED  BY <3>3
  <2>3. CASE Finish(u)
    BY <1>0, <2>3 DEF Finish, NoDelivery
  <2> QED  BY <1>4, <2>1, <2>2, <2>3
<1>5. ASSUME NEW u \in Tasks, NEW x \in task[u].rows, Push(u, x)
      PROVE  /\ u = t /\ AnswersGone(x) /\ task'[t].expired = x[1]
             /\ row' = row /\ gone' = gone
  <2>1. u = t
    BY <1>0, <1>5 DEF Push
  <2>2. task'[t].expired = IF AnswersGone(x) THEN x[1] ELSE 0
    BY <1>0, <1>5, <2>1 DEF Push
  <2> QED  BY <1>5, <2>1, <2>2 DEF Push
<1>6. \E u \in Tasks : \E x \in task[u].rows : Push(u, x)
  BY <1>1, <1>2, <1>3, <1>4 DEF PushStep, CloseNotices, StartNotices, Drop, SubscribePush, Unsubscribe
<1> QED  BY <1>5, <1>6

\* Every answer stands for something dropped.
LEMMA AnswersStay ==
  ASSUME NoticeIInv, AnswersFit, [NoticeNext]_noticeVars
  PROVE  AnswersFit'
<1> SUFFICES ASSUME NEW t \in Tasks, NEW j, j = task'[t].expired, j # 0
             PROVE  j \in 1..Len(row') /\ \E v \in 1..row'[j].version : <<j, v>> \in gone'
  BY DEF AnswersFit, WasDropped
<1>1. CASE j = task[t].expired
  <2>1. j \in 1..Len(row) /\ WasDropped(j)
    BY <1>1 DEF AnswersFit
  <2>2. j \in 1..Len(row') /\ WasDropped(j)'
    BY <2>1, DroppedStays
  <2> QED  BY <2>2 DEF WasDropped
<1>2. CASE j # task[t].expired
  <2>1. PICK x \in task[t].rows : AnswersGone(x) /\ j = x[1] /\ row' = row /\ gone' = gone
    BY <1>2, AnswersCome
  <2>2. x \in Reading
    <3>1. task[t].rows \subseteq Reading
      <4>1. task[t] \in {NoDelivery} \cup Delivery
        BY DEF NoticeIInv, NoticeTypeOK
      <4> QED  BY <4>1 DEF NoDelivery, Delivery
    <3> QED  BY <3>1
  <2>3. j \in 1..Len(row) /\ x[2] \in Nat /\ x[2] >= 1
    BY <2>1, <2>2, NoticesAssumption DEF Reading
  <2>4. PICK v \in x[2]..row[j].version : <<j, v>> \in gone
    BY <2>1 DEF AnswersGone
  <2>5. row[j].version \in Nat
    <3>1. row \in Seq(Subscription) /\ row[j] \in Subscription
      BY <2>3 DEF NoticeIInv, NoticeTypeOK
    <3> QED  BY <3>1, NoticesAssumption DEF Subscription
  <2>6. v \in 1..row[j].version
    BY <2>3, <2>4, <2>5
  <2> QED  BY <2>1, <2>3, <2>4, <2>6
<1> QED  BY <1>1, <1>2

\* A late delivery deletes only a row of its recipient whose subscription, this one or
\* one before it in the row, was dropped.
THEOREM FreshSubscriptionsStay == NoticeSpec => FreshSubscriptionStays
<1>1. NoticeInit => AnswersFit
  BY DEF NoticeInit, AnswersFit, NoDelivery
<1>2. ASSUME NoticeIInv, AnswersFit
      PROVE  FreshRowsKept
  <2> SUFFICES ASSUME NEW t \in Tasks, NEW j \in 1..Len(row), DeleteExpired(t), row'[j] # row[j]
               PROVE  row[j].owner = task[t].owner /\ WasDropped(j)
    BY DEF FreshRowsKept
  <2>1. j = task[t].expired /\ row[j].owner = task[t].owner
    BY DEF DeleteExpired, DeleteByRow
  <2>2. task[t].expired # 0
    BY DEF DeleteExpired
  <2>3. WasDropped(task[t].expired)
    BY <1>2, <2>2 DEF AnswersFit
  <2> QED  BY <2>1, <2>3
<1>3. NoticeIInv /\ AnswersFit /\ [NoticeNext]_noticeVars => AnswersFit' /\ [FreshRowsKept]_noticeVars
  BY <1>2, AnswersStay
<1> QED  BY <1>1, <1>3, NoticeInvariance, PTL DEF NoticeSpec, FreshSubscriptionStays
=============================================================================
