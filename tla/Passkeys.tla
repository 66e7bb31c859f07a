------------------------------ MODULE Passkeys ------------------------------
(***************************************************************************)
(* Passkey ceremonies: registration, sign-in without a name, and step-up   *)
(* of one bearer session (src/app/passkeys.py, src/app/account_routes.py). *)
(*                                                                         *)
(* Handlers with a bearer hold the account lock and are one step.  A       *)
(* sign-in finds the owner of the presented key without a lock, waits for  *)
(* that account's lock and then checks everything again: two steps.  A     *)
(* failed proof is committed with its audit event, so it spends its        *)
(* challenge.  The signature check is external; an assertion verifies if   *)
(* an authenticator that holds the key signed this challenge.              *)
(***************************************************************************)
EXTENDS Naturals, FiniteSets, Sequences

CONSTANTS
    Owners,          \* accounts
    Bearers,         \* auth_sessions
    Credentials,     \* credential ids, each on its authenticator
    Ceremonies,      \* webauthn_challenges ids
    SignIns,         \* sign-ins in progress at once
    NoOwner,         \* no owner, no session, no key, no challenge
    MaxPasskeys,     \* MAX_PASSKEYS_PER_USER
    CeremonyLife,    \* CHALLENGE_SECONDS
    MaxCount,        \* bound: signatures of one authenticator
    MaxMoment        \* bound: time

ASSUME PasskeysAssumption ==
    MaxPasskeys \in Nat /\ CeremonyLife \in Nat /\ MaxCount \in Nat /\ MaxMoment \in Nat

VARIABLES
    moment,
    activeOwners,    \* accounts that are active
    bearer,          \* owner of each session that is live, or NoOwner
    credential,      \* webauthn_credentials: owner and sign_count
    ceremony,        \* webauthn_challenges
    signs,           \* external: signatures made with each key, by it or a copy
    signed,          \* external: assertions handed to the browser
    signingIn,       \* passkey_authentication_verify between its two steps
    proved           \* history: what each challenge was redeemed for

passkeyVars == <<moment, activeOwners, bearer, credential, ceremony, signs, signed, signingIn, proved>>

CeremonyKinds == {"register", "authenticate", "step_up"}
CeremonyRow ==
    [state : {"none", "open", "consumed", "swept"}, purpose : CeremonyKinds,
     owner : Owners \cup {NoOwner}, bearer : Bearers \cup {NoOwner}, expires : Nat]
Assertion == [key : Credentials, challenge : Ceremonies, count : Nat]
Proof == [kind : CeremonyKinds, owner : Owners, bearer : Bearers \cup {NoOwner}, key : Credentials]

NoSignIn == [assertion |-> NoOwner, owner |-> NoOwner, seen |-> 0]
SignInRow == [assertion : Assertion, owner : Owners \cup {NoOwner}, seen : Nat]

PasskeyTypeOK ==
    /\ moment \in 0..MaxMoment
    /\ activeOwners \subseteq Owners
    /\ bearer \in [Bearers -> Owners \cup {NoOwner}]
    /\ credential \in [Credentials -> [owner : Owners \cup {NoOwner}, count : Nat]]
    /\ ceremony \in [Ceremonies -> CeremonyRow]
    /\ signs \in [Credentials -> Nat]
    /\ signed \subseteq Assertion
    /\ signingIn \in [SignIns -> SignInRow \cup {NoSignIn}]
    /\ proved \in [Ceremonies -> Seq(Proof)]

PasskeyInit ==
    /\ moment = 0
    /\ activeOwners = Owners
    /\ bearer \in [Bearers -> Owners]
    /\ credential = [k \in Credentials |-> [owner |-> NoOwner, count |-> 0]]
    /\ ceremony = [c \in Ceremonies |-> [state |-> "none", purpose |-> "register",
                                         owner |-> NoOwner, bearer |-> NoOwner, expires |-> 0]]
    /\ signs = [k \in Credentials |-> 0]
    /\ signed = {}
    /\ signingIn = [i \in SignIns |-> NoSignIn]
    /\ proved = [c \in Ceremonies |-> <<>>]

Owned(a) == {k \in Credentials : credential[k].owner = a}

\* lock_account_mutation: the bearer is still live once the lock is held.
Bears(s, a) == bearer[s] = a /\ a \in activeOwners

-----------------------------------------------------------------------------
(* Challenges.                                                             *)

\* _new_challenge.
NewChallenge(c, purpose, a, s) ==
    /\ ceremony[c].state = "none"
    /\ ceremony' = [ceremony EXCEPT ![c] = [state |-> "open", purpose |-> purpose, owner |-> a,
                                             bearer |-> s, expires |-> moment + CeremonyLife]]

\* The WHERE clause of _consume_challenge.
Consumable(c, purpose, a, s) ==
    /\ ceremony[c].state = "open" /\ ceremony[c].expires > moment
    /\ ceremony[c].purpose = purpose /\ ceremony[c].owner = a /\ ceremony[c].bearer = s

Consume(c) == ceremony' = [ceremony EXCEPT ![c].state = "consumed"]

Prove(c, kind, a, s, k) ==
    proved' = [proved EXCEPT ![c] = Append(@, [kind |-> kind, owner |-> a, bearer |-> s, key |-> k])]

-----------------------------------------------------------------------------
(* Registration.                                                           *)

RegistrationOptions(s, a, c) ==
    /\ Bears(s, a)
    /\ Cardinality(Owned(a)) < MaxPasskeys
    /\ NewChallenge(c, "register", a, NoOwner)
    /\ UNCHANGED <<moment, activeOwners, bearer, credential, signs, signed, signingIn, proved>>

\* verify_registration: an authenticator answers with a new key, or one that is
\* registered already.
RegistrationVerify(s, a, c, k) ==
    /\ Bears(s, a)
    /\ Consumable(c, "register", a, NoOwner)
    /\ Consume(c)
    /\ IF credential[k].owner = NoOwner
       THEN /\ credential' = [credential EXCEPT ![k] = [owner |-> a, count |-> signs[k]]]
            /\ Prove(c, "register", a, NoOwner, k)
       ELSE UNCHANGED <<credential, proved>>
    /\ UNCHANGED <<moment, activeOwners, bearer, signs, signed, signingIn>>

DeletePasskey(s, a, k) ==
    /\ Bears(s, a)
    /\ credential[k].owner = a
    /\ credential' = [credential EXCEPT ![k] = [owner |-> NoOwner, count |-> 0]]
    /\ UNCHANGED <<moment, activeOwners, bearer, ceremony, signs, signed, signingIn, proved>>

-----------------------------------------------------------------------------
(* Assertions.                                                             *)

\* The authenticator, or a copy of it whose counter lags, signs a challenge.
Sign(k, c, n) ==
    /\ ceremony[c].state = "open" /\ ceremony[c].purpose # "register"
    /\ n \in 0..(signs[k] + 1) /\ n <= MaxCount
    /\ signs' = [signs EXCEPT ![k] = IF n > @ THEN n ELSE @]
    /\ signed' = signed \cup {[key |-> k, challenge |-> c, count |-> n]}
    /\ UNCHANGED <<moment, activeOwners, bearer, credential, ceremony, signingIn, proved>>

\* Mutation of CurrentCount: the counter read with the owner, before the lock.
CountOnRead(i, k) == signingIn[i].seen

\* The counter an assertion is compared with: read under the lock ...
CurrentCount(i, k) == credential[k].count

\* ... and the rule of the WebAuthn library: passkeys that are synchronised do
\* not count and always say 0.
Advances(n, current) == n > current \/ (n = 0 /\ current = 0)

\* authentication_options: anybody may ask.
AuthenticationOptions(c) ==
    /\ NewChallenge(c, "authenticate", NoOwner, NoOwner)
    /\ UNCHANGED <<moment, activeOwners, bearer, credential, signs, signed, signingIn, proved>>

\* authentication_user_id: the candidate owner, without a lock.
FindOwner(i, x) ==
    /\ signingIn[i] = NoSignIn
    /\ signingIn' = [signingIn EXCEPT ![i] = [assertion |-> x, owner |-> credential[x.key].owner,
                                    seen |-> credential[x.key].count]]
    /\ UNCHANGED <<moment, activeOwners, bearer, credential, ceremony, signs, signed, proved>>

\* verify_authentication under the candidate's lock, and finish_sign_in.
AuthenticationVerify(i) ==
    LET x == signingIn[i].assertion
        a == signingIn[i].owner
    IN  /\ signingIn[i] # NoSignIn
        /\ signingIn' = [signingIn EXCEPT ![i] = NoSignIn]
        /\ IF ~Consumable(x.challenge, "authenticate", NoOwner, NoOwner)
           THEN UNCHANGED <<ceremony, credential, proved>>
           ELSE /\ Consume(x.challenge)
                /\ IF a # NoOwner /\ credential[x.key].owner = a
                         /\ Advances(x.count, CurrentCount(i, x.key))
                   THEN /\ credential' = [credential EXCEPT ![x.key].count = x.count]
                        /\ IF a \in activeOwners THEN Prove(x.challenge, "authenticate", a, NoOwner, x.key)
                                           ELSE UNCHANGED proved
                   ELSE UNCHANGED <<credential, proved>>
        /\ UNCHANGED <<moment, activeOwners, bearer, signs, signed>>

StepUpOptions(s, a, c) ==
    /\ Bears(s, a)
    /\ Owned(a) # {}
    /\ NewChallenge(c, "step_up", a, s)
    /\ UNCHANGED <<moment, activeOwners, bearer, credential, signs, signed, signingIn, proved>>

\* verify_step_up: only for the session that asked.
StepUpVerify(s, a, x) ==
    /\ Bears(s, a)
    /\ Consumable(x.challenge, "step_up", a, s)
    /\ Consume(x.challenge)
    /\ IF credential[x.key].owner = a /\ Advances(x.count, credential[x.key].count)
       THEN /\ credential' = [credential EXCEPT ![x.key].count = x.count]
            /\ Prove(x.challenge, "step_up", a, s, x.key)
       ELSE UNCHANGED <<credential, proved>>
    /\ UNCHANGED <<moment, activeOwners, bearer, signs, signed, signingIn>>

-----------------------------------------------------------------------------
(* The account beside them.                                                *)

EndBearer(s) ==
    /\ bearer[s] # NoOwner
    /\ bearer' = [bearer EXCEPT ![s] = NoOwner]
    /\ UNCHANGED <<moment, activeOwners, credential, ceremony, signs, signed, signingIn, proved>>

\* update_user_status: suspension ends the account's sessions.
SuspendOwner(a) ==
    /\ a \in activeOwners
    /\ activeOwners' = activeOwners \ {a}
    /\ bearer' = [s \in Bearers |-> IF bearer[s] = a THEN NoOwner ELSE bearer[s]]
    /\ UNCHANGED <<moment, credential, ceremony, signs, signed, signingIn, proved>>

\* enforce_retention deletes expired challenges.
SweepCeremony(c) ==
    /\ ceremony[c].state \in {"open", "consumed"} /\ ceremony[c].expires <= moment
    /\ ceremony' = [ceremony EXCEPT ![c].state = "swept"]
    /\ UNCHANGED <<moment, activeOwners, bearer, credential, signs, signed, signingIn, proved>>

PasskeyTick ==
    /\ moment < MaxMoment
    /\ moment' = moment + 1
    /\ UNCHANGED <<activeOwners, bearer, credential, ceremony, signs, signed, signingIn, proved>>

PasskeyNext ==
    \/ PasskeyTick
    \/ \E c \in Ceremonies : AuthenticationOptions(c) \/ SweepCeremony(c)
    \/ \E s \in Bearers : EndBearer(s)
    \/ \E a \in Owners : SuspendOwner(a)
    \/ \E s \in Bearers, a \in Owners, c \in Ceremonies :
          \/ RegistrationOptions(s, a, c) \/ StepUpOptions(s, a, c)
          \/ \E k \in Credentials : RegistrationVerify(s, a, c, k)
    \/ \E s \in Bearers, a \in Owners, k \in Credentials : DeletePasskey(s, a, k)
    \/ \E k \in Credentials, c \in Ceremonies, n \in 0..MaxCount : Sign(k, c, n)
    \/ \E s \in Bearers, a \in Owners, x \in signed : StepUpVerify(s, a, x)
    \/ \E i \in SignIns, x \in signed : FindOwner(i, x)
    \/ \E i \in SignIns : AuthenticationVerify(i)

PasskeySpec == PasskeyInit /\ [][PasskeyNext]_passkeyVars

-----------------------------------------------------------------------------
(* Properties.                                                             *)

\* A challenge is redeemed once, for the purpose, the account and the session it
\* was made for, although anybody may present anybody's assertions.
RedeemedOnce ==
    \A c \in Ceremonies :
        /\ Len(proved[c]) <= 1
        /\ proved[c] # <<>> =>
              LET p == proved[c][1]
              IN  /\ p.kind = ceremony[c].purpose /\ p.bearer = ceremony[c].bearer
                  /\ p.kind # "authenticate" => p.owner = ceremony[c].owner

\* A session or a step-up is granted only to an active account that owns the key
\* at that moment, and each grant moves the stored counter forward: "Verifying
\* first would allow concurrent counter updates to move back".  The counter of a
\* key never falls back while an account has it.
FreshGrant ==
    /\ \A c \in Ceremonies :
          proved'[c] # proved[c] /\ ceremony[c].purpose # "register" =>
          LET p == proved'[c][Len(proved'[c])]
          IN  /\ p.owner \in activeOwners
              /\ credential[p.key].owner = p.owner
              /\ Advances(credential'[p.key].count, credential[p.key].count)
    /\ \A k \in Credentials :
          credential[k].owner # NoOwner /\ credential'[k].owner = credential[k].owner =>
              credential'[k].count >= credential[k].count

\* Both, with the types.
ChallengeProvesOnce == [](PasskeyTypeOK /\ RedeemedOnce) /\ [][FreshGrant]_passkeyVars

-----------------------------------------------------------------------------
(* The inductive invariant.                                                *)

\* A proof is committed together with the use of its challenge.
ProvedIsUsed ==
    \A c \in Ceremonies : proved[c] # <<>> => ceremony[c].state \in {"consumed", "swept"}

PasskeyIInv == PasskeyTypeOK /\ RedeemedOnce /\ ProvedIsUsed
=============================================================================
