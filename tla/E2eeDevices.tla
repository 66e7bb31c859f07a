----------------------------- MODULE E2eeDevices -----------------------------
(***************************************************************************)
(* The public keys of end-to-end encrypted devices: challenges, the        *)
(* approval of new devices, one-time prekeys (src/app/main.py, the         *)
(* /api/e2ee/devices and prekey-bundle routes).                            *)
(*                                                                         *)
(* Handlers that change an account's devices hold that account's lock to   *)
(* the end, so each is one step.  consume_prekey_bundle locks the device   *)
(* row of somebody else's account and works on it in several statements;   *)
(* a registration that clashes with a unique key rolls back, which gives   *)
(* its locks back, and goes on in a second transaction.                    *)
(***************************************************************************)
EXTENDS Naturals, FiniteSets

CONSTANTS
    Users,          \* accounts
    Devices,        \* device ids
    UserOf,         \* the account that registers each device
    NoDevice,       \* approver of a first device
    Challenges,     \* challenge ids
    Prekeys,        \* one-time public keys
    NoKey,          \* a bundle without a one-time key
    Reqs,           \* requests in progress at once
    NoReq,          \* a device row nobody has locked
    MaxAvailable,   \* unused prekeys per device (100)
    MaxHistorical   \* prekey rows per device (10_000)

ASSUME DevicesAssumption ==
    /\ Users # {} /\ Challenges # {}
    /\ IsFiniteSet(Devices) /\ UserOf \in [Devices -> Users]
    /\ NoDevice \notin Devices
    /\ NoKey \notin Prekeys
    /\ NoReq \notin Reqs
    /\ MaxAvailable \in Nat /\ MaxHistorical \in Nat

VARIABLES
    device,         \* e2ee_devices: trust state and approver
    challenge,      \* e2ee_device_challenges
    prekey,         \* e2ee_prekeys, by device and public key
    deviceLock,     \* SELECT ... FOR UPDATE of a device row
    req,            \* requests between two of their statements
    redeemed,       \* history: how often each challenge paid
    uploaded,       \* history: how often each prekey was stored
    handed          \* history: how often each prekey was given out

vars == <<device, challenge, prekey, deviceLock, req, redeemed, uploaded, handed>>

Tries == 3          \* range(3) in consume_prekey_bundle

Device == [state : {"none", "trusted", "revoked"}, approver : Devices \cup {NoDevice}]
Challenge == [state : {"none", "open", "used", "dead"}, user : Users]
Req == [pc : {"idle", "pick", "claim", "answer", "reburn"}, dev : Devices \cup {NoDevice},
        key : Prekeys \cup {NoKey}, tries : 0..Tries, chal : Challenges]

TypeOK ==
    /\ device \in [Devices -> Device]
    /\ challenge \in [Challenges -> Challenge]
    /\ prekey \in [Devices -> [Prekeys -> {"none", "available", "consumed"}]]
    /\ deviceLock \in [Devices -> Reqs \cup {NoReq}]
    /\ \A d \in Devices, r \in Reqs :
          deviceLock[d] = r => req[r].dev = d /\ req[r].pc \in {"pick", "claim", "answer"}
    /\ req \in [Reqs -> Req]
    /\ redeemed \in [Challenges -> Nat]
    /\ uploaded \in [Devices -> [Prekeys -> Nat]]
    /\ handed \in [Devices -> [Prekeys -> Nat]]

Idle == [pc |-> "idle", dev |-> NoDevice, key |-> NoKey, tries |-> 0,
         chal |-> CHOOSE c \in Challenges : TRUE]

Init ==
    /\ device = [d \in Devices |-> [state |-> "none", approver |-> NoDevice]]
    /\ challenge = [c \in Challenges |-> [state |-> "none", user |-> CHOOSE u \in Users : TRUE]]
    /\ prekey = [d \in Devices |-> [k \in Prekeys |-> "none"]]
    /\ deviceLock = [d \in Devices |-> NoReq]
    /\ req = [r \in Reqs |-> Idle]
    /\ redeemed = [c \in Challenges |-> 0]
    /\ uploaded = [d \in Devices |-> [k \in Prekeys |-> 0]]
    /\ handed = [d \in Devices |-> [k \in Prekeys |-> 0]]

Trusted(u) == {d \in Devices : UserOf[d] = u /\ device[d].state = "trusted"}
Available(d) == {k \in Prekeys : prekey[d][k] = "available"}
Rows(d) == {k \in Prekeys : prekey[d][k] # "none"}

-----------------------------------------------------------------------------
(* Challenges.                                                             *)

\* create_e2ee_device_challenge.
CreateChallenge(c, u) ==
    /\ challenge[c].state = "none"
    /\ challenge' = [challenge EXCEPT ![c] = [state |-> "open", user |-> u]]
    /\ UNCHANGED <<device, prekey, deviceLock, req, redeemed, uploaded, handed>>

\* Five minutes pass; the sweep may delete the row, which is refused alike.
Expire(c) ==
    /\ challenge[c].state = "open"
    /\ challenge' = [challenge EXCEPT ![c].state = "dead"]
    /\ UNCHANGED <<device, prekey, deviceLock, req, redeemed, uploaded, handed>>

Redeemable(c, u) == challenge[c].user = u /\ challenge[c].state = "open"

\* UPDATE ... SET consumed_at, in the transaction of what the challenge pays for.
Burn(c) ==
    /\ challenge' = [challenge EXCEPT ![c].state = "used"]
    /\ redeemed' = [redeemed EXCEPT ![c] = @ + 1]

\* A proof, a key or an approval is refused: the refusal is audited, and that
\* commits the consumption of the challenge.
Refuse(c, u) ==
    /\ Redeemable(c, u)
    /\ challenge' = [challenge EXCEPT ![c].state = "used"]
    /\ UNCHANGED <<device, prekey, deviceLock, req, redeemed, uploaded, handed>>

-----------------------------------------------------------------------------
(* Devices.                                                                *)

\* A first device needs no approval, every other that of a trusted one.
ApprovedBy(d, a) ==
    IF Trusted(UserOf[d]) = {} THEN a = NoDevice ELSE a \in Trusted(UserOf[d])

\* The prekeys K become rows of device d.
Store(d, K) ==
    /\ prekey' = [prekey EXCEPT ![d] = [k \in Prekeys |-> IF k \in K THEN "available" ELSE @[k]]]
    /\ uploaded' = [uploaded EXCEPT ![d] = [k \in Prekeys |-> IF k \in K THEN @[k] + 1 ELSE @[k]]]

\* register_e2ee_device with the prekeys K.
RegisterDevice(d, a, c, K) ==
    /\ Redeemable(c, UserOf[d])
    /\ device[d].state = "none"
    /\ ApprovedBy(d, a)
    /\ Cardinality(K) <= MaxAvailable
    /\ Burn(c)
    /\ device' = [device EXCEPT ![d] = [state |-> "trusted", approver |-> a]]
    /\ Store(d, K)
    /\ UNCHANGED <<deviceLock, req, handed>>

\* The identity key is already registered: IntegrityError rolls everything
\* back, the consumption of the challenge and the account lock included.
RegisterClashes(r, a, c, d) ==
    /\ req[r].pc = "idle"
    /\ Redeemable(c, UserOf[d])
    /\ device[d].state # "none"
    /\ ApprovedBy(d, a)
    /\ req' = [req EXCEPT ![r] = [Idle EXCEPT !.pc = "reburn", !.chal = c]]
    /\ UNCHANGED <<device, challenge, prekey, deviceLock, redeemed, uploaded, handed>>

\* Its second transaction consumes the challenge again, unless somebody has.
Reburn(r) ==
    LET c == req[r].chal
    IN  /\ req[r].pc = "reburn"
        /\ challenge' = [challenge EXCEPT ![c].state = IF @ = "open" THEN "used" ELSE @]
        /\ req' = [req EXCEPT ![r] = Idle]
        /\ UNCHANGED <<device, prekey, deviceLock, redeemed, uploaded, handed>>

\* Mutation of RevokeDevice: the last trusted device may go.
RevokeLast(d) ==
    /\ deviceLock[d] = NoReq
    /\ device[d].state = "trusted"
    /\ device' = [device EXCEPT ![d].state = "revoked"]
    /\ UNCHANGED <<challenge, prekey, deviceLock, req, redeemed, uploaded, handed>>

\* revoke_e2ee_device; its unused prekeys are marked consumed.
RevokeDevice(d) ==
    /\ deviceLock[d] = NoReq
    /\ device[d].state = "trusted"
    /\ Cardinality(Trusted(UserOf[d])) > 1
    /\ device' = [device EXCEPT ![d].state = "revoked"]
    /\ prekey' = [prekey EXCEPT ![d] = [k \in Prekeys |-> IF @[k] = "available" THEN "consumed" ELSE @[k]]]
    /\ UNCHANGED <<challenge, deviceLock, req, redeemed, uploaded, handed>>

-----------------------------------------------------------------------------
(* One-time prekeys.                                                       *)

\* reused_prekey: a row of the device has one of the keys.
Reused(d, K) == K \cap Rows(d) # {}

WithinCapacity(d, K) ==
    /\ Cardinality(Available(d)) + Cardinality(K) <= MaxAvailable
    /\ Cardinality(Rows(d)) + Cardinality(K) <= MaxHistorical

\* update_e2ee_prekeys; without keys it only rotates the signed prekey.
UpdatePrekeys(d, c, K) ==
    /\ deviceLock[d] = NoReq
    /\ device[d].state = "trusted"
    /\ Redeemable(c, UserOf[d])
    /\ ~Reused(d, K)
    /\ WithinCapacity(d, K)
    /\ Burn(c)
    /\ Store(d, K)
    /\ UNCHANGED <<device, deviceLock, req, handed>>

\* consume_prekey_bundle locks the device row ...
ConsumePrekeyBundle(r, d) ==
    /\ req[r].pc = "idle"
    /\ deviceLock[d] = NoReq
    /\ device[d].state = "trusted"
    /\ deviceLock' = [deviceLock EXCEPT ![d] = r]
    /\ req' = [req EXCEPT ![r] = [Idle EXCEPT !.pc = "pick", !.dev = d]]
    /\ UNCHANGED <<device, challenge, prekey, redeemed, uploaded, handed>>

\* ... reads an unused prekey, if there is one ...
Pick(r, k) ==
    LET d == req[r].dev
    IN  /\ req[r].pc = "pick"
        /\ IF Available(d) = {} THEN k = NoKey ELSE k \in Available(d)
        /\ req' = [req EXCEPT ![r].key = k, ![r].pc = IF k = NoKey THEN "answer" ELSE "claim"]
        /\ UNCHANGED <<device, challenge, prekey, deviceLock, redeemed, uploaded, handed>>

\* Mutation of Unlocked: the row lock outlives its transaction.
StillLocked(r) == deviceLock

Unlocked(r) == [d \in Devices |-> IF deviceLock[d] = r THEN NoReq ELSE deviceLock[d]]

\* Mutation of Consumed: the answer is sent before the transaction commits.
LeftAvailable(d, k) == prekey

Consumed(d, k) == [prekey EXCEPT ![d][k] = "consumed"]

\* ... and claims it if it is still unused.  A claim that misses rolls back,
\* which gives the row lock back, and picks again, three times at most.
Claim(r) ==
    LET d == req[r].dev
        k == req[r].key
    IN  /\ req[r].pc = "claim"
        /\ IF prekey[d][k] = "available"
             THEN /\ prekey' = Consumed(d, k)
                  /\ handed' = [handed EXCEPT ![d][k] = @ + 1]
                  /\ req' = [req EXCEPT ![r] = Idle]
             ELSE /\ req' = [req EXCEPT ![r].tries = @ + 1, ![r].key = NoKey,
                                        ![r].pc = IF req[r].tries + 1 = Tries THEN "answer" ELSE "pick"]
                  /\ UNCHANGED <<prekey, handed>>
        /\ deviceLock' = Unlocked(r)
        /\ UNCHANGED <<device, challenge, redeemed, uploaded>>

\* The bundle without a one-time prekey.
Answer(r) ==
    /\ req[r].pc = "answer"
    /\ req' = [req EXCEPT ![r] = Idle]
    /\ deviceLock' = Unlocked(r)
    /\ UNCHANGED <<device, challenge, prekey, redeemed, uploaded, handed>>

\* A worker dies or loses its connection between two statements.
Crash(r) ==
    /\ req[r].pc # "idle"
    /\ req' = [req EXCEPT ![r] = Idle]
    /\ deviceLock' = Unlocked(r)
    /\ UNCHANGED <<device, challenge, prekey, redeemed, uploaded, handed>>

\* enforce_retention deletes consumed prekeys, and waits for no device row.
Sweep(d, k) ==
    /\ prekey[d][k] = "consumed"
    /\ prekey' = [prekey EXCEPT ![d][k] = "none"]
    /\ UNCHANGED <<device, challenge, deviceLock, req, redeemed, uploaded, handed>>

-----------------------------------------------------------------------------

Next ==
    \/ \E c \in Challenges, u \in Users : CreateChallenge(c, u) \/ Refuse(c, u)
    \/ \E c \in Challenges : Expire(c)
    \/ \E d \in Devices, a \in Devices \cup {NoDevice}, c \in Challenges :
          \/ \E K \in SUBSET Prekeys : RegisterDevice(d, a, c, K)
          \/ \E r \in Reqs : RegisterClashes(r, a, c, d)
    \/ \E d \in Devices, c \in Challenges, K \in SUBSET Prekeys : UpdatePrekeys(d, c, K)
    \/ \E d \in Devices : RevokeDevice(d)
    \/ \E r \in Reqs, d \in Devices : ConsumePrekeyBundle(r, d)
    \/ \E r \in Reqs, k \in Prekeys \cup {NoKey} : Pick(r, k)
    \/ \E r \in Reqs : Reburn(r) \/ Claim(r) \/ Answer(r) \/ Crash(r)
    \/ \E d \in Devices, k \in Prekeys : Sweep(d, k)

Spec == Init /\ [][Next]_vars

-----------------------------------------------------------------------------
(* Properties.                                                             *)

\* E2EE_CLIENT_CONTRACT.md: a challenge is consumed exactly once.  Whatever
\* fails, crashes or is retried, it pays for one registration or one prekey
\* update at most.
ChallengePaysOnce == \A c \in Challenges : redeemed[c] <= 1

\* An account has one device that nobody approved, its first: however its
\* registrations and revocations interleave, no later device was registered
\* without the approval of a trusted one.
OneRootPerAccount ==
    \A d, e \in Devices :
        /\ device[d].state # "none" /\ device[e].state # "none"
        /\ UserOf[d] = UserOf[e]
        /\ device[d].approver = NoDevice /\ device[e].approver = NoDevice
        => d = e

\* E2EE_CLIENT_CONTRACT.md: consumed keys may not be uploaded again; so a
\* one-time prekey is given to one requester at most.
PrekeyHandedOnce == \A d \in Devices, k \in Prekeys : handed[d][k] <= 1

\* A one-time prekey is given out at most once for every time its device stored
\* it, to whoever asks at the same time and whatever fails in between.
HandedOncePerUpload == \A d \in Devices, k \in Prekeys : handed[d][k] <= uploaded[d][k]

\* The prekey a request has picked is still there when it claims it: the
\* conditional UPDATE never misses while the device row is locked.
PickStands ==
    \A r \in Reqs : req[r].pc = "claim" =>
        /\ prekey[req[r].dev][req[r].key] = "available"
        /\ \A q \in Reqs \ {r} : req[q].pc = "claim" => req[q].dev # req[r].dev

\* A bundle is given out while its device is trusted, although the requester
\* does not lock the account that may be revoking it.
NoBundleOfRevoked ==
    [][\A r \in Reqs : (Claim(r) /\ handed' # handed) \/ Answer(r)
                         => device[req[r].dev].state = "trusted"]_vars

\* A device is registered on a challenge that pays once, and trusted by the first
\* device or by one that it trusts (register_e2ee_device, revoke_e2ee_device).
TrustIsRooted == OneRootPerAccount /\ ChallengePaysOnce

\* consume_prekey_bundle under any number of requests, a revocation and the sweep:
\* a prekey is given out once for each time it was stored, a claim never misses,
\* and nothing is given out of a revoked device.
BundlesAreSingleUse == [](HandedOncePerUpload /\ PickStands) /\ NoBundleOfRevoked

-----------------------------------------------------------------------------
(* The inductive invariant behind the properties above.                    *)

\* A challenge that has paid is used.
PaidIsUsed == \A c \in Challenges : redeemed[c] # 0 => challenge[c].state = "used"

\* An account that ever registered a device has a trusted one.
TrustRemains == \A d \in Devices : device[d].state # "none" => Trusted(UserOf[d]) # {}

\* A request that fetches a bundle holds the row of a trusted device, and what
\* it has picked is unused.
BundleLocked ==
    \A r \in Reqs : req[r].pc \in {"pick", "claim", "answer"} =>
        /\ req[r].dev \in Devices
        /\ deviceLock[req[r].dev] = r
        /\ device[req[r].dev].state = "trusted"
        /\ req[r].pc = "claim" => /\ req[r].key \in Prekeys
                                 /\ prekey[req[r].dev][req[r].key] = "available"

\* An unused prekey has been stored once more than it was given out.
UnusedIsOwed ==
    \A d \in Devices, k \in Prekeys :
        prekey[d][k] = "available" => handed[d][k] < uploaded[d][k]

IInv ==
    /\ TypeOK
    /\ ChallengePaysOnce /\ PaidIsUsed
    /\ OneRootPerAccount /\ TrustRemains
    /\ BundleLocked
    /\ HandedOncePerUpload /\ UnusedIsOwed
=============================================================================
