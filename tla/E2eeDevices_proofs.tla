------------------------- MODULE E2eeDevices_proofs --------------------------
(***************************************************************************)
(* Proofs about E2eeDevices for every set of accounts, devices, challenges *)
(* and prekeys and any number of concurrent requests.                      *)
(***************************************************************************)
EXTENDS E2eeDevices, FiniteSetTheorems, TLAPS

USE DevicesAssumption

\* Why revoke_e2ee_device counts before it revokes: a second one remains.
LEMMA AnotherOne ==
    ASSUME NEW S, IsFiniteSet(S), Cardinality(S) > 1, NEW d \in S
    PROVE  \E e \in S : e # d
<1>1. ASSUME \A e \in S : e = d PROVE FALSE
  <2>1. S = {d}
    BY <1>1
  <2> QED BY <2>1, FS_Singleton
<1> QED BY <1>1

LEMMA TrustedFinite == ASSUME NEW u PROVE IsFiniteSet(Trusted(u))
BY FS_Subset DEF Trusted

LEMMA IdleType == Idle \in Req
BY DEF Idle, Req, Tries

LEMMA InitInv == Init => IInv
<1> SUFFICES ASSUME Init PROVE IInv
  OBVIOUS
<1>1. TypeOK
  BY IdleType DEF Init, TypeOK, Device, Challenge, Idle
<1> QED BY <1>1 DEF Init, IInv, ChallengePaysOnce, PaidIsUsed, OneRootPerAccount, TrustRemains,
                    BundleLocked, HandedOncePerUpload, UnusedIsOwed, Idle

-----------------------------------------------------------------------------
(* Groups of conjuncts that most actions leave alone.                      *)

DeviceFacts == OneRootPerAccount /\ TrustRemains
ChallengeFacts == ChallengePaysOnce /\ PaidIsUsed
PrekeyFacts == HandedOncePerUpload /\ UnusedIsOwed

LEMMA DeviceFactsKept ==
    ASSUME DeviceFacts, UNCHANGED device PROVE DeviceFacts'
BY DEF DeviceFacts, OneRootPerAccount, TrustRemains, Trusted

LEMMA ChallengeFactsKept ==
    ASSUME ChallengeFacts, UNCHANGED <<challenge, redeemed>> PROVE ChallengeFacts'
BY DEF ChallengeFacts, ChallengePaysOnce, PaidIsUsed

LEMMA PrekeyFactsKept ==
    ASSUME PrekeyFacts, UNCHANGED <<prekey, uploaded, handed>> PROVE PrekeyFacts'
BY DEF PrekeyFacts, HandedOncePerUpload, UnusedIsOwed

LEMMA BundleLockedKept ==
    ASSUME BundleLocked, UNCHANGED <<device, prekey, deviceLock, req>> PROVE BundleLocked'
BY DEF BundleLocked

LEMMA IInvParts ==
    IInv <=> TypeOK /\ ChallengeFacts /\ DeviceFacts /\ BundleLocked /\ PrekeyFacts
BY DEF IInv, ChallengeFacts, DeviceFacts, PrekeyFacts

\* Burning an open challenge pays once.
LEMMA BurnPays ==
    ASSUME TypeOK, ChallengeFacts, NEW c \in Challenges, NEW u, Redeemable(c, u), Burn(c)
    PROVE  /\ challenge' \in [Challenges -> Challenge]
           /\ redeemed' \in [Challenges -> Nat]
           /\ ChallengeFacts'
<1>1. challenge[c] \in Challenge /\ challenge[c].state = "open"
  BY DEF TypeOK, Redeemable
<1>2. redeemed[c] = 0
  BY <1>1 DEF ChallengeFacts, PaidIsUsed
<1>3. [challenge[c] EXCEPT !.state = "used"] \in Challenge
  BY <1>1 DEF Challenge
<1>4. [challenge[c] EXCEPT !.state = "used"].state = "used"
  BY <1>1 DEF Challenge
<1>5. challenge' = [challenge EXCEPT ![c] = [challenge[c] EXCEPT !.state = "used"]]
  BY DEF Burn
<1>6. redeemed' = [redeemed EXCEPT ![c] = 1]
  BY <1>2 DEF Burn, TypeOK
<1> QED BY <1>3, <1>4, <1>5, <1>6 DEF TypeOK, ChallengeFacts, ChallengePaysOnce, PaidIsUsed

\* Changing the state of a challenge that has not paid, or to "used", is safe.
LEMMA ChallengeMoves ==
    ASSUME TypeOK, ChallengeFacts, NEW c \in Challenges, NEW x \in Challenge,
           challenge' = [challenge EXCEPT ![c] = x], UNCHANGED redeemed,
           x.state = "used" \/ challenge[c].state # "used"
    PROVE  challenge' \in [Challenges -> Challenge] /\ ChallengeFacts'
BY DEF TypeOK, ChallengeFacts, ChallengePaysOnce, PaidIsUsed

\* Storing prekeys owes each of them once more.
LEMMA StoreOwes ==
    ASSUME TypeOK, PrekeyFacts, NEW d \in Devices, NEW K \in SUBSET Prekeys,
           Store(d, K), UNCHANGED handed
    PROVE  /\ prekey' \in [Devices -> [Prekeys -> {"none", "available", "consumed"}]]
           /\ uploaded' \in [Devices -> [Prekeys -> Nat]]
           /\ \A e \in Devices \ {d} : prekey'[e] = prekey[e]
           /\ PrekeyFacts'
<1>1. /\ prekey' = [prekey EXCEPT ![d] = [k \in Prekeys |-> IF k \in K THEN "available" ELSE prekey[d][k]]]
      /\ uploaded' = [uploaded EXCEPT ![d] = [k \in Prekeys |-> IF k \in K THEN uploaded[d][k] + 1
                                                                         ELSE uploaded[d][k]]]
  BY DEF Store
<1>2. \A e \in Devices, k \in Prekeys :
         /\ prekey[e][k] \in {"none", "available", "consumed"}
         /\ uploaded[e][k] \in Nat /\ handed[e][k] \in Nat
  BY DEF TypeOK
<1>3. /\ [k \in Prekeys |-> IF k \in K THEN "available" ELSE prekey[d][k]]
           \in [Prekeys -> {"none", "available", "consumed"}]
      /\ [k \in Prekeys |-> IF k \in K THEN uploaded[d][k] + 1 ELSE uploaded[d][k]]
           \in [Prekeys -> Nat]
  BY <1>2
<1>4. /\ prekey' \in [Devices -> [Prekeys -> {"none", "available", "consumed"}]]
      /\ uploaded' \in [Devices -> [Prekeys -> Nat]]
      /\ \A e \in Devices \ {d} : prekey'[e] = prekey[e] /\ uploaded'[e] = uploaded[e]
  BY <1>1, <1>3 DEF TypeOK
<1>5. ASSUME NEW e \in Devices, NEW k \in Prekeys
      PROVE  /\ handed[e][k] <= uploaded'[e][k]
             /\ prekey'[e][k] = "available" => handed[e][k] < uploaded'[e][k]
  <2>1. CASE e = d
    <3>1. /\ prekey'[e][k] = IF k \in K THEN "available" ELSE prekey[e][k]
          /\ uploaded'[e][k] = IF k \in K THEN uploaded[e][k] + 1 ELSE uploaded[e][k]
      BY <1>1, <2>1 DEF TypeOK
    <3> QED BY <3>1, <1>2 DEF PrekeyFacts, HandedOncePerUpload, UnusedIsOwed
  <2>2. CASE e # d
    BY <2>2, <1>4 DEF PrekeyFacts, HandedOncePerUpload, UnusedIsOwed
  <2> QED BY <2>1, <2>2
<1> QED BY <1>4, <1>5 DEF PrekeyFacts, HandedOncePerUpload, UnusedIsOwed

\* A request that ends gives its row back; only that row's prekeys may change.
LEMMA RequestEnds ==
    ASSUME TypeOK, BundleLocked, NEW r \in Reqs,
           req' = [req EXCEPT ![r] = Idle], deviceLock' = Unlocked(r), UNCHANGED device,
           \A d \in Devices : deviceLock[d] # r => prekey'[d] = prekey[d]
    PROVE  /\ req' \in [Reqs -> Req]
           /\ deviceLock' \in [Devices -> Reqs \cup {NoReq}]
           /\ \A d \in Devices, q \in Reqs :
                 deviceLock'[d] = q => req'[q].dev = d /\ req'[q].pc \in {"pick", "claim", "answer"}
           /\ BundleLocked'
<1>1. /\ req' \in [Reqs -> Req] /\ req'[r] = Idle
      /\ \A q \in Reqs \ {r} : req'[q] = req[q]
  BY IdleType DEF TypeOK
<1>2. /\ deviceLock' \in [Devices -> Reqs \cup {NoReq}]
      /\ \A d \in Devices : deviceLock'[d] # r
      /\ \A d \in Devices : deviceLock[d] # r => deviceLock'[d] = deviceLock[d]
      /\ \A d \in Devices : deviceLock[d] = r => deviceLock'[d] = NoReq
  BY DEF TypeOK, Unlocked
<1>3. ASSUME NEW d \in Devices, NEW q \in Reqs, deviceLock'[d] = q
      PROVE  req'[q].dev = d /\ req'[q].pc \in {"pick", "claim", "answer"}
  <2>1. q # r /\ deviceLock[d] = q
    BY <1>2, <1>3
  <2> QED BY <2>1, <1>1 DEF TypeOK
<1>4. ASSUME NEW q \in Reqs, req'[q].pc \in {"pick", "claim", "answer"}
      PROVE  /\ req'[q].dev \in Devices
             /\ deviceLock'[req'[q].dev] = q
             /\ device'[req'[q].dev].state = "trusted"
             /\ req'[q].pc = "claim" => /\ req'[q].key \in Prekeys
                                        /\ prekey'[req'[q].dev][req'[q].key] = "available"
  <2>1. q # r
    BY <1>1, <1>4 DEF Idle
  <2>2. req'[q] = req[q]
    BY <2>1, <1>1
  <2>3. /\ req[q].dev \in Devices /\ deviceLock[req[q].dev] = q
        /\ device[req[q].dev].state = "trusted"
        /\ req[q].pc = "claim" => /\ req[q].key \in Prekeys
                                  /\ prekey[req[q].dev][req[q].key] = "available"
    BY <1>4, <2>2 DEF BundleLocked
  <2>4. prekey'[req[q].dev] = prekey[req[q].dev] /\ deviceLock'[req[q].dev] = q
    BY <2>1, <2>3, <1>2
  <2> QED BY <2>2, <2>3, <2>4
<1>5. BundleLocked'
  BY <1>4 DEF BundleLocked
<1> QED BY <1>1, <1>2, <1>3, <1>5

-----------------------------------------------------------------------------
(* One lemma per operation.                                                *)

LEMMA ChallengeStep ==
    ASSUME IInv, NEW c \in Challenges, NEW u \in Users,
           CreateChallenge(c, u) \/ Expire(c) \/ Refuse(c, u)
    PROVE  IInv'
<1> TypeOK /\ ChallengeFacts /\ DeviceFacts /\ BundleLocked /\ PrekeyFacts
  BY IInvParts
<1>1. UNCHANGED <<device, prekey, deviceLock, req, redeemed, uploaded, handed>>
  BY DEF CreateChallenge, Expire, Refuse
<1>2. challenge[c] \in Challenge
  BY DEF TypeOK
<1>3. \E x \in Challenge : /\ challenge' = [challenge EXCEPT ![c] = x]
                           /\ x.state = "used" \/ challenge[c].state # "used"
  <2>1. CASE CreateChallenge(c, u)
    <3>1. [state |-> "open", user |-> u] \in Challenge
      BY DEF Challenge
    <3> QED BY <2>1, <3>1 DEF CreateChallenge
  <2>2. CASE Expire(c)
    <3>1. [challenge[c] EXCEPT !.state = "dead"] \in Challenge
      BY <1>2 DEF Challenge
    <3> QED BY <2>2, <3>1 DEF Expire
  <2>3. CASE Refuse(c, u)
    <3>1. [challenge[c] EXCEPT !.state = "used"] \in Challenge
      BY <1>2 DEF Challenge
    <3> QED BY <2>3, <3>1 DEF Refuse, Redeemable
  <2> QED BY <2>1, <2>2, <2>3
<1>4. challenge' \in [Challenges -> Challenge] /\ ChallengeFacts'
  BY <1>1, <1>3, ChallengeMoves
<1>5. TypeOK'
  BY <1>1, <1>4 DEF TypeOK
<1> QED BY <1>1, <1>4, <1>5, DeviceFactsKept, PrekeyFactsKept, BundleLockedKept
        DEF IInv, ChallengeFacts, DeviceFacts, PrekeyFacts

LEMMA RegisterStep ==
    ASSUME IInv, NEW d \in Devices, NEW a \in Devices \cup {NoDevice}, NEW c \in Challenges,
           NEW K \in SUBSET Prekeys, RegisterDevice(d, a, c, K)
    PROVE  IInv'
<1> TypeOK /\ ChallengeFacts /\ DeviceFacts /\ BundleLocked /\ PrekeyFacts
  BY IInvParts
<1> DEFINE row == [state |-> "trusted", approver |-> a]
<1>1. /\ device' = [device EXCEPT ![d] = row]
      /\ UNCHANGED <<deviceLock, req, handed>>
      /\ device[d].state = "none" /\ ApprovedBy(d, a)
  BY DEF RegisterDevice
<1>2. row \in Device /\ row.state = "trusted" /\ row.approver = a
  BY DEF Device
<1> HIDE DEF row
<1>3. /\ device' \in [Devices -> Device] /\ device'[d] = row
      /\ \A e \in Devices \ {d} : device'[e] = device[e]
  BY <1>1, <1>2 DEF TypeOK
<1>4. /\ challenge' \in [Challenges -> Challenge] /\ redeemed' \in [Challenges -> Nat]
      /\ ChallengeFacts'
  BY BurnPays DEF RegisterDevice
<1>5. /\ prekey' \in [Devices -> [Prekeys -> {"none", "available", "consumed"}]]
      /\ uploaded' \in [Devices -> [Prekeys -> Nat]]
      /\ \A e \in Devices \ {d} : prekey'[e] = prekey[e]
      /\ PrekeyFacts'
  BY StoreOwes DEF RegisterDevice
<1>6. TypeOK'
  BY <1>1, <1>3, <1>4, <1>5 DEF TypeOK
<1>7. TrustRemains'
  <2>1. \A e \in Devices : device[e].state = "trusted" => device'[e].state = "trusted"
    BY <1>1, <1>3
  <2>2. device'[d].state = "trusted"
    BY <1>2, <1>3
  <2> QED BY <2>1, <2>2, <1>3 DEF TrustRemains, Trusted, DeviceFacts
<1>8. OneRootPerAccount'
  <2>1. ASSUME a = NoDevice, NEW e \in Devices, e # d, UserOf[e] = UserOf[d]
        PROVE  device[e].state = "none"
    BY <1>1, <2>1 DEF ApprovedBy, TrustRemains, Trusted, DeviceFacts
  <2> QED BY <2>1, <1>2, <1>3 DEF OneRootPerAccount, DeviceFacts
<1>9. BundleLocked'
  <2>1. ASSUME NEW r \in Reqs, req[r].pc \in {"pick", "claim", "answer"}
        PROVE  req[r].dev \in Devices \ {d}
    BY <2>1, <1>1 DEF BundleLocked
  <2> QED BY <2>1, <1>1, <1>3, <1>5 DEF BundleLocked
<1> QED BY <1>4, <1>5, <1>6, <1>7, <1>8, <1>9
        DEF IInv, ChallengeFacts, DeviceFacts, PrekeyFacts

LEMMA RevokeStep ==
    ASSUME IInv, NEW d \in Devices, RevokeDevice(d)
    PROVE  IInv'
<1> TypeOK /\ ChallengeFacts /\ DeviceFacts /\ BundleLocked /\ PrekeyFacts
  BY IInvParts
<1> DEFINE row == [device[d] EXCEPT !.state = "revoked"]
           keys == [k \in Prekeys |-> IF prekey[d][k] = "available" THEN "consumed" ELSE prekey[d][k]]
<1>1. /\ device' = [device EXCEPT ![d] = row]
      /\ prekey' = [prekey EXCEPT ![d] = keys]
      /\ UNCHANGED <<challenge, deviceLock, req, redeemed, uploaded, handed>>
      /\ deviceLock[d] = NoReq /\ device[d].state = "trusted"
      /\ Cardinality(Trusted(UserOf[d])) > 1
  BY DEF RevokeDevice
<1>2. device[d] \in Device /\ prekey[d] \in [Prekeys -> {"none", "available", "consumed"}]
  BY DEF TypeOK
<1>3. row \in Device /\ row.state = "revoked" /\ row.approver = device[d].approver
  BY <1>2 DEF Device
<1>4. /\ keys \in [Prekeys -> {"none", "available", "consumed"}]
      /\ \A k \in Prekeys : keys[k] # "available"
  BY <1>2
<1> HIDE DEF row, keys
<1>5. /\ device' \in [Devices -> Device] /\ device'[d] = row
      /\ \A e \in Devices \ {d} : device'[e] = device[e] /\ prekey'[e] = prekey[e]
      /\ prekey' \in [Devices -> [Prekeys -> {"none", "available", "consumed"}]]
      /\ prekey'[d] = keys
  BY <1>1, <1>3, <1>4 DEF TypeOK
<1>6. TypeOK'
  BY <1>1, <1>5 DEF TypeOK
<1>7. TrustRemains'
  <2>1. PICK e \in Trusted(UserOf[d]) : e # d
    <3>1. d \in Trusted(UserOf[d])
      BY <1>1 DEF Trusted
    <3> QED BY <3>1, <1>1, AnotherOne, TrustedFinite
  <2>2. e \in Devices /\ e # d /\ UserOf[e] = UserOf[d] /\ device'[e].state = "trusted"
    BY <2>1, <1>5 DEF Trusted
  <2>3. ASSUME NEW f \in Devices, device'[f].state # "none"
        PROVE  Trusted(UserOf[f])' # {}
    <3>1. CASE UserOf[f] = UserOf[d]
      BY <2>2, <3>1 DEF Trusted
    <3>2. CASE UserOf[f] # UserOf[d]
      <4>1. PICK g \in Devices : UserOf[g] = UserOf[f] /\ device[g].state = "trusted"
        BY <2>3, <3>2, <1>5 DEF TrustRemains, Trusted, DeviceFacts
      <4>2. g # d
        BY <4>1, <3>2
      <4> QED BY <4>1, <4>2, <1>5 DEF Trusted
    <3> QED BY <3>1, <3>2
  <2> QED BY <2>3 DEF TrustRemains
<1>8. OneRootPerAccount'
  <2>1. \A e \in Devices : /\ device'[e].approver = device[e].approver
                           /\ device'[e].state # "none" => device[e].state # "none"
    BY <1>1, <1>3, <1>5
  <2> QED BY <2>1 DEF OneRootPerAccount, DeviceFacts
<1>9. BundleLocked'
  <2>1. ASSUME NEW r \in Reqs, req[r].pc \in {"pick", "claim", "answer"}
        PROVE  req[r].dev \in Devices \ {d}
    BY <2>1, <1>1 DEF BundleLocked
  <2> QED BY <2>1, <1>1, <1>5 DEF BundleLocked
<1>10. PrekeyFacts'
  BY <1>1, <1>4, <1>5 DEF PrekeyFacts, HandedOncePerUpload, UnusedIsOwed
<1> QED BY <1>1, <1>6, <1>7, <1>8, <1>9, <1>10, ChallengeFactsKept
        DEF IInv, ChallengeFacts, DeviceFacts, PrekeyFacts

LEMMA UpdateStep ==
    ASSUME IInv, NEW d \in Devices, NEW c \in Challenges, NEW K \in SUBSET Prekeys,
           UpdatePrekeys(d, c, K)
    PROVE  IInv'
<1> TypeOK /\ ChallengeFacts /\ DeviceFacts /\ BundleLocked /\ PrekeyFacts
  BY IInvParts
<1>1. /\ UNCHANGED <<device, deviceLock, req, handed>>
      /\ deviceLock[d] = NoReq
  BY DEF UpdatePrekeys
<1>2. /\ challenge' \in [Challenges -> Challenge] /\ redeemed' \in [Challenges -> Nat]
      /\ ChallengeFacts'
  BY BurnPays DEF UpdatePrekeys
<1>3. /\ prekey' \in [Devices -> [Prekeys -> {"none", "available", "consumed"}]]
      /\ uploaded' \in [Devices -> [Prekeys -> Nat]]
      /\ \A e \in Devices \ {d} : prekey'[e] = prekey[e]
      /\ PrekeyFacts'
  BY StoreOwes DEF UpdatePrekeys
<1>4. TypeOK'
  BY <1>1, <1>2, <1>3 DEF TypeOK
<1>5. BundleLocked'
  <2>1. ASSUME NEW r \in Reqs, req[r].pc \in {"pick", "claim", "answer"}
        PROVE  req[r].dev \in Devices \ {d}
    BY <2>1, <1>1 DEF BundleLocked
  <2> QED BY <2>1, <1>1, <1>3 DEF BundleLocked
<1> QED BY <1>1, <1>2, <1>3, <1>4, <1>5, DeviceFactsKept
        DEF IInv, ChallengeFacts, DeviceFacts, PrekeyFacts

\* A free request slot holds no row.
LEMMA NoRowOf ==
    ASSUME TypeOK, NEW r \in Reqs, req[r].pc \notin {"pick", "claim", "answer"}
    PROVE  /\ \A d \in Devices : deviceLock[d] # r
           /\ Unlocked(r) = deviceLock
<1>1. \A d \in Devices : deviceLock[d] # r
  BY DEF TypeOK
<1> QED BY <1>1 DEF Unlocked, TypeOK

LEMMA ClashStep ==
    ASSUME IInv, NEW r \in Reqs, NEW c \in Challenges, NEW d \in Devices,
           NEW a \in Devices \cup {NoDevice}, RegisterClashes(r, a, c, d)
    PROVE  IInv'
<1> TypeOK /\ ChallengeFacts /\ DeviceFacts /\ BundleLocked /\ PrekeyFacts
  BY IInvParts
<1> DEFINE x == [Idle EXCEPT !.pc = "reburn", !.chal = c]
<1>1. /\ req' = [req EXCEPT ![r] = x] /\ req[r].pc = "idle"
      /\ UNCHANGED <<device, challenge, prekey, deviceLock, redeemed, uploaded, handed>>
  BY DEF RegisterClashes
<1>2. x \in Req /\ x.pc = "reburn"
  BY IdleType DEF Req, Idle
<1> HIDE DEF x
<1>3. /\ req' \in [Reqs -> Req] /\ req'[r].pc = "reburn"
      /\ \A q \in Reqs \ {r} : req'[q] = req[q]
  BY <1>1, <1>2 DEF TypeOK
<1>4. \A e \in Devices : deviceLock[e] # r
  BY <1>1, NoRowOf
<1>5. TypeOK'
  BY <1>1, <1>3, <1>4 DEF TypeOK
<1>6. BundleLocked'
  BY <1>1, <1>3 DEF BundleLocked
<1> QED BY <1>1, <1>5, <1>6, ChallengeFactsKept, DeviceFactsKept, PrekeyFactsKept
        DEF IInv, ChallengeFacts, DeviceFacts, PrekeyFacts

LEMMA ReburnStep ==
    ASSUME IInv, NEW r \in Reqs, Reburn(r)
    PROVE  IInv'
<1> TypeOK /\ ChallengeFacts /\ DeviceFacts /\ BundleLocked /\ PrekeyFacts
  BY IInvParts
<1>1. PICK c \in Challenges : c = req[r].chal
  BY DEF TypeOK, Req
<1> DEFINE x == [challenge[c] EXCEPT !.state = IF challenge[c].state = "open" THEN "used"
                                               ELSE challenge[c].state]
<1>2. /\ challenge' = [challenge EXCEPT ![c] = x] /\ req' = [req EXCEPT ![r] = Idle]
      /\ req[r].pc = "reburn"
      /\ UNCHANGED <<device, prekey, deviceLock, redeemed, uploaded, handed>>
  BY <1>1 DEF Reburn
<1>3. challenge[c] \in Challenge
  BY DEF TypeOK
<1>4. x \in Challenge /\ (x.state = "used" \/ challenge[c].state # "used")
  BY <1>3 DEF Challenge
<1> HIDE DEF x
<1>5. challenge' \in [Challenges -> Challenge] /\ ChallengeFacts'
  BY <1>2, <1>4, ChallengeMoves
<1>6. deviceLock' = Unlocked(r)
  BY <1>2, NoRowOf
<1>7. /\ req' \in [Reqs -> Req]
      /\ \A d \in Devices, q \in Reqs :
            deviceLock'[d] = q => req'[q].dev = d /\ req'[q].pc \in {"pick", "claim", "answer"}
      /\ BundleLocked'
  BY <1>2, <1>6, RequestEnds
<1>8. TypeOK'
  BY <1>2, <1>5, <1>7 DEF TypeOK
<1> QED BY <1>2, <1>5, <1>7, <1>8, DeviceFactsKept, PrekeyFactsKept
        DEF IInv, ChallengeFacts, DeviceFacts, PrekeyFacts

LEMMA ConsumeStep ==
    ASSUME IInv, NEW r \in Reqs, NEW d \in Devices, ConsumePrekeyBundle(r, d)
    PROVE  IInv'
<1> TypeOK /\ ChallengeFacts /\ DeviceFacts /\ BundleLocked /\ PrekeyFacts
  BY IInvParts
<1> DEFINE x == [Idle EXCEPT !.pc = "pick", !.dev = d]
<1>1. /\ req' = [req EXCEPT ![r] = x] /\ req[r].pc = "idle"
      /\ deviceLock' = [deviceLock EXCEPT ![d] = r]
      /\ deviceLock[d] = NoReq /\ device[d].state = "trusted"
      /\ UNCHANGED <<device, challenge, prekey, redeemed, uploaded, handed>>
  BY DEF ConsumePrekeyBundle
<1>2. x \in Req /\ x.pc = "pick" /\ x.dev = d
  BY IdleType DEF Req, Idle
<1> HIDE DEF x
<1>3. /\ req' \in [Reqs -> Req] /\ req'[r] = x
      /\ \A q \in Reqs \ {r} : req'[q] = req[q]
  BY <1>1, <1>2 DEF TypeOK
<1>4. /\ deviceLock' \in [Devices -> Reqs \cup {NoReq}] /\ deviceLock'[d] = r
      /\ \A e \in Devices \ {d} : deviceLock'[e] = deviceLock[e]
  BY <1>1 DEF TypeOK
<1>5. \A e \in Devices : deviceLock[e] # r
  BY <1>1, NoRowOf
<1>6. ASSUME NEW e \in Devices, NEW q \in Reqs, deviceLock'[e] = q
      PROVE  req'[q].dev = e /\ req'[q].pc \in {"pick", "claim", "answer"}
  <2>1. CASE e = d
    BY <2>1, <1>2, <1>3, <1>4, <1>6
  <2>2. CASE e # d
    <3>1. deviceLock[e] = q /\ q # r
      BY <2>2, <1>4, <1>5, <1>6
    <3> QED BY <3>1, <1>3 DEF TypeOK
  <2> QED BY <2>1, <2>2
<1>7. TypeOK'
  BY <1>1, <1>3, <1>4, <1>6 DEF TypeOK
<1>8. ASSUME NEW q \in Reqs, req'[q].pc \in {"pick", "claim", "answer"}
      PROVE  /\ req'[q].dev \in Devices
             /\ deviceLock'[req'[q].dev] = q
             /\ device'[req'[q].dev].state = "trusted"
             /\ req'[q].pc = "claim" => /\ req'[q].key \in Prekeys
                                        /\ prekey'[req'[q].dev][req'[q].key] = "available"
  <2>1. CASE q = r
    BY <2>1, <1>1, <1>2, <1>3, <1>4
  <2>2. CASE q # r
    <3>1. req'[q] = req[q] /\ req[q].pc \in {"pick", "claim", "answer"}
      BY <2>2, <1>3, <1>8
    <3>2. req[q].dev \in Devices /\ deviceLock[req[q].dev] = q
      BY <3>1 DEF BundleLocked
    <3>3. deviceLock'[req[q].dev] = q
      BY <3>2, <1>1, <1>4
    <3> QED BY <3>1, <3>2, <3>3, <1>1 DEF BundleLocked
  <2> QED BY <2>1, <2>2
<1>9. BundleLocked'
  BY <1>8 DEF BundleLocked
<1> QED BY <1>1, <1>7, <1>9, ChallengeFactsKept, DeviceFactsKept, PrekeyFactsKept
        DEF IInv, ChallengeFacts, DeviceFacts, PrekeyFacts

LEMMA PickStep ==
    ASSUME IInv, NEW r \in Reqs, NEW k \in Prekeys \cup {NoKey}, Pick(r, k)
    PROVE  IInv'
<1> TypeOK /\ ChallengeFacts /\ DeviceFacts /\ BundleLocked /\ PrekeyFacts
  BY IInvParts
<1>1. PICK d \in Devices : d = req[r].dev
  BY DEF BundleLocked, Pick
<1> DEFINE x == [req[r] EXCEPT !.key = k, !.pc = IF k = NoKey THEN "answer" ELSE "claim"]
<1>2. /\ req' = [req EXCEPT ![r] = x] /\ req[r].pc = "pick"
      /\ IF Available(d) = {} THEN k = NoKey ELSE k \in Available(d)
      /\ UNCHANGED <<device, challenge, prekey, deviceLock, redeemed, uploaded, handed>>
  BY <1>1 DEF Pick
<1>3. req[r] \in Req
  BY DEF TypeOK
<1>4. /\ x \in Req /\ x.dev = d /\ x.key = k
      /\ x.pc \in {"claim", "answer"} /\ (x.pc = "claim" => k # NoKey)
  BY <1>1, <1>3 DEF Req
<1> HIDE DEF x
<1>5. /\ req' \in [Reqs -> Req] /\ req'[r] = x
      /\ \A q \in Reqs \ {r} : req'[q] = req[q]
  BY <1>2, <1>4 DEF TypeOK
<1>6. deviceLock[d] = r /\ device[d].state = "trusted"
  BY <1>1, <1>2 DEF BundleLocked
<1>7. k # NoKey => k \in Prekeys /\ prekey[d][k] = "available"
  BY <1>2 DEF Available
<1>8. ASSUME NEW e \in Devices, NEW q \in Reqs, deviceLock[e] = q
      PROVE  req'[q].dev = e /\ req'[q].pc \in {"pick", "claim", "answer"}
  <2>1. req[q].dev = e /\ req[q].pc \in {"pick", "claim", "answer"}
    BY <1>8 DEF TypeOK
  <2> QED BY <2>1, <1>1, <1>4, <1>5
<1>9. TypeOK'
  BY <1>2, <1>5, <1>8 DEF TypeOK
<1>10. BundleLocked'
  BY <1>2, <1>4, <1>5, <1>6, <1>7 DEF BundleLocked
<1> QED BY <1>2, <1>9, <1>10, ChallengeFactsKept, DeviceFactsKept, PrekeyFactsKept
        DEF IInv, ChallengeFacts, DeviceFacts, PrekeyFacts

\* The prekey is there (BundleLocked), so the claim hands it out and ends.
LEMMA ClaimStep ==
    ASSUME IInv, NEW r \in Reqs, Claim(r)
    PROVE  IInv'
<1> TypeOK /\ ChallengeFacts /\ DeviceFacts /\ BundleLocked /\ PrekeyFacts
  BY IInvParts
<1>1. PICK d \in Devices : d = req[r].dev
  BY DEF BundleLocked, Claim
<1>2. PICK k \in Prekeys : k = req[r].key
  BY DEF BundleLocked, Claim
<1>3. prekey[d][k] = "available" /\ deviceLock[d] = r
  BY <1>1, <1>2 DEF BundleLocked, Claim
<1>4. /\ prekey' = [prekey EXCEPT ![d][k] = "consumed"]
      /\ handed' = [handed EXCEPT ![d][k] = handed[d][k] + 1]
      /\ req' = [req EXCEPT ![r] = Idle] /\ deviceLock' = Unlocked(r)
      /\ UNCHANGED <<device, challenge, redeemed, uploaded>>
  BY <1>1, <1>2, <1>3 DEF Claim, Consumed
<1>5. \A e \in Devices, p \in Prekeys : uploaded[e][p] \in Nat /\ handed[e][p] \in Nat
  BY DEF TypeOK
<1>6. /\ prekey' \in [Devices -> [Prekeys -> {"none", "available", "consumed"}]]
      /\ \A e \in Devices \ {d} : prekey'[e] = prekey[e]
      /\ \A p \in Prekeys \ {k} : prekey'[d][p] = prekey[d][p]
      /\ prekey'[d][k] = "consumed"
  BY <1>4 DEF TypeOK
<1>7. /\ handed' \in [Devices -> [Prekeys -> Nat]]
      /\ \A e \in Devices \ {d} : handed'[e] = handed[e]
      /\ \A p \in Prekeys \ {k} : handed'[d][p] = handed[d][p]
      /\ handed'[d][k] = handed[d][k] + 1
  BY <1>4, <1>5 DEF TypeOK
<1>8. /\ req' \in [Reqs -> Req]
      /\ deviceLock' \in [Devices -> Reqs \cup {NoReq}]
      /\ \A e \in Devices, q \in Reqs :
            deviceLock'[e] = q => req'[q].dev = e /\ req'[q].pc \in {"pick", "claim", "answer"}
      /\ BundleLocked'
  BY <1>3, <1>4, <1>6, RequestEnds
<1>9. TypeOK'
  BY <1>4, <1>6, <1>7, <1>8 DEF TypeOK
<1>10. PrekeyFacts'
  <2>1. ASSUME NEW e \in Devices, NEW p \in Prekeys
        PROVE  /\ handed'[e][p] <= uploaded[e][p]
               /\ prekey'[e][p] = "available" => handed'[e][p] < uploaded[e][p]
    <3>1. CASE e = d /\ p = k
      BY <3>1, <1>3, <1>5, <1>6, <1>7 DEF PrekeyFacts, UnusedIsOwed
    <3>2. CASE ~(e = d /\ p = k)
      BY <3>2, <1>6, <1>7, SMTT(40) DEF PrekeyFacts, HandedOncePerUpload, UnusedIsOwed
    <3> QED BY <3>1, <3>2
  <2> QED BY <2>1, <1>4 DEF PrekeyFacts, HandedOncePerUpload, UnusedIsOwed
<1> QED BY <1>4, <1>8, <1>9, <1>10, ChallengeFactsKept, DeviceFactsKept
        DEF IInv, ChallengeFacts, DeviceFacts, PrekeyFacts

LEMMA EndStep ==
    ASSUME IInv, NEW r \in Reqs, Answer(r) \/ Crash(r)
    PROVE  IInv'
<1> TypeOK /\ ChallengeFacts /\ DeviceFacts /\ BundleLocked /\ PrekeyFacts
  BY IInvParts
<1>1. /\ req' = [req EXCEPT ![r] = Idle] /\ deviceLock' = Unlocked(r)
      /\ UNCHANGED <<device, challenge, prekey, redeemed, uploaded, handed>>
  BY DEF Answer, Crash
<1>2. /\ req' \in [Reqs -> Req]
      /\ deviceLock' \in [Devices -> Reqs \cup {NoReq}]
      /\ \A e \in Devices, q \in Reqs :
            deviceLock'[e] = q => req'[q].dev = e /\ req'[q].pc \in {"pick", "claim", "answer"}
      /\ BundleLocked'
  BY <1>1, RequestEnds
<1>3. TypeOK'
  BY <1>1, <1>2 DEF TypeOK
<1> QED BY <1>1, <1>2, <1>3, ChallengeFactsKept, DeviceFactsKept, PrekeyFactsKept
        DEF IInv, ChallengeFacts, DeviceFacts, PrekeyFacts

LEMMA SweepStep ==
    ASSUME IInv, NEW d \in Devices, NEW k \in Prekeys, Sweep(d, k)
    PROVE  IInv'
<1> TypeOK /\ ChallengeFacts /\ DeviceFacts /\ BundleLocked /\ PrekeyFacts
  BY IInvParts
<1>1. /\ prekey' = [prekey EXCEPT ![d][k] = "none"] /\ prekey[d][k] = "consumed"
      /\ UNCHANGED <<device, challenge, deviceLock, req, redeemed, uploaded, handed>>
  BY DEF Sweep
<1>2. prekey' \in [Devices -> [Prekeys -> {"none", "available", "consumed"}]]
  BY <1>1 DEF TypeOK
<1>3. \A e \in Devices, p \in Prekeys : prekey'[e][p] = "available" <=> prekey[e][p] = "available"
  BY <1>1 DEF TypeOK
<1>4. TypeOK'
  BY <1>1, <1>2 DEF TypeOK
<1>5. BundleLocked'
  BY <1>1, <1>3 DEF BundleLocked
<1>6. PrekeyFacts'
  BY <1>1, <1>3 DEF PrekeyFacts, HandedOncePerUpload, UnusedIsOwed
<1> QED BY <1>1, <1>4, <1>5, <1>6, ChallengeFactsKept, DeviceFactsKept
        DEF IInv, ChallengeFacts, DeviceFacts, PrekeyFacts

-----------------------------------------------------------------------------

LEMMA NextInv == IInv /\ [Next]_vars => IInv'
<1> SUFFICES ASSUME IInv, [Next]_vars PROVE IInv'
  OBVIOUS
<1>1. CASE UNCHANGED vars
  <2>1. UNCHANGED <<device, challenge, prekey, deviceLock, req, redeemed, uploaded, handed>>
    BY <1>1 DEF vars
  <2>2. TypeOK'
    BY <2>1 DEF IInv, TypeOK
  <2> QED BY <2>1, <2>2, ChallengeFactsKept, DeviceFactsKept, PrekeyFactsKept, BundleLockedKept
          DEF IInv, ChallengeFacts, DeviceFacts, PrekeyFacts
<1>2. CASE Next
  BY <1>2, ChallengeStep, RegisterStep, ClashStep, ReburnStep, RevokeStep, UpdateStep,
     ConsumeStep, PickStep, ClaimStep, EndStep, SweepStep DEF Next
<1> QED BY <1>1, <1>2

\* The inductive invariant holds in every reachable state.
THEOREM Invariance == Spec => []IInv
BY InitInv, NextInv, PTL DEF Spec

\* Every reachable state of the device registry is well typed, and a locked row
\* belongs to a request that is working on it.
THEOREM DevicesTypeCorrect == Spec => []TypeOK
<1>1. IInv => TypeOK
  BY DEF IInv
<1> QED BY <1>1, Invariance, PTL

\* register_e2ee_device and update_e2ee_prekeys: a challenge pays once, whatever
\* clashes, crashes or is sent twice.
THEOREM ChallengesPayOnce == Spec => []ChallengePaysOnce
<1>1. IInv => ChallengePaysOnce
  BY DEF IInv
<1> QED BY <1>1, Invariance, PTL

\* register_e2ee_device and revoke_e2ee_device: an account has one device that
\* nobody approved.
THEOREM TrustHasOneRoot == Spec => []OneRootPerAccount
<1>1. IInv => OneRootPerAccount
  BY DEF IInv
<1> QED BY <1>1, Invariance, PTL

\* consume_prekey_bundle: a stored prekey is given out at most once, to any
\* number of concurrent requesters.
THEOREM PrekeysHandedOnce == Spec => []HandedOncePerUpload
<1>1. IInv => HandedOncePerUpload
  BY DEF IInv
<1> QED BY <1>1, Invariance, PTL

\* consume_prekey_bundle: under the row lock the conditional claim never misses,
\* so its retry loop never needs a second round.
THEOREM ClaimsNeverMiss == Spec => []PickStands
<1>1. IInv => PickStands
  BY SMTT(60) DEF IInv, BundleLocked, PickStands
<1> QED BY <1>1, Invariance, PTL

\* consume_prekey_bundle against revoke_e2ee_device: no bundle of a revoked
\* device is given out.
THEOREM BundlesAreTrusted == Spec => NoBundleOfRevoked
<1>1. IInv /\ [Next]_vars =>
        [\A r \in Reqs : (Claim(r) /\ handed' # handed) \/ Answer(r)
                           => device[req[r].dev].state = "trusted"]_vars
  BY DEF IInv, BundleLocked, Claim, Answer
<1> QED BY <1>1, Invariance, PTL DEF Spec, NoBundleOfRevoked

\* register_e2ee_device: trust goes back to the first device, on paid challenges.
THEOREM TrustAlwaysRooted == Spec => []TrustIsRooted
<1>1. OneRootPerAccount /\ ChallengePaysOnce => TrustIsRooted
  BY DEF TrustIsRooted
<1> QED BY <1>1, TrustHasOneRoot, ChallengesPayOnce, PTL

\* consume_prekey_bundle: bundles are single use and of trusted devices only.
THEOREM BundlesAreSound == Spec => BundlesAreSingleUse
BY PrekeysHandedOnce, ClaimsNeverMiss, BundlesAreTrusted, PTL DEF BundlesAreSingleUse
==============================================================================
