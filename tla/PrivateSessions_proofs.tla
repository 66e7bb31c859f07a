----------------------- MODULE PrivateSessions_proofs -----------------------
(***************************************************************************)
(* Proofs about PrivateSessions, for any accounts, conversations, devices  *)
(* and transactions.                                                       *)
(***************************************************************************)
EXTENDS PrivateSessions, FiniteSetTheorems, NaturalsInduction, WellFoundedInduction, TLAPS

\* A set of numbers has a least one, which is the one Min chooses.
LEMMA MinIsLeast ==
  ASSUME NEW S \in SUBSET Nat, S # {}
  PROVE  Min(S) \in S /\ \A y \in S : Min(S) <= y
<1>1. PICK x \in S : \A y \in S : ~(<<y, x>> \in OpToRel(<, Nat))
  BY NatLessThanWellFounded, WFMin, Zenon
<1>2. \A y \in S : ~(y < x)
  <2> SUFFICES ASSUME NEW y \in S, y < x PROVE FALSE
    OBVIOUS
  <2>1. <<y, x>> \in Nat \X Nat /\ <<y, x>>[1] = y /\ <<y, x>>[2] = x
    OBVIOUS
  <2>2. <<y, x>> \in OpToRel(<, Nat)
    BY <2>1, Zenon DEF OpToRel
  <2> QED  BY <1>1, <2>2
<1>3. \A y \in S : x <= y
  BY <1>2
<1> QED  BY <1>3, Zenon DEF Min

\* The parameters of a transaction that has ended.
LEMMA IdleIsTxn ==
  Idle \in Txn /\ Idle.pc = "idle" /\ Idle.op = "send" /\ Idle.user \in Users
<1>1. (CHOOSE u \in Users : TRUE) \in Users /\ (CHOOSE s \in Sessions : TRUE) \in Sessions
  BY PrivateAssumption
<1> QED  BY <1>1 DEF Idle, Txn, Pcs, SessionOps

\* Locks and requests.
LocksOK == AccountsInOrder /\ SessionsInOrder /\ RequestsAreSound

\* What is stored.
DataOK == MembersArePrivate /\ InactiveIsOut /\ EnvelopesAreSound /\ AudienceIsWhole /\ LeaversAreCutOff

DataTypes ==
    /\ user \in [Users -> {"active", "suspended", "deleted"}]
    /\ device \in [Devices -> {"none", "trusted", "revoked", "gone"}]
    /\ session \in [Sessions -> [mode : Modes, owner : Users, epoch : Nat]]
    /\ member \in [Sessions -> [Users -> [active : BOOLEAN, joined : Nat]]]
    /\ \A s \in Sessions, u \in Users :
          Joined(u, s) => 0 < member[s][u].joined /\ member[s][u].joined <= session[s].epoch
    /\ envelopes \in SUBSET Envelope

LockTypes ==
    /\ txn \in [Txns -> Txn]
    /\ accountLock \in [Users -> Txns \cup {NoTxn}]
    /\ sessionLock \in [Sessions -> Txns \cup {NoTxn}]
    /\ deviceLock \in [Devices -> Txns \cup {NoTxn}]

\* The parts of the invariant by what they are about.
LEMMA Parts ==
  IInv <=> DataTypes /\ LockTypes /\ LocksOK /\ DataOK /\ EnumerationCovers /\ CheckStillHolds
BY DEF IInv, DataTypes, LockTypes, TypeOK, LocksOK, DataOK

\* The same of the next state.
LEMMA PartsPrimed ==
  ASSUME DataTypes', LockTypes', LocksOK', DataOK', EnumerationCovers', CheckStillHolds'
  PROVE  IInv'
BY DEF IInv, DataTypes, LockTypes, TypeOK, LocksOK, DataOK

\* A step that leaves the database alone keeps what is said about it.
LEMMA DataFrame ==
  ASSUME DataTypes, DataOK, UNCHANGED db
  PROVE  DataTypes' /\ DataOK'
BY DEF DataTypes, DataOK, db, MembersArePrivate, InactiveIsOut, EnvelopesAreSound, AudienceIsWhole,
   LeaversAreCutOff, Joined

\* The accounts of a request are accounts.
LEMMA AccountsType ==
  ASSUME NEW x \in Txn
  PROVE  Accounts(x) \subseteq Users /\ Accounts(x) # {} /\ x.actor \in Accounts(x)
BY DEF Accounts, Txn

\* A transaction whose request and locks stay as they are keeps its order.
LEMMA OthersKeepAccounts ==
  ASSUME LockTypes, NEW o \in Txns, LocksAccounts(o), txn'[o] = txn[o],
         \A u \in Users : accountLock'[u] = o <=> accountLock[u] = o,
         \A u \in Users : accountLock[u] = o => user'[u] = user[u]
  PROVE  LocksAccounts(o)'
<1>1. Accounts(txn[o]) \subseteq Users /\ Accounts(txn[o])' = Accounts(txn[o])
  BY AccountsType DEF LockTypes, Accounts
<1>2. \A u \in Users : accountLock[u] = o /\ Lockable(txn[o], u) => Lockable(txn[o], u)'
  BY DEF Lockable
<1> QED  BY <1>1, <1>2 DEF LocksAccounts

\* The same of its conversations.
LEMMA OthersKeepSessions ==
  ASSUME LockTypes, NEW o \in Txns, LocksSessions(o), txn'[o] = txn[o],
         \A s \in Sessions : sessionLock'[s] = o <=> sessionLock[s] = o
  PROVE  LocksSessions(o)'
<1>1. txn[o].sess \in Sessions
  BY DEF LockTypes, Txn
<1> QED  BY <1>1 DEF LocksSessions

\* The end of a transaction disturbs no other, as long as it changed only the
\* accounts that it had locked.
LEMMA EndKeepsLocks ==
  ASSUME LockTypes, LocksOK, NEW t \in Txns, End(t),
         \A u \in Users : accountLock[u] \in Txns \ {t} => user'[u] = user[u]
  PROVE  LockTypes' /\ LocksOK'
<1> USE PrivateAssumption
<1>1. LockTypes'
  BY IdleIsTxn DEF End, LockTypes
<1>2. \A o \in Txns : txn'[o] = IF o = t THEN Idle ELSE txn[o]
  BY DEF End, LockTypes
<1>3. \A u \in Users, o \in Txns : accountLock'[u] = o <=> accountLock[u] = o /\ o # t
  BY DEF End, LockTypes
<1>4. \A s \in Sessions, o \in Txns : sessionLock'[s] = o <=> sessionLock[s] = o /\ o # t
  BY DEF End, LockTypes
<1>5. AccountsInOrder'
  <2> SUFFICES ASSUME NEW o \in Txns PROVE LocksAccounts(o)'
    BY DEF AccountsInOrder
  <2>1. CASE o = t
    BY <1>2, <1>3, <2>1, IdleIsTxn DEF LocksAccounts
  <2>2. CASE o # t
    <3>1. txn'[o] = txn[o]
      BY <1>2, <2>2
    <3>2. \A u \in Users : accountLock'[u] = o <=> accountLock[u] = o
      BY <1>3, <2>2
    <3>3. \A u \in Users : accountLock[u] = o => user'[u] = user[u]
      BY <2>2
    <3>4. LocksAccounts(o)
      BY DEF LocksOK, AccountsInOrder
    <3> QED  BY <3>1, <3>2, <3>3, <3>4, OthersKeepAccounts
  <2> QED  BY <2>1, <2>2
<1>6. SessionsInOrder'
  <2> SUFFICES ASSUME NEW o \in Txns PROVE LocksSessions(o)'
    BY DEF SessionsInOrder
  <2>1. CASE o = t
    BY <1>2, <1>4, <2>1, IdleIsTxn DEF LocksSessions
  <2>2. CASE o # t
    <3>1. txn'[o] = txn[o]
      BY <1>2, <2>2
    <3>2. \A s \in Sessions : sessionLock'[s] = o <=> sessionLock[s] = o
      BY <1>4, <2>2
    <3>3. LocksSessions(o)
      BY DEF LocksOK, SessionsInOrder
    <3> QED  BY <3>1, <3>2, <3>3, OthersKeepSessions
  <2> QED  BY <2>1, <2>2
<1>7. RequestsAreSound'
  BY <1>2, IdleIsTxn DEF LocksOK, RequestsAreSound, SoundRequest
<1> QED  BY <1>1, <1>5, <1>6, <1>7 DEF LocksOK

\* Nor does it make another's reads stale, as long as it lets into a
\* conversation only an account it has locked, changes no conversation that
\* another has locked, and takes a device from an account only in the company of
\* all the conversations of that account.
LEMMA EndKeepsReads ==
  ASSUME IInv, NEW t \in Txns, End(t),
         \A u \in Users, s \in Sessions : Joined(u, s)' => Joined(u, s) \/ accountLock[u] = t,
         \A s \in Sessions : sessionLock[s] \in Txns \ {t} =>
            session'[s] = session[s] /\ \A u \in Users : Joined(u, s) => Joined(u, s)',
         \A d \in Devices, s \in Sessions :
            device[d] = "trusted" /\ Joined(UserOf[d], s) =>
               device'[d] = "trusted" \/ sessionLock[s] = t
  PROVE  EnumerationCovers' /\ CheckStillHolds'
<1> USE PrivateAssumption
<1>0. LockTypes /\ LocksOK /\ EnumerationCovers /\ CheckStillHolds
  BY Parts
<1>2. \A o \in Txns : txn'[o] = IF o = t THEN Idle ELSE txn[o]
  BY <1>0 DEF End, LockTypes
<1>4. \A s \in Sessions, o \in Txns : sessionLock'[s] = o <=> sessionLock[s] = o /\ o # t
  BY <1>0 DEF End, LockTypes
<1>5. EnumerationCovers'
  <2> SUFFICES ASSUME NEW o \in Txns, NEW s \in Sessions,
                      txn'[o].pc = "sessions" /\ txn'[o].op \in Enumerating,
                      Joined(txn[o].user, s)'
               PROVE  s \in txn'[o].want \/ sessionLock'[s] = o
    BY DEF EnumerationCovers, Joined
  <2>1. o # t /\ txn'[o] = txn[o]
    BY <1>2, IdleIsTxn
  <2>2. txn[o].user \in Users /\ accountLock[txn[o].user] = o
    <3>1. txn[o].user \in Accounts(txn[o])
      BY <1>0, <2>1 DEF LocksOK, RequestsAreSound, SoundRequest, Accounts, AdminOps, Enumerating
    <3> QED  BY <1>0, <2>1, <3>1 DEF LocksOK, AccountsInOrder, LocksAccounts, LockTypes, Txn
  <2>3. Joined(txn[o].user, s)
    BY <2>1, <2>2
  <2> QED  BY <1>0, <1>4, <2>1, <2>3 DEF EnumerationCovers
<1>6. CheckStillHolds'
  <2> SUFFICES ASSUME NEW o \in Txns, txn'[o].pc = "insert"
               PROVE  /\ Joined(txn[o].actor, txn[o].sess)' /\ device'[txn'[o].dev] = "trusted"
                      /\ txn'[o].epoch = session'[txn'[o].sess].epoch
                      /\ txn'[o].to # NoDevice =>
                           device'[txn'[o].to] = "trusted" /\ Joined(UserOf[txn[o].to], txn[o].sess)'
    BY DEF CheckStillHolds, Joined
  <2> DEFINE x == txn[o]
  <2>1. o # t /\ txn'[o] = x /\ x.pc = "insert"
    BY <1>2, IdleIsTxn
  <2>2. x.sess \in Sessions /\ x.actor \in Users /\ x.to \in Devices \cup {NoDevice} /\
        x.dev \in Devices /\ x.actor = UserOf[x.dev] /\ sessionLock[x.sess] = o
    BY <1>0, <2>1 DEF LocksOK, RequestsAreSound, SoundRequest, SessionsInOrder, LocksSessions,
       LockTypes, Txn
  <2>3. /\ Joined(x.actor, x.sess) /\ device[x.dev] = "trusted"
        /\ x.epoch = session[x.sess].epoch
        /\ x.to # NoDevice => device[x.to] = "trusted" /\ Joined(UserOf[x.to], x.sess)
    BY <1>0, <2>1 DEF CheckStillHolds
  <2>4. session'[x.sess] = session[x.sess] /\ \A u \in Users : Joined(u, x.sess) => Joined(u, x.sess)'
    BY <2>1, <2>2
  <2>5. x.to # NoDevice => UserOf[x.to] \in Users /\ device'[x.to] = "trusted"
    BY <2>1, <2>2, <2>3, ZenonT(60)
  <2>6. device'[x.dev] = "trusted"
    BY <2>1, <2>2, <2>3, ZenonT(60)
  <2> HIDE DEF x
  <2> QED  BY <2>1, <2>2, <2>3, <2>4, <2>5, <2>6
<1> QED  BY <1>5, <1>6

-----------------------------------------------------------------------------
(* Steps that take locks.                                                  *)

\* A step of transaction t that changes neither the database nor the request
\* keeps the reads of the other transactions.
LEMMA OthersKeepReads ==
  ASSUME IInv, NEW t \in Txns, NEW y \in Txn, txn' = [txn EXCEPT ![t] = y], UNCHANGED db,
         \A s \in Sessions, o \in Txns \ {t} : sessionLock'[s] = o <=> sessionLock[s] = o,
         y.pc = "sessions" /\ y.op \in Enumerating =>
            \A s \in Sessions : Joined(y.user, s) => s \in y.want \/ sessionLock'[s] = t,
         y.pc = "insert" =>
              /\ Joined(y.actor, y.sess) /\ device[y.dev] = "trusted"
              /\ y.epoch = session[y.sess].epoch
              /\ y.to # NoDevice => device[y.to] = "trusted" /\ Joined(UserOf[y.to], y.sess)
  PROVE  EnumerationCovers' /\ CheckStillHolds'
<1>0. LockTypes /\ EnumerationCovers /\ CheckStillHolds
  BY Parts
<1>1. \A o \in Txns : txn'[o] = IF o = t THEN y ELSE txn[o]
  BY <1>0 DEF LockTypes
<1>2. EnumerationCovers'
  <2> SUFFICES ASSUME NEW o \in Txns, NEW s \in Sessions,
                      txn'[o].pc = "sessions" /\ txn'[o].op \in Enumerating,
                      Joined(txn[o].user, s)'
               PROVE  s \in txn'[o].want \/ sessionLock'[s] = o
    BY SMTT(60) DEF EnumerationCovers, Joined
  <2> QED  BY <1>0, <1>1 DEF EnumerationCovers, Joined, db
<1>3. CheckStillHolds'
  BY <1>0, <1>1 DEF CheckStillHolds, Joined, db
<1> QED  BY <1>2, <1>3

\* Nor does it disturb their locks.
LEMMA OthersKeepLocks ==
  ASSUME IInv, NEW t \in Txns, NEW y \in Txn, txn' = [txn EXCEPT ![t] = y], user' = user,
         \A u \in Users, o \in Txns \ {t} : accountLock'[u] = o <=> accountLock[u] = o,
         \A s \in Sessions, o \in Txns \ {t} : sessionLock'[s] = o <=> sessionLock[s] = o,
         LocksAccounts(t)', LocksSessions(t)', SoundRequest(t)'
  PROVE  LocksOK'
<1>0. LockTypes /\ AccountsInOrder /\ SessionsInOrder /\ RequestsAreSound
  BY Parts DEF LocksOK
<1> SUFFICES ASSUME NEW o \in Txns, o # t
             PROVE  LocksAccounts(o)' /\ LocksSessions(o)' /\ SoundRequest(o)'
  BY DEF LocksOK, AccountsInOrder, SessionsInOrder, RequestsAreSound
<1>1. txn'[o] = txn[o]
  BY <1>0 DEF LockTypes
<1>2. LocksAccounts(o) /\ LocksSessions(o) /\ SoundRequest(o)
  BY <1>0 DEF AccountsInOrder, SessionsInOrder, RequestsAreSound
<1>3. LocksAccounts(o)'
  BY <1>0, <1>1, <1>2, OthersKeepAccounts
<1>4. LocksSessions(o)'
  BY <1>0, <1>1, <1>2, OthersKeepSessions
<1>5. SoundRequest(o)'
  BY <1>1, <1>2 DEF SoundRequest
<1> QED  BY <1>3, <1>4, <1>5

\* A request begins: it holds no lock and wants its accounts.
LEMMA BeginKeeps ==
  ASSUME IInv, NEW t \in Txns, NEW x \in Txn, Begin(t, x),
         x.op = "send" => x.dev \in Devices /\ x.actor = UserOf[x.dev],
         x.op = "revoke" => x.dev \in Devices /\ x.actor = UserOf[x.dev] /\ x.user = x.actor
  PROVE  IInv'
<1> DEFINE y == [x EXCEPT !.pc = "accounts", !.want = Accounts(x)]
<1>0. DataTypes /\ LockTypes /\ LocksAccounts(t) /\ LocksSessions(t) /\ DataOK
  BY Parts DEF LocksOK, AccountsInOrder, SessionsInOrder
<1>1. y \in Txn /\ y.pc = "accounts" /\ y.want = Accounts(x) /\ y.op = x.op /\ y.dev = x.dev /\
      y.actor = x.actor /\ y.user = x.user
  <2>1. Accounts(x) \subseteq Nat
    BY AccountsType, PrivateAssumption
  <2> QED  BY <2>1 DEF Txn, Pcs
<1>2. Accounts(y) = Accounts(x)
  BY <1>1 DEF Accounts
<1> HIDE DEF y
<1>3. txn' = [txn EXCEPT ![t] = y] /\ txn[t].pc = "idle" /\ UNCHANGED <<db, locks>>
  BY DEF Begin, y
<1>4. txn'[t] = y
  BY <1>0, <1>3 DEF LockTypes
<1>5. LockTypes'
  BY <1>0, <1>1, <1>3 DEF LockTypes, locks
<1>6. \A u \in Users : accountLock'[u] # t
  BY <1>0, <1>3 DEF LocksAccounts, locks
<1>7. LocksAccounts(t)'
  <2>1. Accounts(x) # {} /\ Accounts(x) \subseteq Users
    BY AccountsType
  <2>2. Accounts(txn[t])' = Accounts(x)
    BY <1>2, <1>4 DEF Accounts
  <2> QED  BY <1>1, <1>4, <1>6, <2>1, <2>2 DEF LocksAccounts
<1>8. LocksSessions(t)'
  BY <1>0, <1>1, <1>3, <1>4 DEF LocksSessions, locks
<1>9. SoundRequest(t)'
  BY <1>1, <1>4 DEF SoundRequest
<1>10. LocksOK'
  BY <1>1, <1>3, <1>7, <1>8, <1>9, OthersKeepLocks DEF db, locks
<1>11. EnumerationCovers' /\ CheckStillHolds'
  BY <1>1, <1>3, OthersKeepReads DEF locks
<1>12. DataTypes' /\ DataOK'
  BY <1>0, <1>3, DataFrame
<1> QED  BY <1>5, <1>10, <1>11, <1>12, PartsPrimed

\* The next account is locked; after the last, the request goes on.
LEMMA LockAccountKeeps ==
  ASSUME IInv, NEW t \in Txns, LockAccount(t)
  PROVE  IInv'
<1> DEFINE x == txn[t]
           u == NextAccount(x)
           y == IF x.want = {u} THEN AccountsLocked(x) ELSE [x EXCEPT !.want = @ \ {u}]
<1> USE PrivateAssumption
<1>0. DataTypes /\ LockTypes /\ LocksAccounts(t) /\ LocksSessions(t) /\ SoundRequest(t) /\ DataOK
  BY Parts DEF LocksOK, AccountsInOrder, SessionsInOrder, RequestsAreSound
<1>1. x \in Txn /\ Accounts(x) \subseteq Users
  BY <1>0, AccountsType DEF LockTypes
<1>2. /\ x.pc = "accounts" /\ accountLock[u] = NoTxn /\ Lockable(x, u)
      /\ accountLock' = [accountLock EXCEPT ![u] = t]
      /\ txn' = [txn EXCEPT ![t] = y]
      /\ UNCHANGED <<db, sessionLock, deviceLock>>
  BY DEF LockAccount
<1>3. x.want # {} /\ x.want \subseteq Accounts(x)
  BY <1>0, <1>2 DEF LocksAccounts
<1>4. u \in x.want /\ u \in Users /\ x.want \subseteq Users /\ \A w \in x.want : u <= w
  BY <1>1, <1>3, MinIsLeast DEF NextAccount
<1>5. /\ y \in Txn /\ y.op = x.op /\ y.actor = x.actor /\ y.user = x.user /\ y.dev = x.dev
      /\ y.sess = x.sess
      /\ x.want # {u} => y.pc = "accounts" /\ y.want = x.want \ {u}
      /\ x.want = {u} =>
           \/ y.pc = "device" /\ x.op = "revoke"
           \/ y.pc = "sessions" /\ x.op \in SessionOps /\ y.want = {x.sess}
           \/ y.pc = "sessions" /\ x.op = "reactivate" /\ y.want = {}
           \/ y.pc = "enumerate" /\ x.op \in Enumerating
  <2>1. x.sess \in Nat /\ x.want \in SUBSET Nat
    BY <1>1 DEF Txn
  <2>2. CASE x.want # {u}
    <3>1. y = [x EXCEPT !.want = @ \ {u}]
      BY <2>2
    <3> QED  BY <1>1, <1>2, <2>1, <2>2, <3>1 DEF Txn
  <2>3. CASE x.want = {u}
    <3>1. y = AccountsLocked(x)
      BY <2>3
    <3>2. CASE x.op = "revoke"
      BY <1>1, <2>3, <3>1, <3>2 DEF AccountsLocked, Txn, Pcs
    <3>3. CASE x.op \in SessionOps
      BY <1>1, <2>1, <2>3, <3>1, <3>3, ZenonT(60) DEF AccountsLocked, Txn, Pcs, SessionOps
    <3>4. CASE x.op = "reactivate"
      BY <1>1, <2>3, <3>1, <3>4 DEF AccountsLocked, Txn, Pcs, SessionOps
    <3>5. CASE x.op \in {"suspend", "delete_user"}
      BY <1>1, <2>3, <3>1, <3>5 DEF AccountsLocked, Txn, Pcs, SessionOps, Enumerating
    <3> QED  BY <1>1, <3>2, <3>3, <3>4, <3>5 DEF Txn, AdminOps
  <2> QED  BY <2>2, <2>3
<1>6. Accounts(y) = Accounts(x)
  BY <1>5 DEF Accounts
<1> HIDE DEF u, y
<1>7. txn'[t] = y
  BY <1>0, <1>2 DEF LockTypes
<1>8. \A v \in Users : accountLock'[v] = IF v = u THEN t ELSE accountLock[v]
  BY <1>0, <1>2, <1>4 DEF LockTypes
<1>9. LockTypes'
  BY <1>0, <1>2, <1>5 DEF LockTypes
<1>10. LocksAccounts(t)'
  <2>1. Accounts(txn[t])' = Accounts(x)
    BY <1>6, <1>7 DEF Accounts
  <2>2. \A v \in Users : accountLock[v] = t =>
           v \in Accounts(x) /\ Lockable(x, v) /\ \A w \in x.want : v < w
    BY <1>0, <1>2 DEF LocksAccounts
  <2>3. \A v \in Accounts(x) \ x.want : accountLock[v] = t
    BY <1>0, <1>2 DEF LocksAccounts
  <2>4. \A v \in Users : Lockable(x, v) => Lockable(txn[t], v)'
    BY <1>2, <1>5, <1>7 DEF Lockable, db
  <2>5. \A w \in x.want : w # u => u < w
    <3> SUFFICES ASSUME NEW w \in x.want, w # u PROVE u < w
      OBVIOUS
    <3>1. u \in Nat /\ w \in Nat /\ u <= w
      BY <1>4
    <3> QED  BY <3>1
  <2>6. \A v \in Accounts(x) \ (x.want \ {u}) : accountLock'[v] = t
    <3> SUFFICES ASSUME NEW v \in Accounts(x), v \notin x.want \ {u} PROVE accountLock'[v] = t
      OBVIOUS
    <3>1. v \in Users
      BY <1>1
    <3> QED  BY <1>8, <2>3, <3>1
  <2>7. \A v \in Users : accountLock'[v] = t =>
           v \in Accounts(x) /\ Lockable(x, v) /\ \A w \in x.want \ {u} : v < w
    BY <1>2, <1>3, <1>4, <1>8, <2>2, <2>5
  <2>8. CASE x.want = {u}
    BY <1>5, <1>7, <2>1, <2>4, <2>6, <2>7, <2>8 DEF LocksAccounts
  <2>9. CASE x.want # {u}
    <3>1. y.want = x.want \ {u} /\ y.pc = "accounts" /\ y.want # {} /\ y.want \subseteq Accounts(x)
      BY <1>3, <1>4, <1>5, <2>9
    <3> QED  BY <1>7, <2>1, <2>4, <2>6, <2>7, <3>1 DEF LocksAccounts
  <2> QED  BY <2>8, <2>9
<1>11. LocksSessions(t)'
  <2>1. \A s \in Sessions : sessionLock'[s] # t
    BY <1>0, <1>2 DEF LocksSessions
  <2>2. x.sess \in Sessions
    BY <1>1 DEF Txn
  <2> QED  BY <1>5, <1>7, <2>1, <2>2 DEF LocksSessions, SessionOps
<1>12. SoundRequest(t)'
  BY <1>0, <1>2, <1>5, <1>7 DEF SoundRequest, SessionOps
<1>13. LocksOK'
  <2>1. \A v \in Users, o \in Txns \ {t} : accountLock'[v] = o <=> accountLock[v] = o
    BY <1>2, <1>8
  <2> QED  BY <1>2, <1>5, <1>10, <1>11, <1>12, <2>1, OthersKeepLocks DEF db
<1>14. EnumerationCovers' /\ CheckStillHolds'
  BY <1>2, <1>5, OthersKeepReads DEF Enumerating, SessionOps
<1>15. DataTypes' /\ DataOK'
  BY <1>0, <1>2, DataFrame
<1> QED  BY <1>9, <1>13, <1>14, <1>15, PartsPrimed

\* Once the accounts are locked, a transaction goes on with the same request.
LEMMA LaterStepKeepsAccounts ==
  ASSUME NEW t \in Txns, LocksAccounts(t), SoundRequest(t), txn[t].pc \notin {"idle", "accounts"},
         txn'[t].pc \notin {"idle", "accounts", "device"},
         txn'[t].pc = "enumerate" => txn[t].pc = "device",
         txn'[t].op = txn[t].op, txn'[t].actor = txn[t].actor, txn'[t].user = txn[t].user,
         txn'[t].dev = txn[t].dev, user' = user, accountLock' = accountLock
  PROVE  LocksAccounts(t)' /\ SoundRequest(t)'
<1>1. Accounts(txn[t])' = Accounts(txn[t])
  BY DEF Accounts
<1>2. \A u \in Users : Lockable(txn[t], u) => Lockable(txn[t], u)'
  BY DEF Lockable
<1> QED  BY <1>1, <1>2 DEF LocksAccounts, SoundRequest, Enumerating

\* The device to revoke is locked.
LEMMA LockDeviceKeeps ==
  ASSUME IInv, NEW t \in Txns, LockDevice(t)
  PROVE  IInv'
<1> DEFINE x == txn[t]
           y == [x EXCEPT !.pc = "enumerate"]
<1>0. DataTypes /\ LockTypes /\ LocksAccounts(t) /\ LocksSessions(t) /\ SoundRequest(t) /\ DataOK
  BY Parts DEF LocksOK, AccountsInOrder, SessionsInOrder, RequestsAreSound
<1>1. x.pc = "device" /\ txn' = [txn EXCEPT ![t] = y] /\ UNCHANGED <<db, accountLock, sessionLock>>
  BY <1>0 DEF LockDevice, LockTypes
<1>2. /\ y \in Txn /\ y.pc = "enumerate" /\ y.op = x.op /\ y.actor = x.actor
      /\ y.user = x.user /\ y.dev = x.dev
  BY <1>0 DEF LockTypes, Txn, Pcs
<1> HIDE DEF y
<1>3. txn'[t] = y
  BY <1>0, <1>1 DEF LockTypes
<1>4. LockTypes'
  BY <1>0, <1>1, <1>2 DEF LockTypes, LockDevice
<1>5. LocksAccounts(t)' /\ SoundRequest(t)'
  BY <1>0, <1>1, <1>2, <1>3, LaterStepKeepsAccounts DEF db
<1>6. LocksSessions(t)'
  BY <1>0, <1>1, <1>2, <1>3 DEF LocksSessions
<1>7. LocksOK'
  BY <1>1, <1>2, <1>5, <1>6, OthersKeepLocks DEF db
<1>8. EnumerationCovers' /\ CheckStillHolds'
  BY <1>1, <1>2, OthersKeepReads
<1>9. DataTypes' /\ DataOK'
  BY <1>0, <1>1, DataFrame
<1> QED  BY <1>4, <1>7, <1>8, <1>9, PartsPrimed

\* The conversations of the account are read.
LEMMA EnumerateKeeps ==
  ASSUME IInv, NEW t \in Txns, Enumerate(t)
  PROVE  IInv'
<1> DEFINE x == txn[t]
           joined == {s \in Sessions : Joined(x.user, s)}
           owned == {s \in Sessions : Exists(s) /\ session[s].owner = x.user}
           W == joined \cup (IF x.op = "delete_user" THEN owned ELSE {})
           y == [x EXCEPT !.pc = "sessions", !.want = W]
<1>0. DataTypes /\ LockTypes /\ LocksAccounts(t) /\ LocksSessions(t) /\ SoundRequest(t) /\ DataOK
  BY Parts DEF LocksOK, AccountsInOrder, SessionsInOrder, RequestsAreSound
<1>1. x.pc = "enumerate" /\ txn' = [txn EXCEPT ![t] = y] /\ UNCHANGED <<db, locks>>
  BY <1>0 DEF Enumerate, LockTypes
<1>2. W \subseteq Sessions /\ W \in SUBSET Nat /\ \A s \in Sessions : Joined(x.user, s) => s \in W
  BY PrivateAssumption
<1> HIDE DEF W
<1>3. /\ y \in Txn /\ y.pc = "sessions" /\ y.want = W /\ y.op = x.op /\ y.actor = x.actor
      /\ y.user = x.user /\ y.dev = x.dev
  BY <1>0, <1>2, ZenonT(60) DEF LockTypes, Txn, Pcs
<1> HIDE DEF y
<1>4. txn'[t] = y
  BY <1>0, <1>1 DEF LockTypes
<1>5. LockTypes'
  BY <1>0, <1>1, <1>3 DEF LockTypes, locks
<1>6. LocksAccounts(t)' /\ SoundRequest(t)'
  BY <1>0, <1>1, <1>3, <1>4, LaterStepKeepsAccounts DEF db, locks
<1>7. LocksSessions(t)'
  <2>1. \A s \in Sessions : sessionLock'[s] # t
    BY <1>0, <1>1 DEF LocksSessions, locks
  <2>2. y.op \notin SessionOps
    BY <1>0, <1>1, <1>3 DEF SoundRequest, Enumerating, SessionOps
  <2> QED  BY <1>2, <1>3, <1>4, <2>1, <2>2 DEF LocksSessions
<1>8. LocksOK'
  BY <1>1, <1>3, <1>6, <1>7, OthersKeepLocks DEF db, locks
<1>9. EnumerationCovers' /\ CheckStillHolds'
  BY <1>1, <1>2, <1>3, OthersKeepReads DEF locks
<1>10. DataTypes' /\ DataOK'
  BY <1>0, <1>1, DataFrame
<1> QED  BY <1>5, <1>8, <1>9, <1>10, PartsPrimed

\* The next conversation is locked.
LEMMA LockSessionKeeps ==
  ASSUME IInv, NEW t \in Txns, LockSession(t)
  PROVE  IInv'
<1> DEFINE x == txn[t]
           s == Min(x.want)
           y == [x EXCEPT !.want = @ \ {s}]
<1> USE PrivateAssumption
<1>0. DataTypes /\ LockTypes /\ LocksAccounts(t) /\ LocksSessions(t) /\ SoundRequest(t) /\ DataOK
  BY Parts DEF LocksOK, AccountsInOrder, SessionsInOrder, RequestsAreSound
<1>1. /\ x.pc = "sessions" /\ x.want # {} /\ sessionLock[s] = NoTxn
      /\ sessionLock' = [sessionLock EXCEPT ![s] = t]
      /\ txn' = [txn EXCEPT ![t] = y] /\ UNCHANGED <<db, accountLock, deviceLock>>
  BY <1>0 DEF LockSession, LockTypes
<1>2. x.want \subseteq Sessions /\ x.want \in SUBSET Nat
  BY <1>0, <1>1 DEF LocksSessions
<1>3. s \in x.want /\ s \in Sessions /\ \A w \in x.want : s <= w
  BY <1>1, <1>2, MinIsLeast
<1>4. /\ y \in Txn /\ y.pc = "sessions" /\ y.want = x.want \ {s} /\ y.op = x.op
      /\ y.actor = x.actor /\ y.user = x.user /\ y.dev = x.dev /\ y.sess = x.sess
  <2>1. x \in Txn /\ x.want \ {s} \in SUBSET Nat
    BY <1>0, <1>2 DEF LockTypes
  <2> HIDE DEF s
  <2> QED  BY <1>1, <2>1 DEF Txn
<1> HIDE DEF y, s
<1>5. txn'[t] = y
  BY <1>0, <1>1 DEF LockTypes
<1>6. \A r \in Sessions : sessionLock'[r] = IF r = s THEN t ELSE sessionLock[r]
  BY <1>0, <1>1, <1>3 DEF LockTypes
<1>7. LockTypes'
  BY <1>0, <1>1, <1>4 DEF LockTypes
<1>8. LocksAccounts(t)' /\ SoundRequest(t)'
  BY <1>0, <1>1, <1>4, <1>5, LaterStepKeepsAccounts DEF db
<1>9. LocksSessions(t)'
  <2>1. \A w \in x.want \ {s} : s < w
    <3> SUFFICES ASSUME NEW w \in x.want, w # s PROVE s < w
      OBVIOUS
    <3>1. s \in Nat /\ w \in Nat /\ s <= w
      BY <1>2, <1>3
    <3> QED  BY <3>1
  <2>2. \A r \in Sessions : sessionLock'[r] = t => \A w \in x.want \ {s} : r < w
    BY <1>0, <1>1, <1>6, <2>1 DEF LocksSessions
  <2>3. x.op \in SessionOps => x.want \ {s} = {} /\ sessionLock'[x.sess] = t
    <3>1. x.sess \in Sessions
      BY <1>0 DEF LockTypes, Txn
    <3>2. x.op \in SessionOps => x.want = {x.sess}
      BY <1>0, <1>1 DEF LocksSessions
    <3> QED  BY <1>3, <1>6, <3>1, <3>2
  <2> QED  BY <1>2, <1>4, <1>5, <2>2, <2>3 DEF LocksSessions
<1>10. \A r \in Sessions, o \in Txns \ {t} : sessionLock'[r] = o <=> sessionLock[r] = o
  BY <1>1, <1>6
<1>11. LocksOK'
  BY <1>1, <1>4, <1>8, <1>9, <1>10, OthersKeepLocks DEF db
<1>12. EnumerationCovers' /\ CheckStillHolds'
  <2>1. x.op \in Enumerating =>
          \A r \in Sessions : Joined(x.user, r) => r \in x.want \ {s} \/ sessionLock'[r] = t
    BY <1>1, <1>6 DEF IInv, EnumerationCovers
  <2> QED  BY <1>1, <1>4, <1>10, <2>1, OthersKeepReads, ZenonT(60)
<1>13. DataTypes' /\ DataOK'
  BY <1>0, <1>1, DataFrame
<1> QED  BY <1>7, <1>11, <1>12, <1>13, PartsPrimed

\* A conversation deleted meanwhile is passed over.
LEMMA SkipSessionKeeps ==
  ASSUME IInv, NEW t \in Txns, SkipSession(t)
  PROVE  IInv'
<1> DEFINE x == txn[t]
           s == Min(x.want)
           y == [x EXCEPT !.want = @ \ {s}]
<1>0. DataTypes /\ LockTypes /\ LocksAccounts(t) /\ LocksSessions(t) /\ SoundRequest(t) /\ DataOK
  BY Parts DEF LocksOK, AccountsInOrder, SessionsInOrder, RequestsAreSound
<1>1. /\ x.pc = "sessions" /\ x.op \notin SessionOps /\ ~Exists(s)
      /\ txn' = [txn EXCEPT ![t] = y] /\ UNCHANGED <<db, locks>>
  BY <1>0 DEF SkipSession, LockTypes
<1>2. /\ y \in Txn /\ y.pc = "sessions" /\ y.want = x.want \ {s} /\ y.op = x.op
      /\ y.actor = x.actor /\ y.user = x.user /\ y.dev = x.dev
  <2>1. x \in Txn /\ x.want \ {s} \in SUBSET Nat
    BY <1>0 DEF LockTypes, Txn
  <2> HIDE DEF s
  <2> QED  BY <1>1, <2>1 DEF Txn
<1> HIDE DEF y, s
<1>3. txn'[t] = y
  BY <1>0, <1>1 DEF LockTypes
<1>4. LockTypes'
  BY <1>0, <1>1, <1>2 DEF LockTypes, locks
<1>5. LocksAccounts(t)' /\ SoundRequest(t)'
  BY <1>0, <1>1, <1>2, <1>3, LaterStepKeepsAccounts DEF db, locks
<1>6. LocksSessions(t)'
  BY <1>0, <1>1, <1>2, <1>3 DEF LocksSessions, locks
<1>7. LocksOK'
  BY <1>1, <1>2, <1>5, <1>6, OthersKeepLocks DEF db, locks
<1>8. EnumerationCovers' /\ CheckStillHolds'
  <2>1. x.op \in Enumerating =>
          \A r \in Sessions : Joined(x.user, r) => r \in x.want \/ sessionLock'[r] = t
    BY <1>1 DEF IInv, EnumerationCovers, locks
  <2>2. \A r \in Sessions : Joined(x.user, r) => r # s
    BY <1>1 DEF Joined, Exists
  <2> QED  BY <1>1, <1>2, <2>1, <2>2, OthersKeepReads DEF locks
<1>9. DataTypes' /\ DataOK'
  BY <1>0, <1>1, DataFrame
<1> QED  BY <1>4, <1>7, <1>8, <1>9, PartsPrimed

\* An envelope is checked.
LEMMA CheckEnvelopeKeeps ==
  ASSUME IInv, NEW t \in Txns, CheckEnvelope(t)
  PROVE  IInv'
<1> DEFINE x == txn[t]
           y == [x EXCEPT !.pc = "insert"]
<1>0. DataTypes /\ LockTypes /\ LocksAccounts(t) /\ LocksSessions(t) /\ SoundRequest(t) /\ DataOK
  BY Parts DEF LocksOK, AccountsInOrder, SessionsInOrder, RequestsAreSound
<1>1. /\ x.pc = "sessions" /\ x.want = {} /\ x.op = "send"
      /\ txn' = [txn EXCEPT ![t] = y] /\ UNCHANGED <<db, locks>>
  BY <1>0 DEF CheckEnvelope, Ready, LockTypes
<1>2. /\ y \in Txn /\ y.pc = "insert" /\ y.want = {} /\ y.op = "send" /\ y.actor = x.actor
      /\ y.user = x.user /\ y.dev = x.dev /\ y.to = x.to /\ y.epoch = x.epoch /\ y.sess = x.sess
  BY <1>0, <1>1, SMTT(60) DEF LockTypes, Txn, Pcs
<1> HIDE DEF y
<1>3. txn'[t] = y
  BY <1>0, <1>1 DEF LockTypes
<1>4. LockTypes'
  BY <1>0, <1>1, <1>2 DEF LockTypes, locks
<1>5. LocksAccounts(t)' /\ SoundRequest(t)'
  BY <1>0, <1>1, <1>2, <1>3, LaterStepKeepsAccounts DEF db, locks
<1>6. LocksSessions(t)'
  BY <1>0, <1>1, <1>2, <1>3 DEF LocksSessions, locks, SessionOps
<1>7. LocksOK'
  BY <1>1, <1>2, <1>5, <1>6, OthersKeepLocks DEF db, locks
<1>8. EnumerationCovers' /\ CheckStillHolds'
  <2>1. /\ Joined(x.actor, x.sess) /\ device[x.dev] = "trusted" /\ x.epoch = session[x.sess].epoch
        /\ x.to # NoDevice => device[x.to] = "trusted" /\ Joined(UserOf[x.to], x.sess)
    BY DEF CheckEnvelope, EpochAccepted
  <2> QED  BY <1>1, <1>2, <2>1, OthersKeepReads DEF locks
<1>9. DataTypes' /\ DataOK'
  BY <1>0, <1>1, DataFrame
<1> QED  BY <1>4, <1>7, <1>8, <1>9, PartsPrimed

\* A transaction is given up.
LEMMA AbortKeeps ==
  ASSUME IInv, NEW t \in Txns, Abort(t)
  PROVE  IInv'
<1>0. DataTypes /\ LockTypes /\ LocksOK /\ DataOK
  BY Parts
<1>1. End(t) /\ UNCHANGED db
  BY DEF Abort
<1>2. LockTypes' /\ LocksOK'
  BY <1>0, <1>1, EndKeepsLocks DEF db
<1>3. EnumerationCovers' /\ CheckStillHolds'
  BY <1>1, EndKeepsReads DEF db, Joined
<1>4. DataTypes' /\ DataOK'
  BY <1>0, <1>1, DataFrame
<1> QED  BY <1>2, <1>3, <1>4, PartsPrimed

-----------------------------------------------------------------------------
(* Steps that change the database.                                         *)

\* A transaction that has come to its commit holds its accounts and, when its
\* operation is about one conversation, that conversation.
LEMMA ReadyHolds ==
  ASSUME IInv, NEW t \in Txns, NEW op, Ready(t, op)
  PROVE  /\ txn[t] \in Txn /\ txn[t].op = op
         /\ accountLock[txn[t].actor] = t
         /\ op \in AdminOps \cup {"add", "revoke"} => accountLock[txn[t].user] = t
         /\ op \in SessionOps => sessionLock[txn[t].sess] = t
         /\ op \in Enumerating =>
               \A s \in Sessions : Joined(txn[t].user, s) => sessionLock[s] = t
<1>0. LockTypes /\ LocksAccounts(t) /\ LocksSessions(t) /\ SoundRequest(t)
  BY Parts DEF LocksOK, AccountsInOrder, SessionsInOrder, RequestsAreSound
<1>1. txn[t] \in Txn /\ txn[t].pc = "sessions" /\ txn[t].want = {} /\ txn[t].op = op
  BY <1>0 DEF LockTypes, Ready
<1>2. \A u \in Accounts(txn[t]) : accountLock[u] = t
  BY <1>0, <1>1 DEF LocksAccounts
<1>3. op \in AdminOps \cup {"add", "revoke"} => txn[t].user \in Accounts(txn[t])
  BY <1>0, <1>1 DEF Accounts, SoundRequest
<1>4. op \in SessionOps => sessionLock[txn[t].sess] = t
  BY <1>0, <1>1 DEF LocksSessions
<1>5. op \in Enumerating => \A s \in Sessions : Joined(txn[t].user, s) => sessionLock[s] = t
  BY <1>1 DEF IInv, EnumerationCovers
<1> QED  BY <1>1, <1>2, <1>3, <1>4, <1>5, AccountsType

SessionRows == [Sessions -> [mode : Modes, owner : Users, epoch : Nat]]

\* What Advance changes.
LEMMA AdvanceType ==
  ASSUME session \in SessionRows, NEW S
  PROVE  /\ Advance(S) \in SessionRows
         /\ \A r \in Sessions :
              /\ Advance(S)[r].mode = session[r].mode
              /\ r \in S => Advance(S)[r].epoch = session[r].epoch + 1
              /\ r \notin S => Advance(S)[r] = session[r]
<1>1. \A r \in Sessions : session[r] \in [mode : Modes, owner : Users, epoch : Nat]
  BY DEF SessionRows
<1>2. \A r \in Sessions : Advance(S)[r] = IF r \in S THEN [session[r] EXCEPT !.epoch = @ + 1] ELSE session[r]
  BY DEF Advance
<1>3. \A r \in Sessions : Advance(S)[r] \in [mode : Modes, owner : Users, epoch : Nat]
  <2>1. ASSUME NEW row \in [mode : Modes, owner : Users, epoch : Nat]
        PROVE  [row EXCEPT !.epoch = @ + 1] \in [mode : Modes, owner : Users, epoch : Nat]
    <3>1. row.epoch + 1 \in Nat
      OBVIOUS
    <3> QED  BY <3>1
  <2> QED  BY <1>1, <1>2, <2>1
<1>4. Advance(S) \in SessionRows
  BY <1>3 DEF Advance, SessionRows
<1> QED  BY <1>1, <1>2, <1>4

Members == [Users -> [active : BOOLEAN, joined : Nat]]

\* One member's row of one conversation is written.
LEMMA OneMember ==
  ASSUME member \in [Sessions -> [Users -> [active : BOOLEAN, joined : Nat]]],
         NEW s \in Sessions, NEW u \in Users, NEW row \in [active : BOOLEAN, joined : Nat],
         member' = [member EXCEPT ![s][u] = row]
  PROVE  /\ member' \in [Sessions -> [Users -> [active : BOOLEAN, joined : Nat]]]
         /\ member'[s][u] = row
         /\ \A r \in Sessions, v \in Users : ~(r = s /\ v = u) => member'[r][v] = member[r][v]
<1> DEFINE ms == [member[s] EXCEPT ![u] = row]
<1>1. member[s] \in Members /\ member' = [member EXCEPT ![s] = ms]
  BY DEF Members
<1>2. ms \in Members /\ ms[u] = row /\ \A v \in Users : v # u => ms[v] = member[s][v]
  BY <1>1 DEF Members
<1> HIDE DEF ms
<1>3. member \in [Sessions -> Members]
  BY DEF Members
<1>4. member' \in [Sessions -> Members] /\ member'[s] = ms /\ \A r \in Sessions : r # s => member'[r] = member[r]
  BY <1>1, <1>2, <1>3
<1> QED  BY <1>2, <1>4 DEF Members

\* A conversation moves on to a later epoch whenever one of its members leaves or
\* loses a device, and whoever comes in starts in an epoch that no envelope has
\* reached: then the envelopes that are left stay sound.
LEMMA EnvelopesStaySound ==
  ASSUME DataTypes, DataTypes', DataOK, envelopes' \subseteq envelopes,
         \A e \in envelopes' :
            /\ session'[e.sess].mode = "private"
            /\ session[e.sess].epoch <= session'[e.sess].epoch
            /\ \A v \in Users : Joined(v, e.sess)' =>
                 \/ Joined(v, e.sess) /\ member'[e.sess][v].joined = member[e.sess][v].joined
                 \/ session[e.sess].epoch < member'[e.sess][v].joined
            /\ session'[e.sess].epoch = session[e.sess].epoch =>
                 /\ \A v \in Users : Joined(v, e.sess) => Joined(v, e.sess)'
                 /\ \A d \in Devices : device[d] = "trusted" /\ Joined(UserOf[d], e.sess) =>
                      device'[d] = "trusted"
  PROVE  EnvelopesAreSound' /\ AudienceIsWhole' /\ LeaversAreCutOff'
<1>0. ASSUME NEW e \in envelopes'
      PROVE  /\ e \in envelopes /\ e.sess \in Sessions /\ e.epoch \in Nat
             /\ e.audience \in SUBSET Users /\ e.devices \in SUBSET Devices
             /\ session[e.sess].epoch \in Nat /\ session'[e.sess].epoch \in Nat
             /\ session[e.sess].mode = "private" /\ e.epoch <= session[e.sess].epoch
             /\ \A d \in e.devices : UserOf[d] \in e.audience
  <2>1. e \in envelopes /\ e \in Envelope
    BY DEF DataTypes
  <2>2. e.sess \in Sessions /\ e.epoch \in Nat /\ e.audience \in SUBSET Users /\ e.devices \in SUBSET Devices
    BY <2>1 DEF Envelope
  <2>3. session[e.sess].epoch \in Nat /\ session'[e.sess].epoch \in Nat
    BY <2>2 DEF DataTypes
  <2> QED  BY <2>1, <2>2, <2>3 DEF DataOK, EnvelopesAreSound
<1>1. EnvelopesAreSound'
  <2> SUFFICES ASSUME NEW e \in envelopes'
               PROVE  /\ session'[e.sess].mode = "private" /\ e.epoch <= session'[e.sess].epoch
                      /\ \A d \in e.devices : UserOf[d] \in e.audience
    BY DEF EnvelopesAreSound
  <2>1. session[e.sess].epoch <= session'[e.sess].epoch /\ session'[e.sess].mode = "private"
    OBVIOUS
  <2> QED  BY <1>0, <2>1
<1>2. AudienceIsWhole'
  <2> SUFFICES ASSUME NEW e \in envelopes', NEW v \in Users, Joined(v, e.sess)',
                      member'[e.sess][v].joined <= e.epoch
               PROVE  v \in e.audience
    BY DEF AudienceIsWhole, Joined
  <2>1. e.epoch <= session[e.sess].epoch /\ e.epoch \in Nat /\ session[e.sess].epoch \in Nat /\
        member'[e.sess][v].joined \in Nat /\ e \in envelopes
    BY <1>0 DEF DataTypes
  <2>2. \/ Joined(v, e.sess) /\ member'[e.sess][v].joined = member[e.sess][v].joined
        \/ session[e.sess].epoch < member'[e.sess][v].joined
    OBVIOUS
  <2>3. Joined(v, e.sess) /\ member[e.sess][v].joined <= e.epoch
    BY <2>1, <2>2
  <2> QED  BY <2>1, <2>3 DEF DataOK, AudienceIsWhole
<1>3. LeaversAreCutOff'
  <2> SUFFICES ASSUME NEW e \in envelopes', ~(e.epoch < session'[e.sess].epoch)
               PROVE  /\ \A v \in e.audience : Joined(v, e.sess)'
                      /\ \A d \in e.devices : device'[d] = "trusted"
    BY DEF LeaversAreCutOff, Joined
  <2>1. session[e.sess].epoch <= session'[e.sess].epoch
    OBVIOUS
  <2>2. session'[e.sess].epoch = session[e.sess].epoch /\ ~(e.epoch < session[e.sess].epoch)
    BY <1>0, <2>1
  <2>3. /\ \A v \in e.audience : Joined(v, e.sess)
        /\ \A d \in e.devices : device[d] = "trusted"
    BY <1>0, <2>2 DEF DataOK, LeaversAreCutOff
  <2>4. /\ \A v \in Users : Joined(v, e.sess) => Joined(v, e.sess)'
        /\ \A d \in Devices : device[d] = "trusted" /\ Joined(UserOf[d], e.sess) =>
             device'[d] = "trusted"
    BY <2>2
  <2> QED  BY <1>0, <2>3, <2>4
<1> QED  BY <1>1, <1>2, <1>3

\* A member is added: it joins in an epoch that no envelope has reached.
LEMMA AddMemberCommitKeeps ==
  ASSUME IInv, NEW t \in Txns, AddMemberCommit(t)
  PROVE  IInv'
<1> DEFINE x == txn[t]
           s == x.sess
<1>0. DataTypes /\ LockTypes /\ LocksOK /\ DataOK
  BY Parts
<1>1. /\ x \in Txn /\ s \in Sessions /\ x.user \in Users
      /\ accountLock[x.user] = t /\ sessionLock[s] = t
  <2>1. Ready(t, "add")
    BY DEF AddMemberCommit
  <2> QED  BY <2>1, ReadyHolds DEF Txn, SessionOps
<1>2. user[x.user] = "active"
  <2>1. Lockable(x, x.user) /\ x.op = "add"
    BY <1>0, <1>1 DEF AddMemberCommit, Ready, LocksOK, AccountsInOrder, LocksAccounts
  <2> QED  BY <2>1 DEF Lockable, AdminOps
<1>3. /\ session[s].mode = "private" /\ ~member[s][x.user].active
      /\ session' = Advance({s})
      /\ member' = [member EXCEPT ![s][x.user] = [active |-> TRUE, joined |-> session'[s].epoch]]
      /\ End(t) /\ UNCHANGED <<user, device, envelopes>>
  BY DEF AddMemberCommit
<1> HIDE DEF x, s
<1>4. /\ session' \in SessionRows /\ \A r \in Sessions : session[r].epoch \in Nat
      /\ session'[s].epoch = session[s].epoch + 1 /\ session'[s].mode = "private"
      /\ \A r \in Sessions : r # s => session'[r] = session[r]
  <2>1. session \in SessionRows
    BY <1>0 DEF DataTypes, SessionRows
  <2>2. \A r \in Sessions : session[r].epoch \in Nat
    BY <1>0 DEF DataTypes
  <2> QED  BY <1>1, <1>3, <2>1, <2>2, AdvanceType
<1>5. /\ member' \in [Sessions -> [Users -> [active : BOOLEAN, joined : Nat]]]
      /\ member'[s][x.user] = [active |-> TRUE, joined |-> session[s].epoch + 1]
      /\ \A r \in Sessions, v \in Users : ~(r = s /\ v = x.user) => member'[r][v] = member[r][v]
  <2>1. session'[s].epoch = session[s].epoch + 1 /\ session[s].epoch + 1 \in Nat
    BY <1>1, <1>4
  <2>2. member' = [member EXCEPT ![s][x.user] = [active |-> TRUE, joined |-> session[s].epoch + 1]]
    BY <1>3, <2>1
  <2> QED  BY <1>0, <1>1, <2>1, <2>2, OneMember DEF DataTypes
<1>6. \A r \in Sessions, v \in Users : Joined(v, r)' <=> Joined(v, r) \/ (r = s /\ v = x.user)
  BY <1>1, <1>3, <1>4, <1>5, ZenonT(60) DEF Joined
<1>7. DataTypes'
  <2>1. \A r \in Sessions, v \in Users :
           Joined(v, r)' => 0 < member'[r][v].joined /\ member'[r][v].joined <= session'[r].epoch
    <3> SUFFICES ASSUME NEW r \in Sessions, NEW v \in Users, Joined(v, r)'
                 PROVE  0 < member'[r][v].joined /\ member'[r][v].joined <= session'[r].epoch
      OBVIOUS
    <3>1. session[r].epoch \in Nat /\ member[r][v].joined \in Nat
      BY <1>0 DEF DataTypes
    <3>2. CASE r = s /\ v = x.user
      BY <1>4, <1>5, <3>1, <3>2
    <3>3. CASE ~(r = s /\ v = x.user)
      <4>1. Joined(v, r) /\ member'[r][v] = member[r][v]
        BY <1>5, <1>6, <3>3
      <4>2. 0 < member[r][v].joined /\ member[r][v].joined <= session[r].epoch
        BY <1>0, <4>1 DEF DataTypes
      <4> QED  BY <1>4, <3>1, <4>1, <4>2
    <3> QED  BY <3>2, <3>3
  <2> QED  BY <1>0, <1>3, <1>4, <1>5, <2>1 DEF DataTypes, SessionRows
<1>8. DataOK'
  <2>1. MembersArePrivate'
    BY <1>0, <1>4, <1>5 DEF DataOK, MembersArePrivate
  <2>2. InactiveIsOut'
    BY <1>0, <1>2, <1>3, <1>6 DEF DataOK, InactiveIsOut
  <2>3. ASSUME NEW e \in envelopes'
        PROVE  /\ session'[e.sess].mode = "private"
               /\ session[e.sess].epoch <= session'[e.sess].epoch
               /\ \A v \in Users : Joined(v, e.sess)' =>
                    \/ Joined(v, e.sess) /\ member'[e.sess][v].joined = member[e.sess][v].joined
                    \/ session[e.sess].epoch < member'[e.sess][v].joined
               /\ \A v \in Users : Joined(v, e.sess) => Joined(v, e.sess)'
    <3>1. e.sess \in Sessions /\ session[e.sess].mode = "private"
      BY <1>0, <1>3 DEF DataTypes, Envelope, DataOK, EnvelopesAreSound
    <3>2. CASE e.sess = s
      BY <1>1, <1>4, <1>5, <1>6, <3>1, <3>2
    <3>3. CASE e.sess # s
      BY <1>1, <1>4, <1>5, <1>6, <3>1, <3>3
    <3> QED  BY <3>2, <3>3
  <2> QED  BY <1>0, <1>3, <1>7, <2>1, <2>2, <2>3, EnvelopesStaySound DEF DataOK
<1>9. LockTypes' /\ LocksOK'
  BY <1>0, <1>3, EndKeepsLocks
<1>10. EnumerationCovers' /\ CheckStillHolds'
  BY <1>1, <1>3, <1>4, <1>6, EndKeepsReads
<1> QED  BY <1>7, <1>8, <1>9, <1>10, PartsPrimed

\* A member is removed: the conversation moves past every envelope that the
\* member could read.
LEMMA RemoveMemberCommitKeeps ==
  ASSUME IInv, NEW t \in Txns, RemoveMemberCommit(t)
  PROVE  IInv'
<1> DEFINE x == txn[t]
           s == x.sess
<1>0. DataTypes /\ LockTypes /\ LocksOK /\ DataOK
  BY Parts
<1>1. x \in Txn /\ s \in Sessions /\ x.user \in Users /\ sessionLock[s] = t
  <2>1. Ready(t, "remove")
    BY DEF RemoveMemberCommit
  <2> QED  BY <2>1, ReadyHolds DEF Txn, SessionOps
<1>2. /\ session[s].mode = "private"
      /\ session' = Advance({s})
      /\ member' = [member EXCEPT ![s][x.user].active = FALSE]
      /\ End(t) /\ UNCHANGED <<user, device, envelopes>>
  BY DEF RemoveMemberCommit
<1> HIDE DEF x, s
<1>3. /\ session' \in SessionRows /\ \A r \in Sessions : session[r].epoch \in Nat
      /\ session'[s].epoch = session[s].epoch + 1 /\ session'[s].mode = "private"
      /\ \A r \in Sessions : r # s => session'[r] = session[r]
  <2>1. session \in SessionRows
    BY <1>0 DEF DataTypes, SessionRows
  <2>2. \A r \in Sessions : session[r].epoch \in Nat
    BY <1>0 DEF DataTypes
  <2> QED  BY <1>1, <1>2, <2>1, <2>2, AdvanceType
<1>4. /\ member' \in [Sessions -> [Users -> [active : BOOLEAN, joined : Nat]]]
      /\ member'[s][x.user].active = FALSE
      /\ \A r \in Sessions, v \in Users : ~(r = s /\ v = x.user) => member'[r][v] = member[r][v]
  <2>1. member[s][x.user] \in [active : BOOLEAN, joined : Nat]
    BY <1>0, <1>1 DEF DataTypes
  <2> DEFINE row == [member[s][x.user] EXCEPT !.active = FALSE]
  <2>2. row \in [active : BOOLEAN, joined : Nat] /\ row.active = FALSE
    BY <2>1
  <2>3. member' = [member EXCEPT ![s][x.user] = row]
    BY <1>2
  <2> HIDE DEF row
  <2> QED  BY <1>0, <1>1, <2>2, <2>3, OneMember DEF DataTypes
<1>5. \A r \in Sessions, v \in Users : Joined(v, r)' <=> Joined(v, r) /\ ~(r = s /\ v = x.user)
  BY <1>1, <1>2, <1>3, <1>4 DEF Joined
<1>6. DataTypes'
  <2>1. \A r \in Sessions, v \in Users :
           Joined(v, r)' => 0 < member'[r][v].joined /\ member'[r][v].joined <= session'[r].epoch
    <3> SUFFICES ASSUME NEW r \in Sessions, NEW v \in Users, Joined(v, r)'
                 PROVE  0 < member'[r][v].joined /\ member'[r][v].joined <= session'[r].epoch
      OBVIOUS
    <3>1. Joined(v, r) /\ member'[r][v] = member[r][v] /\ member[r][v].joined \in Nat
      BY <1>0, <1>4, <1>5 DEF DataTypes
    <3>2. 0 < member[r][v].joined /\ member[r][v].joined <= session[r].epoch
      BY <1>0, <3>1 DEF DataTypes
    <3> QED  BY <1>3, <3>1, <3>2
  <2> QED  BY <1>0, <1>2, <1>3, <1>4, <2>1 DEF DataTypes, SessionRows
<1>7. DataOK'
  <2>1. MembersArePrivate'
    BY <1>0, <1>3, <1>4 DEF DataOK, MembersArePrivate
  <2>2. InactiveIsOut'
    BY <1>0, <1>2, <1>5 DEF DataOK, InactiveIsOut
  <2>3. ASSUME NEW e \in envelopes'
        PROVE  /\ session'[e.sess].mode = "private"
               /\ session[e.sess].epoch <= session'[e.sess].epoch
               /\ \A v \in Users : Joined(v, e.sess)' =>
                    Joined(v, e.sess) /\ member'[e.sess][v].joined = member[e.sess][v].joined
               /\ session'[e.sess].epoch = session[e.sess].epoch =>
                    \A v \in Users : Joined(v, e.sess) => Joined(v, e.sess)'
    <3>1. e.sess \in Sessions /\ session[e.sess].mode = "private"
      BY <1>0, <1>2 DEF DataTypes, Envelope, DataOK, EnvelopesAreSound
    <3>2. CASE e.sess = s
      BY <1>1, <1>3, <1>4, <1>5, <3>1, <3>2
    <3>3. CASE e.sess # s
      BY <1>1, <1>3, <1>4, <1>5, <3>1, <3>3
    <3> QED  BY <3>2, <3>3
  <2> QED  BY <1>0, <1>2, <1>6, <2>1, <2>2, <2>3, EnvelopesStaySound DEF DataOK
<1>8. LockTypes' /\ LocksOK'
  BY <1>0, <1>2, EndKeepsLocks
<1>9. EnumerationCovers' /\ CheckStillHolds'
  BY <1>1, <1>2, <1>3, <1>5, EndKeepsReads, PrivateAssumption
<1> QED  BY <1>6, <1>7, <1>8, <1>9, PartsPrimed

\* Conversations are deleted with their members.
LEMMA DeletedRows ==
  ASSUME DataTypes, NEW S \in SUBSET Sessions
  PROVE  /\ Deleted(S) \in SessionRows
         /\ WithoutMembersOf(S) \in [Sessions -> [Users -> [active : BOOLEAN, joined : Nat]]]
         /\ \A r \in S : Deleted(S)[r].mode = "gone" /\ Deleted(S)[r].epoch = 0
         /\ \A r \in S, v \in Users : ~WithoutMembersOf(S)[r][v].active
         /\ \A r \in Sessions \ S : Deleted(S)[r] = session[r] /\ WithoutMembersOf(S)[r] = member[r]
<1>1. \A r \in Sessions : session[r] \in [mode : Modes, owner : Users, epoch : Nat]
  BY DEF DataTypes
<1>2. \A r \in Sessions : Deleted(S)[r] = IF r \in S THEN [session[r] EXCEPT !.mode = "gone", !.epoch = 0]
                                                   ELSE session[r]
  BY DEF Deleted
<1>3. ASSUME NEW row \in [mode : Modes, owner : Users, epoch : Nat]
      PROVE  /\ [row EXCEPT !.mode = "gone", !.epoch = 0] \in [mode : Modes, owner : Users, epoch : Nat]
             /\ [row EXCEPT !.mode = "gone", !.epoch = 0].mode = "gone"
             /\ [row EXCEPT !.mode = "gone", !.epoch = 0].epoch = 0
  BY DEF Modes
<1>4. \A r \in Sessions : Deleted(S)[r] \in [mode : Modes, owner : Users, epoch : Nat]
  BY <1>1, <1>2, <1>3
<1>5. Deleted(S) \in SessionRows
  BY <1>4 DEF Deleted, SessionRows
<1>6. [v \in Users |-> NoMember] \in Members /\ NoMember.active = FALSE
  BY DEF NoMember, Members
<1>7. WithoutMembersOf(S) \in [Sessions -> Members]
  BY <1>6 DEF WithoutMembersOf, DataTypes, Members
<1>8. \A r \in S, v \in Users : ~WithoutMembersOf(S)[r][v].active
  BY <1>6 DEF WithoutMembersOf
<1> QED  BY <1>1, <1>2, <1>3, <1>5, <1>7, <1>8, ZenonT(60) DEF WithoutMembersOf, Members

\* What is stored stays sound when conversations go with their members and
\* envelopes.
LEMMA DeletionKeepsData ==
  ASSUME DataTypes, DataOK, NEW S \in SUBSET Sessions, session' = Deleted(S),
         member' = WithoutMembersOf(S), envelopes' = WithoutEnvelopesOf(S), UNCHANGED <<user, device>>
  PROVE  /\ DataTypes' /\ DataOK'
         /\ \A r \in Sessions, v \in Users : Joined(v, r)' <=> Joined(v, r) /\ r \notin S
         /\ \A r \in Sessions \ S : session'[r] = session[r]
<1>1. /\ session' \in SessionRows
      /\ member' \in [Sessions -> [Users -> [active : BOOLEAN, joined : Nat]]]
      /\ \A r \in S : session'[r].mode = "gone" /\ \A v \in Users : ~member'[r][v].active
      /\ \A r \in Sessions \ S : session'[r] = session[r] /\ member'[r] = member[r]
  BY DeletedRows
<1>2. \A r \in Sessions, v \in Users : Joined(v, r)' <=> Joined(v, r) /\ r \notin S
  BY <1>1 DEF Joined
<1>3. envelopes' \subseteq envelopes /\ \A e \in envelopes' : e.sess \notin S
  BY DEF WithoutEnvelopesOf
<1>4. DataTypes'
  <2>1. \A r \in Sessions, v \in Users :
           Joined(v, r)' => 0 < member'[r][v].joined /\ member'[r][v].joined <= session'[r].epoch
    BY <1>1, <1>2 DEF DataTypes
  <2> QED  BY <1>1, <1>3, <2>1 DEF DataTypes, SessionRows
<1>5. MembersArePrivate'
  BY <1>1 DEF DataOK, MembersArePrivate
<1>6. InactiveIsOut'
  BY <1>2 DEF DataOK, InactiveIsOut
<1>7. ASSUME NEW e \in envelopes'
      PROVE  /\ session'[e.sess] = session[e.sess] /\ session[e.sess].mode = "private"
             /\ session[e.sess].epoch \in Nat
             /\ \A v \in Users : Joined(v, e.sess)' <=> Joined(v, e.sess)
             /\ member'[e.sess] = member[e.sess]
  <2>1. e.sess \in Sessions \ S /\ e \in envelopes
    BY <1>3 DEF DataTypes, Envelope
  <2> QED  BY <1>1, <1>2, <2>1 DEF DataTypes, DataOK, EnvelopesAreSound
<1>8. EnvelopesAreSound' /\ AudienceIsWhole' /\ LeaversAreCutOff'
  BY <1>3, <1>4, <1>7, EnvelopesStaySound
<1> QED  BY <1>1, <1>2, <1>4, <1>5, <1>6, <1>8 DEF DataOK

\* A conversation is deleted by its owner.
LEMMA DeleteSessionCommitKeeps ==
  ASSUME IInv, NEW t \in Txns, DeleteSessionCommit(t)
  PROVE  IInv'
<1> DEFINE s == txn[t].sess
<1>0. DataTypes /\ LockTypes /\ LocksOK /\ DataOK
  BY Parts
<1>1. s \in Sessions /\ sessionLock[s] = t
  <2>1. Ready(t, "delete_session")
    BY DEF DeleteSessionCommit
  <2> QED  BY <2>1, ReadyHolds DEF Txn, SessionOps
<1>2. /\ session' = Deleted({s}) /\ member' = WithoutMembersOf({s})
      /\ envelopes' = WithoutEnvelopesOf({s}) /\ End(t) /\ UNCHANGED <<user, device>>
  BY DEF DeleteSessionCommit
<1> HIDE DEF s
<1>3. {s} \in SUBSET Sessions
  BY <1>1
<1>4. /\ DataTypes' /\ DataOK'
      /\ \A r \in Sessions, v \in Users : Joined(v, r)' <=> Joined(v, r) /\ r \notin {s}
      /\ \A r \in Sessions \ {s} : session'[r] = session[r]
  BY <1>0, <1>2, <1>3, DeletionKeepsData
<1>5. LockTypes' /\ LocksOK'
  BY <1>0, <1>2, EndKeepsLocks
<1>6. EnumerationCovers' /\ CheckStillHolds'
  BY <1>1, <1>2, <1>4, EndKeepsReads, PrivateAssumption
<1> QED  BY <1>4, <1>5, <1>6, PartsPrimed

\* A conversation becomes private, with its first member in its first epoch.
LEMMA OpeningKeepsData ==
  ASSUME DataTypes, DataOK, NEW s \in Sessions, NEW u \in Users, user[u] = "active",
         session[s].mode # "private", \A e \in envelopes : e.sess # s,
         NEW row \in [mode : Modes, owner : Users, epoch : Nat],
         row.mode = "private", row.epoch = 1, session' = [session EXCEPT ![s] = row],
         member' = [member EXCEPT ![s][u] = [active |-> TRUE, joined |-> 1]],
         UNCHANGED <<user, device, envelopes>>
  PROVE  /\ DataTypes' /\ DataOK'
         /\ \A r \in Sessions, v \in Users : Joined(v, r)' <=> Joined(v, r) \/ (r = s /\ v = u)
         /\ \A r \in Sessions \ {s} : session'[r] = session[r]
<1>1. /\ session' \in SessionRows /\ session'[s] = row
      /\ \A r \in Sessions : r # s => session'[r] = session[r]
  BY DEF DataTypes, SessionRows
<1>2. /\ member' \in [Sessions -> [Users -> [active : BOOLEAN, joined : Nat]]]
      /\ member'[s][u] = [active |-> TRUE, joined |-> 1]
      /\ \A r \in Sessions, v \in Users : ~(r = s /\ v = u) => member'[r][v] = member[r][v]
  <2>1. [active |-> TRUE, joined |-> 1] \in [active : BOOLEAN, joined : Nat]
    OBVIOUS
  <2> QED  BY <2>1, OneMember DEF DataTypes
<1>3. \A v \in Users : ~member[s][v].active
  BY DEF DataOK, MembersArePrivate
<1>4. \A r \in Sessions, v \in Users : Joined(v, r)' <=> Joined(v, r) \/ (r = s /\ v = u)
  BY <1>1, <1>2, <1>3 DEF Joined
<1>5. DataTypes'
  <2>1. \A r \in Sessions, v \in Users :
           Joined(v, r)' => 0 < member'[r][v].joined /\ member'[r][v].joined <= session'[r].epoch
    <3> SUFFICES ASSUME NEW r \in Sessions, NEW v \in Users, Joined(v, r)'
                 PROVE  0 < member'[r][v].joined /\ member'[r][v].joined <= session'[r].epoch
      OBVIOUS
    <3>1. CASE r = s
      <4>1. v = u
        BY <1>3, <1>4, <3>1 DEF Joined
      <4> QED  BY <1>1, <1>2, <3>1, <4>1
    <3>2. CASE r # s
      BY <1>1, <1>2, <1>4, <3>2 DEF DataTypes
    <3> QED  BY <3>1, <3>2
  <2> QED  BY <1>1, <1>2, <2>1 DEF DataTypes, SessionRows
<1>6. MembersArePrivate'
  BY <1>1, <1>2 DEF DataOK, MembersArePrivate
<1>7. InactiveIsOut'
  BY <1>4 DEF DataOK, InactiveIsOut
<1>8. ASSUME NEW e \in envelopes'
      PROVE  /\ session'[e.sess] = session[e.sess] /\ session[e.sess].mode = "private"
             /\ session[e.sess].epoch \in Nat
             /\ \A v \in Users : Joined(v, e.sess)' <=> Joined(v, e.sess)
             /\ \A v \in Users : member'[e.sess][v] = member[e.sess][v]
  <2>1. e.sess \in Sessions \ {s} /\ e \in envelopes
    BY DEF DataTypes, Envelope
  <2> QED  BY <1>1, <1>2, <1>4, <2>1 DEF DataTypes, DataOK, EnvelopesAreSound
<1>9. EnvelopesAreSound' /\ AudienceIsWhole' /\ LeaversAreCutOff'
  BY <1>5, <1>8, EnvelopesStaySound
<1> QED  BY <1>1, <1>4, <1>5, <1>6, <1>7, <1>9 DEF DataOK

\* A conversation without envelopes changes its mode.
LEMMA UpdateSessionSecurityCommitKeeps ==
  ASSUME IInv, NEW t \in Txns, UpdateSessionSecurityCommit(t)
  PROVE  IInv'
<1> DEFINE x == txn[t]
           s == x.sess
<1>0. DataTypes /\ LockTypes /\ LocksOK /\ DataOK
  BY Parts
<1>1. /\ x \in Txn /\ s \in Sessions /\ x.actor \in Users
      /\ accountLock[x.actor] = t /\ sessionLock[s] = t
  <2>1. Ready(t, "security")
    BY DEF UpdateSessionSecurityCommit
  <2> QED  BY <2>1, ReadyHolds DEF Txn, SessionOps
<1>2. user[x.actor] = "active"
  <2>1. Lockable(x, x.actor)
    BY <1>0, <1>1 DEF LocksOK, AccountsInOrder, LocksAccounts
  <2> QED  BY <2>1 DEF Lockable
<1>3. End(t) /\ UNCHANGED <<user, device, envelopes>> /\ \A e \in envelopes : e.sess # s
  BY DEF UpdateSessionSecurityCommit
<1>4. session[s] \in [mode : Modes, owner : Users, epoch : Nat]
  BY <1>0, <1>1 DEF DataTypes
<1>5. /\ DataTypes' /\ DataOK'
      /\ \A r \in Sessions, v \in Users : Joined(v, r)' => Joined(v, r) \/ (r = s /\ v = x.actor)
      /\ \A r \in Sessions \ {s}, v \in Users : Joined(v, r) => Joined(v, r)'
      /\ \A r \in Sessions \ {s} : session'[r] = session[r]
  <2>1. CASE session[s].mode = "private"
    <3> DEFINE row == [session[s] EXCEPT !.mode = "secure", !.epoch = 0]
    <3>1. row \in [mode : Modes, owner : Users, epoch : Nat] /\ row.mode = "secure"
      BY <1>4 DEF Modes
    <3>2. session' = [session EXCEPT ![s] = row] /\ member' = WithoutMembersOf({s})
      BY <1>0, <1>1, <2>1 DEF UpdateSessionSecurityCommit, DataTypes
    <3> HIDE DEF row, x, s
    <3>3. /\ session' \in SessionRows /\ session'[s] = row
          /\ \A r \in Sessions : r # s => session'[r] = session[r]
      BY <1>0, <1>1, <3>1, <3>2 DEF DataTypes, SessionRows
    <3>4. /\ member' \in [Sessions -> [Users -> [active : BOOLEAN, joined : Nat]]]
          /\ \A v \in Users : ~member'[s][v].active
          /\ \A r \in Sessions : r # s => member'[r] = member[r]
      <4>1. {s} \in SUBSET Sessions
        BY <1>1
      <4> QED  BY <1>0, <3>2, <4>1, DeletedRows
    <3>5. \A r \in Sessions, v \in Users : Joined(v, r)' <=> Joined(v, r) /\ r # s
      BY <3>1, <3>3, <3>4 DEF Joined
    <3>6. DataTypes'
      <4>1. \A r \in Sessions, v \in Users :
               Joined(v, r)' => 0 < member'[r][v].joined /\ member'[r][v].joined <= session'[r].epoch
        BY <1>0, <3>3, <3>4, <3>5 DEF DataTypes
      <4> QED  BY <1>0, <1>3, <3>3, <3>4, <4>1 DEF DataTypes, SessionRows
    <3>7. MembersArePrivate'
      BY <1>0, <3>3, <3>4 DEF DataOK, MembersArePrivate
    <3>8. InactiveIsOut'
      BY <1>0, <1>3, <3>5 DEF DataOK, InactiveIsOut
    <3>9. ASSUME NEW e \in envelopes'
          PROVE  /\ session'[e.sess] = session[e.sess] /\ session[e.sess].mode = "private"
                 /\ session[e.sess].epoch \in Nat
                 /\ \A v \in Users : Joined(v, e.sess)' <=> Joined(v, e.sess)
                 /\ member'[e.sess] = member[e.sess]
      <4>1. e.sess \in Sessions /\ e.sess # s /\ e \in envelopes
        BY <1>0, <1>3 DEF DataTypes, Envelope
      <4> QED  BY <1>0, <3>3, <3>4, <3>5, <4>1 DEF DataTypes, DataOK, EnvelopesAreSound
    <3>10. EnvelopesAreSound' /\ AudienceIsWhole' /\ LeaversAreCutOff'
      BY <1>0, <1>3, <3>6, <3>9, EnvelopesStaySound
    <3> QED  BY <3>3, <3>5, <3>6, <3>7, <3>8, <3>10 DEF DataOK
  <2>2. CASE session[s].mode # "private"
    <3> DEFINE row == [session[s] EXCEPT !.mode = "private", !.epoch = 1]
    <3>1. row \in [mode : Modes, owner : Users, epoch : Nat] /\ row.mode = "private" /\ row.epoch = 1
      BY <1>4 DEF Modes
    <3>2. /\ session' = [session EXCEPT ![s] = row]
          /\ member' = [member EXCEPT ![s][x.actor] = [active |-> TRUE, joined |-> 1]]
      BY <1>0, <1>1, <2>2 DEF UpdateSessionSecurityCommit, DataTypes, FirstEpoch
    <3> HIDE DEF row, x, s
    <3> QED  BY <1>0, <1>1, <1>2, <1>3, <2>2, <3>1, <3>2, OpeningKeepsData
  <2> QED  BY <2>1, <2>2
<1> HIDE DEF x, s
<1>6. LockTypes' /\ LocksOK'
  BY <1>0, <1>3, EndKeepsLocks
<1>7. EnumerationCovers' /\ CheckStillHolds'
  BY <1>1, <1>3, <1>5, EndKeepsReads, PrivateAssumption
<1> QED  BY <1>5, <1>6, <1>7, PartsPrimed

\* A device is revoked, and every conversation of its account moves on.
LEMMA RevokeDeviceCommitKeeps ==
  ASSUME IInv, NEW t \in Txns, RevokeDeviceCommit(t)
  PROVE  IInv'
<1> DEFINE x == txn[t]
           A == StillJoined(t, x.actor)
<1> USE PrivateAssumption
<1>0. DataTypes /\ LockTypes /\ LocksOK /\ DataOK
  BY Parts
<1>1. /\ x \in Txn /\ x.actor \in Users /\ x.dev \in Devices /\ UserOf[x.dev] = x.actor
      /\ \A s \in Sessions : Joined(x.actor, s) => sessionLock[s] = t
  <2>1. Ready(t, "revoke")
    BY DEF RevokeDeviceCommit
  <2>2. SoundRequest(t) /\ x.pc = "sessions" /\ x.op = "revoke"
    BY <1>0, <2>1 DEF LocksOK, RequestsAreSound, Ready
  <2>3. x \in Txn /\ \A s \in Sessions : Joined(x.user, s) => sessionLock[s] = t
    BY <2>1, ReadyHolds DEF Enumerating
  <2> QED  BY <2>2, <2>3 DEF SoundRequest, Txn
<1>2. /\ device' = [device EXCEPT ![x.dev] = "revoked"] /\ session' = Advance(A)
      /\ End(t) /\ UNCHANGED <<user, member, envelopes>>
  BY DEF RevokeDeviceCommit
<1>3. \A s \in Sessions : s \in A <=> Joined(x.actor, s)
  BY <1>1 DEF StillJoined, Held
<1> HIDE DEF x, A
<1>4. /\ session' \in SessionRows
      /\ \A r \in Sessions : /\ session[r].epoch \in Nat /\ session'[r].mode = session[r].mode
                             /\ r \in A => session'[r].epoch = session[r].epoch + 1
                             /\ r \notin A => session'[r] = session[r]
  <2>1. session \in SessionRows
    BY <1>0 DEF DataTypes, SessionRows
  <2>2. \A r \in Sessions : session[r].epoch \in Nat
    BY <1>0 DEF DataTypes
  <2> QED  BY <1>2, <2>1, <2>2, AdvanceType
<1>5. \A r \in Sessions, v \in Users : Joined(v, r)' <=> Joined(v, r)
  BY <1>2, <1>4 DEF Joined
<1>6. /\ device' \in [Devices -> {"none", "trusted", "revoked", "gone"}]
      /\ \A d \in Devices : d # x.dev => device'[d] = device[d]
  BY <1>0, <1>1, <1>2 DEF DataTypes
<1>7. \A r \in Sessions : session[r].epoch <= session'[r].epoch /\ session'[r].epoch \in Nat
  BY <1>4
<1>8. DataTypes'
  <2>1. \A r \in Sessions, v \in Users :
           Joined(v, r)' => 0 < member'[r][v].joined /\ member'[r][v].joined <= session'[r].epoch
    <3> SUFFICES ASSUME NEW r \in Sessions, NEW v \in Users, Joined(v, r)
                 PROVE  0 < member[r][v].joined /\ member[r][v].joined <= session'[r].epoch
      BY <1>2, <1>5
    <3>1. /\ member[r][v].joined \in Nat
          /\ 0 < member[r][v].joined /\ member[r][v].joined <= session[r].epoch
      BY <1>0 DEF DataTypes
    <3> QED  BY <1>4, <1>7, <3>1
  <2> QED  BY <1>0, <1>2, <1>4, <1>6, <2>1 DEF DataTypes, SessionRows
<1>9. DataOK'
  <2>1. MembersArePrivate'
    BY <1>0, <1>2, <1>4 DEF DataOK, MembersArePrivate
  <2>2. InactiveIsOut'
    BY <1>0, <1>2, <1>5 DEF DataOK, InactiveIsOut
  <2>3. ASSUME NEW e \in envelopes'
        PROVE  /\ session'[e.sess].mode = "private"
               /\ session[e.sess].epoch <= session'[e.sess].epoch
               /\ \A v \in Users : Joined(v, e.sess)' <=> Joined(v, e.sess)
               /\ session'[e.sess].epoch = session[e.sess].epoch =>
                    \A d \in Devices : device[d] = "trusted" /\ Joined(UserOf[d], e.sess) =>
                      device'[d] = "trusted"
    <3>1. e.sess \in Sessions /\ session[e.sess].mode = "private"
      BY <1>0, <1>2 DEF DataTypes, Envelope, DataOK, EnvelopesAreSound
    <3>2. session'[e.sess].epoch = session[e.sess].epoch => e.sess \notin A
      BY <1>4, <3>1
    <3> QED  BY <1>1, <1>3, <1>4, <1>5, <1>6, <1>7, <3>1, <3>2, ZenonT(60)
  <2> QED  BY <1>0, <1>2, <1>8, <2>1, <2>2, <2>3, EnvelopesStaySound DEF DataOK
<1>10. LockTypes' /\ LocksOK'
  BY <1>0, <1>2, EndKeepsLocks
<1>11. EnumerationCovers' /\ CheckStillHolds'
  <2>1. \A s \in Sessions : sessionLock[s] \in Txns \ {t} => session'[s] = session[s]
    BY <1>1, <1>3, <1>4
  <2>2. \A d \in Devices, s \in Sessions :
           device[d] = "trusted" /\ Joined(UserOf[d], s) =>
              device'[d] = "trusted" \/ sessionLock[s] = t
    BY <1>1, <1>6
  <2> QED  BY <1>2, <1>5, <2>1, <2>2, EndKeepsReads
<1> QED  BY <1>8, <1>9, <1>10, <1>11, PartsPrimed

\* An account is suspended: it leaves every conversation it was in, and all of
\* them move on.
LEMMA SuspendCommitKeeps ==
  ASSUME IInv, NEW t \in Txns, SuspendCommit(t)
  PROVE  IInv'
<1> DEFINE u == txn[t].user
           A == StillJoined(t, u)
<1> USE PrivateAssumption
<1>0. DataTypes /\ LockTypes /\ LocksOK /\ DataOK
  BY Parts
<1>1. /\ u \in Users /\ accountLock[u] = t
      /\ \A s \in Sessions : Joined(u, s) => sessionLock[s] = t
  <2>1. Ready(t, "suspend")
    BY DEF SuspendCommit
  <2> QED  BY <2>1, ReadyHolds DEF Txn, AdminOps, Enumerating
<1>2. /\ session' = Advance(A) /\ member' = Expelled(A, u)
      /\ user' = [user EXCEPT ![u] = "suspended"]
      /\ End(t) /\ UNCHANGED <<device, envelopes>>
  BY DEF SuspendCommit
<1>3. \A s \in Sessions : s \in A <=> Joined(u, s)
  BY <1>1 DEF StillJoined, Held
<1> HIDE DEF u, A
<1>4. /\ session' \in SessionRows
      /\ \A r \in Sessions : /\ session[r].epoch \in Nat /\ session'[r].mode = session[r].mode
                             /\ r \in A => session'[r].epoch = session[r].epoch + 1
                             /\ r \notin A => session'[r] = session[r]
  <2>1. session \in SessionRows
    BY <1>0 DEF DataTypes, SessionRows
  <2>2. \A r \in Sessions : session[r].epoch \in Nat
    BY <1>0 DEF DataTypes
  <2> QED  BY <1>2, <2>1, <2>2, AdvanceType
<1>5. /\ member' \in [Sessions -> [Users -> [active : BOOLEAN, joined : Nat]]]
      /\ \A r \in A : ~member'[r][u].active
      /\ \A r \in Sessions, v \in Users : v # u \/ r \notin A => member'[r][v] = member[r][v]
  <2>1. ASSUME NEW m \in Members
        PROVE  /\ [m EXCEPT ![u].active = FALSE] \in Members
               /\ ~[m EXCEPT ![u].active = FALSE][u].active
               /\ \A v \in Users : v # u => [m EXCEPT ![u].active = FALSE][v] = m[v]
    <3> DEFINE row == [m[u] EXCEPT !.active = FALSE]
    <3>1. m[u] \in [active : BOOLEAN, joined : Nat]
      BY <1>1 DEF Members
    <3>2. row \in [active : BOOLEAN, joined : Nat] /\ row.active = FALSE
      BY <3>1
    <3>3. [m EXCEPT ![u].active = FALSE] = [m EXCEPT ![u] = row]
      OBVIOUS
    <3> HIDE DEF row
    <3> QED  BY <1>1, <3>2, <3>3 DEF Members
  <2>2. \A r \in Sessions : member[r] \in Members
    BY <1>0 DEF DataTypes, Members
  <2>3. \A r \in Sessions : member'[r] = IF r \in A THEN [member[r] EXCEPT ![u].active = FALSE] ELSE member[r]
    BY <1>2 DEF Expelled
  <2>4. \A r \in Sessions : member'[r] \in Members
    BY <2>1, <2>2, <2>3
  <2>5. member' \in [Sessions -> Members]
    BY <1>2, <2>4 DEF Expelled
  <2>6. A \subseteq Sessions
    BY DEF A, StillJoined, Held
  <2> QED  BY <2>1, <2>2, <2>3, <2>5, <2>6, ZenonT(60) DEF Members
<1>6. \A r \in Sessions, v \in Users : Joined(v, r)' <=> Joined(v, r) /\ v # u
  <2>1. TAKE r \in Sessions, v \in Users
  <2>2. session'[r].mode = session[r].mode
    BY <1>4
  <2>3. CASE v # u \/ r \notin A
    <3>1. member'[r][v] = member[r][v]
      BY <1>5, <2>3
    <3>2. v = u => ~Joined(v, r)
      BY <1>3, <2>3
    <3> QED  BY <2>2, <3>1, <3>2 DEF Joined
  <2>4. CASE v = u /\ r \in A
    <3>1. ~member'[r][v].active
      BY <1>5, <2>4
    <3> QED  BY <2>4, <3>1 DEF Joined
  <2> QED  BY <2>3, <2>4
<1>7. /\ user' \in [Users -> {"active", "suspended", "deleted"}]
      /\ \A v \in Users : v # u => user'[v] = user[v]
  BY <1>0, <1>1, <1>2 DEF DataTypes
<1>8. \A r \in Sessions : session[r].epoch <= session'[r].epoch /\ session'[r].epoch \in Nat
  BY <1>4
<1>9. DataTypes'
  <2>1. \A r \in Sessions, v \in Users :
           Joined(v, r)' => 0 < member'[r][v].joined /\ member'[r][v].joined <= session'[r].epoch
    <3> SUFFICES ASSUME NEW r \in Sessions, NEW v \in Users, Joined(v, r), v # u
                 PROVE  0 < member[r][v].joined /\ member[r][v].joined <= session'[r].epoch
      BY <1>5, <1>6
    <3>1. /\ member[r][v].joined \in Nat
          /\ 0 < member[r][v].joined /\ member[r][v].joined <= session[r].epoch
      BY <1>0 DEF DataTypes
    <3> QED  BY <1>4, <1>8, <3>1
  <2> QED  BY <1>0, <1>2, <1>4, <1>5, <1>7, <2>1 DEF DataTypes, SessionRows
<1>10. DataOK'
  <2>1. MembersArePrivate'
    BY <1>0, <1>4, <1>5 DEF DataOK, MembersArePrivate
  <2>2. InactiveIsOut'
    BY <1>0, <1>6, <1>7 DEF DataOK, InactiveIsOut
  <2>3. ASSUME NEW e \in envelopes'
        PROVE  /\ session'[e.sess].mode = "private"
               /\ session[e.sess].epoch <= session'[e.sess].epoch
               /\ \A v \in Users : Joined(v, e.sess)' =>
                    Joined(v, e.sess) /\ member'[e.sess][v].joined = member[e.sess][v].joined
               /\ session'[e.sess].epoch = session[e.sess].epoch =>
                    \A v \in Users : Joined(v, e.sess) => Joined(v, e.sess)'
    <3>1. e.sess \in Sessions /\ session[e.sess].mode = "private"
      BY <1>0, <1>2 DEF DataTypes, Envelope, DataOK, EnvelopesAreSound
    <3>2. session'[e.sess].epoch = session[e.sess].epoch => e.sess \notin A
      BY <1>4, <3>1
    <3> QED  BY <1>3, <1>4, <1>5, <1>6, <1>8, <3>1, <3>2, ZenonT(60)
  <2> QED  BY <1>0, <1>2, <1>9, <2>1, <2>2, <2>3, EnvelopesStaySound DEF DataOK
<1>11. LockTypes' /\ LocksOK'
  BY <1>0, <1>1, <1>2, <1>7, EndKeepsLocks
<1>12. EnumerationCovers' /\ CheckStillHolds'
  <2>1. \A s \in Sessions : sessionLock[s] \in Txns \ {t} =>
           session'[s] = session[s] /\ \A v \in Users : Joined(v, s) => Joined(v, s)'
    BY <1>1, <1>3, <1>4, <1>6
  <2> QED  BY <1>2, <1>6, <2>1, EndKeepsReads
<1> QED  BY <1>9, <1>10, <1>11, <1>12, PartsPrimed

\* A suspended account is let back in; its memberships do not come back.
LEMMA ReactivateCommitKeeps ==
  ASSUME IInv, NEW t \in Txns, ReactivateCommit(t)
  PROVE  IInv'
<1> DEFINE u == txn[t].user
<1>0. DataTypes /\ LockTypes /\ LocksOK /\ DataOK
  BY Parts
<1>1. u \in Users /\ accountLock[u] = t
  <2>1. Ready(t, "reactivate")
    BY DEF ReactivateCommit
  <2> QED  BY <2>1, ReadyHolds DEF Txn, AdminOps
<1>2. /\ user' = [user EXCEPT ![u] = "active"]
      /\ End(t) /\ UNCHANGED <<device, session, member, envelopes>>
  BY DEF ReactivateCommit
<1> HIDE DEF u
<1>3. /\ user' \in [Users -> {"active", "suspended", "deleted"}] /\ user'[u] = "active"
      /\ \A v \in Users : v # u => user'[v] = user[v]
  BY <1>0, <1>1, <1>2 DEF DataTypes
<1>4. DataTypes'
  BY <1>0, <1>2, <1>3 DEF DataTypes, Joined
<1>5. DataOK'
  BY <1>0, <1>2, <1>3 DEF DataOK, MembersArePrivate, InactiveIsOut, EnvelopesAreSound, AudienceIsWhole,
     LeaversAreCutOff, Joined
<1>6. LockTypes' /\ LocksOK'
  BY <1>0, <1>1, <1>2, <1>3, EndKeepsLocks
<1>7. EnumerationCovers' /\ CheckStillHolds'
  BY <1>2, EndKeepsReads DEF Joined
<1> QED  BY <1>4, <1>5, <1>6, <1>7, PartsPrimed

\* An account is deleted with its devices and its conversations, and those that
\* it was only a member of move on.
LEMMA DeleteUserCommitKeeps ==
  ASSUME IInv, NEW t \in Txns, DeleteUserCommit(t)
  PROVE  IInv'
<1> DEFINE u == txn[t].user
           O == {s \in Held(t) : session[s].owner = u}
           A == StillJoined(t, u) \ O
<1> USE PrivateAssumption
<1>0. DataTypes /\ LockTypes /\ LocksOK /\ DataOK
  BY Parts
<1>1. /\ u \in Users /\ accountLock[u] = t
      /\ \A s \in Sessions : Joined(u, s) => sessionLock[s] = t
  <2>1. Ready(t, "delete_user")
    BY DEF DeleteUserCommit
  <2> QED  BY <2>1, ReadyHolds DEF Txn, AdminOps, Enumerating
<1>2. /\ user' = [user EXCEPT ![u] = "deleted"]
      /\ device' = [d \in Devices |-> IF UserOf[d] = u /\ device[d] # "none" THEN "gone" ELSE device[d]]
      /\ session' = [s \in Sessions |-> IF s \in O THEN Deleted(O)[s] ELSE Advance(A)[s]]
      /\ member' = [s \in Sessions |-> [WithoutMembersOf(O)[s] EXCEPT ![u] = NoMember]]
      /\ envelopes' = {e \in WithoutEnvelopesOf(O) : e.to = NoDevice \/ UserOf[e.to] # u}
      /\ End(t)
  BY DEF DeleteUserCommit
<1>3. /\ O \in SUBSET Sessions /\ \A s \in O : sessionLock[s] = t
      /\ \A s \in Sessions : s \in A <=> Joined(u, s) /\ s \notin O
  BY <1>1 DEF StillJoined, Held
<1> HIDE DEF u, A, O
<1>4. /\ session' \in SessionRows
      /\ \A r \in O : session'[r].mode = "gone"
      /\ \A r \in Sessions \ O : /\ session[r].epoch \in Nat /\ session'[r].mode = session[r].mode
                                 /\ r \in A => session'[r].epoch = session[r].epoch + 1
                                 /\ r \notin A => session'[r] = session[r]
  <2>1. session \in SessionRows
    BY <1>0 DEF DataTypes, SessionRows
  <2>2. \A r \in Sessions : session[r].epoch \in Nat
    BY <1>0 DEF DataTypes
  <2>3. /\ Advance(A) \in SessionRows
        /\ \A r \in Sessions : /\ Advance(A)[r].mode = session[r].mode
                               /\ r \in A => Advance(A)[r].epoch = session[r].epoch + 1
                               /\ r \notin A => Advance(A)[r] = session[r]
    BY <2>1, AdvanceType
  <2>4. Deleted(O) \in SessionRows /\ \A r \in O : Deleted(O)[r].mode = "gone"
    BY <1>0, <1>3, DeletedRows
  <2>5. session' \in SessionRows
    BY <1>2, <2>3, <2>4 DEF SessionRows
  <2> QED  BY <1>2, <1>3, <2>2, <2>3, <2>4, <2>5
<1>5. /\ member' \in [Sessions -> [Users -> [active : BOOLEAN, joined : Nat]]]
      /\ \A r \in Sessions : ~member'[r][u].active
      /\ \A r \in O, v \in Users : ~member'[r][v].active
      /\ \A r \in Sessions \ O, v \in Users : v # u => member'[r][v] = member[r][v]
  <2>1. /\ WithoutMembersOf(O) \in [Sessions -> Members]
        /\ \A r \in O, v \in Users : ~WithoutMembersOf(O)[r][v].active
        /\ \A r \in Sessions \ O : WithoutMembersOf(O)[r] = member[r]
    BY <1>0, <1>3, DeletedRows DEF Members
  <2>2. ASSUME NEW m \in Members
        PROVE  /\ [m EXCEPT ![u] = NoMember] \in Members
               /\ ~[m EXCEPT ![u] = NoMember][u].active
               /\ \A v \in Users : v # u => [m EXCEPT ![u] = NoMember][v] = m[v]
    BY <1>1 DEF Members, NoMember
  <2>3. \A r \in Sessions : WithoutMembersOf(O)[r] \in Members /\
                           member'[r] = [WithoutMembersOf(O)[r] EXCEPT ![u] = NoMember]
    BY <1>2, <2>1
  <2>4. \A r \in Sessions : member'[r] \in Members
    BY <2>2, <2>3, ZenonT(60)
  <2>5. member' \in [Sessions -> Members]
    BY <1>2, <2>4
  <2>6. \A r \in Sessions, v \in Users :
           /\ ~member'[r][u].active
           /\ v # u => member'[r][v] = WithoutMembersOf(O)[r][v]
    BY <2>2, <2>3, ZenonT(60)
  <2> QED  BY <1>3, <2>1, <2>5, <2>6, ZenonT(60) DEF Members
<1>6. \A r \in Sessions, v \in Users : Joined(v, r)' <=> Joined(v, r) /\ v # u /\ r \notin O
  BY <1>1, <1>3, <1>4, <1>5 DEF Joined
<1>7. /\ user' \in [Users -> {"active", "suspended", "deleted"}]
      /\ \A v \in Users : v # u => user'[v] = user[v]
  BY <1>0, <1>1, <1>2 DEF DataTypes
<1>8. \A r \in Sessions \ O : session[r].epoch <= session'[r].epoch /\ session'[r].epoch \in Nat
  BY <1>4
<1>9. /\ device' \in [Devices -> {"none", "trusted", "revoked", "gone"}]
      /\ \A d \in Devices : UserOf[d] # u => device'[d] = device[d]
  BY <1>0, <1>2 DEF DataTypes
<1>10. envelopes' \subseteq envelopes /\ \A e \in envelopes' : e.sess \notin O
  BY <1>2 DEF WithoutEnvelopesOf
<1>11. DataTypes'
  <2>1. \A r \in Sessions, v \in Users :
           Joined(v, r)' => 0 < member'[r][v].joined /\ member'[r][v].joined <= session'[r].epoch
    <3> SUFFICES ASSUME NEW r \in Sessions, NEW v \in Users, Joined(v, r), v # u, r \notin O
                 PROVE  0 < member[r][v].joined /\ member[r][v].joined <= session'[r].epoch
      BY <1>5, <1>6
    <3>1. /\ member[r][v].joined \in Nat
          /\ 0 < member[r][v].joined /\ member[r][v].joined <= session[r].epoch
      BY <1>0 DEF DataTypes
    <3> QED  BY <1>4, <1>8, <3>1
  <2> QED  BY <1>0, <1>4, <1>5, <1>7, <1>9, <1>10, <2>1 DEF DataTypes, SessionRows
<1>12. DataOK'
  <2>1. MembersArePrivate'
    <3> SUFFICES ASSUME NEW r \in Sessions, NEW v \in Users, member'[r][v].active
                 PROVE  session'[r].mode = "private"
      BY DEF MembersArePrivate
    <3>1. r \notin O /\ v # u
      BY <1>5
    <3>2. member[r][v].active /\ session'[r].mode = session[r].mode
      BY <1>4, <1>5, <3>1
    <3> QED  BY <1>0, <3>2 DEF DataOK, MembersArePrivate
  <2>2. InactiveIsOut'
    BY <1>0, <1>6, <1>7 DEF DataOK, InactiveIsOut
  <2>3. ASSUME NEW e \in envelopes'
        PROVE  /\ session'[e.sess].mode = "private"
               /\ session[e.sess].epoch <= session'[e.sess].epoch
               /\ \A v \in Users : Joined(v, e.sess)' =>
                    Joined(v, e.sess) /\ member'[e.sess][v].joined = member[e.sess][v].joined
               /\ session'[e.sess].epoch = session[e.sess].epoch =>
                    /\ \A v \in Users : Joined(v, e.sess) => Joined(v, e.sess)'
                    /\ \A d \in Devices : device[d] = "trusted" /\ Joined(UserOf[d], e.sess) =>
                         device'[d] = "trusted"
    <3>1. e \in envelopes /\ e.sess \in Sessions \ O /\ session[e.sess].mode = "private"
      BY <1>0, <1>10 DEF DataTypes, Envelope, DataOK, EnvelopesAreSound
    <3> DEFINE s == e.sess
    <3> HIDE DEF s
    <3>0. s \in Sessions \ O
      BY <3>1 DEF s
    <3>2. session[s].epoch \in Nat /\ session[s].epoch <= session'[s].epoch /\
          session'[s].mode = session[s].mode /\ (s \in A => session'[s].epoch = session[s].epoch + 1)
      BY <1>4, <1>8, <3>0
    <3>3. session'[s].epoch = session[s].epoch => s \notin A
      BY <3>2
    <3>4. session'[s].epoch = session[s].epoch => ~Joined(u, s)
      BY <1>3, <3>0, <3>3
    <3>5. \A v \in Users : Joined(v, s)' <=> Joined(v, s) /\ v # u
      BY <1>6, <3>0
    <3>6. \A v \in Users : v # u => member'[s][v] = member[s][v]
      BY <1>5, <3>0
    <3>7. \A d \in Devices : device[d] = "trusted" /\ Joined(UserOf[d], s) /\ ~Joined(u, s) =>
             device'[d] = "trusted"
      BY <1>9
    <3> QED  BY <3>1, <3>2, <3>4, <3>5, <3>6, <3>7 DEF s
  <2> QED  BY <1>0, <1>10, <1>11, <2>1, <2>2, <2>3, EnvelopesStaySound DEF DataOK
<1>13. LockTypes' /\ LocksOK'
  BY <1>0, <1>1, <1>2, <1>7, EndKeepsLocks
<1>14. EnumerationCovers' /\ CheckStillHolds'
  <2>1. \A s \in Sessions : sessionLock[s] \in Txns \ {t} =>
           session'[s] = session[s] /\ \A v \in Users : Joined(v, s) => Joined(v, s)'
    BY <1>1, <1>3, <1>4, <1>6
  <2>2. \A d \in Devices, s \in Sessions :
           device[d] = "trusted" /\ Joined(UserOf[d], s) =>
              device'[d] = "trusted" \/ sessionLock[s] = t
    BY <1>1, <1>9
  <2> QED  BY <1>2, <1>6, <2>1, <2>2, EndKeepsReads
<1> QED  BY <1>11, <1>12, <1>13, <1>14, PartsPrimed

\* An envelope is stored: its audience is who belongs to the conversation now.
LEMMA InsertEnvelopeKeeps ==
  ASSUME IInv, NEW t \in Txns, InsertEnvelope(t)
  PROVE  IInv'
<1> DEFINE x == txn[t]
           audience == {u \in Users : Joined(u, x.sess)}
           sent == [sess |-> x.sess, from |-> x.dev, to |-> x.to, epoch |-> x.epoch,
                    audience |-> audience, devices |-> UNION {Trusted(u) : u \in audience}]
<1>0. DataTypes /\ LockTypes /\ LocksOK /\ DataOK
  BY Parts
<1>1. /\ envelopes' = envelopes \cup {sent}
      /\ End(t) /\ UNCHANGED <<user, device, session, member>> /\ x.pc = "insert"
  BY DEF InsertEnvelope
<1>2. /\ x \in Txn /\ x.sess \in Sessions /\ x.dev \in Devices /\ x.to \in Devices \cup {NoDevice}
      /\ x.epoch \in Nat
  <2>1. x.op = "send"
    BY <1>0, <1>1 DEF LocksOK, SessionsInOrder, LocksSessions
  <2> QED  BY <1>0, <1>1, <2>1 DEF LocksOK, RequestsAreSound, SoundRequest, LockTypes, Txn
<1>3. session[x.sess].mode = "private" /\ x.epoch = session[x.sess].epoch
  BY <1>1 DEF IInv, CheckStillHolds, Joined
<1>4. \A d \in UNION {Trusted(u) : u \in audience} :
        d \in Devices /\ UserOf[d] \in audience /\ device[d] = "trusted"
  BY DEF Trusted
<1>5. /\ sent \in Envelope /\ sent.sess = x.sess /\ sent.epoch = x.epoch
      /\ sent.audience = {u \in Users : Joined(u, x.sess)}
      /\ \A d \in sent.devices : UserOf[d] \in sent.audience /\ device[d] = "trusted"
  <2> DEFINE D == UNION {Trusted(u) : u \in audience}
  <2>1. D \in SUBSET Devices /\ audience \in SUBSET Users
    BY <1>4
  <2> HIDE DEF D, audience
  <2>2. sent = [sess |-> x.sess, from |-> x.dev, to |-> x.to, epoch |-> x.epoch,
                audience |-> audience, devices |-> D]
    BY DEF D
  <2>3. sent \in Envelope /\ sent.sess = x.sess /\ sent.epoch = x.epoch /\ sent.audience = audience /\
        sent.devices = D
    BY <1>2, <2>1, <2>2 DEF Envelope
  <2> QED  BY <1>4, <2>3 DEF D, audience
<1> HIDE DEF sent, x
<1>6. DataTypes'
  BY <1>0, <1>1, <1>5 DEF DataTypes, Joined
<1>7. MembersArePrivate' /\ InactiveIsOut'
  BY <1>0, <1>1 DEF DataOK, MembersArePrivate, InactiveIsOut, Joined
<1>8. \A r, v : Joined(v, r)' <=> Joined(v, r)
  BY <1>1 DEF Joined
<1>9. EnvelopesAreSound'
  <2>1. session[x.sess].epoch <= session[x.sess].epoch
    BY <1>2, <1>3
  <2> QED  BY <1>0, <1>1, <1>3, <1>5, <2>1 DEF DataOK, EnvelopesAreSound
<1>10. AudienceIsWhole'
  BY <1>0, <1>1, <1>5, <1>8 DEF DataOK, AudienceIsWhole
<1>11. LeaversAreCutOff'
  BY <1>0, <1>1, <1>5, <1>8 DEF DataOK, LeaversAreCutOff
<1>12. LockTypes' /\ LocksOK'
  BY <1>0, <1>1, EndKeepsLocks
<1>13. EnumerationCovers' /\ CheckStillHolds'
  BY <1>1, <1>8, EndKeepsReads
<1> QED  BY <1>6, <1>7, <1>9, <1>10, <1>11, <1>12, <1>13, PartsPrimed DEF DataOK

\* A step outside every transaction keeps their reads, as long as it touches no
\* account and no conversation that one of them has locked.
LEMMA OutsideKeepsReads ==
  ASSUME IInv, UNCHANGED <<txn, locks, user>>,
         \A u \in Users, s \in Sessions : Joined(u, s)' => Joined(u, s) \/ accountLock[u] = NoTxn,
         \A s \in Sessions : sessionLock[s] \in Txns /\ session[s].mode = "private" =>
            session'[s] = session[s] /\ \A u \in Users : Joined(u, s) => Joined(u, s)',
         \A d \in Devices : device[d] = "trusted" => device'[d] = "trusted"
  PROVE  LockTypes' /\ LocksOK' /\ EnumerationCovers' /\ CheckStillHolds'
<1> USE PrivateAssumption
<1>0. LockTypes /\ LocksOK /\ EnumerationCovers /\ CheckStillHolds
  BY Parts
<1>1. LockTypes' /\ LocksOK'
  BY <1>0 DEF LockTypes, LocksOK, AccountsInOrder, SessionsInOrder, RequestsAreSound, LocksAccounts,
     LocksSessions, SoundRequest, Accounts, Lockable, locks
<1>2. EnumerationCovers'
  <2> SUFFICES ASSUME NEW o \in Txns, NEW s \in Sessions,
                      txn[o].pc = "sessions" /\ txn[o].op \in Enumerating, Joined(txn[o].user, s)'
               PROVE  s \in txn[o].want \/ sessionLock[s] = o
    BY DEF EnumerationCovers, Joined, locks
  <2>1. txn[o].user \in Users /\ accountLock[txn[o].user] = o
    <3>1. txn[o].user \in Accounts(txn[o])
      BY <1>0 DEF LocksOK, RequestsAreSound, SoundRequest, Accounts, AdminOps, Enumerating
    <3> QED  BY <1>0, <3>1 DEF LocksOK, AccountsInOrder, LocksAccounts, LockTypes, Txn
  <2>2. Joined(txn[o].user, s)
    BY <2>1
  <2> QED  BY <1>0, <2>2 DEF EnumerationCovers
<1>3. CheckStillHolds'
  <2> SUFFICES ASSUME NEW o \in Txns, txn[o].pc = "insert"
               PROVE  /\ Joined(txn[o].actor, txn[o].sess)' /\ device'[txn[o].dev] = "trusted"
                      /\ txn[o].epoch = session'[txn[o].sess].epoch
                      /\ txn[o].to # NoDevice =>
                           device'[txn[o].to] = "trusted" /\ Joined(UserOf[txn[o].to], txn[o].sess)'
    BY DEF CheckStillHolds, Joined
  <2> DEFINE x == txn[o]
  <2>1. x.sess \in Sessions /\ x.actor \in Users /\ x.to \in Devices \cup {NoDevice} /\
        x.dev \in Devices /\ sessionLock[x.sess] = o
    BY <1>0 DEF LocksOK, RequestsAreSound, SoundRequest, SessionsInOrder, LocksSessions, LockTypes, Txn
  <2>2. /\ Joined(x.actor, x.sess) /\ device[x.dev] = "trusted"
        /\ x.epoch = session[x.sess].epoch
        /\ x.to # NoDevice => device[x.to] = "trusted" /\ Joined(UserOf[x.to], x.sess)
    BY <1>0 DEF CheckStillHolds
  <2>3. session'[x.sess] = session[x.sess] /\ \A u \in Users : Joined(u, x.sess) => Joined(u, x.sess)'
    <3>1. session[x.sess].mode = "private"
      BY <2>2 DEF Joined
    <3> QED  BY <2>1, <3>1
  <2>4. x' = x
    OBVIOUS
  <2>5. x.to # NoDevice => UserOf[x.to] \in Users
    BY <2>1
  <2> QED  BY <2>1, <2>2, <2>3, <2>4, <2>5
<1> QED  BY <1>1, <1>2, <1>3

\* A private conversation is created.
LEMMA CreateSessionKeeps ==
  ASSUME IInv, NEW u \in Users, NEW s \in Sessions, CreateSession(u, s)
  PROVE  IInv'
<1> DEFINE row == [mode |-> "private", owner |-> u, epoch |-> 1]
<1>0. DataTypes /\ LockTypes /\ DataOK
  BY Parts
<1>1. row \in [mode : Modes, owner : Users, epoch : Nat] /\ row.mode = "private" /\ row.epoch = 1
  BY DEF Modes
<1>2. /\ user[u] = "active" /\ accountLock[u] = NoTxn /\ session[s].mode = "none"
      /\ session' = [session EXCEPT ![s] = row]
      /\ member' = [member EXCEPT ![s][u] = [active |-> TRUE, joined |-> 1]]
      /\ UNCHANGED <<user, device, envelopes, txn, locks>>
  BY DEF CreateSession, FirstEpoch
<1> HIDE DEF row
<1>3. \A e \in envelopes : e.sess # s
  BY <1>0, <1>2 DEF DataOK, EnvelopesAreSound
<1>4. /\ DataTypes' /\ DataOK'
      /\ \A r \in Sessions, v \in Users : Joined(v, r)' <=> Joined(v, r) \/ (r = s /\ v = u)
      /\ \A r \in Sessions \ {s} : session'[r] = session[r]
  BY <1>0, <1>1, <1>2, <1>3, OpeningKeepsData
<1>5. LockTypes' /\ LocksOK' /\ EnumerationCovers' /\ CheckStillHolds'
  <2>1. \A r \in Sessions : session[r].mode = "private" => r # s
    BY <1>2
  <2> QED  BY <1>2, <1>4, <2>1, OutsideKeepsReads
<1> QED  BY <1>4, <1>5, PartsPrimed

\* A device is registered.
LEMMA RegisterDeviceKeeps ==
  ASSUME IInv, NEW d \in Devices, RegisterDevice(d)
  PROVE  IInv'
<1>0. DataTypes /\ LockTypes /\ DataOK
  BY Parts
<1>1. /\ device' = [device EXCEPT ![d] = "trusted"]
      /\ UNCHANGED <<user, session, member, envelopes, txn, locks>>
  BY DEF RegisterDevice
<1>2. /\ device' \in [Devices -> {"none", "trusted", "revoked", "gone"}]
      /\ \A c \in Devices : device[c] = "trusted" => device'[c] = "trusted"
  BY <1>0, <1>1 DEF DataTypes
<1>3. \A r, v : Joined(v, r)' <=> Joined(v, r)
  BY <1>1 DEF Joined
<1>4. DataTypes'
  BY <1>0, <1>1, <1>2, <1>3 DEF DataTypes
<1>5. MembersArePrivate' /\ InactiveIsOut' /\ EnvelopesAreSound' /\ AudienceIsWhole'
  BY <1>0, <1>1, <1>3 DEF DataOK, MembersArePrivate, InactiveIsOut, EnvelopesAreSound, AudienceIsWhole
<1>6. LeaversAreCutOff'
  <2>1. \A e \in envelopes : e.devices \in SUBSET Devices
    BY <1>0 DEF DataTypes, Envelope
  <2> QED  BY <1>0, <1>1, <1>2, <1>3, <2>1 DEF DataOK, LeaversAreCutOff
<1>7. LockTypes' /\ LocksOK' /\ EnumerationCovers' /\ CheckStillHolds'
  BY <1>1, <1>2, <1>3, OutsideKeepsReads
<1> QED  BY <1>4, <1>5, <1>6, <1>7, PartsPrimed DEF DataOK

\* The retention sweep deletes a conversation nobody has locked.
LEMMA SweepKeeps ==
  ASSUME IInv, NEW s \in Sessions, Sweep(s)
  PROVE  IInv'
<1>0. DataTypes /\ LockTypes /\ DataOK
  BY Parts
<1>1. /\ sessionLock[s] = NoTxn /\ session' = Deleted({s}) /\ member' = WithoutMembersOf({s})
      /\ envelopes' = WithoutEnvelopesOf({s}) /\ UNCHANGED <<user, device, txn, locks>>
  BY DEF Sweep
<1>2. {s} \in SUBSET Sessions
  OBVIOUS
<1>3. /\ DataTypes' /\ DataOK'
      /\ \A r \in Sessions, v \in Users : Joined(v, r)' <=> Joined(v, r) /\ r \notin {s}
      /\ \A r \in Sessions \ {s} : session'[r] = session[r]
  BY <1>0, <1>1, <1>2, DeletionKeepsData
<1>4. LockTypes' /\ LocksOK' /\ EnumerationCovers' /\ CheckStillHolds'
  BY <1>1, <1>3, OutsideKeepsReads, PrivateAssumption
<1> QED  BY <1>3, <1>4, PartsPrimed

-----------------------------------------------------------------------------
(* The theorems.                                                           *)

\* Every request that a client can make fits its operation when it begins.
LEMMA RequestKeeps ==
  ASSUME IInv, NEW t \in Txns, Request(t)
  PROVE  IInv'
<1> USE PrivateAssumption, IdleIsTxn
<1>1. ASSUME NEW s \in Sessions, NEW o \in Users, NEW u \in Users, AddMember(t, o, s, u)
      PROVE  IInv'
  <2> DEFINE x == [Idle EXCEPT !.op = "add", !.actor = o, !.user = u, !.sess = s]
  <2>1. x \in Txn /\ x.op = "add"
    BY DEF Txn, SessionOps
  <2>2. Begin(t, x)
    BY <1>1 DEF AddMember
  <2> HIDE DEF x
  <2> QED  BY <2>1, <2>2, BeginKeeps
<1>2. ASSUME NEW s \in Sessions, NEW o \in Users, NEW u \in Users, RemoveMember(t, o, s, u)
      PROVE  IInv'
  <2> DEFINE x == [Idle EXCEPT !.op = "remove", !.actor = o, !.user = u, !.sess = s]
  <2>1. x \in Txn /\ x.op = "remove"
    BY DEF Txn, SessionOps
  <2>2. Begin(t, x)
    BY <1>2 DEF RemoveMember
  <2> HIDE DEF x
  <2> QED  BY <2>1, <2>2, BeginKeeps
<1>3. ASSUME NEW s \in Sessions, NEW o \in Users, UpdateSessionSecurity(t, o, s)
      PROVE  IInv'
  <2> DEFINE x == [Idle EXCEPT !.op = "security", !.actor = o, !.sess = s]
  <2>1. x \in Txn /\ x.op = "security"
    BY DEF Txn, SessionOps
  <2>2. Begin(t, x)
    BY <1>3 DEF UpdateSessionSecurity
  <2> HIDE DEF x
  <2> QED  BY <2>1, <2>2, BeginKeeps
<1>4. ASSUME NEW s \in Sessions, NEW o \in Users, DeleteSession(t, o, s)
      PROVE  IInv'
  <2> DEFINE x == [Idle EXCEPT !.op = "delete_session", !.actor = o, !.sess = s]
  <2>1. x \in Txn /\ x.op = "delete_session"
    BY DEF Txn, SessionOps
  <2>2. Begin(t, x)
    BY <1>4 DEF DeleteSession
  <2> HIDE DEF x
  <2> QED  BY <2>1, <2>2, BeginKeeps
<1>5. ASSUME NEW a \in Users, NEW u \in Users, NEW op \in {"suspend", "reactivate"},
             UpdateUserStatus(t, a, u, op)
      PROVE  IInv'
  <2> DEFINE x == [Idle EXCEPT !.op = op, !.actor = a, !.user = u]
  <2>1. x \in Txn /\ x.op \in {"suspend", "reactivate"}
    BY DEF Txn, AdminOps
  <2>2. Begin(t, x)
    BY <1>5 DEF UpdateUserStatus
  <2> HIDE DEF x
  <2> QED  BY <2>1, <2>2, BeginKeeps
<1>6. ASSUME NEW a \in Users, NEW u \in Users, DeleteUser(t, a, u)
      PROVE  IInv'
  <2> DEFINE x == [Idle EXCEPT !.op = "delete_user", !.actor = a, !.user = u]
  <2>1. x \in Txn /\ x.op = "delete_user"
    BY DEF Txn, AdminOps
  <2>2. Begin(t, x)
    BY <1>6 DEF DeleteUser
  <2> HIDE DEF x
  <2> QED  BY <2>1, <2>2, BeginKeeps
<1>7. ASSUME NEW d \in Devices, RevokeDevice(t, d)
      PROVE  IInv'
  <2> DEFINE x == [Idle EXCEPT !.op = "revoke", !.actor = UserOf[d], !.user = UserOf[d], !.dev = d]
  <2>1. x \in Txn /\ x.op = "revoke" /\ x.dev = d /\ x.actor = UserOf[d] /\ x.user = UserOf[d]
    BY DEF Txn
  <2>2. Begin(t, x)
    BY <1>7 DEF RevokeDevice
  <2> HIDE DEF x
  <2> QED  BY <2>1, <2>2, BeginKeeps
<1>8. ASSUME NEW d \in Devices, NEW to \in Devices \cup {NoDevice}, NEW s \in Sessions,
             NEW e \in 1..MaxEpoch, SendEnvelope(t, d, to, s, e)
      PROVE  IInv'
  <2> DEFINE x == [Idle EXCEPT !.op = "send", !.actor = UserOf[d], !.dev = d, !.to = to,
                               !.sess = s, !.epoch = e]
  <2>0. e \in Nat /\ UserOf[d] \in Users
    OBVIOUS
  <2>1. x \in Txn /\ x.op = "send" /\ x.dev = d /\ x.actor = UserOf[d]
    BY <2>0 DEF Txn, SessionOps
  <2>2. Begin(t, x)
    BY <1>8 DEF SendEnvelope
  <2> HIDE DEF x
  <2> QED  BY <2>1, <2>2, BeginKeeps
<1> QED  BY <1>1, <1>2, <1>3, <1>4, <1>5, <1>6, <1>7, <1>8 DEF Request

\* The inductive invariant holds of every behaviour: the order of the locks, the
\* coverage of an enumeration, and what is stored about members and envelopes.
THEOREM Invariance == Spec => []IInv
<1>1. Init => IInv
  <2> SUFFICES ASSUME Init PROVE IInv
    OBVIOUS
  <2> USE PrivateAssumption, IdleIsTxn
  <2>1. \A s \in Sessions, u \in Users : ~member[s][u].active /\ ~Joined(u, s)
    BY DEF Init, NoMember, Joined
  <2>2. DataTypes
    BY <2>1 DEF Init, DataTypes, NoMember, Modes
  <2>3. LockTypes
    BY DEF Init, LockTypes
  <2>4. LocksOK
    BY DEF Init, LocksOK, AccountsInOrder, SessionsInOrder, RequestsAreSound, LocksAccounts, LocksSessions,
       SoundRequest
  <2>5. DataOK
    BY <2>1 DEF Init, DataOK, MembersArePrivate, InactiveIsOut, EnvelopesAreSound, AudienceIsWhole,
       LeaversAreCutOff
  <2>6. EnumerationCovers /\ CheckStillHolds
    BY DEF Init, EnumerationCovers, CheckStillHolds
  <2> QED  BY <2>2, <2>3, <2>4, <2>5, <2>6, Parts
<1>2. IInv /\ [Next]_vars => IInv'
  <2> SUFFICES ASSUME IInv, [Next]_vars PROVE IInv'
    OBVIOUS
  <2>1. ASSUME NEW t \in Txns, Request(t) PROVE IInv'
    BY <2>1, RequestKeeps
  <2>2. ASSUME NEW t \in Txns, LockStep(t) PROVE IInv'
    BY <2>2, LockAccountKeeps, LockDeviceKeeps, EnumerateKeeps, LockSessionKeeps, SkipSessionKeeps,
       CheckEnvelopeKeeps DEF LockStep
  <2>3. ASSUME NEW t \in Txns, Commit(t) PROVE IInv'
    BY <2>3, AddMemberCommitKeeps, RemoveMemberCommitKeeps, UpdateSessionSecurityCommitKeeps,
       DeleteSessionCommitKeeps, RevokeDeviceCommitKeeps, SuspendCommitKeeps, ReactivateCommitKeeps,
       DeleteUserCommitKeeps, InsertEnvelopeKeeps DEF Commit
  <2>4. ASSUME NEW t \in Txns, Abort(t) PROVE IInv'
    BY <2>4, AbortKeeps
  <2>5. ASSUME NEW u \in Users, NEW s \in Sessions, CreateSession(u, s) PROVE IInv'
    BY <2>5, CreateSessionKeeps
  <2>6. ASSUME NEW d \in Devices, RegisterDevice(d) PROVE IInv'
    BY <2>6, RegisterDeviceKeeps
  <2>7. ASSUME NEW s \in Sessions, Sweep(s) PROVE IInv'
    BY <2>7, SweepKeeps
  <2>8. CASE UNCHANGED vars
    <3>1. LockTypes' /\ LocksOK' /\ EnumerationCovers' /\ CheckStillHolds'
      BY <2>8, OutsideKeepsReads DEF vars, locks, Joined
    <3>2. DataTypes' /\ DataOK'
      BY <2>8, DataFrame, Parts DEF vars, db
    <3> QED  BY <3>1, <3>2, PartsPrimed
  <2> QED  BY <2>1, <2>2, <2>3, <2>4, <2>5, <2>6, <2>7, <2>8 DEF Next
<1> QED  BY <1>1, <1>2, PTL DEF Spec

\* A removed member, a revoked device, a suspended or a deleted account is cut
\* off for good, and at the moment an envelope is stored its sender and its
\* recipient belong to the conversation on trusted devices, although the
\* recipient's account was never locked (send_e2ee_envelope).
THEOREM OutsidersAreOut == Spec => OutsidersStayOut
<1>1. IInv => TypeOK /\ InactiveIsOut /\ LeaversAreCutOff
  BY DEF IInv
<1>2. IInv /\ [Next]_vars =>
        [\A e \in envelopes' \ envelopes :
          /\ Joined(UserOf[e.from], e.sess)' /\ device'[e.from] = "trusted"
          /\ user'[UserOf[e.from]] = "active"
          /\ e.to # NoDevice => /\ Joined(UserOf[e.to], e.sess)' /\ device'[e.to] = "trusted"
                                /\ user'[UserOf[e.to]] = "active"
          /\ e.epoch = session'[e.sess].epoch]_vars
  <2> SUFFICES ASSUME IInv, Next, NEW e \in envelopes' \ envelopes
               PROVE  /\ Joined(UserOf[e.from], e.sess)' /\ device'[e.from] = "trusted"
                      /\ user'[UserOf[e.from]] = "active"
                      /\ e.to # NoDevice => /\ Joined(UserOf[e.to], e.sess)' /\ device'[e.to] = "trusted"
                                            /\ user'[UserOf[e.to]] = "active"
                      /\ e.epoch = session'[e.sess].epoch
    OBVIOUS
  <2>1. PICK t \in Txns : InsertEnvelope(t)
    <3>1. ~(envelopes' \subseteq envelopes)
      OBVIOUS
    <3>2. ASSUME NEW t \in Txns, Request(t) PROVE FALSE
      <4>1. \A x : Begin(t, x) => envelopes' = envelopes
        BY DEF Begin, db
      <4>2. \E x : Begin(t, x)
        BY <3>2, Zenon DEF Request, AddMember, RemoveMember, UpdateSessionSecurity, DeleteSession,
           UpdateUserStatus, DeleteUser, RevokeDevice, SendEnvelope
      <4> QED  BY <3>1, <4>1, <4>2
    <3>3. ASSUME NEW t \in Txns, LockStep(t) PROVE FALSE
      BY <3>1, <3>3, SMTT(60) DEF LockStep, LockAccount, LockDevice, Enumerate, LockSession, SkipSession,
         CheckEnvelope, db
    <3>4. ASSUME NEW t \in Txns, Commit(t) PROVE InsertEnvelope(t)
      BY <3>1, <3>4 DEF Commit, AddMemberCommit, RemoveMemberCommit, UpdateSessionSecurityCommit,
         DeleteSessionCommit, RevokeDeviceCommit, SuspendCommit, ReactivateCommit, DeleteUserCommit,
         WithoutEnvelopesOf
    <3>5. ASSUME NEW t \in Txns, Abort(t) PROVE FALSE
      BY <3>1, <3>5 DEF Abort, db
    <3>6. ASSUME NEW u \in Users, NEW s \in Sessions, CreateSession(u, s) PROVE FALSE
      BY <3>1, <3>6 DEF CreateSession
    <3>7. ASSUME NEW d \in Devices, RegisterDevice(d) PROVE FALSE
      BY <3>1, <3>7 DEF RegisterDevice
    <3>8. ASSUME NEW s \in Sessions, Sweep(s) PROVE FALSE
      BY <3>1, <3>8 DEF Sweep, WithoutEnvelopesOf
    <3> QED  BY <3>2, <3>3, <3>4, <3>5, <3>6, <3>7, <3>8 DEF Next
  <2> DEFINE x == txn[t]
  <2>2. /\ x.pc = "insert" /\ UNCHANGED <<user, device, session, member>>
        /\ e.sess = x.sess /\ e.from = x.dev /\ e.to = x.to /\ e.epoch = x.epoch
    BY <2>1 DEF InsertEnvelope
  <2>3. /\ Joined(x.actor, x.sess) /\ device[x.dev] = "trusted" /\ x.epoch = session[x.sess].epoch
        /\ x.to # NoDevice => device[x.to] = "trusted" /\ Joined(UserOf[x.to], x.sess)
    BY <2>2 DEF IInv, CheckStillHolds
  <2>4. /\ x.sess \in Sessions /\ x.actor \in Users /\ x.actor = UserOf[x.dev]
        /\ x.to # NoDevice => UserOf[x.to] \in Users
    <3>1. x \in Txn /\ x.op = "send"
      BY <2>2, Parts DEF LockTypes, LocksOK, SessionsInOrder, LocksSessions
    <3>2. x.actor = UserOf[x.dev]
      BY <2>2, <3>1, Parts DEF LocksOK, RequestsAreSound, SoundRequest
    <3> QED  BY <3>1, <3>2, PrivateAssumption DEF Txn
  <2>5. user[x.actor] = "active" /\ (x.to # NoDevice => user[UserOf[x.to]] = "active")
    BY <2>3, <2>4 DEF IInv, InactiveIsOut
  <2>6. \A r, v : Joined(v, r)' <=> Joined(v, r)
    BY <2>2 DEF Joined
  <2> QED  BY <2>2, <2>3, <2>4, <2>5, <2>6
<1> QED  BY <1>1, <1>2, Invariance, PTL DEF Spec, OutsidersStayOut, NoStrayEnvelope

\* What a member can fetch was sent while that account was a member, however
\* often it has left and come back (receive_e2ee_envelopes).
THEOREM ReadersBelonged == Spec => []ReadersWereMembers
<1>1. IInv => ReadersWereMembers
  <2> SUFFICES ASSUME IInv, NEW s \in Sessions, NEW u \in Users, Joined(u, s), NEW e \in Visible(u, s)
               PROVE  u \in e.audience
    BY DEF ReadersWereMembers
  <2>1. e \in envelopes /\ e.sess = s /\ e.epoch >= member[s][u].joined
    BY DEF Visible
  <2>2. e.epoch \in Nat /\ member[s][u].joined \in Nat
    BY <2>1 DEF IInv, TypeOK, Envelope
  <2> QED  BY <2>1, <2>2 DEF IInv, AudienceIsWhole
<1> QED  BY <1>1, Invariance, PTL

\* A relation on a finite set in which everyone points to someone of a greater
\* rank cannot be.
LEMMA NoEndlessAscent ==
  ASSUME NEW S, IsFiniteSet(S), S # {}, NEW f \in [S -> Nat],
         \A t \in S : \E o \in S : f[t] < f[o]
  PROVE  FALSE
<1> DEFINE Rising(T) == T # {} /\ \A t \in T : \E o \in T : f[t] < f[o]
           N == {n \in Nat : \E T \in SUBSET S : Rising(T) /\ Cardinality(T) = n}
<1>1. Cardinality(S) \in N
  <2>1. Cardinality(S) \in Nat
    BY FS_CardinalityType
  <2> QED  BY <2>1
<1>2. Min(N) \in N /\ \A n \in N : Min(N) <= n
  BY <1>1, MinIsLeast
<1>3. PICK T \in SUBSET S : Rising(T) /\ Cardinality(T) = Min(N)
  BY <1>2
<1>4. PICK t \in T : TRUE
  BY <1>3
<1>5. PICK o \in T : f[t] < f[o]
  BY <1>3, <1>4
<1> DEFINE U == T \ {t}
<1>6. IsFiniteSet(T) /\ Cardinality(T) \in Nat
  BY FS_Subset, FS_CardinalityType
<1>7. IsFiniteSet(U) /\ Cardinality(U) \in Nat /\ Cardinality(U) = Cardinality(T) - 1
  BY <1>4, <1>6, FS_RemoveElement, FS_CardinalityType
<1>8. Rising(U)
  <2>1. o \in U
    BY <1>5
  <2>2. \A r \in U : \E q \in U : f[r] < f[q]
    <3> SUFFICES ASSUME NEW r \in U PROVE \E q \in U : f[r] < f[q]
      OBVIOUS
    <3>1. PICK q \in T : f[r] < f[q]
      BY <1>3
    <3>2. CASE q = t
      <4>1. f[r] \in Nat /\ f[t] \in Nat /\ f[o] \in Nat
        OBVIOUS
      <4>2. f[r] < f[o]
        BY <1>5, <3>1, <3>2, <4>1
      <4> QED  BY <2>1, <4>2
    <3>3. CASE q # t
      BY <3>1, <3>3
    <3> QED  BY <3>2, <3>3
  <2> QED  BY <2>1, <2>2
<1>9. Cardinality(U) \in N
  BY <1>7, <1>8
<1>10. Min(N) <= Cardinality(U)
  BY <1>2, <1>9
<1> QED  BY <1>3, <1>6, <1>7, <1>10

\* Transactions that wait for each other's accounts and conversations never wait
\* in a circle, however many there are: the order of lock_user_row and
\* lock_chat_session_row keeps its promise.
THEOREM RowsNeverCircular == Spec => []NoCircularRowWait
<1>1. IInv => NoCircularRowWait
  <2> SUFFICES ASSUME IInv, NEW S \in SUBSET Txns, Circle(S), \A t, o \in S : ~WaitsForDevice(t, o)
               PROVE  FALSE
    BY DEF NoCircularRowWait
  <2> USE PrivateAssumption
  <2>0. LockTypes /\ LocksOK
    BY Parts
  <2>1. S # {} /\ \A t \in S : \E o \in S : WaitsForRow(t, o)
    BY DEF Circle
  <2> DEFINE A == {t \in S : txn[t].pc = "accounts"}
             C == {t \in S : txn[t].pc = "sessions"}
             f == [t \in S |-> Min(txn[t].want)]
  <2>2. ASSUME NEW t \in S
        PROVE  /\ txn[t].pc = "accounts" \/ txn[t].pc = "sessions"
               /\ Min(txn[t].want) \in txn[t].want /\ Min(txn[t].want) \in Nat
               /\ txn[t].pc = "accounts" => Min(txn[t].want) \in Users
               /\ txn[t].pc = "sessions" => Min(txn[t].want) \in Sessions
    <3>1. txn[t].pc = "accounts" \/ (txn[t].pc = "sessions" /\ txn[t].want # {})
      BY <2>1 DEF WaitsForRow
    <3>2. LocksAccounts(t) /\ LocksSessions(t) /\ Accounts(txn[t]) \subseteq Users
      BY <2>0, AccountsType DEF LocksOK, AccountsInOrder, SessionsInOrder, LockTypes
    <3>3. txn[t].pc = "accounts" => txn[t].want # {} /\ txn[t].want \subseteq Users
      BY <3>2 DEF LocksAccounts
    <3>4. txn[t].pc = "sessions" => txn[t].want \subseteq Sessions
      BY <3>2 DEF LocksSessions
    <3>5. txn[t].want # {} /\ txn[t].want \in SUBSET Nat
      BY <3>1, <3>3, <3>4
    <3>6. Min(txn[t].want) \in txn[t].want
      BY <3>5, MinIsLeast
    <3> QED  BY <3>1, <3>3, <3>4, <3>5, <3>6
  <2>3. ASSUME NEW t \in S PROVE f[t] = Min(txn[t].want) /\ f[t] \in Nat
    BY <2>2
  <2> HIDE DEF f
  <2>4. ASSUME NEW t \in S, NEW o \in S, WaitsForRow(t, o), txn[t].pc = "accounts",
               txn[o].pc = "accounts"
        PROVE  f[t] < f[o]
    <3>1. accountLock[f[t]] = o /\ f[t] \in Users
      BY <2>2, <2>3, <2>4 DEF WaitsForRow, NextAccount
    <3>2. \A w \in txn[o].want : f[t] < w
      BY <2>0, <2>4, <3>1 DEF LocksOK, AccountsInOrder, LocksAccounts
    <3>3. f[o] \in txn[o].want
      BY <2>2, <2>3
    <3> QED  BY <3>2, <3>3
  <2>5. ASSUME NEW t \in S, NEW o \in S, WaitsForRow(t, o), txn[t].pc = "sessions"
        PROVE  txn[o].pc = "sessions" /\ f[t] < f[o]
    <3>1. sessionLock[f[t]] = o /\ f[t] \in Sessions
      BY <2>2, <2>3, <2>5 DEF WaitsForRow
    <3>2. /\ txn[o].pc \in {"sessions", "insert"}
          /\ txn[o].pc = "sessions" => \A w \in txn[o].want : f[t] < w
      BY <2>0, <3>1 DEF LocksOK, SessionsInOrder, LocksSessions
    <3>3. txn[o].pc = "sessions" /\ f[o] \in txn[o].want
      BY <2>2, <2>3, <3>2
    <3> QED  BY <3>2, <3>3
  <2>6. f \in [S -> Nat]
    BY <2>3 DEF f
  <2>7. IsFiniteSet(A) /\ IsFiniteSet(C)
    <3>1. A \in SUBSET Txns /\ C \in SUBSET Txns
      OBVIOUS
    <3> QED  BY <3>1, FS_Subset
  <2>8. CASE C # {}
    <3> DEFINE g == [t \in C |-> f[t]]
    <3>1. g \in [C -> Nat]
      BY <2>6
    <3>2. \A t \in C : \E o \in C : g[t] < g[o]
      BY <2>1, <2>5
    <3> HIDE DEF g, C
    <3> QED  BY <2>7, <2>8, <3>1, <3>2, NoEndlessAscent
  <2>9. CASE C = {}
    <3>1. A = S
      <4>1. \A t \in S : txn[t].pc = "accounts" \/ txn[t].pc = "sessions"
        BY <2>2
      <4> QED  BY <2>9, <4>1
    <3>2. \A t \in S : \E o \in S : f[t] < f[o]
      BY <2>1, <2>4, <3>1
    <3> HIDE DEF A
    <3> QED  BY <2>1, <2>6, <2>7, <3>1, <3>2, NoEndlessAscent
  <2> QED  BY <2>8, <2>9
<1> QED  BY <1>1, Invariance, PTL
=============================================================================
