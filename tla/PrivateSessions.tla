--------------------------- MODULE PrivateSessions ---------------------------
(***************************************************************************)
(* Private (end-to-end encrypted) conversations: who belongs to them, the  *)
(* epoch that names each membership, and the envelopes the server relays   *)
(* (src/app/main.py, the e2ee routes and the administration of accounts).  *)
(*                                                                         *)
(* Every handler is one database transaction.  It locks accounts in id     *)
(* order, then a device row if it revokes one, then conversations in id    *)
(* order, and commits all of its changes at once, so it is modelled as one *)
(* step per lock and one step for the commit.  Reads see what is committed *)
(* (READ COMMITTED).  That the bearer and its step-up are valid under the  *)
(* account lock is the subject of AuthSessions: here a request that fails  *)
(* that check, or any other, aborts.                                       *)
(***************************************************************************)
EXTENDS Naturals, FiniteSets, FiniteSetsExt

CONSTANTS
    Users,          \* account ids
    Admins,         \* accounts with the admin role
    Sessions,       \* conversation ids
    Devices,        \* device ids
    UserOf,         \* the account that registers each device
    NoDevice,       \* the recipient of an envelope for the whole group
    Txns,           \* transactions in progress at once
    NoTxn,          \* a lock nobody holds
    Ops,            \* the operations that requests ask for
    MaxEpoch,       \* bound on current_crypto_epoch
    MaxMessages     \* max_messages_per_session

AdminOps   == {"suspend", "reactivate", "delete_user"}
SessionOps == {"add", "remove", "send", "security", "delete_session"}

ASSUME PrivateAssumption ==
    /\ Users \subseteq Nat /\ Users # {}
    /\ Sessions \subseteq Nat /\ Sessions # {}
    /\ Admins \subseteq Users
    /\ UserOf \in [Devices -> Users]
    /\ NoDevice \notin Devices
    /\ IsFiniteSet(Txns) /\ NoTxn \notin Txns
    /\ Ops \subseteq AdminOps \cup SessionOps \cup {"revoke"}
    /\ MaxEpoch \in Nat
    /\ MaxMessages \in Nat

VARIABLES
    user,           \* users.is_active, or deleted
    device,         \* e2ee_devices.trust_state
    session,        \* chat_sessions: mode, owner, current_crypto_epoch
    member,         \* conversation_members, by conversation and account
    envelopes,      \* e2ee_envelopes, with the audience each had when sent
    txn,            \* transactions in progress
    accountLock, sessionLock, deviceLock

db    == <<user, device, session, member, envelopes>>
locks == <<accountLock, sessionLock, deviceLock>>
vars  == <<user, device, session, member, envelopes, txn, accountLock, sessionLock, deviceLock>>

Modes == {"none", "secure", "private", "gone"}
Pcs == {"idle", "accounts", "device", "enumerate", "sessions", "insert"}
NoMember == [active |-> FALSE, joined |-> 0]

Txn == [pc : Pcs, op : AdminOps \cup SessionOps \cup {"revoke"}, actor : Users, user : Users,
        sess : Sessions, dev : Devices \cup {NoDevice}, to : Devices \cup {NoDevice},
        epoch : Nat, want : SUBSET Nat]
Envelope == [sess : Sessions, from : Devices, to : Devices \cup {NoDevice}, epoch : Nat,
             audience : SUBSET Users, devices : SUBSET Devices]

Joined(u, s) == session[s].mode = "private" /\ member[s][u].active

TypeOK ==
    /\ user \in [Users -> {"active", "suspended", "deleted"}]
    /\ device \in [Devices -> {"none", "trusted", "revoked", "gone"}]
    /\ session \in [Sessions -> [mode : Modes, owner : Users, epoch : Nat]]
    /\ member \in [Sessions -> [Users -> [active : BOOLEAN, joined : Nat]]]
    /\ \A s \in Sessions, u \in Users :
          Joined(u, s) => 0 < member[s][u].joined /\ member[s][u].joined <= session[s].epoch
    /\ envelopes \in SUBSET Envelope
    /\ txn \in [Txns -> Txn]
    /\ accountLock \in [Users -> Txns \cup {NoTxn}]
    /\ sessionLock \in [Sessions -> Txns \cup {NoTxn}]
    /\ deviceLock \in [Devices -> Txns \cup {NoTxn}]

Idle == [pc |-> "idle", op |-> "send", actor |-> CHOOSE u \in Users : TRUE,
         user |-> CHOOSE u \in Users : TRUE, sess |-> CHOOSE s \in Sessions : TRUE,
         dev |-> NoDevice, to |-> NoDevice, epoch |-> 0, want |-> {}]

Init ==
    /\ user = [u \in Users |-> "active"]
    /\ device = [d \in Devices |-> "none"]
    /\ session = [s \in Sessions |-> [mode |-> "none", owner |-> Idle.user, epoch |-> 0]]
    /\ member = [s \in Sessions |-> [u \in Users |-> NoMember]]
    /\ envelopes = {}
    /\ txn = [t \in Txns |-> Idle]
    /\ accountLock = [u \in Users |-> NoTxn]
    /\ sessionLock = [s \in Sessions |-> NoTxn]
    /\ deviceLock = [d \in Devices |-> NoTxn]

-----------------------------------------------------------------------------
(* Transactions: locks, commit, abort.                                     *)

Exists(s) == session[s].mode \in {"secure", "private"}
Owns(u, s) == Exists(s) /\ session[s].owner = u
Trusted(u) == {d \in Devices : UserOf[d] = u /\ device[d] = "trusted"}

\* The accounts a request locks.
Accounts(x) ==
    IF x.op \in AdminOps \cup {"add"} THEN {x.actor, x.user} ELSE {x.actor}

Begin(t, x) ==
    /\ x.op \in Ops
    /\ txn[t].pc = "idle"
    /\ user[x.actor] = "active"
    /\ txn' = [txn EXCEPT ![t] = [x EXCEPT !.pc = "accounts", !.want = Accounts(x)]]
    /\ UNCHANGED <<db, locks>>

\* lock_user_row, which wants an active account except for the account that an
\* administrator acts on.
Lockable(x, u) ==
    IF x.op \in AdminOps /\ u # x.actor THEN user[u] # "deleted" ELSE user[u] = "active"

\* What follows once the accounts are locked.
AccountsLocked(x) ==
    IF x.op = "revoke" THEN [x EXCEPT !.pc = "device", !.want = {}]
    ELSE IF x.op \in SessionOps THEN [x EXCEPT !.pc = "sessions", !.want = {x.sess}]
    ELSE IF x.op = "reactivate" THEN [x EXCEPT !.pc = "sessions", !.want = {}]
    ELSE [x EXCEPT !.pc = "enumerate", !.want = {}]

\* Mutation of NextAccount: the caller's account is locked first.
CallerFirst(x) == IF x.actor \in x.want THEN x.actor ELSE Min(x.want)

\* Accounts are locked in id order.
NextAccount(x) == Min(x.want)

LockAccount(t) ==
    LET x == txn[t]
        u == NextAccount(x)
    IN  /\ x.pc = "accounts"
        /\ accountLock[u] = NoTxn
        /\ Lockable(x, u)
        /\ accountLock' = [accountLock EXCEPT ![u] = t]
        /\ txn' = [txn EXCEPT ![t] = IF x.want = {u} THEN AccountsLocked(x)
                                                     ELSE [x EXCEPT !.want = @ \ {u}]]
        /\ UNCHANGED <<db, sessionLock, deviceLock>>

\* revoke_e2ee_device: SELECT ... FOR UPDATE of the device, and the refusal to
\* revoke the last trusted one.
LockDevice(t) ==
    LET x == txn[t]
    IN  /\ x.pc = "device"
        /\ deviceLock[x.dev] = NoTxn
        /\ device[x.dev] = "trusted"
        /\ Cardinality(Trusted(x.actor)) > 1
        /\ deviceLock' = [deviceLock EXCEPT ![x.dev] = t]
        /\ txn' = [txn EXCEPT ![t].pc = "enumerate"]
        /\ UNCHANGED <<db, accountLock, sessionLock>>

\* The conversations the request will touch, read without locking them.
Enumerate(t) ==
    LET x == txn[t]
        joined == {s \in Sessions : Joined(x.user, s)}
        owned == {s \in Sessions : Exists(s) /\ session[s].owner = x.user}
    IN  /\ x.pc = "enumerate"
        /\ txn' = [txn EXCEPT ![t].pc = "sessions",
                              ![t].want = joined \cup (IF x.op = "delete_user" THEN owned ELSE {})]
        /\ UNCHANGED <<db, locks>>

\* lock_chat_session_row on the next conversation, in id order.
LockSession(t) ==
    LET s == Min(txn[t].want)
    IN  /\ txn[t].pc = "sessions" /\ txn[t].want # {}
        /\ Exists(s)
        /\ sessionLock[s] = NoTxn
        /\ sessionLock' = [sessionLock EXCEPT ![s] = t]
        /\ txn' = [txn EXCEPT ![t].want = @ \ {s}]
        /\ UNCHANGED <<db, accountLock, deviceLock>>

\* The conversation was deleted meanwhile: the enumerating handlers go on.
SkipSession(t) ==
    LET s == Min(txn[t].want)
    IN  /\ txn[t].pc = "sessions" /\ txn[t].want # {}
        /\ txn[t].op \notin SessionOps
        /\ ~Exists(s)
        /\ txn' = [txn EXCEPT ![t].want = @ \ {s}]
        /\ UNCHANGED <<db, locks>>

\* The end of a transaction gives back its locks.
End(t) ==
    /\ txn' = [txn EXCEPT ![t] = Idle]
    /\ accountLock' = [u \in Users |-> IF accountLock[u] = t THEN NoTxn ELSE accountLock[u]]
    /\ sessionLock' = [s \in Sessions |-> IF sessionLock[s] = t THEN NoTxn ELSE sessionLock[s]]
    /\ deviceLock' = [d \in Devices |-> IF deviceLock[d] = t THEN NoTxn ELSE deviceLock[d]]

\* A failed check, a lost connection, or PostgreSQL breaking a circular wait.
Abort(t) ==
    /\ txn[t].pc # "idle"
    /\ End(t)
    /\ UNCHANGED db

Ready(t, op) == txn[t].pc = "sessions" /\ txn[t].want = {} /\ txn[t].op = op
Held(t) == {s \in Sessions : sessionLock[s] = t}
\* Mutation of StillJoined: only the conversations the account owns count.
OwnConversations(t, u) == {s \in Held(t) : Joined(u, s) /\ session[s].owner = u}
\* The locked conversations in which the account is still active.
StillJoined(t, u) == {s \in Held(t) : Joined(u, s)}

\* Mutation of Advance: the routing epoch is the clients' business.
KeepEpoch(S) == session

\* current_crypto_epoch += 1 in the conversations of S.
Advance(S) == [s \in Sessions |-> IF s \in S THEN [session[s] EXCEPT !.epoch = @ + 1]
                                             ELSE session[s]]
MayAdvance(S) == \A s \in S : session[s].epoch < MaxEpoch

-----------------------------------------------------------------------------
(* Operations that take one account lock only, and the retention sweep.    *)

\* A private conversation starts at epoch 1.
FirstEpoch == 1

\* create_session_endpoint with security_mode private_e2ee.
CreateSession(u, s) ==
    /\ user[u] = "active" /\ accountLock[u] = NoTxn
    /\ session[s].mode = "none"
    /\ session' = [session EXCEPT ![s] = [mode |-> "private", owner |-> u, epoch |-> FirstEpoch]]
    /\ member' = [member EXCEPT ![s][u] = [active |-> TRUE, joined |-> 1]]
    /\ UNCHANGED <<user, device, envelopes, txn, locks>>

\* register_e2ee_device, once its proofs are accepted (module E2eeDevices).
RegisterDevice(d) ==
    /\ user[UserOf[d]] = "active" /\ accountLock[UserOf[d]] = NoTxn
    /\ device[d] = "none"
    /\ device' = [device EXCEPT ![d] = "trusted"]
    /\ UNCHANGED <<user, session, member, envelopes, txn, locks>>

\* Rows that go with a deleted conversation.
WithoutEnvelopesOf(S) == {e \in envelopes : e.sess \notin S}
WithoutMembersOf(S) == [s \in Sessions |-> IF s \in S THEN [u \in Users |-> NoMember] ELSE member[s]]
Deleted(S) == [s \in Sessions |-> IF s \in S THEN [session[s] EXCEPT !.mode = "gone", !.epoch = 0]
                                             ELSE session[s]]

\* enforce_retention deletes a conversation past its deadline; the DELETE waits
\* for the row lock and takes no account lock.
Sweep(s) ==
    /\ Exists(s) /\ sessionLock[s] = NoTxn
    /\ session' = Deleted({s})
    /\ member' = WithoutMembersOf({s})
    /\ envelopes' = WithoutEnvelopesOf({s})
    /\ UNCHANGED <<user, device, txn, locks>>

-----------------------------------------------------------------------------
(* Members.                                                                *)

AddMember(t, o, s, u) ==
    /\ user[u] = "active"
    /\ Owns(o, s)
    /\ Begin(t, [Idle EXCEPT !.op = "add", !.actor = o, !.user = u, !.sess = s])

AddMemberCommit(t) ==
    LET x == txn[t]
        s == x.sess
    IN  /\ Ready(t, "add")
        /\ session[s].mode = "private" /\ session[s].owner = x.actor
        /\ ~member[s][x.user].active
        /\ MayAdvance({s})
        /\ session' = Advance({s})
        /\ member' = [member EXCEPT ![s][x.user] = [active |-> TRUE, joined |-> session'[s].epoch]]
        /\ End(t)
        /\ UNCHANGED <<user, device, envelopes>>

RemoveMember(t, o, s, u) ==
    /\ Owns(o, s)
    /\ u # o
    /\ Begin(t, [Idle EXCEPT !.op = "remove", !.actor = o, !.user = u, !.sess = s])

RemoveMemberCommit(t) ==
    LET x == txn[t]
        s == x.sess
    IN  /\ Ready(t, "remove")
        /\ session[s].mode = "private" /\ session[s].owner = x.actor
        /\ member[s][x.user].active
        /\ MayAdvance({s})
        /\ session' = Advance({s})
        /\ member' = [member EXCEPT ![s][x.user].active = FALSE]
        /\ End(t)
        /\ UNCHANGED <<user, device, envelopes>>

\* update_session_security: only a conversation without content changes mode.
UpdateSessionSecurity(t, o, s) ==
    /\ Owns(o, s)
    /\ Begin(t, [Idle EXCEPT !.op = "security", !.actor = o, !.sess = s])

UpdateSessionSecurityCommit(t) ==
    LET x == txn[t]
        s == x.sess
    IN  /\ Ready(t, "security")
        /\ session[s].owner = x.actor
        /\ \A e \in envelopes : e.sess # s
        /\ IF session[s].mode = "private"
             THEN /\ session' = [session EXCEPT ![s].mode = "secure", ![s].epoch = 0]
                  /\ member' = WithoutMembersOf({s})
             ELSE /\ session' = [session EXCEPT ![s].mode = "private", ![s].epoch = FirstEpoch]
                  /\ member' = [member EXCEPT ![s][x.actor] = [active |-> TRUE, joined |-> 1]]
        /\ End(t)
        /\ UNCHANGED <<user, device, envelopes>>

DeleteSession(t, o, s) ==
    /\ Owns(o, s)
    /\ Begin(t, [Idle EXCEPT !.op = "delete_session", !.actor = o, !.sess = s])

DeleteSessionCommit(t) ==
    /\ Ready(t, "delete_session")
    /\ session[txn[t].sess].owner = txn[t].actor
    /\ session' = Deleted({txn[t].sess})
    /\ member' = WithoutMembersOf({txn[t].sess})
    /\ envelopes' = WithoutEnvelopesOf({txn[t].sess})
    /\ End(t)
    /\ UNCHANGED <<user, device>>

-----------------------------------------------------------------------------
(* Devices and accounts.                                                   *)

RevokeDevice(t, d) ==
    /\ device[d] = "trusted"
    /\ Begin(t, [Idle EXCEPT !.op = "revoke", !.actor = UserOf[d], !.user = UserOf[d], !.dev = d])

RevokeDeviceCommit(t) ==
    LET affected == StillJoined(t, txn[t].actor)
    IN  /\ Ready(t, "revoke")
        /\ MayAdvance(affected)
        /\ device' = [device EXCEPT ![txn[t].dev] = "revoked"]
        /\ session' = Advance(affected)
        /\ End(t)
        /\ UNCHANGED <<user, member, envelopes>>

\* revoke_active_e2ee_memberships.
Expelled(S, u) == [s \in Sessions |-> IF s \in S THEN [member[s] EXCEPT ![u].active = FALSE]
                                                 ELSE member[s]]

UpdateUserStatus(t, a, u, op) ==
    /\ a \in Admins
    /\ op = "suspend" => a # u
    /\ Begin(t, [Idle EXCEPT !.op = op, !.actor = a, !.user = u])

SuspendCommit(t) ==
    LET u == txn[t].user
        affected == StillJoined(t, u)
    IN  /\ Ready(t, "suspend")
        /\ MayAdvance(affected)
        /\ session' = Advance(affected)
        /\ member' = Expelled(affected, u)
        /\ user' = [user EXCEPT ![u] = "suspended"]
        /\ End(t)
        /\ UNCHANGED <<device, envelopes>>

ReactivateCommit(t) ==
    /\ Ready(t, "reactivate")
    /\ user' = [user EXCEPT ![txn[t].user] = "active"]
    /\ End(t)
    /\ UNCHANGED <<device, session, member, envelopes>>

DeleteUser(t, a, u) ==
    /\ a \in Admins /\ u \notin Admins
    /\ Begin(t, [Idle EXCEPT !.op = "delete_user", !.actor = a, !.user = u])

\* The account, its devices, its conversations and the envelopes for its
\* devices are deleted.  The foreign key on sender_device_id is RESTRICT: while
\* an envelope of the account is left in somebody else's conversation, the
\* database refuses and the request fails.
DeleteUserCommit(t) ==
    LET u == txn[t].user
        owned == {s \in Held(t) : session[s].owner = u}
        affected == StillJoined(t, u) \ owned
    IN  /\ Ready(t, "delete_user")
        /\ MayAdvance(affected)
        /\ \A e \in WithoutEnvelopesOf(owned) : UserOf[e.from] # u
        /\ user' = [user EXCEPT ![u] = "deleted"]
        /\ device' = [d \in Devices |-> IF UserOf[d] = u /\ device[d] # "none" THEN "gone"
                                        ELSE device[d]]
        /\ session' = [s \in Sessions |-> IF s \in owned THEN Deleted(owned)[s]
                                                         ELSE Advance(affected)[s]]
        /\ member' = [s \in Sessions |-> [WithoutMembersOf(owned)[s] EXCEPT ![u] = NoMember]]
        /\ envelopes' = {e \in WithoutEnvelopesOf(owned) : e.to = NoDevice \/ UserOf[e.to] # u}
        /\ End(t)

-----------------------------------------------------------------------------
(* Envelopes.                                                              *)

\* The client names the epoch it believes to be current; a device that is not
\* trusted, a conversation that is gone or an epoch already past would be
\* refused for good.
SendEnvelope(t, d, to, s, epoch) ==
    /\ device[d] = "trusted"
    /\ Exists(s) /\ epoch >= session[s].epoch
    /\ Begin(t, [Idle EXCEPT !.op = "send", !.actor = UserOf[d], !.dev = d, !.to = to,
                             !.sess = s, !.epoch = epoch])

EpochAccepted(x) ==
    /\ x.epoch >= member[x.sess][x.actor].joined
    /\ x.epoch = session[x.sess].epoch

\* require_private_member_session and the checks of send_e2ee_envelope, under
\* the sender's account lock and the conversation lock.  The recipient's
\* account is not locked.
CheckEnvelope(t) ==
    LET x == txn[t]
    IN  /\ Ready(t, "send")
        /\ Joined(x.actor, x.sess)
        /\ device[x.dev] = "trusted"
        /\ EpochAccepted(x)
        /\ x.to # NoDevice => device[x.to] = "trusted" /\ Joined(UserOf[x.to], x.sess)
        /\ Cardinality({e \in envelopes : e.sess = x.sess}) < MaxMessages
        /\ txn' = [txn EXCEPT ![t].pc = "insert"]
        /\ UNCHANGED <<db, locks>>

\* The foreign keys of the new row need both device rows: the INSERT waits for
\* a transaction that has locked one of them FOR UPDATE.
InsertEnvelope(t) ==
    LET x == txn[t]
        audience == {u \in Users : Joined(u, x.sess)}
    IN  /\ x.pc = "insert"
        /\ deviceLock[x.dev] = NoTxn
        /\ x.to # NoDevice => deviceLock[x.to] = NoTxn
        /\ envelopes' = envelopes \cup
             {[sess |-> x.sess, from |-> x.dev, to |-> x.to, epoch |-> x.epoch,
               audience |-> audience, devices |-> UNION {Trusted(u) : u \in audience}]}
        /\ End(t)
        /\ UNCHANGED <<user, device, session, member>>

\* receive_e2ee_envelopes: what an active member may fetch.
Visible(u, s) ==
    {e \in envelopes : /\ e.sess = s
                       /\ e.epoch >= member[s][u].joined
                       /\ e.to = NoDevice \/ e.to \in Trusted(u)}

-----------------------------------------------------------------------------

Request(t) ==
    \/ \E s \in Sessions, o, u \in Users : AddMember(t, o, s, u) \/ RemoveMember(t, o, s, u)
    \/ \E s \in Sessions, o \in Users : UpdateSessionSecurity(t, o, s) \/ DeleteSession(t, o, s)
    \/ \E a, u \in Users, op \in {"suspend", "reactivate"} : UpdateUserStatus(t, a, u, op)
    \/ \E a, u \in Users : DeleteUser(t, a, u)
    \/ \E d \in Devices : RevokeDevice(t, d)
    \/ \E d \in Devices, to \in Devices \cup {NoDevice}, s \in Sessions, e \in 1..MaxEpoch :
          SendEnvelope(t, d, to, s, e)

LockStep(t) ==
    \/ LockAccount(t) \/ LockDevice(t) \/ Enumerate(t) \/ LockSession(t) \/ SkipSession(t)
    \/ CheckEnvelope(t)

Commit(t) ==
    \/ AddMemberCommit(t) \/ RemoveMemberCommit(t)
    \/ UpdateSessionSecurityCommit(t) \/ DeleteSessionCommit(t)
    \/ RevokeDeviceCommit(t) \/ SuspendCommit(t) \/ ReactivateCommit(t) \/ DeleteUserCommit(t)
    \/ InsertEnvelope(t)

Next ==
    \/ \E t \in Txns : Request(t) \/ LockStep(t) \/ Commit(t) \/ Abort(t)
    \/ \E u \in Users, s \in Sessions : CreateSession(u, s)
    \/ \E d \in Devices : RegisterDevice(d)
    \/ \E s \in Sessions : Sweep(s)

Spec == Init /\ [][Next]_vars

-----------------------------------------------------------------------------
(* Properties.                                                             *)

\* A suspended or deleted account is a member of no private conversation, even
\* when its owner was adding it at that very moment.
InactiveIsOut ==
    \A u \in Users, s \in Sessions : user[u] # "active" => ~Joined(u, s)

\* E2EE_CLIENT_CONTRACT.md: a removed member or a revoked device can neither
\* send nor receive in a new epoch.  So whoever was in the audience of an
\* envelope and has left since is behind: the conversation's epoch is newer.
LeaversAreCutOff ==
    \A e \in envelopes :
        e.epoch < session[e.sess].epoch
        \/ (/\ \A u \in e.audience : Joined(u, e.sess)
            /\ \A d \in e.devices : device[d] = "trusted")

\* What a member can fetch was sent while that account was a member: leaving
\* and coming back opens no view of what was said in between.
ReadersWereMembers ==
    \A s \in Sessions, u \in Users :
        Joined(u, s) => \A e \in Visible(u, s) : u \in e.audience

\* At the moment an envelope is stored, its sender and its recipient are active
\* members on trusted devices and its epoch is current, although the recipient
\* was checked earlier and without a lock on its account.
NoStrayEnvelope ==
    [][\A e \in envelopes' \ envelopes :
          /\ Joined(UserOf[e.from], e.sess)' /\ device'[e.from] = "trusted"
          /\ user'[UserOf[e.from]] = "active"
          /\ e.to # NoDevice => /\ Joined(UserOf[e.to], e.sess)' /\ device'[e.to] = "trusted"
                                /\ user'[UserOf[e.to]] = "active"
          /\ e.epoch = session'[e.sess].epoch]_vars

\* Removal, revocation, suspension and deletion cut off: none of those is in the
\* audience of the present epoch, and none sends or is sent to from then on.
OutsidersStayOut == [](TypeOK /\ InactiveIsOut /\ LeaversAreCutOff) /\ NoStrayEnvelope

\* Transaction t waits for an account or a conversation that o has locked.
WaitsForRow(t, o) ==
    LET x == txn[t]
    IN  \/ x.pc = "accounts" /\ accountLock[NextAccount(x)] = o
        \/ x.pc = "sessions" /\ x.want # {} /\ sessionLock[Min(x.want)] = o

\* Transaction t waits for a device that o has locked.
WaitsForDevice(t, o) ==
    LET x == txn[t]
    IN  \/ x.pc = "device" /\ deviceLock[x.dev] = o
        \/ x.pc = "insert" /\ (deviceLock[x.dev] = o \/ (x.to # NoDevice /\ deviceLock[x.to] = o))

Circle(S) == S # {} /\ \A t \in S : \E o \in S : WaitsForRow(t, o) \/ WaitsForDevice(t, o)

\* The order of accounts and conversations keeps its promise: owners who add
\* each other, and administrators who suspend or delete them meanwhile, never
\* wait in a circle that no device row is part of.
NoCircularRowWait ==
    \A S \in SUBSET Txns : Circle(S) => \E t, o \in S : WaitsForDevice(t, o)

\* require_owned_session: "Mutations always lock the account before the
\* conversation.  This is the common order used by MFA disable, suspension and
\* E2EE lifecycle operations, preventing both stale authorization and
\* deadlocks."  No transactions ever wait for each other in a circle.
NoCircularWait == ~\E S \in SUBSET Txns : Circle(S)
-----------------------------------------------------------------------------
(* The inductive invariant.                                                *)

Enumerating == {"revoke", "suspend", "delete_user"}

\* Accounts are locked in id order, those of the request and no others, and each
\* stays fit for the request until it is given back.
LocksAccounts(t) ==
    LET x == txn[t]
    IN  /\ \A u \in Users : accountLock[u] = t =>
              /\ x.pc # "idle" /\ u \in Accounts(x) /\ Lockable(x, u)
              /\ x.pc = "accounts" => \A w \in x.want : u < w
        /\ x.pc = "accounts" =>
              /\ x.want # {} /\ x.want \subseteq Accounts(x)
              /\ \A u \in Accounts(x) \ x.want : accountLock[u] = t
        /\ x.pc \notin {"idle", "accounts"} => \A u \in Accounts(x) : accountLock[u] = t

AccountsInOrder == \A t \in Txns : LocksAccounts(t)

\* Conversations come after the accounts, in id order.
LocksSessions(t) ==
    LET x == txn[t]
    IN  /\ \A s \in Sessions : sessionLock[s] = t =>
              /\ x.pc \in {"sessions", "insert"}
              /\ x.pc = "sessions" => \A w \in x.want : s < w
        /\ x.pc = "sessions" => x.want \subseteq Sessions
        /\ x.pc = "sessions" /\ x.op \in SessionOps =>
              \/ x.want = {x.sess}
              \/ x.want = {} /\ sessionLock[x.sess] = t
        /\ x.pc = "insert" => x.op = "send" /\ sessionLock[x.sess] = t

SessionsInOrder == \A t \in Txns : LocksSessions(t)

\* What a request asks for fits its operation.
SoundRequest(t) ==
    LET x == txn[t]
    IN  /\ x.pc # "idle" /\ x.op = "send" => x.dev \in Devices /\ x.actor = UserOf[x.dev]
        /\ x.pc # "idle" /\ x.op = "revoke" =>
              x.dev \in Devices /\ x.actor = UserOf[x.dev] /\ x.user = x.actor
        /\ x.pc = "device" => x.op = "revoke"
        /\ x.pc = "enumerate" => x.op \in Enumerating

RequestsAreSound == \A t \in Txns : SoundRequest(t)

\* Only a private conversation has members.
MembersArePrivate ==
    \A s \in Sessions, u \in Users : member[s][u].active => session[s].mode = "private"

\* The conversations read before they were locked still cover the account: no
\* conversation is joined behind the back of a revocation, a suspension or a
\* deletion.
EnumerationCovers ==
    \A t \in Txns, s \in Sessions :
        txn[t].pc = "sessions" /\ txn[t].op \in Enumerating /\ Joined(txn[t].user, s) =>
            s \in txn[t].want \/ sessionLock[s] = t

\* A stored envelope belongs to a private conversation that has reached its
\* epoch, and names devices of its audience.
EnvelopesAreSound ==
    \A e \in envelopes :
        /\ session[e.sess].mode = "private" /\ e.epoch <= session[e.sess].epoch
        /\ \A d \in e.devices : UserOf[d] \in e.audience

\* Whoever has been a member since an epoch is in the audience of every envelope
\* of it, whichever device it is for.
AudienceIsWhole ==
    \A e \in envelopes, u \in Users :
        Joined(u, e.sess) /\ member[e.sess][u].joined <= e.epoch => u \in e.audience

\* What CheckEnvelope established still holds when the row is inserted.
CheckStillHolds ==
    \A t \in Txns :
        LET x == txn[t]
        IN  x.pc = "insert" =>
              /\ Joined(x.actor, x.sess) /\ device[x.dev] = "trusted"
              /\ x.epoch = session[x.sess].epoch
              /\ x.to # NoDevice => device[x.to] = "trusted" /\ Joined(UserOf[x.to], x.sess)

IInv ==
    /\ TypeOK /\ AccountsInOrder /\ SessionsInOrder /\ RequestsAreSound
    /\ MembersArePrivate /\ EnumerationCovers /\ InactiveIsOut
    /\ EnvelopesAreSound /\ AudienceIsWhole /\ LeaversAreCutOff /\ CheckStillHolds

=============================================================================
