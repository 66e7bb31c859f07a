-------------------------- MODULE MCPrivateSessions --------------------------
(***************************************************************************)
(* Model-checking instances of PrivateSessions and of the reference        *)
(* clients of private conversations.  As in MCAuthSessions, a run explores *)
(* several loads, each a mix of operations with its bounds; those of a     *)
(* client are behaviours of that client alone, in x1..x7.                  *)
(***************************************************************************)
EXTENDS PrivateSessions, TLC

CONSTANTS Loads, d1, d2, d3, t1, t2, v1, v2, v3

VARIABLES load, x1, x2, x3, x4, x5, x6, x7

shared == <<x1, x2, x3, x4, x5, x6, x7>>
state == <<vars, load, shared>>

Unused == 0

\* Account 1 has the devices d1 and d3, account 2 the device d2, and account 3
\* is the administrator.
DeviceOwners == [d \in Devices |-> IF d = d2 THEN 2 ELSE 1]

Bounds == [
    \* Members leave and come back while others send.
    members |-> [ops |-> {"add", "remove", "send"}, owners |-> {1}, users |-> {1, 2},
                 sessions |-> {1}, devices |-> {d1, d2}, epoch |-> 4,
                 sweep |-> FALSE],
    \* Accounts are suspended and reactivated while they are added and send.
    accounts |-> [ops |-> {"add", "send", "suspend", "reactivate"}, owners |-> {1},
                  users |-> {2}, sessions |-> {1}, devices |-> {d1, d2}, epoch |-> 3,
                  sweep |-> FALSE],
    \* A member with two devices revokes them while envelopes are on the way.
    devices |-> [ops |-> {"add", "send", "revoke"}, owners |-> {2}, users |-> {1, 2},
                 sessions |-> {1}, devices |-> {d1, d2, d3}, epoch |-> 3,
                 sweep |-> FALSE],
    \* Conversations change mode, and they and their members are deleted.
    endings |-> [ops |-> {"add", "send", "security", "delete_session", "delete_user"},
                 owners |-> {1}, users |-> {1, 2}, sessions |-> {1}, devices |-> {d1, d2},
                 epoch |-> 2, sweep |-> TRUE],
    \* Owners add each other to two conversations while both are being ended.
    locks |-> [ops |-> {"add", "suspend", "delete_user"}, owners |-> {1, 2}, users |-> {1, 2},
               sessions |-> {1, 2}, devices |-> {}, epoch |-> 2,
               sweep |-> TRUE]]

Bound == Bounds[load]

Sending == {t \in Txns : txn[t].pc # "idle" /\ txn[t].op = "send"}

\* The step stays inside the load.  Two envelopes at once would only wait for
\* each other at the conversation's lock; one is sent beside other operations.
Within ==
    /\ Cardinality(Sending') <= 1
    /\ \A t \in Txns : txn'[t].pc # "idle" =>
          /\ txn'[t].op \in Bound.ops
          /\ txn'[t].op \in AdminOps \cup {"add", "remove"} => txn'[t].user \in Bound.users
    /\ \A s \in Sessions : /\ session'[s].epoch <= Bound.epoch
                           /\ session'[s].mode # "none" => /\ s \in Bound.sessions
                                                           /\ session'[s].owner \in Bound.owners
    /\ \A d \in Devices : device'[d] # "none" => d \in Bound.devices
    /\ UNCHANGED <<load, shared>>

-----------------------------------------------------------------------------
(* The clients, each with its bounds.                                      *)

\* A client that writes to one that registers, refills its prekeys and crashes once;
\* crashes of a client that writes are in the next load.
O == INSTANCE OlmClient WITH
        disk <- x1, mem <- x2, pc <- x3, relay <- x4, wire <- x5, texts <- x6, crashes <- x7,
        Devices <- {v1, v2}, Peer <- [d \in {v1, v2} |-> IF d = v1 THEN v2 ELSE v1],
        Makes <- [d \in {v1, v2} |-> IF d = v1 THEN 1 ELSE 2],
        Writes <- [d \in {v1, v2} |-> IF d = v1 THEN 1 ELSE 0], MaxCrash <- 1

\* A client that writes twice and one that answers, through one crash.
O2 == INSTANCE OlmClient WITH
        disk <- x1, mem <- x2, pc <- x3, relay <- x4, wire <- x5, texts <- x6, crashes <- x7,
        Devices <- {v1, v2}, Peer <- [d \in {v1, v2} |-> IF d = v1 THEN v2 ELSE v1],
        Makes <- [d \in {v1, v2} |-> 1],
        Writes <- [d \in {v1, v2} |-> IF d = v1 THEN 2 ELSE 1], MaxCrash <- 1

\* An owner who makes two changes while another member writes, through one crash.
G == INSTANCE MlsClient WITH
        disk <- x1, mem <- x2, pc <- x3, relay <- x4, wire <- x5, begun <- x6, crashes <- x7,
        Devices <- {v1, v2, v3}, Owner <- v1, Unmet <- {},
        Calls <- [d \in {v1, v2, v3} |-> CASE d = v1 -> 2 [] d = v2 -> 1 [] d = v3 -> 0],
        MaxEpoch <- 3, MaxCrash <- 1

\* Three changes, while others change the membership too.
G2 == INSTANCE MlsClient WITH
        disk <- x1, mem <- x2, pc <- x3, relay <- x4, wire <- x5, begun <- x6, crashes <- x7,
        Devices <- {v1, v2, v3}, Owner <- v1, Unmet <- {<<v3, v2>>},
        Calls <- [d \in {v1, v2, v3} |-> IF d = v1 THEN 3 ELSE 0],
        MaxEpoch <- 4, MaxCrash <- 0

-----------------------------------------------------------------------------

OnRelay   == load \in DOMAIN Bounds
OnClients == load = "clients" /\ UNCHANGED <<load, vars>>
OnVault   == load = "vault"   /\ UNCHANGED <<load, vars>>
OnGroup   == load = "group"   /\ UNCHANGED <<load, vars>>
OnRegroup == load = "regroup" /\ UNCHANGED <<load, vars>>

MCInit ==
    /\ Init /\ load \in Loads
    /\ \/ /\ load \in DOMAIN Bounds
          /\ x1 = Unused /\ x2 = Unused /\ x3 = Unused /\ x4 = Unused /\ x5 = Unused
          /\ x6 = Unused /\ x7 = Unused
       \/ load = "clients" /\ O!Init
       \/ load = "vault"   /\ O2!Init
       \/ load = "group"   /\ G!Init
       \/ load = "regroup" /\ G2!Init

RelayNext ==
    \/ OnRelay /\ \E u \in Users, s \in Sessions : CreateSession(u, s) /\ Within
    \/ OnRelay /\ \E d \in Devices : RegisterDevice(d) /\ Within
    \/ OnRelay /\ Bound.sweep /\ \E s \in Sessions : Sweep(s) /\ Within
    \/ OnRelay /\ \E t \in Txns, s \in Sessions, o, u \in Users : AddMember(t, o, s, u) /\ Within
    \/ OnRelay /\ \E t \in Txns, s \in Sessions, o, u \in Users : RemoveMember(t, o, s, u) /\ Within
    \/ OnRelay /\ \E t \in Txns, s \in Sessions, o \in Users : UpdateSessionSecurity(t, o, s) /\ Within
    \/ OnRelay /\ \E t \in Txns, s \in Sessions, o \in Users : DeleteSession(t, o, s) /\ Within
    \/ OnRelay /\ \E t \in Txns, a, u \in Users, op \in {"suspend", "reactivate"} :
          UpdateUserStatus(t, a, u, op) /\ Within
    \/ OnRelay /\ \E t \in Txns, a, u \in Users : DeleteUser(t, a, u) /\ Within
    \/ OnRelay /\ \E t \in Txns, d \in Devices : RevokeDevice(t, d) /\ Within
    \/ OnRelay /\ \E t \in Txns, d \in Devices, to \in Devices \cup {NoDevice}, s \in Sessions,
          e \in 1..Bound.epoch : SendEnvelope(t, d, to, s, e) /\ Within
    \/ OnRelay /\ \E t \in Txns : LockAccount(t) /\ Within
    \/ OnRelay /\ \E t \in Txns : LockDevice(t) /\ Within
    \/ OnRelay /\ \E t \in Txns : Enumerate(t) /\ Within
    \/ OnRelay /\ \E t \in Txns : LockSession(t) /\ Within
    \/ OnRelay /\ \E t \in Txns : SkipSession(t) /\ Within
    \/ OnRelay /\ \E t \in Txns : CheckEnvelope(t) /\ Within
    \/ OnRelay /\ \E t \in Txns : AddMemberCommit(t) /\ Within
    \/ OnRelay /\ \E t \in Txns : RemoveMemberCommit(t) /\ Within
    \/ OnRelay /\ \E t \in Txns : UpdateSessionSecurityCommit(t) /\ Within
    \/ OnRelay /\ \E t \in Txns : DeleteSessionCommit(t) /\ Within
    \/ OnRelay /\ \E t \in Txns : RevokeDeviceCommit(t) /\ Within
    \/ OnRelay /\ \E t \in Txns : SuspendCommit(t) /\ Within
    \/ OnRelay /\ \E t \in Txns : ReactivateCommit(t) /\ Within
    \/ OnRelay /\ \E t \in Txns : DeleteUserCommit(t) /\ Within
    \/ OnRelay /\ \E t \in Txns : InsertEnvelope(t) /\ Within
    \/ OnRelay /\ \E t \in Txns : Abort(t) /\ Within

ClientsNext ==
    \/ OnClients /\ \E d \in {v1, v2} : O!Save(d)
    \/ OnClients /\ \E replaced \in BOOLEAN : O!SaveFails(v2, replaced)
    \/ OnClients /\ O!Reopen(v2)
    \/ OnClients /\ \E d \in {v1, v2} : O!RegistrationOffer(d)
    \/ OnClients /\ O!RegisterDevice(v1, TRUE)
    \/ OnClients /\ \E heard \in BOOLEAN : O!RegisterDevice(v2, heard)
    \/ OnClients /\ \E k \in O!Keys : O!SweepPrekey(k)
    \/ OnClients /\ O!Refill(v2)
    \/ OnClients /\ \E heard \in BOOLEAN : O!Upload(v2, heard)
    \/ OnClients /\ \E heard \in BOOLEAN : O!PinPeer(v1, heard)
    \/ OnClients /\ O!Prepare(v1)
    \/ OnClients /\ \E taken, heard \in BOOLEAN : O!Flush(v1, taken, heard)
    \/ OnClients /\ O!Receive(v2)

VaultNext ==
    \/ OnVault /\ \E d \in {v1, v2} : O2!Save(d)
    \/ OnVault /\ \E d \in {v1, v2}, replaced \in BOOLEAN : O2!SaveFails(d, replaced)
    \/ OnVault /\ \E d \in {v1, v2} : O2!Reopen(d)
    \/ OnVault /\ \E d \in {v1, v2} : O2!RegistrationOffer(d)
    \/ OnVault /\ \E d \in {v1, v2} : O2!RegisterDevice(d, TRUE)
    \/ OnVault /\ \E d \in {v1, v2} : O2!PinPeer(d, TRUE)
    \/ OnVault /\ \E d \in {v1, v2} : O2!Prepare(d)
    \/ OnVault /\ \E d \in {v1, v2}, taken, heard \in BOOLEAN : O2!Flush(d, taken, heard)
    \/ OnVault /\ \E d \in {v1, v2} : O2!Receive(d)

GroupNext ==
    \/ OnGroup /\ G!Create
    \/ OnGroup /\ \E p \in {v2, v3}, remove \in BOOLEAN : G!ChangeMember(p, remove)
    \/ OnGroup /\ \E d \in {v1, v2, v3} : G!Save(d)
    \/ OnGroup /\ \E d \in {v1, v2, v3}, replaced \in BOOLEAN : G!SaveFails(d, replaced)
    \/ OnGroup /\ \E d \in {v1, v2, v3} : G!Reopen(d)
    \/ OnGroup /\ \E d \in {v1, v2} : G!Send(d)
    \/ OnGroup /\ \E d \in {v1, v2} : G!Retry(d)
    \/ OnGroup /\ \E d \in {v1, v2} : G!Route(d)
    \/ OnGroup /\ \E heard \in BOOLEAN : G!ChangeRelay(v1, heard)
    \/ OnGroup /\ G!CheckMembers(v1)
    \/ OnGroup /\ \E d \in {v1, v2}, heard \in BOOLEAN : G!Post(d, heard)
    \/ OnGroup /\ \E d \in {v1, v2} : G!Posted(d)
    \/ OnGroup /\ \E d \in {v1, v2, v3} : G!Receive(d)

RegroupNext ==
    \/ OnRegroup /\ G2!Create
    \/ OnRegroup /\ \E p \in {v2, v3}, remove \in BOOLEAN : G2!RelayChange(p, remove)
    \/ OnRegroup /\ \E p \in {v2, v3}, remove \in BOOLEAN : G2!ChangeMember(p, remove)
    \/ OnRegroup /\ G2!PinOffer(v3, v2)
    \/ OnRegroup /\ \E d \in {v1, v2, v3} : G2!Save(d)
    \/ OnRegroup /\ G2!Send(v1)
    \/ OnRegroup /\ G2!Retry(v1)
    \/ OnRegroup /\ G2!Route(v1)
    \/ OnRegroup /\ \E heard \in BOOLEAN : G2!ChangeRelay(v1, heard)
    \/ OnRegroup /\ G2!CheckMembers(v1)
    \/ OnRegroup /\ \E heard \in BOOLEAN : G2!Post(v1, heard)
    \/ OnRegroup /\ G2!Posted(v1)
    \/ OnRegroup /\ \E d \in {v1, v2, v3} : G2!Receive(d)

MCNext == RelayNext \/ ClientsNext \/ VaultNext \/ GroupNext \/ RegroupNext

MCSpec == MCInit /\ [][MCNext]_state

\* No definition tells two transactions apart, nor two devices of one account.
Symmetry == Permutations(Txns) \cup Permutations({d1, d3})

-----------------------------------------------------------------------------
\* The reference clients never encrypt two messages with one key and never fork a
\* group; what is on the relay for a device can be opened from its vault file,
\* through crashes, failed saves and lost answers (apart from the prekeys that
\* OlmClient calls Resurrected and the known Halts of MlsClient); and the members whom the relay serves are those who
\* hold the group's secret.
NothingIsStranded ==
    /\ load = "clients" => O!TypeOK /\ O!KeyEncryptsOnce /\ O!NothingIsStranded
    /\ load = "vault" => O2!TypeOK /\ O2!KeyEncryptsOnce /\ O2!NothingIsStranded
    /\ load = "group" => G!TypeOK /\ G!GroupNeverForks /\ G!RosterIsMembership /\ G!NextEnvelopeOpens
    /\ load = "regroup" => G2!TypeOK /\ G2!GroupNeverForks /\ G2!RosterIsMembership /\ G2!NextEnvelopeOpens
=============================================================================
