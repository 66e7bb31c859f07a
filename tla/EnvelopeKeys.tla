----------------------------- MODULE EnvelopeKeys ---------------------------
(***************************************************************************)
(* Which key every stored ciphertext is under, and whether it can still be *)
(* opened: per-conversation and per-account data keys (DEKs) wrapped by    *)
(* versioned keys (KEKs), their caches in the workers, and the operator's  *)
(* scripts that move old data to new keys beside the running service       *)
(* (src/app/envelope.py, src/app/key_management.py, scripts/rewrap_deks,   *)
(* scripts/migrate_envelope_encryption, scripts/rotate_encryption_key).    *)
(*                                                                         *)
(* A ciphertext is the key it was made with; AES-GCM opens it with that    *)
(* key and no other.  Requests that write hold the conversation lock and   *)
(* are one step; a script reads its rows, then commits, without a lock.    *)
(***************************************************************************)
EXTENDS Naturals, FiniteSets

CONSTANTS
    Processes,       \* processes of the service
    Conversations,      \* chat_sessions
    OldSession,        \* the conversation that an old release left behind
    Msgs,          \* secure_messages
    OldMsg,           \* the message that an old release left behind
    MaxEpoch,      \* bound: crypto epochs of a conversation
    MaxDek         \* bound: data keys ever generated

\* What the proofs assume of them.
ASSUME KeysAssumption ==
    /\ OldSession \in Conversations
    /\ MaxEpoch \in Nat \ {0} /\ MaxDek \in Nat

VARIABLES
    conf,          \* keyring each worker was started with
    env,           \* keyring in the environment
    chat,          \* chat_sessions
    keyEpoch,         \* session_key_epochs
    msg,           \* secure_messages
    account,       \* one account's users.secret_* columns and its TOTP seed
    cache,         \* _cache of each worker
    deks,          \* data keys generated so far
    rot,           \* rotate_session_dek between its read and its commit
    script         \* the operator's script

envelopeVars == <<conf, env, chat, keyEpoch, msg, account, cache, deks, rot, script>>

-----------------------------------------------------------------------------
(* The keyring: first one key, then a second that is active, then only it. *)

Ring(c) == CASE c = 1 -> {1} [] c = 2 -> {1, 2} [] c = 3 -> {2}
Active(c) == IF c = 1 THEN 1 ELSE 2

Kek(v) == [kind |-> "kek", n |-> v]
Dek(d) == [kind |-> "dek", n |-> d]

\* No data key, and a row of session_key_epochs that does not exist.
NoKey == [dek |-> 0, kek |-> 0]
Wrapped == [dek : 0..MaxDek, kek : 0..2]
Epochs == 1..MaxEpoch

NewMsg == [in |-> OldSession, state |-> "new", scheme |-> "legacy", ver |-> 0, key |-> Kek(0)]

KeyNames == [kind : {"kek", "dek"}, n : Nat]
NoScript == [pc |-> "idle", rows |-> {}, keys |-> {}]

EnvelopeTypeOK ==
    /\ conf \in [Processes -> 1..3]
    /\ env \in 1..3
    /\ chat \in [Conversations -> [mode : {"none", "secure", "private", "gone"}, epoch : 0..MaxEpoch,
                              key : Wrapped]]
    /\ keyEpoch \in [Conversations \X Epochs -> Wrapped]
    /\ msg \in [Msgs -> [in : Conversations, state : {"new", "kept", "gone"},
                         scheme : {"legacy", "envelope"}, ver : 0..MaxEpoch + 1, key : KeyNames]]
    /\ account \in [key : Wrapped, seed : KeyNames]
    /\ deks \in 0..MaxDek
    /\ rot \in [Conversations -> 0..MaxEpoch]
    /\ script.pc \in {"idle", "rewrap", "migrate", "rotate", "done"}

\* The state an older release left: a conversation, a message and a TOTP seed
\* under the shared key.
EnvelopeInit ==
    /\ conf = [w \in Processes |-> 1]
    /\ env = 1
    /\ chat = [s \in Conversations |-> [mode |-> IF s = OldSession THEN "secure" ELSE "none",
                                   epoch |-> 0, key |-> NoKey]]
    /\ keyEpoch = [x \in Conversations \X Epochs |-> NoKey]
    /\ msg = [m \in Msgs |->
                IF m = OldMsg THEN [in |-> OldSession, state |-> "kept", scheme |-> "legacy", ver |-> 1, key |-> Kek(1)]
                ELSE NewMsg]
    /\ account = [key |-> NoKey, seed |-> Kek(1)]
    /\ cache = [w \in Processes |-> {}]
    /\ deks = 0
    /\ rot = [s \in Conversations |-> 0]
    /\ script = NoScript

-----------------------------------------------------------------------------
(* The service.                                                            *)

\* LocalAesKeyProvider._wrap under the active key.
Wrap(c, d) == [dek |-> d, kek |-> Active(c)]

\* Mutation of CacheKey: the cache ignores the wrapping and its key.
EpochOnly(s, e, key) == <<s, e>>

\* _dek_cache_key: everything the provider would check.
CacheKey(s, e, key) == <<s, e, key>>

\* ensure_session_key in the transaction of worker c: the current epoch's row,
\* or a fresh key one epoch on.  key and e are what the caller goes on with.
EnsureSessionKey(c, s, e, key) ==
    LET cur == chat[s].epoch
    IN  IF cur > 0 /\ keyEpoch[<<s, cur>>] # NoKey
        THEN /\ e = cur /\ key = keyEpoch[<<s, cur>>]
             /\ UNCHANGED <<deks, keyEpoch>>
        ELSE /\ e = cur + 1 /\ e \in Epochs
             /\ deks < MaxDek /\ deks' = deks + 1
             /\ key = Wrap(c, deks + 1)
             /\ keyEpoch' = [keyEpoch EXCEPT ![<<s, e>>] = key]

\* _session_dek: a hit in the worker's cache, or the provider's unwrap.
SessionDek(w, s, e, key, d) ==
    LET hits == {x \in cache[w] : x.at = CacheKey(s, e, key)}
    IN  \/ \E x \in hits : d = x.dek
        \/ hits = {} /\ key.kek \in Ring(conf[w]) /\ d = key.dek

Remember(w, s, e, key, d) ==
    cache' = [cache EXCEPT ![w] = {x \in @ : x.at # CacheKey(s, e, key)}
                                      \cup {[at |-> CacheKey(s, e, key), dek |-> d]}]

\* create_session.
CreateSessionKeys(w, s) ==
    /\ chat[s].mode = "none"
    /\ \E key \in Wrapped :
          /\ EnsureSessionKey(conf[w], s, 1, key)
          /\ chat' = [chat EXCEPT ![s] = [mode |-> "secure", epoch |-> 1, key |-> key]]
          /\ Remember(w, s, 1, key, key.dek)
    /\ UNCHANGED <<conf, env, msg, account, rot, script>>

\* store_message, and the two rows of chat: encrypt_message under the current
\* epoch.  If the key cannot be unwrapped the request fails.
StoreMessage(w, s, m) ==
    /\ chat[s].mode = "secure"
    /\ msg[m].state = "new"
    /\ \E e \in Epochs, key \in Wrapped, d \in 0..MaxDek :
          /\ EnsureSessionKey(conf[w], s, e, key)
          /\ SessionDek(w, s, e, key, d)
          /\ Remember(w, s, e, key, d)
          /\ chat' = [chat EXCEPT ![s].epoch = e, ![s].key = key]
          /\ msg' = [msg EXCEPT ![m] = [in |-> s, state |-> "kept", scheme |-> "envelope", ver |-> e,
                                        key |-> Dek(d)]]
    /\ UNCHANGED <<conf, env, account, rot, script>>

\* decrypt_message fills the cache.
ReadMessage(w, m) ==
    LET s == msg[m].in
        key == keyEpoch[<<s, msg[m].ver>>]
    IN  /\ msg[m].state = "kept" /\ msg[m].scheme = "envelope"
        /\ \E d \in 0..MaxDek : SessionDek(w, s, msg[m].ver, key, d)
                                /\ Remember(w, s, msg[m].ver, key, d)
        /\ UNCHANGED <<conf, env, chat, keyEpoch, msg, account, deks, rot, script>>

Holds(s) == {m \in Msgs : msg[m].state = "kept" /\ msg[m].in = s}

\* update_session_security between the server's encryption and the clients',
\* only while the conversation is empty: the epochs start again.
UpdateSessionKeys(w, s) ==
    /\ Holds(s) = {}
    /\ \/ /\ chat[s].mode = "secure"
          /\ chat' = [chat EXCEPT ![s] = [mode |-> "private", epoch |-> 1, key |-> NoKey]]
          /\ keyEpoch' = [x \in DOMAIN keyEpoch |-> IF x[1] = s THEN NoKey ELSE keyEpoch[x]]
          /\ UNCHANGED <<deks, cache>>
       \/ /\ chat[s].mode = "private"
          /\ deks < MaxDek /\ deks' = deks + 1
          /\ LET key == Wrap(conf[w], deks + 1)
             IN  /\ chat' = [chat EXCEPT ![s] = [mode |-> "secure", epoch |-> 1, key |-> key]]
                 /\ keyEpoch' = [keyEpoch EXCEPT ![<<s, 1>>] = key]
                 /\ Remember(w, s, 1, key, key.dek)
    /\ UNCHANGED <<conf, env, msg, account, rot, script>>

\* delete_session and clear_cache: the worker that deletes forgets its keys.
DeleteSessionKeys(w, s) ==
    /\ chat[s].mode \in {"secure", "private"}
    /\ chat' = [chat EXCEPT ![s] = [mode |-> "gone", epoch |-> 0, key |-> NoKey]]
    /\ keyEpoch' = [x \in DOMAIN keyEpoch |-> IF x[1] = s THEN NoKey ELSE keyEpoch[x]]
    /\ msg' = [m \in Msgs |-> IF m \in Holds(s) THEN [msg[m] EXCEPT !.state = "gone"] ELSE msg[m]]
    /\ cache' = [cache EXCEPT ![w] = {}]
    /\ UNCHANGED <<conf, env, account, deks, rot, script>>

\* _cache_get of an expired entry, or _cache_put at the limit.
Forget(w, x) ==
    /\ x \in cache[w]
    /\ cache' = [cache EXCEPT ![w] = @ \ {x}]
    /\ UNCHANGED <<conf, env, chat, keyEpoch, msg, account, deks, rot, script>>

\* rotate_session_dek takes no lock: what it read may be old when it commits;
\* the unique key on (session, epoch) then refuses it.
RotateRead(s) ==
    /\ chat[s].mode = "secure" /\ rot[s] = 0
    /\ chat[s].epoch \in 1..MaxEpoch - 1
    /\ rot' = [rot EXCEPT ![s] = chat[s].epoch]
    /\ UNCHANGED <<conf, env, chat, keyEpoch, msg, account, cache, deks, script>>

RotateCommit(w, s) ==
    LET e == rot[s] + 1
    IN  /\ rot[s] # 0 /\ rot' = [rot EXCEPT ![s] = 0]
        /\ IF keyEpoch[<<s, rot[s]>>] # NoKey /\ keyEpoch[<<s, e>>] = NoKey /\ deks < MaxDek
           THEN LET key == Wrap(conf[w], deks + 1)
                IN  /\ deks' = deks + 1
                    /\ keyEpoch' = [keyEpoch EXCEPT ![<<s, e>>] = key]
                    /\ chat' = [chat EXCEPT ![s].epoch = e, ![s].key = key]
                    /\ Remember(w, s, e, key, key.dek)
           ELSE UNCHANGED <<deks, keyEpoch, chat, cache>>
        /\ UNCHANGED <<conf, env, msg, account, script>>

-----------------------------------------------------------------------------
(* The account's secrets.                                                  *)

\* ensure_user_key, then encryption of the TOTP seed (mfa_setup) ...
EnrolSeed(w) ==
    /\ deks < MaxDek
    /\ deks' = IF account.key = NoKey THEN deks + 1 ELSE deks
    /\ LET key == IF account.key = NoKey THEN Wrap(conf[w], deks + 1) ELSE account.key
       IN  /\ key.kek \in Ring(conf[w])
           /\ account' = [key |-> key, seed |-> Dek(key.dek)]
    /\ UNCHANGED <<conf, env, chat, keyEpoch, msg, cache, rot, script>>

\* ... or of another field (a phone, a push subscription): the seed stays.
EncryptOtherSecret(w) ==
    /\ account.key = NoKey /\ deks < MaxDek
    /\ deks' = deks + 1
    /\ account' = [account EXCEPT !.key = Wrap(conf[w], deks + 1)]
    /\ UNCHANGED <<conf, env, chat, keyEpoch, msg, cache, rot, script>>

\* CryptoService.decrypt_secret has no version to go by and tries every key.
LegacySeedOpens(c) == account.seed \in {Kek(v) : v \in Ring(c)}

\* decrypt_user_secret: by the account's key if there is one.
SeedOpens(c) ==
    IF account.key = NoKey THEN LegacySeedOpens(c)
    ELSE account.key.kek \in Ring(c) /\ account.seed = Dek(account.key.dek)

-----------------------------------------------------------------------------
(* The operator.                                                           *)

AddKey ==
    /\ env = 1 /\ env' = 2
    /\ UNCHANGED <<conf, chat, keyEpoch, msg, account, cache, deks, rot, script>>

\* A worker starts again with the keyring of the environment.
Restart(w) ==
    /\ conf' = [conf EXCEPT ![w] = env]
    /\ cache' = [cache EXCEPT ![w] = {}]
    /\ UNCHANGED <<env, chat, keyEpoch, msg, account, deks, rot, script>>

\* Scripts run one at a time, when every worker has the new keyring.
Ready == /\ script.pc \in {"idle", "done"}
         /\ env = 2 /\ \A w \in Processes : conf[w] = env

\* rewrap_deks reads the keys of the conversations that have one, with all their
\* epochs, and marks the current one.
RewrapRead ==
    /\ Ready
    /\ script' = [pc |-> "rewrap", rows |-> {},
                  keys |-> {[at |-> x, dek |-> keyEpoch[x].dek, current |-> x[2] = chat[x[1]].epoch] :
                              x \in {y \in DOMAIN keyEpoch : keyEpoch[y] # NoKey /\ chat[y[1]].key # NoKey}}]
    /\ UNCHANGED <<conf, env, chat, keyEpoch, msg, account, cache, deks, rot>>

\* Its one commit.  A row that was deleted meanwhile fails the whole of it.
RewrapCommit ==
    /\ script.pc = "rewrap" /\ script' = NoScript
    /\ IF \A k \in script.keys : keyEpoch[k.at].dek = k.dek /\ keyEpoch[k.at].kek \in Ring(env)
       THEN /\ keyEpoch' = [x \in DOMAIN keyEpoch |-> IF \E k \in script.keys : k.at = x
                                                THEN Wrap(env, keyEpoch[x].dek) ELSE keyEpoch[x]]
            /\ chat' = [s \in Conversations |->
                  LET now == {k \in script.keys : k.at[1] = s /\ k.current}
                  IN  IF now = {} THEN chat[s]
                      ELSE [chat[s] EXCEPT !.key = Wrap(env, (CHOOSE k \in now : TRUE).dek)]]
            /\ account' = IF account.key = NoKey THEN account
                          ELSE [account EXCEPT !.key = Wrap(env, account.key.dek)]
       ELSE UNCHANGED <<keyEpoch, chat, account>>
    /\ UNCHANGED <<conf, env, msg, cache, deks, rot>>

LegacyRows == {m \in Msgs : msg[m].state = "kept" /\ msg[m].scheme = "legacy"}
OpensLegacy(c, m) == msg[m].ver \in Ring(c) /\ msg[m].key = Kek(msg[m].ver)

\* migrate_envelope_encryption lists the rows of the old scheme ...
MigrateRead ==
    /\ Ready
    /\ script' = [NoScript EXCEPT !.pc = "migrate", !.rows = LegacyRows]
    /\ UNCHANGED <<conf, env, chat, keyEpoch, msg, account, cache, deks, rot>>

\* ... and commits them in batches, here of one row (migrate_legacy_message).  A
\* row that is gone, or that does not open, ends the script.
MigrateRow(m) ==
    /\ script.pc = "migrate" /\ m \in script.rows
    /\ IF m \in LegacyRows /\ OpensLegacy(env, m)
       THEN \E e \in Epochs, key \in Wrapped :
               /\ EnsureSessionKey(env, msg[m].in, e, key)
               /\ key.kek \in Ring(env)
               /\ chat' = [chat EXCEPT ![msg[m].in].epoch = e, ![msg[m].in].key = key]
               /\ msg' = [msg EXCEPT ![m] = [in |-> msg[m].in, state |-> "kept", scheme |-> "envelope",
                                             ver |-> e, key |-> Dek(key.dek)]]
               /\ script' = [script EXCEPT !.rows = @ \ {m}]
       ELSE script' = NoScript /\ UNCHANGED <<chat, keyEpoch, msg, deks>>
    /\ UNCHANGED <<conf, env, account, cache, rot>>

\* At the end the seeds of accounts that have no key of their own.
MigrateEnd ==
    /\ script.pc = "migrate" /\ script.rows = {}
    /\ IF account.key = NoKey /\ SeedOpens(env)
       THEN /\ deks < MaxDek /\ deks' = deks + 1
            /\ account' = [key |-> Wrap(env, deks + 1), seed |-> Dek(deks + 1)]
       ELSE UNCHANGED <<deks, account>>
    /\ script' = NoScript
    /\ UNCHANGED <<conf, env, chat, keyEpoch, msg, cache, rot>>

OnActive(key, v) == key # NoKey => key.kek = v

\* unrotated_envelope_dependencies finds none: every wrapped key, current or
\* historic, is under v.
AllOnActive(v) ==
    /\ \A s \in Conversations : OnActive(chat[s].key, v)
    /\ \A x \in DOMAIN keyEpoch : OnActive(keyEpoch[x], v)
    /\ OnActive(account.key, v)

\* rotate_encryption_key refuses to start while a wrapped key needs another KEK.
RotateLegacyRead ==
    /\ Ready
    /\ AllOnActive(Active(env))
    /\ script' = [NoScript EXCEPT !.pc = "rotate",
                     !.rows = {m \in LegacyRows : msg[m].ver # Active(env)}]
    /\ UNCHANGED <<conf, env, chat, keyEpoch, msg, account, cache, deks, rot>>

\* A row that is gone fails the commit.  One that does not open is counted and makes
\* the exit code 1; rows come in any order, so the model may end at the last of them.
RotateLegacyRow(m) ==
    /\ script.pc = "rotate" /\ m \in script.rows
    /\ IF m \in LegacyRows /\ OpensLegacy(env, m)
       THEN /\ msg' = [msg EXCEPT ![m].ver = Active(env), ![m].key = Kek(Active(env))]
            /\ script' = [script EXCEPT !.rows = @ \ {m}]
       ELSE script' = NoScript /\ UNCHANGED msg
    /\ UNCHANGED <<conf, env, chat, keyEpoch, account, cache, deks, rot>>

\* rotate_mfa_secrets, and the exit code.
RotateLegacyEnd ==
    /\ script.pc = "rotate" /\ script.rows = {}
    /\ account' = IF account.key = NoKey /\ SeedOpens(env)
                  THEN [account EXCEPT !.seed = Kek(Active(env))] ELSE account
    /\ script' = [NoScript EXCEPT !.pc = IF account.key = NoKey /\ ~SeedOpens(env) THEN "idle" ELSE "done"]
    /\ UNCHANGED <<conf, env, chat, keyEpoch, msg, cache, deks, rot>>

\* A script is stopped: what it committed stays.
ScriptDies ==
    /\ script.pc \in {"rewrap", "migrate", "rotate"}
    /\ script' = NoScript
    /\ UNCHANGED <<conf, env, chat, keyEpoch, msg, account, cache, deks, rot>>

\* The old key is removed once rotate_encryption_key has exited with 0.
RetireKey ==
    /\ script.pc = "done" /\ env = 2 /\ env' = 3
    /\ UNCHANGED <<conf, chat, keyEpoch, msg, account, cache, deks, rot, script>>

EnvelopeNext ==
    \/ AddKey \/ RetireKey \/ ScriptDies
    \/ RewrapRead \/ RewrapCommit
    \/ MigrateRead \/ MigrateEnd
    \/ RotateLegacyRead \/ RotateLegacyEnd
    \/ \E m \in Msgs : MigrateRow(m) \/ RotateLegacyRow(m)
    \/ \E s \in Conversations : RotateRead(s)
    \/ \E w \in Processes : Restart(w) \/ EnrolSeed(w) \/ EncryptOtherSecret(w)
    \/ \E w \in Processes : \E x \in cache[w] : Forget(w, x)
    \/ \E w \in Processes, m \in Msgs : ReadMessage(w, m)
    \/ \E w \in Processes, s \in Conversations :
          \/ CreateSessionKeys(w, s) \/ UpdateSessionKeys(w, s) \/ DeleteSessionKeys(w, s)
          \/ RotateCommit(w, s)
          \/ \E m \in Msgs : StoreMessage(w, s, m)

EnvelopeSpec == EnvelopeInit /\ [][EnvelopeNext]_envelopeVars

-----------------------------------------------------------------------------
(* Properties.                                                             *)

\* Every stored message can be opened with what the database and the keyring
\* hold, a fresh process included: through rotation of conversation keys, a cache
\* that is older than the row it answers for, interrupted scripts, and the
\* removal of the old key after rotate_encryption_key has succeeded.
EveryMessageOpens ==
    \A m \in Msgs : msg[m].state = "kept" =>
        IF msg[m].scheme = "legacy" THEN OpensLegacy(env, m)
        ELSE LET key == keyEpoch[<<msg[m].in, msg[m].ver>>]
             IN  key # NoKey /\ key.kek \in Ring(env) /\ msg[m].key = Dek(key.dek)

-----------------------------------------------------------------------------
(* The inductive invariant.                                                *)

\* A worker never runs ahead of the environment, and a key is retired only when
\* every worker has the new one.
KeyringsInOrder ==
    /\ \A w \in Processes : conf[w] <= env
    /\ script.pc # "idle" => \A w \in Processes : conf[w] >= 2
    /\ script.pc \in {"rewrap", "migrate", "rotate"} => env = 2
    /\ env = 3 => script.pc = "done"

\* The rows of session_key_epochs are those of the epochs so far, of the
\* conversations the server encrypts.
EpochsInOrder ==
    \A s \in Conversations, e \in Epochs :
        keyEpoch[<<s, e>>] # NoKey <=> chat[s].mode = "secure" /\ e <= chat[s].epoch

RowsAreWrapped ==
    \A s \in Conversations, e \in Epochs : keyEpoch[<<s, e>>] # NoKey =>
        keyEpoch[<<s, e>>].dek # 0 /\ keyEpoch[<<s, e>>].kek \in Ring(env)

\* What _session_dek may answer from a cache: the key that the row wraps.
Answers == {[at |-> CacheKey(s, e, key), dek |-> key.dek] : s \in Conversations, e \in Epochs, key \in Wrapped}

CachesAreTrue == cache \in [Processes -> SUBSET Answers]

\* A stored message is in a conversation the server encrypts, under an epoch
\* that conversation has had.
MessagesHaveRows ==
    \A m \in Msgs : msg[m].state = "kept" =>
        /\ chat[msg[m].in].mode = "secure"
        /\ msg[m].scheme = "envelope" => msg[m].ver \in Epochs

\* What a script has read, and what rotate_encryption_key has left to do.
ScriptIsSound ==
    /\ script \in [pc : {"idle", "rewrap", "migrate", "rotate", "done"}, rows : SUBSET Msgs,
                   keys : SUBSET [at : Conversations \X Epochs, dek : 1..MaxDek, current : BOOLEAN]]
    /\ script.pc \in {"rotate", "done"} =>
          /\ \A s \in Conversations, e \in Epochs : OnActive(keyEpoch[<<s, e>>], 2)
          /\ \A m \in LegacyRows : msg[m].ver # 2 => script.pc = "rotate" /\ m \in script.rows

RotationsAreSound == \A s \in Conversations : rot[s] < MaxEpoch

EnvelopeIInv ==
    /\ EnvelopeTypeOK /\ KeyringsInOrder /\ EpochsInOrder /\ RowsAreWrapped /\ CachesAreTrue
    /\ MessagesHaveRows /\ ScriptIsSound /\ RotationsAreSound /\ EveryMessageOpens
=============================================================================
