------------------------- MODULE EnvelopeKeys_proofs ------------------------
(***************************************************************************)
(* What is stored can be opened, for any workers, conversations and        *)
(* messages, any number of epochs and of data keys.  The three facts that  *)
(* carry it: a conversation's rows are exactly its epochs so far, so that  *)
(* no row is ever written over one that a message needs; a cache answers   *)
(* with the key of the row it is asked about; and a keyring is reduced     *)
(* only after rotate_encryption_key has found nothing, and left nothing,   *)
(* under the key that goes.                                                *)
(***************************************************************************)
EXTENDS EnvelopeKeys, TLAPS

-----------------------------------------------------------------------------
(* Keyrings and caches.                                                    *)

\* The active key is in its keyring, and is the second one from the time it was
\* added.
LEMMA ActiveIsThere ==
    ASSUME NEW c \in 1..3
    PROVE  /\ Active(c) \in Ring(c) /\ Active(c) \in 1..2
           /\ Ring(c) \subseteq 1..2
           /\ c >= 2 => Active(c) = 2 /\ 2 \in Ring(c)
BY DEF Active, Ring

\* A worker wraps under a key that the environment has: it is not ahead of it,
\* and the old key stays until every worker has the new one.
LEMMA WorkersWrapForAll ==
    ASSUME EnvelopeTypeOK, KeyringsInOrder, NEW w \in Processes
    PROVE  /\ Active(conf[w]) \in Ring(env) /\ Active(conf[w]) \in 1..2
           /\ script.pc # "idle" => Active(conf[w]) = 2
<1>1. conf[w] \in 1..3 /\ env \in 1..3 /\ conf[w] <= env
  BY DEF EnvelopeTypeOK, KeyringsInOrder
<1>2. env = 3 => conf[w] >= 2
  BY DEF KeyringsInOrder
<1>3. script.pc # "idle" => conf[w] >= 2
  BY DEF KeyringsInOrder
<1> QED
  BY <1>1, <1>2, <1>3 DEF Active, Ring

\* _session_dek gives the data key of the row, from a cache too.
LEMMA SessionDekIsOfTheRow ==
    ASSUME CachesAreTrue, NEW w \in Processes, NEW s, NEW e, NEW key, NEW d,
           SessionDek(w, s, e, key, d)
    PROVE  d = key.dek
<1>1. CASE \E x \in {x \in cache[w] : x.at = CacheKey(s, e, key)} : d = x.dek
  <2>1. PICK x \in cache[w] : x.at = CacheKey(s, e, key) /\ d = x.dek
    BY <1>1
  <2>2. x \in Answers
    BY DEF CachesAreTrue
  <2>3. PICK s2 \in Conversations, e2 \in Epochs, k2 \in Wrapped :
           x = [at |-> CacheKey(s2, e2, k2), dek |-> k2.dek]
    BY <2>2 DEF Answers
  <2>4. CacheKey(s2, e2, k2) = CacheKey(s, e, key) /\ d = k2.dek
    BY <2>1, <2>3
  <2> QED
    BY <2>4 DEF CacheKey
<1>2. CASE d = key.dek
  BY <1>2
<1> QED
  BY <1>1, <1>2 DEF SessionDek

\* What is remembered is the key of a row.
LEMMA RememberingIsTrue ==
    ASSUME CachesAreTrue, NEW w \in Processes, NEW s \in Conversations, NEW e \in Epochs,
           NEW key \in Wrapped, Remember(w, s, e, key, key.dek)
    PROVE  CachesAreTrue'
<1> DEFINE x == [at |-> CacheKey(s, e, key), dek |-> key.dek]
<1>1. x \in Answers
  BY DEF Answers
<1>2. cache \in [Processes -> SUBSET Answers]
  BY DEF CachesAreTrue
<1>3. cache' = [cache EXCEPT ![w] = {y \in @ : y.at # CacheKey(s, e, key)} \cup {x}]
  BY DEF Remember
<1> HIDE DEF x
<1>4. {y \in cache[w] : y.at # CacheKey(s, e, key)} \cup {x} \in SUBSET Answers
  BY <1>1, <1>2
<1>5. cache' \in [Processes -> SUBSET Answers]
  BY <1>2, <1>3, <1>4
<1>6. Answers' = Answers
  BY DEF Answers, CacheKey, Wrapped, Epochs
<1> QED
  BY <1>5, <1>6 DEF CachesAreTrue

-----------------------------------------------------------------------------
(* The rows of session_key_epochs.                                         *)

\* Rows when a conversation's latest epoch is e and key its row: whether the row
\* was there or is new, the earlier ones stand and nothing is written over.
RowIs(s, e, key) ==
    /\ key \in Wrapped /\ key # NoKey /\ key.dek # 0 /\ key.kek \in Ring(env)
    /\ script.pc \in {"rotate", "done"} => key.kek = 2
    /\ keyEpoch' \in [Conversations \X Epochs -> Wrapped] /\ deks' \in 0..MaxDek
    /\ keyEpoch'[<<s, e>>] = key
    /\ keyEpoch[<<s, e>>] # NoKey => keyEpoch[<<s, e>>] = key
    /\ \A t \in Conversations, f \in Epochs : <<t, f>> # <<s, e>> => keyEpoch'[<<t, f>>] = keyEpoch[<<t, f>>]

Columns == [mode : {"none", "secure", "private", "gone"}, epoch : 0..MaxEpoch, key : Wrapped]

\* The conversation's columns follow its latest row.
ColumnsAre(s, e, key) ==
    /\ chat' \in [Conversations -> Columns]
    /\ chat'[s].mode = "secure" /\ chat'[s].epoch = e
    /\ \A t \in Conversations : t # s => chat'[t] = chat[t]
    /\ \A f \in Epochs : f <= e <=> f = e \/ (chat[s].mode = "secure" /\ f <= chat[s].epoch)

LEMMA NoKeyHasAType ==
    NoKey \in Wrapped
BY KeysAssumption DEF NoKey, Wrapped

\* The assignments of ensure_session_key to the columns.
LEMMA ColumnsFollow ==
    ASSUME NEW s \in Conversations, NEW e \in 0..MaxEpoch, NEW key \in Wrapped,
           chat \in [Conversations -> Columns], chat[s].mode = "secure",
           chat' = [chat EXCEPT ![s].epoch = e, ![s].key = key]
    PROVE  /\ chat' \in [Conversations -> Columns]
           /\ chat'[s].mode = "secure" /\ chat'[s].epoch = e
           /\ \A t \in Conversations : t # s => chat'[t] = chat[t]
<1>1. chat' \in [Conversations -> Columns]
  BY DEF Columns
<1>2. chat'[s].mode = "secure"
  BY DEF Columns
<1>3. chat'[s].epoch = e
  BY DEF Columns
<1>4. \A t \in Conversations : t # s => chat'[t] = chat[t]
  OBVIOUS
<1> QED
  BY <1>1, <1>2, <1>3, <1>4

\* A fresh key of worker or script with keyring c.
LEMMA FreshKeyIsRow ==
    ASSUME EnvelopeIInv, NEW c \in 1..3, NEW s \in Conversations, NEW e \in Epochs, NEW key,
           Active(c) \in Ring(env), Active(c) \in 1..2, script.pc # "idle" => Active(c) = 2,
           deks < MaxDek, deks' = deks + 1, key = Wrap(c, deks + 1),
           keyEpoch[<<s, e>>] = NoKey, keyEpoch' = [keyEpoch EXCEPT ![<<s, e>>] = key]
    PROVE  RowIs(s, e, key)
<1>1. deks \in Nat /\ MaxDek \in Nat /\ deks + 1 \in 0..MaxDek /\ deks + 1 # 0
  BY KeysAssumption DEF EnvelopeIInv, EnvelopeTypeOK
<1>2. key = [dek |-> deks + 1, kek |-> Active(c)]
  BY DEF Wrap
<1>3. key \in Wrapped /\ key.dek = deks + 1 /\ key.kek = Active(c) /\ key # NoKey
  BY <1>1, <1>2 DEF Wrapped, NoKey
<1>4. keyEpoch \in [Conversations \X Epochs -> Wrapped] /\ <<s, e>> \in Conversations \X Epochs
  BY DEF EnvelopeIInv, EnvelopeTypeOK
<1>5. keyEpoch' \in [Conversations \X Epochs -> Wrapped] /\ keyEpoch'[<<s, e>>] = key
  BY <1>3, <1>4
<1>6. \A t \in Conversations, f \in Epochs : <<t, f>> # <<s, e>> => keyEpoch'[<<t, f>>] = keyEpoch[<<t, f>>]
  BY <1>4
<1>7. script.pc \in {"rotate", "done"} => key.kek = 2
  BY <1>3
<1> QED
  BY <1>1, <1>3, <1>5, <1>6, <1>7 DEF RowIs

\* ensure_session_key of a conversation the server encrypts, or that begins.
LEMMA EnsuredKeyIsRow ==
    ASSUME EnvelopeIInv, NEW c \in 1..3, NEW s \in Conversations, NEW e \in Epochs, NEW key \in Wrapped,
           Active(c) \in Ring(env), Active(c) \in 1..2, script.pc # "idle" => Active(c) = 2,
           EnsureSessionKey(c, s, e, key)
    PROVE  /\ RowIs(s, e, key)
           /\ chat[s].mode = "secure" \/ e = 1 =>
                \A f \in Epochs : f <= e <=> f = e \/ (chat[s].mode = "secure" /\ f <= chat[s].epoch)
<1>0. /\ chat[s].epoch \in 0..MaxEpoch /\ MaxEpoch \in Nat /\ Epochs = 1..MaxEpoch
      /\ keyEpoch \in [Conversations \X Epochs -> Wrapped] /\ deks \in 0..MaxDek
  BY KeysAssumption DEF EnvelopeIInv, EnvelopeTypeOK, Epochs
<1>1. CASE chat[s].epoch > 0 /\ keyEpoch[<<s, chat[s].epoch>>] # NoKey
  <2>1. e = chat[s].epoch /\ key = keyEpoch[<<s, e>>] /\ deks' = deks /\ keyEpoch' = keyEpoch
    BY <1>1 DEF EnsureSessionKey
  <2>2. chat[s].mode = "secure"
    BY <1>1, <2>1 DEF EnvelopeIInv, EpochsInOrder
  <2>3. key # NoKey /\ key.dek # 0 /\ key.kek \in Ring(env)
    BY <1>1, <2>1 DEF EnvelopeIInv, RowsAreWrapped
  <2>4. script.pc \in {"rotate", "done"} => key.kek = 2
    BY <1>1, <2>1, <2>3 DEF EnvelopeIInv, ScriptIsSound, OnActive
  <2>5. RowIs(s, e, key)
    BY <1>0, <2>1, <2>3, <2>4 DEF RowIs
  <2>6. \A f \in Epochs : f <= e <=> f = e \/ (chat[s].mode = "secure" /\ f <= chat[s].epoch)
    BY <1>0, <2>1, <2>2
  <2> QED
    BY <2>5, <2>6
<1>2. CASE ~(chat[s].epoch > 0 /\ keyEpoch[<<s, chat[s].epoch>>] # NoKey)
  <2>1. /\ e = chat[s].epoch + 1 /\ deks < MaxDek /\ deks' = deks + 1 /\ key = Wrap(c, deks + 1)
        /\ keyEpoch' = [keyEpoch EXCEPT ![<<s, e>>] = key]
    BY <1>2 DEF EnsureSessionKey
  <2>2. keyEpoch[<<s, e>>] = NoKey
    BY <1>0, <2>1 DEF EnvelopeIInv, EpochsInOrder
  <2>3. RowIs(s, e, key)
    BY <2>1, <2>2, FreshKeyIsRow
  <2>4. chat[s].mode = "secure" => chat[s].epoch = 0
    BY <1>0, <1>2 DEF EnvelopeIInv, EpochsInOrder
  <2>5. ASSUME chat[s].mode = "secure" \/ e = 1
        PROVE  \A f \in Epochs : f <= e <=> f = e \/ (chat[s].mode = "secure" /\ f <= chat[s].epoch)
    BY <1>0, <2>1, <2>4, <2>5, SMTT(40)
  <2> QED
    BY <2>3, <2>5
<1> QED
  BY <1>1, <1>2

\* The rows stay in order, wrapped and, once rotate_encryption_key has looked,
\* on the active key.
LEMMA RowKeepsOrder ==
    ASSUME EnvelopeIInv, NEW s \in Conversations, NEW e \in Epochs, NEW key,
           RowIs(s, e, key), ColumnsAre(s, e, key), UNCHANGED env,
           script'.pc \in {"rotate", "done"} => script.pc \in {"rotate", "done"}
    PROVE  /\ chat' \in [Conversations -> Columns]
           /\ EpochsInOrder' /\ RowsAreWrapped'
           /\ script'.pc \in {"rotate", "done"} =>
                 \A t \in Conversations, f \in Epochs : OnActive(keyEpoch'[<<t, f>>], 2)
<1>0. MaxEpoch \in Nat /\ Epochs = 1..MaxEpoch
  BY KeysAssumption DEF Epochs
<1>1. chat'[s].mode = "secure" /\ chat'[s].epoch = e
  BY DEF ColumnsAre
<1>2. \A t \in Conversations : t # s => chat'[t] = chat[t]
  BY DEF ColumnsAre
<1>4. chat' \in [Conversations -> Columns]
  BY DEF ColumnsAre
<1>5. ASSUME NEW t \in Conversations, NEW f \in Epochs
      PROVE  /\ keyEpoch'[<<t, f>>] # NoKey <=> chat'[t].mode = "secure" /\ f <= chat'[t].epoch
             /\ keyEpoch'[<<t, f>>] # NoKey => keyEpoch'[<<t, f>>].dek # 0 /\ keyEpoch'[<<t, f>>].kek \in Ring(env)
             /\ script'.pc \in {"rotate", "done"} => OnActive(keyEpoch'[<<t, f>>], 2)
  <2>0. /\ keyEpoch[<<t, f>>] # NoKey <=> chat[t].mode = "secure" /\ f <= chat[t].epoch
        /\ keyEpoch[<<t, f>>] # NoKey => keyEpoch[<<t, f>>].dek # 0 /\ keyEpoch[<<t, f>>].kek \in Ring(env)
        /\ script.pc \in {"rotate", "done"} => OnActive(keyEpoch[<<t, f>>], 2)
    BY DEF EnvelopeIInv, EpochsInOrder, RowsAreWrapped, ScriptIsSound
  <2>1. CASE t # s
    <3>1. keyEpoch'[<<t, f>>] = keyEpoch[<<t, f>>] /\ chat'[t] = chat[t]
      BY <2>1, <1>2 DEF RowIs
    <3> QED
      BY <2>0, <3>1
  <2>2. CASE t = s /\ f = e
    <3>1. keyEpoch'[<<t, f>>] = key
      BY <2>2 DEF RowIs
    <3>2. f <= e
      BY <2>2, <1>0
    <3> QED
      BY <2>2, <3>1, <3>2, <1>1 DEF RowIs, OnActive
  <2>3. CASE t = s /\ f # e
    <3>1. keyEpoch'[<<t, f>>] = keyEpoch[<<t, f>>]
      BY <2>3 DEF RowIs
    <3>2. f <= e <=> chat[s].mode = "secure" /\ f <= chat[s].epoch
      BY <2>3 DEF ColumnsAre
    <3> QED
      BY <2>0, <2>3, <3>1, <3>2, <1>1
  <2> QED
    BY <2>1, <2>2, <2>3
<1>6. EpochsInOrder'
  BY <1>5 DEF EpochsInOrder, Epochs
<1>7. RowsAreWrapped'
  BY <1>5 DEF RowsAreWrapped, Epochs
<1> QED
  BY <1>4, <1>5, <1>6, <1>7

-----------------------------------------------------------------------------
(* Messages and scripts, beside a change of rows.                          *)

\* A stored message is in an encrypted conversation and opens.
MessageIsSound(m) ==
    msg[m].state = "kept" =>
        /\ chat[msg[m].in].mode = "secure"
        /\ msg[m].scheme = "legacy" => OpensLegacy(env, m)
        /\ msg[m].scheme = "envelope" =>
              /\ msg[m].ver \in Epochs
              /\ keyEpoch[<<msg[m].in, msg[m].ver>>] # NoKey
              /\ keyEpoch[<<msg[m].in, msg[m].ver>>].kek \in Ring(env)
              /\ msg[m].key = Dek(keyEpoch[<<msg[m].in, msg[m].ver>>].dek)

LEMMA SoundMessages ==
    ASSUME EnvelopeTypeOK
    PROVE  (\A m \in Msgs : MessageIsSound(m)) <=> MessagesHaveRows /\ EveryMessageOpens
<1>1. \A m \in Msgs : msg[m].scheme \in {"legacy", "envelope"}
  BY DEF EnvelopeTypeOK
<1> QED
  BY <1>1 DEF MessageIsSound, MessagesHaveRows, EveryMessageOpens

LEMMA SoundMessagesNext ==
    ASSUME EnvelopeTypeOK'
    PROVE  (\A m \in Msgs : MessageIsSound(m)') <=> MessagesHaveRows' /\ EveryMessageOpens'
<1>1. \A m \in Msgs : msg'[m].scheme \in {"legacy", "envelope"}
  BY DEF EnvelopeTypeOK
<1> QED
  BY <1>1 DEF MessageIsSound, MessagesHaveRows, EveryMessageOpens

\* A new row leaves the messages under the other rows as they were.
LEMMA RowKeepsMessages ==
    ASSUME EnvelopeIInv, NEW s \in Conversations, NEW e \in Epochs, NEW key,
           RowIs(s, e, key), ColumnsAre(s, e, key), UNCHANGED env,
           NEW m \in Msgs, msg'[m] = msg[m]
    PROVE  MessageIsSound(m)'
<1> SUFFICES ASSUME msg[m].state = "kept"
             PROVE  MessageIsSound(m)'
  BY DEF MessageIsSound
<1>0. msg[m].in \in Conversations
  BY DEF EnvelopeIInv, EnvelopeTypeOK
<1>1. MessageIsSound(m)
  BY SoundMessages DEF EnvelopeIInv
<1>2. chat'[msg[m].in].mode = "secure"
  BY <1>0, <1>1 DEF ColumnsAre, MessageIsSound
<1>3. CASE msg[m].scheme = "legacy"
  BY <1>1, <1>2, <1>3 DEF MessageIsSound, OpensLegacy
<1>4. CASE msg[m].scheme # "legacy"
  <2>1. msg[m].scheme = "envelope"
    BY <1>4 DEF EnvelopeIInv, EnvelopeTypeOK
  <2>2. /\ msg[m].ver \in Epochs /\ keyEpoch[<<msg[m].in, msg[m].ver>>] # NoKey
        /\ keyEpoch[<<msg[m].in, msg[m].ver>>].kek \in Ring(env)
        /\ msg[m].key = Dek(keyEpoch[<<msg[m].in, msg[m].ver>>].dek)
    BY <1>1, <2>1 DEF MessageIsSound
  <2>3. keyEpoch'[<<msg[m].in, msg[m].ver>>] = keyEpoch[<<msg[m].in, msg[m].ver>>]
    BY <1>0, <2>2 DEF RowIs
  <2>4. Epochs' = Epochs
    BY DEF Epochs
  <2> QED
    BY <1>2, <2>1, <2>2, <2>3 DEF MessageIsSound, Epochs
<1> QED
  BY <1>3, <1>4

\* What a script has read stands while rows stay on the active key and no
\* message returns to the old scheme.
LEMMA ScriptKeeps ==
    ASSUME ScriptIsSound, script' = script,
           script.pc \in {"rotate", "done"} => \A t \in Conversations, f \in Epochs : OnActive(keyEpoch'[<<t, f>>], 2),
           \A m \in LegacyRows' : m \in LegacyRows /\ msg'[m].ver = msg[m].ver
    PROVE  ScriptIsSound'
<1>1. \A m \in LegacyRows' : m \in LegacyRows /\ msg'[m].ver = msg[m].ver
  OBVIOUS
<1>2. ASSUME script.pc \in {"rotate", "done"}, NEW m \in LegacyRows', msg'[m].ver # 2
      PROVE  script.pc = "rotate" /\ m \in script.rows
  BY <1>1, <1>2 DEF ScriptIsSound
<1>3. Epochs' = Epochs
  BY DEF Epochs
<1>4. script \in [pc : {"idle", "rewrap", "migrate", "rotate", "done"}, rows : SUBSET Msgs,
                  keys : SUBSET [at : Conversations \X Epochs, dek : 1..MaxDek, current : BOOLEAN]]
  BY DEF ScriptIsSound
<1> QED
  BY <1>2, <1>3, <1>4 DEF ScriptIsSound

\* Nothing of the keyrings moves.
LEMMA KeyringsKeep ==
    ASSUME KeyringsInOrder, UNCHANGED <<conf, env>>, script'.pc = script.pc
    PROVE  KeyringsInOrder'
BY DEF KeyringsInOrder

\* Neither rows nor messages.
LEMMA RowsKeep ==
    ASSUME EpochsInOrder, RowsAreWrapped, UNCHANGED <<env, chat, keyEpoch>>
    PROVE  EpochsInOrder' /\ RowsAreWrapped'
BY DEF EpochsInOrder, RowsAreWrapped, Epochs

LEMMA MessagesKeep ==
    ASSUME MessagesHaveRows, EveryMessageOpens, UNCHANGED <<env, chat, keyEpoch, msg>>
    PROVE  MessagesHaveRows' /\ EveryMessageOpens'
<1>1. MessagesHaveRows'
  BY DEF MessagesHaveRows, Epochs
<1>2. EveryMessageOpens'
  BY DEF EveryMessageOpens, OpensLegacy
<1> QED
  BY <1>1, <1>2

LEMMA CachesKeep ==
    ASSUME CachesAreTrue, UNCHANGED cache
    PROVE  CachesAreTrue'
BY DEF CachesAreTrue, Answers, CacheKey, Wrapped, Epochs

LEMMA CachesShrink ==
    ASSUME CachesAreTrue, NEW w \in Processes, NEW S, S \subseteq cache[w],
           cache' = [cache EXCEPT ![w] = S]
    PROVE  CachesAreTrue'
<1>1. cache \in [Processes -> SUBSET Answers]
  BY DEF CachesAreTrue
<1>2. S \subseteq Answers
  BY <1>1
<1>3. cache' \in [Processes -> SUBSET Answers]
  BY <1>1, <1>2
<1>4. Answers' = Answers
  BY DEF Answers, CacheKey, Wrapped, Epochs
<1> QED
  BY <1>3, <1>4 DEF CachesAreTrue

-----------------------------------------------------------------------------
(* The service.                                                            *)

\* The rest of the invariant, for a step of the service that leaves keyrings and
\* the script alone and has an ensured row.
LEMMA RowStep ==
    ASSUME EnvelopeIInv, NEW s \in Conversations, NEW e \in Epochs, NEW key,
           RowIs(s, e, key), ColumnsAre(s, e, key),
           UNCHANGED <<conf, env, msg, account, script>>,
           rot' \in [Conversations -> 0..MaxEpoch], RotationsAreSound', CachesAreTrue'
    PROVE  EnvelopeIInv'
<1>1. /\ chat' \in [Conversations -> Columns]
      /\ EpochsInOrder' /\ RowsAreWrapped'
      /\ script.pc \in {"rotate", "done"} => \A t \in Conversations, f \in Epochs : OnActive(keyEpoch'[<<t, f>>], 2)
  BY RowKeepsOrder
<1>2. EnvelopeTypeOK'
  BY <1>1 DEF EnvelopeIInv, EnvelopeTypeOK, RowIs, Columns, Wrapped, KeyNames, Epochs
<1>3. KeyringsInOrder'
  BY KeyringsKeep DEF EnvelopeIInv
<1>4. ScriptIsSound'
  <2>1. \A m \in LegacyRows' : m \in LegacyRows /\ msg'[m].ver = msg[m].ver
    BY DEF LegacyRows
  <2> QED
    BY <1>1, <2>1, ScriptKeeps DEF EnvelopeIInv
<1>5. \A m \in Msgs : MessageIsSound(m)'
  BY RowKeepsMessages
<1>6. MessagesHaveRows' /\ EveryMessageOpens'
  BY <1>2, <1>5, SoundMessagesNext
<1> QED
  BY <1>1, <1>2, <1>3, <1>4, <1>6 DEF EnvelopeIInv

LEMMA CreateSessionKeeps ==
    ASSUME EnvelopeIInv, NEW w \in Processes, NEW s \in Conversations, CreateSessionKeys(w, s)
    PROVE  EnvelopeIInv'
<1>0. /\ EnvelopeTypeOK /\ KeyringsInOrder /\ CachesAreTrue /\ RotationsAreSound
      /\ conf[w] \in 1..3 /\ 1 \in Epochs /\ 1 \in 0..MaxEpoch
      /\ chat \in [Conversations -> Columns]
  BY KeysAssumption DEF EnvelopeIInv, EnvelopeTypeOK, Epochs, Columns
<1>1. PICK key \in Wrapped :
          /\ EnsureSessionKey(conf[w], s, 1, key)
          /\ chat' = [chat EXCEPT ![s] = [mode |-> "secure", epoch |-> 1, key |-> key]]
          /\ Remember(w, s, 1, key, key.dek)
  BY DEF CreateSessionKeys
<1>2. /\ Active(conf[w]) \in Ring(env) /\ Active(conf[w]) \in 1..2
      /\ script.pc # "idle" => Active(conf[w]) = 2
  BY <1>0, WorkersWrapForAll
<1>3. /\ RowIs(s, 1, key)
      /\ \A f \in Epochs : f <= 1 <=> f = 1 \/ (chat[s].mode = "secure" /\ f <= chat[s].epoch)
  BY <1>0, <1>1, <1>2, EnsuredKeyIsRow
<1>4. ColumnsAre(s, 1, key)
  <2>1. chat' \in [Conversations -> Columns] /\ chat'[s].mode = "secure" /\ chat'[s].epoch = 1
    BY <1>0, <1>1 DEF Columns
  <2>2. \A t \in Conversations : t # s => chat'[t] = chat[t]
    BY <1>0, <1>1
  <2> QED
    BY <1>3, <2>1, <2>2 DEF ColumnsAre
<1>5. CachesAreTrue'
  BY <1>0, <1>1, RememberingIsTrue
<1>6. UNCHANGED <<conf, env, msg, account, rot, script>>
  BY DEF CreateSessionKeys
<1>7. rot' \in [Conversations -> 0..MaxEpoch] /\ RotationsAreSound'
  BY <1>0, <1>6 DEF EnvelopeTypeOK, RotationsAreSound
<1> QED
  BY <1>0, <1>3, <1>4, <1>5, <1>6, <1>7, RowStep

\* The message that is stored goes under the row that _session_dek answered for.
LEMMA StoreMessageKeeps ==
    ASSUME EnvelopeIInv, NEW w \in Processes, NEW s \in Conversations, NEW m \in Msgs,
           StoreMessage(w, s, m)
    PROVE  EnvelopeIInv'
<1>0. /\ EnvelopeTypeOK /\ KeyringsInOrder /\ CachesAreTrue /\ RotationsAreSound /\ ScriptIsSound
      /\ conf[w] \in 1..3 /\ MaxEpoch \in Nat /\ Epochs = 1..MaxEpoch
      /\ chat \in [Conversations -> Columns]
      /\ msg \in [Msgs -> [in : Conversations, state : {"new", "kept", "gone"},
                           scheme : {"legacy", "envelope"}, ver : 0..MaxEpoch + 1, key : KeyNames]]
  BY KeysAssumption DEF EnvelopeIInv, EnvelopeTypeOK, Epochs, Columns
<1>1. PICK e \in Epochs, key \in Wrapped, d \in 0..MaxDek :
          /\ EnsureSessionKey(conf[w], s, e, key)
          /\ SessionDek(w, s, e, key, d)
          /\ Remember(w, s, e, key, d)
          /\ chat' = [chat EXCEPT ![s].epoch = e, ![s].key = key]
          /\ msg' = [msg EXCEPT ![m] = [in |-> s, state |-> "kept", scheme |-> "envelope", ver |-> e,
                                        key |-> Dek(d)]]
  BY DEF StoreMessage
<1>2. /\ Active(conf[w]) \in Ring(env) /\ Active(conf[w]) \in 1..2
      /\ script.pc # "idle" => Active(conf[w]) = 2
  BY <1>0, WorkersWrapForAll
<1>3. chat[s].mode = "secure" /\ UNCHANGED <<conf, env, account, rot, script>>
  BY DEF StoreMessage
<1>4. /\ RowIs(s, e, key)
      /\ \A f \in Epochs : f <= e <=> f = e \/ (chat[s].mode = "secure" /\ f <= chat[s].epoch)
  BY <1>0, <1>1, <1>2, <1>3, EnsuredKeyIsRow
<1>5. /\ chat' \in [Conversations -> Columns] /\ chat'[s].mode = "secure" /\ chat'[s].epoch = e
      /\ \A t \in Conversations : t # s => chat'[t] = chat[t]
  <2>1. e \in 0..MaxEpoch /\ chat[s].mode = "secure" /\ chat \in [Conversations -> Columns]
    BY <1>0, <1>3
  <2>2. chat' = [chat EXCEPT ![s].epoch = e, ![s].key = key]
    BY <1>1
  <2> QED
    BY ONLY <2>1, <2>2, ColumnsFollow, s \in Conversations, key \in Wrapped
<1>6. ColumnsAre(s, e, key)
  BY <1>4, <1>5 DEF ColumnsAre
<1>7. d = key.dek
  BY <1>0, <1>1, SessionDekIsOfTheRow
<1>8. CachesAreTrue'
  BY <1>0, <1>1, <1>7, RememberingIsTrue
<1>9. /\ chat' \in [Conversations -> Columns]
      /\ EpochsInOrder' /\ RowsAreWrapped'
      /\ script.pc \in {"rotate", "done"} => \A t \in Conversations, f \in Epochs : OnActive(keyEpoch'[<<t, f>>], 2)
  BY <1>3, <1>4, <1>6, RowKeepsOrder DEF EnvelopeIInv
<1>10. msg' \in [Msgs -> [in : Conversations, state : {"new", "kept", "gone"},
                          scheme : {"legacy", "envelope"}, ver : 0..MaxEpoch + 1, key : KeyNames]]
  <2>1. Dek(d) \in KeyNames /\ e \in 0..MaxEpoch + 1
    BY <1>0 DEF Dek, KeyNames
  <2> QED
    BY <1>0, <1>1, <2>1
<1>11. EnvelopeTypeOK'
  BY <1>0, <1>3, <1>4, <1>9, <1>10 DEF EnvelopeTypeOK, RowIs, Columns, Wrapped, KeyNames, Epochs
<1>12. KeyringsInOrder' /\ RotationsAreSound'
  BY <1>0, <1>3, KeyringsKeep DEF RotationsAreSound
<1>13. ScriptIsSound'
  <2>1. \A n \in LegacyRows' : n \in LegacyRows /\ msg'[n].ver = msg[n].ver
    BY <1>0, <1>1 DEF LegacyRows
  <2> QED
    BY <1>0, <1>3, <1>9, <2>1, ScriptKeeps
<1>14. ASSUME NEW n \in Msgs
       PROVE  MessageIsSound(n)'
  <2>1. CASE n # m
    BY <1>0, <1>1, <1>3, <1>4, <1>6, <2>1, RowKeepsMessages
  <2>2. CASE n = m
    <3>1. /\ msg'[n].in = s /\ msg'[n].scheme = "envelope" /\ msg'[n].ver = e
          /\ msg'[n].key = Dek(key.dek)
      BY <1>0, <1>1, <1>7, <2>2
    <3>2. keyEpoch'[<<s, e>>] = key /\ key # NoKey /\ key.kek \in Ring(env) /\ chat'[s].mode = "secure"
      BY <1>0, <1>4, <1>5 DEF RowIs
    <3> QED
      BY <1>3, <3>1, <3>2 DEF MessageIsSound, Epochs
  <2> QED
    BY <2>1, <2>2
<1>15. MessagesHaveRows' /\ EveryMessageOpens'
  BY <1>11, <1>14, SoundMessagesNext
<1> QED
  BY <1>8, <1>9, <1>11, <1>12, <1>13, <1>15 DEF EnvelopeIInv

LEMMA ReadMessageKeeps ==
    ASSUME EnvelopeIInv, NEW w \in Processes, NEW m \in Msgs, ReadMessage(w, m)
    PROVE  EnvelopeIInv'
<1>0. UNCHANGED <<conf, env, chat, keyEpoch, msg, account, deks, rot, script>>
  BY DEF ReadMessage
<1>1. MessageIsSound(m) /\ msg[m].in \in Conversations
  BY SoundMessages DEF EnvelopeIInv, EnvelopeTypeOK
<1>2. msg[m].ver \in Epochs
  BY <1>1 DEF ReadMessage, MessageIsSound
<1>3. PICK s \in Conversations, e \in Epochs, key \in Wrapped, d \in 0..MaxDek :
         SessionDek(w, s, e, key, d) /\ Remember(w, s, e, key, d)
  <2>1. keyEpoch[<<msg[m].in, msg[m].ver>>] \in Wrapped
    BY <1>1, <1>2 DEF EnvelopeIInv, EnvelopeTypeOK
  <2> QED
    BY <1>1, <1>2, <2>1 DEF ReadMessage
<1>4. CachesAreTrue'
  BY <1>3, SessionDekIsOfTheRow, RememberingIsTrue DEF EnvelopeIInv
<1>5. EnvelopeTypeOK' /\ RotationsAreSound'
  BY <1>0 DEF EnvelopeIInv, EnvelopeTypeOK, RotationsAreSound, Wrapped, KeyNames, Epochs
<1>6. ScriptIsSound'
  <2>1. \A n \in LegacyRows' : n \in LegacyRows /\ msg'[n].ver = msg[n].ver
    BY <1>0 DEF LegacyRows
  <2>2. script.pc \in {"rotate", "done"} => \A t \in Conversations, f \in Epochs : OnActive(keyEpoch'[<<t, f>>], 2)
    BY <1>0 DEF EnvelopeIInv, ScriptIsSound
  <2> QED
    BY <1>0, <2>1, <2>2, ScriptKeeps DEF EnvelopeIInv
<1> QED
  BY <1>0, <1>4, <1>5, <1>6, KeyringsKeep, RowsKeep, MessagesKeep DEF EnvelopeIInv

\* A conversation that is emptied and leaves the server's encryption takes its
\* rows with it, and nobody else's.
LEMMA ClearStep ==
    ASSUME EnvelopeIInv, NEW s \in Conversations, NEW new \in Columns, new.mode # "secure",
           chat' = [chat EXCEPT ![s] = new],
           keyEpoch' = [x \in DOMAIN keyEpoch |-> IF x[1] = s THEN NoKey ELSE keyEpoch[x]],
           msg' \in [Msgs -> [in : Conversations, state : {"new", "kept", "gone"},
                              scheme : {"legacy", "envelope"}, ver : 0..MaxEpoch + 1, key : KeyNames]],
           \A m \in Msgs : msg'[m].state = "kept" => msg'[m] = msg[m] /\ msg[m].in # s,
           UNCHANGED <<conf, env, account, deks, rot, script>>, CachesAreTrue'
    PROVE  EnvelopeIInv'
<1>0. chat \in [Conversations -> Columns] /\ keyEpoch \in [Conversations \X Epochs -> Wrapped]
  BY DEF EnvelopeIInv, EnvelopeTypeOK, Columns
<1>1. chat' \in [Conversations -> Columns] /\ chat'[s] = new
  BY <1>0
<1>2. \A t \in Conversations : t # s => chat'[t] = chat[t]
  BY <1>0
<1>3. \A t \in Conversations, f \in Epochs : keyEpoch'[<<t, f>>] = IF t = s THEN NoKey ELSE keyEpoch[<<t, f>>]
  BY <1>0
<1>4. keyEpoch' \in [Conversations \X Epochs -> Wrapped]
  BY <1>0, NoKeyHasAType
<1>5. EnvelopeTypeOK'
  BY <1>1, <1>4 DEF EnvelopeIInv, EnvelopeTypeOK, Columns, Wrapped, KeyNames, Epochs
<1>6. EpochsInOrder'
  <2>1. ASSUME NEW t \in Conversations, NEW f \in Epochs
        PROVE  keyEpoch'[<<t, f>>] # NoKey <=> chat'[t].mode = "secure" /\ f <= chat'[t].epoch
    <3>1. CASE t = s
      BY <1>1, <1>3, <3>1
    <3>2. CASE t # s
      BY <1>2, <1>3, <3>2 DEF EnvelopeIInv, EpochsInOrder
    <3> QED
      BY <3>1, <3>2
  <2> QED
    BY <2>1 DEF EpochsInOrder, Epochs
<1>7. RowsAreWrapped'
  BY <1>3 DEF EnvelopeIInv, RowsAreWrapped, Epochs
<1>8. KeyringsInOrder' /\ RotationsAreSound'
  BY KeyringsKeep DEF EnvelopeIInv, RotationsAreSound
<1>9. ScriptIsSound'
  <2>1. \A m \in LegacyRows' : m \in LegacyRows /\ msg'[m].ver = msg[m].ver
    BY DEF LegacyRows
  <2>2. script.pc \in {"rotate", "done"} => \A t \in Conversations, f \in Epochs : OnActive(keyEpoch'[<<t, f>>], 2)
    BY <1>3 DEF EnvelopeIInv, ScriptIsSound, OnActive
  <2> QED
    BY <2>1, <2>2, ScriptKeeps DEF EnvelopeIInv
<1>10. ASSUME NEW m \in Msgs
       PROVE  MessageIsSound(m)'
  <2> SUFFICES ASSUME msg'[m].state = "kept"
               PROVE  MessageIsSound(m)'
    BY DEF MessageIsSound
  <2>1. msg'[m] = msg[m] /\ msg[m].in # s /\ msg[m].in \in Conversations
    BY DEF EnvelopeIInv, EnvelopeTypeOK
  <2>2. MessageIsSound(m)
    BY SoundMessages DEF EnvelopeIInv
  <2>3. chat'[msg[m].in].mode = "secure"
    BY <1>2, <2>1, <2>2 DEF MessageIsSound
  <2>4. CASE msg[m].scheme = "legacy"
    BY <2>1, <2>2, <2>3, <2>4 DEF MessageIsSound, OpensLegacy
  <2>5. CASE msg[m].scheme # "legacy"
    <3>1. msg[m].scheme = "envelope"
      BY <2>5 DEF EnvelopeIInv, EnvelopeTypeOK
    <3>2. msg[m].ver \in Epochs
      BY <2>1, <2>2, <3>1 DEF MessageIsSound
    <3>3. keyEpoch'[<<msg[m].in, msg[m].ver>>] = keyEpoch[<<msg[m].in, msg[m].ver>>]
      BY <1>3, <2>1, <3>2
    <3> QED
      BY <2>1, <2>2, <2>3, <3>1, <3>2, <3>3 DEF MessageIsSound, Epochs
  <2> QED
    BY <2>4, <2>5
<1>11. MessagesHaveRows' /\ EveryMessageOpens'
  BY <1>5, <1>10, SoundMessagesNext
<1> QED
  BY <1>5, <1>6, <1>7, <1>8, <1>9, <1>11 DEF EnvelopeIInv

LEMMA UpdateSessionSecurityKeeps ==
    ASSUME EnvelopeIInv, NEW w \in Processes, NEW s \in Conversations, UpdateSessionKeys(w, s)
    PROVE  EnvelopeIInv'
<1>0. /\ EnvelopeTypeOK /\ KeyringsInOrder /\ CachesAreTrue /\ RotationsAreSound
      /\ conf[w] \in 1..3 /\ 1 \in Epochs /\ 1 \in 0..MaxEpoch
      /\ chat \in [Conversations -> Columns]
  BY KeysAssumption DEF EnvelopeIInv, EnvelopeTypeOK, Epochs, Columns
<1>1. UNCHANGED <<conf, env, msg, account, rot, script>> /\ Holds(s) = {}
  BY DEF UpdateSessionKeys
<1>2. CASE chat[s].mode = "secure"
  <2>1. /\ chat' = [chat EXCEPT ![s] = [mode |-> "private", epoch |-> 1, key |-> NoKey]]
        /\ keyEpoch' = [x \in DOMAIN keyEpoch |-> IF x[1] = s THEN NoKey ELSE keyEpoch[x]]
        /\ UNCHANGED <<deks, cache>>
    BY <1>2 DEF UpdateSessionKeys
  <2>2. PICK new : new = [mode |-> "private", epoch |-> 1, key |-> NoKey]
    OBVIOUS
  <2>3. new \in Columns /\ new.mode # "secure"
    BY <1>0, <2>2, NoKeyHasAType DEF Columns
  <2>4. \A m \in Msgs : msg'[m].state = "kept" => msg'[m] = msg[m] /\ msg[m].in # s
    BY <1>1 DEF Holds
  <2>5. msg' \in [Msgs -> [in : Conversations, state : {"new", "kept", "gone"},
                           scheme : {"legacy", "envelope"}, ver : 0..MaxEpoch + 1, key : KeyNames]]
    BY <1>0, <1>1 DEF EnvelopeTypeOK
  <2>6. CachesAreTrue'
    BY <1>0, <2>1, CachesKeep
  <2> QED
    BY <1>1, <2>1, <2>2, <2>3, <2>4, <2>5, <2>6, ClearStep
<1>3. CASE chat[s].mode # "secure"
  <2>1. PICK key : /\ chat[s].mode = "private" /\ deks < MaxDek /\ deks' = deks + 1
                   /\ key = Wrap(conf[w], deks + 1)
                   /\ chat' = [chat EXCEPT ![s] = [mode |-> "secure", epoch |-> 1, key |-> key]]
                   /\ keyEpoch' = [keyEpoch EXCEPT ![<<s, 1>>] = key]
                   /\ Remember(w, s, 1, key, key.dek)
    BY <1>3 DEF UpdateSessionKeys
  <2>2. /\ Active(conf[w]) \in Ring(env) /\ Active(conf[w]) \in 1..2
        /\ script.pc # "idle" => Active(conf[w]) = 2
    BY <1>0, WorkersWrapForAll
  <2>3. keyEpoch[<<s, 1>>] = NoKey
    BY <1>0, <1>3 DEF EnvelopeIInv, EpochsInOrder
  <2>4. RowIs(s, 1, key)
    BY <1>0, <2>1, <2>2, <2>3, FreshKeyIsRow
  <2>5. key \in Wrapped
    BY <2>4 DEF RowIs
  <2>6. chat' \in [Conversations -> Columns] /\ chat'[s].mode = "secure" /\ chat'[s].epoch = 1
    BY <1>0, <2>1, <2>5 DEF Columns
  <2>7. \A t \in Conversations : t # s => chat'[t] = chat[t]
    BY <1>0, <2>1
  <2>8. \A f \in Epochs : f <= 1 <=> f = 1
    BY DEF Epochs
  <2>9. ColumnsAre(s, 1, key)
    BY <1>3, <2>6, <2>7, <2>8 DEF ColumnsAre
  <2>10. CachesAreTrue'
    BY <1>0, <2>1, <2>5, RememberingIsTrue
  <2>11. rot' \in [Conversations -> 0..MaxEpoch] /\ RotationsAreSound'
    BY <1>0, <1>1 DEF EnvelopeTypeOK, RotationsAreSound
  <2> QED
    BY <1>0, <1>1, <2>4, <2>9, <2>10, <2>11, RowStep
<1> QED
  BY <1>2, <1>3

LEMMA DeleteSessionKeeps ==
    ASSUME EnvelopeIInv, NEW w \in Processes, NEW s \in Conversations, DeleteSessionKeys(w, s)
    PROVE  EnvelopeIInv'
<1>0. /\ EnvelopeTypeOK /\ CachesAreTrue /\ 0 \in 0..MaxEpoch
      /\ msg \in [Msgs -> [in : Conversations, state : {"new", "kept", "gone"},
                           scheme : {"legacy", "envelope"}, ver : 0..MaxEpoch + 1, key : KeyNames]]
  BY KeysAssumption DEF EnvelopeIInv, EnvelopeTypeOK
<1>1. /\ chat' = [chat EXCEPT ![s] = [mode |-> "gone", epoch |-> 0, key |-> NoKey]]
      /\ keyEpoch' = [x \in DOMAIN keyEpoch |-> IF x[1] = s THEN NoKey ELSE keyEpoch[x]]
      /\ msg' = [m \in Msgs |-> IF m \in Holds(s) THEN [msg[m] EXCEPT !.state = "gone"] ELSE msg[m]]
      /\ cache' = [cache EXCEPT ![w] = {}]
      /\ UNCHANGED <<conf, env, account, deks, rot, script>>
  BY DEF DeleteSessionKeys
<1>2. PICK new : new = [mode |-> "gone", epoch |-> 0, key |-> NoKey]
  OBVIOUS
<1>3. new \in Columns /\ new.mode # "secure"
  BY <1>0, <1>2, NoKeyHasAType DEF Columns
<1>4. msg' \in [Msgs -> [in : Conversations, state : {"new", "kept", "gone"},
                         scheme : {"legacy", "envelope"}, ver : 0..MaxEpoch + 1, key : KeyNames]]
  BY <1>0, <1>1
<1>5. \A m \in Msgs : msg'[m].state = "kept" => msg'[m] = msg[m] /\ msg[m].in # s
  BY <1>0, <1>1 DEF Holds
<1>6. CachesAreTrue'
  <2>1. PICK S : S = {}
    OBVIOUS
  <2>2. S \subseteq cache[w] /\ cache' = [cache EXCEPT ![w] = S] /\ CachesAreTrue
    BY <1>0, <1>1, <2>1
  <2> QED
    BY ONLY <2>2, CachesShrink, w \in Processes
<1> QED
  BY <1>1, <1>2, <1>3, <1>4, <1>5, <1>6, ClearStep

\* A step that leaves conversations, rows and messages alone.
LEMMA StillStep ==
    ASSUME EnvelopeIInv, UNCHANGED <<chat, keyEpoch, msg, script>>,
           RowsAreWrapped', MessagesHaveRows', EveryMessageOpens',
           EnvelopeTypeOK', KeyringsInOrder', CachesAreTrue', RotationsAreSound'
    PROVE  EnvelopeIInv'
<1>1. EpochsInOrder'
  BY DEF EnvelopeIInv, EpochsInOrder, Epochs
<1>2. ScriptIsSound'
  <2>1. \A n \in LegacyRows' : n \in LegacyRows /\ msg'[n].ver = msg[n].ver
    BY DEF LegacyRows
  <2>2. script.pc \in {"rotate", "done"} => \A t \in Conversations, f \in Epochs : OnActive(keyEpoch'[<<t, f>>], 2)
    BY DEF EnvelopeIInv, ScriptIsSound
  <2> QED
    BY <2>1, <2>2, ScriptKeeps DEF EnvelopeIInv
<1> QED
  BY <1>1, <1>2 DEF EnvelopeIInv

LEMMA QuietStep ==
    ASSUME EnvelopeIInv, UNCHANGED <<conf, env, chat, keyEpoch, msg, account, cache, deks, script>>,
           rot' \in [Conversations -> 0..MaxEpoch], RotationsAreSound'
    PROVE  EnvelopeIInv'
<1>1. EnvelopeTypeOK'
  BY DEF EnvelopeIInv, EnvelopeTypeOK, Wrapped, KeyNames, Epochs
<1>2. KeyringsInOrder' /\ RowsAreWrapped' /\ MessagesHaveRows' /\ EveryMessageOpens' /\ CachesAreTrue'
  BY KeyringsKeep, RowsKeep, MessagesKeep, CachesKeep DEF EnvelopeIInv
<1> QED
  BY <1>1, <1>2, StillStep

LEMMA ForgetKeeps ==
    ASSUME EnvelopeIInv, NEW w \in Processes, NEW x, Forget(w, x)
    PROVE  EnvelopeIInv'
<1>0. UNCHANGED <<conf, env, chat, keyEpoch, msg, account, deks, rot, script>>
  BY DEF Forget
<1>1. PICK S : S = cache[w] \ {x}
  OBVIOUS
<1>2. S \subseteq cache[w] /\ cache' = [cache EXCEPT ![w] = S] /\ CachesAreTrue
  BY <1>1 DEF Forget, EnvelopeIInv
<1>3. CachesAreTrue'
  BY ONLY <1>2, w \in Processes, CachesShrink
<1>4. EnvelopeTypeOK' /\ RotationsAreSound'
  BY <1>0 DEF EnvelopeIInv, EnvelopeTypeOK, RotationsAreSound, Wrapped, KeyNames, Epochs
<1>5. KeyringsInOrder' /\ RowsAreWrapped' /\ MessagesHaveRows' /\ EveryMessageOpens'
  BY <1>0, KeyringsKeep, RowsKeep, MessagesKeep DEF EnvelopeIInv
<1> QED
  BY <1>0, <1>3, <1>4, <1>5, StillStep

LEMMA RotateCommitKeeps ==
    ASSUME EnvelopeIInv, NEW w \in Processes, NEW s \in Conversations, RotateCommit(w, s)
    PROVE  EnvelopeIInv'
<1> DEFINE e == rot[s] + 1
<1>0. /\ EnvelopeTypeOK /\ KeyringsInOrder /\ CachesAreTrue /\ RotationsAreSound
      /\ conf[w] \in 1..3 /\ chat \in [Conversations -> Columns] /\ MaxEpoch \in Nat /\ Epochs = 1..MaxEpoch
      /\ rot \in [Conversations -> 0..MaxEpoch] /\ rot[s] < MaxEpoch
  BY KeysAssumption DEF EnvelopeIInv, EnvelopeTypeOK, Epochs, Columns, RotationsAreSound
<1>1. /\ rot[s] # 0 /\ rot' = [rot EXCEPT ![s] = 0]
      /\ UNCHANGED <<conf, env, msg, account, script>>
  BY DEF RotateCommit
<1>2. e \in Epochs /\ rot[s] \in Epochs /\ e \in 0..MaxEpoch
  BY <1>0, <1>1
<1>3. rot' \in [Conversations -> 0..MaxEpoch]
  BY <1>0, <1>1
<1>4. RotationsAreSound'
  BY <1>0, <1>1 DEF RotationsAreSound
<1>5. CASE keyEpoch[<<s, rot[s]>>] # NoKey /\ keyEpoch[<<s, e>>] = NoKey /\ deks < MaxDek
  <2>1. PICK key : /\ key = Wrap(conf[w], deks + 1) /\ deks' = deks + 1
                   /\ keyEpoch' = [keyEpoch EXCEPT ![<<s, e>>] = key]
                   /\ chat' = [chat EXCEPT ![s].epoch = e, ![s].key = key]
                   /\ Remember(w, s, e, key, key.dek)
    BY <1>5 DEF RotateCommit
  <2>2. /\ Active(conf[w]) \in Ring(env) /\ Active(conf[w]) \in 1..2
        /\ script.pc # "idle" => Active(conf[w]) = 2
    BY <1>0, WorkersWrapForAll
  <2>3. RowIs(s, e, key)
    <3> HIDE DEF e
    <3> QED
      BY <1>0, <1>2, <1>5, <2>1, <2>2, FreshKeyIsRow
  <2>4. key \in Wrapped
    BY <2>3 DEF RowIs
  <2>5. chat[s].mode = "secure" /\ rot[s] <= chat[s].epoch /\ ~(e <= chat[s].epoch)
    BY <1>2, <1>5 DEF EnvelopeIInv, EpochsInOrder
  <2>6. /\ chat' \in [Conversations -> Columns] /\ chat'[s].mode = "secure" /\ chat'[s].epoch = e
        /\ \A t \in Conversations : t # s => chat'[t] = chat[t]
    <3>1. chat' = [chat EXCEPT ![s].epoch = e, ![s].key = key]
      BY <2>1
    <3>2. chat \in [Conversations -> Columns] /\ chat[s].mode = "secure" /\ e \in 0..MaxEpoch
      BY <1>0, <1>2, <2>5
    <3> HIDE DEF e
    <3> QED
      BY ONLY <3>1, <3>2, <2>4, s \in Conversations, ColumnsFollow
  <2>7. chat[s].epoch \in 0..MaxEpoch
    BY <1>0 DEF Columns
  <2>8. chat[s].epoch = rot[s]
    BY <1>0, <2>5, <2>7
  <2>9. \A f \in Epochs : f <= e <=> f = e \/ (chat[s].mode = "secure" /\ f <= chat[s].epoch)
    BY <1>0, <2>5, <2>8
  <2>10. ColumnsAre(s, e, key)
    BY <2>6, <2>9 DEF ColumnsAre
  <2>11. CachesAreTrue'
    <3> HIDE DEF e
    <3> QED
      BY <1>0, <1>2, <2>1, <2>4, RememberingIsTrue
  <2> HIDE DEF e
  <2> QED
    BY <1>1, <1>2, <1>3, <1>4, <2>3, <2>10, <2>11, RowStep
<1>6. CASE ~(keyEpoch[<<s, rot[s]>>] # NoKey /\ keyEpoch[<<s, e>>] = NoKey /\ deks < MaxDek)
  <2>1. UNCHANGED <<deks, keyEpoch, chat, cache>>
    BY <1>6 DEF RotateCommit
  <2>2. UNCHANGED <<conf, env, chat, keyEpoch, msg, account, cache, deks, script>>
    BY <1>1, <2>1
  <2> QED
    BY <1>3, <1>4, <2>2, QuietStep
<1> QED
  BY <1>5, <1>6

LEMMA RotateReadKeeps ==
    ASSUME EnvelopeIInv, NEW s \in Conversations, RotateRead(s)
    PROVE  EnvelopeIInv'
<1>0. UNCHANGED <<conf, env, chat, keyEpoch, msg, account, cache, deks, script>>
  BY DEF RotateRead
<1>1. rot \in [Conversations -> 0..MaxEpoch] /\ MaxEpoch \in Nat /\ chat[s].epoch \in 1..MaxEpoch - 1
  BY KeysAssumption DEF RotateRead, EnvelopeIInv, EnvelopeTypeOK
<1>2. rot' = [rot EXCEPT ![s] = chat[s].epoch]
  BY DEF RotateRead
<1>3. rot' \in [Conversations -> 0..MaxEpoch]
  BY <1>1, <1>2
<1>4. RotationsAreSound'
  BY <1>1, <1>2 DEF EnvelopeIInv, RotationsAreSound
<1> QED
  BY <1>0, <1>3, <1>4, QuietStep

-----------------------------------------------------------------------------
(* The account's secrets, and the keyrings.                                *)

LEMMA AccountStep ==
    ASSUME EnvelopeIInv, UNCHANGED <<conf, env, chat, keyEpoch, msg, cache, rot, script>>,
           account' \in [key : Wrapped, seed : KeyNames], deks' \in 0..MaxDek
    PROVE  EnvelopeIInv'
<1>1. EnvelopeTypeOK' /\ RotationsAreSound'
  BY DEF EnvelopeIInv, EnvelopeTypeOK, RotationsAreSound, Wrapped, KeyNames, Epochs
<1>2. KeyringsInOrder' /\ RowsAreWrapped' /\ MessagesHaveRows' /\ EveryMessageOpens' /\ CachesAreTrue'
  BY KeyringsKeep, RowsKeep, MessagesKeep, CachesKeep DEF EnvelopeIInv
<1> QED
  BY <1>1, <1>2, StillStep

\* A wrapping of any data key there is.
LEMMA WrapHasAType ==
    ASSUME NEW c \in 1..3, NEW d \in 0..MaxDek
    PROVE  Wrap(c, d) \in Wrapped /\ Wrap(c, d) # NoKey /\ Wrap(c, d).dek = d /\ Wrap(c, d).kek = Active(c)
<1>1. Active(c) \in 1..2
  BY ActiveIsThere
<1> QED
  BY <1>1 DEF Wrap, Wrapped, NoKey

LEMMA EnrolSeedKeeps ==
    ASSUME EnvelopeIInv, NEW w \in Processes, EnrolSeed(w)
    PROVE  EnvelopeIInv'
<1>0. UNCHANGED <<conf, env, chat, keyEpoch, msg, cache, rot, script>>
  BY DEF EnrolSeed
<1>1. /\ conf[w] \in 1..3 /\ account.key \in Wrapped /\ deks \in Nat /\ MaxDek \in Nat
      /\ deks \in 0..MaxDek /\ deks + 1 \in 0..MaxDek
  BY KeysAssumption DEF EnrolSeed, EnvelopeIInv, EnvelopeTypeOK
<1>2. PICK key : /\ key = IF account.key = NoKey THEN Wrap(conf[w], deks + 1) ELSE account.key
                 /\ account' = [key |-> key, seed |-> Dek(key.dek)]
  BY DEF EnrolSeed
<1>3. key \in Wrapped
  BY <1>1, <1>2, WrapHasAType
<1>4. Dek(key.dek) \in KeyNames
  BY <1>1, <1>3 DEF Dek, KeyNames, Wrapped
<1>5. account' \in [key : Wrapped, seed : KeyNames]
  BY <1>2, <1>3, <1>4
<1>6. deks' \in 0..MaxDek
  BY <1>1 DEF EnrolSeed
<1> QED
  BY <1>0, <1>5, <1>6, AccountStep

LEMMA EncryptOtherSecretKeeps ==
    ASSUME EnvelopeIInv, NEW w \in Processes, EncryptOtherSecret(w)
    PROVE  EnvelopeIInv'
<1>0. UNCHANGED <<conf, env, chat, keyEpoch, msg, cache, rot, script>>
  BY DEF EncryptOtherSecret
<1>1. /\ conf[w] \in 1..3 /\ account \in [key : Wrapped, seed : KeyNames]
      /\ deks + 1 \in 0..MaxDek /\ deks' = deks + 1
  BY KeysAssumption DEF EncryptOtherSecret, EnvelopeIInv, EnvelopeTypeOK
<1>2. Wrap(conf[w], deks + 1) \in Wrapped
  BY <1>1, WrapHasAType
<1>3. account' = [account EXCEPT !.key = Wrap(conf[w], deks + 1)]
  BY DEF EncryptOtherSecret
<1>4. account' \in [key : Wrapped, seed : KeyNames]
  BY <1>1, <1>2, <1>3
<1> QED
  BY <1>0, <1>1, <1>4, AccountStep

\* The environment has more keys.
LEMMA AddKeyKeeps ==
    ASSUME EnvelopeIInv, AddKey
    PROVE  EnvelopeIInv'
<1>0. env = 1 /\ env' = 2 /\ UNCHANGED <<conf, chat, keyEpoch, msg, account, cache, deks, rot, script>>
  BY DEF AddKey
<1>1. EnvelopeTypeOK' /\ RotationsAreSound'
  BY <1>0 DEF EnvelopeIInv, EnvelopeTypeOK, RotationsAreSound, Wrapped, KeyNames, Epochs
<1>2. KeyringsInOrder'
  BY <1>0 DEF EnvelopeIInv, EnvelopeTypeOK, KeyringsInOrder
<1>3. Ring(env) \subseteq Ring(env')
  BY <1>0 DEF Ring
<1>4. RowsAreWrapped'
  BY <1>0, <1>3 DEF EnvelopeIInv, RowsAreWrapped, Epochs
<1>5. MessagesHaveRows'
  BY <1>0 DEF EnvelopeIInv, MessagesHaveRows, Epochs
<1>6. EveryMessageOpens'
  BY <1>0, <1>3 DEF EnvelopeIInv, EveryMessageOpens, OpensLegacy
<1>7. CachesAreTrue'
  BY <1>0, CachesKeep DEF EnvelopeIInv
<1> QED
  BY <1>0, <1>1, <1>2, <1>4, <1>5, <1>6, <1>7, StillStep

\* Nothing needs the key that goes.
LEMMA RetireKeyKeeps ==
    ASSUME EnvelopeIInv, RetireKey
    PROVE  EnvelopeIInv'
<1>0. /\ script.pc = "done" /\ env = 2 /\ env' = 3
      /\ UNCHANGED <<conf, chat, keyEpoch, msg, account, cache, deks, rot, script>>
  BY DEF RetireKey
<1>1. EnvelopeTypeOK' /\ RotationsAreSound'
  BY <1>0 DEF EnvelopeIInv, EnvelopeTypeOK, RotationsAreSound, Wrapped, KeyNames, Epochs
<1>2. KeyringsInOrder'
  BY <1>0 DEF EnvelopeIInv, EnvelopeTypeOK, KeyringsInOrder
<1>3. \A s \in Conversations, e \in Epochs : keyEpoch[<<s, e>>] # NoKey => keyEpoch[<<s, e>>].kek = 2
  BY <1>0 DEF EnvelopeIInv, ScriptIsSound, OnActive
<1>4. \A m \in LegacyRows : msg[m].ver = 2
  BY <1>0 DEF EnvelopeIInv, ScriptIsSound
<1>5. 2 \in Ring(3)
  BY DEF Ring
<1>6. RowsAreWrapped'
  BY <1>0, <1>3, <1>5 DEF EnvelopeIInv, RowsAreWrapped, Epochs
<1>7. MessagesHaveRows'
  BY <1>0 DEF EnvelopeIInv, MessagesHaveRows, Epochs
<1>8. ASSUME NEW m \in Msgs
      PROVE  MessageIsSound(m)'
  <2> SUFFICES ASSUME msg[m].state = "kept"
               PROVE  MessageIsSound(m)'
    BY <1>0 DEF MessageIsSound
  <2>1. MessageIsSound(m) /\ msg[m].in \in Conversations
    BY SoundMessages DEF EnvelopeIInv, EnvelopeTypeOK
  <2>2. CASE msg[m].scheme = "legacy"
    <3>1. msg[m].ver = 2
      BY <1>4, <2>2 DEF LegacyRows
    <3> QED
      BY <1>0, <1>5, <2>1, <2>2, <3>1 DEF MessageIsSound, OpensLegacy
  <2>3. CASE msg[m].scheme # "legacy"
    <3>1. msg[m].scheme = "envelope"
      BY <2>3 DEF EnvelopeIInv, EnvelopeTypeOK
    <3> QED
      BY <1>0, <1>3, <1>5, <2>1, <3>1 DEF MessageIsSound, Epochs
  <2> QED
    BY <2>2, <2>3
<1>9. EveryMessageOpens'
  BY <1>1, <1>8, SoundMessagesNext
<1>10. CachesAreTrue'
  BY <1>0, CachesKeep DEF EnvelopeIInv
<1> QED
  BY <1>0, <1>1, <1>2, <1>6, <1>7, <1>9, <1>10, StillStep

LEMMA RestartKeeps ==
    ASSUME EnvelopeIInv, NEW w \in Processes, Restart(w)
    PROVE  EnvelopeIInv'
<1>0. /\ conf' = [conf EXCEPT ![w] = env] /\ cache' = [cache EXCEPT ![w] = {}]
      /\ UNCHANGED <<env, chat, keyEpoch, msg, account, deks, rot, script>>
  BY DEF Restart
<1>1. conf \in [Processes -> 1..3] /\ env \in 1..3
  BY DEF EnvelopeIInv, EnvelopeTypeOK
<1>2. EnvelopeTypeOK' /\ RotationsAreSound'
  BY <1>0 DEF EnvelopeIInv, EnvelopeTypeOK, RotationsAreSound, Wrapped, KeyNames, Epochs
<1>4. script.pc # "idle" => env >= 2
  <2>1. script.pc # "idle" => conf[w] >= 2 /\ conf[w] <= env
    BY DEF EnvelopeIInv, KeyringsInOrder
  <2> QED
    BY <1>1, <2>1
<1>5. KeyringsInOrder'
  BY <1>0, <1>1, <1>4 DEF EnvelopeIInv, KeyringsInOrder
<1>6. RowsAreWrapped' /\ MessagesHaveRows' /\ EveryMessageOpens'
  BY <1>0, RowsKeep, MessagesKeep DEF EnvelopeIInv
<1>7. CachesAreTrue'
  <2>1. PICK S : S = {}
    OBVIOUS
  <2>2. S \subseteq cache[w] /\ cache' = [cache EXCEPT ![w] = S] /\ CachesAreTrue
    BY <1>0, <2>1 DEF EnvelopeIInv
  <2> QED
    BY ONLY <2>2, CachesShrink, w \in Processes
<1> QED
  BY <1>0, <1>2, <1>5, <1>6, <1>7, StillStep

-----------------------------------------------------------------------------
(* The operator's scripts.                                                 *)

\* What a script holds: a set of messages and keys it read.
ScriptType == [pc : {"idle", "rewrap", "migrate", "rotate", "done"}, rows : SUBSET Msgs,
               keys : SUBSET [at : Conversations \X Epochs, dek : 1..MaxDek, current : BOOLEAN]]

LEMMA IdleHasAType == NoScript \in ScriptType /\ NoScript.pc = "idle"
BY DEF NoScript, ScriptType

\* A script that is running, or waits for the old key to be retired, found every
\* worker on the new keyring.
LEMMA ScriptIsAhead ==
    ASSUME EnvelopeIInv, script.pc \in {"rewrap", "migrate", "rotate"}
    PROVE  env = 2 /\ Active(env) = 2 /\ 2 \in Ring(env) /\ \A w \in Processes : conf[w] >= 2
BY DEF EnvelopeIInv, KeyringsInOrder, Active, Ring

\* A step of a script that changes no conversation, row or message.
LEMMA ScriptStep ==
    ASSUME EnvelopeIInv, UNCHANGED <<conf, env, chat, keyEpoch, msg, cache, rot>>,
           account' \in [key : Wrapped, seed : KeyNames], deks' \in 0..MaxDek,
           script' \in ScriptType,
           script'.pc # "idle" => env = 2 /\ \A w \in Processes : conf[w] >= 2,
           env # 3,
           script'.pc \in {"rotate", "done"} =>
              /\ \A s \in Conversations, e \in Epochs : OnActive(keyEpoch[<<s, e>>], 2)
              /\ \A m \in LegacyRows : msg[m].ver # 2 => script'.pc = "rotate" /\ m \in script'.rows
    PROVE  EnvelopeIInv'
<1>1. EnvelopeTypeOK' /\ RotationsAreSound'
  BY DEF EnvelopeIInv, EnvelopeTypeOK, RotationsAreSound, Wrapped, KeyNames, Epochs, ScriptType
<1>2. KeyringsInOrder'
  BY DEF EnvelopeIInv, KeyringsInOrder
<1>3. EpochsInOrder' /\ RowsAreWrapped' /\ MessagesHaveRows' /\ EveryMessageOpens' /\ CachesAreTrue'
  BY RowsKeep, MessagesKeep, CachesKeep DEF EnvelopeIInv
<1>4. LegacyRows' = LegacyRows
  BY DEF LegacyRows
<1>5. ScriptIsSound'
  BY <1>4 DEF ScriptIsSound, ScriptType, Epochs
<1> QED
  BY <1>1, <1>2, <1>3, <1>5 DEF EnvelopeIInv

LEMMA ReadyIsAhead ==
    ASSUME EnvelopeIInv, Ready
    PROVE  env = 2 /\ Active(env) = 2 /\ \A w \in Processes : conf[w] >= 2
BY DEF Ready, Active

LEMMA ReadsKeep ==
    ASSUME EnvelopeIInv, RewrapRead \/ MigrateRead \/ RotateLegacyRead \/ ScriptDies
    PROVE  EnvelopeIInv'
<1>0. UNCHANGED <<conf, env, chat, keyEpoch, msg, account, cache, deks, rot>>
  BY DEF RewrapRead, MigrateRead, RotateLegacyRead, ScriptDies
<1>1. account' \in [key : Wrapped, seed : KeyNames] /\ deks' \in 0..MaxDek
  BY <1>0 DEF EnvelopeIInv, EnvelopeTypeOK
<1>2. CASE ScriptDies
  <2>1. script' = NoScript /\ env # 3
    BY <1>2, ScriptIsAhead DEF ScriptDies
  <2> QED
    BY <1>0, <1>1, <2>1, IdleHasAType, ScriptStep
<1>3. CASE MigrateRead
  <2>1. env = 2 /\ \A w \in Processes : conf[w] >= 2
    BY <1>3, ReadyIsAhead DEF MigrateRead
  <2>2. script' = [pc |-> "migrate", rows |-> LegacyRows, keys |-> {}]
    BY <1>3 DEF MigrateRead, NoScript
  <2>3. script' \in ScriptType /\ script'.pc = "migrate"
    BY <2>2 DEF ScriptType, LegacyRows
  <2> QED
    BY <1>0, <1>1, <2>1, <2>3, ScriptStep
<1>4. CASE RotateLegacyRead
  <2>1. env = 2 /\ Active(env) = 2 /\ \A w \in Processes : conf[w] >= 2
    BY <1>4, ReadyIsAhead DEF RotateLegacyRead
  <2>2. PICK R : R = {m \in LegacyRows : msg[m].ver # Active(env)}
    OBVIOUS
  <2>3. script' = [pc |-> "rotate", rows |-> R, keys |-> {}]
    BY <1>4, <2>2 DEF RotateLegacyRead, NoScript
  <2>4. R \subseteq Msgs
    BY <2>2 DEF LegacyRows
  <2>5. script' \in ScriptType /\ script'.pc = "rotate" /\ script'.rows = R
    BY <2>3, <2>4 DEF ScriptType
  <2>6. \A m \in LegacyRows : msg[m].ver # 2 => m \in R
    BY <2>1, <2>2
  <2>7. DOMAIN keyEpoch = Conversations \X Epochs
    BY DEF EnvelopeIInv, EnvelopeTypeOK
  <2>8. \A s \in Conversations, e \in Epochs : OnActive(keyEpoch[<<s, e>>], 2)
    BY <1>4, <2>1, <2>7 DEF RotateLegacyRead, AllOnActive
  <2> QED
    BY <1>0, <1>1, <2>1, <2>5, <2>6, <2>8, ScriptStep
<1>5. CASE RewrapRead
  <2>1. env = 2 /\ \A w \in Processes : conf[w] >= 2
    BY <1>5, ReadyIsAhead DEF RewrapRead
  <2>2. PICK K : K = {[at |-> x, dek |-> keyEpoch[x].dek, current |-> x[2] = chat[x[1]].epoch] :
                        x \in {y \in DOMAIN keyEpoch : keyEpoch[y] # NoKey /\ chat[y[1]].key # NoKey}}
    OBVIOUS
  <2>3. script' = [pc |-> "rewrap", rows |-> {}, keys |-> K]
    BY <1>5, <2>2 DEF RewrapRead
  <2>4. ASSUME NEW k \in K
        PROVE  k \in [at : Conversations \X Epochs, dek : 1..MaxDek, current : BOOLEAN]
    <3>1. PICK x \in Conversations \X Epochs :
              /\ keyEpoch[x] # NoKey
              /\ k = [at |-> x, dek |-> keyEpoch[x].dek, current |-> x[2] = chat[x[1]].epoch]
      BY <2>2, <2>4 DEF EnvelopeIInv, EnvelopeTypeOK
    <3>2. keyEpoch[x] \in Wrapped /\ MaxDek \in Nat
      BY KeysAssumption DEF EnvelopeIInv, EnvelopeTypeOK
    <3>3. keyEpoch[x].dek # 0
      <4>1. PICK s \in Conversations, e \in Epochs : x = <<s, e>>
        OBVIOUS
      <4> QED
        BY <3>1, <4>1 DEF EnvelopeIInv, RowsAreWrapped
    <3>4. keyEpoch[x].dek \in 1..MaxDek
      BY <3>2, <3>3 DEF Wrapped
    <3> QED
      BY <3>1, <3>4
  <2>5. script' \in ScriptType /\ script'.pc = "rewrap"
    BY <2>3, <2>4 DEF ScriptType
  <2> QED
    BY <1>0, <1>1, <2>1, <2>5, ScriptStep
<1> QED
  BY <1>2, <1>3, <1>4, <1>5

LEMMA EndsKeep ==
    ASSUME EnvelopeIInv, MigrateEnd \/ RotateLegacyEnd
    PROVE  EnvelopeIInv'
<1>0. UNCHANGED <<conf, env, chat, keyEpoch, msg, cache, rot>>
  BY DEF MigrateEnd, RotateLegacyEnd
<1>1. account \in [key : Wrapped, seed : KeyNames] /\ deks \in 0..MaxDek /\ MaxDek \in Nat /\ env \in 1..3
  BY KeysAssumption DEF EnvelopeIInv, EnvelopeTypeOK
<1>2. CASE MigrateEnd
  <2>1. env # 3 /\ script' = NoScript
    BY <1>2, ScriptIsAhead DEF MigrateEnd
  <2>2. CASE account.key = NoKey /\ SeedOpens(env)
    <3>1. deks + 1 \in 0..MaxDek /\ deks' = deks + 1
      BY <1>1, <1>2, <2>2 DEF MigrateEnd
    <3>2. account' = [key |-> Wrap(env, deks + 1), seed |-> Dek(deks + 1)]
      BY <1>2, <2>2 DEF MigrateEnd
    <3>3. Wrap(env, deks + 1) \in Wrapped
      BY <1>1, <3>1, WrapHasAType
    <3>4. Dek(deks + 1) \in KeyNames
      BY <1>1 DEF Dek, KeyNames
    <3>5. account' \in [key : Wrapped, seed : KeyNames]
      BY <3>2, <3>3, <3>4
    <3> QED
      BY <1>0, <2>1, <3>1, <3>5, IdleHasAType, ScriptStep
  <2>3. CASE ~(account.key = NoKey /\ SeedOpens(env))
    <3>1. deks' = deks /\ account' = account
      BY <1>2, <2>3 DEF MigrateEnd
    <3> QED
      BY <1>0, <1>1, <2>1, <3>1, IdleHasAType, ScriptStep
  <2> QED
    BY <2>2, <2>3
<1>3. CASE RotateLegacyEnd
  <2>1. /\ env = 2 /\ Active(env) = 2 /\ \A w \in Processes : conf[w] >= 2
        /\ script.pc = "rotate" /\ script.rows = {} /\ deks' = deks
    BY <1>3, ScriptIsAhead DEF RotateLegacyEnd
  <2>2. account' \in [key : Wrapped, seed : KeyNames]
    <3>1. Kek(Active(env)) \in KeyNames
      BY <2>1 DEF Kek, KeyNames
    <3>2. account' = account \/ account' = [account EXCEPT !.seed = Kek(Active(env))]
      BY <1>3 DEF RotateLegacyEnd
    <3> QED
      BY <1>1, <3>1, <3>2
  <2>3. script' \in ScriptType /\ script'.pc \in {"idle", "done"}
    BY <1>3 DEF RotateLegacyEnd, NoScript, ScriptType
  <2>4. /\ \A s \in Conversations, e \in Epochs : OnActive(keyEpoch[<<s, e>>], 2)
        /\ \A m \in LegacyRows : msg[m].ver = 2
    BY <2>1 DEF EnvelopeIInv, ScriptIsSound
  <2> QED
    BY <1>0, <1>1, <2>1, <2>2, <2>3, <2>4, ScriptStep
<1> QED
  BY <1>2, <1>3

\* A script that gives up.
LEMMA GivingUpKeeps ==
    ASSUME EnvelopeIInv, script.pc \in {"rewrap", "migrate", "rotate"}, script' = NoScript,
           UNCHANGED <<conf, env, chat, keyEpoch, msg, account, cache, deks, rot>>
    PROVE  EnvelopeIInv'
<1>1. account' \in [key : Wrapped, seed : KeyNames] /\ deks' \in 0..MaxDek
  BY DEF EnvelopeIInv, EnvelopeTypeOK
<1>2. env # 3
  BY ScriptIsAhead
<1> QED
  BY <1>1, <1>2, IdleHasAType, ScriptStep

\* migrate_legacy_message: the message moves to the row it is encrypted under, in
\* one commit.
LEMMA MigrateRowKeeps ==
    ASSUME EnvelopeIInv, NEW m \in Msgs, MigrateRow(m)
    PROVE  EnvelopeIInv'
<1>0. /\ EnvelopeTypeOK /\ CachesAreTrue /\ RotationsAreSound /\ KeyringsInOrder
      /\ script \in ScriptType
      /\ MaxEpoch \in Nat /\ Epochs = 1..MaxEpoch /\ chat \in [Conversations -> Columns]
      /\ msg \in [Msgs -> [in : Conversations, state : {"new", "kept", "gone"},
                           scheme : {"legacy", "envelope"}, ver : 0..MaxEpoch + 1, key : KeyNames]]
  BY KeysAssumption DEF EnvelopeIInv, EnvelopeTypeOK, Epochs, Columns, ScriptIsSound, ScriptType
<1>1. /\ script.pc = "migrate" /\ m \in script.rows
      /\ UNCHANGED <<conf, env, account, cache, rot>>
  BY DEF MigrateRow
<1>2. env = 2 /\ Active(env) = 2 /\ 2 \in Ring(env) /\ \A w \in Processes : conf[w] >= 2
  BY <1>1, ScriptIsAhead
<1>3. CASE ~(m \in LegacyRows /\ OpensLegacy(env, m))
  <2>1. script' = NoScript /\ UNCHANGED <<chat, keyEpoch, msg, deks>>
    BY <1>3 DEF MigrateRow
  <2> QED
    BY <1>1, <2>1, GivingUpKeeps
<1>4. CASE m \in LegacyRows /\ OpensLegacy(env, m)
  <2>1. PICK s : s = msg[m].in
    OBVIOUS
  <2>2. PICK e \in Epochs, key \in Wrapped :
               /\ EnsureSessionKey(env, s, e, key)
               /\ chat' = [chat EXCEPT ![s].epoch = e, ![s].key = key]
               /\ msg' = [msg EXCEPT ![m] = [in |-> s, state |-> "kept", scheme |-> "envelope",
                                             ver |-> e, key |-> Dek(key.dek)]]
               /\ script' = [script EXCEPT !.rows = @ \ {m}]
    BY <1>4, <2>1 DEF MigrateRow
  <2>3. s \in Conversations /\ chat[s].mode = "secure"
    <3>1. MessageIsSound(m) /\ msg[m].state = "kept"
      BY <1>4, SoundMessages DEF EnvelopeIInv, LegacyRows
    <3> QED
      BY <1>0, <2>1, <3>1 DEF MessageIsSound
  <2>4. /\ RowIs(s, e, key)
        /\ \A f \in Epochs : f <= e <=> f = e \/ (chat[s].mode = "secure" /\ f <= chat[s].epoch)
    <3>1. /\ env \in 1..3 /\ Active(env) \in Ring(env) /\ Active(env) \in 1..2
          /\ script.pc # "idle" => Active(env) = 2
      BY <1>2
    <3> QED
      BY <2>2, <2>3, <3>1, EnsuredKeyIsRow
  <2>5. /\ chat' \in [Conversations -> Columns] /\ chat'[s].mode = "secure" /\ chat'[s].epoch = e
        /\ \A t \in Conversations : t # s => chat'[t] = chat[t]
    <3>1. chat' = [chat EXCEPT ![s].epoch = e, ![s].key = key]
      BY <2>2
    <3>2. e \in 0..MaxEpoch /\ chat \in [Conversations -> Columns] /\ chat[s].mode = "secure" /\ s \in Conversations
      BY <1>0, <2>3
    <3> QED
      BY ONLY <3>1, <3>2, key \in Wrapped, ColumnsFollow
  <2>6. ColumnsAre(s, e, key)
    BY <2>4, <2>5 DEF ColumnsAre
  <2>7. /\ msg' \in [Msgs -> [in : Conversations, state : {"new", "kept", "gone"},
                              scheme : {"legacy", "envelope"}, ver : 0..MaxEpoch + 1, key : KeyNames]]
        /\ msg'[m].in = s /\ msg'[m].scheme = "envelope" /\ msg'[m].ver = e /\ msg'[m].key = Dek(key.dek)
        /\ \A n \in Msgs : n # m => msg'[n] = msg[n]
    <3>1. e \in 0..MaxEpoch + 1 /\ Dek(key.dek) \in KeyNames
      BY <1>0 DEF Wrapped, Dek, KeyNames
    <3>2. PICK k : k = Dek(key.dek)
      OBVIOUS
    <3>3. msg' = [msg EXCEPT ![m] = [in |-> s, state |-> "kept", scheme |-> "envelope", ver |-> e, key |-> k]]
      BY <2>2, <3>2
    <3> QED
      BY <1>0, <2>3, <3>1, <3>2, <3>3
  <2>8. script' \in ScriptType /\ script'.pc = "migrate"
    BY <1>0, <1>1, <2>2 DEF ScriptType
  <2>9. EpochsInOrder' /\ RowsAreWrapped'
    BY <1>1, <2>3, <2>4, <2>6, <2>8, RowKeepsOrder
  <2>10. EnvelopeTypeOK'
    BY <1>0, <1>1, <2>4, <2>5, <2>7, <2>8 DEF EnvelopeTypeOK, RowIs, Columns, Wrapped, KeyNames, Epochs
  <2>11. KeyringsInOrder' /\ RotationsAreSound' /\ CachesAreTrue'
    BY <1>0, <1>1, <2>8, KeyringsKeep, CachesKeep DEF RotationsAreSound
  <2>12. ScriptIsSound'
    BY <2>8 DEF ScriptIsSound, ScriptType, Epochs
  <2>13. ASSUME NEW n \in Msgs
         PROVE  MessageIsSound(n)'
    <3>1. CASE n # m
      BY <1>1, <2>3, <2>4, <2>6, <2>7, <3>1, RowKeepsMessages
    <3>2. CASE n = m
      <4>1. keyEpoch'[<<s, e>>] = key /\ key # NoKey /\ key.kek \in Ring(env)
        BY <2>4 DEF RowIs
      <4> QED
        BY <1>1, <2>5, <2>7, <3>2, <4>1 DEF MessageIsSound, Epochs
    <3> QED
      BY <3>1, <3>2
  <2>14. MessagesHaveRows' /\ EveryMessageOpens'
    BY <2>10, <2>13, SoundMessagesNext
  <2> QED
    BY <2>9, <2>10, <2>11, <2>12, <2>14 DEF EnvelopeIInv
<1> QED
  BY <1>3, <1>4

\* A message of the old scheme moves to the new key, and off the script's list.
LEMMA RotateLegacyRowKeeps ==
    ASSUME EnvelopeIInv, NEW m \in Msgs, RotateLegacyRow(m)
    PROVE  EnvelopeIInv'
<1>0. /\ EnvelopeTypeOK /\ CachesAreTrue /\ RotationsAreSound /\ KeyringsInOrder
      /\ script \in ScriptType /\ MaxEpoch \in Nat \ {0}
      /\ msg \in [Msgs -> [in : Conversations, state : {"new", "kept", "gone"},
                           scheme : {"legacy", "envelope"}, ver : 0..MaxEpoch + 1, key : KeyNames]]
  BY KeysAssumption DEF EnvelopeIInv, EnvelopeTypeOK, ScriptIsSound, ScriptType
<1>1. /\ script.pc = "rotate" /\ m \in script.rows
      /\ UNCHANGED <<conf, env, chat, keyEpoch, account, cache, deks, rot>>
  BY DEF RotateLegacyRow
<1>2. env = 2 /\ Active(env) = 2 /\ 2 \in Ring(env)
  BY <1>1, ScriptIsAhead
<1>3. CASE ~(m \in LegacyRows /\ OpensLegacy(env, m))
  <2>1. script' = NoScript /\ UNCHANGED msg
    BY <1>3 DEF RotateLegacyRow
  <2> QED
    BY <1>1, <2>1, GivingUpKeeps
<1>4. CASE m \in LegacyRows /\ OpensLegacy(env, m)
  <2>1. PICK k : k = Kek(2)
    OBVIOUS
  <2>2. /\ msg' = [msg EXCEPT ![m].ver = 2, ![m].key = k]
        /\ script' = [script EXCEPT !.rows = @ \ {m}]
    BY <1>2, <1>4, <2>1 DEF RotateLegacyRow
  <2>3. 2 \in 0..MaxEpoch + 1 /\ k \in KeyNames
    BY <1>0, <2>1 DEF Kek, KeyNames
  <2>4. msg' \in [Msgs -> [in : Conversations, state : {"new", "kept", "gone"},
                           scheme : {"legacy", "envelope"}, ver : 0..MaxEpoch + 1, key : KeyNames]]
    BY ONLY <1>0, <2>2, <2>3, m \in Msgs, ZenonT(60)
  <2>5. msg'[m].in = msg[m].in /\ msg'[m].scheme = msg[m].scheme /\ msg'[m].state = msg[m].state
    BY ONLY <1>0, <2>2, m \in Msgs
  <2>6. msg'[m].ver = 2
    BY ONLY <1>0, <2>2, m \in Msgs
  <2>7. msg'[m].key = k
    BY ONLY <1>0, <2>2, m \in Msgs
  <2>8. \A n \in Msgs : n # m => msg'[n] = msg[n]
    BY ONLY <1>0, <2>2, m \in Msgs
  <2>9. script' \in ScriptType /\ script'.pc = "rotate" /\ script'.rows = script.rows \ {m}
    BY <1>0, <1>1, <2>2 DEF ScriptType
  <2>10. EnvelopeTypeOK'
    BY <1>0, <1>1, <2>4, <2>9 DEF EnvelopeTypeOK, Wrapped, KeyNames, Epochs
  <2>11. EpochsInOrder' /\ RowsAreWrapped' /\ KeyringsInOrder' /\ RotationsAreSound' /\ CachesAreTrue'
    BY <1>0, <1>1, <2>9, KeyringsKeep, CachesKeep, RowsKeep DEF EnvelopeIInv, RotationsAreSound
  <2>12. ScriptIsSound'
    <3>1. \A s \in Conversations, e \in Epochs : OnActive(keyEpoch'[<<s, e>>], 2)
      BY <1>1 DEF EnvelopeIInv, ScriptIsSound
    <3>2. ASSUME NEW n \in LegacyRows', msg'[n].ver # 2
          PROVE  n \in script'.rows
      <4>1. n \in Msgs /\ n # m
        BY <2>6, <3>2 DEF LegacyRows
      <4>2. msg'[n] = msg[n] /\ n \in LegacyRows
        BY <2>8, <3>2, <4>1 DEF LegacyRows
      <4>3. n \in script.rows
        BY <1>1, <3>2, <4>2 DEF EnvelopeIInv, ScriptIsSound
      <4> QED
        BY <2>9, <4>1, <4>3
    <3> QED
      BY <2>9, <3>1, <3>2 DEF ScriptIsSound, ScriptType, Epochs
  <2>13. ASSUME NEW n \in Msgs
         PROVE  MessageIsSound(n)'
    <3>0. MessageIsSound(n)
      BY SoundMessages DEF EnvelopeIInv
    <3>1. CASE n # m
      BY <1>1, <2>8, <3>0, <3>1 DEF MessageIsSound, OpensLegacy, Epochs
    <3>2. CASE n = m
      <4>1. msg[m].scheme = "legacy"
        BY <1>4 DEF LegacyRows
      <4> QED
        BY <1>1, <1>2, <2>1, <2>5, <2>6, <2>7, <3>0, <3>2, <4>1 DEF MessageIsSound, OpensLegacy
    <3> QED
      BY <3>1, <3>2
  <2>14. MessagesHaveRows' /\ EveryMessageOpens'
    BY <2>10, <2>13, SoundMessagesNext
  <2> QED
    BY <2>10, <2>11, <2>12, <2>14 DEF EnvelopeIInv
<1> QED
  BY <1>3, <1>4

\* The one commit of rewrap_deks: wrappings change, data keys do not.
LEMMA RewrapCommitKeeps ==
    ASSUME EnvelopeIInv, RewrapCommit
    PROVE  EnvelopeIInv'
<1>0. /\ EnvelopeTypeOK /\ CachesAreTrue /\ RotationsAreSound /\ KeyringsInOrder
      /\ script \in ScriptType /\ MaxDek \in Nat /\ env \in 1..3
      /\ chat \in [Conversations -> Columns] /\ keyEpoch \in [Conversations \X Epochs -> Wrapped]
      /\ account \in [key : Wrapped, seed : KeyNames]
  BY KeysAssumption DEF EnvelopeIInv, EnvelopeTypeOK, ScriptIsSound, ScriptType, Columns
<1>1. /\ script.pc = "rewrap" /\ script' = NoScript
      /\ UNCHANGED <<conf, env, msg, cache, deks, rot>>
  BY DEF RewrapCommit
<1>2. env = 2 /\ Active(env) = 2 /\ 2 \in Ring(env)
  BY <1>1, ScriptIsAhead
<1>3. CASE ~(\A k \in script.keys : keyEpoch[k.at].dek = k.dek /\ keyEpoch[k.at].kek \in Ring(env))
  <2>1. UNCHANGED <<keyEpoch, chat, account>>
    BY <1>3 DEF RewrapCommit
  <2> QED
    BY <1>1, <2>1, GivingUpKeeps
<1>4. CASE \A k \in script.keys : keyEpoch[k.at].dek = k.dek /\ keyEpoch[k.at].kek \in Ring(env)
  <2>1. keyEpoch' = [x \in DOMAIN keyEpoch |-> IF \E k \in script.keys : k.at = x
                                         THEN Wrap(env, keyEpoch[x].dek) ELSE keyEpoch[x]]
    BY <1>4 DEF RewrapCommit
  <2>2. chat' = [s \in Conversations |->
                  LET now == {k \in script.keys : k.at[1] = s /\ k.current}
                  IN  IF now = {} THEN chat[s]
                      ELSE [chat[s] EXCEPT !.key = Wrap(env, (CHOOSE k \in now : TRUE).dek)]]
    BY <1>4 DEF RewrapCommit
  <2>3. account' = IF account.key = NoKey THEN account
                   ELSE [account EXCEPT !.key = Wrap(env, account.key.dek)]
    BY <1>4 DEF RewrapCommit
  <2>4. \A k \in script.keys : k.at \in Conversations \X Epochs /\ k.dek \in 1..MaxDek
    BY <1>0 DEF ScriptType
  <2>5. \A d \in 0..MaxDek : Wrap(env, d) \in Wrapped /\ Wrap(env, d) # NoKey /\ Wrap(env, d).dek = d
                             /\ Wrap(env, d).kek = 2
    BY <1>0, <1>2, WrapHasAType
  <2>6. ASSUME NEW s \in Conversations
        PROVE  chat'[s] \in Columns /\ chat'[s].mode = chat[s].mode /\ chat'[s].epoch = chat[s].epoch
    <3>1. PICK now : now = {k \in script.keys : k.at[1] = s /\ k.current}
      OBVIOUS
    <3>2. chat'[s] = IF now = {} THEN chat[s]
                     ELSE [chat[s] EXCEPT !.key = Wrap(env, (CHOOSE k \in now : TRUE).dek)]
      BY <2>2, <3>1
    <3>3. CASE now = {}
      BY <1>0, <3>2, <3>3
    <3>4. CASE now # {}
      <4>1. (CHOOSE k \in now : TRUE) \in now
        BY <3>4
      <4>2. PICK d : d = (CHOOSE k \in now : TRUE).dek
        OBVIOUS
      <4>3. d \in 0..MaxDek
        BY <1>0, <2>4, <3>1, <4>1, <4>2
      <4>4. PICK key \in Wrapped : key = Wrap(env, d)
        BY <2>5, <4>3
      <4>5. chat'[s] = [chat[s] EXCEPT !.key = key]
        BY <3>2, <3>4, <4>2, <4>4
      <4>6. chat[s] \in Columns
        BY <1>0
      <4> QED
        BY ONLY <4>5, <4>6, key \in Wrapped DEF Columns
    <3> QED
      BY <3>3, <3>4
  <2>7. chat' \in [Conversations -> Columns]
    <3>1. chat' = [s \in Conversations |-> chat'[s]]
      BY <2>2
    <3> QED
      BY <2>6, <3>1
  <2>8. ASSUME NEW s \in Conversations, NEW e \in Epochs
        PROVE  /\ keyEpoch'[<<s, e>>] \in Wrapped
               /\ keyEpoch'[<<s, e>>].dek = keyEpoch[<<s, e>>].dek
               /\ keyEpoch'[<<s, e>>] # NoKey <=> keyEpoch[<<s, e>>] # NoKey
               /\ keyEpoch'[<<s, e>>].kek \in {2, keyEpoch[<<s, e>>].kek}
    <3>1. PICK x \in Conversations \X Epochs : x = <<s, e>>
      OBVIOUS
    <3>2. keyEpoch[x] \in Wrapped /\ keyEpoch[x].dek \in 0..MaxDek
      BY <1>0 DEF Wrapped
    <3>3. CASE \E k \in script.keys : k.at = x
      <4>1. PICK k \in script.keys : k.at = x
        BY <3>3
      <4>2. keyEpoch[x].dek # 0
        BY <1>4, <2>4, <4>1
      <4>3. keyEpoch[x] # NoKey
        BY <4>2 DEF NoKey
      <4>4. keyEpoch'[x] = Wrap(env, keyEpoch[x].dek)
        BY <1>0, <2>1, <3>3
      <4> QED
        BY <2>5, <3>1, <3>2, <4>3, <4>4
    <3>4. CASE ~(\E k \in script.keys : k.at = x)
      <4>1. keyEpoch'[x] = keyEpoch[x]
        BY <1>0, <2>1, <3>4
      <4> QED
        BY <3>1, <3>2, <4>1
    <3> QED
      BY <3>3, <3>4
  <2>9. keyEpoch' \in [Conversations \X Epochs -> Wrapped]
    <3>1. DOMAIN keyEpoch = Conversations \X Epochs
      BY <1>0
    <3>2. keyEpoch' = [x \in Conversations \X Epochs |-> keyEpoch'[x]]
      BY <2>1, <3>1
    <3>3. \A x \in Conversations \X Epochs : keyEpoch'[x] \in Wrapped
      BY <2>8
    <3> QED
      BY <3>2, <3>3
  <2>10. account' \in [key : Wrapped, seed : KeyNames]
    <3>1. account.key.dek \in 0..MaxDek
      BY <1>0 DEF Wrapped
    <3>2. PICK key \in Wrapped : key = Wrap(env, account.key.dek)
      BY <2>5, <3>1
    <3> QED
      BY <1>0, <2>3, <3>2
  <2>11. script' \in ScriptType /\ script'.pc = "idle"
    BY <1>1, IdleHasAType
  <2>12. EnvelopeTypeOK'
    BY <1>0, <1>1, <2>7, <2>9, <2>10, <2>11 DEF EnvelopeTypeOK, Columns, Wrapped, KeyNames, Epochs
  <2>13. KeyringsInOrder'
    BY <1>0, <1>1, <1>2, <2>11 DEF KeyringsInOrder
  <2>14. CachesAreTrue' /\ RotationsAreSound'
    BY <1>0, <1>1, CachesKeep DEF RotationsAreSound
  <2>15. EpochsInOrder'
    BY <2>6, <2>8 DEF EnvelopeIInv, EpochsInOrder, Epochs
  <2>16. RowsAreWrapped'
    BY <1>1, <1>2, <2>8 DEF EnvelopeIInv, RowsAreWrapped, Epochs
  <2>17. ScriptIsSound'
    BY <2>11 DEF ScriptIsSound, ScriptType, Epochs
  <2>18. ASSUME NEW n \in Msgs
         PROVE  MessageIsSound(n)'
    <3> SUFFICES ASSUME msg[n].state = "kept"
                 PROVE  MessageIsSound(n)'
      BY <1>1 DEF MessageIsSound
    <3>1. MessageIsSound(n) /\ msg[n].in \in Conversations
      BY SoundMessages DEF EnvelopeIInv, EnvelopeTypeOK
    <3>2. chat'[msg[n].in].mode = "secure"
      BY <2>6, <3>1 DEF MessageIsSound
    <3>3. CASE msg[n].scheme = "legacy"
      BY <1>1, <3>1, <3>2, <3>3 DEF MessageIsSound, OpensLegacy
    <3>4. CASE msg[n].scheme # "legacy"
      <4>1. msg[n].scheme = "envelope" /\ msg[n].ver \in Epochs
        BY <3>1, <3>4 DEF EnvelopeIInv, EnvelopeTypeOK, MessageIsSound
      <4>2. PICK s \in Conversations, e \in Epochs : s = msg[n].in /\ e = msg[n].ver
        BY <3>1, <4>1
      <4>3. keyEpoch[<<s, e>>] # NoKey /\ keyEpoch[<<s, e>>].kek \in Ring(env) /\ msg[n].key = Dek(keyEpoch[<<s, e>>].dek)
        BY <3>1, <4>1, <4>2 DEF MessageIsSound
      <4>4. keyEpoch'[<<s, e>>] # NoKey /\ keyEpoch'[<<s, e>>].kek \in Ring(env) /\ msg[n].key = Dek(keyEpoch'[<<s, e>>].dek)
        BY <1>2, <2>8, <4>3
      <4> QED
        BY <1>1, <3>2, <4>1, <4>2, <4>4 DEF MessageIsSound, Epochs
    <3> QED
      BY <3>3, <3>4
  <2>19. MessagesHaveRows' /\ EveryMessageOpens'
    BY <2>12, <2>18, SoundMessagesNext
  <2> QED
    BY <2>12, <2>13, <2>14, <2>15, <2>16, <2>17, <2>19 DEF EnvelopeIInv
<1> QED
  BY <1>3, <1>4

-----------------------------------------------------------------------------
(* The theorems.                                                           *)

LEMMA InitIsSound ==
    ASSUME EnvelopeInit
    PROVE  EnvelopeIInv
<1>1. OldSession \in Conversations /\ MaxEpoch \in Nat \ {0} /\ MaxDek \in Nat
  BY KeysAssumption
<1>2. NoKey \in Wrapped
  BY NoKeyHasAType
<1>3. EnvelopeTypeOK
  <2>1. Kek(0) \in KeyNames /\ Kek(1) \in KeyNames
    BY DEF Kek, KeyNames
  <2>2. chat \in [Conversations -> [mode : {"none", "secure", "private", "gone"}, epoch : 0..MaxEpoch,
                               key : Wrapped]]
    BY <1>1, <1>2 DEF EnvelopeInit
  <2>3. keyEpoch \in [Conversations \X Epochs -> Wrapped]
    BY <1>2 DEF EnvelopeInit
  <2>4. msg \in [Msgs -> [in : Conversations, state : {"new", "kept", "gone"},
                          scheme : {"legacy", "envelope"}, ver : 0..MaxEpoch + 1, key : KeyNames]]
    <3>1. NewMsg = [in |-> OldSession, state |-> "new", scheme |-> "legacy", ver |-> 0, key |-> Kek(0)]
      BY DEF NewMsg
    <3>2. PICK M : M = [in : Conversations, state : {"new", "kept", "gone"},
                        scheme : {"legacy", "envelope"}, ver : 0..MaxEpoch + 1, key : KeyNames]
      OBVIOUS
    <3>3. NewMsg \in M
      BY <1>1, <2>1, <3>1, <3>2
    <3>4. [in |-> OldSession, state |-> "kept", scheme |-> "legacy", ver |-> 1, key |-> Kek(1)] \in M
      BY <1>1, <2>1, <3>2
    <3> QED
      BY <3>2, <3>3, <3>4 DEF EnvelopeInit
  <2>5. account \in [key : Wrapped, seed : KeyNames]
    BY <1>2, <2>1 DEF EnvelopeInit
  <2> QED
    BY <1>1, <2>2, <2>3, <2>4, <2>5 DEF EnvelopeInit, EnvelopeTypeOK, NoScript
<1>4. KeyringsInOrder
  BY DEF EnvelopeInit, KeyringsInOrder, NoScript
<1>5. EpochsInOrder
  BY <1>1 DEF EnvelopeInit, EpochsInOrder, Epochs
<1>6. RowsAreWrapped
  BY DEF EnvelopeInit, RowsAreWrapped
<1>7. CachesAreTrue
  BY DEF EnvelopeInit, CachesAreTrue
<1>8. ScriptIsSound
  BY DEF EnvelopeInit, ScriptIsSound, NoScript
<1>9. RotationsAreSound
  BY <1>1 DEF EnvelopeInit, RotationsAreSound
<1>10. ASSUME NEW m \in Msgs
       PROVE  MessageIsSound(m)
  <2>1. CASE m = OldMsg
    <3>1. /\ msg[m].state = "kept" /\ msg[m].scheme = "legacy" /\ msg[m].in = OldSession /\ msg[m].ver = 1
          /\ msg[m].key = Kek(1)
      BY <2>1 DEF EnvelopeInit, NewMsg
    <3>2. chat[OldSession].mode = "secure" /\ 1 \in Ring(env)
      BY <1>1 DEF EnvelopeInit, Ring
    <3> QED
      BY <3>1, <3>2 DEF MessageIsSound, OpensLegacy
  <2>2. CASE m # OldMsg
    BY <2>2 DEF EnvelopeInit, NewMsg, MessageIsSound
  <2> QED
    BY <2>1, <2>2
<1>11. MessagesHaveRows /\ EveryMessageOpens
  BY <1>3, <1>10, SoundMessages
<1> QED
  BY <1>3, <1>4, <1>5, <1>6, <1>7, <1>8, <1>9, <1>11 DEF EnvelopeIInv

LEMMA NextKeeps ==
    ASSUME EnvelopeIInv, [EnvelopeNext]_envelopeVars
    PROVE  EnvelopeIInv'
<1>1. CASE EnvelopeNext
  <2>1. CASE AddKey
    BY <2>1, AddKeyKeeps
  <2>2. CASE RetireKey
    BY <2>2, RetireKeyKeeps
  <2>3. CASE RewrapRead \/ MigrateRead \/ RotateLegacyRead \/ ScriptDies
    BY <2>3, ReadsKeep
  <2>4. CASE RewrapCommit
    BY <2>4, RewrapCommitKeeps
  <2>5. CASE MigrateEnd \/ RotateLegacyEnd
    BY <2>5, EndsKeep
  <2>6. CASE \E m \in Msgs : MigrateRow(m) \/ RotateLegacyRow(m)
    BY <2>6, MigrateRowKeeps, RotateLegacyRowKeeps
  <2>7. CASE \E s \in Conversations : RotateRead(s)
    BY <2>7, RotateReadKeeps
  <2>8. CASE \E w \in Processes : Restart(w) \/ EnrolSeed(w) \/ EncryptOtherSecret(w)
    BY <2>8, RestartKeeps, EnrolSeedKeeps, EncryptOtherSecretKeeps
  <2>9. CASE \E w \in Processes : \E x \in cache[w] : Forget(w, x)
    BY <2>9, ForgetKeeps
  <2>10. CASE \E w \in Processes, m \in Msgs : ReadMessage(w, m)
    BY <2>10, ReadMessageKeeps
  <2>11. CASE \E w \in Processes, s \in Conversations :
                 \/ CreateSessionKeys(w, s) \/ UpdateSessionKeys(w, s) \/ DeleteSessionKeys(w, s)
                 \/ RotateCommit(w, s)
                 \/ \E m \in Msgs : StoreMessage(w, s, m)
    BY <2>11, CreateSessionKeeps, UpdateSessionSecurityKeeps, DeleteSessionKeeps, RotateCommitKeeps,
       StoreMessageKeeps
  <2> QED
    BY <1>1, <2>1, <2>2, <2>3, <2>4, <2>5, <2>6, <2>7, <2>8, <2>9, <2>10, <2>11 DEF EnvelopeNext
<1>2. CASE UNCHANGED envelopeVars
  <2>1. UNCHANGED <<conf, env, chat, keyEpoch, msg, account, cache, deks, rot, script>>
    BY <1>2 DEF envelopeVars
  <2>2. rot' \in [Conversations -> 0..MaxEpoch] /\ RotationsAreSound'
    BY <2>1 DEF EnvelopeIInv, EnvelopeTypeOK, RotationsAreSound
  <2> QED
    BY <2>1, <2>2, QuietStep
<1> QED
  BY <1>1, <1>2

\* The keys stay in order through every request, rotation, script, crash and
\* change of keyring: rows are a conversation's epochs so far, caches answer for
\* the row asked about, and a script that may end in the removal of a key has
\* left nothing under it.
THEOREM Invariance == EnvelopeSpec => []EnvelopeIInv
<1>1. EnvelopeInit => EnvelopeIInv
  BY InitIsSound
<1>2. EnvelopeIInv /\ [EnvelopeNext]_envelopeVars => EnvelopeIInv'
  BY NextKeeps
<1> QED
  BY <1>1, <1>2, PTL DEF EnvelopeSpec

\* decrypt_message can open whatever store_message, chat or an older release
\* stored, with the rows in the database and the keyring in the environment.
THEOREM MessagesAlwaysOpen == EnvelopeSpec => []EveryMessageOpens
<1>1. EnvelopeIInv => EveryMessageOpens
  BY DEF EnvelopeIInv
<1> QED
  BY <1>1, Invariance, PTL

\* Once rotate_encryption_key has ended well, and after the old key was removed,
\* no row of session_key_epochs and no message of the old scheme needs it.
NothingNeedsTheOldKey ==
    script.pc = "done" \/ env = 3 =>
        /\ \A s \in Conversations, e \in Epochs : OnActive(keyEpoch[<<s, e>>], 2)
        /\ \A m \in LegacyRows : msg[m].ver = 2

THEOREM RetiringIsSafe == EnvelopeSpec => []NothingNeedsTheOldKey
<1>1. EnvelopeIInv => NothingNeedsTheOldKey
  BY DEF EnvelopeIInv, KeyringsInOrder, ScriptIsSound, NothingNeedsTheOldKey
<1> QED
  BY <1>1, Invariance, PTL

=============================================================================
