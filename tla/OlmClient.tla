------------------------------ MODULE OlmClient -----------------------------
(***************************************************************************)
(* Two reference clients in one private conversation over the relay        *)
(* (clients/e2ee_client.py): each keeps its Olm account, its ratchets, an  *)
(* outbox and a cursor in a vault file that is replaced as a whole, and    *)
(* must stay able to go on from the file after a crash, a failed save or   *)
(* an answer that was lost.                                                *)
(*                                                                         *)
(* A ratchet is named by the one-time prekey it was begun with; a          *)
(* ciphertext by its ratchet, its sender and its place in the chain.  The  *)
(* relay is what the handlers of the private conversation do for one       *)
(* routing epoch; fingerprints, signatures and step-up are left out.       *)
(***************************************************************************)
EXTENDS Naturals, Sequences, FiniteSets

CONSTANTS
    Devices,       \* the two devices
    Peer,          \* Peer[d] is the other one
    Makes,         \* bound: one-time prekeys each device generates
    Writes,        \* bound: messages each device writes
    MaxCrash       \* bound: crashes and failed saves

VARIABLES
    disk,          \* client.scapclient
    mem,           \* vault.state and the account in memory
    pc,            \* what the running call does next; "failed" if the vault is
    relay,         \* devices, prekeys and envelopes on the server, and as history
                   \* the prekeys that its retention sweep has deleted
    wire,          \* history: ciphertexts that ever left a device
    texts,         \* client_message_ids each device has drawn, saved or not
    crashes

vars == <<disk, mem, pc, relay, wire, texts, crashes>>

Most(f) == CHOOSE n \in {f[d] : d \in Devices} : \A d \in Devices : f[d] <= n
MaxKeys == Most(Makes)
MaxTexts == Most(Writes)

Keys == Devices \X (1..MaxKeys)
Nothing == <<>>
Texts == Devices \X (1..MaxTexts)

\* An envelope: its client_message_id, ratchet and place in the chain.
Envelopes == [id : Texts, ratchet : Keys, n : 0..MaxTexts]

Vault == [keys : SUBSET Keys,              \* private one-time keys
          fresh : SUBSET Keys,             \* those not marked as published
          made : 0..MaxKeys,               \* one-time keys generated
          offer : SUBSET Keys,             \* registration_offer
          upload : SUBSET Keys,            \* prekey_upload
          pinned : Keys \cup {Nothing},       \* the peer's one_time_prekey
          known : SUBSET Keys,             \* sessions
          active : Keys \cup {Nothing},
          place : [Keys -> 0..MaxTexts],   \* of the next ciphertext in each ratchet
          opened : SUBSET (Keys \X (0..MaxTexts)),  \* message keys used up on receipt
          written : SUBSET Texts,          \* history: messages prepared in this vault
          outbox : Envelopes \cup {Nothing},
          cursor : Nat]

Empty == [keys |-> {}, fresh |-> {}, made |-> 0, offer |-> {}, upload |-> {}, pinned |-> Nothing,
          known |-> {}, active |-> Nothing, place |-> [k \in Keys |-> 0], opened |-> {},
          written |-> {}, outbox |-> Nothing, cursor |-> 0]

TypeOK ==
    /\ disk \in [Devices -> Vault] /\ mem \in [Devices -> Vault]
    /\ pc \in [Devices -> {"idle", "failed", "save", "save_upload", "save_again", "upload", "upload_again"}]
    /\ relay.registered \subseteq Devices
    /\ relay.keys \subseteq Keys /\ relay.free \subseteq relay.keys /\ relay.swept \subseteq Keys
    /\ relay.log \in Seq(Envelopes)
    /\ wire \subseteq Envelopes /\ texts \in [Devices -> 0..MaxTexts]
    /\ crashes \in 0..MaxCrash

Init ==
    /\ disk = [d \in Devices |-> Empty]
    /\ mem = disk
    /\ pc = [d \in Devices |-> "idle"]
    /\ relay = [registered |-> {}, keys |-> {}, free |-> {}, swept |-> {}, log |-> <<>>]
    /\ wire = {} /\ texts = [d \in Devices |-> 0] /\ crashes = 0

-----------------------------------------------------------------------------
(* EncryptedVault.                                                         *)

\* _require_healthy: a call begins in a vault that has not failed.
Idle(d) == pc[d] = "idle"

\* What a call has changed in memory, to be saved before it does anything else.
ToSave(d, v, then) ==
    /\ mem' = [mem EXCEPT ![d] = v]
    /\ pc' = [pc EXCEPT ![d] = then]

\* _save: the file is replaced, and the call goes on.  Every call that goes on
\* after a save does so from "upload" or "idle".
Save(d) ==
    /\ pc[d] \in {"save", "save_upload", "save_again"}
    /\ disk' = [disk EXCEPT ![d] = mem[d]]
    /\ pc' = [pc EXCEPT ![d] = CASE pc[d] = "save"        -> "idle"
                                 [] pc[d] = "save_upload" -> "upload"
                                 [] pc[d] = "save_again"  -> "upload_again"]
    /\ UNCHANGED <<mem, relay, wire, texts, crashes>>

\* A save that raises, before or after os.replace: the vault has failed, and
\* every later call is refused.
SaveFails(d, replaced) ==
    /\ pc[d] \in {"save", "save_upload", "save_again"} /\ crashes < MaxCrash
    /\ disk' = IF replaced THEN [disk EXCEPT ![d] = mem[d]] ELSE disk
    /\ pc' = [pc EXCEPT ![d] = "failed"]
    /\ crashes' = crashes + 1
    /\ UNCHANGED <<mem, relay, wire, texts>>

\* The process ends at any moment; __enter__ reads the file again.
Reopen(d) ==
    /\ pc[d] # "failed" => crashes < MaxCrash
    /\ crashes' = IF pc[d] = "failed" THEN crashes ELSE crashes + 1
    /\ mem' = [mem EXCEPT ![d] = disk[d]]
    /\ pc' = [pc EXCEPT ![d] = "idle"]
    /\ UNCHANGED <<disk, relay, wire, texts>>

-----------------------------------------------------------------------------
(* Registration and prekeys.                                               *)

\* generate_one_time_keys, if none waits to be published.
Generated(d) ==
    LET k == <<d, mem[d].made + 1>>
    IN  IF mem[d].fresh # {} THEN mem[d]
        ELSE [mem[d] EXCEPT !.keys = @ \cup {k}, !.fresh = {k}, !.made = @ + 1]

MayGenerate(d) == mem[d].fresh # {} \/ mem[d].made < Makes[d]

\* mark_keys_as_published.
Published(v) == [v EXCEPT !.fresh = {}, !.offer = {}, !.upload = {}]

\* registration_offer: saved with its private keys.
RegistrationOffer(d) ==
    /\ Idle(d) /\ d \notin relay.registered /\ MayGenerate(d)
    /\ ToSave(d, [Generated(d) EXCEPT !.offer = Generated(d).fresh], "save")
    /\ UNCHANGED <<disk, relay, wire, texts, crashes>>

\* register_device: the relay already has the device, after an answer that was
\* lost; or it takes the offer.
RegisterDevice(d, heard) ==
    /\ Idle(d)
    /\ mem[d].offer # {} \/ d \in relay.registered
    /\ relay' = IF d \in relay.registered THEN relay
                ELSE [relay EXCEPT !.registered = @ \cup {d}, !.keys = @ \cup mem[d].offer,
                                   !.free = @ \cup mem[d].offer]
    /\ IF heard THEN ToSave(d, [Published(mem[d]) EXCEPT !.upload = mem[d].upload], "save")
                ELSE UNCHANGED <<mem, pc>>
    /\ UNCHANGED <<disk, wire, texts, crashes>>

\* Mutation of RefillSaved: public prekeys go out before the vault is saved.
RefillUnsaved(again) == IF again THEN "upload_again" ELSE "upload"

\* refill up to its first save: what is pending is tried again.
RefillSaved(again) == IF again THEN "save_again" ELSE "save_upload"

Refill(d) ==
    LET pending == mem[d].upload # {}
        v       == IF pending THEN mem[d] ELSE [Generated(d) EXCEPT !.upload = Generated(d).fresh]
    IN  /\ Idle(d) /\ d \in relay.registered
        /\ pending \/ MayGenerate(d)
        /\ ToSave(d, v, RefillSaved(pending))
        /\ UNCHANGED <<disk, relay, wire, texts, crashes>>

\* The upload: the relay takes the whole batch, or finds the row of a key of it.
\* That verdict acknowledges only a batch that was tried before.  A key whose row
\* was swept is taken again, although it was handed out.
Upload(d, heard) ==
    LET batch == mem[d].upload
        seen  == batch \cap relay.keys # {}
    IN  /\ pc[d] \in {"upload", "upload_again"}
        /\ relay' = IF seen THEN relay
                    ELSE [relay EXCEPT !.keys = @ \cup batch, !.free = @ \cup batch]
        /\ IF heard /\ (seen => pc[d] = "upload_again")
           THEN ToSave(d, [Published(mem[d]) EXCEPT !.offer = mem[d].offer], "save")
           ELSE pc' = [pc EXCEPT ![d] = "idle"] /\ UNCHANGED mem
        /\ UNCHANGED <<disk, wire, texts, crashes>>

\* pin_peer: the relay hands out a one-time key, or none; if the answer is lost
\* the key is spent.
PinPeer(d, heard) ==
    LET theirs == {k \in relay.free : k[1] = Peer[d]}
    IN  /\ Idle(d) /\ Peer[d] \in relay.registered
        /\ \E k \in IF theirs = {} THEN {Nothing} ELSE theirs :
              /\ relay' = [relay EXCEPT !.free = @ \ {k}]
              /\ IF heard THEN ToSave(d, [mem[d] EXCEPT !.pinned = k], "save")
                          ELSE UNCHANGED <<mem, pc>>
        /\ UNCHANGED <<disk, wire, texts, crashes>>

\* enforce_retention deletes a prekey that was handed out.
SweepPrekey(k) ==
    /\ k \in relay.keys \ relay.free
    /\ relay' = [relay EXCEPT !.keys = @ \ {k}, !.swept = @ \cup {k}]
    /\ UNCHANGED <<disk, mem, pc, wire, texts, crashes>>

-----------------------------------------------------------------------------
(* Messages.                                                               *)

PrepareSaved == "save"

\* prepare: the ciphertext, the advanced ratchet and the outbox in one save.
Prepare(d) ==
    LET k == IF mem[d].active # Nothing THEN mem[d].active ELSE mem[d].pinned
        e == [id |-> <<d, texts[d] + 1>>, ratchet |-> k, n |-> mem[d].place[k]]
    IN  /\ Idle(d) /\ d \in relay.registered
        /\ mem[d].outbox = Nothing /\ texts[d] < Writes[d]
        /\ k # Nothing
        /\ ToSave(d, [mem[d] EXCEPT !.written = @ \cup {e.id}, !.outbox = e, !.active = k,
                                    !.known = @ \cup {k}, !.place[k] = @ + 1,
                                    !.pinned = IF mem[d].active = Nothing THEN Nothing ELSE @],
                  PrepareSaved)
        /\ texts' = [texts EXCEPT ![d] = @ + 1]
        /\ UNCHANGED <<disk, relay, wire, crashes>>

\* flush: posted, and taken once; the answer clears the outbox.  A refusal, or no
\* answer, leaves it.
Flush(d, taken, heard) ==
    LET e == mem[d].outbox
        dup == \E i \in 1..Len(relay.log) : relay.log[i].id = e.id
    IN  /\ Idle(d) /\ e # Nothing
        /\ wire' = wire \cup {e}
        /\ relay' = IF taken /\ ~dup THEN [relay EXCEPT !.log = Append(@, e)] ELSE relay
        /\ IF heard /\ (taken \/ dup) THEN ToSave(d, [mem[d] EXCEPT !.outbox = Nothing], "save")
                                      ELSE UNCHANGED <<mem, pc>>
        /\ UNCHANGED <<disk, texts, crashes>>

\* The envelopes that are for d.
Inbox(d) == SelectSeq(relay.log, LAMBDA e : e.id[1] = Peer[d])

\* decrypt: a known ratchet whose message key is still there, or a prekey message
\* for a private key that is.
Opens(v, e) == IF e.ratchet \in v.known THEN <<e.ratchet, e.n>> \notin v.opened
                                        ELSE e.ratchet \in v.keys

\* The ratchet and the cursor, in one save.
Received(v, e) ==
    [v EXCEPT !.keys = @ \ {e.ratchet}, !.fresh = @ \ {e.ratchet}, !.known = @ \cup {e.ratchet},
              !.active = e.ratchet, !.opened = @ \cup {<<e.ratchet, e.n>>}, !.cursor = @ + 1]

\* receive, one envelope at a time.  One that does not open ends the call.
Receive(d) ==
    /\ Idle(d) /\ mem[d].cursor < Len(Inbox(d))
    /\ LET e == Inbox(d)[mem[d].cursor + 1]
       IN  Opens(mem[d], e) /\ ToSave(d, Received(mem[d], e), "save")
    /\ UNCHANGED <<disk, relay, wire, texts, crashes>>

Next ==
    \/ \E k \in Keys : SweepPrekey(k)
    \/ \E d \in Devices :
        \/ Save(d) \/ Reopen(d)
        \/ RegistrationOffer(d) \/ Refill(d) \/ Prepare(d) \/ Receive(d)
        \/ \E b \in BOOLEAN :
              SaveFails(d, b) \/ RegisterDevice(d, b) \/ Upload(d, b) \/ PinPeer(d, b)
        \/ \E taken, heard \in BOOLEAN : Flush(d, taken, heard)

Spec == Init /\ [][Next]_vars

-----------------------------------------------------------------------------
(* Properties.                                                             *)

\* A message key encrypts one message: two ciphertexts that left a device at the
\* same place of the same ratchet are the same ciphertext, although the device
\* crashed, its save failed or its answer was lost in between.
KeyEncryptsOnce ==
    \A e, f \in wire : e.id[1] = f.id[1] /\ e.ratchet = f.ratchet /\ e.n = f.n => e = f

\* A message that was written stays until the relay has it: it is in the outbox
\* of the vault file or on the relay.
WrittenIsKept ==
    \A d \in Devices : \A x \in disk[d].written :
        \/ disk[d].outbox # Nothing /\ disk[d].outbox.id = x
        \/ \E i \in 1..Len(relay.log) : relay.log[i].id = x

\* A prekey the relay took for new after its sweep had deleted it, and whose private
\* half went into a ratchet meanwhile: no message begun with it can be opened.
Resurrected(k) == k \in relay.swept /\ k \in disk[k[1]].known

\* What is on the relay for a device can be read from its vault file, whatever
\* happens to the process: every envelope past its cursor opens, in its turn, and
\* every prekey that the relay may still hand out has its private half there, but
\* for one that a repeated upload brought back after the sweep.
\* Nothing that was written is lost, and the relay holds every message once.
NothingIsStranded ==
    /\ \A d \in Devices : \A i \in disk[d].cursor + 1 .. Len(Inbox(d)) : Opens(disk[d], Inbox(d)[i])
    /\ \A k \in relay.free : k \in disk[k[1]].keys \/ Resurrected(k)
    /\ WrittenIsKept
    /\ \A i, j \in 1..Len(relay.log) : relay.log[i].id = relay.log[j].id => i = j
=============================================================================
