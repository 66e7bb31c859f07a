------------------------------ MODULE MlsClient -----------------------------
(***************************************************************************)
(* A group of reference clients in one private conversation over the relay *)
(* (clients/mls_client.py).  The owner commits every change of membership; *)
(* each client keeps its group state, an outbox, the digests of its own    *)
(* ciphertexts and a cursor in a vault file that is replaced as a whole.   *)
(*                                                                         *)
(* The secret of an epoch is named by the commit that began it; OpenMLS    *)
(* keeps that of the current epoch only, and lets a message key open one   *)
(* message.  The relay is what the handlers of the private conversation do *)
(* for the devices of three accounts; membership may change there without  *)
(* the client, as when an account is suspended.  Every call works on the   *)
(* file it has read: a request is one step, and so is each save.           *)
(***************************************************************************)
EXTENDS Naturals, Sequences, FiniteSets

CONSTANTS
    Devices,       \* one device of each account
    Owner,         \* the device that creates the group
    Unmet,         \* <<d, p>>: d has yet to accept the offer of p
    Calls,         \* bound: changes and messages each device begins
    MaxEpoch,      \* bound: routing epochs
    MaxCrash       \* bound: crashes and failed saves

VARIABLES
    disk,          \* the "mls" part of client.scapclient
    mem,           \* the same in memory
    pc,            \* what the running call does next
    relay,         \* routing epoch, members, envelopes
    wire,          \* history: envelopes that ever left a device
    begun,         \* calls each device has begun, saved or not
    crashes

vars == <<disk, mem, pc, relay, wire, begun, crashes>>

Nothing == <<>>
Most == CHOOSE n \in {Calls[d] : d \in Devices} : \A d \in Devices : Calls[d] <= n
Ids == Devices \X (0..Most)

\* An envelope.  A commit goes from the epoch of `prior' to its own, and a Welcome
\* carries the secret of a commit; place is that of an application message in its
\* sender's chain, and roster is whoever holds the secret it is under.
Envelopes == [id : Ids, kind : {"application", "commit", "welcome"}, to : Devices \cup {Nothing},
              epoch : 1..MaxEpoch, key : Ids, prior : Ids, place : Nat, roster : SUBSET Devices]

Vault == [pins : SUBSET Devices,             \* offers accepted
          epoch : 0..MaxEpoch,               \* of the group; 0 before joining
          key : Ids, roster : SUBSET Devices,
          place : Nat,                       \* of the next message in this epoch
          opened : SUBSET Ids,               \* message keys of this epoch used on receipt
          outbox : [change : Devices \cup {Nothing}, remove : BOOLEAN, epoch : 1..MaxEpoch,
                    envelopes : Seq(Envelopes)] \cup {Nothing},
          own : SUBSET (Ids \X {"application", "commit"}),
          cursor : Nat]

Root == <<Owner, 0>>

Empty(d) == [pins |-> {p \in Devices : p # d /\ <<d, p>> \notin Unmet}, epoch |-> 0, key |-> Root,
             roster |-> {}, place |-> 0, opened |-> {}, outbox |-> Nothing, own |-> {}, cursor |-> 0]

TypeOK ==
    /\ disk \in [Devices -> Vault] /\ mem \in [Devices -> Vault]
    /\ pc \in [Devices -> {"idle", "failed", "save", "save_flush", "save_post",
                           "flush", "member", "check", "post"}]
    /\ relay.epoch \in 0..MaxEpoch
    /\ relay.active \in [1..MaxEpoch -> SUBSET Devices]
    /\ relay.joined \in [Devices -> 0..MaxEpoch] /\ relay.removed \in [Devices -> 0..MaxEpoch]
    /\ relay.log \in Seq(Envelopes) /\ wire \subseteq Envelopes
    /\ begun \in [Devices -> 0..Most] /\ crashes \in 0..MaxCrash

Init ==
    /\ disk = [d \in Devices |-> Empty(d)]
    /\ mem = disk
    /\ pc = [d \in Devices |-> "idle"]
    /\ relay = [epoch |-> 0, active |-> [n \in 1..MaxEpoch |-> {}], log |-> <<>>,
                joined |-> [d \in Devices |-> 0], removed |-> [d \in Devices |-> 0]]
    /\ wire = {} /\ begun = [d \in Devices |-> 0] /\ crashes = 0

-----------------------------------------------------------------------------
(* The relay.                                                              *)

Members == IF relay.epoch = 0 THEN {} ELSE relay.active[relay.epoch]

\* add_e2ee_member and remove_e2ee_member, in a new epoch.
Moved(p, remove) ==
    LET n == relay.epoch + 1
    IN  [relay EXCEPT !.epoch = n,
                      !.active[n] = IF remove THEN Members \ {p} ELSE Members \cup {p},
                      !.joined[p] = IF remove THEN @ ELSE n,
                      !.removed[p] = IF remove THEN n ELSE 0]

\* A change of membership that does not come from the owner's client.
RelayChange(p, remove) ==
    /\ relay.epoch \in 1..MaxEpoch - 1 /\ p # Owner
    /\ remove = (p \in Members)
    /\ relay' = Moved(p, remove)
    /\ UNCHANGED <<disk, mem, pc, wire, begun, crashes>>

Stored(e) == \E i \in 1..Len(relay.log) : relay.log[i].id = e.id /\ relay.log[i].kind = e.kind

\* send_e2ee_envelope: from a member, in the present epoch.
Admits(d, e) == d \in Members /\ e.epoch = relay.epoch /\ (e.to # Nothing => e.to \in Members)

\* receive_e2ee_envelopes: the places in the log of what is for d after a cursor.
Waiting(d, cursor) ==
    {i \in cursor + 1 .. Len(relay.log) :
        relay.log[i].epoch >= relay.joined[d] /\ relay.log[i].to \in {Nothing, d}}

First(S) == CHOOSE i \in S : \A j \in S : i <= j

-----------------------------------------------------------------------------
(* The vault, as in OlmClient.                                             *)

Idle(d) == pc[d] = "idle"

ToSave(d, v, then) ==
    /\ mem' = [mem EXCEPT ![d] = v]
    /\ pc' = [pc EXCEPT ![d] = then]

Save(d) ==
    /\ pc[d] \in {"save", "save_flush", "save_post"}
    /\ disk' = [disk EXCEPT ![d] = mem[d]]
    /\ pc' = [pc EXCEPT ![d] = CASE pc[d] = "save"       -> "idle"
                                 [] pc[d] = "save_flush" -> "flush"
                                 [] pc[d] = "save_post"  -> "post"]
    /\ UNCHANGED <<mem, relay, wire, begun, crashes>>

SaveFails(d, replaced) ==
    /\ pc[d] \in {"save", "save_flush", "save_post"} /\ crashes < MaxCrash
    /\ disk' = IF replaced THEN [disk EXCEPT ![d] = mem[d]] ELSE disk
    /\ pc' = [pc EXCEPT ![d] = "failed"]
    /\ crashes' = crashes + 1
    /\ UNCHANGED <<mem, relay, wire, begun>>

Reopen(d) ==
    /\ pc[d] # "failed" => crashes < MaxCrash
    /\ crashes' = IF pc[d] = "failed" THEN crashes ELSE crashes + 1
    /\ mem' = [mem EXCEPT ![d] = disk[d]]
    /\ pc' = [pc EXCEPT ![d] = "idle"]
    /\ UNCHANGED <<disk, relay, wire, begun>>

\* pin_offer.
PinOffer(d, p) ==
    /\ Idle(d) /\ p # d /\ p \notin mem[d].pins
    /\ ToSave(d, [mem[d] EXCEPT !.pins = @ \cup {p}], "save")
    /\ UNCHANGED <<disk, relay, wire, begun, crashes>>

-----------------------------------------------------------------------------
(* create, change_member, send.                                            *)

\* create.  A conversation whose answer or save was lost stays empty on the relay,
\* and the owner creates another.
Create ==
    /\ Idle(Owner) /\ mem[Owner].epoch = 0 /\ mem[Owner].outbox = Nothing
    /\ relay' = [epoch |-> 1, active |-> [n \in 1..MaxEpoch |-> IF n = 1 THEN {Owner} ELSE {}],
                 log |-> <<>>, joined |-> [d \in Devices |-> IF d = Owner THEN 1 ELSE 0],
                 removed |-> [d \in Devices |-> 0]]
    /\ ToSave(Owner, [mem[Owner] EXCEPT !.epoch = 1, !.roster = {Owner}], "save")
    /\ UNCHANGED <<disk, wire, begun, crashes>>

\* _roster.
Pinned(d, v, roster) == roster \subseteq v.pins \cup {d}

\* What is prepared is saved with its outbox before it leaves.
Prepared == "save_flush"

\* change_member: the commit is merged at once, and waits in the outbox with the
\* Welcome behind it.
ChangeMember(p, remove) ==
    LET v      == mem[Owner]
        n      == v.epoch + 1
        roster == IF remove THEN v.roster \ {p} ELSE v.roster \cup {p}
        id     == <<Owner, begun[Owner] + 1>>
        commit == [id |-> id, kind |-> "commit", to |-> Nothing, epoch |-> n, key |-> id,
                   prior |-> v.key, place |-> 0, roster |-> roster]
        welcome == [commit EXCEPT !.kind = "welcome", !.to = p]
    IN  /\ Idle(Owner) /\ v.outbox = Nothing /\ v.epoch \in 1..MaxEpoch - 1
        /\ begun[Owner] < Calls[Owner]
        /\ p # Owner /\ p \in v.pins
        /\ relay.epoch = v.epoch /\ remove = (p \in Members)
        /\ Pinned(Owner, v, roster)
        /\ begun' = [begun EXCEPT ![Owner] = @ + 1]
        /\ ToSave(Owner, [v EXCEPT !.epoch = n, !.key = id, !.roster = roster, !.place = 0,
                                   !.opened = {},
                                   !.outbox = [change |-> p, remove |-> remove, epoch |-> n,
                                               envelopes |-> IF remove THEN <<commit>>
                                                             ELSE <<commit, welcome>>]],
                  Prepared)
        /\ UNCHANGED <<disk, relay, wire, crashes>>

\* send: in the epoch of the relay.
Send(d) ==
    LET v == mem[d]
        e == [id |-> <<d, begun[d] + 1>>, kind |-> "application", to |-> Nothing, epoch |-> v.epoch,
              key |-> v.key, prior |-> v.key, place |-> v.place, roster |-> v.roster]
    IN  /\ Idle(d) /\ v.outbox = Nothing /\ begun[d] < Calls[d]
        /\ d \in Members /\ v.epoch # 0 /\ v.epoch = relay.epoch
        /\ begun' = [begun EXCEPT ![d] = @ + 1]
        /\ ToSave(d, [v EXCEPT !.place = @ + 1,
                               !.outbox = [change |-> Nothing, remove |-> FALSE, epoch |-> v.epoch,
                                           envelopes |-> <<e>>]], Prepared)
        /\ UNCHANGED <<disk, relay, wire, crashes>>

-----------------------------------------------------------------------------
(* flush, at the end of both and as a retry.                               *)

Retry(d) ==
    /\ Idle(d) /\ mem[d].outbox # Nothing
    /\ pc' = [pc EXCEPT ![d] = "flush"]
    /\ UNCHANGED <<disk, mem, relay, wire, begun, crashes>>

\* The routing epoch says whether the change is still to be made.
Route(d) ==
    LET o == mem[d].outbox
    IN  /\ pc[d] = "flush"
        /\ pc' = [pc EXCEPT ![d] = CASE d \notin Members -> "idle"
                                     [] o.change # Nothing /\ relay.epoch = o.epoch - 1 -> "member"
                                     [] o.change # Nothing /\ relay.epoch = o.epoch -> "check"
                                     [] o.change = Nothing /\ relay.epoch = o.epoch -> "post"
                                     [] OTHER -> "idle"]
        /\ UNCHANGED <<disk, mem, relay, wire, begun, crashes>>

\* The membership request: refused, answered, or made with its answer lost.
ChangeRelay(d, heard) ==
    LET o    == mem[d].outbox
        fits == o.remove = (o.change \in Members)
    IN  /\ pc[d] = "member"
        /\ fits => relay.epoch < MaxEpoch
        /\ relay' = IF fits THEN Moved(o.change, o.remove) ELSE relay
        /\ pc' = [pc EXCEPT ![d] = IF fits /\ heard THEN "check" ELSE "idle"]
        /\ UNCHANGED <<disk, mem, wire, begun, crashes>>

\* The relay has made this very change in this very epoch.
Acknowledged(o) ==
    /\ o.remove = (o.change \notin Members)
    /\ o.epoch = IF o.remove THEN relay.removed[o.change] ELSE relay.joined[o.change]

CheckMembers(d) ==
    /\ pc[d] = "check"
    /\ pc' = [pc EXCEPT ![d] = IF Acknowledged(mem[d].outbox) THEN "post" ELSE "idle"]
    /\ UNCHANGED <<disk, mem, relay, wire, begun, crashes>>

\* The next envelope: taken, recognised as taken before, or refused; an answer
\* that is heard is saved with the digest that will recognise the envelope.
Post(d, heard) ==
    LET o     == mem[d].outbox
        e     == Head(o.envelopes)
        taken == Admits(d, e)
    IN  /\ pc[d] = "post" /\ o.envelopes # <<>>
        /\ wire' = wire \cup {e}
        /\ relay' = IF taken /\ ~Stored(e) THEN [relay EXCEPT !.log = Append(@, e)] ELSE relay
        /\ IF taken /\ heard
           THEN ToSave(d, [mem[d] EXCEPT !.outbox.envelopes = Tail(@),
                                         !.own = IF e.to = Nothing THEN @ \cup {<<e.id, e.kind>>} ELSE @],
                       "save_post")
           ELSE pc' = [pc EXCEPT ![d] = "idle"] /\ UNCHANGED mem
        /\ UNCHANGED <<disk, begun, crashes>>

Posted(d) ==
    /\ pc[d] = "post" /\ mem[d].outbox.envelopes = <<>>
    /\ ToSave(d, [mem[d] EXCEPT !.outbox = Nothing], "save")
    /\ UNCHANGED <<disk, relay, wire, begun, crashes>>

-----------------------------------------------------------------------------
(* receive.                                                                *)

\* What the group state can open.  Before the Welcome the commit that adds the
\* device is passed over.
Opens(d, v, e) ==
    \/ e.id[1] = d /\ <<e.id, e.kind>> \in v.own
    \/ /\ e.id[1] # d
       /\ \/ e.kind = "welcome" /\ v.epoch = 0 /\ e.to = d
          \/ e.kind = "commit" /\ v.epoch = 0
          \/ e.kind = "commit" /\ v.epoch # 0 /\ e.prior = v.key /\ d \in e.roster
          \/ e.kind = "application" /\ v.epoch # 0 /\ e.key = v.key /\ e.id \notin v.opened

\* _receive_one: state and cursor together.
Received(d, v, i) ==
    LET e    == relay.log[i]
        next == [v EXCEPT !.cursor = i]
    IN  CASE e.id[1] = d -> [next EXCEPT !.own = @ \ {<<e.id, e.kind>>}]
          [] e.kind = "commit" /\ v.epoch = 0 -> next
          [] e.kind = "application" -> [next EXCEPT !.opened = @ \cup {e.id}]
          [] OTHER -> [next EXCEPT !.epoch = e.epoch, !.key = e.key, !.roster = e.roster,
                                   !.place = 0, !.opened = {}]

\* One envelope of receive; one that does not open, or names a device that is not
\* pinned, ends the call.
Receive(d) ==
    /\ Idle(d) /\ mem[d].outbox = Nothing
    /\ d \in Members /\ (mem[d].epoch = 0 => Owner \in mem[d].pins)
    /\ Waiting(d, mem[d].cursor) # {}
    /\ LET i == First(Waiting(d, mem[d].cursor))
           e == relay.log[i]
       IN  /\ Opens(d, mem[d], e)
           /\ e.id[1] # d /\ ~(e.kind = "commit" /\ mem[d].epoch = 0) => Pinned(d, mem[d], e.roster)
           /\ e.kind # "application" => e.id[1] = Owner
           /\ ToSave(d, Received(d, mem[d], i), "save")
    /\ UNCHANGED <<disk, relay, wire, begun, crashes>>

Next ==
    \/ Create
    \/ \E p \in Devices, remove \in BOOLEAN : RelayChange(p, remove) \/ ChangeMember(p, remove)
    \/ \E d \in Devices :
          \/ Save(d) \/ Reopen(d) \/ Send(d) \/ Retry(d) \/ Route(d) \/ CheckMembers(d)
          \/ Posted(d) \/ Receive(d)
          \/ \E p \in Devices : PinOffer(d, p)
          \/ \E b \in BOOLEAN : SaveFails(d, b) \/ ChangeRelay(d, b) \/ Post(d, b)

Spec == Init /\ [][Next]_vars

-----------------------------------------------------------------------------
(* Properties.                                                             *)

\* The group never forks and no message key is used twice: an epoch has one commit
\* and a place in a sender's chain one message among all that ever left a device,
\* although devices crashed, saves failed and answers were lost.
GroupNeverForks ==
    \A e, f \in wire :
        /\ e.kind = "commit" /\ f.kind = "commit" /\ e.epoch = f.epoch => e = f
        /\ e.kind = "application" /\ f.kind = "application" /\ e.id[1] = f.id[1]
             /\ e.key = f.key /\ e.place = f.place => e = f

\* Whoever holds the secret of a stored message or commit is a member of that
\* epoch, and every member is: what the owner commits and what the relay did agree,
\* whoever else changed the membership in the meantime.
RosterIsMembership ==
    \A i \in 1..Len(relay.log) : relay.log[i].roster = relay.active[relay.log[i].epoch]

\* Three ways in which the client comes to a halt at an envelope: the owner has
\* committed over a message it had not read; a message of another member came
\* between the commit that adds a device and its Welcome; a device that was removed
\* and added again still has the old group.
Halts(d, v, e) ==
    \/ e.kind = "application" /\ d = Owner /\ e.epoch < v.epoch
    \/ e.kind = "application" /\ v.epoch = 0
    \/ v.epoch # 0 /\ v.epoch < relay.joined[d]

\* Apart from those, the next envelope of a member with an empty outbox opens from
\* its vault file, whatever happened to the process.
NextEnvelopeOpens ==
    \A d \in Members :
        LET v    == disk[d]
            next == relay.log[First(Waiting(d, v.cursor))]
        IN  v.outbox = Nothing /\ Waiting(d, v.cursor) # {} => Opens(d, v, next) \/ Halts(d, v, next)
=============================================================================
