------------------------------ MODULE ChatTurns -----------------------------
(***************************************************************************)
(* Conversations that the server can read: one exchange with the external  *)
(* AI provider at a time per account, the owner's consent to send content  *)
(* there, the provider's slots, and the retention deadline that ends a     *)
(* conversation (src/app/services.py, src/app/main.py, src/app/retention.  *)
(* py).                                                                    *)
(*                                                                         *)
(* send_message holds the account lock and the conversation lock from its  *)
(* checks to the commit of both messages, across the provider's answer;    *)
(* every other handler that writes takes the same locks and is one step.   *)
(* The retention sweep takes no lock before it deletes.  stamp orders      *)
(* changes of consent against messages; clock counts days.                 *)
(***************************************************************************)
EXTENDS Naturals, Sequences, FiniteSets

CONSTANTS
    Owners, Sessions, Turns, None,
    Legacy,              \* a conversation of an older release, without deadline
    Quota,               \* max_messages_per_session
    MaxChats,            \* max_sessions_per_user
    Slots,               \* ai_max_concurrent
    History,             \* ai_history_messages
    SecureDays, ConfidentialDays,   \* retention in days
    MaxStamp, MaxClock   \* bounds: changes of consent, days

ASSUME ChatAssumption ==
    /\ {Quota, MaxChats, Slots, History, SecureDays, ConfidentialDays, MaxStamp, MaxClock} \subseteq Nat
    /\ None \notin Nat \cup Turns

VARIABLES
    clock, stamp,
    client,          \* a provider is configured; if not, demo answers
    consent,         \* users.ai_data_consent and ai_consent_at
    conv,            \* chat_sessions
    msgs,            \* secure_messages by conversation
    lock,            \* users row lock
    turn,            \* send_message calls
    active,          \* _ProviderCapacity._active
    sweep            \* enforce_retention: its time and the rows it read

vars == <<clock, stamp, client, consent, conv, msgs, lock, turn, active, sweep>>

Modes == {"secure", "confidential", "private_e2ee"}
Classes == {"internal", "confidential", "highly_confidential"}
Msg == [role : {"user", "assistant"}, by : Turns, at : Nat]

Conv == [state : {"none", "live", "gone"}, owner : Owners, mode : Modes, class : Classes,
         deadline : Nat \cup {None}, created : Nat]

Turn == [pc : {"idle", "waiting", "ready", "asking", "answered", "over"},
         who : Owners \cup {None}, in : Sessions \cup {None}, sanitize : BOOLEAN,
         confirmed : BOOLEAN, secret : BOOLEAN, sent : SUBSET Nat]

Idle == [pc |-> "idle", who |-> None, in |-> None, sanitize |-> FALSE, confirmed |-> FALSE,
         secret |-> FALSE, sent |-> {}]

TypeOK ==
    /\ clock \in 0..MaxClock /\ stamp \in 0..MaxStamp
    /\ client \in BOOLEAN
    /\ consent \in [Owners -> [on : BOOLEAN, since : 0..MaxStamp]]
    /\ conv \in [Sessions -> Conv]
    /\ msgs \in [Sessions -> Seq(Msg)]
    /\ lock \in [Owners -> Turns \cup {None}]
    /\ turn \in [Turns -> Turn]
    /\ active \in Nat
    /\ sweep \in [pc : {"idle", "fill", "delete"}, now : 0..MaxClock,
                  rows : [Sessions -> Nat \cup {None}]]

NoSweep == [pc |-> "idle", now |-> 0, rows |-> [s \in Sessions |-> None]]

Init ==
    /\ clock = 0 /\ stamp = 0
    /\ client \in BOOLEAN
    /\ consent = [a \in Owners |-> [on |-> FALSE, since |-> 0]]
    /\ \E a \in Owners :
          conv = [s \in Sessions |-> [state |-> IF s = Legacy THEN "live" ELSE "none", owner |-> a,
                                      mode |-> "secure", class |-> "internal", deadline |-> None,
                                      created |-> 0]]
    /\ msgs = [s \in Sessions |-> <<>>]
    /\ lock = [a \in Owners |-> None]
    /\ turn = [t \in Turns |-> Idle]
    /\ active = 0
    /\ sweep = NoSweep

Expired(s) == conv[s].deadline = None \/ conv[s].deadline <= clock
Free(a) == lock[a] = None
Days(mode) == IF mode = "secure" THEN SecureDays ELSE ConfidentialDays
Least(i, j) == IF i < j THEN i ELSE j

Gone(s) == conv' = [conv EXCEPT ![s].state = "gone"] /\ msgs' = [msgs EXCEPT ![s] = <<>>]

-----------------------------------------------------------------------------
(* The owner's other requests, each under the account lock.                *)

\* Mutation of ConsentLocked: consent is changed without the account lock.
ConsentUnlocked(a) == TRUE

ConsentLocked(a) == Free(a)

\* update_ai_consent.
UpdateAiConsent(a, on) ==
    /\ ConsentLocked(a)
    /\ consent[a].on # on /\ stamp < MaxStamp
    /\ stamp' = stamp + 1
    /\ consent' = [consent EXCEPT ![a] = [on |-> on, since |-> stamp + 1]]
    /\ UNCHANGED <<clock, client, conv, msgs, lock, turn, active, sweep>>

Kept(a) == {s \in Sessions : conv[s].state = "live" /\ conv[s].owner = a /\ ~Expired(s)}

\* create_session.
CreateSession(a, s, mode, class) ==
    /\ Free(a)
    /\ conv[s].state = "none"
    /\ Cardinality(Kept(a)) < MaxChats
    /\ conv' = [conv EXCEPT ![s] = [state |-> "live", owner |-> a, mode |-> mode, class |-> class,
                                    deadline |-> clock + Days(mode), created |-> clock]]
    /\ UNCHANGED <<clock, stamp, client, consent, msgs, lock, turn, active, sweep>>

\* Mutation of PolicyDeadline: editing the policy starts a new period.
DeadlineRestarted(s, mode) == clock + Days(mode)

\* Editing the policy may shorten the deadline and never extends it.
PolicyDeadline(s, mode) == Least(conv[s].deadline, clock + Days(mode))

\* update_session_security; an expired conversation is deleted on access.
UpdateSessionSecurity(s, mode, class) ==
    /\ conv[s].state = "live" /\ Free(conv[s].owner)
    /\ IF Expired(s) THEN Gone(s)
       ELSE /\ conv[s].mode # mode => msgs[s] = <<>>
            /\ conv' = [conv EXCEPT ![s].mode = mode, ![s].class = class,
                                    ![s].deadline = PolicyDeadline(s, mode)]
            /\ UNCHANGED msgs
    /\ UNCHANGED <<clock, stamp, client, consent, lock, turn, active, sweep>>

\* delete_session.
DeleteSession(s) ==
    /\ conv[s].state = "live" /\ Free(conv[s].owner)
    /\ Gone(s)
    /\ UNCHANGED <<clock, stamp, client, consent, lock, turn, active, sweep>>

-----------------------------------------------------------------------------
(* send_message.                                                           *)

\* current_user and get_owned_session, without a lock.
Admit(t, a, s, sanitize, confirmed, secret) ==
    /\ turn[t].pc = "idle"
    /\ conv[s].state = "live" /\ conv[s].owner = a
    /\ turn' = [turn EXCEPT ![t] = [pc |-> "waiting", who |-> a, in |-> s, sanitize |-> sanitize,
                                    confirmed |-> confirmed, secret |-> secret, sent |-> {}]]
    /\ UNCHANGED <<clock, stamp, client, consent, conv, msgs, lock, active, sweep>>

Over(t) == turn' = [turn EXCEPT ![t].pc = "over"]

\* Mutation of Unlocked: an error path leaves the transaction open.
StillLocked(t) == lock

\* The transaction ends, by its commit or by a rollback: its locks are free.
Unlocked(t) == [lock EXCEPT ![turn[t].who] = None]

\* evaluate: a finding can only make the declared class stricter.
Effective(t) == IF turn[t].secret THEN "highly_confidential" ELSE conv[turn[t].in].class

\* generate up to the provider: whether content of this class may leave.
DlpPasses(t) ==
    /\ conv[turn[t].in].class # "internal" => turn[t].confirmed \/
          (conv[turn[t].in].class = "highly_confidential" /\ ~turn[t].sanitize)
    /\ turn[t].sanitize \/ Effective(t) # "highly_confidential"

Egress(t) == consent[turn[t].who].on /\ DlpPasses(t)

QuotaExceeded(s) == Len(msgs[s]) + 2 > Quota

\* require_owned_session for update, the quota, and the policy: the lock is kept
\* only by a turn that goes on.  The rate limit may refuse any of them.
LockAndCheck(t) ==
    LET a == turn[t].who
        s == turn[t].in
    IN  /\ turn[t].pc = "waiting" /\ Free(a)
        /\ IF conv[s].state = "live" /\ Expired(s) THEN Gone(s) ELSE UNCHANGED <<conv, msgs>>
        /\ \/ /\ conv[s].state = "live" /\ ~Expired(s) /\ conv[s].mode # "private_e2ee"
              /\ ~QuotaExceeded(s)
              /\ client => Egress(t)
              /\ turn' = [turn EXCEPT ![t].pc = "ready"]
              /\ lock' = [lock EXCEPT ![a] = t]
           \/ Over(t) /\ UNCHANGED lock
        /\ UNCHANGED <<clock, stamp, client, consent, active, sweep>>

\* recent_messages: the newest few, none older than the consent.
AllRecent(t) == {i \in 1..Len(msgs[turn[t].in]) : i + History > Len(msgs[turn[t].in])}

Recent(t) == {i \in AllRecent(t) : msgs[turn[t].in][i].at >= consent[turn[t].who].since}

\* claim: a slot and the provider's budget, and then the content leaves; or
\* AIProviderBusy.  Without a provider the demo answers at once.
Claim(t) ==
    /\ turn[t].pc = "ready"
    /\ \/ /\ ~client
          /\ turn' = [turn EXCEPT ![t].pc = "answered"]
          /\ UNCHANGED <<active, lock>>
       \/ /\ client /\ active < Slots
          /\ active' = active + 1
          /\ turn' = [turn EXCEPT ![t].pc = "asking", ![t].sent = Recent(t)]
          /\ UNCHANGED lock
       \/ /\ client
          /\ Over(t)
          /\ lock' = Unlocked(t)
          /\ UNCHANGED active
    /\ UNCHANGED <<clock, stamp, client, consent, conv, msgs, sweep>>

\* Mutation of Release: a failed call keeps its slot.
ReleaseOnSuccess(ok) == IF ok THEN active - 1 ELSE active

Release(ok) == active - 1

\* The answer, an exception, or an answer that is too large: the slot comes back.
Answer(t, ok) ==
    /\ turn[t].pc = "asking"
    /\ active' = Release(ok)
    /\ IF ok THEN turn' = [turn EXCEPT ![t].pc = "answered"] /\ UNCHANGED lock
             ELSE Over(t) /\ lock' = Unlocked(t)
    /\ UNCHANGED <<clock, stamp, client, consent, conv, msgs, sweep>>

\* chat after the answer, and the commit in record_audits.
Store(t) ==
    LET s == turn[t].in
        row(role) == [role |-> role, by |-> t, at |-> stamp]
    IN  /\ turn[t].pc = "answered"
        /\ msgs' = [msgs EXCEPT ![s] = @ \o <<row("user"), row("assistant")>>]
        /\ Over(t)
        /\ lock' = Unlocked(t)
        /\ UNCHANGED <<clock, stamp, client, consent, conv, active, sweep>>

\* The process dies: transactions roll back, its slots are gone with it.
Crash ==
    /\ \E t \in Turns : turn[t].pc \notin {"idle", "over"}
    /\ turn' = [t \in Turns |-> IF turn[t].pc = "idle" THEN Idle ELSE [turn[t] EXCEPT !.pc = "over"]]
    /\ lock' = [a \in Owners |-> None]
    /\ active' = 0
    /\ UNCHANGED <<clock, stamp, client, consent, conv, msgs, sweep>>

-----------------------------------------------------------------------------
(* enforce_retention.                                                      *)

\* _backfill_retention_deadlines reads rows without a deadline and computes one
\* from their creation ...
BackfillRead ==
    /\ sweep.pc = "idle"
    /\ sweep' = [pc |-> "fill", now |-> clock, rows |-> [s \in Sessions |->
                     IF conv[s].state = "live" /\ conv[s].deadline = None
                     THEN conv[s].created + Days(conv[s].mode) ELSE None]]
    /\ UNCHANGED <<clock, stamp, client, consent, conv, msgs, lock, turn, active>>

\* The conversation's row is locked by a turn.
Busy(s) == \E t \in Turns : turn[t].in = s /\ turn[t].pc \in {"ready", "asking", "answered"}

\* ... and writes it.  A row that is gone by then fails the sweep.
BackfillFails ==
    /\ sweep.pc = "fill"
    /\ \E s \in Sessions : sweep.rows[s] # None /\ conv[s].state # "live"
    /\ sweep' = NoSweep
    /\ UNCHANGED <<clock, stamp, client, consent, conv, msgs, lock, turn, active>>

\* The rows it then selects for deletion, by the time at which the sweep began,
\* are kept by id.
BackfillWrite ==
    LET filled == [s \in Sessions |-> IF sweep.rows[s] # None
                                      THEN [conv[s] EXCEPT !.deadline = sweep.rows[s]] ELSE conv[s]]
    IN  /\ sweep.pc = "fill"
        /\ \A s \in Sessions : sweep.rows[s] # None => conv[s].state = "live" /\ ~Busy(s)
        /\ conv' = filled
        /\ sweep' = [sweep EXCEPT !.pc = "delete", !.rows = [s \in Sessions |->
                         IF /\ filled[s].state = "live"
                            /\ filled[s].deadline = None \/ filled[s].deadline <= sweep.now
                         THEN sweep.now ELSE None]]
        /\ UNCHANGED <<clock, stamp, client, consent, msgs, lock, turn, active>>

SweepWaits(s) == ~Busy(s)

\* The deletes wait for whoever holds a row, and take its messages along.
SweepDelete ==
    LET rows == {s \in Sessions : sweep.rows[s] # None}
    IN  /\ sweep.pc = "delete"
        /\ \A s \in rows : SweepWaits(s)
        /\ conv' = [s \in Sessions |-> IF s \in rows THEN [conv[s] EXCEPT !.state = "gone"] ELSE conv[s]]
        /\ msgs' = [s \in Sessions |-> IF s \in rows THEN <<>> ELSE msgs[s]]
        /\ sweep' = NoSweep
        /\ UNCHANGED <<clock, stamp, client, consent, lock, turn, active>>

Tick ==
    /\ clock < MaxClock
    /\ clock' = clock + 1
    /\ UNCHANGED <<stamp, client, consent, conv, msgs, lock, turn, active, sweep>>

TurnStep(t) ==
    \/ LockAndCheck(t) \/ Claim(t) \/ Store(t)
    \/ \E ok \in BOOLEAN : Answer(t, ok)

Next ==
    \/ Tick \/ Crash
    \/ BackfillRead \/ BackfillWrite \/ BackfillFails \/ SweepDelete
    \/ \E a \in Owners, on \in BOOLEAN : UpdateAiConsent(a, on)
    \/ \E a \in Owners, s \in Sessions, mode \in Modes, class \in Classes : CreateSession(a, s, mode, class)
    \/ \E s \in Sessions, mode \in Modes, class \in Classes : UpdateSessionSecurity(s, mode, class)
    \/ \E s \in Sessions : DeleteSession(s)
    \/ \E t \in Turns, a \in Owners, s \in Sessions, x, y, z \in BOOLEAN : Admit(t, a, s, x, y, z)
    \/ \E t \in Turns : TurnStep(t)

\* A handler that has its locks goes on; the provider's client has a timeout; the
\* database serves waiting transactions in turn.
Fairness == \A t \in Turns : SF_vars(TurnStep(t))

Spec == Init /\ [][Next]_vars

FairSpec == Spec /\ Fairness

-----------------------------------------------------------------------------
(* Properties.                                                             *)

\* While content is at the provider and until the exchange is stored, the owner
\* consents, nothing older than that consent was sent along, the conversation is
\* still one the server may read and its class still permits what was sent.
ConsentCoversEgress ==
    \A t \in Turns : client /\ turn[t].pc \in {"asking", "answered"} =>
        /\ consent[turn[t].who].on
        /\ \A i \in turn[t].sent : msgs[turn[t].in][i].at >= consent[turn[t].who].since
        /\ conv[turn[t].in].state = "live" /\ conv[turn[t].in].mode # "private_e2ee"
        /\ conv[turn[t].in].class # "internal" => turn[t].confirmed
        /\ Effective(t) = "highly_confidential" => turn[t].sanitize

\* Whole exchanges: no question without its answer, none interleaved with another,
\* none stored twice.
Exchanges(q) ==
    /\ Len(q) % 2 = 0
    /\ \A i \in 1..Len(q) :
          /\ q[i].role = (IF i % 2 = 1 THEN "user" ELSE "assistant")
          /\ i % 2 = 1 => q[i + 1].by = q[i].by
    /\ \A i, j \in 1..Len(q) : q[i].by = q[j].by /\ q[i].role = q[j].role => i = j

\* A conversation is a sequence of whole exchanges within its quota, and nothing is
\* left of one that has ended.
WholeExchanges(s) ==
    /\ Exchanges(msgs[s]) /\ Len(msgs[s]) <= Quota
    /\ conv[s].state # "live" => Len(msgs[s]) = 0

\* Every slot of the provider is held by a call in progress, and given back on
\* every path.
Asking == {t \in Turns : turn[t].pc = "asking"}

ProviderSlotsReturn == active = Cardinality(Asking) /\ active <= Slots

\* Conversations are sequences of whole exchanges within their quota, and the
\* provider's slots are held by calls in progress, through refusals, failures of
\* the provider and crashes.
ExchangeIsWhole == TypeOK /\ (\A s \in Sessions : WholeExchanges(s)) /\ ProviderSlotsReturn

\* A conversation ends early only by its owner: the sweep, which takes no lock
\* before it deletes, finds the deadline of what it removes passed, and no step
\* postpones a deadline.
DeadlineKept ==
    \A s \in Sessions : conv[s].state = "live" =>
        /\ SweepDelete /\ conv'[s].state = "gone" =>
              conv[s].deadline # None /\ conv[s].deadline <= clock
        /\ conv[s].deadline # None =>
              conv'[s].deadline # None /\ conv'[s].deadline <= conv[s].deadline

RetentionIsKept == [][DeadlineKept]_vars

\* A message that was admitted is answered or refused; nobody waits for ever
\* behind a provider call.
EveryTurnEnds == \A t \in Turns : turn[t].pc = "waiting" ~> turn[t].pc = "over"

-----------------------------------------------------------------------------
(* The inductive invariant behind the safety properties.                   *)

Locking == {"ready", "asking", "answered"}

\* Between its checks and its commit a turn holds the lock of its account, and
\* nobody else holds one.
HoldsItsLock(t) ==
    /\ turn[t].pc \in Locking => lock[turn[t].who] = t
    /\ \A a \in Owners : lock[a] = t => turn[t].pc \in Locking /\ turn[t].who = a

\* A turn is about a conversation of its own account.
OwnsItsConversation(t) ==
    turn[t].pc # "idle" =>
        /\ turn[t].who \in Owners /\ turn[t].in \in Sessions
        /\ conv[turn[t].in].state # "none" /\ conv[turn[t].in].owner = turn[t].who

\* What LockAndCheck found stays true until the turn gives its lock back, although
\* the deadline may pass meanwhile.
CheckStillHolds(t) ==
    turn[t].pc \in Locking =>
        /\ conv[turn[t].in].state = "live" /\ conv[turn[t].in].mode # "private_e2ee"
        /\ ~QuotaExceeded(turn[t].in)
        /\ client => Egress(t)

\* Nothing is sent along before the call; what was is still there, and not older
\* than the consent.
SentIsCovered(t) ==
    /\ turn[t].pc \in {"waiting", "ready"} => turn[t].sent = {}
    /\ turn[t].pc \in {"asking", "answered"} =>
          \A i \in turn[t].sent :
              /\ i \in 1..Len(msgs[turn[t].in])
              /\ msgs[turn[t].in][i].at >= consent[turn[t].who].since

SoundTurn(t) ==
    HoldsItsLock(t) /\ OwnsItsConversation(t) /\ CheckStillHolds(t) /\ SentIsCovered(t)

TurnsAreSound == \A t \in Turns : SoundTurn(t)

\* Messages are stored by turns that are over.
StoredOnce(s) == \A i \in 1..Len(msgs[s]) : turn[msgs[s][i].by].pc = "over"

ConversationsAreSound == \A s \in Sessions : WholeExchanges(s) /\ StoredOnce(s)

SlotsAreCounted == IsFiniteSet(Asking) /\ ProviderSlotsReturn

\* The sweep read every row without a deadline, and these rows keep none until it
\* writes; what it then selected stays expired.
SoundSweep(s) ==
    /\ sweep.rows[s] # None => conv[s].state # "none"
    /\ sweep.pc = "fill" /\ conv[s].state = "live" =>
          (sweep.rows[s] = None <=> conv[s].deadline # None)
    /\ sweep.pc = "delete" /\ conv[s].state = "live" =>
          /\ conv[s].deadline # None
          /\ sweep.rows[s] # None => conv[s].deadline <= clock

SweepIsSound == sweep.now <= clock /\ \A s \in Sessions : SoundSweep(s)

IInv == TypeOK /\ TurnsAreSound /\ ConversationsAreSound /\ SlotsAreCounted /\ SweepIsSound
=============================================================================
