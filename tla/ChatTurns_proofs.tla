--------------------------- MODULE ChatTurns_proofs --------------------------
(***************************************************************************)
(* Proofs about ChatTurns: for any accounts, conversations, messages and   *)
(* limits, the consent of the owner covers what is at the provider, a      *)
(* conversation is a sequence of whole exchanges, the provider's slots     *)
(* come back, and deadlines are kept.                                      *)
(*                                                                         *)
(* IInv is inductive: one lemma per action, resting on lemmas that say     *)
(* what a turn, a conversation, the slots and the sweep need of a step     *)
(* that does not concern them.                                             *)
(***************************************************************************)
EXTENDS ChatTurns, ExportTickets, FiniteSetTheorems, SequenceTheorems, WellFoundedInduction, TLAPS

-----------------------------------------------------------------------------
(* Types.                                                                  *)

\* The limits are natural numbers, and None is neither a time nor a turn.
LEMMA Limits ==
    /\ Quota \in Nat /\ MaxChats \in Nat /\ Slots \in Nat /\ History \in Nat
    /\ SecureDays \in Nat /\ ConfidentialDays \in Nat /\ MaxStamp \in Nat /\ MaxClock \in Nat
    /\ None \notin Nat /\ None \notin Turns
BY ChatAssumption

\* The period of every mode is a number of days.
LEMMA DaysNat == \A mode : Days(mode) \in Nat
BY Limits DEF Days

\* The fields of a conversation, of a turn and of the sweep.
LEMMA FieldTypes ==
    ASSUME TypeOK
    PROVE  /\ \A s \in Sessions :
                 /\ conv[s].state \in {"none", "live", "gone"} /\ conv[s].owner \in Owners
                 /\ conv[s].mode \in Modes /\ conv[s].class \in Classes
                 /\ conv[s].deadline \in Nat \cup {None} /\ conv[s].created \in Nat
                 /\ msgs[s] \in Seq(Msg)
           /\ \A t \in Turns :
                 /\ turn[t].pc \in {"idle", "waiting", "ready", "asking", "answered", "over"}
                 /\ turn[t].sent \in SUBSET Nat
           /\ \A s \in Sessions : sweep.rows[s] \in Nat \cup {None}
           /\ sweep.pc \in {"idle", "fill", "delete"} /\ sweep.now \in Nat
           /\ clock \in Nat /\ stamp \in Nat
BY Limits DEF TypeOK, Conv, Turn

\* The fields of a stored message.
LEMMA RowTypes ==
    ASSUME NEW q \in Seq(Msg), NEW i \in 1..Len(q)
    PROVE  q[i].by \in Turns /\ q[i].at \in Nat /\ q[i].role \in {"user", "assistant"}
<1>1. q[i] \in Msg
    OBVIOUS
<1>. QED
    BY <1>1 DEF Msg

\* A conversation that ends and takes its messages along, and nothing else.
LEMMA GoneIsLocal ==
    ASSUME TypeOK, NEW s \in Sessions, Gone(s)
    PROVE  /\ conv' \in [Sessions -> Conv] /\ msgs' \in [Sessions -> Seq(Msg)]
           /\ \A o \in Sessions : o # s => conv'[o] = conv[o] /\ msgs'[o] = msgs[o]
           /\ conv'[s].state = "gone" /\ msgs'[s] = <<>>
           /\ conv'[s].owner = conv[s].owner /\ conv'[s].deadline = conv[s].deadline
<1>1. conv' = [conv EXCEPT ![s] = [conv[s] EXCEPT !.state = "gone"]]
    BY DEF Gone, TypeOK
<1>2. conv[s] \in Conv /\ [conv[s] EXCEPT !.state = "gone"] \in Conv
    BY ZenonT(60) DEF TypeOK, Conv
<1>3. conv' \in [Sessions -> Conv] /\ (\A o \in Sessions : o # s => conv'[o] = conv[o])
    BY <1>1, <1>2 DEF TypeOK
<1>4. conv'[s] = [conv[s] EXCEPT !.state = "gone"]
    BY <1>1, <1>2 DEF TypeOK
<1>5. /\ conv'[s].state = "gone"
      /\ conv'[s].owner = conv[s].owner /\ conv'[s].deadline = conv[s].deadline
    BY <1>2, <1>4 DEF Conv
<1>6. <<>> \in Seq(Msg)
    OBVIOUS
<1>7. /\ msgs' \in [Sessions -> Seq(Msg)] /\ msgs'[s] = <<>>
      /\ \A o \in Sessions : o # s => msgs'[o] = msgs[o]
    BY <1>6 DEF Gone, TypeOK
<1>. QED
    BY <1>3, <1>5, <1>7

\* A turn that moves on, and no other.
LEMMA MoveIsLocal ==
    ASSUME TypeOK, NEW t \in Turns,
           NEW pc \in {"idle", "waiting", "ready", "asking", "answered", "over"},
           turn' = [turn EXCEPT ![t].pc = pc]
    PROVE  /\ turn' \in [Turns -> Turn]
           /\ \A o \in Turns : o # t => turn'[o] = turn[o]
           /\ turn'[t].pc = pc /\ turn'[t].who = turn[t].who /\ turn'[t].in = turn[t].in
           /\ turn'[t].sanitize = turn[t].sanitize /\ turn'[t].confirmed = turn[t].confirmed
           /\ turn'[t].secret = turn[t].secret /\ turn'[t].sent = turn[t].sent
<1>1. turn[t] \in Turn /\ [turn[t] EXCEPT !.pc = pc] \in Turn
    BY ZenonT(60) DEF TypeOK, Turn
<1>2. turn' = [turn EXCEPT ![t] = [turn[t] EXCEPT !.pc = pc]]
    BY DEF TypeOK
<1>3. turn' \in [Turns -> Turn] /\ (\A o \in Turns : o # t => turn'[o] = turn[o])
    BY <1>1, <1>2 DEF TypeOK
<1>4. turn'[t] = [turn[t] EXCEPT !.pc = pc]
    BY <1>1, <1>2 DEF TypeOK
<1>. QED
    BY <1>1, <1>3, <1>4 DEF Turn

-----------------------------------------------------------------------------
(* What a step must leave alone.                                           *)

\* A turn stays sound when its own record, the holders of locks, and what its
\* checks were about stay as they are.
LEMMA TurnKept ==
    ASSUME NEW t \in Turns, SoundTurn(t), turn'[t] = turn[t], client' = client,
           \A a \in Owners : lock'[a] = t <=> lock[a] = t,
           turn[t].pc # "idle" =>
               /\ conv'[turn[t].in].state # "none"
               /\ conv'[turn[t].in].owner = conv[turn[t].in].owner,
           turn[t].pc \in Locking =>
               /\ conv'[turn[t].in].state = "live"
               /\ conv'[turn[t].in].mode = conv[turn[t].in].mode
               /\ conv'[turn[t].in].class = conv[turn[t].in].class
               /\ msgs'[turn[t].in] = msgs[turn[t].in]
               /\ consent'[turn[t].who] = consent[turn[t].who]
    PROVE  SoundTurn(t)'
<1>1. OwnsItsConversation(t)'
    BY DEF SoundTurn, OwnsItsConversation
<1>2. HoldsItsLock(t)'
    BY DEF SoundTurn, HoldsItsLock, OwnsItsConversation, Locking
<1>3. CheckStillHolds(t)'
    <2>. SUFFICES ASSUME turn[t].pc \in Locking
                  PROVE  /\ conv'[turn[t].in].state = "live"
                         /\ conv'[turn[t].in].mode # "private_e2ee"
                         /\ QuotaExceeded(turn[t].in)' = QuotaExceeded(turn[t].in)
                         /\ Egress(t)' = Egress(t)
        BY DEF SoundTurn, CheckStillHolds
    <2>1. QuotaExceeded(turn[t].in)' = QuotaExceeded(turn[t].in)
        BY DEF QuotaExceeded
    <2>2. Egress(t)' = Egress(t)
        BY DEF Egress, DlpPasses, Effective
    <2>. QED
        BY <2>1, <2>2 DEF SoundTurn, CheckStillHolds
<1>4. SentIsCovered(t)'
    BY DEF SoundTurn, SentIsCovered, Locking
<1>. QED
    BY <1>1, <1>2, <1>3, <1>4 DEF SoundTurn

\* A conversation stays sound when its messages stay or go, and turns that are
\* over stay over.
LEMMA ConversationKept ==
    ASSUME TypeOK, NEW s \in Sessions, WholeExchanges(s), StoredOnce(s),
           msgs'[s] = msgs[s] \/ msgs'[s] = <<>>,
           conv'[s].state # "live" => conv[s].state # "live" \/ msgs'[s] = <<>>,
           \A o \in Turns : turn[o].pc = "over" => turn'[o].pc = "over"
    PROVE  WholeExchanges(s)' /\ StoredOnce(s)'
<1>1. CASE msgs'[s] = <<>>
    <2>1. Len(msgs'[s]) = 0
        BY <1>1
    <2>2. 1..Len(msgs'[s]) = {} /\ Len(msgs'[s]) % 2 = 0 /\ Len(msgs'[s]) <= Quota
        BY <2>1, Limits
    <2>. QED
        BY <2>1, <2>2 DEF WholeExchanges, Exchanges, StoredOnce
<1>2. CASE msgs'[s] = msgs[s] /\ msgs[s] # <<>>
    <2>1. msgs[s] \in Seq(Msg)
        BY FieldTypes
    <2>2. \A i \in 1..Len(msgs[s]) : msgs[s][i].by \in Turns
        BY <2>1, RowTypes
    <2>3. StoredOnce(s)'
        BY <1>2, <2>2 DEF StoredOnce
    <2>4. conv'[s].state = "live" \/ conv[s].state # "live"
        BY <1>2
    <2>5. WholeExchanges(s)'
        BY <1>2, <2>4 DEF WholeExchanges
    <2>. QED
        BY <2>3, <2>5
<1>. QED
    BY <1>1, <1>2

\* The slots stay counted by a step that neither begins nor ends a call.
LEMMA SlotsKept ==
    ASSUME SlotsAreCounted, active' = active,
           \A t \in Turns : turn'[t].pc = "asking" <=> turn[t].pc = "asking"
    PROVE  SlotsAreCounted'
<1>1. Asking' = Asking
    BY DEF Asking
<1>. QED
    BY <1>1 DEF SlotsAreCounted, ProviderSlotsReturn

\* The sweep stays sound when a conversation stays or ends, and time passes.
LEMMA SweepKept ==
    ASSUME TypeOK, NEW s \in Sessions, SoundSweep(s), sweep' = sweep,
           clock' \in Nat, clock <= clock',
           conv'[s].state \in {conv[s].state, "gone"},
           conv'[s].deadline = conv[s].deadline
    PROVE  SoundSweep(s)'
BY FieldTypes DEF SoundSweep

\* Steps that concern neither the turns nor the sweep.
LEMMA OthersKept ==
    ASSUME IInv, UNCHANGED <<clock, client, lock, turn, active, sweep>>,
           \A s \in Sessions :
               /\ msgs'[s] = msgs[s] \/ msgs'[s] = <<>>
               /\ conv'[s].state # "live" => conv[s].state # "live" \/ msgs'[s] = <<>>
    PROVE  /\ ConversationsAreSound' /\ SlotsAreCounted'
BY ConversationKept, SlotsKept DEF IInv, ConversationsAreSound

-----------------------------------------------------------------------------
(* The initial states, and the steps that are not a turn's.                *)

\* In an initial state there is no turn, no message and no sweep.
LEMMA InitSound == Init => IInv
<1>. SUFFICES ASSUME Init PROVE IInv
    OBVIOUS
<1>1. TypeOK
    <2>1. PICK a \in Owners :
              conv = [s \in Sessions |-> [state |-> IF s = Legacy THEN "live" ELSE "none",
                                          owner |-> a, mode |-> "secure", class |-> "internal",
                                          deadline |-> None, created |-> 0]]
        BY DEF Init
    <2>2. conv \in [Sessions -> Conv]
        BY <2>1 DEF Conv, Modes, Classes
    <2>3. turn \in [Turns -> Turn]
        BY DEF Init, Turn, Idle
    <2>4. msgs \in [Sessions -> Seq(Msg)]
        BY DEF Init
    <2>5. sweep \in [pc : {"idle", "fill", "delete"}, now : 0..MaxClock,
                     rows : [Sessions -> Nat \cup {None}]]
        BY Limits DEF Init, NoSweep
    <2>6. consent \in [Owners -> [on : BOOLEAN, since : 0..MaxStamp]]
        BY Limits DEF Init
    <2>7. lock \in [Owners -> Turns \cup {None}] /\ client \in BOOLEAN
        BY DEF Init
    <2>. QED
        BY <2>2, <2>3, <2>4, <2>5, <2>6, <2>7, Limits DEF Init, TypeOK
<1>2. TurnsAreSound
    <2>1. \A t \in Turns : turn[t].pc = "idle"
        BY DEF Init, Idle
    <2>2. \A t \in Turns, a \in Owners : lock[a] # t
        BY Limits DEF Init
    <2>. QED
        BY <2>1, <2>2 DEF TurnsAreSound, SoundTurn, HoldsItsLock, OwnsItsConversation,
                          CheckStillHolds, SentIsCovered, Locking
<1>3. ConversationsAreSound
    <2>1. \A s \in Sessions : /\ Len(msgs[s]) = 0 /\ 1..Len(msgs[s]) = {}
                              /\ Len(msgs[s]) % 2 = 0 /\ Len(msgs[s]) <= Quota
        BY Limits DEF Init
    <2>. QED
        BY <2>1 DEF ConversationsAreSound, WholeExchanges, Exchanges, StoredOnce
<1>4. SlotsAreCounted
    <2>1. Asking = {}
        BY DEF Init, Idle, Asking
    <2>. QED
        BY <2>1, FS_EmptySet, Limits DEF SlotsAreCounted, ProviderSlotsReturn, Init
<1>5. SweepIsSound
    BY DEF SweepIsSound, SoundSweep, Init, NoSweep
<1>. QED
    BY <1>1, <1>2, <1>3, <1>4, <1>5 DEF IInv

\* No turn is about a conversation whose owner's lock is free, beyond its wait.
LEMMA FreeIsIdle ==
    ASSUME IInv, NEW a \in Owners, Free(a), NEW t \in Turns, turn[t].pc \in Locking
    PROVE  turn[t].who # a
BY Limits DEF IInv, TurnsAreSound, SoundTurn, HoldsItsLock, Free

\* Two turns that are past their checks are about different conversations.
LEMMA OneTurnPerConversation ==
    ASSUME IInv, NEW t \in Turns, NEW o \in Turns, o # t,
           turn[t].pc \in Locking, turn[o].pc \in Locking
    PROVE  turn[t].in # turn[o].in /\ turn[t].who # turn[o].who
BY DEF IInv, TurnsAreSound, SoundTurn, HoldsItsLock, OwnsItsConversation, Locking

\* update_ai_consent waits for the turns of its account.
LEMMA ConsentKeeps ==
    ASSUME IInv, NEW a \in Owners, NEW on \in BOOLEAN, UpdateAiConsent(a, on)
    PROVE  IInv'
<1>1. TypeOK'
    <2>1. [on |-> on, since |-> stamp + 1] \in [on : BOOLEAN, since : 0..MaxStamp]
        BY Limits DEF IInv, TypeOK, UpdateAiConsent
    <2>2. consent' \in [Owners -> [on : BOOLEAN, since : 0..MaxStamp]]
        BY <2>1 DEF IInv, TypeOK, UpdateAiConsent
    <2>3. stamp' \in 0..MaxStamp
        BY Limits DEF IInv, TypeOK, UpdateAiConsent
    <2>. QED
        BY <2>2, <2>3 DEF IInv, TypeOK, UpdateAiConsent
<1>2. TurnsAreSound'
    <2>. SUFFICES ASSUME NEW t \in Turns PROVE SoundTurn(t)'
        BY DEF TurnsAreSound
    <2>1. turn[t].pc \in Locking => consent'[turn[t].who] = consent[turn[t].who]
        <3>. SUFFICES ASSUME turn[t].pc \in Locking
                      PROVE  consent'[turn[t].who] = consent[turn[t].who]
            OBVIOUS
        <3>1. turn[t].who # a
            BY FreeIsIdle DEF UpdateAiConsent, ConsentLocked
        <3>2. turn[t].who \in Owners
            BY DEF IInv, TurnsAreSound, SoundTurn, OwnsItsConversation, Locking
        <3>. QED
            BY <3>1, <3>2 DEF UpdateAiConsent, IInv, TypeOK
    <2>2. SoundTurn(t)
        BY DEF IInv, TurnsAreSound
    <2>3. turn[t].pc # "idle" => conv[turn[t].in].state # "none"
        BY <2>2 DEF SoundTurn, OwnsItsConversation
    <2>4. turn[t].pc \in Locking => conv[turn[t].in].state = "live"
        BY <2>2 DEF SoundTurn, CheckStillHolds
    <2>. QED
        BY <2>1, <2>2, <2>3, <2>4, TurnKept DEF UpdateAiConsent
<1>3. ConversationsAreSound' /\ SlotsAreCounted'
    BY OthersKept DEF UpdateAiConsent
<1>4. SweepIsSound'
    BY DEF IInv, SweepIsSound, SoundSweep, UpdateAiConsent
<1>. QED
    BY <1>1, <1>2, <1>3, <1>4 DEF IInv

\* create_session touches a conversation that no turn, message or sweep knows.
LEMMA CreateKeeps ==
    ASSUME IInv, NEW a \in Owners, NEW s \in Sessions, NEW mode \in Modes, NEW class \in Classes,
           CreateSession(a, s, mode, class)
    PROVE  IInv'
<1>1. /\ conv'[s].state = "live" /\ conv'[s].deadline = clock + Days(mode)
      /\ \A o \in Sessions : o # s => conv'[o] = conv[o]
    BY DEF IInv, TypeOK, CreateSession
<1>2. clock + Days(mode) \in Nat
    BY DaysNat, FieldTypes DEF IInv
<1>3. TypeOK'
    <2>1. [state |-> "live", owner |-> a, mode |-> mode, class |-> class,
           deadline |-> clock + Days(mode), created |-> clock] \in Conv
        BY <1>2, FieldTypes DEF Conv, IInv
    <2>2. conv' \in [Sessions -> Conv]
        BY <2>1 DEF IInv, TypeOK, CreateSession
    <2>. QED
        BY <2>2 DEF IInv, TypeOK, CreateSession
<1>4. TurnsAreSound'
    <2>. SUFFICES ASSUME NEW t \in Turns PROVE SoundTurn(t)'
        BY DEF TurnsAreSound
    <2>1. SoundTurn(t)
        BY DEF IInv, TurnsAreSound
    <2>2. turn[t].pc # "idle" => turn[t].in \in Sessions /\ turn[t].in # s
        BY <2>1 DEF SoundTurn, OwnsItsConversation, CreateSession
    <2>3. turn[t].pc # "idle" => conv'[turn[t].in] = conv[turn[t].in]
        BY <1>1, <2>2
    <2>4. turn[t].pc # "idle" => conv[turn[t].in].state # "none"
        BY <2>1 DEF SoundTurn, OwnsItsConversation
    <2>5. turn[t].pc \in Locking => turn[t].pc # "idle" /\ conv[turn[t].in].state = "live"
        BY <2>1 DEF SoundTurn, CheckStillHolds, Locking
    <2>. QED
        BY <2>1, <2>3, <2>4, <2>5, TurnKept DEF CreateSession
<1>5. ConversationsAreSound' /\ SlotsAreCounted'
    BY <1>1, OthersKept DEF CreateSession
<1>6. SweepIsSound'
    <2>1. \A o \in Sessions : o # s => SoundSweep(o)'
        BY <1>1 DEF IInv, SweepIsSound, SoundSweep, CreateSession
    <2>2. sweep.rows[s] = None
        BY DEF IInv, SweepIsSound, SoundSweep, CreateSession
    <2>3. SoundSweep(s)'
        BY <1>1, <1>2, <2>2, Limits DEF SoundSweep, CreateSession
    <2>. QED
        BY <2>1, <2>3 DEF SweepIsSound, CreateSession, IInv
<1>. QED
    BY <1>3, <1>4, <1>5, <1>6 DEF IInv

\* A conversation ends whose owner has no turn past its checks.
LEMMA EndingKeeps ==
    ASSUME IInv, NEW s \in Sessions, conv[s].state = "live", Free(conv[s].owner), Gone(s),
           UNCHANGED <<clock, stamp, client, consent, lock, turn, active, sweep>>
    PROVE  IInv'
<1>0. TypeOK
    BY DEF IInv
<1>1. /\ conv' \in [Sessions -> Conv] /\ msgs' \in [Sessions -> Seq(Msg)]
      /\ \A o \in Sessions : o # s => conv'[o] = conv[o] /\ msgs'[o] = msgs[o]
      /\ conv'[s].state = "gone" /\ msgs'[s] = <<>>
      /\ conv'[s].owner = conv[s].owner /\ conv'[s].deadline = conv[s].deadline
    BY <1>0, GoneIsLocal
<1>2. TypeOK'
    BY <1>0, <1>1 DEF TypeOK
<1>3. TurnsAreSound'
    <2>. SUFFICES ASSUME NEW t \in Turns PROVE SoundTurn(t)'
        BY DEF TurnsAreSound
    <2>1. SoundTurn(t)
        BY DEF IInv, TurnsAreSound
    <2>2. turn[t].pc # "idle" =>
              /\ turn[t].in \in Sessions /\ conv[turn[t].in].state # "none"
              /\ conv[turn[t].in].owner = turn[t].who
        BY <2>1 DEF SoundTurn, OwnsItsConversation
    <2>3. turn[t].pc \in Locking => turn[t].in # s
        <3>1. conv[s].owner \in Owners
            BY <1>0, FieldTypes
        <3>. QED
            BY <2>2, <3>1, FreeIsIdle DEF Locking
    <2>4. turn[t].pc # "idle" => /\ conv'[turn[t].in].state # "none"
                                 /\ conv'[turn[t].in].owner = conv[turn[t].in].owner
        BY <1>1, <2>2
    <2>5. turn[t].pc \in Locking => /\ conv'[turn[t].in] = conv[turn[t].in]
                                    /\ msgs'[turn[t].in] = msgs[turn[t].in]
                                    /\ conv[turn[t].in].state = "live"
        BY <1>1, <2>1, <2>2, <2>3 DEF SoundTurn, CheckStillHolds, Locking
    <2>. QED
        BY <2>1, <2>4, <2>5, TurnKept
<1>4. ConversationsAreSound' /\ SlotsAreCounted'
    <2>1. \A o \in Sessions :
              /\ msgs'[o] = msgs[o] \/ msgs'[o] = <<>>
              /\ conv'[o].state # "live" => conv[o].state # "live" \/ msgs'[o] = <<>>
        BY <1>1
    <2>. QED
        BY <2>1, OthersKept
<1>5. SweepIsSound'
    <2>1. \A o \in Sessions : /\ conv'[o].state \in {conv[o].state, "gone"}
                              /\ conv'[o].deadline = conv[o].deadline
        BY <1>1
    <2>2. clock' \in Nat /\ clock <= clock'
        BY <1>0, FieldTypes
    <2>3. \A o \in Sessions : SoundSweep(o)'
        BY <1>0, <2>1, <2>2, SweepKept DEF IInv, SweepIsSound
    <2>. QED
        BY <2>3 DEF IInv, SweepIsSound
<1>. QED
    BY <1>2, <1>3, <1>4, <1>5 DEF IInv

\* Editing the policy never extends a deadline that has not passed.
LEMMA PolicyOnlyShortens ==
    ASSUME TypeOK, NEW s \in Sessions, NEW mode \in Modes, ~Expired(s)
    PROVE  /\ conv[s].deadline \in Nat /\ conv[s].deadline > clock
           /\ PolicyDeadline(s, mode) \in Nat /\ PolicyDeadline(s, mode) <= conv[s].deadline
<1>1. conv[s].deadline \in Nat /\ conv[s].deadline > clock /\ clock \in Nat
    BY FieldTypes DEF Expired
<1>2. clock + Days(mode) \in Nat
    BY <1>1, DaysNat
<1>. QED
    BY <1>1, <1>2 DEF PolicyDeadline, Least

\* What editing the policy of a conversation changes.
LEMMA EditIsLocal ==
    ASSUME TypeOK, NEW s \in Sessions, NEW mode \in Modes, NEW class \in Classes, ~Expired(s),
           conv' = [conv EXCEPT ![s].mode = mode, ![s].class = class,
                                ![s].deadline = PolicyDeadline(s, mode)]
    PROVE  /\ conv' \in [Sessions -> Conv]
           /\ \A o \in Sessions : o # s => conv'[o] = conv[o]
           /\ conv'[s].state = conv[s].state /\ conv'[s].owner = conv[s].owner
           /\ conv'[s].deadline = PolicyDeadline(s, mode)
<1>. DEFINE d == PolicyDeadline(s, mode)
            row == [conv[s] EXCEPT !.mode = mode, !.class = class, !.deadline = d]
<1>1. d \in Nat
    BY PolicyOnlyShortens
<1>. HIDE DEF d
<1>2. conv' = [conv EXCEPT ![s].mode = mode, ![s].class = class, ![s].deadline = d]
    BY DEF d
<1>3. conv[s] \in Conv /\ row \in Conv
    BY <1>1, ZenonT(60) DEF TypeOK, Conv
<1>4. conv'[s] = row /\ \A o \in Sessions : o # s => conv'[o] = conv[o]
    BY <1>2, <1>3 DEF TypeOK
<1>5. conv' = [o \in Sessions |-> IF o = s THEN row ELSE conv[o]]
    BY <1>2, <1>3 DEF TypeOK
<1>6. conv' \in [Sessions -> Conv]
    BY <1>3, <1>5 DEF TypeOK
<1>7. row.state = conv[s].state /\ row.owner = conv[s].owner /\ row.deadline = d
    BY <1>3 DEF Conv
<1>. QED
    BY <1>4, <1>6, <1>7 DEF d

\* update_session_security waits for the turns of its account.
LEMMA EditKeeps ==
    ASSUME IInv, NEW s \in Sessions, NEW mode \in Modes, NEW class \in Classes,
           UpdateSessionSecurity(s, mode, class)
    PROVE  IInv'
<1>0. TypeOK
    BY DEF IInv
<1>1. CASE Expired(s)
    BY <1>1, EndingKeeps DEF UpdateSessionSecurity
<1>2. CASE ~Expired(s)
    <2>1. /\ conv' \in [Sessions -> Conv]
          /\ \A o \in Sessions : o # s => conv'[o] = conv[o]
          /\ conv'[s].state = conv[s].state /\ conv'[s].owner = conv[s].owner
          /\ conv'[s].deadline = PolicyDeadline(s, mode)
        BY <1>0, <1>2, EditIsLocal, ZenonT(60) DEF UpdateSessionSecurity
    <2>2. /\ conv[s].deadline \in Nat /\ conv[s].deadline > clock
          /\ PolicyDeadline(s, mode) \in Nat
        BY <1>0, <1>2, PolicyOnlyShortens
    <2>3. TypeOK'
        BY <1>0, <1>2, <2>1 DEF TypeOK, UpdateSessionSecurity
    <2>4. TurnsAreSound'
        <3>. SUFFICES ASSUME NEW t \in Turns PROVE SoundTurn(t)'
            BY DEF TurnsAreSound
        <3>1. SoundTurn(t)
            BY DEF IInv, TurnsAreSound
        <3>2. turn[t].pc # "idle" =>
                  /\ turn[t].in \in Sessions /\ conv[turn[t].in].state # "none"
                  /\ conv[turn[t].in].owner = turn[t].who
            BY <3>1 DEF SoundTurn, OwnsItsConversation
        <3>3. turn[t].pc \in Locking => turn[t].in # s
            <4>1. conv[s].owner \in Owners
                BY <1>0, FieldTypes
            <4>. QED
                BY <3>2, <4>1, FreeIsIdle DEF Locking, UpdateSessionSecurity
        <3>4. turn[t].pc # "idle" => /\ conv'[turn[t].in].state # "none"
                                     /\ conv'[turn[t].in].owner = conv[turn[t].in].owner
            BY <2>1, <3>2
        <3>5. turn[t].pc \in Locking => /\ conv'[turn[t].in] = conv[turn[t].in]
                                        /\ conv[turn[t].in].state = "live"
            BY <2>1, <3>1, <3>2, <3>3 DEF SoundTurn, CheckStillHolds, Locking
        <3>. QED
            BY <1>2, <3>1, <3>4, <3>5, TurnKept DEF UpdateSessionSecurity
    <2>5. ConversationsAreSound' /\ SlotsAreCounted'
        <3>1. \A o \in Sessions :
                  /\ msgs'[o] = msgs[o]
                  /\ conv'[o].state # "live" => conv[o].state # "live"
            BY <1>2, <2>1 DEF UpdateSessionSecurity
        <3>. QED
            BY <3>1, OthersKept DEF UpdateSessionSecurity
    <2>6. SweepIsSound'
        <3>1. \A o \in Sessions : o # s => SoundSweep(o)'
            BY <2>1 DEF IInv, SweepIsSound, SoundSweep, UpdateSessionSecurity
        <3>2. SoundSweep(s) /\ conv[s].state = "live"
            BY DEF IInv, SweepIsSound, UpdateSessionSecurity
        <3>3. SoundSweep(s)'
            BY <1>0, <2>1, <2>2, <3>2, Limits, FieldTypes, SMTT(60) DEF SoundSweep, UpdateSessionSecurity
        <3>. QED
            BY <3>1, <3>3 DEF SweepIsSound, UpdateSessionSecurity, IInv
    <2>. QED
        BY <2>3, <2>4, <2>5, <2>6 DEF IInv
<1>. QED
    BY <1>1, <1>2

\* delete_session waits for the turns of its account.
LEMMA DeleteKeeps ==
    ASSUME IInv, NEW s \in Sessions, DeleteSession(s)
    PROVE  IInv'
BY EndingKeeps DEF DeleteSession

\* Turns and their conversations do not notice the day, nor what the sweep reads.
LEMMA TurnsUntouched ==
    ASSUME IInv, UNCHANGED <<stamp, client, consent, conv, msgs, lock, turn, active>>
    PROVE  TurnsAreSound' /\ ConversationsAreSound' /\ SlotsAreCounted'
<1>1. TurnsAreSound'
    BY DEF IInv, TurnsAreSound, SoundTurn, HoldsItsLock, OwnsItsConversation, CheckStillHolds,
           SentIsCovered, QuotaExceeded, Egress, DlpPasses, Effective
<1>2. ConversationsAreSound'
    BY DEF IInv, ConversationsAreSound, WholeExchanges, StoredOnce
<1>3. SlotsAreCounted'
    BY SlotsKept DEF IInv
<1>. QED
    BY <1>1, <1>2, <1>3

\* A day passes.
LEMMA TickKeeps ==
    ASSUME IInv, Tick
    PROVE  IInv'
<1>0. TypeOK
    BY DEF IInv
<1>1. clock' \in 0..MaxClock /\ clock' \in Nat /\ clock <= clock'
    BY <1>0, Limits DEF TypeOK, Tick
<1>2. TypeOK'
    BY <1>0, <1>1 DEF TypeOK, Tick
<1>3. SweepIsSound'
    <2>1. \A s \in Sessions : SoundSweep(s)'
        BY <1>0, <1>1, SweepKept DEF IInv, SweepIsSound, Tick
    <2>2. sweep.now <= clock'
        BY <1>0, <1>1, FieldTypes DEF IInv, SweepIsSound
    <2>. QED
        BY <2>1, <2>2 DEF SweepIsSound, Tick
<1>. QED
    BY <1>2, <1>3, TurnsUntouched DEF IInv, Tick

\* The sweep reads the rows that have no deadline.
LEMMA BackfillReadKeeps ==
    ASSUME IInv, BackfillRead
    PROVE  IInv'
<1>0. TypeOK
    BY DEF IInv
<1>1. \A s \in Sessions : conv[s].created + Days(conv[s].mode) \in Nat
    BY <1>0, DaysNat, FieldTypes
<1>2. TypeOK'
    <2>1. [s \in Sessions |-> IF conv[s].state = "live" /\ conv[s].deadline = None
                              THEN conv[s].created + Days(conv[s].mode) ELSE None]
              \in [Sessions -> Nat \cup {None}]
        BY <1>1
    <2>2. sweep' \in [pc : {"idle", "fill", "delete"}, now : 0..MaxClock,
                      rows : [Sessions -> Nat \cup {None}]]
        BY <1>0, <2>1 DEF BackfillRead, TypeOK
    <2>. QED
        BY <1>0, <2>2 DEF TypeOK, BackfillRead
<1>3. SweepIsSound'
    <2>1. /\ sweep'.pc = "fill" /\ sweep'.now = clock
          /\ \A s \in Sessions :
                sweep'.rows[s] = IF conv[s].state = "live" /\ conv[s].deadline = None
                                 THEN conv[s].created + Days(conv[s].mode) ELSE None
        BY DEF BackfillRead
    <2>2. \A s \in Sessions : sweep'.rows[s] # None <=> conv[s].state = "live" /\ conv[s].deadline = None
        BY <1>1, <2>1, Limits
    <2>3. \A s \in Sessions : SoundSweep(s)'
        BY <2>1, <2>2 DEF SoundSweep, BackfillRead
    <2>. QED
        BY <1>0, <2>1, <2>3, FieldTypes DEF SweepIsSound, BackfillRead
<1>. QED
    BY <1>2, <1>3, TurnsUntouched DEF IInv, BackfillRead

\* The sweep is over.
LEMMA SweepEnds ==
    ASSUME TypeOK, sweep' = NoSweep, clock' = clock
    PROVE  /\ SweepIsSound'
           /\ sweep' \in [pc : {"idle", "fill", "delete"}, now : 0..MaxClock,
                          rows : [Sessions -> Nat \cup {None}]]
<1>1. sweep'.pc = "idle" /\ sweep'.now = 0 /\ \A s \in Sessions : sweep'.rows[s] = None
    BY DEF NoSweep
<1>2. SweepIsSound'
    BY <1>1, FieldTypes DEF SweepIsSound, SoundSweep
<1>. QED
    BY <1>2, Limits DEF NoSweep

\* The backfill meets a row that is gone.
LEMMA BackfillFailsKeeps ==
    ASSUME IInv, BackfillFails
    PROVE  IInv'
<1>1. TypeOK' /\ SweepIsSound'
    BY SweepEnds DEF IInv, BackfillFails, TypeOK
<1>. QED
    BY <1>1, TurnsUntouched DEF IInv, BackfillFails

\* No turn past its checks is about a conversation that is not busy.
LEMMA BusyOrNot ==
    ASSUME NEW s, ~Busy(s), NEW t \in Turns, turn[t].pc \in Locking
    PROVE  turn[t].in # s
BY DEF Busy, Locking

\* The backfill writes deadlines, and selects what has expired.
LEMMA BackfillWriteKeeps ==
    ASSUME IInv, BackfillWrite
    PROVE  IInv'
<1>0. TypeOK
    BY DEF IInv
<1>. DEFINE filled == [s \in Sessions |-> IF sweep.rows[s] # None
                                          THEN [conv[s] EXCEPT !.deadline = sweep.rows[s]]
                                          ELSE conv[s]]
            late(s) == /\ filled[s].state = "live"
                       /\ filled[s].deadline = None \/ filled[s].deadline <= sweep.now
            chosen == [s \in Sessions |-> IF late(s) THEN sweep.now ELSE None]
<1>1. /\ conv' = filled /\ sweep.pc = "fill"
      /\ sweep' = [sweep EXCEPT !.pc = "delete", !.rows = chosen]
    BY DEF BackfillWrite
<1>2. \A s \in Sessions : /\ filled[s] \in Conv
                          /\ filled[s].state = conv[s].state /\ filled[s].owner = conv[s].owner
                          /\ filled[s].mode = conv[s].mode /\ filled[s].class = conv[s].class
                          /\ filled[s].deadline = IF sweep.rows[s] # None THEN sweep.rows[s]
                                                  ELSE conv[s].deadline
    <2>. SUFFICES ASSUME NEW s \in Sessions
                  PROVE  /\ filled[s] \in Conv
                         /\ filled[s].state = conv[s].state /\ filled[s].owner = conv[s].owner
                         /\ filled[s].mode = conv[s].mode /\ filled[s].class = conv[s].class
                         /\ filled[s].deadline = IF sweep.rows[s] # None THEN sweep.rows[s]
                                                 ELSE conv[s].deadline
        OBVIOUS
    <2>1. conv[s] \in Conv /\ sweep.rows[s] \in Nat \cup {None}
        BY <1>0, FieldTypes DEF TypeOK
    <2>2. CASE sweep.rows[s] # None
        BY <2>1, <2>2 DEF Conv
    <2>3. CASE sweep.rows[s] = None
        BY <2>1, <2>3
    <2>. QED
        BY <2>2, <2>3
<1>3. filled \in [Sessions -> Conv]
    BY <1>2
<1>4. sweep.now \in 0..MaxClock /\ sweep.now \in Nat /\ clock \in Nat
    BY <1>0, FieldTypes DEF TypeOK
<1>5. chosen \in [Sessions -> Nat \cup {None}]
    BY <1>4
<1>6. sweep'.pc = "delete" /\ sweep'.now = sweep.now /\ sweep'.rows = chosen
    BY <1>0, <1>1, SMTT(60) DEF TypeOK
<1>7. TypeOK'
    <2>1. sweep' \in [pc : {"idle", "fill", "delete"}, now : 0..MaxClock,
                      rows : [Sessions -> Nat \cup {None}]]
        BY <1>0, <1>1, <1>5, ZenonT(60) DEF TypeOK
    <2>. QED
        BY <1>0, <1>1, <1>3, <2>1, ZenonT(60) DEF TypeOK, BackfillWrite
<1>. HIDE DEF filled
<1>8. TurnsAreSound'
    <2>. SUFFICES ASSUME NEW t \in Turns PROVE SoundTurn(t)'
        BY DEF TurnsAreSound
    <2>1. SoundTurn(t)
        BY DEF IInv, TurnsAreSound
    <2>2. turn[t].pc # "idle" => turn[t].in \in Sessions /\ conv[turn[t].in].state # "none"
        BY <2>1 DEF SoundTurn, OwnsItsConversation
    <2>3. turn[t].pc # "idle" => /\ conv'[turn[t].in].state # "none"
                                 /\ conv'[turn[t].in].owner = conv[turn[t].in].owner
        BY <1>1, <1>2, <2>2
    <2>4. turn[t].pc \in Locking => /\ conv'[turn[t].in].state = "live"
                                    /\ conv'[turn[t].in].mode = conv[turn[t].in].mode
                                    /\ conv'[turn[t].in].class = conv[turn[t].in].class
        BY <1>1, <1>2, <2>1, <2>2 DEF SoundTurn, CheckStillHolds, Locking
    <2>. QED
        BY <2>1, <2>3, <2>4, TurnKept DEF BackfillWrite
<1>9. ConversationsAreSound' /\ SlotsAreCounted'
    <2>1. \A s \in Sessions : msgs'[s] = msgs[s] /\ conv'[s].state = conv[s].state
        BY <1>1, <1>2 DEF BackfillWrite
    <2>2. SlotsAreCounted'
        BY SlotsKept DEF IInv, BackfillWrite
    <2>3. ConversationsAreSound'
        BY <1>0, <2>1, ConversationKept DEF IInv, ConversationsAreSound, BackfillWrite
    <2>. QED
        BY <2>2, <2>3
<1>10. SweepIsSound'
    <2>. SUFFICES ASSUME NEW s \in Sessions PROVE SoundSweep(s)'
        BY <1>6 DEF IInv, SweepIsSound, BackfillWrite
    <2>1. SoundSweep(s) /\ sweep.now <= clock
        BY DEF IInv, SweepIsSound
    <2>2. conv[s].state = "live" => filled[s].deadline # None /\ filled[s].deadline \in Nat
        BY <1>0, <1>1, <1>2, <2>1, FieldTypes DEF SoundSweep
    <2>3. chosen[s] # None => filled[s].state = "live" /\ (filled[s].deadline = None \/ filled[s].deadline <= sweep.now)
        OBVIOUS
    <2>4. conv'[s] = filled[s] /\ sweep'.rows[s] = chosen[s] /\ sweep'.pc = "delete" /\ clock' = clock
        BY <1>1, <1>6 DEF BackfillWrite
    <2>. HIDE DEF chosen
    <2>. QED
        BY <1>2, <1>4, <2>1, <2>2, <2>3, <2>4 DEF SoundSweep
<1>. QED
    BY <1>7, <1>8, <1>9, <1>10 DEF IInv

\* The sweep waits for whoever holds a row that it deletes.
LEMMA SweepDeleteKeeps ==
    ASSUME IInv, SweepDelete
    PROVE  IInv'
<1>0. TypeOK
    BY DEF IInv
<1>1. \A s \in Sessions :
          /\ sweep.rows[s] = None => conv'[s] = conv[s] /\ msgs'[s] = msgs[s]
          /\ sweep.rows[s] # None => /\ ~Busy(s) /\ msgs'[s] = <<>>
                                     /\ conv'[s] = [conv[s] EXCEPT !.state = "gone"]
    BY DEF SweepDelete, SweepWaits
<1>2. \A s \in Sessions : /\ conv'[s] \in Conv /\ msgs'[s] \in Seq(Msg)
                          /\ conv'[s].owner = conv[s].owner
                          /\ sweep.rows[s] # None => conv'[s].state = "gone"
    <2>. SUFFICES ASSUME NEW s \in Sessions
                  PROVE  /\ conv'[s] \in Conv /\ msgs'[s] \in Seq(Msg)
                         /\ conv'[s].owner = conv[s].owner
                         /\ sweep.rows[s] # None => conv'[s].state = "gone"
        OBVIOUS
    <2>1. conv[s] \in Conv /\ msgs[s] \in Seq(Msg)
        BY <1>0 DEF TypeOK
    <2>2. [conv[s] EXCEPT !.state = "gone"] \in Conv
        BY <2>1 DEF Conv
    <2>3. /\ [conv[s] EXCEPT !.state = "gone"].state = "gone"
          /\ [conv[s] EXCEPT !.state = "gone"].owner = conv[s].owner
        BY <2>1 DEF Conv
    <2>4. <<>> \in Seq(Msg)
        OBVIOUS
    <2>. QED
        BY <1>1, <2>1, <2>2, <2>3, <2>4
<1>3. conv' \in [Sessions -> Conv] /\ msgs' \in [Sessions -> Seq(Msg)]
    BY <1>2 DEF SweepDelete
<1>4. SweepIsSound' /\ TypeOK'
    BY <1>0, <1>3, SweepEnds DEF SweepDelete, TypeOK
<1>5. TurnsAreSound'
    <2>. SUFFICES ASSUME NEW t \in Turns PROVE SoundTurn(t)'
        BY DEF TurnsAreSound
    <2>1. SoundTurn(t)
        BY DEF IInv, TurnsAreSound
    <2>2. turn[t].pc # "idle" => turn[t].in \in Sessions /\ conv[turn[t].in].state # "none"
        BY <2>1 DEF SoundTurn, OwnsItsConversation
    <2>3. turn[t].pc # "idle" => /\ conv'[turn[t].in].state # "none"
                                 /\ conv'[turn[t].in].owner = conv[turn[t].in].owner
        BY <1>1, <1>2, <2>2
    <2>4. turn[t].pc \in Locking => sweep.rows[turn[t].in] = None
        BY <1>1, <2>2, BusyOrNot DEF Locking
    <2>5. turn[t].pc \in Locking => /\ conv'[turn[t].in] = conv[turn[t].in]
                                    /\ msgs'[turn[t].in] = msgs[turn[t].in]
                                    /\ conv[turn[t].in].state = "live"
        BY <1>1, <2>1, <2>2, <2>4 DEF SoundTurn, CheckStillHolds, Locking
    <2>. QED
        BY <2>1, <2>3, <2>5, TurnKept DEF SweepDelete
<1>6. ConversationsAreSound'
    <2>1. \A s \in Sessions :
              /\ msgs'[s] = msgs[s] \/ msgs'[s] = <<>>
              /\ conv'[s].state # "live" => conv[s].state # "live" \/ msgs'[s] = <<>>
        BY <1>1
    <2>. QED
        BY <1>0, <2>1, ConversationKept DEF IInv, ConversationsAreSound, SweepDelete
<1>7. SlotsAreCounted'
    BY SlotsKept DEF IInv, SweepDelete
<1>. QED
    BY <1>4, <1>5, <1>6, <1>7 DEF IInv

-----------------------------------------------------------------------------
(* The steps of a turn.                                                    *)

\* The sweep does not notice what turns do.
LEMMA SweepUntouched ==
    ASSUME IInv, UNCHANGED <<clock, conv, sweep>>
    PROVE  SweepIsSound'
BY DEF IInv, SweepIsSound, SoundSweep

\* A message is admitted.
LEMMA AdmitKeeps ==
    ASSUME IInv, NEW t \in Turns, NEW a \in Owners, NEW s \in Sessions,
           NEW x \in BOOLEAN, NEW y \in BOOLEAN, NEW z \in BOOLEAN, Admit(t, a, s, x, y, z)
    PROVE  IInv'
<1>0. TypeOK
    BY DEF IInv
<1>. DEFINE new == [pc |-> "waiting", who |-> a, in |-> s, sanitize |-> x, confirmed |-> y,
                    secret |-> z, sent |-> {}]
<1>1. new \in Turn /\ new.pc = "waiting" /\ new.who = a /\ new.in = s /\ new.sent = {}
    BY DEF Turn
<1>. HIDE DEF new
<1>2. turn' = [turn EXCEPT ![t] = new]
    BY DEF Admit, new
<1>3. turn' \in [Turns -> Turn] /\ turn'[t] = new /\ \A o \in Turns : o # t => turn'[o] = turn[o]
    BY <1>0, <1>1, <1>2 DEF TypeOK
<1>4. TypeOK'
    BY <1>0, <1>3 DEF TypeOK, Admit
<1>5. TurnsAreSound'
    <2>1. ASSUME NEW o \in Turns, o # t PROVE SoundTurn(o)'
        <3>1. SoundTurn(o) /\ turn'[o] = turn[o]
            BY <1>3, <2>1 DEF IInv, TurnsAreSound
        <3>2. turn[o].pc # "idle" => conv[turn[o].in].state # "none"
            BY <3>1 DEF SoundTurn, OwnsItsConversation
        <3>3. turn[o].pc \in Locking => conv[turn[o].in].state = "live"
            BY <3>1 DEF SoundTurn, CheckStillHolds
        <3>. QED
            BY <3>1, <3>2, <3>3, TurnKept DEF Admit
    <2>2. SoundTurn(t)'
        <3>1. \A b \in Owners : lock'[b] # t
            BY DEF IInv, TurnsAreSound, SoundTurn, HoldsItsLock, Locking, Admit
        <3>2. HoldsItsLock(t)' /\ CheckStillHolds(t)' /\ SentIsCovered(t)'
            BY <1>1, <1>3, <3>1 DEF HoldsItsLock, CheckStillHolds, SentIsCovered, Locking
        <3>3. OwnsItsConversation(t)'
            BY <1>1, <1>3 DEF OwnsItsConversation, Admit
        <3>. QED
            BY <3>2, <3>3 DEF SoundTurn
    <2>. QED
        BY <2>1, <2>2 DEF TurnsAreSound
<1>6. ConversationsAreSound'
    <2>1. \A o \in Turns : turn[o].pc = "over" => turn'[o].pc = "over"
        BY <1>3 DEF Admit
    <2>. QED
        BY <1>0, <2>1, ConversationKept DEF IInv, ConversationsAreSound, Admit
<1>7. SlotsAreCounted'
    <2>1. \A o \in Turns : turn'[o].pc = "asking" <=> turn[o].pc = "asking"
        BY <1>1, <1>3 DEF Admit
    <2>. QED
        BY <2>1, SlotsKept DEF IInv, Admit
<1>8. SweepIsSound'
    BY SweepUntouched DEF Admit
<1>. QED
    BY <1>4, <1>5, <1>6, <1>7, <1>8 DEF IInv

\* A turn takes its lock, or is refused without one; a conversation whose deadline
\* has passed is deleted on the way.
LEMMA LockAndCheckKeeps ==
    ASSUME IInv, NEW t \in Turns, LockAndCheck(t)
    PROVE  IInv'
<1>. DEFINE a == turn[t].who
            s == turn[t].in
            ends == conv[s].state = "live" /\ Expired(s)
<1>0. TypeOK
    BY DEF IInv
<1>1. turn[t].pc = "waiting" /\ Free(a) /\ a \in Owners /\ s \in Sessions
      /\ conv[s].state # "none" /\ conv[s].owner = a
    BY DEF LockAndCheck, IInv, TurnsAreSound, SoundTurn, OwnsItsConversation
<1>2. PICK pc \in {"ready", "over"} :
          /\ turn' = [turn EXCEPT ![t].pc = pc]
          /\ pc = "over" => lock' = lock
          /\ pc = "ready" => /\ ~ends /\ conv[s].state = "live" /\ conv[s].mode # "private_e2ee"
                             /\ ~QuotaExceeded(s)
                             /\ client => Egress(t)
                             /\ lock' = [lock EXCEPT ![a] = t]
    <2>1. CASE Over(t) /\ UNCHANGED lock
        BY <2>1 DEF Over
    <2>2. CASE /\ conv[s].state = "live" /\ ~Expired(s) /\ conv[s].mode # "private_e2ee"
               /\ ~QuotaExceeded(s)
               /\ client => Egress(t)
               /\ turn' = [turn EXCEPT ![t].pc = "ready"]
               /\ lock' = [lock EXCEPT ![a] = t]
        BY <2>2
    <2>. QED
        BY <2>1, <2>2 DEF LockAndCheck
<1>3. /\ turn' \in [Turns -> Turn]
      /\ \A o \in Turns : o # t => turn'[o] = turn[o]
      /\ turn'[t].pc = pc /\ turn'[t].who = turn[t].who /\ turn'[t].in = turn[t].in
      /\ turn'[t].sanitize = turn[t].sanitize /\ turn'[t].confirmed = turn[t].confirmed
      /\ turn'[t].secret = turn[t].secret /\ turn'[t].sent = turn[t].sent
    BY <1>0, <1>2, MoveIsLocal
<1>4. /\ conv' \in [Sessions -> Conv] /\ msgs' \in [Sessions -> Seq(Msg)]
      /\ \A o \in Sessions : o # s => conv'[o] = conv[o] /\ msgs'[o] = msgs[o]
      /\ conv'[s].owner = conv[s].owner /\ conv'[s].deadline = conv[s].deadline
      /\ ~ends => conv' = conv /\ msgs' = msgs
      /\ ends => conv'[s].state = "gone" /\ msgs'[s] = <<>>
    <2>1. CASE ends
        BY <1>0, <1>1, <2>1, GoneIsLocal DEF LockAndCheck
    <2>2. CASE ~ends
        BY <1>0, <2>2 DEF LockAndCheck, TypeOK
    <2>. QED
        BY <2>1, <2>2
<1>5. lock' \in [Owners -> Turns \cup {None}]
    BY <1>0, <1>2 DEF TypeOK
<1>6. UNCHANGED <<clock, stamp, client, consent, active, sweep>>
    BY DEF LockAndCheck
<1>7. TypeOK'
    BY <1>0, <1>3, <1>4, <1>5, <1>6 DEF TypeOK
<1>8. \A o \in Turns, b \in Owners : o # t => (lock'[b] = o <=> lock[b] = o)
    BY <1>0, <1>1, <1>2, Limits DEF TypeOK, Free
<1>. HIDE DEF a, s, ends
<1>9. TurnsAreSound'
    <2>1. ASSUME NEW o \in Turns, o # t PROVE SoundTurn(o)'
        <3>1. SoundTurn(o) /\ turn'[o] = turn[o]
            BY <1>3, <2>1 DEF IInv, TurnsAreSound
        <3>2. turn[o].pc # "idle" =>
                  /\ turn[o].in \in Sessions /\ conv[turn[o].in].state # "none"
                  /\ conv[turn[o].in].owner = turn[o].who
            BY <3>1 DEF SoundTurn, OwnsItsConversation
        <3>3. turn[o].pc # "idle" => /\ conv'[turn[o].in].state # "none"
                                     /\ conv'[turn[o].in].owner = conv[turn[o].in].owner
            BY <1>4, <3>2
        <3>4. turn[o].pc \in Locking => turn[o].in # s
            BY <1>1, <3>2, FreeIsIdle DEF Locking
        <3>5. turn[o].pc \in Locking => /\ conv'[turn[o].in] = conv[turn[o].in]
                                        /\ msgs'[turn[o].in] = msgs[turn[o].in]
                                        /\ conv[turn[o].in].state = "live"
            BY <1>4, <3>1, <3>2, <3>4 DEF SoundTurn, CheckStillHolds, Locking
        <3>. QED
            BY <1>6, <1>8, <2>1, <3>1, <3>3, <3>5, TurnKept
    <2>2. SoundTurn(t)'
        <3>1. \A b \in Owners : lock[b] # t
            BY <1>1 DEF IInv, TurnsAreSound, SoundTurn, HoldsItsLock, Locking
        <3>2. HoldsItsLock(t)'
            <4>1. CASE pc = "over"
                BY <1>2, <1>3, <3>1, <4>1 DEF HoldsItsLock, Locking
            <4>2. CASE pc = "ready"
                <5>1. lock'[a] = t /\ \A b \in Owners : b # a => lock'[b] = lock[b]
                    BY <1>0, <1>1, <1>2, <4>2 DEF TypeOK
                <5>2. turn'[t].who = a /\ turn'[t].pc \in Locking
                    BY <1>3, <4>2 DEF a, Locking
                <5>. QED
                    BY <3>1, <5>1, <5>2 DEF HoldsItsLock
            <4>. QED
                BY <4>1, <4>2
        <3>3. OwnsItsConversation(t)'
            BY <1>1, <1>3, <1>4 DEF OwnsItsConversation, a, s
        <3>4. SentIsCovered(t)'
            <4>1. turn[t].sent = {}
                BY <1>1 DEF IInv, TurnsAreSound, SoundTurn, SentIsCovered
            <4>. QED
                BY <1>3, <4>1 DEF SentIsCovered
        <3>5. CheckStillHolds(t)'
            <4>. SUFFICES ASSUME pc = "ready" PROVE CheckStillHolds(t)'
                BY <1>3 DEF CheckStillHolds, Locking
            <4>1. conv' = conv /\ msgs' = msgs
                BY <1>2, <1>4
            <4>2. Egress(t)' = Egress(t)
                BY <1>3, <1>6, <4>1 DEF Egress, DlpPasses, Effective
            <4>3. QuotaExceeded(turn[t].in)' = QuotaExceeded(turn[t].in)
                BY <4>1, <1>3 DEF QuotaExceeded
            <4>4. /\ conv[turn[t].in].state = "live" /\ conv[turn[t].in].mode # "private_e2ee"
                  /\ ~QuotaExceeded(turn[t].in)
                  /\ client => Egress(t)
                BY <1>2 DEF s
            <4>. QED
                BY <1>3, <1>6, <4>1, <4>2, <4>3, <4>4 DEF CheckStillHolds
        <3>. QED
            BY <3>2, <3>3, <3>4, <3>5 DEF SoundTurn
    <2>. QED
        BY <2>1, <2>2 DEF TurnsAreSound
<1>10. ConversationsAreSound'
    <2>1. \A o \in Turns : turn[o].pc = "over" => turn'[o].pc = "over"
        BY <1>1, <1>3
    <2>2. \A o \in Sessions :
              /\ msgs'[o] = msgs[o] \/ msgs'[o] = <<>>
              /\ conv'[o].state # "live" => conv[o].state # "live" \/ msgs'[o] = <<>>
        BY <1>4
    <2>. QED
        BY <1>0, <2>1, <2>2, ConversationKept DEF IInv, ConversationsAreSound
<1>11. SlotsAreCounted'
    <2>1. \A o \in Turns : turn'[o].pc = "asking" <=> turn[o].pc = "asking"
        BY <1>1, <1>3
    <2>. QED
        BY <1>6, <2>1, SlotsKept DEF IInv
<1>12. SweepIsSound'
    <2>1. \A o \in Sessions : /\ conv'[o].state \in {conv[o].state, "gone"}
                              /\ conv'[o].deadline = conv[o].deadline
        BY <1>4
    <2>2. clock' \in Nat /\ clock <= clock'
        BY <1>0, <1>6, FieldTypes
    <2>3. \A o \in Sessions : SoundSweep(o)'
        BY <1>0, <1>6, <2>1, <2>2, SweepKept DEF IInv, SweepIsSound
    <2>. QED
        BY <1>6, <2>3 DEF IInv, SweepIsSound
<1>. QED
    BY <1>7, <1>9, <1>10, <1>11, <1>12 DEF IInv

\* A turn that is over has given its lock back, and no other turn loses or gets one.
LEMMA UnlockIsLocal ==
    ASSUME IInv, NEW t \in Turns, turn[t].pc \in Locking, lock' = Unlocked(t)
    PROVE  /\ lock' \in [Owners -> Turns \cup {None}]
           /\ \A o \in Turns, b \in Owners : o # t => (lock'[b] = o <=> lock[b] = o)
           /\ \A b \in Owners : lock'[b] # t
<1>1. /\ turn[t].who \in Owners /\ lock[turn[t].who] = t
      /\ \A b \in Owners : lock[b] = t => b = turn[t].who
    BY DEF IInv, TurnsAreSound, SoundTurn, HoldsItsLock, OwnsItsConversation, Locking
<1>2. lock \in [Owners -> Turns \cup {None}]
    BY DEF IInv, TypeOK
<1>3. lock' = [lock EXCEPT ![turn[t].who] = None]
    BY DEF Unlocked
<1>. QED
    BY <1>1, <1>2, <1>3, Limits

\* A turn that ends leaves all turns sound, if it writes only to its conversation.
LEMMA TurnEnds ==
    ASSUME IInv, NEW t \in Turns, turn[t].pc \in Locking, Over(t), lock' = Unlocked(t),
           UNCHANGED <<client, consent, conv>>,
           \A s \in Sessions : s # turn[t].in => msgs'[s] = msgs[s]
    PROVE  /\ turn' \in [Turns -> Turn] /\ lock' \in [Owners -> Turns \cup {None}]
           /\ \A o \in Turns : o # t => turn'[o] = turn[o]
           /\ turn'[t].pc = "over"
           /\ TurnsAreSound'
<1>1. /\ turn' \in [Turns -> Turn]
      /\ \A o \in Turns : o # t => turn'[o] = turn[o]
      /\ turn'[t].pc = "over" /\ turn'[t].who = turn[t].who /\ turn'[t].in = turn[t].in
    BY MoveIsLocal DEF Over, IInv
<1>2. /\ lock' \in [Owners -> Turns \cup {None}]
      /\ \A o \in Turns, b \in Owners : o # t => (lock'[b] = o <=> lock[b] = o)
      /\ \A b \in Owners : lock'[b] # t
    BY UnlockIsLocal
<1>3. ASSUME NEW o \in Turns, o # t PROVE SoundTurn(o)'
    <2>1. SoundTurn(o) /\ turn'[o] = turn[o]
        BY <1>1, <1>3 DEF IInv, TurnsAreSound
    <2>2. turn[o].pc # "idle" => turn[o].in \in Sessions /\ conv[turn[o].in].state # "none"
        BY <2>1 DEF SoundTurn, OwnsItsConversation
    <2>3. turn[o].pc \in Locking => /\ conv[turn[o].in].state = "live"
                                    /\ msgs'[turn[o].in] = msgs[turn[o].in]
        BY <1>3, <2>1, <2>2, OneTurnPerConversation DEF SoundTurn, CheckStillHolds, Locking
    <2>. QED
        BY <1>2, <1>3, <2>1, <2>2, <2>3, TurnKept
<1>4. SoundTurn(t)'
    <2>1. HoldsItsLock(t)' /\ CheckStillHolds(t)' /\ SentIsCovered(t)'
        BY <1>1, <1>2 DEF HoldsItsLock, CheckStillHolds, SentIsCovered, Locking
    <2>2. OwnsItsConversation(t)
        BY DEF IInv, TurnsAreSound, SoundTurn
    <2>3. OwnsItsConversation(t)'
        BY <1>1, <2>2 DEF OwnsItsConversation, Locking
    <2>. QED
        BY <2>1, <2>3 DEF SoundTurn
<1>. QED
    BY <1>1, <1>2, <1>3, <1>4 DEF TurnsAreSound

\* A turn that goes on with its lock stays sound, and so do the others.
LEMMA TurnGoesOn ==
    ASSUME IInv, NEW t \in Turns, turn[t].pc \in Locking, turn' \in [Turns -> Turn],
           \A o \in Turns : o # t => turn'[o] = turn[o],
           /\ turn'[t].pc \in Locking /\ turn'[t].who = turn[t].who /\ turn'[t].in = turn[t].in
           /\ turn'[t].sanitize = turn[t].sanitize /\ turn'[t].confirmed = turn[t].confirmed
           /\ turn'[t].secret = turn[t].secret,
           SentIsCovered(t)',
           UNCHANGED <<clock, stamp, client, consent, conv, msgs, lock, sweep>>,
           active' \in Nat, SlotsAreCounted'
    PROVE  IInv'
<1>1. TypeOK'
    BY DEF IInv, TypeOK
<1>2. TurnsAreSound'
    <2>1. ASSUME NEW o \in Turns, o # t PROVE SoundTurn(o)'
        <3>1. SoundTurn(o) /\ turn'[o] = turn[o]
            BY <2>1 DEF IInv, TurnsAreSound
        <3>2. turn[o].pc # "idle" => conv[turn[o].in].state # "none"
            BY <3>1 DEF SoundTurn, OwnsItsConversation
        <3>3. turn[o].pc \in Locking => conv[turn[o].in].state = "live"
            BY <3>1 DEF SoundTurn, CheckStillHolds
        <3>. QED
            BY <3>1, <3>2, <3>3, TurnKept
    <2>2. SoundTurn(t)
        BY DEF IInv, TurnsAreSound
    <2>3. HoldsItsLock(t)' /\ OwnsItsConversation(t)'
        BY <2>2 DEF SoundTurn, HoldsItsLock, OwnsItsConversation, Locking
    <2>4. Egress(t)' = Egress(t) /\ QuotaExceeded(turn[t].in)' = QuotaExceeded(turn[t].in)
        BY DEF Egress, DlpPasses, Effective, QuotaExceeded
    <2>5. CheckStillHolds(t)'
        BY <2>2, <2>4 DEF SoundTurn, CheckStillHolds
    <2>6. SoundTurn(t)'
        BY <2>3, <2>5 DEF SoundTurn
    <2>. QED
        BY <2>1, <2>6 DEF TurnsAreSound
<1>3. ConversationsAreSound'
    <2>1. \A o \in Turns : turn[o].pc = "over" => turn'[o].pc = "over"
        BY DEF Locking
    <2>2. TypeOK
        BY DEF IInv
    <2>. QED
        BY <2>1, <2>2, ConversationKept DEF IInv, ConversationsAreSound
<1>. QED
    BY <1>1, <1>2, <1>3, SweepUntouched DEF IInv

\* A call gives its slot back.
LEMMA SlotReturned ==
    ASSUME IInv, NEW t \in Turns, turn[t].pc = "asking", active' = active - 1,
           turn'[t].pc # "asking", \A o \in Turns : o # t => turn'[o] = turn[o]
    PROVE  active' \in Nat /\ SlotsAreCounted'
<1>1. Asking' = Asking \ {t} /\ t \in Asking
    BY DEF Asking
<1>2. IsFiniteSet(Asking) /\ active = Cardinality(Asking) /\ active <= Slots /\ active \in Nat
    BY DEF IInv, SlotsAreCounted, ProviderSlotsReturn, TypeOK
<1>3. /\ IsFiniteSet(Asking \ {t})
      /\ Cardinality(Asking \ {t}) = Cardinality(Asking) - 1
    BY <1>1, <1>2, FS_RemoveElement
<1>4. Cardinality(Asking \ {t}) \in Nat
    BY <1>3, FS_CardinalityType
<1>. QED
    BY <1>1, <1>2, <1>3, <1>4, Limits DEF SlotsAreCounted, ProviderSlotsReturn

\* A turn without a call ends, with the messages as they are.
LEMMA RefusalKeeps ==
    ASSUME IInv, NEW t \in Turns, turn[t].pc \in Locking, Over(t), lock' = Unlocked(t),
           UNCHANGED <<clock, stamp, client, consent, conv, msgs, sweep>>,
           active' \in Nat, SlotsAreCounted'
    PROVE  IInv'
<1>1. /\ turn' \in [Turns -> Turn] /\ lock' \in [Owners -> Turns \cup {None}]
      /\ \A o \in Turns : o # t => turn'[o] = turn[o]
      /\ turn'[t].pc = "over"
      /\ TurnsAreSound'
    BY TurnEnds
<1>2. TypeOK'
    BY <1>1 DEF IInv, TypeOK
<1>3. ConversationsAreSound'
    <2>1. \A o \in Turns : turn[o].pc = "over" => turn'[o].pc = "over"
        BY <1>1
    <2>2. TypeOK
        BY DEF IInv
    <2>. QED
        BY <2>1, <2>2, ConversationKept DEF IInv, ConversationsAreSound
<1>. QED
    BY <1>1, <1>2, <1>3, SweepUntouched DEF IInv

\* A turn gets a slot and its content leaves, or the demo answers, or it is refused.
LEMMA ClaimKeeps ==
    ASSUME IInv, NEW t \in Turns, Claim(t)
    PROVE  IInv'
<1>0. TypeOK /\ turn[t].pc = "ready" /\ turn[t].pc \in Locking /\ turn[t].sent = {}
    BY DEF IInv, Claim, Locking, TurnsAreSound, SoundTurn, SentIsCovered
<1>1. CASE ~client /\ turn' = [turn EXCEPT ![t].pc = "answered"] /\ UNCHANGED <<active, lock>>
    <2>1. /\ turn' \in [Turns -> Turn]
          /\ \A o \in Turns : o # t => turn'[o] = turn[o]
          /\ turn'[t].pc = "answered" /\ turn'[t].who = turn[t].who /\ turn'[t].in = turn[t].in
          /\ turn'[t].sanitize = turn[t].sanitize /\ turn'[t].confirmed = turn[t].confirmed
          /\ turn'[t].secret = turn[t].secret /\ turn'[t].sent = turn[t].sent
        BY <1>0, <1>1, MoveIsLocal
    <2>2. SlotsAreCounted'
        BY <1>0, <1>1, <2>1, SlotsKept DEF IInv
    <2>3. SentIsCovered(t)'
        BY <1>0, <2>1 DEF SentIsCovered
    <2>4. active' \in Nat /\ turn'[t].pc \in Locking
        BY <1>0, <1>1, <2>1 DEF TypeOK, Locking
    <2>. QED
        BY <1>0, <1>1, <2>1, <2>2, <2>3, <2>4, TurnGoesOn DEF Claim
<1>2. CASE /\ client /\ active < Slots
           /\ active' = active + 1
           /\ turn' = [turn EXCEPT ![t].pc = "asking", ![t].sent = Recent(t)]
           /\ UNCHANGED lock
    <2>1. /\ \A i \in Recent(t) : /\ i \in 1..Len(msgs[turn[t].in])
                                  /\ msgs[turn[t].in][i].at >= consent[turn[t].who].since
          /\ Recent(t) \in SUBSET Nat
        BY DEF Recent, AllRecent
    <2>. DEFINE old == Recent(t)
                row == [turn[t] EXCEPT !.pc = "asking", !.sent = old]
    <2>. HIDE DEF old
    <2>2. turn[t] \in Turn /\ row \in Turn
        BY <1>0, <2>1, ZenonT(60) DEF TypeOK, Turn, old
    <2>3. /\ row.pc = "asking" /\ row.who = turn[t].who /\ row.in = turn[t].in
          /\ row.sanitize = turn[t].sanitize /\ row.confirmed = turn[t].confirmed
          /\ row.secret = turn[t].secret /\ row.sent = old
        BY <2>2 DEF Turn
    <2>4. turn' = [turn EXCEPT ![t] = row]
        BY <1>0, <1>2 DEF TypeOK, old
    <2>. HIDE DEF row
    <2>5. turn' \in [Turns -> Turn] /\ turn'[t] = row /\ \A o \in Turns : o # t => turn'[o] = turn[o]
        BY <1>0, <2>2, <2>4 DEF TypeOK
    <2>6. SentIsCovered(t)'
        <3>1. /\ turn'[t].pc = "asking" /\ turn'[t].sent = Recent(t)
              /\ turn'[t].in = turn[t].in /\ turn'[t].who = turn[t].who
              /\ msgs' = msgs /\ consent' = consent
            BY <2>3, <2>5 DEF old, Claim
        <3>. QED
            BY <2>1, <3>1 DEF SentIsCovered
    <2>7. SlotsAreCounted' /\ active' \in Nat
        <3>1. Asking' = Asking \cup {t} /\ t \notin Asking
            BY <1>0, <2>3, <2>5 DEF Asking
        <3>2. IsFiniteSet(Asking) /\ active = Cardinality(Asking) /\ active \in Nat
            BY <1>0 DEF IInv, SlotsAreCounted, ProviderSlotsReturn, TypeOK
        <3>3. /\ IsFiniteSet(Asking \cup {t})
              /\ Cardinality(Asking \cup {t}) = Cardinality(Asking) + 1
            BY <3>1, <3>2, FS_AddElement
        <3>. QED
            BY <1>2, <3>1, <3>2, <3>3, Limits DEF SlotsAreCounted, ProviderSlotsReturn
    <2>8. turn'[t].pc \in Locking
        BY <2>3, <2>5 DEF Locking
    <2>. QED
        BY <1>0, <1>2, <2>3, <2>5, <2>6, <2>7, <2>8, TurnGoesOn DEF Claim
<1>3. CASE client /\ Over(t) /\ lock' = Unlocked(t) /\ UNCHANGED active
    <2>1. turn'[t].pc = "over" /\ \A o \in Turns : o # t => turn'[o] = turn[o]
        BY <1>0, <1>3, MoveIsLocal DEF Over
    <2>2. SlotsAreCounted' /\ active' \in Nat
        BY <1>0, <1>3, <2>1, SlotsKept DEF IInv, TypeOK
    <2>. QED
        BY <1>0, <1>3, <2>2, RefusalKeeps DEF Claim
<1>. QED
    BY <1>1, <1>2, <1>3 DEF Claim

\* An answer, or a failure, gives the slot back.
LEMMA AnswerKeeps ==
    ASSUME IInv, NEW t \in Turns, NEW ok \in BOOLEAN, Answer(t, ok)
    PROVE  IInv'
<1>0. TypeOK /\ turn[t].pc = "asking" /\ turn[t].pc \in Locking /\ active' = active - 1
    BY DEF IInv, Answer, Locking, Release
<1>1. CASE ok
    <2>1. turn' = [turn EXCEPT ![t].pc = "answered"] /\ UNCHANGED lock
        BY <1>1 DEF Answer
    <2>2. /\ turn' \in [Turns -> Turn]
          /\ \A o \in Turns : o # t => turn'[o] = turn[o]
          /\ turn'[t].pc = "answered" /\ turn'[t].who = turn[t].who /\ turn'[t].in = turn[t].in
          /\ turn'[t].sanitize = turn[t].sanitize /\ turn'[t].confirmed = turn[t].confirmed
          /\ turn'[t].secret = turn[t].secret /\ turn'[t].sent = turn[t].sent
        BY <1>0, <2>1, MoveIsLocal
    <2>3. active' \in Nat /\ SlotsAreCounted'
        BY <1>0, <2>2, SlotReturned
    <2>4. SentIsCovered(t)'
        <3>1. SentIsCovered(t) /\ msgs' = msgs /\ consent' = consent
            BY DEF IInv, TurnsAreSound, SoundTurn, Answer
        <3>. QED
            BY <1>0, <2>2, <3>1 DEF SentIsCovered
    <2>5. turn'[t].pc \in Locking
        BY <2>2 DEF Locking
    <2>. QED
        BY <1>0, <2>1, <2>2, <2>3, <2>4, <2>5, TurnGoesOn DEF Answer
<1>2. CASE ~ok
    <2>1. Over(t) /\ lock' = Unlocked(t)
        BY <1>2 DEF Answer
    <2>2. turn'[t].pc = "over" /\ \A o \in Turns : o # t => turn'[o] = turn[o]
        BY <1>0, <2>1, MoveIsLocal DEF Over
    <2>3. active' \in Nat /\ SlotsAreCounted'
        BY <1>0, <2>2, SlotReturned
    <2>. QED
        BY <1>0, <2>1, <2>3, RefusalKeeps DEF Answer
<1>. QED
    BY <1>1, <1>2

\* Two rows at the end of a sequence.
LEMMA PairAppended ==
    ASSUME NEW q \in Seq(Msg), NEW u \in Msg, NEW v \in Msg
    PROVE  /\ q \o <<u, v>> \in Seq(Msg)
           /\ Len(q) \in Nat /\ Len(q \o <<u, v>>) = Len(q) + 2
           /\ \A i \in 1..Len(q) : (q \o <<u, v>>)[i] = q[i]
           /\ (q \o <<u, v>>)[Len(q) + 1] = u /\ (q \o <<u, v>>)[Len(q) + 2] = v
OBVIOUS

\* The numbers after an even one.
LEMMA Parity ==
    ASSUME NEW n \in Nat, n % 2 = 0
    PROVE  (n + 1) % 2 = 1 /\ (n + 2) % 2 = 0
<1>1. (n + 1) % 2 = 1
    OBVIOUS
<1>2. (n + 2) % 2 = 0
    OBVIOUS
<1>. QED
    BY <1>1, <1>2

\* A whole exchange, of a turn that stored nothing before, at the end of a sequence
\* of whole exchanges.
LEMMA ExchangeAppended ==
    ASSUME NEW q \in Seq(Msg), Exchanges(q), NEW t \in Turns, NEW at \in Nat,
           \A i \in 1..Len(q) : q[i].by # t
    PROVE  Exchanges(q \o <<[role |-> "user", by |-> t, at |-> at],
                            [role |-> "assistant", by |-> t, at |-> at]>>)
<1>. DEFINE n == Len(q)
            u == [role |-> "user", by |-> t, at |-> at]
            v == [role |-> "assistant", by |-> t, at |-> at]
            p == q \o <<u, v>>
<1>a. u \in Msg /\ v \in Msg
    BY DEF Msg
<1>b. /\ n \in Nat /\ Len(p) = n + 2 /\ (\A i \in 1..n : p[i] = q[i])
      /\ p[n + 1] = u /\ p[n + 2] = v
    BY <1>a, PairAppended
<1>c. /\ n % 2 = 0
      /\ \A i \in 1..n : /\ q[i].role = (IF i % 2 = 1 THEN "user" ELSE "assistant")
                         /\ i % 2 = 1 => q[i + 1].by = q[i].by
      /\ \A i, j \in 1..n : q[i].by = q[j].by /\ q[i].role = q[j].role => i = j
      /\ \A i \in 1..n : q[i].by # t
    BY DEF Exchanges
<1>2. /\ p[n + 1].role = "user" /\ p[n + 2].role = "assistant"
      /\ p[n + 1].by = t /\ p[n + 2].by = t
    BY <1>b
<1>. HIDE DEF p, n
<1>1. /\ (n + 1) % 2 = 1 /\ (n + 2) % 2 = 0 /\ 1..Len(p) = 1..n \cup {n + 1, n + 2}
      /\ \A i \in 1..n : i % 2 = 1 => i + 1 \in 1..n
    <2>1. (n + 1) % 2 = 1 /\ (n + 2) % 2 = 0
        BY <1>b, <1>c, Parity
    <2>2. 1..Len(p) = 1..n \cup {n + 1, n + 2}
        BY <1>b, SMTT(60)
    <2>3. ASSUME NEW i \in 1..n, i % 2 = 1 PROVE i + 1 \in 1..n
        <3>1. i # n
            BY <1>c, <2>3
        <3>. QED
            BY <1>b, <3>1
    <2>. QED
        BY <2>1, <2>2, <2>3
<1>3. Len(p) % 2 = 0
    BY <1>b, <1>1
<1>4. ASSUME NEW i \in 1..Len(p)
      PROVE  /\ p[i].role = (IF i % 2 = 1 THEN "user" ELSE "assistant")
             /\ i % 2 = 1 => p[i + 1].by = p[i].by
    <2>1. CASE i \in 1..n
        BY <1>b, <1>c, <1>1, <2>1
    <2>2. CASE i = n + 1
        <3>1. i % 2 = 1 /\ i + 1 = n + 2
            BY <1>b, <1>1, <2>2
        <3>. QED
            BY <1>2, <2>2, <3>1
    <2>3. CASE i = n + 2
        BY <1>1, <1>2, <2>3
    <2>. QED
        BY <1>1, <2>1, <2>2, <2>3
<1>5. ASSUME NEW i \in 1..Len(p), NEW j \in 1..Len(p),
             p[i].by = p[j].by, p[i].role = p[j].role
      PROVE  i = j
    <2>1. CASE i \in 1..n /\ j \in 1..n
        BY <1>b, <1>c, <1>5, <2>1
    <2>2. CASE i \in 1..n /\ j \in {n + 1, n + 2}
        <3>1. p[i].by # t /\ p[j].by = t
            BY <1>b, <1>c, <1>2, <2>2
        <3>. QED
            BY <1>5, <3>1
    <2>3. CASE i \in {n + 1, n + 2} /\ j \in 1..n
        <3>1. p[j].by # t
            BY <1>b, <1>c, <2>3
        <3>2. p[i].by = t
            BY <1>2, <2>3
        <3>. QED
            BY <1>5, <3>1, <3>2
    <2>4. CASE i \in {n + 1, n + 2} /\ j \in {n + 1, n + 2}
        BY <1>2, <1>5, <2>4
    <2>. QED
        BY <1>1, <2>1, <2>2, <2>3, <2>4
<1>6. Exchanges(p)
    BY <1>3, <1>4, <1>5 DEF Exchanges
<1>. QED
    BY <1>6 DEF p

\* Both messages of an exchange are stored in one commit.
LEMMA StoreKeeps ==
    ASSUME IInv, NEW t \in Turns, Store(t)
    PROVE  IInv'
<1>s. PICK s \in Sessions : s = turn[t].in
    BY DEF IInv, Store, TurnsAreSound, SoundTurn, OwnsItsConversation
<1>. DEFINE q == msgs[s]
            u == [role |-> "user", by |-> t, at |-> stamp]
            v == [role |-> "assistant", by |-> t, at |-> stamp]
<1>0. TypeOK /\ turn[t].pc = "answered" /\ turn[t].pc \in Locking
    BY DEF IInv, Store, Locking
<1>1. u \in Msg /\ v \in Msg /\ q \in Seq(Msg)
    BY <1>0, FieldTypes DEF Msg
<1>2. msgs' = [msgs EXCEPT ![s] = q \o <<u, v>>]
    BY <1>s DEF Store
<1>3. /\ q \o <<u, v>> \in Seq(Msg)
      /\ Len(q) \in Nat /\ Len(q \o <<u, v>>) = Len(q) + 2
      /\ \A i \in 1..Len(q) : (q \o <<u, v>>)[i] = q[i]
      /\ (q \o <<u, v>>)[Len(q) + 1] = u /\ (q \o <<u, v>>)[Len(q) + 2] = v
    BY <1>1, PairAppended
<1>4. /\ msgs' \in [Sessions -> Seq(Msg)] /\ msgs'[s] = q \o <<u, v>>
      /\ \A o \in Sessions : o # s => msgs'[o] = msgs[o]
    BY <1>0, <1>2, <1>3, SMTT(60) DEF TypeOK
<1>5. /\ turn' \in [Turns -> Turn] /\ lock' \in [Owners -> Turns \cup {None}]
      /\ \A o \in Turns : o # t => turn'[o] = turn[o]
      /\ turn'[t].pc = "over"
      /\ TurnsAreSound'
    BY <1>s, <1>0, <1>4, TurnEnds DEF Store
<1>6. TypeOK'
    BY <1>0, <1>4, <1>5, SMTT(60) DEF TypeOK, Store
<1>7. ConversationsAreSound'
    <2>1. \A o \in Turns : turn[o].pc = "over" => turn'[o].pc = "over"
        BY <1>5
    <2>2. ASSUME NEW o \in Sessions, o # s PROVE WholeExchanges(o)' /\ StoredOnce(o)'
        <3>1. msgs'[o] = msgs[o] /\ conv' = conv
            BY <1>4, <2>2 DEF Store
        <3>. QED
            BY <1>0, <2>1, <3>1, ConversationKept DEF IInv, ConversationsAreSound
    <2>3. WholeExchanges(s)' /\ StoredOnce(s)'
        <3>1. WholeExchanges(s) /\ StoredOnce(s)
            BY <1>0 DEF IInv, ConversationsAreSound
        <3>2. \A i \in 1..Len(q) : q[i].by \in Turns /\ turn[q[i].by].pc = "over" /\ q[i].by # t
            BY <1>0, <1>1, <3>1, RowTypes DEF StoredOnce
        <3>3. conv[s].state = "live" /\ ~(Len(q) + 2 > Quota) /\ conv' = conv
            BY <1>s, <1>0 DEF IInv, TurnsAreSound, SoundTurn, CheckStillHolds, QuotaExceeded, Store
        <3>. DEFINE p == msgs'[s]
        <3>4. Exchanges(p)
            <4>1. Exchanges(q) /\ stamp \in Nat
                BY <1>0, <3>1, FieldTypes DEF WholeExchanges
            <4>2. \A i \in 1..Len(q) : q[i].by # t
                BY <3>2
            <4>. HIDE DEF q
            <4>3. Exchanges(q \o <<u, v>>)
                BY <1>1, <4>1, <4>2, ExchangeAppended
            <4>. QED
                BY <1>4, <4>3
        <3>5. Len(p) <= Quota
            BY <1>3, <1>4, <3>3, Limits
        <3>6. WholeExchanges(s)'
            BY <3>3, <3>4, <3>5 DEF WholeExchanges
        <3>7. StoredOnce(s)'
            <4>1. \A i \in 1..Len(q) : turn'[p[i].by].pc = "over"
                BY <1>3, <1>4, <2>1, <3>2, ZenonT(60)
            <4>2. p[Len(q) + 1].by = t /\ p[Len(q) + 2].by = t
                BY <1>3, <1>4
            <4>3. 1..Len(p) = 1..Len(q) \cup {Len(q) + 1, Len(q) + 2}
                BY <1>3, <1>4, SMTT(40)
            <4>. HIDE DEF p, q
            <4>4. \A i \in 1..Len(p) : turn'[p[i].by].pc = "over"
                BY <1>5, <4>1, <4>2, <4>3
            <4>. QED
                BY <4>4 DEF StoredOnce, p
        <3>. QED
            BY <3>6, <3>7
    <2>. QED
        BY <2>2, <2>3 DEF ConversationsAreSound
<1>8. SlotsAreCounted'
    <2>1. \A o \in Turns : turn'[o].pc = "asking" <=> turn[o].pc = "asking"
        BY <1>0, <1>5
    <2>. QED
        BY <2>1, SlotsKept DEF IInv, Store
<1>9. SweepIsSound'
    BY SweepUntouched DEF Store
<1>. QED
    BY <1>5, <1>6, <1>7, <1>8, <1>9 DEF IInv

\* A crash ends every turn, with its lock and its slot.
LEMMA CrashKeeps ==
    ASSUME IInv, Crash
    PROVE  IInv'
<1>0. TypeOK
    BY DEF IInv
<1>1. \A t \in Turns : /\ turn'[t] \in Turn
                       /\ turn'[t].pc \in {"idle", "over"}
                       /\ turn[t].pc = "over" => turn'[t].pc = "over"
                       /\ turn'[t].pc = "over" => /\ turn[t].pc # "idle"
                                                  /\ turn'[t].who = turn[t].who
                                                  /\ turn'[t].in = turn[t].in
    <2>. SUFFICES ASSUME NEW t \in Turns
                  PROVE  /\ turn'[t] \in Turn
                         /\ turn'[t].pc \in {"idle", "over"}
                         /\ turn[t].pc = "over" => turn'[t].pc = "over"
                         /\ turn'[t].pc = "over" => /\ turn[t].pc # "idle"
                                                    /\ turn'[t].who = turn[t].who
                                                    /\ turn'[t].in = turn[t].in
        OBVIOUS
    <2>1. turn[t] \in Turn
        BY <1>0 DEF TypeOK
    <2>2. Idle \in Turn /\ Idle.pc = "idle"
        BY DEF Idle, Turn
    <2>3. CASE turn[t].pc = "idle"
        <3>1. turn'[t] = Idle
            BY <2>3 DEF Crash
        <3>. QED
            BY <2>2, <2>3, <3>1
    <2>4. CASE turn[t].pc # "idle"
        <3>1. turn'[t] = [turn[t] EXCEPT !.pc = "over"]
            BY <2>4 DEF Crash
        <3>. QED
            BY <2>1, <2>4, <3>1 DEF Turn
    <2>. QED
        BY <2>3, <2>4
<1>2. turn' \in [Turns -> Turn]
    BY <1>1 DEF Crash
<1>3. lock' \in [Owners -> Turns \cup {None}] /\ \A t \in Turns, a \in Owners : lock'[a] # t
    BY Limits DEF Crash
<1>4. TypeOK'
    BY <1>0, <1>2, <1>3 DEF TypeOK, Crash
<1>5. TurnsAreSound'
    <2>. SUFFICES ASSUME NEW t \in Turns PROVE SoundTurn(t)'
        BY DEF TurnsAreSound
    <2>1. HoldsItsLock(t)' /\ CheckStillHolds(t)' /\ SentIsCovered(t)'
        BY <1>1, <1>3 DEF HoldsItsLock, CheckStillHolds, SentIsCovered, Locking
    <2>2. OwnsItsConversation(t) /\ conv' = conv
        BY DEF IInv, TurnsAreSound, SoundTurn, Crash
    <2>3. OwnsItsConversation(t)'
        BY <1>1, <2>2 DEF OwnsItsConversation
    <2>. QED
        BY <2>1, <2>3 DEF SoundTurn
<1>6. ConversationsAreSound'
    BY <1>0, <1>1, ConversationKept DEF IInv, ConversationsAreSound, Crash
<1>7. SlotsAreCounted'
    <2>1. Asking' = {}
        BY <1>1 DEF Asking
    <2>. QED
        BY <2>1, FS_EmptySet, Limits DEF SlotsAreCounted, ProviderSlotsReturn, Crash
<1>8. SweepIsSound'
    BY SweepUntouched DEF Crash
<1>. QED
    BY <1>4, <1>5, <1>6, <1>7, <1>8 DEF IInv

-----------------------------------------------------------------------------
(* The theorems.                                                           *)

\* Every step keeps the inductive invariant.
LEMMA NextKeeps == IInv /\ [Next]_vars => IInv'
<1>. SUFFICES ASSUME IInv, [Next]_vars PROVE IInv'
    OBVIOUS
<1>1. CASE UNCHANGED vars
    <2>1. TypeOK'
        BY <1>1 DEF vars, IInv, TypeOK
    <2>. QED
        BY <1>1, <2>1, TurnsUntouched, SweepUntouched DEF vars, IInv
<1>2. CASE Next
    <2>1. ASSUME NEW t \in Turns, TurnStep(t) PROVE IInv'
        BY <2>1, LockAndCheckKeeps, ClaimKeeps, StoreKeeps, AnswerKeeps DEF TurnStep
    <2>. QED
        BY <1>2, <2>1, TickKeeps, CrashKeeps, BackfillReadKeeps, BackfillWriteKeeps,
           BackfillFailsKeeps, SweepDeleteKeeps, ConsentKeeps, CreateKeeps, EditKeeps,
           DeleteKeeps, AdmitKeeps DEF Next
<1>. QED
    BY <1>1, <1>2

\* The inductive invariant of chat turns holds in every reachable state: a turn
\* between its checks and its commit holds its account's lock and everything its
\* checks found still holds.
THEOREM Invariance == Spec => []IInv
<1>. QED
    BY InitSound, NextKeeps, PTL DEF Spec

\* What the inductive invariant says of a turn whose content is at the provider.
LEMMA CoveredTurns == IInv => ConsentCoversEgress
<1>. SUFFICES ASSUME IInv, NEW t \in Turns, client, turn[t].pc \in {"asking", "answered"}
              PROVE  /\ consent[turn[t].who].on
                     /\ \A i \in turn[t].sent : msgs[turn[t].in][i].at >= consent[turn[t].who].since
                     /\ conv[turn[t].in].state = "live" /\ conv[turn[t].in].mode # "private_e2ee"
                     /\ conv[turn[t].in].class # "internal" => turn[t].confirmed
                     /\ Effective(t) = "highly_confidential" => turn[t].sanitize
    BY DEF ConsentCoversEgress
<1>1. SoundTurn(t) /\ turn[t].pc \in Locking
    BY DEF IInv, TurnsAreSound, Locking
<1>2. /\ conv[turn[t].in].state = "live" /\ conv[turn[t].in].mode # "private_e2ee"
      /\ consent[turn[t].who].on /\ DlpPasses(t)
    BY <1>1 DEF SoundTurn, CheckStillHolds, Egress
<1>3. \A i \in turn[t].sent : msgs[turn[t].in][i].at >= consent[turn[t].who].since
    BY <1>1 DEF SoundTurn, SentIsCovered
<1>4. turn[t].sanitize \/ Effective(t) # "highly_confidential"
    BY <1>2 DEF DlpPasses
<1>5. conv[turn[t].in].class # "internal" => turn[t].confirmed
    BY <1>2, <1>4 DEF DlpPasses, Effective
<1>. QED
    BY <1>2, <1>3, <1>4, <1>5

\* send_message: from the moment content leaves for the provider until the exchange
\* is stored, the owner's consent, the mode and the class of the conversation permit
\* what was sent, whatever the owner's other requests, crashes and the sweep do.
THEOREM ConsentAlwaysCovers == Spec => []ConsentCoversEgress
BY Invariance, CoveredTurns, PTL

\* chat and _ProviderCapacity: a conversation is always a sequence of whole
\* exchanges within its quota, and the provider's slots are held by calls in
\* progress, for any number of turns, accounts and conversations.
THEOREM ExchangesStayWhole == Spec => []ExchangeIsWhole
<1>1. IInv => ExchangeIsWhole
    BY DEF IInv, ExchangeIsWhole, ConversationsAreSound, SlotsAreCounted
<1>. QED
    BY <1>1, Invariance, PTL

\* What a step may do to the deadline of a conversation.
LEMMA StepKeepsDeadline == IInv /\ [Next]_vars => [DeadlineKept]_vars
<1>. SUFFICES ASSUME IInv, Next, NEW s \in Sessions, conv[s].state = "live"
              PROVE  /\ SweepDelete /\ conv'[s].state = "gone" =>
                           conv[s].deadline # None /\ conv[s].deadline <= clock
                     /\ conv[s].deadline # None =>
                           conv'[s].deadline # None /\ conv'[s].deadline <= conv[s].deadline
    BY DEF DeadlineKept
<1>0. TypeOK /\ SoundSweep(s)
    BY DEF IInv, SweepIsSound
<1>. USE <1>0
<1>1. ASSUME SweepDelete, conv'[s].state = "gone"
      PROVE  conv[s].deadline # None /\ conv[s].deadline <= clock
    <2>1. sweep.pc = "delete" /\ (sweep.rows[s] = None => conv'[s] = conv[s])
        BY <1>1 DEF SweepDelete
    <2>2. sweep.rows[s] # None
        BY <1>1, <2>1
    <2>. QED
        BY <2>1, <2>2 DEF SoundSweep
<1>2. ASSUME conv[s].deadline # None
      PROVE  conv'[s].deadline # None /\ conv'[s].deadline <= conv[s].deadline
    <2>0. conv[s].deadline \in Nat
        BY <1>2, FieldTypes
    <2>. SUFFICES \/ conv'[s].deadline = conv[s].deadline
                  \/ conv'[s].deadline \in Nat /\ conv'[s].deadline <= conv[s].deadline
        BY <2>0, Limits
    <2>1. ASSUME NEW o \in Sessions, Gone(o) PROVE conv'[s].deadline = conv[s].deadline
        BY <2>1, GoneIsLocal
    <2>2. CASE conv' = conv
        BY <2>2
    <2>3. CASE BackfillWrite
        <3>1. sweep.rows[s] = None
            BY <1>2, <2>3 DEF SoundSweep, BackfillWrite
        <3>. QED
            BY <2>3, <3>1 DEF BackfillWrite
    <2>4. CASE SweepDelete
        <3>1. conv'[s] = conv[s] \/ conv'[s] = [conv[s] EXCEPT !.state = "gone"]
            BY <2>4 DEF SweepDelete
        <3>2. conv[s] \in Conv
            BY DEF TypeOK
        <3>. QED
            BY <3>1, <3>2 DEF Conv
    <2>5. ASSUME NEW a \in Owners, NEW o \in Sessions, NEW mode \in Modes, NEW class \in Classes,
                 CreateSession(a, o, mode, class)
          PROVE  conv'[s].deadline = conv[s].deadline
        BY <2>5 DEF CreateSession, TypeOK
    <2>6. ASSUME NEW o \in Sessions, NEW mode \in Modes, NEW class \in Classes,
                 UpdateSessionSecurity(o, mode, class)
          PROVE  \/ conv'[s].deadline = conv[s].deadline
                 \/ conv'[s].deadline \in Nat /\ conv'[s].deadline <= conv[s].deadline
        <3>1. CASE Expired(o)
            BY <2>1, <2>6, <3>1 DEF UpdateSessionSecurity
        <3>2. CASE ~Expired(o)
            <4>1. conv' = [conv EXCEPT ![o].mode = mode, ![o].class = class,
                                       ![o].deadline = PolicyDeadline(o, mode)]
                BY <2>6, <3>2 DEF UpdateSessionSecurity
            <4>2. /\ \A r \in Sessions : r # o => conv'[r] = conv[r]
                  /\ conv'[o].deadline = PolicyDeadline(o, mode)
                BY <3>2, <4>1, EditIsLocal
            <4>. QED
                BY <3>2, <4>2, PolicyOnlyShortens
        <3>. QED
            BY <3>1, <3>2
    <2>7. ASSUME NEW t \in Turns, TurnStep(t) PROVE conv'[s].deadline = conv[s].deadline
        <3>1. CASE LockAndCheck(t)
            <4>1. turn[t].in \in Sessions
                BY <3>1 DEF LockAndCheck, IInv, TurnsAreSound, SoundTurn, OwnsItsConversation
            <4>. QED
                BY <2>1, <3>1, <4>1 DEF LockAndCheck
        <3>2. CASE ~LockAndCheck(t)
            BY <2>7, <3>2 DEF TurnStep, Claim, Store, Answer
        <3>. QED
            BY <3>1, <3>2
    <2>8. ASSUME NEW o \in Sessions, DeleteSession(o) PROVE conv'[s].deadline = conv[s].deadline
        BY <2>1, <2>8 DEF DeleteSession
    <2>9. CASE Tick \/ Crash \/ BackfillRead \/ BackfillFails
        BY <2>2, <2>9 DEF Tick, Crash, BackfillRead, BackfillFails
    <2>10. ASSUME NEW a \in Owners, NEW on \in BOOLEAN, UpdateAiConsent(a, on) PROVE conv' = conv
        BY <2>10 DEF UpdateAiConsent
    <2>11. ASSUME NEW t \in Turns, NEW a \in Owners, NEW o \in Sessions, NEW x \in BOOLEAN,
                  NEW y \in BOOLEAN, NEW z \in BOOLEAN, Admit(t, a, o, x, y, z)
           PROVE  conv' = conv
        BY <2>11 DEF Admit
    <2>. QED
        BY <2>2, <2>3, <2>4, <2>5, <2>6, <2>7, <2>8, <2>9, <2>10, <2>11 DEF Next
<1>. QED
    BY <1>1, <1>2

\* enforce_retention and update_session_security: the sweep, which takes no lock
\* before it deletes, removes only conversations whose deadline has passed, and no
\* step of anybody postpones a deadline.
THEOREM DeadlinesAreKept == Spec => RetentionIsKept
BY Invariance, StepKeepsDeadline, PTL DEF Spec, RetentionIsKept

-----------------------------------------------------------------------------
(* Numbers and sequences.                                                  *)

\* A set of numbers has a least one.
LEMMA LeastOf ==
    ASSUME NEW S \in SUBSET Nat, S # {}
    PROVE  \E x \in S : \A y \in S : x <= y
<1>1. PICK x \in S : \A y \in S : ~(<<y, x>> \in OpToRel(<, Nat))
    BY NatLessThanWellFounded, WFMin, Zenon
<1>2. \A y \in S : ~(y < x)
    <2>. SUFFICES ASSUME NEW y \in S, y < x PROVE FALSE
        OBVIOUS
    <2>1. <<y, x>> \in Nat \X Nat /\ <<y, x>>[1] = y /\ <<y, x>>[2] = x
        OBVIOUS
    <2>2. <<y, x>> \in OpToRel(<, Nat)
        BY <2>1 DEF OpToRel
    <2>. QED
        BY <1>1, <2>2
<1>. QED
    BY <1>2

\* A function over 1..n is a sequence.
LEMMA FunctionIsSeq ==
    ASSUME NEW S, NEW n \in Nat, NEW f \in [1..n -> S]
    PROVE  f \in Seq(S) /\ Len(f) = n
<1>1. f \in Seq(S)
    BY SeqDef
<1>. QED
    BY <1>1

-----------------------------------------------------------------------------
(* The place of a member of a finite set of numbers: how many are below.   *)

Below(S, r) == {q \in S : q < r}

\* What is below a member is counted, and is not all of the set.
LEMMA BelowCounts ==
    ASSUME NEW S \in SUBSET Nat, IsFiniteSet(S), NEW r
    PROVE  /\ IsFiniteSet(Below(S, r)) /\ Cardinality(Below(S, r)) \in Nat
           /\ Cardinality(S) \in Nat
           /\ r \in S => Cardinality(Below(S, r)) < Cardinality(S)
<1>1. Below(S, r) \in SUBSET S
    BY DEF Below
<1>2. /\ IsFiniteSet(Below(S, r))
      /\ Cardinality(Below(S, r)) <= Cardinality(S)
      /\ Cardinality(S) = Cardinality(Below(S, r)) => S = Below(S, r)
    BY <1>1, FS_Subset
<1>3. Cardinality(Below(S, r)) \in Nat /\ Cardinality(S) \in Nat
    BY <1>2, FS_CardinalityType
<1>4. r \in S => r \notin Below(S, r)
    BY DEF Below
<1>. QED
    BY <1>2, <1>3, <1>4

\* The greater of two members has more below it.
LEMMA BelowGrows ==
    ASSUME NEW S \in SUBSET Nat, IsFiniteSet(S), NEW q \in S, NEW r \in S, q < r
    PROVE  Cardinality(Below(S, q)) < Cardinality(Below(S, r))
<1>1. Below(S, q) \in SUBSET Below(S, r)
    <2>1. SUFFICES ASSUME NEW x \in S, x < q PROVE x < r
        BY DEF Below
    <2>2. x \in Nat /\ q \in Nat /\ r \in Nat
        OBVIOUS
    <2>. QED
        BY <2>1, <2>2
<1>2. q \in Below(S, r) /\ q \notin Below(S, q)
    BY DEF Below
<1>3. /\ IsFiniteSet(Below(S, r)) /\ Cardinality(Below(S, r)) \in Nat
      /\ Cardinality(Below(S, q)) \in Nat
    BY BelowCounts
<1>4. /\ Cardinality(Below(S, q)) <= Cardinality(Below(S, r))
      /\ Cardinality(Below(S, r)) = Cardinality(Below(S, q)) => Below(S, r) = Below(S, q)
    BY <1>1, <1>3, FS_Subset
<1>. QED
    BY <1>2, <1>3, <1>4

\* Every place up to the size of the set is taken.
LEMMA PlacesAreTaken ==
    ASSUME NEW S \in SUBSET Nat, IsFiniteSet(S), NEW n \in 1..Cardinality(S)
    PROVE  \E r \in S : Cardinality(Below(S, r)) = n - 1
<1>. DEFINE size  == Cardinality(S)
            place == [r \in S |-> Cardinality(Below(S, r)) + 1]
<1>1. size \in Nat
    BY FS_CardinalityType
<1>2. IsFiniteSet(1..size) /\ Cardinality(1..size) = size
    BY <1>1, FS_Interval
<1>3. ASSUME NEW r \in S PROVE place[r] \in 1..size
    BY <1>1, BelowCounts
<1>4. ASSUME NEW q \in S, NEW r \in S, place[q] = place[r] PROVE q = r
    <2>1. ~(q < r) /\ ~(r < q)
        BY <1>4, BelowGrows, BelowCounts
    <2>. QED
        BY <2>1
<1>5. place \in Injection(S, 1..size)
    BY <1>3, <1>4 DEF Injection, IsInjective
<1>6. place \in Surjection(S, 1..size)
    BY <1>2, <1>5, FS_Injection
<1>7. PICK r \in S : place[r] = n
    BY <1>6 DEF Surjection
<1>8. Cardinality(Below(S, r)) \in Nat
    BY BelowCounts
<1>. QED
    BY <1>7, <1>8

\* A finite set of numbers in order: its members, each once, increasing.
LEMMA InOrderIsSorted ==
    ASSUME NEW T \in SUBSET Nat, NEW S \in SUBSET T, IsFiniteSet(S)
    PROVE  /\ InOrder(S) \in Seq(T) /\ Len(InOrder(S)) = Cardinality(S) /\ Cardinality(S) \in Nat
           /\ \A n \in 1..Cardinality(S) : InOrder(S)[n] \in S
           /\ \A m, n \in 1..Cardinality(S) : m < n => InOrder(S)[m] < InOrder(S)[n]
           /\ \A r \in S : \E n \in 1..Cardinality(S) : InOrder(S)[n] = r
<1>. DEFINE size == Cardinality(S)
<1>1. size \in Nat /\ S \in SUBSET Nat
    BY FS_CardinalityType
<1>2. InOrder(S) = [n \in 1..size |-> CHOOSE r \in S : Cardinality(Below(S, r)) = n - 1]
    BY DEF InOrder, Below
<1>3. ASSUME NEW n \in 1..size
      PROVE  InOrder(S)[n] \in S /\ Cardinality(Below(S, InOrder(S)[n])) = n - 1
    <2>1. InOrder(S)[n] = CHOOSE r \in S : Cardinality(Below(S, r)) = n - 1
        BY <1>2
    <2>2. \E r \in S : Cardinality(Below(S, r)) = n - 1
        BY <1>1, PlacesAreTaken
    <2>. QED
        BY <2>1, <2>2
<1>4. InOrder(S) \in Seq(T) /\ Len(InOrder(S)) = size
    <2>1. InOrder(S) \in [1..size -> T]
        BY <1>2, <1>3
    <2>. QED
        BY <1>1, <2>1, FunctionIsSeq
<1>5. ASSUME NEW m \in 1..size, NEW n \in 1..size, m < n
      PROVE  InOrder(S)[m] < InOrder(S)[n]
    <2>1. ~(InOrder(S)[n] < InOrder(S)[m])
        <3>1. SUFFICES ASSUME InOrder(S)[n] < InOrder(S)[m] PROVE FALSE
            OBVIOUS
        <3>2. Cardinality(Below(S, InOrder(S)[n])) < Cardinality(Below(S, InOrder(S)[m]))
            BY <1>1, <1>3, <3>1, BelowGrows
        <3>. QED
            BY <1>1, <1>3, <1>5, <3>2
    <2>2. InOrder(S)[m] # InOrder(S)[n]
        <3>1. m - 1 # n - 1
            BY <1>1, <1>5
        <3>. QED
            BY <1>3, <3>1
    <2>3. InOrder(S)[m] \in Nat /\ InOrder(S)[n] \in Nat
        BY <1>1, <1>3
    <2>. QED
        BY <2>1, <2>2, <2>3
<1>6. ASSUME NEW r \in S PROVE \E n \in 1..size : InOrder(S)[n] = r
    <2>. DEFINE n == Cardinality(Below(S, r)) + 1
    <2>1. n \in 1..size /\ Cardinality(Below(S, r)) = n - 1
        BY <1>1, BelowCounts
    <2>. HIDE DEF n
    <2>2. InOrder(S)[n] \in S /\ Cardinality(Below(S, InOrder(S)[n])) = n - 1
        BY <1>3, <2>1
    <2>3. ~(InOrder(S)[n] < r) /\ ~(r < InOrder(S)[n])
        <3>1. /\ Cardinality(Below(S, r)) \in Nat
              /\ Cardinality(Below(S, InOrder(S)[n])) = Cardinality(Below(S, r))
            BY <1>1, <2>1, <2>2, BelowCounts
        <3>2. InOrder(S)[n] < r => Cardinality(Below(S, InOrder(S)[n])) < Cardinality(Below(S, r))
            BY <1>1, <2>2, BelowGrows
        <3>3. r < InOrder(S)[n] => Cardinality(Below(S, r)) < Cardinality(Below(S, InOrder(S)[n]))
            BY <1>1, <2>2, BelowGrows
        <3>. QED
            BY <3>1, <3>2, <3>3
    <2>4. InOrder(S)[n] = r
        <3>1. InOrder(S)[n] \in Nat /\ r \in Nat
            BY <1>1, <2>2
        <3>. QED
            BY <2>3, <3>1
    <2>. QED
        BY <2>1, <2>4
<1>. QED
    BY <1>1, <1>3, <1>4, <1>5, <1>6

\* A page holds the lowest rows, and one if there is any.
LEMMA PageIsLowest ==
    ASSUME TicketsAssumption, NEW S \in SUBSET Nat, IsFiniteSet(S)
    PROVE  /\ FirstPage(S) \in SUBSET S /\ IsFiniteSet(FirstPage(S))
           /\ \A r \in S \ FirstPage(S), q \in FirstPage(S) : q < r
           /\ S # {} => FirstPage(S) # {}
<1>. USE DEF TicketsAssumption
<1>1. FirstPage(S) = {r \in S : Cardinality(Below(S, r)) < Page}
    BY DEF FirstPage, Below
<1>2. FirstPage(S) \in SUBSET S /\ IsFiniteSet(FirstPage(S))
    BY <1>1, FS_Subset
<1>3. ASSUME NEW r \in S \ FirstPage(S), NEW q \in FirstPage(S) PROVE q < r
    <2>1. /\ Cardinality(Below(S, r)) \in Nat /\ Cardinality(Below(S, q)) \in Nat
          /\ Cardinality(Below(S, q)) < Cardinality(Below(S, r))
        BY <1>1, BelowCounts
    <2>2. ~(r < q)
        <3>1. r < q => Cardinality(Below(S, r)) < Cardinality(Below(S, q))
            BY <1>2, BelowGrows
        <3>. QED
            BY <2>1, <3>1
    <2>3. r # q /\ r \in Nat /\ q \in Nat
        BY <1>2
    <2>. QED
        BY <2>2, <2>3
<1>4. ASSUME S # {} PROVE FirstPage(S) # {}
    <2>1. PICK x \in S : \A y \in S : x <= y
        BY <1>4, LeastOf
    <2>2. Below(S, x) = {}
        <3>1. ASSUME NEW y \in S PROVE ~(y < x)
            <4>1. x \in Nat /\ y \in Nat /\ x <= y
                BY <2>1
            <4>. QED
                BY <4>1
        <3>. QED
            BY <3>1 DEF Below
    <2>3. Cardinality(Below(S, x)) = 0
        BY <2>2, FS_EmptySet
    <2>. QED
        BY <1>1, <2>3
<1>. QED
    BY <1>2, <1>3, <1>4

-----------------------------------------------------------------------------
(* ExportTickets: the tickets.                                             *)

\* A ticket that is redeemed was made; one that was downloaded is remembered until
\* it expires.
UsedIsRemembered ==
    /\ \A i \in Calls : redeeming[i] # "idle" => ticket[redeeming[i]].made
    /\ \A k \in Tickets : downloads[k] > 0 =>
          ticket[k].made /\ (k \in ledger \/ ticket[k].expires <= now)

\* What an export yielded is in order; what was there when it began is among it or
\* still to come.
StreamsAreSound ==
    \A i \in Calls :
        /\ \A m, n \in 1..Len(stream[i].out) : m < n => stream[i].out[m] < stream[i].out[n]
        /\ conversation = "kept" =>
              /\ stream[i].had \subseteq rows
              /\ \A r \in stream[i].had :
                    \/ \E n \in 1..Len(stream[i].out) : stream[i].out[n] = r
                    \/ r > LastRow(stream[i].out) /\ stream[i].state # "done"

TicketIInv == TicketTypeOK /\ UsedIsRemembered /\ StreamsAreSound

\* A ticket not yet made and an export not begun have the types.
LEMMA NewIsTyped ==
    ASSUME TicketsAssumption
    PROVE  /\ NoTicket \in [made : BOOLEAN, login : Logins, version : Nat, expires : Nat]
           /\ NoStream \in [state : {"none", "on", "done"}, had : SUBSET (1..MaxRow), out : Seq(1..MaxRow)]
<1>1. (CHOOSE s \in Logins : TRUE) \in Logins
    BY DEF TicketsAssumption
<1>2. <<>> \in Seq(1..MaxRow)
    OBVIOUS
<1>. QED
    BY <1>1, <1>2 DEF NoTicket, NoStream

\* The initial state.
LEMMA TicketInitSound == ASSUME TicketsAssumption, TicketInit PROVE TicketIInv
<1>1. TicketTypeOK
    <2>1. signin \in [Logins -> [state : {"live", "rotated", "ended"}, stepUp : Nat]]
        BY DEF TicketInit
    <2>2. now \in 0..MaxTicketTime /\ version \in 0..MaxVersion
        BY DEF TicketInit, TicketsAssumption
    <2>3. /\ stream \in [Calls -> [state : {"none", "on", "done"}, had : SUBSET (1..MaxRow), out : Seq(1..MaxRow)]]
          /\ ticket \in [Tickets -> [made : BOOLEAN, login : Logins, version : Nat, expires : Nat]]
        BY NewIsTyped DEF TicketInit
    <2>4. /\ conversation \in {"kept", "gone"} /\ rows \subseteq 1..MaxRow /\ ledger \subseteq Tickets
          /\ redeeming \in [Calls -> Tickets \cup {"idle"}] /\ downloads \in [Tickets -> Nat]
        BY DEF TicketInit
    <2>. QED
        BY <2>1, <2>2, <2>3, <2>4 DEF TicketTypeOK
<1>2. UsedIsRemembered
    BY DEF UsedIsRemembered, TicketInit
<1>3. StreamsAreSound
    <2>1. \A i \in Calls : stream[i].had = {} /\ stream[i].out = <<>>
        BY DEF TicketInit, NoStream
    <2>2. Len(<<>>) = 0 /\ 1..0 = {}
        OBVIOUS
    <2>. QED
        BY <2>1, <2>2 DEF StreamsAreSound
<1>. QED
    BY <1>1, <1>2, <1>3 DEF TicketIInv

\* A step that leaves the exports alone and keeps or deletes the rows.
LEMMA StreamsUntouched ==
    ASSUME StreamsAreSound, UNCHANGED stream,
           conversation' = "kept" => conversation = "kept" /\ rows \subseteq rows'
    PROVE  StreamsAreSound'
BY DEF StreamsAreSound, LastRow

\* A step that leaves the tickets alone, at any later time.
LEMMA TicketsUntouched ==
    ASSUME TicketTypeOK, UsedIsRemembered, UNCHANGED <<ticket, ledger, downloads, redeeming>>, now' \in Nat, now <= now'
    PROVE  UsedIsRemembered'
<1>1. \A k \in Tickets : ticket[k].expires \in Nat
    BY DEF TicketTypeOK
<1>2. now \in Nat
    BY DEF TicketTypeOK
<1>. QED
    BY <1>1, <1>2 DEF UsedIsRemembered

\* A conversation deleted with its rows has the types.
LEMMA PurgedIsTyped ==
    ASSUME Purged
    PROVE  /\ conversation' \in {"kept", "gone"} /\ rows' \subseteq 1..MaxRow
           /\ ~(conversation' = "kept")
BY DEF Purged

\* An export begins with nothing yielded and all that is there to come.
LEMMA BegunIsSound ==
    ASSUME TicketIInv, NEW i \in Calls, conversation = "kept",
           stream' = [stream EXCEPT ![i] = Begun], UNCHANGED <<conversation, rows>>
    PROVE  /\ stream' \in [Calls -> [state : {"none", "on", "done"}, had : SUBSET (1..MaxRow),
                                      out : Seq(1..MaxRow)]]
           /\ StreamsAreSound'
<1>1. stream \in [Calls -> [state : {"none", "on", "done"}, had : SUBSET (1..MaxRow), out : Seq(1..MaxRow)]]
      /\ rows \subseteq 1..MaxRow
    BY DEF TicketIInv, TicketTypeOK
<1>2. Begun \in [state : {"none", "on", "done"}, had : SUBSET (1..MaxRow), out : Seq(1..MaxRow)]
    <2>1. <<>> \in Seq(1..MaxRow)
        OBVIOUS
    <2>. QED
        BY <1>1, <2>1 DEF Begun
<1>3. /\ stream'[i].had = rows /\ stream'[i].out = <<>> /\ stream'[i].state = "on"
      /\ \A j \in Calls : j # i => stream'[j] = stream[j]
    BY <1>1 DEF Begun
<1>4. Len(<<>>) = 0 /\ 1..0 = {}
    OBVIOUS
<1>5. \A r \in rows : r > LastRow(<<>>)
    BY <1>1 DEF LastRow
<1>6. StreamsAreSound'
    <2>1. SUFFICES ASSUME NEW j \in Calls
                   PROVE  /\ \A m, n \in 1..Len(stream'[j].out) : m < n => stream'[j].out[m] < stream'[j].out[n]
                          /\ stream'[j].had \subseteq rows
                          /\ \A r \in stream'[j].had :
                                \/ \E n \in 1..Len(stream'[j].out) : stream'[j].out[n] = r
                                \/ r > LastRow(stream'[j].out) /\ stream'[j].state # "done"
        BY DEF StreamsAreSound, LastRow
    <2>2. CASE j = i
        BY <1>3, <1>4, <1>5, <2>2
    <2>3. CASE j # i
        BY <1>3, <2>3 DEF TicketIInv, StreamsAreSound
    <2>. QED
        BY <2>2, <2>3
<1>. QED
    BY <1>1, <1>2, <1>6

\* create_export_ticket makes a ticket that nobody has redeemed.
LEMMA CreateTicketKeeps ==
    ASSUME TicketsAssumption, TicketIInv, NEW s \in Logins, NEW k \in Tickets, CreateExportTicket(s, k)
    PROVE  TicketIInv'
<1>. USE DEF CreateExportTicket
<1>1. now \in Nat /\ now + Life \in Nat /\ version \in Nat
    BY SMTT(60) DEF TicketIInv, TicketTypeOK, TicketsAssumption
<1>2. ticket' \in [Tickets -> [made : BOOLEAN, login : Logins, version : Nat, expires : Nat]]
    <2>1. ticket \in [Tickets -> [made : BOOLEAN, login : Logins, version : Nat, expires : Nat]]
        BY DEF TicketIInv, TicketTypeOK
    <2>2. [made |-> TRUE, login |-> s, version |-> version, expires |-> now + Life]
            \in [made : BOOLEAN, login : Logins, version : Nat, expires : Nat]
        BY <1>1
    <2>3. \/ UNCHANGED ticket
          \/ ticket' = [ticket EXCEPT ![k] = [made |-> TRUE, login |-> s, version |-> version,
                                             expires |-> now + Life]]
        OBVIOUS
    <2>. QED
        BY <2>1, <2>2, <2>3
<1>3. conversation' \in {"kept", "gone"} /\ rows' \subseteq 1..MaxRow
      /\ (conversation' = "kept" => conversation = "kept" /\ rows \subseteq rows')
    BY PurgedIsTyped DEF TicketIInv, TicketTypeOK
<1>4. TicketTypeOK'
    BY <1>2, <1>3 DEF TicketIInv, TicketTypeOK
<1>5. UsedIsRemembered'
    <2>1. \A j \in Tickets : ticket[j].made => ticket'[j] = ticket[j]
        BY DEF TicketIInv, TicketTypeOK
    <2>2. \A i \in Calls : redeeming[i] \in Tickets \cup {"idle"}
        BY DEF TicketIInv, TicketTypeOK
    <2>3. \A j \in Tickets : downloads[j] > 0 =>
              ticket'[j].made /\ (j \in ledger \/ ticket'[j].expires <= now)
        BY <2>1 DEF TicketIInv, UsedIsRemembered
    <2>4. \A i \in Calls : redeeming[i] # "idle" => ticket'[redeeming[i]].made
        BY <2>1, <2>2 DEF TicketIInv, UsedIsRemembered
    <2>. QED
        BY <2>3, <2>4 DEF UsedIsRemembered
<1>6. StreamsAreSound'
    BY <1>3, StreamsUntouched DEF TicketIInv
<1>. QED
    BY <1>4, <1>5, <1>6 DEF TicketIInv

\* consume_export_ticket before the account lock.
LEMMA PresentKeeps ==
    ASSUME TicketIInv, NEW i \in Calls, NEW k \in Tickets, Present(i, k)
    PROVE  TicketIInv'
<1>. USE DEF Present
<1>1. TicketTypeOK'
    BY DEF TicketIInv, TicketTypeOK
<1>2. UsedIsRemembered'
    <2>1. \A j \in Calls : redeeming'[j] = redeeming[j] \/ redeeming'[j] = k
        BY DEF TicketIInv, TicketTypeOK
    <2>. QED
        BY <2>1 DEF TicketIInv, UsedIsRemembered
<1>3. StreamsAreSound'
    BY StreamsUntouched DEF TicketIInv
<1>. QED
    BY <1>1, <1>2, <1>3 DEF TicketIInv

\* Under the account lock a ticket that is not in the denylist and has not expired
\* has not been used.
LEMMA ConsumeKeeps ==
    ASSUME TicketsAssumption, TicketIInv, NEW i \in Calls, Consume(i)
    PROVE  TicketIInv' /\ OpensOnce
<1>. DEFINE k == redeeming[i]
<1>1. /\ k # "idle" /\ redeeming' = [redeeming EXCEPT ![i] = "idle"]
      /\ UNCHANGED <<now, version, signin, ticket>>
      /\ \/ /\ ticket[k].version = version /\ signin[ticket[k].login].state = "live"
            /\ now < ticket[k].expires /\ k \notin ledger /\ conversation = "kept" /\ ~PastRetention
            /\ ledger' = ledger \cup {k}
            /\ downloads' = [downloads EXCEPT ![k] = @ + 1]
            /\ stream' = [stream EXCEPT ![i] = Begun]
            /\ UNCHANGED <<conversation, rows>>
         \/ Purged /\ UNCHANGED <<stream, ledger, downloads>>
         \/ UNCHANGED <<conversation, rows, stream, ledger, downloads>>
    BY DEF Consume, AlreadyUsed
<1>. HIDE DEF k
<1>2. k \in Tickets
    BY <1>1 DEF k, TicketIInv, TicketTypeOK
<1>3. /\ redeeming' \in [Calls -> Tickets \cup {"idle"}]
      /\ \A j \in Calls : redeeming'[j] = redeeming[j] \/ redeeming'[j] = "idle"
    BY <1>1 DEF TicketIInv, TicketTypeOK
<1>4. CASE UNCHANGED <<stream, ledger, downloads>> /\ (Purged \/ UNCHANGED <<conversation, rows>>)
    <2>1. TicketTypeOK'
        BY <1>1, <1>3, <1>4, PurgedIsTyped DEF TicketIInv, TicketTypeOK
    <2>2. UsedIsRemembered'
        BY <1>1, <1>3, <1>4 DEF TicketIInv, UsedIsRemembered
    <2>3. StreamsAreSound'
        BY <1>4, PurgedIsTyped, StreamsUntouched DEF TicketIInv
    <2>4. OpensOnce
        BY <1>4 DEF OpensOnce
    <2>. QED
        BY <2>1, <2>2, <2>3, <2>4 DEF TicketIInv
<1>5. CASE /\ ticket[k].version = version /\ signin[ticket[k].login].state = "live"
           /\ now < ticket[k].expires /\ k \notin ledger /\ conversation = "kept" /\ ~PastRetention
           /\ ledger' = ledger \cup {k}
           /\ downloads' = [downloads EXCEPT ![k] = @ + 1]
           /\ stream' = [stream EXCEPT ![i] = Begun]
           /\ UNCHANGED <<conversation, rows>>
    <2>1. now \in Nat /\ ticket[k].expires \in Nat /\ downloads \in [Tickets -> Nat]
        BY <1>2 DEF TicketIInv, TicketTypeOK
    <2>2. downloads[k] = 0
        BY <1>2, <1>5, <2>1 DEF TicketIInv, UsedIsRemembered
    <2>3. /\ downloads' \in [Tickets -> Nat] /\ downloads'[k] = 1
          /\ \A j \in Tickets : j # k => downloads'[j] = downloads[j]
        BY <1>2, <1>5, <2>1, <2>2
    <2>4. TicketTypeOK'
        <3>1. ledger' \subseteq Tickets
            BY <1>2, <1>5 DEF TicketIInv, TicketTypeOK
        <3>. QED
            BY <1>1, <1>3, <1>5, <2>3, <3>1, BegunIsSound DEF TicketIInv, TicketTypeOK
    <2>5. UsedIsRemembered'
        <3>1. SUFFICES ASSUME NEW j \in Tickets, downloads'[j] > 0
                       PROVE  ticket[j].made /\ (j \in ledger' \/ ticket[j].expires <= now)
            BY <1>1, <1>3 DEF TicketIInv, UsedIsRemembered
        <3>2. CASE j = k
            BY <1>1, <1>5, <3>2 DEF k, TicketIInv, UsedIsRemembered
        <3>3. CASE j # k
            BY <1>5, <2>3, <3>1, <3>3 DEF TicketIInv, UsedIsRemembered
        <3>. QED
            BY <3>2, <3>3
    <2>6. StreamsAreSound'
        BY <1>5, BegunIsSound
    <2>7. OpensOnce
        BY <1>5, <2>2, <2>3 DEF OpensOnce
    <2>. QED
        BY <2>4, <2>5, <2>6, <2>7 DEF TicketIInv
<1>. QED
    BY <1>1, <1>4, <1>5

\* export_session_endpoint begins an export without a ticket.
LEMMA ExportSessionKeeps ==
    ASSUME TicketIInv, NEW i \in Calls, NEW s \in Logins, ExportSession(i, s)
    PROVE  TicketIInv'
<1>. USE DEF ExportSession
<1>1. UsedIsRemembered'
    BY DEF TicketIInv, UsedIsRemembered
<1>2. CASE Purged /\ UNCHANGED stream
    <2>1. TicketTypeOK'
        BY <1>2, PurgedIsTyped DEF TicketIInv, TicketTypeOK
    <2>2. StreamsAreSound'
        BY <1>2, PurgedIsTyped, StreamsUntouched DEF TicketIInv
    <2>. QED
        BY <1>1, <2>1, <2>2 DEF TicketIInv
<1>3. CASE stream' = [stream EXCEPT ![i] = Begun] /\ UNCHANGED <<conversation, rows>>
    <2>1. TicketTypeOK'
        BY <1>3, BegunIsSound DEF TicketIInv, TicketTypeOK
    <2>2. StreamsAreSound'
        BY <1>3, BegunIsSound
    <2>. QED
        BY <1>1, <2>1, <2>2 DEF TicketIInv
<1>. QED
    BY <1>2, <1>3

\* A sequence in order, the rows past its last, and what a page must account for.
Increasing(s) == \A m, n \in 1..Len(s) : m < n => s[m] < s[n]
StillToCome(R, s) == {r \in R : r > LastRow(s)}
InOrToCome(L, s) == \A r \in L : r > LastRow(s) \/ \E n \in 1..Len(s) : s[n] = r

\* The next page is added in order; a row it leaves out is still to come.
LEMMA PageIsAdded ==
    ASSUME NEW R \in SUBSET (1..MaxRow), NEW out \in Seq(1..MaxRow), Increasing(out),
           FirstPage(StillToCome(R, out)) # {},
           NEW new, new = out \o InOrder(FirstPage(StillToCome(R, out)))
    PROVE  /\ new \in Seq(1..MaxRow)
           /\ Increasing(new)
           /\ \A n \in 1..Len(out) : \E m \in 1..Len(new) : new[m] = out[n]
           /\ InOrToCome(StillToCome(R, out), new)
<1>. DEFINE L    == StillToCome(R, out)
            page == FirstPage(L)
            add  == InOrder(page)
            size == Cardinality(page)
<1>1. /\ L \in SUBSET Nat /\ L \in SUBSET (1..MaxRow) /\ IsFiniteSet(L)
    <2>1. MaxRow \in Nat
        BY TicketsAssumption
    <2>2. IsFiniteSet(1..MaxRow)
        BY <2>1, FS_Interval
    <2>3. L \in SUBSET (1..MaxRow)
        BY DEF StillToCome
    <2>4. L \in SUBSET Nat
        BY <2>1, <2>3
    <2>. QED
        BY <2>2, <2>3, <2>4, FS_Subset
<1>2. /\ page \in SUBSET L /\ IsFiniteSet(page) /\ page # {}
      /\ \A r \in L \ page, q \in page : q < r
    <2>1. /\ FirstPage(L) \in SUBSET L /\ IsFiniteSet(FirstPage(L))
          /\ \A r \in L \ FirstPage(L), q \in FirstPage(L) : q < r
        BY <1>1, TicketsAssumption, PageIsLowest, Zenon
    <2>. QED
        BY <2>1
<1>. HIDE DEF page
<1>3. (1..MaxRow) \in SUBSET Nat /\ page \in SUBSET (1..MaxRow)
    <2>1. (1..MaxRow) \in SUBSET Nat
        OBVIOUS
    <2>2. page \in SUBSET (1..MaxRow)
        BY <1>1, <1>2
    <2>. QED
        BY <2>1, <2>2
<1>4. /\ add \in Seq(1..MaxRow) /\ Len(add) = size /\ size \in Nat
      /\ \A n \in 1..size : add[n] \in page
      /\ \A m, n \in 1..size : m < n => add[m] < add[n]
      /\ \A r \in page : \E n \in 1..size : add[n] = r
    BY <1>2, <1>3, TicketsAssumption, InOrderIsSorted
<1>5. size # 0
    BY <1>2, FS_EmptySet
<1>. DEFINE l == Len(out)
<1>6. /\ l \in Nat /\ new \in Seq(1..MaxRow) /\ Len(new) = l + size
      /\ \A n \in 1..l : new[n] = out[n]
      /\ \A n \in 1..size : new[l + n] = add[n]
    <2>1. new = out \o add
        BY DEF page
    <2>. HIDE DEF add, size
    <2>2. /\ new \in Seq(1..MaxRow) /\ Len(new) = l + size
          /\ \A n \in 1..(l + size) : new[n] = IF n <= l THEN out[n] ELSE add[n - l]
        <3>1. add \in Seq(1..MaxRow)
            BY <1>4
        <3>2. /\ out \o add \in Seq(1..MaxRow)
              /\ Len(out \o add) = Len(out) + Len(add)
              /\ \A n \in 1..Len(out) + Len(add) : (out \o add)[n] = IF n <= Len(out) THEN out[n] ELSE add[n - Len(out)]
            BY <3>1, ConcatProperties
        <3>3. Len(add) = size
            BY <1>4
        <3>. QED
            BY <2>1, <3>2, <3>3
    <2>3. l \in Nat
        OBVIOUS
    <2>4. ASSUME NEW n \in 1..l PROVE new[n] = out[n]
        <3>1. n \in 1..(l + size) /\ n <= l
            BY <1>4, <2>3
        <3>. QED
            BY <2>2, <3>1
    <2>5. ASSUME NEW n \in 1..size PROVE new[l + n] = add[n]
        <3>1. l + n \in 1..(l + size) /\ ~(l + n <= l) /\ (l + n) - l = n
            BY <1>4, <2>3
        <3>. QED
            BY <2>2, <3>1
    <2>. QED
        BY <2>2, <2>3, <2>4, <2>5
<1>7. \A n \in 1..l : out[n] \in Nat
    <2>. HIDE DEF add, size
    <2>1. \A n \in 1..Len(out) : out[n] \in 1..MaxRow
        BY ElementOfSeq
    <2>. QED
        BY <1>3, <2>1
<1>8. LastRow(out) \in Nat /\ \A n \in 1..l : out[n] <= LastRow(out)
    <2>1. CASE out = <<>>
        BY <2>1 DEF LastRow
    <2>2. CASE out # <<>>
        <3>1. l \in 1..l /\ LastRow(out) = out[l]
            BY <2>2 DEF LastRow
        <3>2. ASSUME NEW n \in 1..l PROVE out[n] <= out[l]
            <4>. USE DEF Increasing
            <4>1. n = l \/ n < l
                BY <1>6
            <4>2. out[n] \in Nat /\ out[l] \in Nat
                BY <1>7, <3>1
            <4>3. n < l => out[n] < out[l]
                BY <3>1
            <4>. QED
                BY <4>1, <4>2, <4>3
        <3>. QED
            BY <1>7, <3>1, <3>2
    <2>. QED
        BY <2>1, <2>2
<1>9. \A n \in 1..size : add[n] \in Nat /\ add[n] > LastRow(out)
    <2>1. \A r \in page : r \in Nat /\ r > LastRow(out)
        BY <1>1, <1>2 DEF StillToCome
    <2>. QED
        BY <1>4, <2>1
<1>. HIDE DEF add, size, page, l
<1>10. ASSUME NEW n \in 1..Len(new)
       PROVE  n \in 1..l \/ (n - l \in 1..size /\ new[n] = add[n - l])
    <2>1. n \in Nat /\ l \in Nat /\ size \in Nat /\ n <= l + size /\ n >= 1
        BY <1>4, <1>6
    <2>2. CASE n <= l
        BY <2>1, <2>2
    <2>3. CASE ~(n <= l)
        <3>1. n - l \in 1..size /\ l + (n - l) = n
            BY <2>1, <2>3
        <3>. QED
            BY <1>6, <3>1
    <2>. QED
        BY <2>2, <2>3
<1>11. ASSUME NEW m \in 1..Len(new), NEW n \in 1..Len(new), m < n PROVE new[m] < new[n]
    <2>1. m \in Nat /\ n \in Nat /\ l \in Nat /\ size \in Nat
        BY <1>4, <1>6
    <2>2. CASE n \in 1..l
        <3>1. m \in 1..l
            BY <1>11, <2>1, <2>2
        <3>. QED
            BY <1>6, <1>11, <2>2, <3>1 DEF l, Increasing
    <2>3. CASE m \in 1..l /\ n - l \in 1..size /\ new[n] = add[n - l]
        <3>1. new[m] \in Nat /\ new[m] <= LastRow(out)
            BY <1>6, <1>7, <1>8, <2>3
        <3>2. new[n] \in Nat /\ new[n] > LastRow(out)
            BY <1>9, <2>3
        <3>3. \A a, b, c \in Nat : a <= b /\ c > b => a < c
            OBVIOUS
        <3>. QED
            BY <1>8, <3>1, <3>2, <3>3
    <2>4. CASE m - l \in 1..size /\ new[m] = add[m - l] /\ n - l \in 1..size /\ new[n] = add[n - l]
        <3>1. m - l < n - l
            BY <1>11, <2>1
        <3>. QED
            BY <1>4, <2>4, <3>1
    <2>5. CASE m \notin 1..l /\ n \in 1..l
        BY <1>11, <2>1, <2>5
    <2>. QED
        BY <1>10, <2>2, <2>3, <2>4, <2>5
<1>12. ASSUME NEW n \in 1..Len(out) PROVE \E m \in 1..Len(new) : new[m] = out[n]
    <2>1. n \in 1..l /\ n \in 1..Len(new)
        BY <1>4, <1>6 DEF l
    <2>. QED
        BY <1>6, <2>1
<1>13. LastRow(new) = add[size] /\ size \in 1..size
    <2>1. size \in 1..size
        BY <1>4, <1>5
    <2>2. new # <<>>
        BY <1>4, <1>5, <1>6
    <2>3. new[l + size] = add[size]
        BY <1>6, <2>1
    <2>. QED
        BY <1>6, <2>1, <2>2, <2>3 DEF LastRow
<1>14. ASSUME NEW r \in L PROVE r > LastRow(new) \/ \E n \in 1..Len(new) : new[n] = r
    <2>1. CASE r \in page
        <3>1. PICK n \in 1..size : add[n] = r
            BY <1>4, <2>1
        <3>2. l + n \in 1..Len(new)
            <4>1. l \in Nat /\ size \in Nat /\ Len(new) = l + size
                BY <1>4, <1>6
            <4>. QED
                BY <4>1
        <3>3. new[l + n] = r
            BY <1>6, <3>1
        <3>. QED
            BY <3>2, <3>3
    <2>2. CASE r \notin page
        <3>1. add[size] \in page
            BY <1>4, <1>13
        <3>2. add[size] < r
            BY <1>2, <2>2, <3>1
        <3>3. add[size] \in Nat /\ r \in Nat
            BY <1>1, <1>9, <1>13
        <3>. QED
            BY <1>13, <3>2, <3>3
    <2>. QED
        BY <2>1, <2>2
<1>. QED
    BY <1>6, <1>11, <1>12, <1>14 DEF Increasing, InOrToCome

\* stream_session_export reads one page, or ends.
LEMMA StreamPageKeeps ==
    ASSUME TicketsAssumption, TicketIInv, NEW i \in Calls, StreamPage(i)
    PROVE  TicketIInv'
<1>. DEFINE out  == stream[i].out
            page == FirstPage(Left(i))
<1>1. /\ UNCHANGED <<now, version, signin, conversation, rows, ticket, ledger, redeeming, downloads>>
      /\ stream' = IF page = {} THEN [stream EXCEPT ![i].state = "done"]
                   ELSE [stream EXCEPT ![i].out = @ \o InOrder(page)]
    BY DEF StreamPage
<1>2. /\ stream \in [Calls -> [state : {"none", "on", "done"}, had : SUBSET (1..MaxRow), out : Seq(1..MaxRow)]]
      /\ rows \in SUBSET (1..MaxRow) /\ MaxRow \in Nat
    BY DEF TicketIInv, TicketTypeOK, TicketsAssumption
<1>3. /\ out \in Seq(1..MaxRow)
      /\ Increasing(out)
    BY <1>2 DEF TicketIInv, StreamsAreSound, Increasing
<1>4. Left(i) = StillToCome(rows, out)
    BY DEF Left, AfterRow, StillToCome
<1>5. UsedIsRemembered'
    BY <1>1 DEF TicketIInv, UsedIsRemembered
<1>. HIDE DEF out, page
<1>6. CASE page = {}
    <2>1. stream' = [stream EXCEPT ![i].state = "done"]
        BY <1>1, <1>6
    <2>2. /\ stream' \in [Calls -> [state : {"none", "on", "done"}, had : SUBSET (1..MaxRow), out : Seq(1..MaxRow)]]
          /\ stream'[i].had = stream[i].had /\ stream'[i].out = out
          /\ \A j \in Calls : j # i => stream'[j] = stream[j]
        BY <1>2, <2>1 DEF out
    <2>3. TicketTypeOK'
        BY <1>1, <2>2 DEF TicketIInv, TicketTypeOK
    <2>4. \A r \in rows : ~(r > LastRow(out))
        <3>1. IsFiniteSet(1..MaxRow) /\ (1..MaxRow) \in SUBSET Nat
            BY <1>2, FS_Interval
        <3>2. Left(i) \in SUBSET (1..MaxRow)
            BY <1>2, <1>4 DEF StillToCome
        <3>3. Left(i) \in SUBSET Nat /\ IsFiniteSet(Left(i))
            BY <3>1, <3>2, FS_Subset
        <3>4. Left(i) = {}
            BY <1>6, <3>3, PageIsLowest DEF page
        <3>. QED
            BY <1>4, <3>4 DEF StillToCome
    <2>5. ASSUME NEW j \in Calls
          PROVE  /\ \A m, n \in 1..Len(stream'[j].out) : m < n => stream'[j].out[m] < stream'[j].out[n]
                 /\ conversation = "kept" =>
                       /\ stream'[j].had \subseteq rows
                       /\ \A r \in stream'[j].had :
                             \/ \E n \in 1..Len(stream'[j].out) : stream'[j].out[n] = r
                             \/ r > LastRow(stream'[j].out) /\ stream'[j].state # "done"
        <3>1. CASE j # i
            BY <2>2, <3>1 DEF TicketIInv, StreamsAreSound
        <3>2. CASE j = i
            <4>1. conversation = "kept" =>
                      /\ stream[i].had \subseteq rows
                      /\ \A r \in stream[i].had :
                            (\E n \in 1..Len(out) : out[n] = r) \/ r > LastRow(out)
                BY DEF TicketIInv, StreamsAreSound, out
            <4>. QED
                BY <1>3, <2>2, <2>4, <3>2, <4>1 DEF Increasing
        <3>. QED
            BY <3>1, <3>2
    <2>6. StreamsAreSound'
        BY <1>1, <2>5 DEF StreamsAreSound, LastRow
    <2>. QED
        BY <1>5, <2>3, <2>6 DEF TicketIInv
<1>7. CASE page # {}
    <2>. DEFINE new == out \o InOrder(page)
    <2>1. stream' = [stream EXCEPT ![i].out = new]
        BY <1>1, <1>7 DEF out
    <2>2. /\ new \in Seq(1..MaxRow)
          /\ Increasing(new)
          /\ \A n \in 1..Len(out) : \E m \in 1..Len(new) : new[m] = out[n]
          /\ \A r \in Left(i) : r > LastRow(new) \/ \E n \in 1..Len(new) : new[n] = r
        <3>1. FirstPage(Left(i)) # {} /\ new = out \o InOrder(FirstPage(Left(i)))
            BY <1>7 DEF page
        <3>2. /\ FirstPage(StillToCome(rows, out)) # {}
              /\ new = out \o InOrder(FirstPage(StillToCome(rows, out)))
            <4>. HIDE DEF new
            <4>. QED
                BY <1>4, <3>1, Zenon
        <3>3. rows \in SUBSET (1..MaxRow)
            BY <1>2
        <3>4. out \in Seq(1..MaxRow) /\ Increasing(out)
            BY <1>3
        <3>. HIDE DEF new
        <3>5. /\ new \in Seq(1..MaxRow)
              /\ Increasing(new)
              /\ \A n \in 1..Len(out) : \E m \in 1..Len(new) : new[m] = out[n]
              /\ InOrToCome(StillToCome(rows, out), new)
            <4>1. new \in Seq(1..MaxRow)
                BY <3>2, <3>3, <3>4, PageIsAdded
            <4>2. Increasing(new)
                BY <3>2, <3>3, <3>4, PageIsAdded
            <4>3. \A n \in 1..Len(out) : \E m \in 1..Len(new) : new[m] = out[n]
                BY <3>2, <3>3, <3>4, PageIsAdded
            <4>4. InOrToCome(StillToCome(rows, out), new)
                BY <3>2, <3>3, <3>4, PageIsAdded
            <4>. QED
                BY <4>1, <4>2, <4>3, <4>4
        <3>6. \A r \in Left(i) : r > LastRow(new) \/ \E n \in 1..Len(new) : new[n] = r
            <4>1. InOrToCome(Left(i), new)
                BY <1>4, <3>5
            <4>. QED
                BY <4>1 DEF InOrToCome
        <3>. QED
            BY <3>5, <3>6
    <2>. HIDE DEF new
    <2>3. /\ stream' \in [Calls -> [state : {"none", "on", "done"}, had : SUBSET (1..MaxRow), out : Seq(1..MaxRow)]]
          /\ stream'[i].had = stream[i].had /\ stream'[i].out = new /\ stream'[i].state = stream[i].state
          /\ \A j \in Calls : j # i => stream'[j] = stream[j]
        BY <1>2, <2>1, <2>2, ZenonT(60)
    <2>4. TicketTypeOK'
        BY <1>1, <2>3 DEF TicketIInv, TicketTypeOK
    <2>5. stream[i].state = "on"
        BY DEF StreamPage
    <2>6. ASSUME NEW j \in Calls
          PROVE  /\ \A m, n \in 1..Len(stream'[j].out) : m < n => stream'[j].out[m] < stream'[j].out[n]
                 /\ conversation = "kept" =>
                       /\ stream'[j].had \subseteq rows
                       /\ \A r \in stream'[j].had :
                             \/ \E n \in 1..Len(stream'[j].out) : stream'[j].out[n] = r
                             \/ r > LastRow(stream'[j].out) /\ stream'[j].state # "done"
        <3>1. CASE j # i
            BY <2>3, <3>1 DEF TicketIInv, StreamsAreSound
        <3>2. CASE j = i
            <4>1. conversation = "kept" =>
                      /\ stream[i].had \subseteq rows
                      /\ \A r \in stream[i].had :
                            (\E n \in 1..Len(out) : out[n] = r) \/ r > LastRow(out)
                BY DEF TicketIInv, StreamsAreSound, out
            <4>2. ASSUME conversation = "kept", NEW r \in stream[i].had
                  PROVE  r > LastRow(new) \/ \E n \in 1..Len(new) : new[n] = r
                <5>1. CASE \E n \in 1..Len(out) : out[n] = r
                    BY <2>2, <5>1
                <5>2. CASE r > LastRow(out)
                    <6>1. r \in Left(i)
                        BY <1>4, <4>1, <4>2, <5>2 DEF StillToCome
                    <6>. QED
                        BY <2>2, <6>1
                <5>. QED
                    BY <4>1, <4>2, <5>1, <5>2
            <4>. QED
                BY <2>2, <2>3, <2>5, <3>2, <4>1, <4>2 DEF Increasing
        <3>. QED
            BY <3>1, <3>2
    <2>7. StreamsAreSound'
        BY <1>1, <2>6 DEF StreamsAreSound, LastRow
    <2>. QED
        BY <1>5, <2>4, <2>7 DEF TicketIInv
<1>. QED
    BY <1>6, <1>7

\* Rows are stored, time passes, the sign-in ends, the conversation is deleted and
\* the sweep forgets what has expired.
LEMMA StoreRowKeeps ==
    ASSUME TicketIInv, NEW r \in 1..MaxRow, StoreRow(r)
    PROVE  TicketIInv'
<1>. USE DEF StoreRow
<1>1. TicketTypeOK'
    BY DEF TicketIInv, TicketTypeOK
<1>2. UsedIsRemembered'
    BY DEF TicketIInv, UsedIsRemembered
<1>3. StreamsAreSound'
    BY StreamsUntouched DEF TicketIInv
<1>. QED
    BY <1>1, <1>2, <1>3 DEF TicketIInv

LEMMA SignInEndKeeps ==
    ASSUME TicketsAssumption, TicketIInv,
           RaiseVersion \/ \E s \in Logins, how \in {"rotated", "ended"} : EndSignIn(s, how)
    PROVE  TicketIInv'
<1>1. UNCHANGED <<now, conversation, rows, stream, ticket, ledger, redeeming, downloads>>
    BY DEF RaiseVersion, EndSignIn
<1>2. signin' \in [Logins -> [state : {"live", "rotated", "ended"}, stepUp : Nat]]
    <2>1. signin \in [Logins -> [state : {"live", "rotated", "ended"}, stepUp : Nat]]
        BY DEF TicketIInv, TicketTypeOK
    <2>2. CASE RaiseVersion
        BY <2>1, <2>2 DEF RaiseVersion
    <2>3. ASSUME NEW s \in Logins, NEW how \in {"rotated", "ended"}, EndSignIn(s, how)
          PROVE  signin' \in [Logins -> [state : {"live", "rotated", "ended"}, stepUp : Nat]]
        <3>1. how \in {"live", "rotated", "ended"} /\ signin' = [signin EXCEPT ![s].state = how]
            BY <2>3 DEF EndSignIn
        <3>. QED
            BY <2>1, <3>1
    <2>. QED
        BY <2>2, <2>3
<1>3. version' \in 0..MaxVersion
    BY DEF RaiseVersion, EndSignIn, TicketIInv, TicketTypeOK, TicketsAssumption
<1>4. TicketTypeOK'
    BY <1>1, <1>2, <1>3 DEF TicketIInv, TicketTypeOK
<1>5. UsedIsRemembered'
    BY <1>1 DEF TicketIInv, UsedIsRemembered
<1>6. StreamsAreSound'
    BY <1>1, StreamsUntouched DEF TicketIInv
<1>. QED
    BY <1>4, <1>5, <1>6 DEF TicketIInv

LEMMA DeletionKeeps ==
    ASSUME TicketIInv, DeleteConversation
    PROVE  TicketIInv'
<1>. USE DEF DeleteConversation
<1>1. TicketTypeOK'
    BY PurgedIsTyped DEF TicketIInv, TicketTypeOK
<1>2. UsedIsRemembered'
    BY DEF TicketIInv, UsedIsRemembered
<1>3. StreamsAreSound'
    BY PurgedIsTyped, StreamsUntouched DEF TicketIInv
<1>. QED
    BY <1>1, <1>2, <1>3 DEF TicketIInv

LEMMA SweepKeeps ==
    ASSUME TicketIInv, NEW k \in Tickets, Sweep(k)
    PROVE  TicketIInv'
<1>. USE DEF Sweep, Forgettable
<1>1. TicketTypeOK'
    BY DEF TicketIInv, TicketTypeOK
<1>2. UsedIsRemembered'
    BY DEF TicketIInv, UsedIsRemembered
<1>3. StreamsAreSound'
    BY StreamsUntouched DEF TicketIInv
<1>. QED
    BY <1>1, <1>2, <1>3 DEF TicketIInv

LEMMA TicketTickKeeps ==
    ASSUME TicketsAssumption, TicketIInv, TicketTick
    PROVE  TicketIInv'
<1>. USE DEF TicketTick
<1>1. now' \in 0..MaxTicketTime /\ now' \in Nat /\ now <= now'
    BY DEF TicketIInv, TicketTypeOK, TicketsAssumption
<1>2. TicketTypeOK'
    BY <1>1 DEF TicketIInv, TicketTypeOK
<1>3. UsedIsRemembered'
    BY <1>1, TicketsUntouched DEF TicketIInv
<1>4. StreamsAreSound'
    BY StreamsUntouched DEF TicketIInv
<1>. QED
    BY <1>2, <1>3, <1>4 DEF TicketIInv

\* Every step keeps the invariant, and lets a ticket open an export once at most.
LEMMA TicketNextKeeps ==
    ASSUME TicketsAssumption, TicketIInv, [TicketNext]_ticketVars
    PROVE  TicketIInv' /\ [OpensOnce]_ticketVars
<1>1. CASE UNCHANGED ticketVars
    BY <1>1 DEF ticketVars, TicketIInv, TicketTypeOK, UsedIsRemembered, StreamsAreSound, LastRow
<1>2. CASE TicketTick
    BY <1>2, TicketTickKeeps DEF TicketTick, OpensOnce
<1>3. CASE RaiseVersion \/ \E s \in Logins, how \in {"rotated", "ended"} : EndSignIn(s, how)
    BY <1>3, SignInEndKeeps DEF RaiseVersion, EndSignIn, OpensOnce
<1>4. CASE DeleteConversation
    BY <1>4, DeletionKeeps DEF DeleteConversation, OpensOnce
<1>5. CASE \E s \in Logins, k \in Tickets : CreateExportTicket(s, k)
    BY <1>5, CreateTicketKeeps DEF CreateExportTicket, OpensOnce
<1>6. CASE \E i \in Calls, k \in Tickets : Present(i, k)
    BY <1>6, PresentKeeps DEF Present, OpensOnce
<1>7. CASE \E i \in Calls : Consume(i)
    BY <1>7, ConsumeKeeps
<1>8. CASE \E i \in Calls : StreamPage(i)
    BY <1>8, StreamPageKeeps DEF StreamPage, OpensOnce
<1>9. CASE \E i \in Calls, s \in Logins : ExportSession(i, s)
    BY <1>9, ExportSessionKeeps DEF ExportSession, OpensOnce
<1>10. CASE \E r \in 1..MaxRow : StoreRow(r)
    BY <1>10, StoreRowKeeps DEF StoreRow, OpensOnce
<1>11. CASE \E k \in Tickets : Sweep(k)
    BY <1>11, SweepKeeps DEF Sweep, OpensOnce
<1>. QED
    BY <1>1, <1>2, <1>3, <1>4, <1>5, <1>6, <1>7, <1>8, <1>9, <1>10, <1>11 DEF TicketNext

\* The invariant of ExportTickets: a ticket that was redeemed is in the denylist or
\* has expired, and an export has yielded, in order, what was there when it began up
\* to the last row of its last page.
THEOREM TicketInvariance == TicketSpec => []TicketIInv
<1>1. TicketInit => TicketIInv
    BY TicketInitSound, TicketsAssumption
<1>2. TicketIInv /\ [TicketNext]_ticketVars => TicketIInv'
    BY TicketNextKeeps, TicketsAssumption
<1>. QED
    BY <1>1, <1>2, PTL DEF TicketSpec

\* consume_export_ticket, the sweep of the denylist and stream_session_export: a
\* ticket opens one export, of a live sign-in and a kept conversation, and an export
\* is whole: for any number of tickets, calls and sign-ins, any page and any rows.
THEOREM TicketsOpenOneExport == TicketSpec => TicketOpensOneExport
<1>1. TicketIInv => ExportIsWhole
    BY DEF TicketIInv, StreamsAreSound, ExportIsWhole
<1>2. TicketIInv /\ [TicketNext]_ticketVars => [OpensOnce]_ticketVars
    BY TicketNextKeeps, TicketsAssumption
<1>. QED
    BY <1>1, <1>2, TicketInvariance, PTL DEF TicketSpec, TicketOpensOneExport
=============================================================================
