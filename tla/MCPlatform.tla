----------------------------- MODULE MCPlatform -----------------------------
(***************************************************************************)
(* Model-checking instances of what the platform does with content: chat   *)
(* turns, the keys of stored messages, callbacks of the browser interface, *)
(* exports, data-loss prevention, the correlation of the audit log and its *)
(* anchors, and the maintenance loop.                                      *)
(*                                                                         *)
(* As in MCAccountAccess, a behaviour is one of a single component, named  *)
(* by `load'; the variables of the others rest in it.                      *)
(***************************************************************************)
EXTENDS ChatTurns, EnvelopeKeys, Maintenance, UiCallbacks, Dlp, AuditCheckpoint,
        ExportTickets, Correlation, TLC

CONSTANTS Loads, v1, u1, u2, s1, s2, e1, e2, e3

VARIABLE load

others == <<envelopeVars, maintenanceVars, callbackVars, dlpVars, anchorVars>>
reading == <<ticketVars, correlationVars>>
everything == <<load, reading, vars, others>>

Resting == 0

-----------------------------------------------------------------------------
(* The components, each with its bounds.                                   *)

\* Events of two accounts and two addresses, with thresholds of two.
Ann == 1
Bob == 2
Event(type, outcome, actor, ip) == [type |-> type, outcome |-> outcome, actor |-> actor, ip |-> ip]
AuditEvents == {Event("login", "failure", Ann, "here"), Event("login", "failure", Ann, "there"),
           Event("mfa", "failure", Ann, "unknown"), Event("login", "success", Ann, "here"),
           Event("login", "blocked", Bob, "here"), Event("mfa", "success", Bob, "there"),
           Event("denied", "failure", Ann, "here"), Event("signature", "blocked", 0, "here")}

\* A text of five characters with two encoded parts and one inside both, and room
\* for three of the four views.
Span(start, end) == [start |-> start, end |-> end]
Found(start, end, type, class) == [start |-> start, end |-> end, type |-> type, class |-> class]
DecodedInto == [v \in Views |-> CASE v = "text"   -> <<"entity", "token">>
                                 [] v = "entity" -> <<"inner">>
                                 [] v = "token"  -> <<"inner", "text">>
                                 [] v = "inner"  -> <<"entity">>]
ComesFrom == [v \in Views |-> CASE v = "text"   -> Span(1, 6)
                               [] v = "entity" -> Span(2, 5)
                               [] v = "token"  -> Span(4, 6)
                               [] v = "inner"  -> Span(4, 5)]
Lengths == [v \in Views |-> CASE v = "text" -> 5 [] v = "entity" -> 3 [] OTHER -> 1]
Findable == {Found(3, 4, "email", 2), Found(2, 5, "phone", 2), Found(4, 5, "tax", 3), Found(4, 5, "key", 3)}

-----------------------------------------------------------------------------

OnTurns     == load = "turns"       /\ UNCHANGED <<load, reading, others>>
OnDays      == load = "days"        /\ UNCHANGED <<load, reading, others>>
OnKeys      == load = "keys"        /\ UNCHANGED <<load, reading, vars, maintenanceVars, callbackVars, dlpVars, anchorVars>>
OnScripts   == load = "scripts"     /\ UNCHANGED <<load, reading, vars, maintenanceVars, callbackVars, dlpVars, anchorVars>>
OnCallbacks == load = "callbacks"   /\ UNCHANGED <<load, reading, vars, envelopeVars, maintenanceVars, dlpVars, anchorVars>>
OnTickets   == load = "tickets"     /\ UNCHANGED <<load, vars, others, correlationVars>>
OnExport    == load = "export"      /\ UNCHANGED <<load, vars, others, correlationVars>>
OnFindings  == load = "findings"    /\ UNCHANGED <<load, vars, others, ticketVars>>
OnText      == load = "text"        /\ UNCHANGED <<load, reading, vars, envelopeVars, maintenanceVars, callbackVars, anchorVars>>
OnAnchor    == load = "anchoring"   /\ UNCHANGED <<load, reading, vars, envelopeVars, maintenanceVars, callbackVars, dlpVars>>
OnDamage    == load = "damage"      /\ UNCHANGED <<load, reading, vars, envelopeVars, maintenanceVars, callbackVars, dlpVars>>
OnLoop      == load = "loop"        /\ UNCHANGED <<load, reading, vars, envelopeVars, callbackVars, dlpVars, anchorVars>>

\* Components that do not run: what their invariants look at is empty, the rest
\* plays no part.
KeysRest ==
    /\ msg = [m \in Msgs |-> NewMsg] /\ conf = Resting /\ env = Resting /\ chat = Resting
    /\ keyEpoch = Resting /\ account = Resting /\ cache = Resting /\ deks = Resting
    /\ rot = Resting /\ script = Resting

LoopRests ==
    /\ at = [w \in Workers |-> "off"] /\ stopping = Resting /\ due = Resting /\ leader = Resting
    /\ cycleKey = Resting /\ claimed = Resting /\ todo = Resting /\ age = Resting
    /\ strayed = Resting /\ faults = Resting

CallbacksRest ==
    /\ ev = [e \in Events |-> NoEvent] /\ acted = [e \in Events |-> "none"] /\ retained = {}
    /\ state = Resting /\ outputLock = Resting /\ admitting = Resting /\ epoch = Resting

TextRests ==
    /\ pc = "scan" /\ len = Resting /\ finds = Resting /\ decodes = Resting /\ declared = Resting
    /\ confirmed = Resting /\ toInspect = Resting /\ decoding = Resting /\ seen = Resting
    /\ total = Resting /\ spans = Resting /\ cut = Resting /\ unmerged = Resting
    /\ merged = Resting /\ decision = Resting

MCInit ==
    /\ load \in Loads
    /\ AnchorInit
    /\ Init /\ (load \notin {"turns", "days"} => ~client)
    /\ IF load \in {"keys", "scripts"} THEN EnvelopeInit ELSE KeysRest
    /\ IF load = "loop" THEN MaintenanceInit ELSE LoopRests
    /\ IF load = "callbacks" THEN CallbackInit ELSE CallbacksRest
    /\ IF load = "text" THEN DlpInit ELSE TextRests
    /\ TicketInit /\ CorrelationInit

\* Two messages of one account in one conversation; consent is given, withdrawn
\* and given again.
TurnsNext ==
    \/ OnTurns /\ \E on \in BOOLEAN : UpdateAiConsent(v1, on)
    \/ OnTurns /\ \E class \in Classes : CreateSession(v1, s2, "secure", class)
    \/ OnTurns /\ \E mode \in {"secure", "private_e2ee"}, class \in Classes : UpdateSessionSecurity(s2, mode, class)
    \/ OnTurns /\ DeleteSession(s2)
    \/ OnTurns /\ \E t \in Turns, x, y, z \in BOOLEAN : Admit(t, v1, s2, x, y, z)
    \/ OnTurns /\ \E t \in Turns : LockAndCheck(t)
    \/ OnTurns /\ \E t \in Turns : Claim(t)
    \/ OnTurns /\ \E t \in Turns, ok \in BOOLEAN : Answer(t, ok)
    \/ OnTurns /\ \E t \in Turns : Store(t)
    \/ OnTurns /\ Crash

\* A conversation of an older release and a new one, over two days, and one
\* message.
DaysNext ==
    \/ OnDays /\ Tick
    \/ OnDays /\ BackfillRead
    \/ OnDays /\ BackfillWrite
    \/ OnDays /\ BackfillFails
    \/ OnDays /\ SweepDelete
    \/ OnDays /\ \E mode \in Modes : CreateSession(v1, s2, mode, "internal")
    \/ OnDays /\ \E s \in Sessions, mode \in Modes : UpdateSessionSecurity(s, mode, "internal")
    \/ OnDays /\ \E s \in Sessions : DeleteSession(s)
    \/ OnDays /\ \E t \in Turns, s \in Sessions :
                    (\A o \in Turns : turn[o] = Idle) /\ Admit(t, v1, s, FALSE, TRUE, FALSE)
    \/ OnDays /\ \E t \in Turns : LockAndCheck(t)
    \/ OnDays /\ \E t \in Turns : Claim(t)
    \/ OnDays /\ \E t \in Turns : Store(t)

\* The conversation and the message of an older release, a new message and an
\* account's secrets, while keys are rotated and the operator replaces one.
KeysNext ==
    \/ OnKeys /\ AddKey
    \/ OnKeys /\ RetireKey
    \/ OnKeys /\ ScriptDies
    \/ OnKeys /\ RewrapRead
    \/ OnKeys /\ RewrapCommit
    \/ OnKeys /\ MigrateRead
    \/ OnKeys /\ \E m \in Msgs : MigrateRow(m)
    \/ OnKeys /\ MigrateEnd
    \/ OnKeys /\ RotateLegacyRead
    \/ OnKeys /\ \E m \in Msgs : RotateLegacyRow(m)
    \/ OnKeys /\ RotateLegacyEnd
    \/ OnKeys /\ RotateRead(s1)
    \/ OnKeys /\ \E w \in Processes : RotateCommit(w, s1)
    \/ OnKeys /\ \E w \in Processes : Restart(w)
    \/ OnKeys /\ \E w \in Processes : EnrolSeed(w)
    \/ OnKeys /\ \E w \in Processes : EncryptOtherSecret(w)
    \/ OnKeys /\ \E w \in Processes : \E x \in cache[w] : Forget(w, x)
    \/ OnKeys /\ \E w \in Processes, m \in Msgs : ReadMessage(w, m)
    \/ OnKeys /\ \E w \in Processes : DeleteSessionKeys(w, s1)
    \/ OnKeys /\ \E w \in Processes : StoreMessage(w, s1, 2)

\* The scripts beside a conversation that begins, changes its mode and ends.
ScriptsNext ==
    \/ OnScripts /\ AddKey
    \/ OnScripts /\ RetireKey
    \/ OnScripts /\ ScriptDies
    \/ OnScripts /\ RewrapRead
    \/ OnScripts /\ RewrapCommit
    \/ OnScripts /\ MigrateRead
    \/ OnScripts /\ \E m \in Msgs : MigrateRow(m)
    \/ OnScripts /\ MigrateEnd
    \/ OnScripts /\ RotateLegacyRead
    \/ OnScripts /\ \E m \in Msgs : RotateLegacyRow(m)
    \/ OnScripts /\ RotateLegacyEnd
    \/ OnScripts /\ \E w \in Processes : Restart(w)
    \/ OnScripts /\ \E w \in Processes : CreateSessionKeys(w, s2)
    \/ OnScripts /\ \E w \in Processes : UpdateSessionKeys(w, s2)
    \/ OnScripts /\ \E w \in Processes, s \in Conversations : DeleteSessionKeys(w, s)
    \/ OnScripts /\ \E w \in Processes, s \in Conversations : StoreMessage(w, s, 2)

CallbacksNext ==
    \/ OnCallbacks /\ Evict
    \/ OnCallbacks /\ \E e \in Events, job \in Jobs : Push(e, job)
    \/ OnCallbacks /\ \E e \in Events : Capture(e)
    \/ OnCallbacks /\ \E e \in Events : Prune(e)
    \/ OnCallbacks /\ \E e \in Events : Remove(e)
    \/ OnCallbacks /\ \E e \in Events : Process(e)
    \/ OnCallbacks /\ \E e \in Events : Preprocess(e)
    \/ OnCallbacks /\ \E e \in Events : Invoke(e)
    \/ OnCallbacks /\ \E e \in Events, ok \in BOOLEAN : Return(e, ok)
    \/ OnCallbacks /\ \E e \in Events : PublishOutputs(e)
    \/ OnCallbacks /\ \E e \in Events : PublishGeneration(e)

\* Two calls redeem two tickets of a sign-in.
TicketsNext ==
    \/ OnTickets /\ TicketTick
    \/ OnTickets /\ RaiseVersion
    \/ OnTickets /\ DeleteConversation
    \/ OnTickets /\ \E k \in {e1, e2} : CreateExportTicket(s1, k)
    \/ OnTickets /\ \E how \in {"rotated", "ended"} : EndSignIn(s1, how)
    \/ OnTickets /\ \E i \in {e1, e2}, k \in {e1, e2} : Present(i, k)
    \/ OnTickets /\ \E i \in {e1, e2} : Consume(i)
    \/ OnTickets /\ \E i \in {e1, e2} : StreamPage(i)
    \/ OnTickets /\ \E k \in {e1, e2} : Sweep(k)

\* One export of a private conversation, in pages of two of its five places.
ExportNext ==
    \/ OnExport /\ TicketTick
    \/ OnExport /\ DeleteConversation
    \/ OnExport /\ ExportSession(e1, s1)
    \/ OnExport /\ StreamPage(e1)
    \/ OnExport /\ \E r \in 1..MaxRow : StoreRow(r)

FindingsNext ==
    \/ OnFindings /\ WindowMoves
    \/ OnFindings /\ \E kind \in AuditEvents, minute \in 0..MaxMinute : RecordRow(kind, minute)

TextNext ==
    \/ OnText /\ ScanView
    \/ OnText /\ QueueView
    \/ OnText /\ ScanEnds
    \/ OnText /\ Decide
    \/ OnText /\ \E span \in unmerged : Merge(span)
    \/ OnText /\ Join

\* Two of three processes anchor two events in a sink, and an administrator
\* verifies.
AnchoringNext ==
    \/ OnAnchor /\ nextEvent <= 2 /\ AppendEvent
    \/ OnAnchor /\ nextEvent <= 2 /\ VerifyRequested
    \/ OnAnchor /\ WalkChain
    \/ OnAnchor /\ ReportVerification
    \/ OnAnchor /\ \E i \in 1..Len(trail), w \in {e1, e2} : MaybeAnchor(w, i)
    \/ OnAnchor /\ \E w \in {e1, e2} : EnsureLatestAnchored(w)
    \/ OnAnchor /\ nextEvent <= 2 /\ \E w \in {e1, e2} : CreateAuditCheckpoint(w)
    \/ OnAnchor /\ \E w \in {e1, e2} : VerifyPrevious(w)
    \/ OnAnchor /\ \E w \in {e1, e2} : ReadLatestEvent(w)
    \/ OnAnchor /\ \E w \in {e1, e2} : FindExisting(w)
    \/ OnAnchor /\ \E w \in {e1, e2} : DeliverFails(w)
    \/ OnAnchor /\ \E w \in {e1, e2} : DeliverySucceeds(w)
    \/ OnAnchor /\ \E w \in {e1, e2} : InsertCheckpoint(w)
    \/ OnAnchor /\ \E w \in {e1, e2} : ProcessCrash(w)
    \/ OnAnchor /\ \E w \in {e1, e2} : BackoffEnds(w)
    \/ OnAnchor /\ \E w \in {e1, e2} : ProbeFallsDue(w)

\* Damage to a log of three events while anchors are taken.
DamageNext ==
    \/ OnDamage /\ AppendEvent
    \/ OnDamage /\ \E i \in 1..Len(trail) : Damage(i)
    \/ OnDamage /\ \E i \in 1..Len(trail), w \in {e1, e2} : MaybeAnchor(w, i)
    \/ OnDamage /\ \E w \in {e1, e2} : VerifyPrevious(w)
    \/ OnDamage /\ \E w \in {e1, e2} : ReadLatestEvent(w)
    \/ OnDamage /\ \E w \in {e1, e2} : FindExisting(w)
    \/ OnDamage /\ \E w \in {e1, e2} : DeliverySucceeds(w)
    \/ OnDamage /\ \E w \in {e1, e2} : InsertCheckpoint(w)

LoopNext ==
    \/ OnLoop /\ MaintenanceTick
    \/ OnLoop /\ \E w \in Workers : Start(w)
    \/ OnLoop /\ \E w \in Workers : Stop(w)
    \/ OnLoop /\ \E w \in Workers : Drained(w)
    \/ OnLoop /\ \E w \in Workers : WorkerCrash(w)
    \/ OnLoop /\ \E w \in Workers : LoseLock(w)
    \/ OnLoop /\ \E w \in Workers : Begin(w)
    \/ OnLoop /\ \E w \in Workers : TryLock(w)
    \/ OnLoop /\ \E w \in Workers : ClaimCycle(w)
    \/ OnLoop /\ \E w \in Workers : CoordinationFails(w)
    \/ OnLoop /\ \E w \in Workers, found \in SUBSET Alerts : DetectAnomalies(w, found)
    \/ OnLoop /\ \E w \in Workers, a \in Alerts : Report(w, a)
    \/ OnLoop /\ \E w \in Workers, failed \in BOOLEAN : EndAnomalies(w, failed)
    \/ OnLoop /\ \E w \in Workers : Checkpoint(w)
    \/ OnLoop /\ \E w \in Workers : RetentionPhase(w)
    \/ OnLoop /\ \E w \in Workers : Unlock(w)

MCNext ==
    \/ TurnsNext \/ DaysNext \/ KeysNext \/ ScriptsNext
    \/ CallbacksNext \/ TicketsNext \/ ExportNext
    \/ FindingsNext \/ TextNext \/ AnchoringNext \/ DamageNext \/ LoopNext

MCSpec == MCInit /\ [][MCNext]_everything

\* Calls, tickets, callbacks and anchoring processes are interchangeable in every
\* component; so are workers, turns and processes, which are the same values.
Symmetry == Permutations({e1, e2, e3}) \cup Permutations(Workers)

=============================================================================
