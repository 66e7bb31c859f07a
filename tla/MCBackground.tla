---------------------------- MODULE MCBackground ----------------------------
(***************************************************************************)
(* Model-checking instances of what has to keep going: the audit log and   *)
(* its anchoring, the mailer, the maintenance loop and chat turns.         *)
(*                                                                         *)
(* As in MCAccountAccess, a behaviour is one of a single component, named  *)
(* by `load'.  AuditLog is extended: its variables are its own, and rest   *)
(* in the behaviours of the others, which share the variables x1..x10.     *)
(***************************************************************************)
EXTENDS AuditLog

CONSTANTS Loads, p1, p2, v1, v2, None

VARIABLES load, x1, x2, x3, x4, x5, x6, x7, x8, x9, x10

shared == <<x1, x2, x3, x4, x5, x6, x7, x8, x9, x10>>
state == <<load, shared, vars>>

Unused == 0
Procs == {p1, p2}

-----------------------------------------------------------------------------
(* The components, each with its bounds.                                   *)

\* Two processes that anchor in a sink, a crash.
C == INSTANCE AuditCheckpoint WITH
        trail <- x1, nextEvent <- x2, checkpoints <- x3, worm <- x4, call <- x5, backoff <- x6,
        probeDue <- x7, audit <- x8, evidence <- x9, crashes <- x10,
        Endpoint <- TRUE, AnchorInterval <- 2, UnsealedRows <- 0, MayDamage <- FALSE,
        MaxEvents <- 2, MaxCrashes <- 1

\* Two messages for one slot, through closing and starting again.
M == INSTANCE Mailer WITH
        mail <- x1, mailsActive <- x2, stage <- x3, sentMails <- x4,
        Mails <- Procs, MailSlots <- 1, Workers <- 1

\* Two workers whose cycles are spaced by Redis, two faults.
R == INSTANCE Maintenance WITH
        at <- x1, stopping <- x2, due <- x3, leader <- x4, cycleKey <- x5, claimed <- x6,
        todo <- x7, age <- x8, strayed <- x9, faults <- x10,
        Workers <- Procs, Nobody <- None, HasRedis <- TRUE, Interval <- 2, AlertLife <- 1,
        Alerts <- {}, MaxLocalAlerts <- 1, MaxFaults <- 2

\* Two messages of one account, one slot at the provider.
T == INSTANCE ChatTurns WITH
        clock <- x1, stamp <- x2, client <- x3, consent <- x4, conv <- x5, msgs <- x6,
        lock <- x7, turn <- x8, active <- x9, sweep <- x10,
        Owners <- {v1}, Sessions <- {v2}, Turns <- Procs, Legacy <- v2, Quota <- 4, MaxChats <- 1,
        Slots <- 1, History <- 2, SecureDays <- 2, ConfidentialDays <- 1, MaxStamp <- 1, MaxClock <- 0

-----------------------------------------------------------------------------

Resting  == UNCHANGED <<load, vars>>
OnLog    == load = "log"       /\ UNCHANGED <<load, shared>>
OnAnchor == load = "anchoring" /\ Resting
OnMail   == load = "mail"      /\ Resting /\ UNCHANGED <<x5, x6, x7, x8, x9, x10>>
OnLoop   == load = "loop"      /\ Resting
OnTurns  == load = "turns"     /\ Resting

MCInit ==
    /\ load \in Loads /\ Init
    /\ load # "log" => \A w \in Writers : txn[w].row = v1
    /\ \/ load = "log"       /\ x1 = Unused /\ x2 = Unused /\ x3 = Unused /\ x4 = Unused /\ x5 = Unused
                             /\ x6 = Unused /\ x7 = Unused /\ x8 = Unused /\ x9 = Unused /\ x10 = Unused
       \/ load = "anchoring" /\ C!AnchorInit
       \/ load = "mail"      /\ M!MailInit /\ x5 = Unused /\ x6 = Unused /\ x7 = Unused /\ x8 = Unused
                                           /\ x9 = Unused /\ x10 = Unused
       \/ load = "loop"      /\ R!MaintenanceInit
       \/ load = "turns"     /\ T!Init

LogNext ==
    \/ OnLog /\ \E w \in Writers, row \in Rows, size \in 1..MaxBatch : Begin(w, row, size)
    \/ OnLog /\ \E w \in Writers : Flush(w)
    \/ OnLog /\ \E w \in Writers : AppendLock(w)
    \/ OnLog /\ \E w \in Writers : Seal(w)
    \/ OnLog /\ \E w \in Writers : Commit(w)
    \/ OnLog /\ \E w \in Writers : CommitUnsealed(w)
    \/ OnLog /\ \E w \in Writers : Deliver(w)
    \/ OnLog /\ \E w \in Writers : Abort(w)
    \/ OnLog /\ Reconfigure
    \/ OnLog /\ RepairRead
    \/ OnLog /\ RepairCommit

AnchorNext ==
    \/ OnAnchor /\ C!AppendEvent
    \/ OnAnchor /\ \E i \in 1..Len(x1), p \in Procs : C!MaybeAnchor(p, i)
    \/ OnAnchor /\ \E p \in Procs : C!EnsureLatestAnchored(p)
    \/ OnAnchor /\ \E p \in Procs : C!VerifyPrevious(p)
    \/ OnAnchor /\ \E p \in Procs : C!ReadLatestEvent(p)
    \/ OnAnchor /\ \E p \in Procs : C!FindExisting(p)
    \/ OnAnchor /\ \E p \in Procs : C!DeliverFails(p)
    \/ OnAnchor /\ \E p \in Procs : C!DeliverySucceeds(p)
    \/ OnAnchor /\ \E p \in Procs : C!InsertCheckpoint(p)
    \/ OnAnchor /\ \E p \in Procs : C!ProcessCrash(p)
    \/ OnAnchor /\ \E p \in Procs : C!BackoffEnds(p)

MailNext ==
    \/ OnMail /\ \E m \in Procs : M!Reserve(m)
    \/ OnMail /\ \E m \in Procs : M!Submit(m)
    \/ OnMail /\ \E m \in Procs : M!Take(m)
    \/ OnMail /\ \E m \in Procs, arrives \in BOOLEAN : M!Deliver(m, arrives)
    \/ OnMail /\ \E m \in Procs : M!Forget(m)
    \/ OnMail /\ M!CloseMailer
    \/ OnMail /\ M!Shutdown
    \/ OnMail /\ M!Restart
    \/ OnMail /\ M!MailLost

LoopNext ==
    \/ OnLoop /\ R!MaintenanceTick
    \/ OnLoop /\ \E w \in Procs : R!Start(w)
    \/ OnLoop /\ \E w \in Procs : R!Stop(w)
    \/ OnLoop /\ \E w \in Procs : R!Drained(w)
    \/ OnLoop /\ \E w \in Procs : R!WorkerCrash(w)
    \/ OnLoop /\ \E w \in Procs : R!LoseLock(w)
    \/ OnLoop /\ \E w \in Procs : R!Begin(w)
    \/ OnLoop /\ \E w \in Procs : R!TryLock(w)
    \/ OnLoop /\ \E w \in Procs : R!ClaimCycle(w)
    \/ OnLoop /\ \E w \in Procs : R!CoordinationFails(w)
    \/ OnLoop /\ \E w \in Procs : R!DetectAnomalies(w, {})
    \/ OnLoop /\ \E w \in Procs, failed \in BOOLEAN : R!EndAnomalies(w, failed)
    \/ OnLoop /\ \E w \in Procs : R!Checkpoint(w)
    \/ OnLoop /\ \E w \in Procs : R!RetentionPhase(w)
    \/ OnLoop /\ \E w \in Procs : R!Unlock(w)

TurnsNext ==
    \/ OnTurns /\ \E on \in BOOLEAN : T!UpdateAiConsent(v1, on)
    \/ OnTurns /\ T!BackfillRead
    \/ OnTurns /\ T!BackfillWrite
    \/ OnTurns /\ \E t \in Procs : T!Admit(t, v1, v2, FALSE, TRUE, FALSE)
    \/ OnTurns /\ \E t \in Procs : T!LockAndCheck(t)
    \/ OnTurns /\ \E t \in Procs : T!Claim(t)
    \/ OnTurns /\ \E t \in Procs, ok \in BOOLEAN : T!Answer(t, ok)
    \/ OnTurns /\ \E t \in Procs : T!Store(t)
    \/ OnTurns /\ T!Crash

MCNext == LogNext \/ AnchorNext \/ MailNext \/ LoopNext \/ TurnsNext

-----------------------------------------------------------------------------
(* Fairness: that of the components.  Only one of them runs in a behaviour,*)
(* so fairness of a disjunction over them is fairness of each.             *)

Strong(p) ==
    \/ OnLog /\ Step(p)
    \/ OnAnchor /\ C!DeliverySucceeds(p)
    \/ OnTurns /\ T!TurnStep(p)

Weak(p) ==
    \/ OnAnchor /\ (C!EnsureLatestAnchored(p) \/ C!AnchorStep(p))
    \/ OnMail /\ M!MailStep(p)
    \/ OnLoop /\ R!WorkerStep(p)

Clock(p) ==
    \/ OnAnchor /\ C!BackoffEnds(p)
    \/ OnLoop /\ R!MaintenanceTick

MCSpec ==
    /\ MCInit /\ [][MCNext]_state
    /\ \A p \in Procs : SF_state(Strong(p)) /\ WF_state(Weak(p)) /\ WF_state(Clock(p))

-----------------------------------------------------------------------------
(* The properties of the components, each in its own behaviours.           *)

\* Every event is eventually covered by an anchor the sink acknowledged.
EveryEventIsAnchored ==
    \A n \in 1..2 :
        (load = "anchoring" /\ Len(x1) >= n) ~>
        (load = "anchoring" => Len(x1) >= n /\ \E c \in x3 : c.delivered /\ c.event >= x1[n].id)

\* Every slot of the mailer is held by one message, nothing is left for a worker to
\* take once it is closed, and a message that took a slot gives it back.
EverySlotReturns ==
    /\ [](load = "mail" => M!MailTypeOK /\ M!MailSlotsAreAccounted)
    /\ \A m \in Procs : (load = "mail" /\ x1[m] \in M!Holding) ~> (load = "mail" => x1[m] \notin M!Holding)

\* The retention sweep keeps being run by some worker, whatever failed before it.
SweepsKeepComing == []<>(load = "loop" => \E w \in Procs : x1[w] = "retention")

\* A message that was admitted is answered or refused; nobody waits for ever behind
\* a provider call.
EveryTurnEnds ==
    \A t \in Procs : (load = "turns" /\ x8[t].pc = "waiting") ~> (load = "turns" => x8[t].pc = "over")
=============================================================================
