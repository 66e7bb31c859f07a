--------------------------- MODULE AuditCheckpoint ---------------------------
(***************************************************************************)
(* Anchoring the audit chain in an append-only sink outside the database   *)
(* (src/app/audit_checkpoint.py) from several worker processes, and the    *)
(* administrator's verification of chain and anchor together (main.py).    *)
(*                                                                         *)
(* Appending is one step here: AuditLog shows that record_audits appends   *)
(* linked batches atomically.  Each process runs at most one anchoring at  *)
(* a time (_delivery_lock); its statements interleave with those of the    *)
(* other processes, with new events, with crashes and with damage.         *)
(***************************************************************************)
EXTENDS HashChain, FiniteSets, FiniteSetsExt

CONSTANTS
    Procs,          \* worker processes
    Endpoint,       \* audit_worm_endpoint is configured
    AnchorInterval, \* audit_checkpoint_interval
    UnsealedRows,   \* unsealed rows at the start
    MayDamage,      \* rows may be altered or lost behind the application's back
    MaxEvents,      \* bound: ids handed out
    MaxCrashes      \* bound: worker crashes

ASSUME CheckpointAssumption == Endpoint \in BOOLEAN /\ UnsealedRows \in Nat

VARIABLES
    trail,          \* audit_events
    nextEvent,      \* its id sequence
    checkpoints,    \* audit_checkpoints; signatures always verify
    worm,           \* documents the external sink has stored
    call,           \* by process: the anchoring in progress
    backoff,        \* by process: a delivery failed a moment ago
    probeDue,       \* by process: no delivery succeeded recently
    audit,          \* the administrator's verification
    evidence,       \* history: a sealed row at or below an anchor was damaged
    crashes

anchorVars == <<trail, nextEvent, checkpoints, worm, call, backoff, probeDue, audit, evidence, crashes>>

Doc == [event : Nat, root : Hashes \cup {NoHash}]
Pcs == {"idle", "verify", "read", "existing", "deliver", "insert", "again", "probe"}

AnchorTypeOK ==
    /\ trail \in Seq(AuditEvent)
    /\ nextEvent \in Nat
    /\ checkpoints \in SUBSET [event : Nat, root : Hashes, delivered : BOOLEAN]
    /\ worm \in SUBSET [event : Nat, root : Hashes]
    /\ call \in [Procs -> [pc : Pcs, ensure : BOOLEAN, doc : Doc]]
    /\ backoff \in [Procs -> BOOLEAN]
    /\ probeDue \in [Procs -> BOOLEAN]
    /\ audit \in [pc : {"idle", "recorded", "walked"}, intact : BOOLEAN, tip : Doc, high : BOOLEAN]
    /\ evidence \in BOOLEAN
    /\ crashes \in Nat

NoDoc == [event |-> 0, root |-> NoHash]
NoCall == [pc |-> "idle", ensure |-> FALSE, doc |-> NoDoc]

AnchorInit ==
    /\ trail = [i \in 1..UnsealedRows |-> Unsealed(i, i)]
    /\ nextEvent = UnsealedRows + 1
    /\ checkpoints = {}
    /\ worm = {}
    /\ call = [p \in Procs |-> NoCall]
    /\ backoff = [p \in Procs |-> FALSE]
    /\ probeDue = [p \in Procs |-> TRUE]
    /\ audit = [pc |-> "idle", intact |-> FALSE, tip |-> NoDoc, high |-> FALSE]
    /\ evidence = FALSE
    /\ crashes = 0

-----------------------------------------------------------------------------
(* verify_latest.                                                          *)

LatestId == IF trail = << >> THEN 0 ELSE trail[Len(trail)].id
Anchors == {c.event : c \in checkpoints}
LastAnchored == IF checkpoints = {} THEN 0 ELSE Max(Anchors)
LatestCheckpoint == CHOOSE c \in checkpoints : c.event = LastAnchored

\* _integrity_reason is None: the anchored event is there, with that hash.
Agrees(c) == \E i \in 1..Len(trail) : trail[i].id = c.event /\ trail[i].hash = c.root

\* The newest checkpoint and, in the streaming join, every older one.
CheckpointsIntact == \A c \in checkpoints : Agrees(c)

FullyAnchored ==
    /\ checkpoints # {}
    /\ CheckpointsIntact
    /\ LatestCheckpoint.delivered
    /\ LatestId <= LastAnchored

-----------------------------------------------------------------------------
(* The log.                                                                *)

NewEvent == SealEvent(trail, nextEvent, nextEvent)

AppendEvent ==
    /\ nextEvent <= MaxEvents
    /\ trail' = Append(trail, NewEvent)
    /\ nextEvent' = nextEvent + 1
    /\ UNCHANGED <<checkpoints, worm, call, backoff, probeDue, audit, evidence, crashes>>

\* Storage damage or an edit with owner credentials: one row changes, or the
\* rows from i on disappear.  It happens at most once.
Damage(i) ==
    /\ MayDamage /\ ~evidence
    /\ trail[i].id <= LastAnchored /\ Sealed(trail[i])
    /\ \/ trail' = [trail EXCEPT ![i].val = 0]
       \/ trail' = SubSeq(trail, 1, i - 1) \o SubSeq(trail, i + 1, Len(trail))
       \/ trail' = SubSeq(trail, 1, i - 1)
    /\ evidence' = TRUE
    /\ UNCHANGED <<nextEvent, checkpoints, worm, call, backoff, probeDue, audit, crashes>>

-----------------------------------------------------------------------------
(* Anchoring: _anchor, one statement at a time.                            *)

\* ensure_latest_anchored looks again when its anchoring returns.
ReturnCall(p) == call' = [call EXCEPT ![p] = IF call[p].ensure
                                           THEN [NoCall EXCEPT !.pc = "again", !.ensure = TRUE]
                                           ELSE NoCall]
Raise(p) == call' = [call EXCEPT ![p] = NoCall]
Proceed(p, pc) == call' = [call EXCEPT ![p].pc = pc]

StartCall(p, ensure) ==
    /\ call[p].pc = "idle"
    /\ call' = [call EXCEPT ![p] = [NoCall EXCEPT !.pc = "verify", !.ensure = ensure]]

\* maybe_anchor, after this process committed event i.
MaybeAnchor(p, i) ==
    /\ trail[i].id >= LastAnchored + AnchorInterval
    /\ StartCall(p, FALSE)
    /\ UNCHANGED <<trail, nextEvent, checkpoints, worm, backoff, probeDue, audit, evidence, crashes>>

\* create_audit_checkpoint: the request is itself an audit event.
CreateAuditCheckpoint(p) ==
    /\ nextEvent <= MaxEvents
    /\ trail' = Append(trail, NewEvent)
    /\ nextEvent' = nextEvent + 1
    /\ StartCall(p, FALSE)
    /\ UNCHANGED <<checkpoints, worm, backoff, probeDue, audit, evidence, crashes>>

\* ensure_latest_anchored, for readiness and maintenance, and its second look.
EnsureLatestAnchored(p) ==
    /\ call[p].pc = "again" \/ (call[p].pc = "idle" /\ ~(Endpoint /\ backoff[p]))
    /\ trail # << >>
    /\ IF FullyAnchored /\ Endpoint /\ probeDue[p]
         THEN call' = [call EXCEPT ![p] =
                         [pc |-> "probe", ensure |-> FALSE,
                          doc |-> [event |-> LatestCheckpoint.event, root |-> LatestCheckpoint.root]]]
         ELSE \/ /\ ~FullyAnchored /\ StartCall(p, TRUE)
              \/ /\ FullyAnchored \/ call[p].pc = "again"
                 /\ Raise(p)
    /\ UNCHANGED <<trail, nextEvent, checkpoints, worm, backoff, probeDue, audit, evidence, crashes>>

\* Mutation of VerifyPrevious: having no checkpoint yet counts as not intact.
VerifyPreviousStrictly(p) ==
    /\ call[p].pc = "verify"
    /\ IF checkpoints # {} /\ CheckpointsIntact THEN Proceed(p, "read") ELSE Raise(p)
    /\ UNCHANGED <<trail, nextEvent, checkpoints, worm, backoff, probeDue, audit, evidence, crashes>>

\* A newer anchor must not conceal what an older one still shows.
VerifyPrevious(p) ==
    /\ call[p].pc = "verify"
    /\ IF CheckpointsIntact THEN Proceed(p, "read") ELSE Raise(p)
    /\ UNCHANGED <<trail, nextEvent, checkpoints, worm, backoff, probeDue, audit, evidence, crashes>>

ReadLatestEvent(p) ==
    /\ call[p].pc = "read"
    /\ IF trail # << >> /\ Sealed(trail[Len(trail)])
         THEN call' = [call EXCEPT ![p].pc = "existing",
                                   ![p].doc = [event |-> LatestId, root |-> trail[Len(trail)].hash]]
         ELSE ReturnCall(p)
    /\ UNCHANGED <<trail, nextEvent, checkpoints, worm, backoff, probeDue, audit, evidence, crashes>>

FindExisting(p) ==
    /\ call[p].pc = "existing"
    /\ IF call[p].doc.event \in Anchors THEN ReturnCall(p)
       ELSE Proceed(p, IF Endpoint THEN "deliver" ELSE "insert")
    /\ UNCHANGED <<trail, nextEvent, checkpoints, worm, backoff, probeDue, audit, evidence, crashes>>

\* The sink stores the document; the Idempotency-Key makes it store it once.
Stored(p) == worm' = worm \cup {call[p].doc}

\* _deliver raised: nothing arrived, or the answer was lost on the way back.
DeliverFails(p) ==
    /\ call[p].pc \in {"deliver", "probe"}
    /\ Stored(p) \/ UNCHANGED worm
    /\ backoff' = [backoff EXCEPT ![p] = TRUE]
    /\ Raise(p)
    /\ UNCHANGED <<trail, nextEvent, checkpoints, probeDue, audit, evidence, crashes>>

DeliverySucceeds(p) ==
    /\ call[p].pc \in {"deliver", "probe"}
    /\ Stored(p)
    /\ backoff' = [backoff EXCEPT ![p] = FALSE]
    /\ probeDue' = [probeDue EXCEPT ![p] = FALSE]
    /\ IF call[p].pc = "probe" THEN Raise(p) ELSE Proceed(p, "insert")
    /\ UNCHANGED <<trail, nextEvent, checkpoints, audit, evidence, crashes>>

\* INSERT; on a conflict the other worker's row is accepted if it is the same.
InsertCheckpoint(p) ==
    LET c == [event |-> call[p].doc.event, root |-> call[p].doc.root, delivered |-> Endpoint]
    IN  /\ call[p].pc = "insert"
        /\ IF c.event \notin Anchors
             THEN checkpoints' = checkpoints \cup {c} /\ ReturnCall(p)
             ELSE /\ UNCHANGED checkpoints
                  /\ IF c \in checkpoints THEN ReturnCall(p) ELSE Raise(p)
        /\ UNCHANGED <<trail, nextEvent, worm, backoff, probeDue, audit, evidence, crashes>>

\* A worker dies and is started again: what it knew of the sink is gone.
ProcessCrash(p) ==
    /\ crashes < MaxCrashes
    /\ call' = [call EXCEPT ![p] = NoCall]
    /\ backoff' = [backoff EXCEPT ![p] = FALSE]
    /\ probeDue' = [probeDue EXCEPT ![p] = TRUE]
    /\ crashes' = crashes + 1
    /\ UNCHANGED <<trail, nextEvent, checkpoints, worm, audit, evidence>>

\* EXTERNAL_FAILURE_RETRY_SECONDS, or probe_interval_seconds, have passed.
BackoffEnds(p) ==
    /\ backoff[p]
    /\ backoff' = [backoff EXCEPT ![p] = FALSE]
    /\ UNCHANGED <<trail, nextEvent, checkpoints, worm, call, probeDue, audit, evidence, crashes>>

ProbeFallsDue(p) ==
    /\ ~probeDue[p]
    /\ probeDue' = [probeDue EXCEPT ![p] = TRUE]
    /\ UNCHANGED <<trail, nextEvent, checkpoints, worm, call, backoff, audit, evidence, crashes>>

-----------------------------------------------------------------------------
(* verify_audit_chain, for an administrator.                               *)

VerifyRequested ==
    /\ audit.pc = "idle"
    /\ nextEvent <= MaxEvents
    /\ trail' = Append(trail, NewEvent)
    /\ nextEvent' = nextEvent + 1
    /\ audit' = [audit EXCEPT !.pc = "recorded", !.high = FALSE]
    /\ UNCHANGED <<checkpoints, worm, call, backoff, probeDue, evidence, crashes>>

\* verify_chain; a broken chain is recorded, which appends one more event.
WalkChain ==
    /\ audit.pc = "recorded"
    /\ Intact(trail) \/ nextEvent <= MaxEvents
    /\ audit' = [audit EXCEPT !.pc = "walked", !.intact = Intact(trail),
                              !.tip = IF trail = << >> THEN NoDoc
                                      ELSE [event |-> LatestId, root |-> trail[Len(trail)].hash]]
    /\ IF Intact(trail) THEN UNCHANGED <<trail, nextEvent>>
       ELSE trail' = Append(trail, NewEvent) /\ nextEvent' = nextEvent + 1
    /\ UNCHANGED <<checkpoints, worm, call, backoff, probeDue, evidence, crashes>>

\* Mutation of SameScope: the newest anchor is credited to any intact walk.
AnyScope == checkpoints # {}

\* The anchor is about the very row the walk ended at.
SameScope ==
    /\ checkpoints # {}
    /\ audit.tip.event = LastAnchored
    /\ audit.tip.event = LatestId
    /\ audit.tip.root = LatestCheckpoint.root

ReportVerification ==
    /\ audit.pc = "walked"
    /\ audit' = [audit EXCEPT !.pc = "idle",
                              !.high = audit.intact /\ Endpoint /\ FullyAnchored /\ SameScope]
    /\ UNCHANGED <<trail, nextEvent, checkpoints, worm, call, backoff, probeDue, evidence, crashes>>

-----------------------------------------------------------------------------

AnchorStep(p) ==
    \/ VerifyPrevious(p) \/ ReadLatestEvent(p) \/ FindExisting(p)
    \/ DeliverFails(p) \/ DeliverySucceeds(p) \/ InsertCheckpoint(p)

AnchorNext ==
    \/ AppendEvent \/ VerifyRequested \/ WalkChain \/ ReportVerification
    \/ \E i \in 1..Len(trail) : Damage(i) \/ \E p \in Procs : MaybeAnchor(p, i)
    \/ \E p \in Procs :
        \/ CreateAuditCheckpoint(p) \/ EnsureLatestAnchored(p) \/ AnchorStep(p)
        \/ ProcessCrash(p) \/ BackoffEnds(p) \/ ProbeFallsDue(p)

AnchorSpec == AnchorInit /\ [][AnchorNext]_anchorVars

\* The maintenance loop of every process calls ensure_latest_anchored again and
\* again, calls end, the back-off ends, and a sink that is asked for ever does
\* not refuse for ever.
FairAnchorSpec ==
    /\ AnchorSpec
    /\ \A p \in Procs : /\ WF_anchorVars(EnsureLatestAnchored(p) \/ AnchorStep(p))
                        /\ WF_anchorVars(BackoffEnds(p))
                        /\ SF_anchorVars(DeliverySucceeds(p))

-----------------------------------------------------------------------------
(* Properties.                                                             *)

\* A checkpoint row that says it was delivered was delivered: whatever crashes,
\* time-outs and races between workers, the sink holds that very document.
WormHoldsCheckpoints ==
    \A c \in checkpoints : c.delivered => [event |-> c.event, root |-> c.root] \in worm

\* Workers that anchor the same event, retry after a lost answer or start again
\* after a crash never leave two different documents for it in the sink.
OneDocumentPerEvent == \A d, e \in worm : d.event = e.event => d = e

\* Damage to an anchored part of the log stays visible to the verification for
\* ever: no anchor taken later, even one whose check ran before the damage,
\* conceals it.
EvidenceIsKept == evidence => ~(Intact(trail) /\ CheckpointsIntact)

\* high_assurance_intact is reported only for a walk whose last row is the one
\* the sink has, never for rows appended behind the walk.
HighAssuranceIsEarned == audit.high => audit.tip \in worm

\* All of them, with the types: a checkpoint marked delivered is in the sink, the
\* sink holds one document per event, high assurance is reported only for the very
\* row the sink has, and damage to an anchored part of the log stays visible for
\* ever, through crashes, time-outs and races between workers.
AnchorsAreEvidence ==
    /\ AnchorTypeOK
    /\ WormHoldsCheckpoints
    /\ OneDocumentPerEvent
    /\ EvidenceIsKept
    /\ HighAssuranceIsEarned

\* The tail is caught up: every event is eventually covered by an anchor that
\* the sink acknowledged, through outages, lost answers and crashes.
EveryEventIsAnchored ==
    \A n \in 1..MaxEvents : (Len(trail) >= n) ~>
        (Len(trail) >= n /\ \E c \in checkpoints : c.delivered /\ c.event >= trail[n].id)

-----------------------------------------------------------------------------
(* The inductive invariant.                                                *)

DocOf(c) == [event |-> c.event, root |-> c.root]

\* The documents about which something is under way, was stored, or was anchored.
Holding(p) == call[p].pc \in {"existing", "deliver", "insert", "probe"}
Pending == {call[p].doc : p \in {q \in Procs : Holding(q)}}
Anchored == {DocOf(c) : c \in checkpoints}

\* Documents that are about earlier events than n, say the same of one event, and
\* say of a row of l what it says itself.
Consistent(docs, l, n) ==
    /\ \A d \in docs : d.root # NoHash /\ d.event < n
    /\ \A d, e \in docs : d.event = e.event => d = e
    /\ \A d \in docs : \A i \in 1..Len(l) : l[i].id = d.event => l[i].hash = d.root

\* Ids ascend from 1 and are never used again.
RowsAscend ==
    /\ IdsAscend(trail) /\ nextEvent > 0
    /\ \A i \in 1..Len(trail) : 0 < trail[i].id /\ trail[i].id < nextEvent

DocumentsAgree == Consistent(worm \cup Anchored \cup Pending, trail, nextEvent)

\* Until something is damaged, every row is as it was written, and all that is
\* anchored, or about to be, is there.
UndamagedSoFar ==
    ~evidence =>
        /\ \A i \in 1..Len(trail) : Linked(trail, i) /\ trail[i].val = trail[i].id
        /\ \A i, j \in 1..Len(trail) : i < j /\ Sealed(trail[i]) => Sealed(trail[j])
        /\ \A d \in Anchored \cup Pending : Agrees(d)

\* A checkpoint is inserted only when the sink has it.
DeliveriesAreStored ==
    \A p \in Procs : call[p].pc = "insert" /\ Endpoint => call[p].doc \in worm

\* Nothing is reported while a verification is under way.
NotYetReported == audit.pc # "idle" => ~audit.high

AnchorIInv ==
    /\ AnchorsAreEvidence
    /\ RowsAscend /\ DocumentsAgree /\ UndamagedSoFar
    /\ DeliveriesAreStored /\ NotYetReported
=============================================================================
