---------------------------- MODULE Maintenance ----------------------------
(***************************************************************************)
(* The security maintenance loop that every worker process runs            *)
(* (src/app/maintenance.py): a cadence of its own, an advisory lock on a   *)
(* connection that may be lost while the cycle goes on, a Redis key that   *)
(* spaces the cycles of all workers, three phases that fail independently, *)
(* and alerts that are claimed before they are sent.  Clocks are kept as   *)
(* the time left, so that the loop can run for ever in a finite model.     *)
(***************************************************************************)
EXTENDS Naturals, FiniteSets, FiniteSetsExt

CONSTANTS
    Workers,        \* application processes
    Nobody,         \* the advisory lock is free
    HasRedis,       \* settings.redis_url is set
    Interval,       \* security_maintenance_interval_seconds
    AlertLife,      \* security_maintenance_anomaly_window_minutes
    Alerts,         \* fingerprints an anomaly can have
    MaxLocalAlerts, \* _MAX_LOCAL_ALERTS
    MaxFaults       \* bound: crashes, shutdowns, lost connections, coordination failures

ASSUME MaintenanceAssumption ==
    Nobody \notin Workers /\ Interval \in Nat /\ AlertLife \in Nat /\ MaxFaults \in Nat

VARIABLES
    at,             \* where each worker's loop is
    stopping,       \* _stop is set
    due,            \* time left to _next_run_at
    leader,         \* the session that holds the advisory lock
    cycleKey,       \* time left of the Redis key of the cycle
    claimed,        \* per store of alerts: the time left of each claim
    todo,           \* the anomalies a cycle has still to report
    age,            \* history: the age of each worker's running cycle, up to Interval
    strayed,        \* history: workers whose cycle lost its lock connection
    faults

maintenanceVars == <<at, stopping, due, leader, cycleKey, claimed, todo, age, strayed, faults>>

Phases == {"anomalies", "alert", "checkpoint", "retention"}

\* _claim_alert: Redis, or a dictionary of the process.
AlertStore(w) == IF HasRedis THEN "redis" ELSE w

MaintenanceTypeOK ==
    /\ at \in [Workers -> Phases \cup {"off", "waiting", "locking", "keying", "unlocking"}]
    /\ stopping \subseteq Workers
    /\ due \in [Workers -> 0..Interval]
    /\ leader \in Workers \cup {Nobody}
    /\ cycleKey \in 0..Interval
    /\ claimed \in [{AlertStore(w) : w \in Workers} -> [Alerts -> 0..AlertLife]]
    /\ todo \in [Workers -> SUBSET Alerts]
    /\ age \in [Workers -> 0..Interval]
    /\ strayed \subseteq Workers
    /\ faults \in 0..MaxFaults

MaintenanceInit ==
    /\ at = [w \in Workers |-> "off"]
    /\ stopping = {}
    /\ due = [w \in Workers |-> 0]
    /\ leader = Nobody
    /\ cycleKey = 0
    /\ claimed = [s \in {AlertStore(w) : w \in Workers} |-> [a \in Alerts |-> 0]]
    /\ todo = [w \in Workers |-> {}]
    /\ age = [w \in Workers |-> 0]
    /\ strayed = {}
    /\ faults = 0

Goto(w, l) == at' = [at EXCEPT ![w] = l]

Working(w) == at[w] \in Phases

Less(n) == IF n = 0 THEN 0 ELSE n - 1

\* Time passes for every clock at once; how long a phase takes is not bounded.
MaintenanceTick ==
    /\ due' = [w \in Workers |-> Less(due[w])]
    /\ cycleKey' = Less(cycleKey)
    /\ claimed' = [s \in DOMAIN claimed |-> [a \in Alerts |-> Less(claimed[s][a])]]
    /\ age' = [w \in Workers |-> IF Working(w) /\ age[w] < Interval THEN age[w] + 1 ELSE age[w]]
    /\ UNCHANGED <<at, stopping, leader, todo, strayed, faults>>

----------------------------------------------------------------------------
\* start, in the lifespan; _LOCAL alerts and _next_run_at begin afresh.
Start(w) ==
    /\ at[w] = "off"
    /\ Goto(w, "waiting")
    /\ due' = [due EXCEPT ![w] = 0]
    /\ claimed' = IF HasRedis THEN claimed ELSE [claimed EXCEPT ![w] = [a \in Alerts |-> 0]]
    /\ stopping' = stopping \ {w}
    /\ UNCHANGED <<leader, cycleKey, todo, age, strayed, faults>>

Fault == faults < MaxFaults /\ faults' = faults + 1

\* stop, called by the lifespan: the running cycle is drained before _run returns.
Stop(w) ==
    /\ Fault
    /\ at[w] # "off"
    /\ stopping' = stopping \cup {w}
    /\ UNCHANGED <<at, due, leader, cycleKey, claimed, todo, age, strayed>>

Drained(w) ==
    /\ w \in stopping
    /\ at[w] = "waiting"
    /\ Goto(w, "off")
    /\ UNCHANGED <<stopping, due, leader, cycleKey, claimed, todo, age, strayed, faults>>

\* The process dies, and its database session and lock with it.
WorkerCrash(w) ==
    /\ Fault
    /\ at[w] # "off"
    /\ Goto(w, "off")
    /\ leader' = IF leader = w THEN Nobody ELSE leader
    /\ todo' = [todo EXCEPT ![w] = {}]
    /\ strayed' = strayed \ {w}
    /\ age' = [age EXCEPT ![w] = 0]
    /\ UNCHANGED <<stopping, due, cycleKey, claimed>>

\* The idle connection that holds the lock is dropped; the cycle does not notice.
LoseLock(w) ==
    /\ Fault
    /\ leader = w
    /\ leader' = Nobody
    /\ strayed' = strayed \cup {w}
    /\ UNCHANGED <<at, stopping, due, cycleKey, claimed, todo, age>>

----------------------------------------------------------------------------
\* run_once, up to the lock: _run_lock, the cadence of this worker.
Begin(w) ==
    /\ at[w] = "waiting" /\ w \notin stopping
    /\ due[w] = 0
    /\ Goto(w, "locking")
    /\ due' = [due EXCEPT ![w] = Interval]
    /\ UNCHANGED <<stopping, leader, cycleKey, claimed, todo, age, strayed, faults>>

\* _exclusive_cycle: "busy" when another session has the lock.
TryLock(w) ==
    /\ at[w] = "locking"
    /\ IF leader = Nobody
       THEN Goto(w, "keying") /\ leader' = w
       ELSE Goto(w, "waiting") /\ UNCHANGED leader
    /\ UNCHANGED <<stopping, due, cycleKey, claimed, todo, age, strayed, faults>>

\* Mutation of KeyIsFree: the key is set without NX.
KeyAlways == TRUE

\* SET ... NX: the key of an earlier cycle has expired.
KeyIsFree == HasRedis => cycleKey = 0

\* The cycle key, with the life of an interval; "not_due" when it is there.
ClaimCycle(w) ==
    /\ at[w] = "keying"
    /\ IF KeyIsFree
       THEN /\ Goto(w, "anomalies")
            /\ cycleKey' = IF HasRedis THEN Interval ELSE cycleKey
            /\ age' = [age EXCEPT ![w] = 0]
       ELSE Goto(w, "unlocking") /\ UNCHANGED <<cycleKey, age>>
    /\ UNCHANGED <<stopping, due, leader, claimed, todo, strayed, faults>>

\* Redis or PostgreSQL does not answer: no work, and the lock's block is left.
CoordinationFails(w) ==
    /\ Fault
    /\ at[w] \in {"locking", "keying"}
    /\ Goto(w, IF at[w] = "locking" THEN "waiting" ELSE "unlocking")
    /\ UNCHANGED <<stopping, due, leader, cycleKey, claimed, todo, age, strayed>>

----------------------------------------------------------------------------
\* _check_anomalies reads the audit log: whatever it finds is to be reported.
DetectAnomalies(w, A) ==
    /\ at[w] = "anomalies"
    /\ Goto(w, "alert")
    /\ todo' = [todo EXCEPT ![w] = A]
    /\ UNCHANGED <<stopping, due, leader, cycleKey, claimed, age, strayed, faults>>

Full(s) == ~HasRedis /\ Quantify(Alerts, LAMBDA a : claimed[s][a] > 0) >= MaxLocalAlerts

Oldest(s) == CHOOSE a \in Alerts : /\ claimed[s][a] > 0
                                   /\ \A b \in Alerts : claimed[s][b] > 0 => claimed[s][a] <= claimed[s][b]

\* _claim_alert: a local store that is full forgets its oldest claim first.
ClaimAlert(s, a) ==
    LET kept == IF Full(s) THEN [claimed[s] EXCEPT ![Oldest(s)] = 0] ELSE claimed[s]
    IN  claimed' = [claimed EXCEPT ![s] = [kept EXCEPT ![a] = AlertLife]]

\* The loop over the anomalies: one is claimed and sent, or was claimed before.
Report(w, a) ==
    /\ at[w] = "alert" /\ a \in todo[w]
    /\ todo' = [todo EXCEPT ![w] = @ \ {a}]
    /\ IF claimed[AlertStore(w)][a] > 0
       THEN UNCHANGED claimed
       ELSE ClaimAlert(AlertStore(w), a)
    /\ UNCHANGED <<at, stopping, due, leader, cycleKey, age, strayed, faults>>

\* Mutation of AfterAnomalies: a phase that raises ends the cycle.
StopAtFailure(failed) == IF failed THEN "unlocking" ELSE "checkpoint"

\* run_once catches what a phase raises, records it and goes on.
AfterAnomalies(failed) == "checkpoint"

\* The phase is over, or any part of it raised.
EndAnomalies(w, failed) ==
    /\ at[w] \in {"anomalies", "alert"}
    /\ at[w] = "anomalies" => failed
    /\ failed \/ todo[w] = {}
    /\ Goto(w, AfterAnomalies(failed))
    /\ todo' = [todo EXCEPT ![w] = {}]
    /\ UNCHANGED <<stopping, due, leader, cycleKey, claimed, age, strayed, faults>>

\* _checkpoint: AuditCheckpoint models what it does; it ends, or raises.
Checkpoint(w) ==
    /\ at[w] = "checkpoint"
    /\ Goto(w, "retention")
    /\ UNCHANGED <<stopping, due, leader, cycleKey, claimed, todo, age, strayed, faults>>

\* _retention: enforce_retention with sessions of its own; it ends, or raises.
RetentionPhase(w) ==
    /\ at[w] = "retention"
    /\ Goto(w, "unlocking")
    /\ UNCHANGED <<stopping, due, leader, cycleKey, claimed, todo, age, strayed, faults>>

\* pg_advisory_unlock, or the connection is invalidated: a stray worker holds nothing.
Unlock(w) ==
    /\ at[w] = "unlocking"
    /\ Goto(w, "waiting")
    /\ leader' = IF leader = w THEN Nobody ELSE leader
    /\ strayed' = strayed \ {w}
    /\ age' = [age EXCEPT ![w] = 0]
    /\ UNCHANGED <<stopping, due, cycleKey, claimed, todo, faults>>

----------------------------------------------------------------------------
WorkerStep(w) ==
    \/ Begin(w) \/ TryLock(w) \/ ClaimCycle(w)
    \/ \E A \in SUBSET Alerts : DetectAnomalies(w, A)
    \/ \E a \in Alerts : Report(w, a)
    \/ \E failed \in BOOLEAN : EndAnomalies(w, failed)
    \/ Checkpoint(w) \/ RetentionPhase(w) \/ Unlock(w)
    \/ Drained(w) \/ Start(w)

MaintenanceNext ==
    \/ MaintenanceTick
    \/ \E w \in Workers :
          \/ WorkerStep(w)
          \/ Stop(w) \/ WorkerCrash(w) \/ LoseLock(w)
          \/ CoordinationFails(w)

MaintenanceSpec == MaintenanceInit /\ [][MaintenanceNext]_maintenanceVars

\* A process is restarted, its threads run and time passes.
MaintenanceFairness == WF_maintenanceVars(MaintenanceTick) /\ \A w \in Workers : WF_maintenanceVars(WorkerStep(w))

MaintenanceFairSpec == MaintenanceSpec /\ MaintenanceFairness

----------------------------------------------------------------------------
(* Properties.                                                             *)

\* Two cycles run side by side only when one of them lost the connection its
\* advisory lock was on and, where Redis spaces the cycles, one of them has been
\* running for a whole interval (_exclusive_cycle and the cycle key of run_once).
LeadersDoNotOverlap ==
    \A v, w \in Workers :
        v # w /\ Working(v) /\ Working(w)
            => /\ {v, w} \cap strayed # {}
               /\ HasRedis => Interval \in {age[v], age[w]}

\* The retention sweep keeps being run by some worker, whatever crashes, lost
\* locks and failures of the phases before it there were.
SweepsKeepComing == []<>(\E w \in Workers : at[w] = "retention")

----------------------------------------------------------------------------
(* The inductive invariant of the exclusion of cycles.                     *)

\* A cycle between its lock and its unlock holds the lock, unless it strayed.
CycleHoldsLock ==
    \A w \in Workers : at[w] \in Phases \cup {"keying", "unlocking"} /\ w \notin strayed => leader = w

\* The cycle key outlives the first interval of the cycle that set it.
KeyCoversCycle == HasRedis => \A w \in Workers : Working(w) => age[w] + cycleKey >= Interval

\* Of two cycles that run side by side one has been running for an interval.
OneIsOverdue ==
    HasRedis => \A v, w \in Workers :
                    v # w /\ Working(v) /\ Working(w) => age[v] = Interval \/ age[w] = Interval

MaintenanceIInv == MaintenanceTypeOK /\ CycleHoldsLock /\ KeyCoversCycle /\ OneIsOverdue
=============================================================================
