------------------------------ MODULE AuditLog ------------------------------
(***************************************************************************)
(* Appending to the audit chain from concurrent transactions               *)
(* (src/app/audit.py record_audits, src/app/audit_chain.py) and repairing  *)
(* it (scripts/repair_audit_chain.py).                                     *)
(*                                                                         *)
(* A transaction first flushes its business rows, which locks them, then   *)
(* takes the append lock, seals and inserts its events one by one, and     *)
(* commits everything at once.  Other transactions read what is committed. *)
(***************************************************************************)
EXTENDS HashChain, FiniteSets

CONSTANTS
    Writers,        \* concurrent transactions
    NoWriter,       \* a lock nobody holds
    Rows,           \* business rows they change
    MaxBatch,       \* bound: events recorded by one call of record_audits
    MaxTxns,        \* bound: transactions begun
    LegacyRows,     \* rows written before the chain existed
    MayDisable,     \* audit_chain_enabled may be changed by a restart
    RepairLive      \* the repair runs while the application is serving

ASSUME LogAssumption ==
    /\ NoWriter \notin Writers
    /\ MaxBatch \in Nat \ {0} /\ MaxTxns \in Nat /\ LegacyRows \in Nat
    /\ MayDisable \in BOOLEAN /\ RepairLive \in BOOLEAN

VARIABLES
    log,            \* audit_events as committed, in id order
    nextId,         \* the id sequence, which a rollback does not rewind
    txn,            \* by writer: the transaction it runs
    rowLock,        \* by business row: the writer whose flush locked it
    chainLock,      \* the writer holding append_lock
    siem,           \* ids of events emitted to the SIEM
    chain,          \* audit_chain_enabled in the running deployment
    repair,         \* rows the repair has read; 0 when it is not running
    begun           \* transactions begun so far

vars == <<log, nextId, txn, rowLock, chainLock, siem, chain, repair, begun>>

Txn == [pc : {"idle", "open", "flushed", "sealing", "deliver"}, row : Rows,
        size : 1..MaxBatch, pending : Seq(AuditEvent)]

TypeOK ==
    /\ log \in Seq(AuditEvent)
    /\ nextId \in Nat
    /\ txn \in [Writers -> Txn]
    /\ rowLock \in [Rows -> Writers \cup {NoWriter}]
    /\ chainLock \in Writers \cup {NoWriter}
    /\ siem \in SUBSET Nat
    /\ chain \in BOOLEAN
    /\ repair \in 0..Len(log)
    /\ begun \in Nat

NoTxn(row) == [pc |-> "idle", row |-> row, size |-> 1, pending |-> << >>]

Init ==
    /\ log = [i \in 1..LegacyRows |-> Unsealed(i, i)]
    /\ nextId = LegacyRows + 1
    /\ txn \in [Writers -> {NoTxn(row) : row \in Rows}]
    /\ rowLock = [row \in Rows |-> NoWriter]
    /\ chainLock = NoWriter
    /\ siem = {}
    /\ chain = TRUE
    /\ repair = 0
    /\ begun = 0

-----------------------------------------------------------------------------
(* Transactions.                                                           *)

Idle == \A w \in Writers : txn[w].pc = "idle"
AppDown == ~RepairLive /\ repair # 0

\* What writer w sees: the committed rows and its own.
View(w) == log \o txn[w].pending

\* A handler reaches record_audits with changes to a row still unflushed.
Begin(w, row, size) ==
    /\ txn[w].pc = "idle"
    /\ begun < MaxTxns
    /\ ~AppDown
    /\ txn' = [txn EXCEPT ![w] = [pc |-> "open", row |-> row, size |-> size, pending |-> << >>]]
    /\ begun' = begun + 1
    /\ UNCHANGED <<log, nextId, rowLock, chainLock, siem, chain, repair>>

\* db.flush() of the business rows.
Flush(w) ==
    /\ txn[w].pc = "open"
    /\ rowLock[txn[w].row] = NoWriter
    /\ rowLock' = [rowLock EXCEPT ![txn[w].row] = w]
    /\ txn' = [txn EXCEPT ![w].pc = "flushed"]
    /\ UNCHANGED <<log, nextId, chainLock, siem, chain, repair, begun>>

\* Mutation of AppendLock: it may be taken before the business rows are flushed.
AppendLockBeforeFlush(w) ==
    /\ txn[w].pc \in {"open", "flushed"}
    /\ chain
    /\ chainLock \in {NoWriter, w}
    /\ chainLock' = w
    /\ txn' = [txn EXCEPT ![w].pc = IF @ = "open" THEN "open" ELSE "sealing"]
    /\ UNCHANGED <<log, nextId, rowLock, siem, chain, repair, begun>>

\* append_lock: a transaction advisory lock, free again at commit or rollback.
AppendLock(w) ==
    /\ txn[w].pc = "flushed"
    /\ chain
    /\ chainLock = NoWriter
    /\ chainLock' = w
    /\ txn' = [txn EXCEPT ![w].pc = "sealing"]
    /\ UNCHANGED <<log, nextId, rowLock, siem, chain, repair, begun>>

\* seal_event on the next event of the batch, and its INSERT.
Seal(w) ==
    /\ txn[w].pc = "sealing"
    /\ Len(txn[w].pending) < txn[w].size
    /\ txn' = [txn EXCEPT ![w].pending = Append(@, SealEvent(View(w), nextId, nextId))]
    /\ nextId' = nextId + 1
    /\ UNCHANGED <<log, rowLock, chainLock, siem, chain, repair, begun>>

\* The end of a transaction gives back its locks.
Release(w) ==
    /\ rowLock' = [row \in Rows |-> IF rowLock[row] = w THEN NoWriter ELSE rowLock[row]]
    /\ chainLock' = IF chainLock = w THEN NoWriter ELSE chainLock

Commit(w) ==
    /\ txn[w].pc = "sealing"
    /\ Len(txn[w].pending) = txn[w].size
    /\ log' = View(w)
    /\ Release(w)
    /\ txn' = [txn EXCEPT ![w].pc = "deliver"]
    /\ UNCHANGED <<nextId, siem, chain, repair, begun>>

\* The chain is switched off: the rows go in unsealed and without the lock.
CommitUnsealed(w) ==
    LET rows == [k \in 1..txn[w].size |-> Unsealed(nextId + k - 1, nextId + k - 1)]
    IN  /\ txn[w].pc = "flushed"
        /\ ~chain
        /\ log' = log \o rows
        /\ nextId' = nextId + txn[w].size
        /\ Release(w)
        /\ txn' = [txn EXCEPT ![w].pc = "deliver", ![w].pending = rows]
        /\ UNCHANGED <<siem, chain, repair, begun>>

\* _deliver_committed_audit, up to the checkpoint (module AuditCheckpoint).
Deliver(w) ==
    /\ txn[w].pc = "deliver"
    /\ siem' = siem \cup {txn[w].pending[k].id : k \in 1..Len(txn[w].pending)}
    /\ txn' = [txn EXCEPT ![w] = NoTxn(txn[w].row)]
    /\ UNCHANGED <<log, nextId, rowLock, chainLock, chain, repair, begun>>

\* A failed statement, a lost connection or a dead worker, at any point.
Abort(w) ==
    /\ txn[w].pc # "idle"
    /\ Release(w)
    /\ txn' = [txn EXCEPT ![w] = NoTxn(txn[w].row)]
    /\ UNCHANGED <<log, nextId, siem, chain, repair, begun>>

-----------------------------------------------------------------------------
(* Operations.                                                             *)

\* A restart with AUDIT_CHAIN_ENABLED changed; no request is in progress.
Reconfigure ==
    /\ MayDisable
    /\ Idle
    /\ chain' = ~chain
    /\ UNCHANGED <<log, nextId, txn, rowLock, chainLock, siem, repair, begun>>

\* Mutation of RepairRead: a gap in the middle of the table is repaired too.
RepairReadAnyGap ==
    /\ repair = 0
    /\ RepairLive \/ Idle
    /\ chain
    /\ Broken(log) = {} /\ Gaps(log) # {}
    /\ repair' = Len(log)
    /\ UNCHANGED <<log, nextId, txn, rowLock, chainLock, siem, chain, begun>>

\* repair_audit_chain.py: verify, refuse a broken chain or a gap in the middle,
\* remember the rows read.  It never takes append_lock.
RepairRead ==
    /\ repair = 0
    /\ RepairLive \/ Idle
    /\ chain
    /\ Broken(log) = {}
    /\ Gaps(log) # {}
    /\ GapIsTail(log)
    /\ repair' = Len(log)
    /\ UNCHANGED <<log, nextId, txn, rowLock, chainLock, siem, chain, begun>>

RepairCommit ==
    /\ repair # 0
    /\ log' = Reseal(log, repair)
    /\ repair' = 0
    /\ UNCHANGED <<nextId, txn, rowLock, chainLock, siem, chain, begun>>

-----------------------------------------------------------------------------

Step(w) == Flush(w) \/ AppendLock(w) \/ Seal(w) \/ Commit(w) \/ CommitUnsealed(w) \/ Deliver(w)

Next ==
    \/ \E w \in Writers :
        \/ \E row \in Rows, size \in 1..MaxBatch : Begin(w, row, size)
        \/ Step(w)
        \/ Abort(w)
    \/ Reconfigure \/ RepairRead \/ RepairCommit

Spec == Init /\ [][Next]_vars

\* The database grants locks in the order they are asked for and every request
\* thread keeps running: no statement waits for ever while its lock comes free.
FairSpec == Spec /\ \A w \in Writers : SF_vars(Step(w))

-----------------------------------------------------------------------------
(* Properties.                                                             *)

\* verify_chain never reports a mismatch that nobody caused: whatever the
\* interleaving of batches, rollbacks that leave id gaps and periods with the
\* chain switched off, every sealed row is linked to the row before it, and the
\* order of ids, by which _last_hash and verify_chain read the table, is the
\* order in which the chain was built.
ChainNeverBreaks == IdsAscend(log) /\ Broken(log) = {}

\* docker-compose.repair.yml says of the repair "Khong can dung service app"
\* (no need to stop the application): when it has finished, the chain verifies.
RepairBesideTheApp == repair = 0 => Broken(log) = {}

\* The SIEM never hears of an event that is not in the table, even when the
\* transaction that recorded it fails at its last statement.
SiemNeverAhead == \A i \in siem : \E k \in 1..Len(log) : log[k].id = i

Sealing == INSTANCE SealedLog

\* The audit table only grows, sealed rows are final, and every row is linked to
\* the row before it (SealedLog), whatever interleaving of batches, rollbacks,
\* periods with the chain switched off and repairs there was; and no line goes to
\* the SIEM before its row is committed.
ImplementsSealedLog ==
    /\ [](TypeOK /\ ChainNeverBreaks /\ SiemNeverAhead)
    /\ Sealing!Spec

\* No transaction waits for ever: business rows are flushed before append_lock
\* is taken, so nobody holds the chain while waiting for somebody's row.
EveryAppendEnds == \A w \in Writers : txn[w].pc # "idle" ~> txn[w].pc = "idle"

-----------------------------------------------------------------------------
(* The inductive invariant, of a deployment that stops the application for *)
(* a repair.                                                               *)

\* What verify_chain asks of a table, with the ids still to come above it.
SoundLog(l, next) ==
    /\ IdsAscend(l) /\ Broken(l) = {}
    /\ \A k \in 1..Len(l) : l[k].id < next

\* While a writer seals, nothing is committed under it: the table with its rows
\* is as sound as the table.
SoundTxn(w) ==
    /\ txn[w].pc \in {"idle", "open", "flushed"} => txn[w].pending = << >>
    /\ txn[w].pc = "sealing" => chain /\ chainLock = w /\ SoundLog(View(w), nextId)
    /\ txn[w].pc = "deliver" =>
          \A k \in 1..Len(txn[w].pending) : \E j \in 1..Len(log) : log[j].id = txn[w].pending[k].id

SealerHoldsTheLock == chainLock # NoWriter => txn[chainLock].pc = "sealing"

RepairIsAlone ==
    repair # 0 => Idle /\ repair = Len(log) /\ GapIsTail(log) /\ Gaps(log) # {}

IInv ==
    /\ TypeOK /\ SoundLog(log, nextId) /\ SiemNeverAhead
    /\ \A w \in Writers : SoundTxn(w)
    /\ SealerHoldsTheLock /\ RepairIsAlone
=============================================================================
