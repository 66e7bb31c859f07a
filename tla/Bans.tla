-------------------------------- MODULE Bans --------------------------------
(***************************************************************************)
(* The intrusion prevention state of src/app/ids.py and the middleware     *)
(* that consults it (security_middleware and inspect_intrusion in          *)
(* src/app/main.py): scores and bans in a bounded table that all workers   *)
(* share, read without a lock when a request arrives and written under one *)
(* writer lock that is held until the audit batch is committed with it.    *)
(* What a signature matches is an input: the weight of the hits it made.   *)
(***************************************************************************)
EXTENDS Naturals, Sequences, FiniteSets

CONSTANTS
    Addresses,      \* sources of requests
    Visits,         \* requests
    NoVisit,
    Weights,        \* sums of _SEVERITY_WEIGHT that the hits of a request may have
    Threshold,      \* block_threshold
    BlockTime,      \* block_seconds
    MaxSources,     \* max_sources
    MaxTime         \* bound: the clock

NoBan == 0
NoRow == [scores |-> << >>, seen |-> 0, until |-> NoBan]

ASSUME BansAssumption ==
    /\ Addresses # {} /\ IsFiniteSet(Addresses) /\ NoVisit \notin Visits
    /\ Weights \subseteq Nat \ {0}
    /\ Threshold \in Nat \ {0} /\ BlockTime \in Nat \ {0} /\ MaxSources \in Nat \ {0}
    /\ MaxTime \in Nat \ {0}

VARIABLES
    clock,
    table,          \* IntrusionSource rows, by address
    writer,         \* the transaction that holds the writer lock
    draft,          \* the table as that transaction sees it
    visit,          \* the requests; the hits of one are the sum of their weights
    ban             \* history: the expiry of the ban last announced and not lifted

banVars == <<clock, table, writer, draft, visit, ban>>

NoHits == [at |-> "idle", from |-> CHOOSE s \in Addresses : TRUE, hits |-> 0, new |-> FALSE]

SourceRows == [scores : Seq(Nat), seen : 0..MaxTime, until : 0..(MaxTime + BlockTime)]

BanTypeOK ==
    /\ clock \in 1..MaxTime
    /\ table \in [Addresses -> SourceRows] /\ draft \in [Addresses -> SourceRows]
    /\ \A s \in Addresses : Len(table[s].scores) <= Threshold /\ Len(draft[s].scores) <= Threshold
    /\ writer \in Visits \cup {NoVisit}
    /\ visit \in [Visits -> [at : {"idle", "check", "lock", "decide", "unblock", "lifted", "passed"},
                             from : Addresses, hits : Weights \cup {0}, new : BOOLEAN]]
    /\ ban \in [Addresses -> 0..(MaxTime + BlockTime)]

BanInit ==
    /\ clock = 1
    /\ table = [s \in Addresses |-> NoRow] /\ draft = table
    /\ writer = NoVisit
    /\ visit = [r \in Visits |-> NoHits]
    /\ ban = [s \in Addresses |-> NoBan]

BanTick == clock < MaxTime /\ clock' = clock + 1 /\ UNCHANGED <<table, writer, draft, visit, ban>>

----------------------------------------------------------------------------
\* The sources that have a row.
Known(t) == {s \in Addresses : t[s] # NoRow}

\* _is_blocked: the expiry is compared, an expired row is not removed.
IsBlocked(t, s) == t[s].until > clock

\* _prune_sources: served bans and idle scores, whatever their source.
PruneSources(t) ==
    [s \in Addresses |->
        IF \/ t[s].until # NoBan /\ t[s].until <= clock
           \/ t[s].until = NoBan /\ t[s].seen + BlockTime <= clock
        THEN NoRow ELSE t[s]]

\* Mutation of Evictable: the oldest source gives way, banned or not.
EvictAnyone(t) == Known(t)

\* Only a source that is not banned gives way to a new one.
Evictable(t) == {s \in Known(t) : t[s].until = NoBan}

\* The one not seen for longest.
OldestSource(t) == CHOOSE s \in Evictable(t) : \A u \in Evictable(t) : t[s].seen <= t[u].seen

\* _record_locked: the row a hit is added to, or none when every slot is banned.
MakeRoom(t, s) ==
    IF t[s] # NoRow \/ Cardinality(Known(t)) < MaxSources THEN t
    ELSE [t EXCEPT ![OldestSource(t)] = NoRow]

HasRoom(t, s) ==
    t[s] # NoRow \/ Cardinality(Known(t)) < MaxSources \/ Evictable(t) # {}

\* Stamps ascend, so those past the cutoff are a prefix.
Recent(scores) ==
    SubSeq(scores, Cardinality({i \in 1..Len(scores) : scores[i] + BlockTime <= clock}) + 1, Len(scores))

Scored(old, w) ==
    LET all  == Recent(old.scores) \o [i \in 1..w |-> clock]
        kept == IF Len(all) > Threshold THEN SubSeq(all, Len(all) - Threshold + 1, Len(all)) ELSE all
    IN  [scores |-> kept, seen |-> clock,
         until  |-> IF Len(kept) >= Threshold /\ old.until = NoBan THEN clock + BlockTime ELSE old.until]

\* _record_many_locked: the hits of a request are of one source and one time, so
\* that one after the other they do what the sum of their weights does.
RecordMany(t, s, w) ==
    IF HasRoom(t, s)
    THEN LET roomy == MakeRoom(t, s) IN [roomy EXCEPT ![s] = Scored(@, w)]
    ELSE t

----------------------------------------------------------------------------
\* A request that was answered neither by browser_request_denial nor as a disabled
\* file route comes to inspect_intrusion, with the weight of the hits in its text.
Arrive(r, s, w) ==
    /\ visit[r].at = "idle"
    /\ visit' = [visit EXCEPT ![r] = [@ EXCEPT !.at = "check", !.from = s, !.hits = w]]
    /\ UNCHANGED <<clock, table, writer, draft, ban>>

\* The first is_blocked, without a lock: refused, passed on, or to be recorded.
Check(r) ==
    /\ visit[r].at = "check"
    /\ visit' = [visit EXCEPT ![r] = IF IsBlocked(table, visit[r].from) THEN NoHits
                                 ELSE [@ EXCEPT !.at = IF visit[r].hits = 0 THEN "passed" ELSE "lock"]]
    /\ UNCHANGED <<clock, table, writer, draft, ban>>

\* record_many under the writer lock.
Record(r) ==
    /\ visit[r].at = "lock"
    /\ writer = NoVisit
    /\ writer' = r
    /\ LET s == visit[r].from
           t == RecordMany(PruneSources(table), s, visit[r].hits)
       IN  /\ draft' = t
           /\ visit' = [visit EXCEPT ![r].at = "decide",
                                 ![r].new = t[s].until # NoBan /\ PruneSources(table)[s].until = NoBan]
    /\ UNCHANGED <<clock, table, ban>>

\* The decision, taken again while the lock is held: another worker may have banned.
Refused(r) == visit[r].new \/ IsBlocked(draft, visit[r].from)

\* record_audits commits the table with the audit batch, and the lock is free.
Conclude(r) ==
    /\ visit[r].at = "decide"
    /\ table' = draft
    /\ writer' = NoVisit
    /\ ban' = IF visit[r].new THEN [ban EXCEPT ![visit[r].from] = draft[visit[r].from].until] ELSE ban
    /\ visit' = [visit EXCEPT ![r] = IF Refused(r) THEN NoHits ELSE [@ EXCEPT !.at = "passed"]]
    /\ UNCHANGED <<clock, draft>>

\* The database does not answer, or the audit batch fails: nothing is kept and
\* the request gets 503, never its handler.
Fail(r) ==
    /\ visit[r].at \in {"check", "lock", "decide", "unblock", "lifted"}
    /\ draft' = IF writer = r THEN table ELSE draft
    /\ writer' = IF writer = r THEN NoVisit ELSE writer
    /\ visit' = [visit EXCEPT ![r] = NoHits]
    /\ UNCHANGED <<clock, table, ban>>

\* ids_unblock: the row goes, ban or score, in the administrator's transaction.
AskUnblock(r, s) ==
    /\ visit[r].at = "idle"
    /\ visit' = [visit EXCEPT ![r] = [@ EXCEPT !.at = "unblock", !.from = s]]
    /\ UNCHANGED <<clock, table, writer, draft, ban>>

Unblock(r) ==
    /\ visit[r].at = "unblock"
    /\ writer = NoVisit
    /\ writer' = r
    /\ draft' = [table EXCEPT ![visit[r].from] = NoRow]
    /\ visit' = [visit EXCEPT ![r].at = "lifted"]
    /\ UNCHANGED <<clock, table, ban>>

CommitUnblock(r) ==
    /\ visit[r].at = "lifted"
    /\ table' = draft
    /\ writer' = NoVisit
    /\ ban' = [ban EXCEPT ![visit[r].from] = NoBan]
    /\ visit' = [visit EXCEPT ![r] = NoHits]
    /\ UNCHANGED <<clock, draft>>

\* The handler of the request has answered.
Answered(r) ==
    /\ visit[r].at = "passed"
    /\ visit' = [visit EXCEPT ![r] = NoHits]
    /\ UNCHANGED <<clock, table, writer, draft, ban>>

BanNext ==
    \/ BanTick
    \/ \E r \in Visits :
          \/ \E s \in Addresses, w \in Weights \cup {0} : Arrive(r, s, w)
          \/ \E s \in Addresses : AskUnblock(r, s)
          \/ Check(r) \/ Record(r) \/ Conclude(r) \/ Fail(r)
          \/ Unblock(r) \/ CommitUnblock(r) \/ Answered(r)

BanSpec == BanInit /\ [][BanNext]_banVars

----------------------------------------------------------------------------
(* Properties.                                                             *)

\* A ban that was announced in the audit log stands in the shared table until
\* it has been served or an administrator lifted it, however many other
\* sources are recorded into the full table, and only announced bans stand.
AnnouncedBansStand ==
    \A s \in Addresses :
        /\ ban[s] > clock => table[s].until = ban[s]
        /\ table[s].until > clock => table[s].until = ban[s]

\* A request that matched a signature never reaches its handler while a ban of
\* its source is in force, even one made by another worker after it was checked.
HitsRefused ==
    \A r \in Visits :
        visit[r].at # "passed" /\ visit'[r].at = "passed" /\ visit[r].hits # 0
            => ~IsBlocked(table', visit[r].from)

\* The two together, with the types.
BansStand == [](BanTypeOK /\ AnnouncedBansStand) /\ [][HitsRefused]_banVars

----------------------------------------------------------------------------
(* The inductive invariant.                                                *)

\* Whoever has recorded something holds the writer lock until it commits.
WriterHoldsTheLock ==
    \A r \in Visits : visit[r].at \in {"decide", "lifted"} => writer = r

\* Two expiries of a source that say the same while either is in force.
SameBan(d, t) == d > clock \/ t > clock => d = t

\* What a transaction is about to commit: the bans of the others as they are, and
\* its own source with a new ban where none was in force, or without a row.
DraftIsSound ==
    \A r \in Visits :
        /\ visit[r].at = "decide" =>
              \A s \in Addresses :
                  SameBan(draft[s].until, table[s].until)
                  \/ (s = visit[r].from /\ visit[r].new /\ table[s].until <= clock)
        /\ visit[r].at = "lifted" =>
              /\ draft[visit[r].from].until = NoBan
              /\ \A s \in Addresses : s # visit[r].from => draft[s].until = table[s].until

BanIInv == BanTypeOK /\ WriterHoldsTheLock /\ DraftIsSound /\ AnnouncedBansStand
=============================================================================
