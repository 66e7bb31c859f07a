------------------------------ MODULE HashChain ------------------------------
(***************************************************************************)
(* The hash chain of audit_events (src/app/audit_chain.py).                *)
(*                                                                         *)
(* A log is the table in the order of its ids.  The HMAC is taken to be    *)
(* free of collisions, so the hash of an entry is written as the sequence  *)
(* of the contents it commits to, back to the start of its segment.        *)
(***************************************************************************)
EXTENDS Naturals, Sequences

CONSTANT NoHash     \* entry_hash is NULL: the row is not sealed

ASSUME NoHashAssumption == NoHash \notin Seq(Nat)

Genesis == << >>

\* compute_hash over the previous hash and the canonical entry.
ComputeHash(prev, val) == Append(prev, val)

Hashes == Seq(Nat)
AuditEvent == [id : Nat, val : Nat, prev : Hashes \cup {NoHash}, hash : Hashes \cup {NoHash}]

Sealed(e) == e.hash # NoHash

\* _last_hash: the chain starts again after an unsealed row.
LastHash(l) == IF Len(l) > 0 /\ Sealed(l[Len(l)]) THEN l[Len(l)].hash ELSE Genesis

\* The hash that verify_chain carries when it reaches row i.
HashBefore(l, i) == IF i > 1 /\ Sealed(l[i - 1]) THEN l[i - 1].hash ELSE Genesis

\* seal_event: hash a new row before it is inserted.
SealEvent(l, i, val) == [id |-> i, val |-> val, prev |-> LastHash(l),
                         hash |-> ComputeHash(LastHash(l), val)]

Unsealed(i, val) == [id |-> i, val |-> val, prev |-> NoHash, hash |-> NoHash]

Linked(l, i) ==
    Sealed(l[i]) => /\ l[i].prev = HashBefore(l, i)
                    /\ l[i].hash = ComputeHash(l[i].prev, l[i].val)

\* verify_chain: the rows it would stop at, the rows it counts as a gap, and
\* the strict verdict.
Broken(l) == {i \in 1..Len(l) : ~Linked(l, i)}
Gaps(l) == {i \in 1..Len(l) : ~Sealed(l[i])}
Intact(l) == Broken(l) = {} /\ Gaps(l) = {}

\* reseal_unsealed works only when the gap is the end of the table.
GapIsTail(l) == \A i, j \in 1..Len(l) : i < j /\ ~Sealed(l[i]) => ~Sealed(l[j])

FirstGap(l) == CHOOSE i \in Gaps(l) : \A j \in Gaps(l) : i <= j

\* reseal_unsealed: the first n rows of l with the unsealed ones chained on;
\* rows that came later stay as they are.
Reseal(l, n) ==
    LET first == FirstGap(l)
        base == HashBefore(l, first)
        chained(i) == base \o [k \in 1..(i - first) |-> l[first + k - 1].val]
    IN  [i \in 1..Len(l) |->
            IF first <= i /\ i <= n
              THEN [id |-> l[i].id, val |-> l[i].val, prev |-> chained(i), hash |-> chained(i + 1)]
              ELSE l[i]]

IdsAscend(l) == \A i, j \in 1..Len(l) : i < j => l[i].id < l[j].id
=============================================================================
