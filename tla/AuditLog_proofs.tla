--------------------------- MODULE AuditLog_proofs ---------------------------
(***************************************************************************)
(* Proofs about AuditLog: for any number of writers, rows and batches, a   *)
(* deployment that stops the application for a repair never breaks its     *)
(* hash chain, never tells the SIEM of an event that is not in the table,  *)
(* and implements SealedLog.                                               *)
(*                                                                         *)
(* First what sealing, an unsealed batch and the repair do to a table;     *)
(* then the transactions, of which only the holder of the append lock can  *)
(* change the table while rows are being sealed.  The next part is about   *)
(* AuditCheckpoint: whatever the number of workers, events and crashes,    *)
(* its anchors agree with each other and with the chain until the chain is *)
(* damaged, and show the damage for ever after.  The last part is about    *)
(* Correlation: what is reported of the rows is what happened, for any     *)
(* events, thresholds and clocks.                                          *)
(***************************************************************************)
EXTENDS AuditLog, AuditCheckpoint, Correlation, FiniteSetTheorems, SequenceTheorems,
        WellFoundedInduction, TLAPS

-----------------------------------------------------------------------------
(* Tables.                                                                 *)

\* A function on 1..n is a sequence.
LEMMA FunctionIsSeq ==
    ASSUME NEW S, NEW n \in Nat, NEW s \in [1..n -> S]
    PROVE  s \in Seq(S) /\ Len(s) = n
OBVIOUS

\* Concatenation, by the place of a row.
LEMMA ConcatRows ==
    ASSUME NEW S, NEW s \in Seq(S), NEW t \in Seq(S), NEW m, m = s \o t
    PROVE  /\ m \in Seq(S) /\ Len(m) = Len(s) + Len(t) /\ Len(s) \in Nat /\ Len(t) \in Nat
           /\ \A i \in 1..Len(s) : m[i] = s[i]
           /\ \A k \in 1..Len(t) : m[Len(s) + k] = t[k]
<1>1. Len(s) \in Nat /\ Len(t) \in Nat
    OBVIOUS
<1>2. /\ m \in Seq(S) /\ Len(m) = Len(s) + Len(t)
      /\ \A i \in 1..Len(s) + Len(t) : m[i] = IF i <= Len(s) THEN s[i] ELSE t[i - Len(s)]
    BY ConcatProperties
<1>3. ASSUME NEW k \in 1..Len(t)
      PROVE  m[Len(s) + k] = t[k]
    <2>1. Len(s) + k \in 1..Len(s) + Len(t) /\ ~(Len(s) + k <= Len(s)) /\ (Len(s) + k) - Len(s) = k
        BY <1>1
    <2>. QED
        BY <1>2, <2>1
<1>4. \A i \in 1..Len(s) : m[i] = s[i]
    BY <1>1, <1>2
<1>. QED
    BY <1>1, <1>2, <1>3, <1>4

\* A row's hash is NULL or a hash.
LEMMA RowHashes ==
    ASSUME NEW l \in Seq(AuditEvent), NEW i \in 1..Len(l)
    PROVE  /\ l[i] \in AuditEvent
           /\ l[i].id \in Nat /\ l[i].val \in Nat
           /\ Sealed(l[i]) => l[i].hash \in Seq(Nat)
<1>1. l[i] \in AuditEvent
    OBVIOUS
<1>. QED
    BY <1>1 DEF AuditEvent, Sealed, Hashes

\* The hash that a new row continues.
LEMMA LastIsHash ==
    ASSUME NEW l \in Seq(AuditEvent)
    PROVE  LastHash(l) \in Seq(Nat)
<1>1. << >> \in Seq(Nat)
    OBVIOUS
<1>2. CASE Len(l) > 0 /\ Sealed(l[Len(l)])
    <2>1. Len(l) \in 1..Len(l)
        BY <1>2
    <2>. QED
        BY <1>2, <2>1, RowHashes DEF LastHash
<1>. QED
    BY <1>1, <1>2 DEF LastHash, Genesis

\* seal_event makes a sealed row.
LEMMA SealMakesRow ==
    ASSUME NEW l \in Seq(AuditEvent), NEW i \in Nat, NEW v \in Nat
    PROVE  /\ SealEvent(l, i, v) \in AuditEvent
           /\ SealEvent(l, i, v).id = i
           /\ SealEvent(l, i, v).prev = LastHash(l)
           /\ SealEvent(l, i, v).hash = ComputeHash(LastHash(l), v)
           /\ SealEvent(l, i, v).val = v
<1>1. LastHash(l) \in Seq(Nat) /\ ComputeHash(LastHash(l), v) \in Seq(Nat)
    BY LastIsHash DEF ComputeHash
<1>. QED
    BY <1>1 DEF SealEvent, AuditEvent, Hashes

\* Whether a row is linked depends on it and the row before it.
LEMMA LinkedIsLocal ==
    ASSUME NEW l, NEW m, NEW i, l[i] = m[i], i > 1 => l[i - 1] = m[i - 1], Linked(l, i)
    PROVE  Linked(m, i)
BY DEF Linked, HashBefore

\* Sound is: ascending ids below the next one, and every row linked.
LEMMA SoundMeans ==
    ASSUME NEW l, NEW n
    PROVE  SoundLog(l, n) <=> /\ \A i, j \in 1..Len(l) : i < j => l[i].id < l[j].id
                              /\ \A i \in 1..Len(l) : Linked(l, i)
                              /\ \A i \in 1..Len(l) : l[i].id < n
BY DEF SoundLog, IdsAscend, Broken

\* record_audits appends a sealed row to a sound table.
LEMMA SealingKeepsSound ==
    ASSUME NEW l \in Seq(AuditEvent), NEW n \in Nat, SoundLog(l, n),
           NEW m, m = Append(l, SealEvent(l, n, n))
    PROVE  m \in Seq(AuditEvent) /\ SoundLog(m, n + 1)
<1>. DEFINE e == SealEvent(l, n, n)
<1>1. /\ e \in AuditEvent /\ e.id = n /\ e.prev = LastHash(l)
      /\ e.hash = ComputeHash(LastHash(l), n) /\ e.val = n
    BY SealMakesRow
<1>. HIDE DEF e
<1>2. m = Append(l, e)
    BY DEF e
<1>3. /\ m \in Seq(AuditEvent) /\ Len(m) = Len(l) + 1 /\ Len(l) \in Nat
      /\ \A i \in 1..Len(l) : m[i] = l[i]
      /\ m[Len(l) + 1] = e
    BY <1>1, <1>2
<1>4. \A i \in 1..Len(l) : l[i].id \in Nat /\ l[i].id < n
    BY RowHashes, SoundMeans
<1>5. ASSUME NEW i \in 1..Len(m)
      PROVE  m[i].id < n + 1
    BY <1>1, <1>3, <1>4
<1>6. ASSUME NEW i \in 1..Len(m), NEW j \in 1..Len(m), i < j
      PROVE  m[i].id < m[j].id
    <2>1. CASE j \in 1..Len(l)
        BY <1>3, <1>6, <2>1, SoundMeans
    <2>2. CASE j = Len(l) + 1
        BY <1>1, <1>3, <1>4, <1>6, <2>2
    <2>. QED
        BY <1>3, <2>1, <2>2
<1>7. ASSUME NEW i \in 1..Len(m)
      PROVE  Linked(m, i)
    <2>1. CASE i \in 1..Len(l)
        <3>1. Linked(l, i)
            BY <2>1, SoundMeans
        <3>2. l[i] = m[i] /\ (i > 1 => l[i - 1] = m[i - 1])
            BY <1>3, <2>1
        <3>. QED
            BY <3>1, <3>2, LinkedIsLocal
    <2>2. CASE i = Len(l) + 1
        <3>1. HashBefore(m, i) = LastHash(l)
            <4>1. CASE Len(l) = 0
                BY <2>2, <4>1 DEF HashBefore, LastHash
            <4>2. CASE Len(l) > 0
                <5>1. m[i - 1] = l[Len(l)] /\ i > 1
                    BY <1>3, <2>2, <4>2
                <5>. QED
                    BY <4>2, <5>1 DEF HashBefore, LastHash
            <4>. QED
                BY <1>3, <4>1, <4>2
        <3>2. m[i] = e
            BY <1>3, <2>2
        <3>. QED
            BY <1>1, <3>1, <3>2 DEF Linked
    <2>. QED
        BY <1>3, <2>1, <2>2
<1>. QED
    BY <1>3, <1>5, <1>6, <1>7, SoundMeans

\* A batch written while the chain is switched off.
UnsealedBatch(n, size) == [k \in 1..size |-> Unsealed(n + k - 1, n + k - 1)]

\* It keeps the table sound.
LEMMA UnsealedKeepsSound ==
    ASSUME NEW l \in Seq(AuditEvent), NEW n \in Nat, SoundLog(l, n), NEW size \in Nat, NEW rows,
           rows = UnsealedBatch(n, size)
    PROVE  /\ rows \in Seq(AuditEvent) /\ Len(rows) = size
           /\ l \o rows \in Seq(AuditEvent) /\ SoundLog(l \o rows, n + size)
<1>1. rows = [k \in 1..size |-> Unsealed(n + k - 1, n + k - 1)]
    BY DEF UnsealedBatch
<1>2. \A k \in 1..size : /\ rows[k] \in AuditEvent
                         /\ rows[k].id = n + k - 1
                         /\ ~Sealed(rows[k])
    BY <1>1 DEF Unsealed, AuditEvent, Sealed
<1>3. rows \in Seq(AuditEvent) /\ Len(rows) = size
    <2>1. rows \in [1..size -> AuditEvent]
        BY <1>1, <1>2
    <2>. QED
        BY <2>1, FunctionIsSeq
<1>. DEFINE m == l \o rows
<1>4. /\ m \in Seq(AuditEvent) /\ Len(m) = Len(l) + size /\ Len(l) \in Nat
      /\ \A i \in 1..Len(l) : m[i] = l[i]
      /\ \A i \in (Len(l) + 1)..Len(m) : m[i] = rows[i - Len(l)]
    BY <1>3
<1>. HIDE DEF m
<1>5. \A i \in 1..Len(l) : m[i].id \in Nat /\ m[i].id < n
    BY <1>4, RowHashes, SoundMeans
<1>6. ASSUME NEW i \in (Len(l) + 1)..Len(m)
      PROVE  m[i].id = n + (i - Len(l)) - 1 /\ ~Sealed(m[i])
    <2>1. i - Len(l) \in 1..size
        BY <1>4
    <2>. QED
        BY <1>2, <1>4, <2>1
<1>7. \A i \in 1..Len(m) : i \in 1..Len(l) \/ i \in (Len(l) + 1)..Len(m)
    BY <1>4
<1>8. ASSUME NEW i \in 1..Len(m)
      PROVE  m[i].id < n + size
    <2>1. CASE i \in 1..Len(l)
        BY <1>5, <2>1
    <2>2. CASE i \in (Len(l) + 1)..Len(m)
        BY <1>4, <1>6, <2>2
    <2>. QED
        BY <1>7, <2>1, <2>2
<1>9. ASSUME NEW i \in 1..Len(m), NEW j \in 1..Len(m), i < j
      PROVE  m[i].id < m[j].id
    <2>1. CASE j \in 1..Len(l)
        <3>1. i \in 1..Len(l) /\ m[i] = l[i] /\ m[j] = l[j]
            BY <1>4, <1>9, <2>1
        <3>2. l[i].id < l[j].id
            BY <1>9, <2>1, <3>1, SoundMeans
        <3>. QED
            BY <3>1, <3>2
    <2>2. CASE i \in 1..Len(l) /\ j \in (Len(l) + 1)..Len(m)
        BY <1>4, <1>5, <1>6, <2>2
    <2>3. CASE i \in (Len(l) + 1)..Len(m) /\ j \in (Len(l) + 1)..Len(m)
        BY <1>4, <1>6, <1>9, <2>3
    <2>. QED
        BY <1>4, <1>7, <1>9, <2>1, <2>2, <2>3
<1>10. ASSUME NEW i \in 1..Len(m)
       PROVE  Linked(m, i)
    <2>1. CASE i \in 1..Len(l)
        <3>1. Linked(l, i)
            BY <2>1, SoundMeans
        <3>2. l[i] = m[i] /\ (i > 1 => l[i - 1] = m[i - 1])
            BY <1>4, <2>1
        <3>. QED
            BY <3>1, <3>2, LinkedIsLocal
    <2>2. CASE i \in (Len(l) + 1)..Len(m)
        BY <1>6, <2>2 DEF Linked
    <2>. QED
        BY <1>7, <2>1, <2>2
<1>11. SoundLog(m, n + size)
    BY <1>8, <1>9, <1>10, SoundMeans
<1>. QED
    BY <1>3, <1>4, <1>11 DEF m

\* The first gap of a table that has one.
LEMMA FirstGapIsFirst ==
    ASSUME NEW l \in Seq(AuditEvent), Gaps(l) # {}
    PROVE  FirstGap(l) \in Gaps(l) /\ \A j \in Gaps(l) : FirstGap(l) <= j
<1>0. Gaps(l) \subseteq Nat
    BY DEF Gaps
<1>1. PICK x \in Gaps(l) : \A y \in Gaps(l) : ~(<<y, x>> \in OpToRel(<, Nat))
    BY <1>0, NatLessThanWellFounded, WFMin, Zenon
<1>2. \A y \in Gaps(l) : ~(y < x)
    <2>. SUFFICES ASSUME NEW y \in Gaps(l), y < x PROVE FALSE
        OBVIOUS
    <2>1. <<y, x>> \in Nat \X Nat /\ <<y, x>>[1] = y /\ <<y, x>>[2] = x
        BY <1>0
    <2>2. <<y, x>> \in OpToRel(<, Nat)
        BY <2>1, Zenon DEF OpToRel
    <2>. QED
        BY <1>1, <2>2
<1>3. \A y \in Gaps(l) : x <= y
    BY <1>0, <1>2
<1>. QED
    BY <1>3, Zenon DEF FirstGap

\* Adding an element before or after joining two sequences.
LEMMA ConcatThenAppend ==
    ASSUME NEW S, NEW p \in Seq(S), NEW a \in Seq(S), NEW v \in S
    PROVE  p \o a \in Seq(S) /\ p \o Append(a, v) = Append(p \o a, v)
<1>1. p \o a \in Seq(S)
    BY ConcatProperties
<1>2. <<v>> \in Seq(S)
    OBVIOUS
<1>3. Append(a, v) = a \o <<v>>
    BY AppendIsConcat
<1>4. Append(p \o a, v) = (p \o a) \o <<v>>
    BY <1>1, AppendIsConcat
<1>5. (p \o a) \o <<v>> = p \o (a \o <<v>>)
    BY <1>2, ConcatAssociative
<1>. QED
    BY <1>1, <1>3, <1>4, <1>5, Zenon

\* b is a and one value more.
OneValueMore(a, b, d, v) ==
    /\ a \in [1..d -> Nat] /\ b \in [1..(d + 1) -> Nat]
    /\ \A k \in 1..d : b[k] = a[k]
    /\ b[d + 1] = v

\* The hash a repaired row gets is computed from that of the row before it.
LEMMA ChainExtends ==
    ASSUME NEW base \in Seq(Nat), NEW d \in Nat, NEW a, NEW b, NEW v \in Nat,
           OneValueMore(a, b, d, v)
    PROVE  /\ base \o a \in Seq(Nat) /\ base \o b \in Seq(Nat)
           /\ base \o b = ComputeHash(base \o a, v)
<1>1. a \in Seq(Nat) /\ Len(a) = d /\ b \in Seq(Nat) /\ Len(b) = d + 1
    BY FunctionIsSeq DEF OneValueMore
<1>. DEFINE r == Append(a, v)
<1>2. /\ r \in Seq(Nat) /\ Len(r) = d + 1 /\ r[d + 1] = v
      /\ \A k \in 1..d : r[k] = a[k]
    BY <1>1
<1>. HIDE DEF r
<1>3. \A k \in 1..(d + 1) : b[k] = r[k]
    <2>1. \A k \in 1..(d + 1) : k \in 1..d \/ k = d + 1
        OBVIOUS
    <2>. QED
        BY <1>2, <2>1 DEF OneValueMore
<1>4. b = r
    BY <1>1, <1>2, <1>3, SeqEqual
<1>5. base \o a \in Seq(Nat) /\ base \o Append(a, v) = Append(base \o a, v)
    BY <1>1, ConcatThenAppend
<1>6. base \o b \in Seq(Nat)
    BY <1>1, ConcatProperties
<1>. QED
    BY <1>4, <1>5, <1>6, Zenon DEF r, ComputeHash

\* The values of the rows from f up to i.
Vals(l, f, i) == [k \in 1..(i - f) |-> l[f + k - 1].val]

LEMMA ChainStep ==
    ASSUME NEW l \in Seq(AuditEvent), NEW f \in 1..Len(l), NEW i \in f..Len(l), NEW base \in Seq(Nat)
    PROVE  /\ base \o Vals(l, f, i) \in Seq(Nat) /\ base \o Vals(l, f, i + 1) \in Seq(Nat)
           /\ base \o Vals(l, f, i + 1) = ComputeHash(base \o Vals(l, f, i), l[i].val)
<1>1. i - f \in Nat /\ (i + 1) - f = (i - f) + 1 /\ f + ((i - f) + 1) - 1 = i /\ i \in 1..Len(l)
    OBVIOUS
<1>2. \A k \in 1..((i - f) + 1) : f + k - 1 \in 1..Len(l)
    OBVIOUS
<1>3. \A k \in 1..((i - f) + 1) : l[f + k - 1].val \in Nat
    BY <1>2, RowHashes
<1>4. /\ Vals(l, f, i) \in [1..(i - f) -> Nat]
      /\ Vals(l, f, i + 1) \in [1..((i - f) + 1) -> Nat]
    <2>1. \A k \in 1..(i - f) : l[f + k - 1].val \in Nat
        <3>1. \A k \in 1..(i - f) : k \in 1..((i - f) + 1)
            BY <1>1
        <3>. QED
            BY <1>3, <3>1
    <2>2. Vals(l, f, i + 1) = [k \in 1..((i - f) + 1) |-> l[f + k - 1].val]
        BY <1>1, Zenon DEF Vals
    <2>. QED
        BY <1>3, <2>1, <2>2 DEF Vals
<1>5. /\ \A k \in 1..(i - f) : Vals(l, f, i + 1)[k] = Vals(l, f, i)[k]
      /\ Vals(l, f, i + 1)[(i - f) + 1] = l[i].val
    BY <1>1 DEF Vals
<1>6. l[i].val \in Nat
    BY <1>1, RowHashes
<1>7. OneValueMore(Vals(l, f, i), Vals(l, f, i + 1), i - f, l[i].val)
    BY <1>4, <1>5 DEF OneValueMore
<1>8. PICK d \in Nat : d = i - f
    BY <1>1
<1>9. PICK a, b, v : a = Vals(l, f, i) /\ b = Vals(l, f, i + 1) /\ v = l[i].val
    OBVIOUS
<1>10. OneValueMore(a, b, d, v) /\ v \in Nat
    BY <1>6, <1>7, <1>8, <1>9
<1>11. /\ base \o a \in Seq(Nat) /\ base \o b \in Seq(Nat)
       /\ base \o b = ComputeHash(base \o a, v)
    BY <1>10, ChainExtends
<1>. QED
    BY <1>9, <1>11

\* The repair of a table whose gap is its tail seals every row, changes no sealed
\* one, and leaves a sound table.
LEMMA ResealCompletes ==
    ASSUME NEW l \in Seq(AuditEvent), NEW n \in Nat, SoundLog(l, n), GapIsTail(l), Gaps(l) # {},
           NEW m, m = Reseal(l, Len(l))
    PROVE  /\ m \in Seq(AuditEvent) /\ Len(m) = Len(l) /\ SoundLog(m, n) /\ Gaps(m) = {}
           /\ \A i \in 1..Len(l) : /\ Sealed(l[i]) => m[i] = l[i]
                                   /\ m[i].id = l[i].id /\ m[i].val = l[i].val
<1>. DEFINE f == FirstGap(l)
            base == HashBefore(l, f)
            C(i) == base \o Vals(l, f, i)
<1>1. f \in 1..Len(l) /\ ~Sealed(l[f]) /\ Len(l) \in Nat
    BY FirstGapIsFirst DEF Gaps
<1>2. ASSUME NEW i \in 1..Len(l)
      PROVE  Sealed(l[i]) <=> i < f
    <2>1. CASE i < f
        BY <1>1, <2>1, FirstGapIsFirst DEF Gaps
    <2>2. CASE i = f
        BY <1>1, <2>2
    <2>3. CASE i > f
        BY <1>1, <2>3 DEF GapIsTail
    <2>. QED
        BY <1>1, <2>1, <2>2, <2>3
<1>3. base \in Seq(Nat)
    <2>1. CASE f > 1
        <3>1. f - 1 \in 1..Len(l) /\ f - 1 < f
            BY <1>1, <2>1
        <3>. QED
            BY <1>2, <2>1, <3>1, RowHashes DEF HashBefore
    <2>2. CASE ~(f > 1)
        BY <2>2 DEF HashBefore, Genesis
    <2>. QED
        BY <2>1, <2>2
<1>4. m = [i \in 1..Len(l) |-> IF f <= i /\ i <= Len(l)
                                 THEN [id |-> l[i].id, val |-> l[i].val, prev |-> C(i), hash |-> C(i + 1)]
                                 ELSE l[i]]
    BY DEF Reseal, Vals
<1>. HIDE DEF f
<1>5. ASSUME NEW i \in f..Len(l)
      PROVE  /\ C(i) \in Seq(Nat) /\ C(i + 1) \in Seq(Nat)
             /\ C(i + 1) = ComputeHash(C(i), l[i].val)
    <2>. HIDE DEF base
    <2>. QED
        BY <1>1, <1>3, ChainStep
<1>6. C(f) = base
    <2>1. Vals(l, f, f) = << >>
        BY <1>1 DEF Vals
    <2>. HIDE DEF base
    <2>. QED
        BY <1>3, <2>1
<1>. HIDE DEF base, C
<1>8. Len(m) = Len(l) /\ DOMAIN m = 1..Len(l)
    BY <1>1, <1>4
<1>9. \A i \in 1..Len(l) : i < f => m[i] = l[i]
    BY <1>1, <1>4
<1>10. ASSUME NEW i \in 1..Len(l), f <= i
       PROVE  /\ m[i] \in AuditEvent /\ m[i].id = l[i].id /\ m[i].val = l[i].val
              /\ m[i].prev = C(i) /\ m[i].hash = C(i + 1)
    <2>1. m[i] = [id |-> l[i].id, val |-> l[i].val, prev |-> C(i), hash |-> C(i + 1)]
        BY <1>1, <1>4, <1>10
    <2>2. l[i] \in AuditEvent
        OBVIOUS
    <2>3. i \in f..Len(l)
        BY <1>1, <1>10
    <2>4. C(i) \in Hashes /\ C(i + 1) \in Hashes
        BY <1>5, <2>3 DEF Hashes
    <2>. QED
        BY <2>1, <2>2, <2>4 DEF AuditEvent
<1>11. m \in Seq(AuditEvent)
    <2>1. \A i \in 1..Len(l) : m[i] \in AuditEvent
        BY <1>1, <1>9, <1>10
    <2>2. m \in [1..Len(l) -> AuditEvent]
        BY <1>4, <2>1
    <2>. QED
        BY <1>1, <2>2
<1>12. \A i \in 1..Len(l) : m[i].id = l[i].id /\ m[i].val = l[i].val
    BY <1>1, <1>9, <1>10
<1>13. \A i \in 1..Len(l) : Sealed(m[i])
    <2>. SUFFICES ASSUME NEW i \in 1..Len(l) PROVE Sealed(m[i])
        OBVIOUS
    <2>1. CASE i < f
        BY <1>2, <1>9, <2>1
    <2>2. CASE f <= i
        <3>1. C(i + 1) \in Seq(Nat)
            BY <1>1, <1>5, <2>2
        <3>. QED
            BY <1>10, <2>2, <3>1, NoHashAssumption DEF Sealed
    <2>. QED
        BY <1>1, <2>1, <2>2
<1>14. ASSUME NEW i \in 1..Len(l)
       PROVE  Linked(m, i)
    <2>1. CASE i < f
        <3>1. Linked(l, i)
            BY SoundMeans
        <3>2. m[i] = l[i] /\ (i > 1 => m[i - 1] = l[i - 1])
            BY <1>1, <1>9, <2>1
        <3>. QED
            BY <3>1, <3>2, LinkedIsLocal
    <2>2. CASE i = f
        <3>1. HashBefore(m, i) = base
            <4>1. CASE i > 1
                <5>1. m[i - 1] = l[i - 1]
                    BY <1>1, <1>9, <2>2, <4>1
                <5>. QED
                    BY <2>2, <5>1 DEF HashBefore, base
            <4>2. CASE ~(i > 1)
                BY <2>2, <4>2 DEF HashBefore, base
            <4>. QED
                BY <4>1, <4>2
        <3>2. m[i].prev = C(i) /\ m[i].hash = C(i + 1) /\ m[i].val = l[i].val
            BY <1>1, <1>10, <2>2
        <3>3. C(i) = base
            BY <1>6, <2>2
        <3>4. C(i + 1) = ComputeHash(C(i), l[i].val)
            BY <1>1, <1>5, <2>2
        <3>. QED
            BY <3>1, <3>2, <3>3, <3>4 DEF Linked
    <2>3. CASE i > f
        <3>1. i - 1 \in 1..Len(l) /\ f <= i - 1 /\ i > 1 /\ (i - 1) + 1 = i
            BY <1>1, <2>3
        <3>2. m[i - 1].hash = C(i) /\ Sealed(m[i - 1])
            BY <1>10, <1>13, <3>1
        <3>3. HashBefore(m, i) = C(i)
            BY <3>1, <3>2 DEF HashBefore
        <3>4. m[i].prev = C(i) /\ m[i].hash = C(i + 1) /\ m[i].val = l[i].val
            BY <1>1, <1>10, <2>3
        <3>5. C(i + 1) = ComputeHash(C(i), l[i].val)
            BY <1>1, <1>5, <2>3
        <3>. QED
            BY <3>3, <3>4, <3>5 DEF Linked
    <2>. QED
        BY <1>1, <2>1, <2>2, <2>3
<1>15. SoundLog(m, n)
    <2>1. \A i, j \in 1..Len(m) : i < j => m[i].id < m[j].id
        BY <1>8, <1>12, SoundMeans
    <2>2. \A i \in 1..Len(m) : m[i].id < n
        BY <1>8, <1>12, SoundMeans
    <2>. QED
        BY <1>8, <1>14, <2>1, <2>2, SoundMeans
<1>16. Gaps(m) = {}
    BY <1>8, <1>13 DEF Gaps
<1>. QED
    BY <1>1, <1>2, <1>8, <1>9, <1>11, <1>12, <1>15, <1>16

-----------------------------------------------------------------------------
(* Transactions.                                                           *)

\* A larger next id.
LEMMA SoundBelow ==
    ASSUME NEW l \in Seq(AuditEvent), NEW n \in Nat, SoundLog(l, n)
    PROVE  SoundLog(l, n + 1)
<1>1. \A i \in 1..Len(l) : l[i].id \in Nat /\ l[i].id < n
    BY RowHashes, SoundMeans
<1>. QED
    BY <1>1, SoundMeans

\* The fields of a transaction.
LEMMA TxnFields ==
    ASSUME TypeOK, NEW w \in Writers
    PROVE  /\ txn[w] \in Txn
           /\ txn[w].row \in Rows /\ txn[w].size \in 1..MaxBatch /\ txn[w].size \in Nat
           /\ txn[w].pending \in Seq(AuditEvent) /\ Len(txn[w].pending) \in Nat
           /\ View(w) \in Seq(AuditEvent)
           /\ NoTxn(txn[w].row) \in Txn
<1>1. txn[w] \in Txn
    BY DEF TypeOK
<1>2. /\ txn[w].row \in Rows /\ txn[w].size \in 1..MaxBatch
      /\ txn[w].pending \in Seq(AuditEvent)
    BY <1>1 DEF Txn
<1>3. 1 \in 1..MaxBatch /\ << >> \in Seq(AuditEvent)
    BY LogAssumption
<1>4. NoTxn(txn[w].row) \in Txn
    BY <1>2, <1>3 DEF NoTxn, Txn
<1>5. View(w) \in Seq(AuditEvent)
    BY <1>2, ConcatProperties DEF View, TypeOK
<1>. QED
    BY <1>1, <1>2, <1>4, <1>5, LogAssumption

\* The repair waits for the writers, and they for it.
LEMMA NoRepairBeside ==
    ASSUME IInv, NEW w \in Writers, txn[w].pc # "idle"
    PROVE  repair = 0
BY DEF IInv, RepairIsAlone, Idle

\* Rows that stay: the rows of the table keep their places and ids.
Stay(l, m) == \A j \in 1..Len(l) : j \in 1..Len(m) /\ m[j].id = l[j].id

\* What a step of writer w has to show.
LEMMA WriterKeeps ==
    ASSUME IInv, NEW w \in Writers, NEW r \in Txn, txn' = [txn EXCEPT ![w] = r],
           repair = 0, repair' = 0, chain' = chain,
           log' \in Seq(AuditEvent), nextId' \in Nat, begun' \in Nat, siem' \in SUBSET Nat,
           rowLock' \in [Rows -> Writers \cup {NoWriter}], chainLock' \in Writers \cup {NoWriter},
           SoundLog(log', nextId'), Stay(log, log'),
           \A o \in Writers : o # w /\ txn[o].pc = "sealing" =>
               log' = log /\ nextId' = nextId /\ chainLock' = o,
           \/ chainLock' = NoWriter
           \/ chainLock' = w /\ r.pc = "sealing"
           \/ chainLock' = chainLock /\ chainLock # w,
           \A i \in siem' : i \in siem \/ \E k \in 1..Len(log') : log'[k].id = i,
           SoundTxn(w)'
    PROVE  IInv'
<1>1. /\ txn' \in [Writers -> Txn] /\ txn'[w] = r
      /\ \A o \in Writers : o # w => txn'[o] = txn[o]
    BY DEF IInv, TypeOK
<1>2. Len(log') \in Nat
    OBVIOUS
<1>3. TypeOK'
    BY <1>1, <1>2 DEF IInv, TypeOK
<1>4. ASSUME NEW o \in Writers, o # w
      PROVE  SoundTxn(o)'
    <2>1. txn'[o] = txn[o] /\ SoundTxn(o)
        BY <1>1, <1>4 DEF IInv
    <2>2. txn'[o].pc \in {"idle", "open", "flushed"} => txn'[o].pending = << >>
        BY <2>1 DEF SoundTxn
    <2>3. ASSUME txn'[o].pc = "sealing"
          PROVE  chain' /\ chainLock' = o /\ SoundLog(View(o), nextId)'
        <3>1. log' = log /\ nextId' = nextId /\ chainLock' = o
            BY <1>4, <2>1, <2>3
        <3>2. View(o)' = View(o)
            BY <2>1, <3>1 DEF View
        <3>3. chain /\ SoundLog(View(o), nextId)
            BY <2>1, <2>3 DEF SoundTxn
        <3>. QED
            BY <3>1, <3>2, <3>3
    <2>4. ASSUME txn'[o].pc = "deliver", NEW k \in 1..Len(txn'[o].pending)
          PROVE  \E j \in 1..Len(log') : log'[j].id = txn'[o].pending[k].id
        <3>1. PICK j \in 1..Len(log) : log[j].id = txn[o].pending[k].id
            BY <2>1, <2>4 DEF SoundTxn
        <3>2. j \in 1..Len(log') /\ log'[j].id = log[j].id
            BY DEF Stay
        <3>. QED
            BY <2>1, <3>1, <3>2
    <2>. QED
        BY <2>2, <2>3, <2>4 DEF SoundTxn
<1>5. \A o \in Writers : SoundTxn(o)'
    BY <1>4
<1>6. SealerHoldsTheLock'
    <2>1. ASSUME chainLock' # NoWriter, chainLock' = chainLock, chainLock # w
          PROVE  txn'[chainLock'].pc = "sealing"
        <3>1. chainLock \in Writers
            BY <2>1 DEF IInv, TypeOK
        <3>. QED
            BY <1>1, <2>1, <3>1 DEF IInv, SealerHoldsTheLock
    <2>. QED
        BY <1>1, <2>1 DEF SealerHoldsTheLock
<1>7. SiemNeverAhead'
    <2>. SUFFICES ASSUME NEW i \in siem' PROVE \E k \in 1..Len(log') : log'[k].id = i
        BY DEF SiemNeverAhead
    <2>1. CASE i \in siem
        <3>1. PICK k \in 1..Len(log) : log[k].id = i
            BY <2>1 DEF IInv, SiemNeverAhead
        <3>. QED
            BY <3>1 DEF Stay
    <2>. QED
        BY <2>1
<1>8. RepairIsAlone'
    BY DEF RepairIsAlone
<1>. QED
    BY <1>3, <1>5, <1>6, <1>7, <1>8 DEF IInv

\* A table that does not change.
LEMMA SameStays ==
    ASSUME log' = log
    PROVE  Stay(log, log')
BY DEF Stay

\* The end of a transaction leaves the lock to whoever else holds it.
LEMMA ReleaseIsOwn ==
    ASSUME IInv, NEW w \in Writers, Release(w)
    PROVE  /\ rowLock' \in [Rows -> Writers \cup {NoWriter}]
           /\ chainLock' \in Writers \cup {NoWriter}
           /\ \/ chainLock' = NoWriter
              \/ chainLock' = chainLock /\ chainLock # w
           /\ \A o \in Writers : o # w /\ txn[o].pc = "sealing" => chainLock' = o
<1>1. rowLock' \in [Rows -> Writers \cup {NoWriter}]
    BY DEF Release, IInv, TypeOK
<1>2. \A o \in Writers : txn[o].pc = "sealing" => chainLock = o
    BY DEF IInv, SoundTxn
<1>. QED
    BY <1>1, <1>2 DEF Release, IInv, TypeOK

LEMMA BeginKeeps ==
    ASSUME IInv, ~RepairLive, NEW w \in Writers, NEW row \in Rows, NEW size \in 1..MaxBatch,
           Begin(w, row, size)
    PROVE  IInv'
<1>. DEFINE r == [pc |-> "open", row |-> row, size |-> size, pending |-> << >>]
<1>1. r \in Txn /\ r.pc = "open" /\ r.pending = << >>
    BY DEF Txn
<1>2. /\ txn' = [txn EXCEPT ![w] = r] /\ txn'[w] = r
      /\ repair = 0 /\ txn[w].pc = "idle"
      /\ UNCHANGED <<log, nextId, rowLock, chainLock, siem, chain, repair>>
    BY DEF Begin, AppDown, IInv, TypeOK
<1>3. begun' \in Nat
    BY DEF Begin, IInv, TypeOK
<1>. HIDE DEF r
<1>4. SoundTxn(w)'
    BY <1>1, <1>2 DEF SoundTxn
<1>5. chainLock # w
    BY <1>2, LogAssumption DEF IInv, SealerHoldsTheLock
<1>6. \A o \in Writers : txn[o].pc = "sealing" => chainLock = o
    BY DEF IInv, SoundTxn
<1>. QED
    BY <1>1, <1>2, <1>3, <1>4, <1>5, <1>6, SameStays, WriterKeeps DEF IInv, TypeOK

LEMMA FlushKeeps ==
    ASSUME IInv, NEW w \in Writers, Flush(w)
    PROVE  IInv'
<1>. DEFINE r == [txn[w] EXCEPT !.pc = "flushed"]
<1>1. TypeOK /\ txn[w] \in Txn /\ txn[w].row \in Rows /\ txn[w].pending = << >>
    BY TxnFields DEF IInv, SoundTxn, Flush
<1>2. r \in Txn /\ r.pc = "flushed" /\ r.pending = << >>
    BY <1>1 DEF Txn
<1>3. /\ txn' = [txn EXCEPT ![w] = r] /\ txn'[w] = r
      /\ txn[w].pc = "open"
      /\ UNCHANGED <<log, nextId, chainLock, siem, chain, repair, begun>>
    BY <1>1 DEF Flush, TypeOK
<1>4. rowLock' \in [Rows -> Writers \cup {NoWriter}]
    BY <1>1 DEF Flush, TypeOK
<1>. HIDE DEF r
<1>5. SoundTxn(w)'
    BY <1>2, <1>3 DEF SoundTxn
<1>6. chainLock # w /\ repair = 0
    BY <1>3, NoRepairBeside, LogAssumption DEF IInv, SealerHoldsTheLock
<1>7. \A o \in Writers : txn[o].pc = "sealing" => chainLock = o
    BY DEF IInv, SoundTxn
<1>. QED
    BY <1>2, <1>3, <1>4, <1>5, <1>6, <1>7, SameStays, WriterKeeps DEF IInv, TypeOK

LEMMA AppendLockKeeps ==
    ASSUME IInv, NEW w \in Writers, AppendLock(w)
    PROVE  IInv'
<1>. DEFINE r == [txn[w] EXCEPT !.pc = "sealing"]
<1>1. TypeOK /\ txn[w] \in Txn /\ txn[w].pending = << >> /\ log \in Seq(AuditEvent)
    BY TxnFields DEF IInv, SoundTxn, AppendLock, TypeOK
<1>2. r \in Txn /\ r.pc = "sealing" /\ r.pending = << >>
    BY <1>1 DEF Txn
<1>3. /\ txn' = [txn EXCEPT ![w] = r] /\ txn'[w] = r
      /\ txn[w].pc = "flushed" /\ chain /\ chainLock = NoWriter /\ chainLock' = w
      /\ UNCHANGED <<log, nextId, rowLock, siem, chain, repair, begun>>
    BY <1>1 DEF AppendLock, TypeOK
<1>. HIDE DEF r
<1>4. View(w)' = log
    BY <1>1, <1>2, <1>3 DEF View
<1>5. SoundTxn(w)'
    BY <1>2, <1>3, <1>4 DEF SoundTxn, IInv
<1>6. repair = 0
    BY <1>3, NoRepairBeside
<1>7. \A o \in Writers : txn[o].pc # "sealing"
    BY <1>3, LogAssumption DEF IInv, SoundTxn
<1>. QED
    BY <1>2, <1>3, <1>5, <1>6, <1>7, SameStays, WriterKeeps DEF IInv, TypeOK

LEMMA SealKeeps ==
    ASSUME IInv, NEW w \in Writers, Seal(w)
    PROVE  IInv'
<1>. DEFINE e == SealEvent(View(w), nextId, nextId)
            r == [txn[w] EXCEPT !.pending = Append(txn[w].pending, e)]
<1>1. /\ TypeOK /\ txn[w] \in Txn /\ txn[w].pending \in Seq(AuditEvent)
      /\ View(w) \in Seq(AuditEvent) /\ log \in Seq(AuditEvent) /\ nextId \in Nat
      /\ txn[w].pc = "sealing"
    BY TxnFields DEF IInv, TypeOK, Seal
<1>2. /\ chain /\ chainLock = w /\ SoundLog(View(w), nextId) /\ SoundLog(log, nextId)
      /\ \A o \in Writers : txn[o].pc = "sealing" => o = w
    BY <1>1 DEF IInv, SoundTxn
<1>3. e \in AuditEvent
    BY <1>1, SealMakesRow
<1>4. SoundLog(Append(View(w), e), nextId + 1)
    BY <1>1, <1>2, SealingKeepsSound
<1>. HIDE DEF e
<1>5. Append(txn[w].pending, e) \in Seq(AuditEvent)
    BY <1>1, <1>3, AppendProperties
<1>6. r \in Txn /\ r.pc = "sealing" /\ r.pending = Append(txn[w].pending, e)
    BY <1>1, <1>5 DEF Txn
<1>7. /\ txn' = [txn EXCEPT ![w] = r] /\ txn'[w] = r
      /\ nextId' = nextId + 1
      /\ UNCHANGED <<log, rowLock, chainLock, siem, chain, repair, begun>>
    BY <1>1 DEF Seal, TypeOK, e
<1>. HIDE DEF r
<1>8. View(w)' = Append(View(w), e)
    <2>1. log \o Append(txn[w].pending, e) = Append(log \o txn[w].pending, e)
        BY <1>1, <1>3, ConcatThenAppend, SMTT(40)
    <2>2. View(w)' = log \o Append(txn[w].pending, e)
        BY <1>6, <1>7 DEF View
    <2>. QED
        BY <2>1, <2>2 DEF View
<1>9. SoundTxn(w)'
    BY <1>2, <1>4, <1>6, <1>7, <1>8 DEF SoundTxn
<1>10. repair = 0
    BY <1>1, NoRepairBeside
<1>11. SoundLog(log', nextId') /\ nextId' \in Nat
    BY <1>1, <1>2, <1>7, SoundBelow
<1>12. /\ repair' = 0 /\ chain' = chain /\ log' \in Seq(AuditEvent) /\ begun' \in Nat
       /\ siem' \in SUBSET Nat /\ rowLock' \in [Rows -> Writers \cup {NoWriter}]
       /\ chainLock' \in Writers \cup {NoWriter} /\ chainLock' = w /\ siem' = siem
    BY <1>1, <1>2, <1>7, <1>10 DEF TypeOK
<1>13. Stay(log, log') /\ txn' = [txn EXCEPT ![w] = r]
    BY <1>7, SameStays
<1>. QED
    BY <1>2, <1>6, <1>9, <1>10, <1>11, <1>12, <1>13, WriterKeeps

\* The rows are in the table, by their ids.
AreIn(rows, l) == \A k \in 1..Len(rows) : \E j \in 1..Len(l) : l[j].id = rows[k].id

\* Rows added at the end.
LEMMA AddedRows ==
    ASSUME NEW l \in Seq(AuditEvent), NEW rows \in Seq(AuditEvent)
    PROVE  Stay(l, l \o rows) /\ AreIn(rows, l \o rows)
<1>. DEFINE m == l \o rows
<1>1. /\ m \in Seq(AuditEvent) /\ Len(m) = Len(l) + Len(rows) /\ Len(l) \in Nat /\ Len(rows) \in Nat
      /\ \A i \in 1..Len(l) : m[i] = l[i]
      /\ \A k \in 1..Len(rows) : m[Len(l) + k] = rows[k]
    BY ConcatRows
<1>. HIDE DEF m
<1>2. ASSUME NEW k \in 1..Len(rows)
      PROVE  \E j \in 1..Len(m) : m[j].id = rows[k].id
    <2>1. Len(l) + k \in 1..Len(m)
        BY <1>1
    <2>. QED
        BY <1>1, <2>1
<1>3. Stay(l, m) /\ AreIn(rows, m)
    BY <1>1, <1>2 DEF Stay, AreIn
<1>. QED
    BY <1>3 DEF m

LEMMA CommitKeeps ==
    ASSUME IInv, NEW w \in Writers, Commit(w)
    PROVE  IInv'
<1>. DEFINE r == [txn[w] EXCEPT !.pc = "deliver"]
<1>1. /\ TypeOK /\ txn[w] \in Txn /\ txn[w].pending \in Seq(AuditEvent)
      /\ View(w) \in Seq(AuditEvent) /\ log \in Seq(AuditEvent) /\ txn[w].pc = "sealing"
    BY TxnFields DEF IInv, TypeOK, Commit
<1>2. /\ SoundLog(View(w), nextId)
      /\ \A o \in Writers : txn[o].pc = "sealing" => o = w
    BY <1>1 DEF IInv, SoundTxn
<1>3. r \in Txn /\ r.pc = "deliver" /\ r.pending = txn[w].pending
    BY <1>1 DEF Txn
<1>4. /\ txn' = [txn EXCEPT ![w] = r] /\ txn'[w] = r
      /\ log' = log \o txn[w].pending /\ log' = View(w) /\ Release(w)
      /\ UNCHANGED <<nextId, siem, chain, repair, begun>>
    BY <1>1 DEF Commit, TypeOK, View
<1>. HIDE DEF r
<1>5. Stay(log, log') /\ AreIn(txn[w].pending, log')
    BY <1>1, <1>4, AddedRows
<1>6. SoundTxn(w)'
    BY <1>3, <1>4, <1>5 DEF SoundTxn, AreIn
<1>7. repair = 0
    BY <1>1, NoRepairBeside
<1>8. /\ rowLock' \in [Rows -> Writers \cup {NoWriter}]
      /\ chainLock' \in Writers \cup {NoWriter}
      /\ \/ chainLock' = NoWriter
         \/ chainLock' = chainLock /\ chainLock # w
    BY <1>4, ReleaseIsOwn
<1>. QED
    BY <1>1, <1>2, <1>3, <1>4, <1>5, <1>6, <1>7, <1>8, WriterKeeps DEF TypeOK

LEMMA CommitUnsealedKeeps ==
    ASSUME IInv, NEW w \in Writers, CommitUnsealed(w)
    PROVE  IInv'
<1>1. /\ TypeOK /\ txn[w] \in Txn /\ txn[w].size \in Nat /\ log \in Seq(AuditEvent)
      /\ nextId \in Nat /\ SoundLog(log, nextId) /\ txn[w].pc = "flushed" /\ ~chain
    BY TxnFields DEF IInv, TypeOK, CommitUnsealed
<1>2. \A o \in Writers : txn[o].pc # "sealing"
    BY <1>1 DEF IInv, SoundTxn
<1>3. PICK size, rows, m :
          /\ size \in Nat /\ size = txn[w].size /\ m = log'
          /\ rows = UnsealedBatch(nextId, size)
    BY <1>1
<1>4. /\ txn' = [txn EXCEPT ![w].pc = "deliver", ![w].pending = rows]
      /\ m = log \o rows /\ nextId' = nextId + size /\ Release(w)
      /\ UNCHANGED <<siem, chain, repair, begun>>
    BY <1>3 DEF CommitUnsealed, UnsealedBatch
<1>5. rows \in Seq(AuditEvent) /\ m \in Seq(AuditEvent) /\ SoundLog(m, nextId + size)
    BY <1>1, <1>3, <1>4, UnsealedKeepsSound
<1>. DEFINE r == [txn[w] EXCEPT !.pc = "deliver", !.pending = rows]
<1>6. r \in Txn /\ r.pc = "deliver" /\ r.pending = rows
    BY <1>1, <1>5 DEF Txn
<1>7. txn' = [txn EXCEPT ![w] = r] /\ txn'[w] = r
    BY <1>1, <1>4 DEF TypeOK
<1>. HIDE DEF r
<1>8. Stay(log, log') /\ AreIn(rows, log')
    BY <1>1, <1>3, <1>4, <1>5, AddedRows
<1>9. SoundTxn(w)'
    <2>1. txn'[w].pc = "deliver" /\ AreIn(txn'[w].pending, log')
        BY <1>6, <1>7, <1>8
    <2>. QED
        BY <2>1 DEF SoundTxn, AreIn
<1>10. repair = 0
    BY <1>1, NoRepairBeside
<1>11. /\ rowLock' \in [Rows -> Writers \cup {NoWriter}]
       /\ chainLock' \in Writers \cup {NoWriter}
       /\ \/ chainLock' = NoWriter
          \/ chainLock' = chainLock /\ chainLock # w
    BY <1>4, ReleaseIsOwn
<1>12. nextId' \in Nat /\ log' \in Seq(AuditEvent) /\ SoundLog(log', nextId') /\ Stay(log, log')
    BY <1>1, <1>3, <1>4, <1>5, <1>8
<1>13. /\ repair' = 0 /\ chain' = chain /\ begun' \in Nat /\ siem' \in SUBSET Nat /\ siem' = siem
    BY <1>1, <1>4, <1>10 DEF TypeOK
<1>14. \A i \in siem' : i \in siem
    BY <1>13
<1>. QED
    BY <1>2, <1>6, <1>7, <1>9, <1>10, <1>11, <1>12, <1>13, <1>14, WriterKeeps

LEMMA DeliverKeeps ==
    ASSUME IInv, NEW w \in Writers, Deliver(w)
    PROVE  IInv'
<1>. DEFINE r == NoTxn(txn[w].row)
<1>1. /\ TypeOK /\ txn[w].pending \in Seq(AuditEvent) /\ r \in Txn /\ txn[w].pc = "deliver"
    BY TxnFields DEF IInv, Deliver
<1>2. r.pc = "idle" /\ r.pending = << >>
    BY DEF NoTxn
<1>3. /\ txn' = [txn EXCEPT ![w] = r] /\ txn'[w] = r
      /\ siem' = siem \cup {txn[w].pending[k].id : k \in 1..Len(txn[w].pending)}
      /\ UNCHANGED <<log, nextId, rowLock, chainLock, chain, repair, begun>>
    BY <1>1 DEF Deliver, TypeOK
<1>. HIDE DEF r
<1>4. \A k \in 1..Len(txn[w].pending) : /\ txn[w].pending[k].id \in Nat
                                        /\ \E j \in 1..Len(log) : log[j].id = txn[w].pending[k].id
    BY <1>1, RowHashes DEF IInv, SoundTxn
<1>5. siem' \in SUBSET Nat
    BY <1>1, <1>3, <1>4 DEF TypeOK
<1>6. \A i \in siem' : i \in siem \/ \E k \in 1..Len(log') : log'[k].id = i
    BY <1>3, <1>4, ZenonT(60)
<1>7. SoundTxn(w)'
    BY <1>2, <1>3 DEF SoundTxn
<1>8. chainLock # w /\ repair = 0
    BY <1>1, NoRepairBeside, LogAssumption DEF IInv, SealerHoldsTheLock
<1>9. \A o \in Writers : txn[o].pc = "sealing" => chainLock = o
    BY DEF IInv, SoundTxn
<1>. QED
    BY <1>1, <1>2, <1>3, <1>5, <1>6, <1>7, <1>8, <1>9, SameStays, WriterKeeps DEF IInv, TypeOK

LEMMA AbortKeeps ==
    ASSUME IInv, NEW w \in Writers, Abort(w)
    PROVE  IInv'
<1>. DEFINE r == NoTxn(txn[w].row)
<1>1. TypeOK /\ r \in Txn /\ txn[w].pc # "idle"
    BY TxnFields DEF IInv, Abort
<1>2. r.pc = "idle" /\ r.pending = << >>
    BY DEF NoTxn
<1>3. /\ txn' = [txn EXCEPT ![w] = r] /\ txn'[w] = r /\ Release(w)
      /\ UNCHANGED <<log, nextId, siem, chain, repair, begun>>
    BY <1>1 DEF Abort, TypeOK
<1>. HIDE DEF r
<1>4. SoundTxn(w)'
    BY <1>2, <1>3 DEF SoundTxn
<1>5. repair = 0
    BY <1>1, NoRepairBeside
<1>6. /\ rowLock' \in [Rows -> Writers \cup {NoWriter}]
      /\ chainLock' \in Writers \cup {NoWriter}
      /\ \/ chainLock' = NoWriter
         \/ chainLock' = chainLock /\ chainLock # w
      /\ \A o \in Writers : o # w /\ txn[o].pc = "sealing" => chainLock' = o
    BY <1>3, ReleaseIsOwn
<1>. QED
    BY <1>1, <1>2, <1>3, <1>4, <1>5, <1>6, SameStays, WriterKeeps DEF IInv, TypeOK

-----------------------------------------------------------------------------
(* Operations.                                                             *)

LEMMA ReconfigureKeeps ==
    ASSUME IInv, Reconfigure
    PROVE  IInv'
<1>1. /\ \A w \in Writers : txn[w].pc = "idle"
      /\ UNCHANGED <<log, nextId, txn, rowLock, chainLock, siem, repair, begun>>
      /\ chain' \in BOOLEAN
    BY DEF Reconfigure, Idle
<1>2. TypeOK'
    BY <1>1 DEF IInv, TypeOK
<1>3. ASSUME NEW w \in Writers
      PROVE  SoundTxn(w)'
    BY <1>1 DEF IInv, SoundTxn
<1>4. SealerHoldsTheLock' /\ RepairIsAlone' /\ SiemNeverAhead' /\ SoundLog(log', nextId')
    BY <1>1 DEF IInv, SealerHoldsTheLock, RepairIsAlone, SiemNeverAhead, Idle
<1>. QED
    BY <1>2, <1>3, <1>4 DEF IInv

LEMMA RepairReadKeeps ==
    ASSUME IInv, ~RepairLive, RepairRead
    PROVE  IInv'
<1>1. /\ Idle /\ GapIsTail(log) /\ Gaps(log) # {} /\ repair' = Len(log)
      /\ UNCHANGED <<log, nextId, txn, rowLock, chainLock, siem, chain, begun>>
    BY DEF RepairRead
<1>2. Len(log) \in Nat
    BY DEF IInv, TypeOK
<1>3. TypeOK'
    BY <1>1, <1>2 DEF IInv, TypeOK
<1>4. ASSUME NEW w \in Writers
      PROVE  SoundTxn(w)'
    BY <1>1 DEF IInv, SoundTxn, Idle
<1>5. SealerHoldsTheLock' /\ RepairIsAlone' /\ SiemNeverAhead' /\ SoundLog(log', nextId')
    BY <1>1 DEF IInv, SealerHoldsTheLock, RepairIsAlone, SiemNeverAhead, Idle
<1>. QED
    BY <1>3, <1>4, <1>5 DEF IInv

\* What RepairCommit makes of the table.
LEMMA RepairedLog ==
    ASSUME IInv, RepairCommit
    PROVE  /\ Idle /\ log' \in Seq(AuditEvent) /\ Len(log') = Len(log)
           /\ SoundLog(log', nextId) /\ Gaps(log') = {}
           /\ \A i \in 1..Len(log) : /\ Sealed(log[i]) => log'[i] = log[i]
                                     /\ log'[i].id = log[i].id /\ log'[i].val = log[i].val
<1>1. /\ Idle /\ repair = Len(log) /\ GapIsTail(log) /\ Gaps(log) # {}
      /\ log' = Reseal(log, Len(log))
      /\ log \in Seq(AuditEvent) /\ nextId \in Nat /\ SoundLog(log, nextId)
    BY DEF RepairCommit, IInv, RepairIsAlone, TypeOK
<1>2. PICK l, m : l \in Seq(AuditEvent) /\ l = log /\ m = log'
    BY <1>1
<1>3. /\ l \in Seq(AuditEvent) /\ SoundLog(l, nextId) /\ GapIsTail(l) /\ Gaps(l) # {} /\ m = Reseal(l, Len(l))
    BY <1>1, <1>2
<1>4. /\ m \in Seq(AuditEvent) /\ Len(m) = Len(l) /\ SoundLog(m, nextId) /\ Gaps(m) = {}
      /\ \A i \in 1..Len(l) : /\ Sealed(l[i]) => m[i] = l[i]
                              /\ m[i].id = l[i].id /\ m[i].val = l[i].val
    BY <1>1, <1>3, ResealCompletes
<1>. QED
    BY <1>1, <1>2, <1>4

LEMMA RepairCommitKeeps ==
    ASSUME IInv, RepairCommit
    PROVE  IInv'
<1>1. /\ Idle /\ log' \in Seq(AuditEvent) /\ Len(log') = Len(log) /\ SoundLog(log', nextId)
      /\ \A i \in 1..Len(log) : log'[i].id = log[i].id
    BY RepairedLog
<1>2. /\ UNCHANGED <<nextId, txn, rowLock, chainLock, siem, chain, begun>>
      /\ repair' = 0
    BY DEF RepairCommit
<1>3. TypeOK'
    BY <1>1, <1>2 DEF IInv, TypeOK
<1>4. ASSUME NEW w \in Writers
      PROVE  SoundTxn(w)'
    BY <1>1, <1>2 DEF IInv, SoundTxn, Idle
<1>5. SiemNeverAhead'
    BY <1>1, <1>2 DEF IInv, SiemNeverAhead
<1>6. SealerHoldsTheLock' /\ RepairIsAlone' /\ SoundLog(log', nextId')
    BY <1>1, <1>2 DEF IInv, SealerHoldsTheLock, RepairIsAlone
<1>. QED
    BY <1>3, <1>4, <1>5, <1>6 DEF IInv

\* Rows of before the chain.
LEMMA InitSound == Init => IInv /\ Gaps(log) = 1..Len(log)
<1>. SUFFICES ASSUME Init PROVE IInv /\ Gaps(log) = 1..Len(log)
    OBVIOUS
<1>1. \A i \in 1..LegacyRows : /\ log[i] \in AuditEvent /\ log[i].id = i /\ ~Sealed(log[i])
    BY LogAssumption DEF Init, Unsealed, AuditEvent, Sealed
<1>2. log \in Seq(AuditEvent) /\ Len(log) = LegacyRows
    <2>1. log \in [1..LegacyRows -> AuditEvent]
        BY <1>1 DEF Init
    <2>. QED
        BY <2>1, FunctionIsSeq, LogAssumption
<1>3. SoundLog(log, nextId)
    <2>1. \A i, j \in 1..Len(log) : i < j => log[i].id < log[j].id
        BY <1>1, <1>2
    <2>2. \A i \in 1..Len(log) : Linked(log, i)
        BY <1>1, <1>2 DEF Linked
    <2>3. \A i \in 1..Len(log) : log[i].id < nextId
        BY <1>1, <1>2, LogAssumption DEF Init
    <2>. QED
        BY <2>1, <2>2, <2>3, SoundMeans
<1>4. \A w \in Writers : txn[w] \in Txn /\ txn[w].pc = "idle" /\ txn[w].pending = << >>
    <2>. SUFFICES ASSUME NEW w \in Writers
                  PROVE  txn[w] \in Txn /\ txn[w].pc = "idle" /\ txn[w].pending = << >>
        OBVIOUS
    <2>1. PICK row \in Rows : txn[w] = NoTxn(row)
        BY DEF Init
    <2>2. 1 \in 1..MaxBatch /\ << >> \in Seq(AuditEvent)
        BY LogAssumption
    <2>. QED
        BY <2>1, <2>2 DEF NoTxn, Txn
<1>5. TypeOK
    <2>1. txn \in [Writers -> Txn]
        BY <1>4 DEF Init
    <2>2. nextId \in Nat /\ repair \in 0..Len(log)
        BY <1>2, LogAssumption DEF Init
    <2>. QED
        BY <1>2, <2>1, <2>2 DEF Init, TypeOK
<1>6. \A w \in Writers : SoundTxn(w)
    BY <1>4 DEF SoundTxn
<1>7. SealerHoldsTheLock /\ RepairIsAlone /\ SiemNeverAhead
    BY DEF Init, SealerHoldsTheLock, RepairIsAlone, SiemNeverAhead
<1>8. Gaps(log) = 1..Len(log)
    BY <1>1, <1>2 DEF Gaps
<1>. QED
    BY <1>3, <1>5, <1>6, <1>7, <1>8 DEF IInv

\* Every step, and a stuttering one.
LEMMA NextKeeps ==
    ASSUME IInv, ~RepairLive, [Next]_vars
    PROVE  IInv'
<1>1. CASE UNCHANGED vars
    <2>1. UNCHANGED <<log, nextId, txn, rowLock, chainLock, siem, chain, repair, begun>>
        BY <1>1 DEF vars
    <2>2. TypeOK' /\ SoundLog(log', nextId') /\ SiemNeverAhead' /\ SealerHoldsTheLock' /\ RepairIsAlone'
        BY <2>1 DEF IInv, TypeOK, SiemNeverAhead, SealerHoldsTheLock, RepairIsAlone, Idle
    <2>3. ASSUME NEW w \in Writers
          PROVE  SoundTxn(w)'
        BY <2>1 DEF IInv, SoundTxn, View
    <2>. QED
        BY <2>2, <2>3 DEF IInv
<1>2. ASSUME NEW w \in Writers, Step(w) \/ Abort(w)
      PROVE  IInv'
    BY <1>2, FlushKeeps, AppendLockKeeps, SealKeeps, CommitKeeps, CommitUnsealedKeeps, DeliverKeeps,
       AbortKeeps DEF Step
<1>. QED
    BY <1>1, <1>2, BeginKeeps, ReconfigureKeeps, RepairReadKeeps, RepairCommitKeeps DEF Next

-----------------------------------------------------------------------------
(* The refinement.                                                         *)

\* The operators of HashChain are those that SealedLog uses.
LEMMA SameChain ==
    /\ \A l, i : Sealing!Linked(l, i) <=> Linked(l, i)
    /\ \A l : Sealing!Gaps(l) = Gaps(l)
    /\ \A e : Sealing!Sealed(e) <=> Sealed(e)
BY DEF Linked, HashBefore, Gaps, Sealed, ComputeHash, Genesis, Sealing!Linked, Sealing!HashBefore,
       Sealing!Gaps, Sealing!Sealed, Sealing!ComputeHash, Sealing!Genesis

\* A table with rows added at its end, all of it sound.
LEMMA AppendsRows ==
    ASSUME NEW rows \in Seq(AuditEvent), Len(rows) > 0, log \in Seq(AuditEvent), log' = log \o rows,
           NEW n, SoundLog(log', n)
    PROVE  Sealing!AppendRows
<1>1. PICK m : m = log'
    OBVIOUS
<1>2. /\ m \in Seq(AuditEvent) /\ Len(m) = Len(log) + Len(rows) /\ Len(log) \in Nat /\ Len(rows) \in Nat
      /\ \A i \in 1..Len(log) : m[i] = log[i]
    BY <1>1, ConcatRows
<1>3. \A i \in 1..Len(m) : Linked(m, i)
    BY <1>1, SoundMeans
<1>4. Len(log) < Len(m) /\ \A i \in (Len(log) + 1)..Len(m) : i \in 1..Len(m)
    BY <1>2
<1>. QED
    BY <1>1, <1>2, <1>3, <1>4, SameChain DEF Sealing!AppendRows, Sealing!LinkedAfter

\* Every step adds linked rows, repairs, or leaves the table alone.
LEMMA StepsAreSealed ==
    ASSUME IInv, IInv', [Next]_vars
    PROVE  [Sealing!Next]_log
<1>1. ASSUME NEW w \in Writers, Commit(w)
      PROVE  Sealing!AppendRows
    <2>1. /\ log \in Seq(AuditEvent) /\ txn[w].pending \in Seq(AuditEvent)
          /\ Len(txn[w].pending) > 0 /\ log' = log \o txn[w].pending
        BY <1>1, TxnFields DEF IInv, TypeOK, Commit, View
    <2>2. SoundLog(log', nextId')
        BY DEF IInv
    <2>. QED
        BY <2>1, <2>2, AppendsRows
<1>2. ASSUME NEW w \in Writers, CommitUnsealed(w)
      PROVE  Sealing!AppendRows
    <2>1. /\ log \in Seq(AuditEvent) /\ txn[w].size \in Nat /\ txn[w].size > 0 /\ nextId \in Nat
          /\ SoundLog(log, nextId)
        BY TxnFields DEF IInv, TypeOK
    <2>2. PICK size, rows :
              /\ size \in Nat
              /\ size = txn[w].size
              /\ rows = UnsealedBatch(nextId, size)
        BY <2>1
    <2>3. log' = log \o rows
        BY <1>2, <2>2 DEF CommitUnsealed, UnsealedBatch
    <2>4. rows \in Seq(AuditEvent) /\ Len(rows) = size
        BY <2>1, <2>2, UnsealedKeepsSound
    <2>5. SoundLog(log', nextId') /\ Len(rows) > 0
        BY <2>1, <2>2, <2>4 DEF IInv
    <2>. QED
        BY <2>1, <2>3, <2>4, <2>5, AppendsRows
<1>3. ASSUME RepairCommit
      PROVE  Sealing!Repair
    <2>1. /\ Len(log') = Len(log) /\ SoundLog(log', nextId) /\ Gaps(log') = {}
          /\ \A i \in 1..Len(log) : /\ Sealed(log[i]) => log'[i] = log[i]
                                    /\ log'[i].id = log[i].id /\ log'[i].val = log[i].val
        BY <1>3, RepairedLog
    <2>2. \A i \in 1..Len(log) : Linked(log', i)
        BY <2>1, SoundMeans
    <2>. QED
        BY <2>1, <2>2, SameChain DEF Sealing!Repair, Sealing!LinkedAfter
<1>4. ASSUME NEW w \in Writers,
             \/ \E row \in Rows, size \in 1..MaxBatch : Begin(w, row, size)
             \/ Flush(w) \/ AppendLock(w) \/ Seal(w) \/ Deliver(w) \/ Abort(w)
      PROVE  log' = log
    BY <1>4 DEF Begin, Flush, AppendLock, Seal, Deliver, Abort
<1>5. ASSUME Reconfigure \/ RepairRead \/ UNCHANGED vars
      PROVE  log' = log
    BY <1>5 DEF Reconfigure, RepairRead, vars
<1>. QED
    BY <1>1, <1>2, <1>3, <1>4, <1>5 DEF Next, Step, Sealing!Next

-----------------------------------------------------------------------------
(* The theorems.  The application is stopped for a repair: beside it, the  *)
(* repair does break the chain (RepairBesideTheApp).                       *)

\* The inductive invariant holds in every behaviour of the writers.
THEOREM Invariance ==
    ASSUME ~RepairLive
    PROVE  Spec => []IInv
<1>1. Init => IInv
    BY InitSound
<1>2. IInv /\ [Next]_vars => IInv'
    BY NextKeeps
<1>. QED
    BY <1>1, <1>2, PTL DEF Spec

\* verify_chain never finds a mismatch that nobody caused, whatever the number of
\* writers and the interleaving of batches, rollbacks, restarts and repairs.
THEOREM ChainHolds ==
    ASSUME ~RepairLive
    PROVE  Spec => []ChainNeverBreaks
<1>1. IInv => ChainNeverBreaks
    BY DEF IInv, SoundLog, ChainNeverBreaks
<1>. QED
    BY <1>1, Invariance, PTL

\* The audit log implements SealedLog: it only grows, sealed rows are final, every
\* row is linked to the row before it, a repair leaves no gap; and the SIEM hears
\* of committed events only.
THEOREM Refinement ==
    ASSUME ~RepairLive
    PROVE  Spec => ImplementsSealedLog
<1>1. IInv => TypeOK /\ ChainNeverBreaks /\ SiemNeverAhead
    BY DEF IInv, SoundLog, ChainNeverBreaks
<1>2. Init => Sealing!Init
    BY InitSound, SameChain DEF Sealing!Init
<1>3. IInv /\ IInv' /\ [Next]_vars => [Sealing!Next]_log
    BY StepsAreSealed
<1>. QED
    BY <1>1, <1>2, <1>3, Invariance, PTL DEF Spec, ImplementsSealedLog, Sealing!Spec
-----------------------------------------------------------------------------
(* The anchors: documents about the rows of the chain.                     *)

\* A set of ids below n has a greatest one.
LEMMA GreatestId ==
    ASSUME NEW S \in SUBSET Nat, S # {}, NEW n \in Nat, \A x \in S : x < n
    PROVE  Max(S) \in S /\ \A y \in S : y <= Max(S)
<1>. DEFINE T == {n - x : x \in S}
<1>1. T \in SUBSET Nat /\ T # {} /\ \A x \in S : n - x \in T
    <2>1. \A x \in S : n - x \in Nat
        OBVIOUS
    <2>. QED
        BY <2>1
<1>2. PICK t \in T : \A y \in T : ~(<<y, t>> \in OpToRel(<, Nat))
    BY <1>1, NatLessThanWellFounded, WFMin, Zenon
<1>3. \A y \in T : ~(y < t)
    <2>. SUFFICES ASSUME NEW y \in T, y < t PROVE FALSE
        OBVIOUS
    <2>1. <<y, t>> \in Nat \X Nat /\ <<y, t>>[1] = y /\ <<y, t>>[2] = t
        BY <1>1
    <2>2. <<y, t>> \in OpToRel(<, Nat)
        BY <2>1, Zenon DEF OpToRel
    <2>. QED
        BY <1>2, <2>2
<1>4. PICK x \in S : t = n - x
    BY <1>2
<1>5. \A y \in S : x >= y
    <2>. SUFFICES ASSUME NEW y \in S PROVE x >= y
        OBVIOUS
    <2>1. ~(n - y < n - x)
        BY <1>1, <1>3, <1>4
    <2>. QED
        BY <2>1
<1>6. Max(S) \in S /\ \A y \in S : Max(S) >= y
    BY <1>4, <1>5, Zenon DEF Max
<1>. QED
    BY <1>6

\* Fewer documents are as consistent.
LEMMA FewerDocs ==
    ASSUME NEW docs, NEW few \in SUBSET docs, NEW l, NEW n, Consistent(docs, l, n)
    PROVE  Consistent(few, l, n)
BY DEF Consistent

\* The document about a sealed row agrees with all that is consistent.
LEMMA RowsDoc ==
    ASSUME NEW docs \in SUBSET Doc, NEW l \in Seq(AuditEvent), NEW n \in Nat, Consistent(docs, l, n),
           IdsAscend(l), \A j \in 1..Len(l) : l[j].id < n,
           NEW i \in 1..Len(l), Sealed(l[i]), NEW d \in Doc, d.event = l[i].id, d.root = l[i].hash
    PROVE  Consistent(docs \cup {d}, l, n)
<1>1. d.root # NoHash /\ d.event < n
    BY DEF Sealed
<1>2. \A e \in docs : e.event = d.event => e = d
    BY DEF Consistent, Doc
<1>3. \A j \in 1..Len(l) : l[j].id = d.event => j = i
    <2>. SUFFICES ASSUME NEW j \in 1..Len(l), l[j].id = l[i].id, j # i PROVE FALSE
        OBVIOUS
    <2>1. l[j].id \in Nat /\ l[i].id \in Nat
        BY RowHashes
    <2>2. j < i \/ i < j
        OBVIOUS
    <2>. QED
        BY <2>1, <2>2 DEF IdsAscend
<1>. QED
    BY <1>1, <1>2, <1>3 DEF Consistent

\* A row with a new id leaves documents consistent.
LEMMA DocsBelowNewRow ==
    ASSUME NEW docs \in SUBSET Doc, NEW l \in Seq(AuditEvent), NEW n \in Nat, Consistent(docs, l, n),
           NEW e \in AuditEvent, e.id = n, NEW m, m = Append(l, e)
    PROVE  Consistent(docs, m, n + 1)
<1>1. /\ Len(m) = Len(l) + 1 /\ m[Len(m)] = e /\ Len(l) \in Nat
      /\ \A i \in 1..Len(l) : m[i] = l[i]
    BY AppendProperties
<1>2. \A d \in docs : d.root # NoHash /\ d.event \in Nat /\ d.event < n
    BY DEF Consistent, Doc
<1>3. ASSUME NEW d \in docs, NEW i \in 1..Len(m), m[i].id = d.event
      PROVE  m[i].hash = d.root
    <2>1. CASE i \in 1..Len(l)
        BY <1>1, <1>3, <2>1 DEF Consistent
    <2>2. CASE i = Len(m)
        BY <1>1, <1>2, <1>3, <2>2
    <2>. QED
        BY <1>1, <2>1, <2>2
<1>4. \A d \in docs : d.event < n + 1
    BY <1>2
<1>. QED
    BY <1>2, <1>3, <1>4 DEF Consistent

\* A log that lost rows, in its order, is as consistent with documents.
LEMMA DocsOfFewerRows ==
    ASSUME NEW docs, NEW l, NEW m, NEW n, Consistent(docs, l, n),
           \A a \in 1..Len(m) : \E b \in 1..Len(l) : m[a].id = l[b].id /\ m[a].hash = l[b].hash
    PROVE  Consistent(docs, m, n)
BY DEF Consistent

\* A log with one more row that is intact was intact before.
LEMMA IntactBefore ==
    ASSUME NEW l \in Seq(AuditEvent), NEW e \in AuditEvent, Intact(Append(l, e))
    PROVE  Intact(l)
<1>. DEFINE m == Append(l, e)
<1>1. /\ Len(m) = Len(l) + 1 /\ Len(l) \in Nat /\ \A i \in 1..Len(l) : m[i] = l[i]
    BY AppendProperties
<1>2. \A i \in 1..Len(m) : Linked(m, i) /\ Sealed(m[i])
    BY DEF Intact, Broken, Gaps
<1>. HIDE DEF m
<1>3. \A i \in 1..Len(l) : Linked(l, i) /\ Sealed(l[i])
    <2>. SUFFICES ASSUME NEW i \in 1..Len(l) PROVE Linked(l, i) /\ Sealed(l[i])
        OBVIOUS
    <2>1. i \in 1..Len(m) /\ m[i] = l[i] /\ (i > 1 => i - 1 \in 1..Len(l))
        BY <1>1
    <2>2. i > 1 => m[i - 1] = l[i - 1]
        BY <1>1, <2>1
    <2>. QED
        BY <1>2, <2>1, <2>2, LinkedIsLocal
<1>. QED
    BY <1>3 DEF Intact, Broken, Gaps

\* What a document is about.
AllDocs == worm \cup Anchored \cup Pending

\* Everything said about documents has the form of one.
LEMMA DocsAreDocs ==
    ASSUME AnchorTypeOK
    PROVE  /\ AllDocs \in SUBSET Doc
           /\ worm \subseteq AllDocs /\ Anchored \subseteq AllDocs /\ Pending \subseteq AllDocs
<1>1. worm \in SUBSET Doc
    BY DEF AnchorTypeOK, Doc
<1>2. \A c \in checkpoints : DocOf(c) \in Doc
    BY DEF AnchorTypeOK, Doc, DocOf
<1>3. \A p \in Procs : call[p].doc \in Doc
    BY DEF AnchorTypeOK
<1>. QED
    BY <1>1, <1>2, <1>3 DEF AllDocs, Anchored, Pending

\* What the verification of the anchors means for their documents.
LEMMA AgreesMeans ==
    ASSUME NEW c, NEW d, d.event = c.event, d.root = c.root
    PROVE  Agrees(c) <=> Agrees(d)
BY DEF Agrees

\* The newest checkpoint is one of them.
LEMMA LatestIsOne ==
    ASSUME AnchorIInv, checkpoints # {}
    PROVE  /\ LatestCheckpoint \in checkpoints /\ LatestCheckpoint.event = LastAnchored
           /\ \A c \in checkpoints : c.event <= LastAnchored
<1>1. AnchorTypeOK /\ nextEvent \in Nat
    BY DEF AnchorIInv, AnchorsAreEvidence, AnchorTypeOK
<1>2. Anchors \in SUBSET Nat /\ Anchors # {}
    BY <1>1 DEF AnchorTypeOK, Anchors
<1>3. ASSUME NEW c \in checkpoints
      PROVE  c.event < nextEvent
    <2>1. DocOf(c) \in Anchored /\ DocOf(c).event = c.event
        BY DEF Anchored, DocOf
    <2>. QED
        BY <1>1, <2>1, DocsAreDocs DEF AnchorIInv, DocumentsAgree, Consistent, AllDocs
<1>4. \A x \in Anchors : x < nextEvent
    BY <1>3 DEF Anchors
<1>5. Max(Anchors) \in Anchors /\ \A y \in Anchors : y <= Max(Anchors)
    BY <1>1, <1>2, <1>4, GreatestId
<1>6. LastAnchored \in Anchors /\ \A y \in Anchors : y <= LastAnchored
    BY <1>5 DEF LastAnchored
<1>7. \E c \in checkpoints : c.event = LastAnchored
    BY <1>6 DEF Anchors
<1>8. LatestCheckpoint \in checkpoints /\ LatestCheckpoint.event = LastAnchored
    BY <1>7 DEF LatestCheckpoint
<1>. QED
    BY <1>6, <1>8 DEF Anchors

CallRec == [pc : Pcs, ensure : BOOLEAN, doc : Doc]
AuditRec == [pc : {"idle", "recorded", "walked"}, intact : BOOLEAN, tip : Doc, high : BOOLEAN]
HoldingPcs == {"existing", "deliver", "insert", "probe"}

\* One event is appended, and no call gets further.
LEMMA RowAppended ==
    ASSUME AnchorIInv, trail' = Append(trail, NewEvent), nextEvent' = nextEvent + 1,
           UNCHANGED <<checkpoints, worm, backoff, probeDue, evidence, crashes>>,
           call' \in [Procs -> CallRec],
           \A p \in Procs : call'[p].pc \in HoldingPcs => call'[p] = call[p],
           audit' \in AuditRec, audit'.high => audit'.tip \in worm,
           audit'.pc # "idle" => ~audit'.high
    PROVE  AnchorIInv'
<1>1. /\ AnchorTypeOK /\ trail \in Seq(AuditEvent) /\ nextEvent \in Nat /\ nextEvent > 0
      /\ IdsAscend(trail) /\ \A i \in 1..Len(trail) : 0 < trail[i].id /\ trail[i].id < nextEvent
    BY DEF AnchorIInv, AnchorsAreEvidence, AnchorTypeOK, RowsAscend
<1>2. /\ NewEvent \in AuditEvent /\ NewEvent.id = nextEvent /\ NewEvent.val = nextEvent
      /\ NewEvent.prev = LastHash(trail) /\ NewEvent.hash = ComputeHash(LastHash(trail), nextEvent)
    BY <1>1, SealMakesRow DEF NewEvent
<1>3. PICK m, e : m = trail' /\ e = NewEvent
    OBVIOUS
<1>4. /\ m = Append(trail, e) /\ m \in Seq(AuditEvent) /\ Len(m) = Len(trail) + 1 /\ Len(trail) \in Nat
      /\ \A i \in 1..Len(trail) : m[i] = trail[i]
      /\ m[Len(trail) + 1] = e /\ e \in AuditEvent
    BY <1>1, <1>2, <1>3, AppendProperties
<1>5. \A i \in 1..Len(m) : i \in 1..Len(trail) \/ i = Len(trail) + 1
    BY <1>4
<1>6. Sealed(e)
    <2>1. LastHash(trail) \in Seq(Nat)
        BY <1>1, LastIsHash
    <2>2. Append(LastHash(trail), nextEvent) \in Seq(Nat)
        BY <1>1, <2>1, AppendProperties
    <2>3. e.hash \in Seq(Nat)
        BY <1>2, <1>3, <2>2 DEF ComputeHash
    <2>. QED
        BY <2>3, NoHashAssumption DEF Sealed
<1>7. Linked(m, Len(trail) + 1)
    <2>1. HashBefore(m, Len(trail) + 1) = LastHash(trail)
        <3>1. CASE Len(trail) > 0
            <4>1. /\ Len(trail) + 1 > 1 /\ (Len(trail) + 1) - 1 = Len(trail) /\ Len(trail) \in 1..Len(trail)
                BY <1>4, <3>1
            <4>2. m[(Len(trail) + 1) - 1] = trail[Len(trail)]
                BY <1>4, <4>1
            <4>. QED
                BY <3>1, <4>1, <4>2, Zenon DEF HashBefore, LastHash
        <3>2. CASE ~(Len(trail) > 0)
            <4>1. ~(Len(trail) + 1 > 1)
                BY <1>4, <3>2
            <4>. QED
                BY <3>2, <4>1 DEF HashBefore, LastHash
        <3>. QED
            BY <3>1, <3>2
    <2>. QED
        BY <1>2, <1>3, <1>4, <2>1 DEF Linked
<1>8. nextEvent' \in Nat /\ nextEvent' = nextEvent + 1 /\ trail' = m
    BY <1>1, <1>3
<1>9. AnchorTypeOK'
    BY <1>1, <1>4, <1>8 DEF AnchorTypeOK, CallRec, AuditRec
<1>10. RowsAscend'
    <2>1. \A i \in 1..Len(m) : m[i].id \in Nat /\ 0 < m[i].id /\ m[i].id < nextEvent + 1
        BY <1>1, <1>2, <1>3, <1>4, <1>5, RowHashes
    <2>2. \A i, j \in 1..Len(m) : i < j => m[i].id < m[j].id
        <3>. SUFFICES ASSUME NEW i \in 1..Len(m), NEW j \in 1..Len(m), i < j
                      PROVE  m[i].id < m[j].id
            OBVIOUS
        <3>1. i \in 1..Len(trail)
            BY <1>4
        <3>2. CASE j \in 1..Len(trail)
            BY <1>1, <1>4, <3>1, <3>2 DEF IdsAscend
        <3>3. CASE j = Len(trail) + 1
            BY <1>1, <1>2, <1>3, <1>4, <3>1, <3>3
        <3>. QED
            BY <1>5, <3>2, <3>3
    <2>. QED
        BY <1>1, <1>8, <2>1, <2>2 DEF RowsAscend, IdsAscend
<1>11. Anchored' = Anchored /\ worm' = worm /\ Pending' \subseteq Pending
    BY DEF Anchored, DocOf, Pending, Holding, HoldingPcs
<1>12. DocumentsAgree'
    <2>1. AllDocs \in SUBSET Doc
        BY <1>1, DocsAreDocs
    <2>2. Consistent(AllDocs, trail, nextEvent)
        BY DEF AnchorIInv, DocumentsAgree, AllDocs
    <2>3. Consistent(AllDocs, m, nextEvent + 1)
        BY <1>1, <1>2, <1>3, <1>4, <2>1, <2>2, DocsBelowNewRow
    <2>4. (worm \cup Anchored \cup Pending)' \subseteq AllDocs
        BY <1>11 DEF AllDocs
    <2>5. Consistent((worm \cup Anchored \cup Pending)', m, nextEvent + 1)
        BY <2>3, <2>4, FewerDocs
    <2>. QED
        BY <1>8, <2>5 DEF DocumentsAgree
<1>13. \A c : Agrees(c) => Agrees(c)'
    BY <1>4, <1>8 DEF Agrees
<1>14. ASSUME NEW c \in checkpoints, Agrees(c)'
       PROVE  Agrees(c)
    <2>1. PICK i \in 1..Len(m) : m[i].id = c.event /\ m[i].hash = c.root
        BY <1>8, <1>14 DEF Agrees
    <2>2. DocOf(c) \in AllDocs /\ DocOf(c).event = c.event /\ c.event \in Nat
        BY <1>1 DEF Anchored, DocOf, AllDocs, AnchorTypeOK
    <2>3. c.event < nextEvent
        BY <2>2 DEF AnchorIInv, DocumentsAgree, Consistent, AllDocs
    <2>4. i \in 1..Len(trail)
        BY <1>1, <1>2, <1>3, <1>4, <1>5, <2>1, <2>2, <2>3
    <2>. QED
        BY <1>4, <2>1, <2>4 DEF Agrees
<1>15. EvidenceIsKept'
    <2>1. Intact(m) => Intact(trail)
        BY <1>1, <1>4, IntactBefore
    <2>2. CheckpointsIntact' => CheckpointsIntact
        BY <1>14 DEF CheckpointsIntact
    <2>. QED
        BY <1>8, <2>1, <2>2 DEF EvidenceIsKept, AnchorIInv, AnchorsAreEvidence
<1>16. UndamagedSoFar'
    <2>. SUFFICES ASSUME ~evidence
                  PROVE  /\ \A i \in 1..Len(m) : Linked(m, i) /\ m[i].val = m[i].id
                         /\ \A i, j \in 1..Len(m) : i < j /\ Sealed(m[i]) => Sealed(m[j])
                         /\ \A d \in Anchored' \cup Pending' : Agrees(d)'
        BY <1>8 DEF UndamagedSoFar
    <2>1. /\ \A i \in 1..Len(trail) : Linked(trail, i) /\ trail[i].val = trail[i].id
          /\ \A i, j \in 1..Len(trail) : i < j /\ Sealed(trail[i]) => Sealed(trail[j])
          /\ \A d \in Anchored \cup Pending : Agrees(d)
        BY DEF AnchorIInv, UndamagedSoFar
    <2>2. ASSUME NEW i \in 1..Len(m)
          PROVE  Linked(m, i) /\ m[i].val = m[i].id
        <3>1. CASE i \in 1..Len(trail)
            <4>1. m[i] = trail[i] /\ (i > 1 => i - 1 \in 1..Len(trail))
                BY <1>4, <3>1
            <4>2. i > 1 => m[i - 1] = trail[i - 1]
                BY <1>4, <4>1
            <4>. QED
                BY <2>1, <3>1, <4>1, <4>2, LinkedIsLocal
        <3>2. CASE i = Len(trail) + 1
            BY <1>2, <1>3, <1>4, <1>7, <3>2
        <3>. QED
            BY <1>5, <3>1, <3>2
    <2>3. \A i, j \in 1..Len(m) : i < j /\ Sealed(m[i]) => Sealed(m[j])
        <3>. SUFFICES ASSUME NEW i \in 1..Len(m), NEW j \in 1..Len(m), i < j, Sealed(m[i])
                      PROVE  Sealed(m[j])
            OBVIOUS
        <3>1. i \in 1..Len(trail)
            BY <1>4
        <3>. QED
            BY <1>4, <1>5, <1>6, <2>1, <3>1
    <2>. QED
        BY <1>11, <1>13, <2>1, <2>2, <2>3
<1>17. DeliveriesAreStored'
    <2>. SUFFICES ASSUME NEW p \in Procs, call'[p].pc = "insert", Endpoint
                  PROVE  call'[p].doc \in worm
        BY <1>11 DEF DeliveriesAreStored
    <2>1. call'[p] = call[p]
        BY DEF HoldingPcs
    <2>. QED
        BY <2>1 DEF AnchorIInv, DeliveriesAreStored
<1>18. NotYetReported' /\ HighAssuranceIsEarned'
    BY DEF NotYetReported, HighAssuranceIsEarned
<1>19. WormHoldsCheckpoints' /\ OneDocumentPerEvent'
    BY DEF WormHoldsCheckpoints, OneDocumentPerEvent, AnchorIInv, AnchorsAreEvidence
<1>. QED
    BY <1>9, <1>10, <1>12, <1>15, <1>16, <1>17, <1>18, <1>19 DEF AnchorIInv, AnchorsAreEvidence

\* One call moves on.  What it holds then is what it held, a sealed row of the log
\* as it is, or an anchor; the sink may store what it held.
LEMMA CallMoves ==
    ASSUME AnchorIInv, NEW p \in Procs, NEW c \in CallRec, call' = [call EXCEPT ![p] = c],
           UNCHANGED <<trail, nextEvent, checkpoints, audit, evidence>>,
           crashes' \in Nat, backoff' \in [Procs -> BOOLEAN], probeDue' \in [Procs -> BOOLEAN],
           \/ worm' = worm
           \/ call[p].pc \in HoldingPcs /\ worm' = worm \cup {call[p].doc},
           c.pc \in HoldingPcs =>
              \/ call[p].pc \in HoldingPcs /\ c.doc = call[p].doc
              \/ \E i \in 1..Len(trail) : Sealed(trail[i]) /\ c.doc.event = trail[i].id /\ c.doc.root = trail[i].hash
              \/ c.doc \in Anchored,
           c.pc = "insert" /\ Endpoint => c.doc \in worm'
    PROVE  AnchorIInv'
<1>1. /\ AnchorTypeOK /\ trail \in Seq(AuditEvent) /\ nextEvent \in Nat /\ call \in [Procs -> CallRec]
      /\ IdsAscend(trail) /\ \A i \in 1..Len(trail) : trail[i].id < nextEvent
    BY DEF AnchorIInv, AnchorsAreEvidence, AnchorTypeOK, RowsAscend, CallRec
<1>2. AllDocs \in SUBSET Doc /\ Consistent(AllDocs, trail, nextEvent)
    BY <1>1, DocsAreDocs DEF AnchorIInv, DocumentsAgree, AllDocs
<1>3. Pending = {call[q].doc : q \in {o \in Procs : call[o].pc \in HoldingPcs}}
    BY DEF Pending, Holding, HoldingPcs
<1>4. Pending' = {call'[q].doc : q \in {o \in Procs : call'[o].pc \in HoldingPcs}}
    BY DEF Pending, Holding, HoldingPcs
<1>5. /\ call' \in [Procs -> CallRec] /\ call'[p] = c
      /\ \A q \in Procs : q # p => call'[q] = call[q]
    BY <1>1
<1>6. Anchored' = Anchored
    BY DEF Anchored, DocOf
<1>7. call[p].pc \in HoldingPcs => call[p].doc \in Pending
    BY <1>3
<1>8. worm \subseteq worm' /\ worm' \subseteq AllDocs
    BY <1>7 DEF AllDocs
<1>9. PICK docs \in SUBSET Doc :
          /\ Consistent(docs, trail, nextEvent) /\ AllDocs \subseteq docs
          /\ c.pc \in HoldingPcs => c.doc \in docs
    <2>1. CASE c.pc \in HoldingPcs => c.doc \in AllDocs
        BY <1>2, <2>1
    <2>2. CASE c.pc \in HoldingPcs /\ c.doc \notin AllDocs
        <3>1. PICK i \in 1..Len(trail) :
                  Sealed(trail[i]) /\ c.doc.event = trail[i].id /\ c.doc.root = trail[i].hash
            BY <1>7, <2>2 DEF AllDocs
        <3>2. c.doc \in Doc
            BY DEF CallRec
        <3>3. Consistent(AllDocs \cup {c.doc}, trail, nextEvent)
            BY <1>1, <1>2, <3>1, <3>2, RowsDoc
        <3>. QED
            BY <1>2, <3>2, <3>3
    <2>. QED
        BY <2>1, <2>2
<1>10. Pending' \subseteq docs
    <2>. SUFFICES ASSUME NEW q \in Procs, call'[q].pc \in HoldingPcs
                  PROVE  call'[q].doc \in docs
        BY <1>4
    <2>1. CASE q = p
        BY <1>5, <1>9, <2>1
    <2>2. CASE q # p
        <3>1. call[q].doc \in Pending
            BY <1>3, <1>5, <2>2
        <3>. QED
            BY <1>5, <1>9, <2>2, <3>1 DEF AllDocs
    <2>. QED
        BY <2>1, <2>2
<1>11. DocumentsAgree'
    <2>1. (worm \cup Anchored \cup Pending)' \subseteq docs
        BY <1>6, <1>8, <1>9, <1>10 DEF AllDocs
    <2>2. Consistent((worm \cup Anchored \cup Pending)', trail, nextEvent)
        BY <1>9, <2>1, FewerDocs
    <2>. QED
        BY <2>2 DEF DocumentsAgree
<1>12. AnchorTypeOK'
    <2>1. \A d \in worm' : d \in [event : Nat, root : Hashes]
        <3>. SUFFICES ASSUME NEW d \in worm' PROVE d \in [event : Nat, root : Hashes]
            OBVIOUS
        <3>1. d \in Doc /\ d.root # NoHash
            BY <1>2, <1>8 DEF Consistent
        <3>. QED
            BY <3>1 DEF Doc
    <2>2. worm' \in SUBSET [event : Nat, root : Hashes]
        BY <2>1
    <2>. QED
        BY <1>1, <1>5, <2>2 DEF AnchorTypeOK, CallRec
<1>13. \A d : Agrees(d)' <=> Agrees(d)
    BY DEF Agrees
<1>14. UndamagedSoFar'
    <2>. SUFFICES ASSUME ~evidence, NEW d \in Pending'
                  PROVE  Agrees(d)
        BY <1>6, <1>13 DEF UndamagedSoFar, AnchorIInv
    <2>1. \A x \in Anchored \cup Pending : Agrees(x)
        BY DEF AnchorIInv, UndamagedSoFar
    <2>2. PICK q \in Procs : call'[q].pc \in HoldingPcs /\ d = call'[q].doc
        BY <1>4
    <2>3. CASE q # p
        BY <1>3, <1>5, <2>1, <2>2, <2>3
    <2>4. CASE q = p
        <3>1. c.pc \in HoldingPcs /\ d = c.doc
            BY <1>5, <2>2, <2>4
        <3>2. CASE \E i \in 1..Len(trail) :
                      Sealed(trail[i]) /\ c.doc.event = trail[i].id /\ c.doc.root = trail[i].hash
            BY <3>1, <3>2 DEF Agrees
        <3>. QED
            BY <1>7, <2>1, <3>1, <3>2
    <2>. QED
        BY <2>3, <2>4
<1>15. DeliveriesAreStored'
    <2>. SUFFICES ASSUME NEW q \in Procs, call'[q].pc = "insert", Endpoint
                  PROVE  call'[q].doc \in worm'
        BY DEF DeliveriesAreStored
    <2>1. CASE q = p
        BY <1>5, <2>1
    <2>2. CASE q # p
        <3>1. call[q].pc = "insert" /\ call'[q].doc = call[q].doc
            BY <1>5, <2>2
        <3>2. call[q].doc \in worm
            BY <3>1 DEF AnchorIInv, DeliveriesAreStored
        <3>. QED
            BY <1>8, <3>1, <3>2
    <2>. QED
        BY <2>1, <2>2
<1>16. EvidenceIsKept'
    <2>1. CheckpointsIntact' <=> CheckpointsIntact
        BY <1>13 DEF CheckpointsIntact
    <2>. QED
        BY <2>1 DEF EvidenceIsKept, AnchorIInv, AnchorsAreEvidence
<1>17. WormHoldsCheckpoints' /\ HighAssuranceIsEarned'
    BY <1>8 DEF WormHoldsCheckpoints, HighAssuranceIsEarned, AnchorIInv, AnchorsAreEvidence
<1>18. OneDocumentPerEvent'
    BY <1>2, <1>8 DEF OneDocumentPerEvent, Consistent
<1>19. RowsAscend' /\ NotYetReported'
    BY DEF AnchorIInv, RowsAscend, NotYetReported
<1>. QED
    BY <1>11, <1>12, <1>14, <1>15, <1>16, <1>17, <1>18, <1>19 DEF AnchorIInv, AnchorsAreEvidence

\* Nothing changes but the verification of an administrator.
LEMMA AuditMoves ==
    ASSUME AnchorIInv, UNCHANGED <<trail, nextEvent, checkpoints, worm, call, evidence>>,
           crashes' \in Nat, backoff' \in [Procs -> BOOLEAN], probeDue' \in [Procs -> BOOLEAN],
           audit' \in AuditRec, audit'.high => audit'.tip \in worm,
           audit'.pc # "idle" => ~audit'.high
    PROVE  AnchorIInv'
<1>1. AnchorTypeOK'
    BY DEF AnchorIInv, AnchorsAreEvidence, AnchorTypeOK, AuditRec
<1>2. /\ Anchored' = Anchored /\ Pending' = Pending
      /\ \A d : Agrees(d)' <=> Agrees(d)
    BY DEF Anchored, Pending, DocOf, Holding, Agrees
<1>3. DocumentsAgree' /\ RowsAscend' /\ UndamagedSoFar' /\ DeliveriesAreStored'
    BY <1>2 DEF AnchorIInv, DocumentsAgree, RowsAscend, UndamagedSoFar, DeliveriesAreStored
<1>4. EvidenceIsKept'
    <2>1. CheckpointsIntact' <=> CheckpointsIntact
        BY <1>2 DEF CheckpointsIntact
    <2>. QED
        BY <2>1 DEF EvidenceIsKept, AnchorIInv, AnchorsAreEvidence
<1>5. WormHoldsCheckpoints' /\ HighAssuranceIsEarned' /\ OneDocumentPerEvent' /\ NotYetReported'
    BY DEF WormHoldsCheckpoints, HighAssuranceIsEarned, OneDocumentPerEvent, NotYetReported, AnchorIInv,
           AnchorsAreEvidence
<1>. QED
    BY <1>1, <1>3, <1>4, <1>5 DEF AnchorIInv, AnchorsAreEvidence

\* A call that starts, ends, returns or goes on is a call.
LEMMA CallForms ==
    ASSUME AnchorTypeOK, NEW p \in Procs
    PROVE  /\ call \in [Procs -> CallRec] /\ NoCall \in CallRec /\ NoCall.pc = "idle"
           /\ ReturnCall(p) => \E c \in CallRec : call' = [call EXCEPT ![p] = c] /\ c.pc \in {"again", "idle"}
           /\ Raise(p) => call' = [call EXCEPT ![p] = NoCall]
           /\ \A ensure \in BOOLEAN : StartCall(p, ensure) =>
                 call[p].pc = "idle" /\ \E c \in CallRec : call' = [call EXCEPT ![p] = c] /\ c.pc = "verify"
           /\ \A pc \in Pcs : Proceed(p, pc) =>
                 \E c \in CallRec : /\ call' = [call EXCEPT ![p] = c]
                                    /\ c.pc = pc /\ c.doc = call[p].doc
<1>1. call \in [Procs -> CallRec]
    BY DEF AnchorTypeOK, CallRec
<1>2. NoDoc \in Doc
    BY DEF NoDoc, Doc
<1>3. NoCall \in CallRec /\ NoCall.pc = "idle"
    BY <1>2 DEF NoCall, CallRec, Pcs
<1>4. ASSUME ReturnCall(p)
      PROVE  \E c \in CallRec : call' = [call EXCEPT ![p] = c] /\ c.pc \in {"again", "idle"}
    <2>1. CASE call[p].ensure
        <3>. DEFINE c == [NoCall EXCEPT !.pc = "again", !.ensure = TRUE]
        <3>1. c \in CallRec /\ c.pc = "again"
            BY <1>2 DEF NoCall, CallRec, Pcs
        <3>2. call' = [call EXCEPT ![p] = c]
            BY <1>4, <2>1 DEF ReturnCall
        <3>. QED
            BY <3>1, <3>2
    <2>2. CASE ~call[p].ensure
        BY <1>3, <1>4, <2>2 DEF ReturnCall
    <2>. QED
        BY <2>1, <2>2
<1>5. ASSUME NEW ensure \in BOOLEAN, StartCall(p, ensure)
      PROVE  call[p].pc = "idle" /\ \E c \in CallRec : call' = [call EXCEPT ![p] = c] /\ c.pc = "verify"
    <2>. DEFINE c == [NoCall EXCEPT !.pc = "verify", !.ensure = ensure]
    <2>1. c \in CallRec /\ c.pc = "verify"
        BY <1>2 DEF NoCall, CallRec, Pcs
    <2>2. call' = [call EXCEPT ![p] = c] /\ call[p].pc = "idle"
        BY <1>5 DEF StartCall
    <2>. QED
        BY <2>1, <2>2
<1>6. ASSUME NEW pc \in Pcs, Proceed(p, pc)
      PROVE  \E c \in CallRec : /\ call' = [call EXCEPT ![p] = c]
                                /\ c.pc = pc /\ c.doc = call[p].doc
    <2>. DEFINE c == [call[p] EXCEPT !.pc = pc]
    <2>1. c \in CallRec /\ c.pc = pc /\ c.doc = call[p].doc
        BY <1>1 DEF CallRec
    <2>2. call' = [call EXCEPT ![p] = c]
        BY <1>1, <1>6 DEF Proceed
    <2>. QED
        BY <2>1, <2>2
<1>7. Raise(p) => call' = [call EXCEPT ![p] = NoCall]
    BY DEF Raise
<1>. QED
    BY <1>1, <1>3, <1>4, <1>5, <1>6, <1>7

\* A call of p that holds nothing afterwards.
LEMMA CallLetsGo ==
    ASSUME AnchorIInv, NEW p \in Procs, NEW c \in CallRec, call' = [call EXCEPT ![p] = c],
           c.pc \notin HoldingPcs,
           UNCHANGED <<trail, nextEvent, checkpoints, audit, evidence>>,
           crashes' \in Nat, backoff' \in [Procs -> BOOLEAN], probeDue' \in [Procs -> BOOLEAN],
           \/ worm' = worm
           \/ call[p].pc \in HoldingPcs /\ worm' = worm \cup {call[p].doc}
    PROVE  AnchorIInv'
<1>1. c.pc # "insert"
    BY DEF HoldingPcs
<1>. QED
    BY <1>1, CallMoves

LEMMA FlagTypes ==
    ASSUME AnchorIInv
    PROVE  /\ AnchorTypeOK /\ backoff \in [Procs -> BOOLEAN] /\ probeDue \in [Procs -> BOOLEAN]
           /\ crashes \in Nat /\ audit \in AuditRec /\ evidence \in BOOLEAN
BY DEF AnchorIInv, AnchorsAreEvidence, AnchorTypeOK, AuditRec

LEMMA AppendEventKeeps ==
    ASSUME AnchorIInv, AppendEvent
    PROVE  AnchorIInv'
<1>1. AnchorTypeOK /\ audit \in AuditRec
    BY FlagTypes
<1>2. call \in [Procs -> CallRec]
    BY <1>1 DEF AnchorTypeOK, CallRec
<1>3. /\ trail' = Append(trail, NewEvent) /\ nextEvent' = nextEvent + 1
      /\ UNCHANGED <<checkpoints, worm, backoff, probeDue, evidence, crashes, call, audit>>
    BY DEF AppendEvent
<1>4. (audit.high => audit.tip \in worm) /\ (audit.pc # "idle" => ~audit.high)
    BY DEF AnchorIInv, AnchorsAreEvidence, HighAssuranceIsEarned, NotYetReported
<1>. QED
    BY <1>1, <1>2, <1>3, <1>4, RowAppended

LEMMA VerifyRequestedKeeps ==
    ASSUME AnchorIInv, VerifyRequested
    PROVE  AnchorIInv'
<1>1. AnchorTypeOK /\ audit \in AuditRec
    BY FlagTypes
<1>2. call \in [Procs -> CallRec]
    BY <1>1 DEF AnchorTypeOK, CallRec
<1>3. /\ trail' = Append(trail, NewEvent) /\ nextEvent' = nextEvent + 1
      /\ UNCHANGED <<checkpoints, worm, backoff, probeDue, evidence, crashes, call>>
      /\ audit' = [audit EXCEPT !.pc = "recorded", !.high = FALSE]
    BY DEF VerifyRequested
<1>4. audit' \in AuditRec /\ ~audit'.high
    BY <1>1, <1>3 DEF AuditRec
<1>. QED
    BY <1>2, <1>3, <1>4, RowAppended

\* The last row, as a document.
LEMMA LastRow ==
    ASSUME NEW l \in Seq(AuditEvent), l # << >>
    PROVE  /\ Len(l) \in 1..Len(l) /\ l[Len(l)].id \in Nat
           /\ l[Len(l)].hash \in Hashes \cup {NoHash}
<1>1. Len(l) \in 1..Len(l)
    OBVIOUS
<1>2. l[Len(l)] \in AuditEvent
    BY <1>1
<1>. QED
    BY <1>1, <1>2 DEF AuditEvent

LEMMA WalkChainKeeps ==
    ASSUME AnchorIInv, WalkChain
    PROVE  AnchorIInv'
<1>. DEFINE tip == IF trail = << >> THEN NoDoc ELSE [event |-> LatestId, root |-> trail[Len(trail)].hash]
<1>1. /\ AnchorTypeOK /\ audit \in AuditRec /\ crashes \in Nat
      /\ backoff \in [Procs -> BOOLEAN] /\ probeDue \in [Procs -> BOOLEAN]
    BY FlagTypes
<1>2. call \in [Procs -> CallRec] /\ trail \in Seq(AuditEvent)
    BY <1>1 DEF AnchorTypeOK, CallRec
<1>3. tip \in Doc
    BY <1>2, LastRow DEF LatestId, NoDoc, Doc
<1>4. /\ audit.pc = "recorded" /\ UNCHANGED <<checkpoints, worm, call, backoff, probeDue, evidence, crashes>>
      /\ audit' = [audit EXCEPT !.pc = "walked", !.intact = Intact(trail), !.tip = tip]
    BY DEF WalkChain
<1>. HIDE DEF tip
<1>5. ~audit.high
    BY <1>4 DEF AnchorIInv, NotYetReported
<1>6. Intact(trail) \in BOOLEAN
    BY DEF Intact
<1>7. audit' \in AuditRec /\ ~audit'.high
    BY <1>1, <1>3, <1>4, <1>5, <1>6 DEF AuditRec
<1>8. CASE Intact(trail)
    <2>1. UNCHANGED <<trail, nextEvent>>
        BY <1>8 DEF WalkChain
    <2>. QED
        BY <1>1, <1>4, <1>7, <2>1, AuditMoves
<1>9. CASE ~Intact(trail)
    <2>1. trail' = Append(trail, NewEvent) /\ nextEvent' = nextEvent + 1
        BY <1>9 DEF WalkChain
    <2>. QED
        BY <1>2, <1>4, <1>7, <2>1, RowAppended
<1>. QED
    BY <1>8, <1>9

\* The last row of the walk is the very row of the newest checkpoint.
LEMMA ReportVerificationKeeps ==
    ASSUME AnchorIInv, ReportVerification
    PROVE  AnchorIInv'
<1>. DEFINE high == audit.intact /\ Endpoint /\ FullyAnchored /\ SameScope
<1>1. /\ AnchorTypeOK /\ audit \in AuditRec /\ crashes \in Nat
      /\ backoff \in [Procs -> BOOLEAN] /\ probeDue \in [Procs -> BOOLEAN]
    BY FlagTypes
<1>2. /\ UNCHANGED <<trail, nextEvent, checkpoints, worm, call, backoff, probeDue, evidence, crashes>>
      /\ audit' = [audit EXCEPT !.pc = "idle", !.high = high]
    BY DEF ReportVerification
<1>3. high \in BOOLEAN
    BY <1>1, CheckpointAssumption DEF AuditRec, FullyAnchored, SameScope
<1>4. high => audit.tip \in worm
    <2>. SUFFICES ASSUME high PROVE audit.tip \in worm
        OBVIOUS
    <2>1. /\ checkpoints # {} /\ LatestCheckpoint.delivered
          /\ audit.tip.event = LastAnchored /\ audit.tip.root = LatestCheckpoint.root
        BY DEF FullyAnchored, SameScope
    <2>2. LatestCheckpoint \in checkpoints /\ LatestCheckpoint.event = LastAnchored
        BY <2>1, LatestIsOne
    <2>3. [event |-> LatestCheckpoint.event, root |-> LatestCheckpoint.root] \in worm
        BY <2>1, <2>2 DEF AnchorIInv, AnchorsAreEvidence, WormHoldsCheckpoints
    <2>4. audit.tip = [event |-> LatestCheckpoint.event, root |-> LatestCheckpoint.root]
        BY <1>1, <2>1, <2>2 DEF AuditRec, Doc
    <2>. QED
        BY <2>3, <2>4
<1>. HIDE DEF high
<1>5. audit' \in AuditRec /\ audit'.high = high /\ audit'.tip = audit.tip /\ audit'.pc = "idle"
    BY <1>1, <1>2, <1>3 DEF AuditRec
<1>. QED
    BY <1>1, <1>2, <1>4, <1>5, AuditMoves

LEMMA MaybeAnchorKeeps ==
    ASSUME AnchorIInv, NEW p \in Procs, NEW i, MaybeAnchor(p, i)
    PROVE  AnchorIInv'
<1>1. /\ AnchorTypeOK /\ crashes \in Nat
      /\ backoff \in [Procs -> BOOLEAN] /\ probeDue \in [Procs -> BOOLEAN]
    BY FlagTypes
<1>2. PICK c \in CallRec : call' = [call EXCEPT ![p] = c] /\ c.pc = "verify"
    BY <1>1, CallForms DEF MaybeAnchor
<1>3. UNCHANGED <<trail, nextEvent, checkpoints, worm, backoff, probeDue, audit, evidence, crashes>>
    BY DEF MaybeAnchor
<1>4. c.pc \notin HoldingPcs
    BY <1>2 DEF HoldingPcs
<1>. QED
    BY <1>1, <1>2, <1>3, <1>4, CallLetsGo

LEMMA CreateCheckpointKeeps ==
    ASSUME AnchorIInv, NEW p \in Procs, CreateAuditCheckpoint(p)
    PROVE  AnchorIInv'
<1>1. AnchorTypeOK /\ audit \in AuditRec
    BY FlagTypes
<1>2. call \in [Procs -> CallRec]
    BY <1>1, CallForms
<1>3. PICK c \in CallRec : call' = [call EXCEPT ![p] = c] /\ c.pc = "verify"
    BY <1>1, CallForms DEF CreateAuditCheckpoint
<1>4. call' \in [Procs -> CallRec] /\ \A q \in Procs : call'[q] = IF q = p THEN c ELSE call[q]
    BY <1>2, <1>3
<1>5. \A q \in Procs : call'[q].pc \in HoldingPcs => call'[q] = call[q]
    BY <1>3, <1>4 DEF HoldingPcs
<1>6. /\ trail' = Append(trail, NewEvent) /\ nextEvent' = nextEvent + 1
      /\ UNCHANGED <<checkpoints, worm, backoff, probeDue, evidence, crashes, audit>>
    BY DEF CreateAuditCheckpoint
<1>7. (audit.high => audit.tip \in worm) /\ (audit.pc # "idle" => ~audit.high)
    BY DEF AnchorIInv, AnchorsAreEvidence, HighAssuranceIsEarned, NotYetReported
<1>. QED
    BY <1>1, <1>4, <1>5, <1>6, <1>7, RowAppended

\* A probe delivers the newest anchor once more.
LEMMA EnsureKeeps ==
    ASSUME AnchorIInv, NEW p \in Procs, EnsureLatestAnchored(p)
    PROVE  AnchorIInv'
<1>1. /\ AnchorTypeOK /\ crashes \in Nat
      /\ backoff \in [Procs -> BOOLEAN] /\ probeDue \in [Procs -> BOOLEAN]
    BY FlagTypes
<1>2. UNCHANGED <<trail, nextEvent, checkpoints, worm, backoff, probeDue, audit, evidence, crashes>>
    BY DEF EnsureLatestAnchored
<1>3. CASE FullyAnchored /\ Endpoint /\ probeDue[p]
    <2>. DEFINE d == [event |-> LatestCheckpoint.event, root |-> LatestCheckpoint.root]
                c == [pc |-> "probe", ensure |-> FALSE, doc |-> d]
    <2>1. call' = [call EXCEPT ![p] = c]
        BY <1>3 DEF EnsureLatestAnchored
    <2>2. LatestCheckpoint \in checkpoints
        BY <1>3, LatestIsOne DEF FullyAnchored
    <2>3. d \in Anchored
        BY <2>2 DEF Anchored, DocOf
    <2>4. d \in Doc
        BY <1>1, <2>3, DocsAreDocs
    <2>. HIDE DEF d
    <2>5. c \in CallRec /\ c.doc = d /\ c.pc # "insert"
        BY <2>4 DEF CallRec, Pcs
    <2>. HIDE DEF c
    <2>6. c.doc \in Anchored
        BY <2>3, <2>5
    <2>. QED
        BY <1>1, <1>2, <2>1, <2>5, <2>6, CallMoves
<1>4. CASE ~(FullyAnchored /\ Endpoint /\ probeDue[p])
    <2>1. StartCall(p, TRUE) \/ Raise(p)
        BY <1>4 DEF EnsureLatestAnchored
    <2>2. \E c \in CallRec : call' = [call EXCEPT ![p] = c] /\ c.pc \in {"verify", "idle"}
        <3>1. CASE Raise(p)
            BY <1>1, <3>1, CallForms
        <3>2. CASE StartCall(p, TRUE)
            <4>1. \E c \in CallRec : call' = [call EXCEPT ![p] = c] /\ c.pc = "verify"
                BY <1>1, <3>2, CallForms
            <4>. QED
                BY <4>1
        <3>. QED
            BY <2>1, <3>1, <3>2
    <2>3. PICK c \in CallRec : call' = [call EXCEPT ![p] = c] /\ c.pc \in {"verify", "idle"}
        BY <2>2
    <2>4. c.pc \notin HoldingPcs
        BY <2>3 DEF HoldingPcs
    <2>. QED
        BY <1>1, <1>2, <2>3, <2>4, CallLetsGo
<1>. QED
    BY <1>3, <1>4

LEMMA VerifyPreviousKeeps ==
    ASSUME AnchorIInv, NEW p \in Procs, VerifyPrevious(p)
    PROVE  AnchorIInv'
<1>1. /\ AnchorTypeOK /\ crashes \in Nat
      /\ backoff \in [Procs -> BOOLEAN] /\ probeDue \in [Procs -> BOOLEAN]
    BY FlagTypes
<1>2. UNCHANGED <<trail, nextEvent, checkpoints, worm, backoff, probeDue, audit, evidence, crashes>>
    BY DEF VerifyPrevious
<1>3. (Proceed(p, "read") \/ Raise(p)) /\ "read" \in Pcs
    BY DEF VerifyPrevious, Pcs
<1>4. \E c \in CallRec : call' = [call EXCEPT ![p] = c] /\ c.pc \in {"read", "idle"}
    BY <1>1, <1>3, CallForms
<1>5. PICK c \in CallRec : call' = [call EXCEPT ![p] = c] /\ c.pc \in {"read", "idle"}
    BY <1>4
<1>6. c.pc \notin HoldingPcs
    BY <1>5 DEF HoldingPcs
<1>. QED
    BY <1>1, <1>2, <1>5, <1>6, CallLetsGo

LEMMA ReadLatestKeeps ==
    ASSUME AnchorIInv, NEW p \in Procs, ReadLatestEvent(p)
    PROVE  AnchorIInv'
<1>1. /\ AnchorTypeOK /\ crashes \in Nat
      /\ backoff \in [Procs -> BOOLEAN] /\ probeDue \in [Procs -> BOOLEAN]
    BY FlagTypes
<1>2. UNCHANGED <<trail, nextEvent, checkpoints, worm, backoff, probeDue, audit, evidence, crashes>>
    BY DEF ReadLatestEvent
<1>3. CASE trail # << >> /\ Sealed(trail[Len(trail)])
    <2>. DEFINE d == [event |-> LatestId, root |-> trail[Len(trail)].hash]
                c == [call[p] EXCEPT !.pc = "existing", !.doc = d]
    <2>1. trail \in Seq(AuditEvent) /\ call \in [Procs -> CallRec]
        BY <1>1, CallForms DEF AnchorTypeOK
    <2>2. /\ Len(trail) \in 1..Len(trail) /\ LatestId = trail[Len(trail)].id
          /\ LatestId \in Nat /\ trail[Len(trail)].hash \in Hashes \cup {NoHash}
        BY <1>3, <2>1, LastRow DEF LatestId
    <2>3. d \in Doc /\ d.event = trail[Len(trail)].id /\ d.root = trail[Len(trail)].hash
        BY <2>2 DEF Doc
    <2>4. call' = [call EXCEPT ![p].pc = "existing", ![p].doc = d]
        BY <1>3 DEF ReadLatestEvent
    <2>5. call' = [call EXCEPT ![p] = c]
        BY <2>1, <2>4
    <2>. HIDE DEF d
    <2>6. c \in CallRec /\ c.doc = d /\ c.pc = "existing"
        BY <2>1, <2>3 DEF CallRec, Pcs
    <2>. HIDE DEF c
    <2>7. \E i \in 1..Len(trail) : Sealed(trail[i]) /\ c.doc.event = trail[i].id /\ c.doc.root = trail[i].hash
        BY <1>3, <2>2, <2>3, <2>6
    <2>. QED
        BY <1>1, <1>2, <2>5, <2>6, <2>7, CallMoves
<1>4. CASE ~(trail # << >> /\ Sealed(trail[Len(trail)]))
    <2>1. PICK c \in CallRec : call' = [call EXCEPT ![p] = c] /\ c.pc \in {"again", "idle"}
        BY <1>1, <1>4, CallForms DEF ReadLatestEvent
    <2>2. c.pc \notin HoldingPcs
        BY <2>1 DEF HoldingPcs
    <2>. QED
        BY <1>1, <1>2, <2>1, <2>2, CallLetsGo
<1>. QED
    BY <1>3, <1>4

LEMMA FindExistingKeeps ==
    ASSUME AnchorIInv, NEW p \in Procs, FindExisting(p)
    PROVE  AnchorIInv'
<1>1. /\ AnchorTypeOK /\ crashes \in Nat
      /\ backoff \in [Procs -> BOOLEAN] /\ probeDue \in [Procs -> BOOLEAN]
    BY FlagTypes
<1>2. UNCHANGED <<trail, nextEvent, checkpoints, worm, backoff, probeDue, audit, evidence, crashes>>
    BY DEF FindExisting
<1>3. CASE call[p].doc.event \in Anchors
    <2>1. PICK c \in CallRec : call' = [call EXCEPT ![p] = c] /\ c.pc \in {"again", "idle"}
        BY <1>1, <1>3, CallForms DEF FindExisting
    <2>2. c.pc \notin HoldingPcs
        BY <2>1 DEF HoldingPcs
    <2>. QED
        BY <1>1, <1>2, <2>1, <2>2, CallLetsGo
<1>4. CASE call[p].doc.event \notin Anchors
    <2>1. PICK pc \in Pcs : Proceed(p, pc) /\ pc = IF Endpoint THEN "deliver" ELSE "insert"
        BY <1>4 DEF FindExisting, Pcs
    <2>2. PICK c \in CallRec : /\ call' = [call EXCEPT ![p] = c]
                               /\ c.pc = pc /\ c.doc = call[p].doc
        BY <1>1, <2>1, CallForms
    <2>3. call[p].pc \in HoldingPcs
        BY DEF FindExisting, HoldingPcs
    <2>4. ~(c.pc = "insert" /\ Endpoint)
        BY <2>1, <2>2
    <2>. QED
        BY <1>1, <1>2, <2>2, <2>3, <2>4, CallMoves
<1>. QED
    BY <1>3, <1>4

LEMMA DeliverFailsKeeps ==
    ASSUME AnchorIInv, NEW p \in Procs, DeliverFails(p)
    PROVE  AnchorIInv'
<1>1. /\ AnchorTypeOK /\ crashes \in Nat
      /\ backoff \in [Procs -> BOOLEAN] /\ probeDue \in [Procs -> BOOLEAN]
    BY FlagTypes
<1>2. UNCHANGED <<trail, nextEvent, checkpoints, probeDue, audit, evidence, crashes>>
    BY DEF DeliverFails
<1>3. /\ call[p].pc \in HoldingPcs /\ backoff' = [backoff EXCEPT ![p] = TRUE]
      /\ worm' = worm \cup {call[p].doc} \/ worm' = worm
    BY DEF DeliverFails, Stored, HoldingPcs
<1>4. backoff' \in [Procs -> BOOLEAN]
    BY <1>1, <1>3
<1>5. call' = [call EXCEPT ![p] = NoCall] /\ NoCall \in CallRec /\ NoCall.pc \notin HoldingPcs
    BY <1>1, CallForms DEF DeliverFails, HoldingPcs
<1>. QED
    BY <1>1, <1>2, <1>3, <1>4, <1>5, CallLetsGo

LEMMA DeliverySucceedsKeeps ==
    ASSUME AnchorIInv, NEW p \in Procs, DeliverySucceeds(p)
    PROVE  AnchorIInv'
<1>1. /\ AnchorTypeOK /\ crashes \in Nat
      /\ backoff \in [Procs -> BOOLEAN] /\ probeDue \in [Procs -> BOOLEAN]
    BY FlagTypes
<1>2. UNCHANGED <<trail, nextEvent, checkpoints, audit, evidence, crashes>>
    BY DEF DeliverySucceeds
<1>3. /\ call[p].pc \in HoldingPcs /\ worm' = worm \cup {call[p].doc}
      /\ backoff' = [backoff EXCEPT ![p] = FALSE] /\ probeDue' = [probeDue EXCEPT ![p] = FALSE]
    BY DEF DeliverySucceeds, Stored, HoldingPcs
<1>4. backoff' \in [Procs -> BOOLEAN] /\ probeDue' \in [Procs -> BOOLEAN]
    BY <1>1, <1>3
<1>5. CASE call[p].pc = "probe"
    <2>1. call' = [call EXCEPT ![p] = NoCall] /\ NoCall \in CallRec /\ NoCall.pc \notin HoldingPcs
        BY <1>1, <1>5, CallForms DEF DeliverySucceeds, HoldingPcs
    <2>. QED
        BY <1>1, <1>2, <1>3, <1>4, <2>1, CallLetsGo
<1>6. CASE call[p].pc # "probe"
    <2>1. "insert" \in Pcs /\ Proceed(p, "insert")
        BY <1>6 DEF DeliverySucceeds, Pcs
    <2>2. PICK c \in CallRec : /\ call' = [call EXCEPT ![p] = c]
                               /\ c.pc = "insert" /\ c.doc = call[p].doc
        BY <1>1, <2>1, CallForms
    <2>3. c.doc \in worm'
        BY <1>3, <2>2
    <2>. QED
        BY <1>1, <1>2, <1>3, <1>4, <2>2, <2>3, CallMoves
<1>. QED
    BY <1>5, <1>6

LEMMA ProcessCrashKeeps ==
    ASSUME AnchorIInv, NEW p \in Procs, ProcessCrash(p)
    PROVE  AnchorIInv'
<1>1. /\ AnchorTypeOK /\ crashes \in Nat
      /\ backoff \in [Procs -> BOOLEAN] /\ probeDue \in [Procs -> BOOLEAN]
    BY FlagTypes
<1>2. /\ UNCHANGED <<trail, nextEvent, checkpoints, worm, audit, evidence>>
      /\ call' = [call EXCEPT ![p] = NoCall] /\ crashes' = crashes + 1
      /\ backoff' = [backoff EXCEPT ![p] = FALSE] /\ probeDue' = [probeDue EXCEPT ![p] = TRUE]
    BY DEF ProcessCrash
<1>3. crashes' \in Nat /\ backoff' \in [Procs -> BOOLEAN] /\ probeDue' \in [Procs -> BOOLEAN]
    BY <1>1, <1>2
<1>4. NoCall \in CallRec /\ NoCall.pc \notin HoldingPcs
    BY <1>1, CallForms DEF HoldingPcs
<1>. QED
    BY <1>2, <1>3, <1>4, CallLetsGo

LEMMA FlagsKeep ==
    ASSUME AnchorIInv, NEW p \in Procs, BackoffEnds(p) \/ ProbeFallsDue(p)
    PROVE  AnchorIInv'
<1>1. /\ crashes \in Nat /\ audit \in AuditRec
      /\ backoff \in [Procs -> BOOLEAN] /\ probeDue \in [Procs -> BOOLEAN]
    BY FlagTypes
<1>2. /\ UNCHANGED <<trail, nextEvent, checkpoints, worm, call, audit, evidence, crashes>>
      /\ backoff' \in [Procs -> BOOLEAN] /\ probeDue' \in [Procs -> BOOLEAN]
    BY <1>1 DEF BackoffEnds, ProbeFallsDue
<1>3. (audit.high => audit.tip \in worm) /\ (audit.pc # "idle" => ~audit.high)
    BY DEF AnchorIInv, AnchorsAreEvidence, HighAssuranceIsEarned, NotYetReported
<1>. QED
    BY <1>1, <1>2, <1>3, AuditMoves

\* A checkpoint is inserted for the document that the sink has.
LEMMA InsertKeeps ==
    ASSUME AnchorIInv, NEW p \in Procs, InsertCheckpoint(p)
    PROVE  AnchorIInv'
<1>. DEFINE k == [event |-> call[p].doc.event, root |-> call[p].doc.root, delivered |-> Endpoint]
<1>1. /\ AnchorTypeOK /\ crashes \in Nat /\ audit \in AuditRec
      /\ backoff \in [Procs -> BOOLEAN] /\ probeDue \in [Procs -> BOOLEAN]
    BY FlagTypes
<1>2. /\ UNCHANGED <<trail, nextEvent, worm, backoff, probeDue, audit, evidence, crashes>>
      /\ call[p].pc = "insert"
      /\ \/ checkpoints' = checkpoints /\ (ReturnCall(p) \/ Raise(p))
         \/ checkpoints' = checkpoints \cup {k} /\ ReturnCall(p)
    BY DEF InsertCheckpoint
<1>3. \E c \in CallRec : call' = [call EXCEPT ![p] = c] /\ c.pc \in {"again", "idle"}
    BY <1>1, <1>2, CallForms
<1>4. PICK c \in CallRec : call' = [call EXCEPT ![p] = c] /\ c.pc \in {"again", "idle"}
    BY <1>3
<1>5. c.pc \notin HoldingPcs
    BY <1>4 DEF HoldingPcs
<1>6. CASE checkpoints' = checkpoints
    BY <1>1, <1>2, <1>4, <1>5, <1>6, CallLetsGo
<1>7. CASE checkpoints' = checkpoints \cup {k}
    <2>1. /\ call \in [Procs -> CallRec] /\ call[p].doc \in Doc
        BY <1>1, CallForms DEF CallRec
    <2>2. call[p].doc \in Pending
        BY <1>2 DEF Pending, Holding
    <2>3. AllDocs \in SUBSET Doc /\ Consistent(AllDocs, trail, nextEvent)
        BY <1>1, DocsAreDocs DEF AnchorIInv, DocumentsAgree, AllDocs
    <2>4. call[p].doc.root # NoHash
        BY <2>2, <2>3 DEF Consistent, AllDocs
    <2>5. k \in [event : Nat, root : Hashes, delivered : BOOLEAN]
        BY <2>1, <2>4, CheckpointAssumption DEF Doc
    <2>6. DocOf(k) = call[p].doc /\ (k.delivered => call[p].doc \in worm)
        <3>1. DocOf(k) = call[p].doc
            BY <2>1 DEF DocOf, Doc
        <3>. QED
            BY <1>2, <3>1 DEF AnchorIInv, DeliveriesAreStored
    <2>. HIDE DEF k
    <2>7. /\ call' \in [Procs -> CallRec] /\ call'[p] = c
          /\ \A q \in Procs : q # p => call'[q] = call[q]
        BY <1>4, <2>1
    <2>8. Pending' \subseteq Pending
        <3>1. Pending = {call[q].doc : q \in {o \in Procs : call[o].pc \in HoldingPcs}}
            BY DEF Pending, Holding, HoldingPcs
        <3>2. Pending' = {call'[q].doc : q \in {o \in Procs : call'[o].pc \in HoldingPcs}}
            BY DEF Pending, Holding, HoldingPcs
        <3>. QED
            BY <1>5, <2>7, <3>1, <3>2
    <2>9. Anchored' = Anchored \cup {call[p].doc}
        <3>1. Anchored' = {DocOf(x) : x \in checkpoints'}
            BY DEF Anchored, DocOf
        <3>. QED
            BY <1>7, <2>6, <3>1 DEF Anchored
    <2>10. AnchorTypeOK'
        BY <1>1, <1>2, <1>7, <2>5, <2>7 DEF AnchorTypeOK, CallRec
    <2>11. DocumentsAgree'
        <3>1. (worm \cup Anchored \cup Pending)' \subseteq AllDocs
            BY <1>2, <2>2, <2>8, <2>9 DEF AllDocs
        <3>2. Consistent((worm \cup Anchored \cup Pending)', trail, nextEvent)
            BY <2>3, <3>1, FewerDocs
        <3>. QED
            BY <1>2, <3>2 DEF DocumentsAgree
    <2>12. \A d : Agrees(d)' <=> Agrees(d)
        BY <1>2 DEF Agrees
    <2>13. UndamagedSoFar'
        BY <1>2, <2>2, <2>8, <2>9, <2>12 DEF UndamagedSoFar, AnchorIInv
    <2>14. EvidenceIsKept'
        <3>1. CheckpointsIntact' => CheckpointsIntact
            BY <1>7, <2>12 DEF CheckpointsIntact
        <3>. QED
            BY <1>2, <3>1 DEF EvidenceIsKept, AnchorIInv, AnchorsAreEvidence
    <2>15. DeliveriesAreStored'
        <3>. SUFFICES ASSUME NEW q \in Procs, call'[q].pc = "insert", Endpoint
                      PROVE  call'[q].doc \in worm
            BY <1>2 DEF DeliveriesAreStored
        <3>1. q # p
            BY <1>4, <2>7
        <3>. QED
            BY <2>7, <3>1 DEF AnchorIInv, DeliveriesAreStored
    <2>16. WormHoldsCheckpoints'
        <3>. SUFFICES ASSUME NEW x \in checkpoints', x.delivered
                      PROVE  DocOf(x) \in worm
            BY <1>2 DEF WormHoldsCheckpoints, DocOf
        <3>1. CASE x \in checkpoints
            BY <3>1 DEF AnchorIInv, AnchorsAreEvidence, WormHoldsCheckpoints, DocOf
        <3>2. CASE x = k
            BY <2>6, <3>2
        <3>. QED
            BY <1>7, <3>1, <3>2
    <2>17. HighAssuranceIsEarned' /\ OneDocumentPerEvent' /\ RowsAscend' /\ NotYetReported'
        BY <1>2 DEF AnchorIInv, AnchorsAreEvidence, HighAssuranceIsEarned, OneDocumentPerEvent, RowsAscend,
                    NotYetReported
    <2>. QED
        BY <2>10, <2>11, <2>13, <2>14, <2>15, <2>16, <2>17 DEF AnchorIInv, AnchorsAreEvidence
<1>. QED
    BY <1>2, <1>6, <1>7

-----------------------------------------------------------------------------
(* Damage.                                                                 *)

\* The content of a row that was altered no longer has its hash.
LEMMA AlteredIsBroken ==
    ASSUME NEW l \in Seq(AuditEvent), NEW i \in 1..Len(l), Sealed(l[i]), Linked(l, i),
           l[i].val # 0, NEW m,
           m[i].hash = l[i].hash, m[i].prev = l[i].prev, m[i].val = 0
    PROVE  ~Linked(m, i)
<1>1. l[i] \in AuditEvent /\ l[i].val \in Nat
    BY RowHashes
<1>2. l[i].prev \in Seq(Nat)
    <2>1. l[i].prev = HashBefore(l, i)
        BY DEF Linked
    <2>2. << >> \in Seq(Nat)
        OBVIOUS
    <2>3. CASE i > 1 /\ Sealed(l[i - 1])
        <3>1. i - 1 \in 1..Len(l)
            BY <2>3
        <3>. QED
            BY <2>1, <2>3, <3>1, RowHashes DEF HashBefore
    <2>4. CASE ~(i > 1 /\ Sealed(l[i - 1]))
        BY <2>1, <2>2, <2>4 DEF HashBefore, Genesis
    <2>. QED
        BY <2>3, <2>4
<1>3. l[i].hash = Append(l[i].prev, l[i].val)
    BY DEF Linked, ComputeHash
<1>4. Append(l[i].prev, l[i].val) # Append(l[i].prev, 0)
    BY <1>1, <1>2, AppendInjective
<1>. QED
    BY <1>3, <1>4 DEF Linked, ComputeHash, Sealed

\* The row after one that was removed no longer continues the row before it.
LEMMA RemovedIsBroken ==
    ASSUME NEW l \in Seq(AuditEvent), NEW i \in 1..Len(l),
           NEW m, m = SubSeq(l, 1, i - 1) \o SubSeq(l, i + 1, Len(l))
    PROVE  /\ m \in Seq(AuditEvent) /\ Len(m) = Len(l) - 1
           /\ \A a \in 1..Len(m) : m[a] = l[IF a < i THEN a ELSE a + 1]
           /\ (i < Len(l) /\ Sealed(l[i]) /\ Sealed(l[i + 1]) /\ Linked(l, i) /\ Linked(l, i + 1)) => ~Linked(m, i)
<1>0. Len(l) \in Nat /\ i \in Nat /\ 1 <= i /\ i <= Len(l)
    OBVIOUS
<1>8. PICK s, t, u : s = SubSeq(l, 1, i - 1) /\ t = SubSeq(l, i + 1, Len(l)) /\ u = m
    OBVIOUS
<1>1. /\ s \in Seq(AuditEvent) /\ Len(s) = i - 1
      /\ \A a \in 1..(i - 1) : s[a] = l[a]
    <2>1. \A a \in 1..(i - 1) : l[a] \in AuditEvent
        BY <1>0
    <2>2. /\ s \in Seq(AuditEvent) /\ Len(s) = IF 1 <= i - 1 THEN (i - 1) - 1 + 1 ELSE 0
          /\ \A a \in 1..(i - 1) - 1 + 1 : s[a] = l[1 + a - 1]
        BY <1>0, <1>8, <2>1, SubSeqProperties
    <2>3. \A a \in 1..(i - 1) : a \in 1..(i - 1) - 1 + 1 /\ 1 + a - 1 = a
        BY <1>0
    <2>4. Len(s) = i - 1
        BY <1>0, <2>2
    <2>. QED
        BY <2>2, <2>3, <2>4
<1>2. /\ t \in Seq(AuditEvent) /\ Len(t) = Len(l) - i
      /\ \A a \in 1..(Len(l) - i) : t[a] = l[i + a]
    <2>1. \A a \in (i + 1)..Len(l) : l[a] \in AuditEvent
        BY <1>0
    <2>2. /\ t \in Seq(AuditEvent) /\ Len(t) = IF i + 1 <= Len(l) THEN Len(l) - (i + 1) + 1 ELSE 0
          /\ \A a \in 1..Len(l) - (i + 1) + 1 : t[a] = l[(i + 1) + a - 1]
        BY <1>0, <1>8, <2>1, SubSeqProperties
    <2>3. \A a \in 1..(Len(l) - i) : a \in 1..Len(l) - (i + 1) + 1 /\ (i + 1) + a - 1 = i + a
        BY <1>0
    <2>4. Len(t) = Len(l) - i
        BY <1>0, <2>2
    <2>. QED
        BY <2>2, <2>3, <2>4
<1>3. s \in Seq(AuditEvent) /\ t \in Seq(AuditEvent) /\ u = s \o t
    BY <1>1, <1>2, <1>8
<1>4. /\ u \in Seq(AuditEvent) /\ Len(u) = Len(s) + Len(t)
      /\ \A a \in 1..Len(s) : u[a] = s[a]
      /\ \A a \in 1..Len(t) : u[Len(s) + a] = t[a]
    BY <1>3, ConcatRows
<1>5. Len(u) = Len(l) - 1
    BY <1>0, <1>1, <1>2, <1>4
<1>6. ASSUME NEW a \in 1..Len(u)
      PROVE  u[a] = l[IF a < i THEN a ELSE a + 1]
    <2>1. CASE a < i
        <3>1. a \in 1..(i - 1)
            BY <1>0, <2>1
        <3>. QED
            BY <1>1, <1>4, <2>1, <3>1
    <2>2. CASE ~(a < i)
        <3>1. PICK b \in 1..(Len(l) - i) : (i - 1) + b = a /\ i + b = a + 1
            <4>. DEFINE b == a - i + 1
            <4>1. b \in 1..(Len(l) - i) /\ (i - 1) + b = a /\ i + b = a + 1
                BY <1>0, <1>5, <2>2
            <4>. QED
                BY <4>1
        <3>. QED
            BY <1>1, <1>2, <1>4, <2>2, <3>1, ZenonT(60)
    <2>. QED
        BY <2>1, <2>2
<1>7. ASSUME i < Len(l), Sealed(l[i]), Sealed(l[i + 1]), Linked(l, i), Linked(l, i + 1)
      PROVE  ~Linked(u, i)
    <2>1. i \in 1..Len(u) /\ i + 1 \in 1..Len(l)
        BY <1>0, <1>5, <1>7
    <2>2. u[i] = l[i + 1]
        <3>1. ~(i < i)
            BY <1>0
        <3>. QED
            BY <1>6, <2>1, <3>1
    <2>3. HashBefore(u, i) = HashBefore(l, i)
        <3>1. CASE i > 1
            <4>1. i - 1 \in 1..Len(u) /\ i - 1 < i
                BY <1>0, <1>5, <3>1
            <4>2. u[i - 1] = l[i - 1]
                BY <1>6, <4>1
            <4>. QED
                BY <4>2 DEF HashBefore
        <3>2. CASE ~(i > 1)
            BY <3>2 DEF HashBefore
        <3>. QED
            BY <3>1, <3>2
    <2>4. HashBefore(l, i) \in Seq(Nat)
        <3>1. << >> \in Seq(Nat)
            OBVIOUS
        <3>2. CASE i > 1 /\ Sealed(l[i - 1])
            <4>1. i - 1 \in 1..Len(l)
                BY <1>0, <3>2
            <4>. QED
                BY <3>2, <4>1, RowHashes DEF HashBefore
        <3>3. CASE ~(i > 1 /\ Sealed(l[i - 1]))
            BY <3>1, <3>3 DEF HashBefore, Genesis
        <3>. QED
            BY <3>2, <3>3
    <2>5. l[i].hash = Append(HashBefore(l, i), l[i].val) /\ l[i].val \in Nat
        BY <1>7, RowHashes DEF Linked, ComputeHash
    <2>6. l[i + 1].prev = l[i].hash
        <3>1. i + 1 > 1 /\ (i + 1) - 1 = i
            BY <1>0
        <3>2. HashBefore(l, i + 1) = l[i].hash
            BY <1>7, <3>1 DEF HashBefore
        <3>. QED
            BY <1>7, <3>2 DEF Linked
    <2>7. Append(HashBefore(l, i), l[i].val) # HashBefore(l, i)
        <3>1. Len(Append(HashBefore(l, i), l[i].val)) = Len(HashBefore(l, i)) + 1
            BY <2>4, <2>5, AppendProperties
        <3>2. Len(HashBefore(l, i)) \in Nat
            BY <2>4, LenProperties
        <3>. QED
            BY <3>1, <3>2
    <2>. QED
        BY <1>7, <2>2, <2>3, <2>5, <2>6, <2>7 DEF Linked
<1>. QED
    BY <1>4, <1>5, <1>6, <1>7, <1>8

\* The rows before a place.
LEMMA CutOff ==
    ASSUME NEW l \in Seq(AuditEvent), NEW i \in 1..Len(l), NEW m, m = SubSeq(l, 1, i - 1)
    PROVE  m \in Seq(AuditEvent) /\ Len(m) = i - 1 /\ \A a \in 1..Len(m) : m[a] = l[a]
<1>0. Len(l) \in Nat /\ i \in Nat /\ 1 <= i /\ i <= Len(l)
    OBVIOUS
<1>1. \A a \in 1..(i - 1) : l[a] \in AuditEvent
    BY <1>0
<1>2. /\ m \in Seq(AuditEvent) /\ Len(m) = IF 1 <= i - 1 THEN (i - 1) - 1 + 1 ELSE 0
      /\ \A a \in 1..(i - 1) - 1 + 1 : m[a] = l[1 + a - 1]
    BY <1>0, <1>1, SubSeqProperties
<1>3. Len(m) = i - 1
    BY <1>0, <1>2
<1>4. \A a \in 1..Len(m) : a \in 1..(i - 1) - 1 + 1 /\ 1 + a - 1 = a
    BY <1>0, <1>3
<1>. QED
    BY <1>2, <1>3, <1>4

\* What an anchored row tells before the damage.
LEMMA AnchorOfRow ==
    ASSUME AnchorIInv, ~evidence, NEW i \in 1..Len(trail), trail[i].id <= LastAnchored
    PROVE  \E c \in checkpoints, k \in 1..Len(trail) : i <= k /\ trail[k].id = c.event
<1>1. /\ AnchorTypeOK /\ trail \in Seq(AuditEvent) /\ IdsAscend(trail)
      /\ trail[i].id \in Nat /\ 0 < trail[i].id
    <2>1. AnchorTypeOK /\ IdsAscend(trail) /\ 0 < trail[i].id
        BY DEF AnchorIInv, AnchorsAreEvidence, RowsAscend
    <2>2. trail \in Seq(AuditEvent)
        BY <2>1 DEF AnchorTypeOK
    <2>. QED
        BY <2>1, <2>2, RowHashes
<1>2. checkpoints # {}
    BY <1>1 DEF LastAnchored
<1>3. PICK c \in checkpoints : c.event = LastAnchored
    BY <1>2, LatestIsOne
<1>4. DocOf(c) \in Anchored /\ DocOf(c).event = c.event
    BY DEF Anchored, DocOf
<1>5. Agrees(DocOf(c))
    BY <1>4 DEF AnchorIInv, UndamagedSoFar
<1>6. PICK k \in 1..Len(trail) : trail[k].id = c.event
    BY <1>4, <1>5 DEF Agrees
<1>7. i <= k
    <2>. SUFFICES ASSUME k < i PROVE FALSE
        BY <1>1
    <2>1. trail[k].id < trail[i].id /\ trail[k].id \in Nat
        BY <1>1, RowHashes DEF IdsAscend
    <2>. QED
        BY <1>1, <1>3, <1>6, <2>1
<1>. QED
    BY <1>6, <1>7

\* Damage to an anchored row shows at once: an altered row lacks its hash; without
\* the row the next one is not linked, or its anchor finds no row.
LEMMA DamageShows ==
    ASSUME AnchorIInv, NEW i \in 1..Len(trail), Damage(i)
    PROVE  /\ trail' \in Seq(AuditEvent) /\ Len(trail') \in Nat
           /\ \E f \in [1..Len(trail') -> 1..Len(trail)] :
                 /\ \A a, b \in 1..Len(trail') : a < b => f[a] < f[b]
                 /\ \A a \in 1..Len(trail') : /\ trail'[a].id = trail[f[a]].id
                                              /\ trail'[a].hash = trail[f[a]].hash
           /\ ~(Intact(trail') /\ CheckpointsIntact')
<1>0. PICK l : l = trail
    OBVIOUS
<1>1. /\ i \in 1..Len(l) /\ AnchorTypeOK /\ l \in Seq(AuditEvent) /\ IdsAscend(l)
      /\ \A j \in 1..Len(l) : l[j].id \in Nat /\ 0 < l[j].id
    <2>1. AnchorTypeOK /\ IdsAscend(trail) /\ \A j \in 1..Len(trail) : 0 < trail[j].id
        BY DEF AnchorIInv, AnchorsAreEvidence, RowsAscend
    <2>2. trail \in Seq(AuditEvent)
        BY <2>1 DEF AnchorTypeOK
    <2>. QED
        BY <1>0, <2>1, <2>2, RowHashes
<1>2. /\ ~evidence /\ l[i].id <= LastAnchored /\ Sealed(l[i]) /\ checkpoints' = checkpoints
      /\ \/ trail' = [l EXCEPT ![i].val = 0]
         \/ trail' = SubSeq(l, 1, i - 1) \o SubSeq(l, i + 1, Len(l))
         \/ trail' = SubSeq(l, 1, i - 1)
    BY <1>0 DEF Damage
<1>3. /\ \A j \in 1..Len(l) : Linked(l, j) /\ l[j].val = l[j].id
      /\ \A a, b \in 1..Len(l) : a < b /\ Sealed(l[a]) => Sealed(l[b])
    BY <1>0, <1>2 DEF AnchorIInv, UndamagedSoFar
<1>4. PICK c \in checkpoints, k \in 1..Len(l) : i <= k /\ l[k].id = c.event
    BY <1>0, <1>2, AnchorOfRow
<1>5. \A a, b \in 1..Len(l) : l[a].id = l[b].id => a = b
    <2>. SUFFICES ASSUME NEW a \in 1..Len(l), NEW b \in 1..Len(l), a < b PROVE l[a].id # l[b].id
        OBVIOUS
    <2>1. l[a].id < l[b].id /\ l[a].id \in Nat /\ l[b].id \in Nat
        BY <1>1 DEF IdsAscend
    <2>. QED
        BY <2>1
<1>6. /\ Len(l) \in Nat /\ i \in Nat /\ 1 <= i /\ i <= Len(l) /\ k \in Nat /\ k <= Len(l)
    BY <1>1
<1>7. PICK m : m = trail'
    OBVIOUS
<1>8. ASSUME \A a \in 1..Len(m) : m[a].id # c.event
      PROVE  ~CheckpointsIntact'
    BY <1>2, <1>7, <1>8 DEF CheckpointsIntact, Agrees
<1>9. \A j \in 1..Len(m) : ~Linked(m, j) => ~Intact(m)
    BY DEF Intact, Broken
<1>9a. l \in Seq(AuditEvent) /\ i \in 1..Len(l) /\ Sealed(l[i]) /\ Linked(l, i)
    BY <1>1, <1>2, <1>3
<1>. DEFINE Origins == \E f \in [1..Len(m) -> 1..Len(l)] :
                          /\ \A a, b \in 1..Len(m) : a < b => f[a] < f[b]
                          /\ \A a \in 1..Len(m) : m[a].id = l[f[a]].id /\ m[a].hash = l[f[a]].hash
            Result == m \in Seq(AuditEvent) /\ Len(m) \in Nat /\ Origins /\ ~(Intact(m) /\ CheckpointsIntact')
<1>10. ASSUME m = [l EXCEPT ![i].val = 0]
       PROVE  Result
    <2>1. l[i].val # 0
        BY <1>1, <1>3
    <2>2. /\ m \in Seq(AuditEvent) /\ Len(m) = Len(l)
          /\ \A a \in 1..Len(l) : m[a].id = l[a].id /\ m[a].hash = l[a].hash
          /\ ~Linked(m, i)
        <3>1. PICK r : r = [l[i] EXCEPT !.val = 0]
            OBVIOUS
        <3>2. m = [l EXCEPT ![i] = r]
            BY <1>10, <3>1
        <3>3. l[i] \in AuditEvent
            BY <1>9a
        <3>4. r \in AuditEvent /\ r.id = l[i].id /\ r.hash = l[i].hash /\ r.prev = l[i].prev /\ r.val = 0
            BY <3>1, <3>3 DEF AuditEvent
        <3>5. /\ m \in Seq(AuditEvent) /\ Len(m) = Len(l) /\ m[i] = r
              /\ \A a \in 1..Len(l) : a # i => m[a] = l[a]
            BY <1>9a, <3>2, <3>4
        <3>6. ~Linked(m, i)
            BY <1>9a, <2>1, <3>4, <3>5, AlteredIsBroken
        <3>. QED
            BY <3>4, <3>5, <3>6
    <2>3. ~Intact(m)
        BY <1>9, <1>9a, <2>2
    <2>. DEFINE f == [a \in 1..Len(l) |-> a]
    <2>4. /\ f \in [1..Len(m) -> 1..Len(l)]
          /\ \A a, b \in 1..Len(m) : a < b => f[a] < f[b]
          /\ \A a \in 1..Len(m) : m[a].id = l[f[a]].id /\ m[a].hash = l[f[a]].hash
        BY <2>2
    <2>5. Origins
        BY <2>4
    <2>. HIDE DEF Origins
    <2>. QED
        BY <1>6, <2>2, <2>3, <2>5
<1>11. ASSUME m = SubSeq(l, 1, i - 1) \o SubSeq(l, i + 1, Len(l))
       PROVE  Result
    <2>1. /\ m \in Seq(AuditEvent) /\ Len(m) = Len(l) - 1
          /\ \A a \in 1..Len(m) : m[a] = l[IF a < i THEN a ELSE a + 1]
          /\ (i < Len(l) /\ Sealed(l[i]) /\ Sealed(l[i + 1]) /\ Linked(l, i) /\ Linked(l, i + 1)) => ~Linked(m, i)
        BY <1>11, <1>9a, RemovedIsBroken, ZenonT(60)
    <2>. DEFINE f == [a \in 1..Len(m) |-> IF a < i THEN a ELSE a + 1]
    <2>2. \A a \in 1..Len(m) : /\ (IF a < i THEN a ELSE a + 1) \in 1..Len(l)
                               /\ (IF a < i THEN a ELSE a + 1) # i
        BY <1>6, <2>1
    <2>3. /\ f \in [1..Len(m) -> 1..Len(l)]
          /\ \A a, b \in 1..Len(m) : a < b => f[a] < f[b]
          /\ \A a \in 1..Len(m) : m[a] = l[f[a]] /\ f[a] # i
        BY <1>6, <2>1, <2>2
    <2>7. Origins
        <3>. HIDE DEF f
        <3>. QED
            BY <2>3
    <2>8. Len(m) \in Nat
        BY <1>6, <2>1
    <2>. HIDE DEF f, Origins
    <2>4. CASE i = k
        <3>1. \A a \in 1..Len(m) : m[a].id # c.event
            BY <1>4, <1>5, <2>3, <2>4
        <3>. QED
            BY <1>8, <2>1, <2>7, <2>8, <3>1
    <2>5. CASE i < k
        <3>1. i < Len(l) /\ i + 1 \in 1..Len(l) /\ i \in 1..Len(m) /\ i < i + 1
            BY <1>6, <2>1, <2>5
        <3>2. Sealed(l[i + 1]) /\ Linked(l, i) /\ Linked(l, i + 1)
            BY <1>2, <1>3, <3>1
        <3>3. ~Linked(m, i)
            BY <1>2, <2>1, <3>1, <3>2
        <3>4. ~Intact(m)
            BY <1>9, <3>1, <3>3
        <3>. QED
            BY <2>1, <2>7, <2>8, <3>4
    <2>6. i = k \/ i < k
        BY <1>4, <1>6
    <2>. QED
        BY <2>4, <2>5, <2>6
<1>12. ASSUME m = SubSeq(l, 1, i - 1)
       PROVE  Result
    <2>1. m \in Seq(AuditEvent) /\ Len(m) = i - 1 /\ \A a \in 1..Len(m) : m[a] = l[a]
        BY <1>1, <1>12, CutOff
    <2>. DEFINE f == [a \in 1..Len(m) |-> a]
    <2>2. /\ f \in [1..Len(m) -> 1..Len(l)]
          /\ \A a, b \in 1..Len(m) : a < b => f[a] < f[b]
          /\ \A a \in 1..Len(m) : m[a] = l[f[a]]
        BY <1>6, <2>1
    <2>3. \A a \in 1..Len(m) : a \in 1..Len(l) /\ a # k
        BY <1>4, <1>6, <2>1
    <2>. HIDE DEF f
    <2>4. \A a \in 1..Len(m) : m[a].id # c.event
        BY <1>4, <1>5, <2>1, <2>3
    <2>5. Origins
        BY <2>2
    <2>6. Len(m) \in Nat
        BY <1>6, <2>1
    <2>. HIDE DEF Origins
    <2>. QED
        BY <1>8, <2>1, <2>4, <2>5, <2>6
<1>13. Result
    <2>. HIDE DEF Result
    <2>. QED
        BY <1>2, <1>7, <1>10, <1>11, <1>12
<1>. QED
    BY <1>0, <1>7, <1>13, ZenonT(60)

LEMMA DamageKeeps ==
    ASSUME AnchorIInv, NEW i \in 1..Len(trail), Damage(i)
    PROVE  AnchorIInv'
<1>1. PICK m : m = trail'
    OBVIOUS
<1>2. /\ m \in Seq(AuditEvent) /\ Len(m) \in Nat
      /\ ~(Intact(m) /\ CheckpointsIntact')
    BY <1>1, DamageShows
<1>3. PICK f \in [1..Len(m) -> 1..Len(trail)] :
          /\ \A a, b \in 1..Len(m) : a < b => f[a] < f[b]
          /\ \A a \in 1..Len(m) : m[a].id = trail[f[a]].id /\ m[a].hash = trail[f[a]].hash
    BY <1>1, DamageShows
<1>4. /\ UNCHANGED <<nextEvent, checkpoints, worm, call, backoff, probeDue, audit, crashes>>
      /\ evidence' = TRUE
    BY DEF Damage
<1>5. AnchorTypeOK'
    BY <1>1, <1>2, <1>4 DEF AnchorIInv, AnchorsAreEvidence, AnchorTypeOK
<1>6. RowsAscend'
    <2>1. /\ \A a, b \in 1..Len(trail) : a < b => trail[a].id < trail[b].id
          /\ \A a \in 1..Len(trail) : 0 < trail[a].id /\ trail[a].id < nextEvent
          /\ nextEvent > 0
        BY DEF AnchorIInv, RowsAscend, IdsAscend
    <2>2. \A a, b \in 1..Len(m) : a < b => m[a].id < m[b].id
        BY <1>3, <2>1
    <2>3. \A a \in 1..Len(m) : 0 < m[a].id /\ m[a].id < nextEvent
        BY <1>3, <2>1
    <2>. QED
        BY <1>1, <1>4, <2>1, <2>2, <2>3 DEF RowsAscend, IdsAscend
<1>7. /\ Anchored' = Anchored /\ Pending' = Pending /\ worm' = worm
    BY <1>4 DEF Anchored, Pending, DocOf, Holding
<1>8. DocumentsAgree'
    <2>1. \A a \in 1..Len(m) : \E b \in 1..Len(trail) : m[a].id = trail[b].id /\ m[a].hash = trail[b].hash
        BY <1>3
    <2>2. Consistent(AllDocs, trail, nextEvent)
        BY DEF AnchorIInv, DocumentsAgree, AllDocs
    <2>3. Consistent(AllDocs, m, nextEvent)
        BY <2>1, <2>2, DocsOfFewerRows
    <2>. QED
        BY <1>1, <1>4, <1>7, <2>3 DEF DocumentsAgree, AllDocs
<1>9. UndamagedSoFar'
    BY <1>4 DEF UndamagedSoFar
<1>10. EvidenceIsKept'
    BY <1>1, <1>2 DEF EvidenceIsKept
<1>11. /\ DeliveriesAreStored' /\ WormHoldsCheckpoints' /\ HighAssuranceIsEarned'
       /\ OneDocumentPerEvent' /\ NotYetReported'
    BY <1>4 DEF AnchorIInv, AnchorsAreEvidence, DeliveriesAreStored, WormHoldsCheckpoints,
                HighAssuranceIsEarned, OneDocumentPerEvent, NotYetReported
<1>. QED
    BY <1>5, <1>6, <1>8, <1>9, <1>10, <1>11 DEF AnchorIInv, AnchorsAreEvidence

LEMMA AnchorInitHolds == AnchorInit => AnchorIInv
<1>. SUFFICES ASSUME AnchorInit PROVE AnchorIInv
    OBVIOUS
<1>1. \A i \in 1..UnsealedRows : /\ trail[i] \in AuditEvent /\ trail[i].id = i /\ trail[i].val = i
                                 /\ ~Sealed(trail[i])
    BY CheckpointAssumption DEF AnchorInit, Unsealed, AuditEvent, Sealed
<1>2. trail \in Seq(AuditEvent) /\ Len(trail) = UnsealedRows
    <2>1. trail \in [1..UnsealedRows -> AuditEvent]
        BY <1>1 DEF AnchorInit
    <2>. QED
        BY <2>1, FunctionIsSeq, CheckpointAssumption
<1>3. NoDoc \in Doc /\ nextEvent \in Nat /\ nextEvent = UnsealedRows + 1 /\ UnsealedRows \in Nat
    BY CheckpointAssumption DEF AnchorInit, NoDoc, Doc
<1>4. AnchorTypeOK
    <2>1. NoCall \in CallRec
        BY <1>3 DEF NoCall, CallRec, Pcs
    <2>2. call \in [Procs -> CallRec]
        BY <2>1 DEF AnchorInit
    <2>3. audit \in AuditRec
        BY <1>3 DEF AnchorInit, AuditRec
    <2>. QED
        BY <1>2, <1>3, <2>2, <2>3 DEF AnchorInit, AnchorTypeOK, CallRec, AuditRec
<1>5. Anchored = {} /\ Pending = {} /\ worm = {}
    BY DEF AnchorInit, Anchored, Pending, Holding, NoCall
<1>6. RowsAscend
    <2>1. \A i \in 1..Len(trail) : trail[i].id = i
        BY <1>1, <1>2
    <2>. QED
        BY <1>2, <1>3, <2>1 DEF RowsAscend, IdsAscend
<1>7. DocumentsAgree
    BY <1>5 DEF DocumentsAgree, Consistent
<1>8. UndamagedSoFar
    BY <1>1, <1>2, <1>5 DEF UndamagedSoFar, Linked
<1>9. DeliveriesAreStored /\ NotYetReported
    BY DEF AnchorInit, DeliveriesAreStored, NotYetReported, NoCall
<1>10. WormHoldsCheckpoints /\ OneDocumentPerEvent /\ EvidenceIsKept /\ HighAssuranceIsEarned
    BY DEF AnchorInit, WormHoldsCheckpoints, OneDocumentPerEvent, EvidenceIsKept, HighAssuranceIsEarned
<1>. QED
    BY <1>4, <1>6, <1>7, <1>8, <1>9, <1>10 DEF AnchorIInv, AnchorsAreEvidence

\* Every step, and a stuttering one.
LEMMA AnchorNextKeeps ==
    ASSUME AnchorIInv, [AnchorNext]_anchorVars
    PROVE  AnchorIInv'
<1>1. CASE UNCHANGED anchorVars
    <2>1. /\ UNCHANGED <<trail, nextEvent, checkpoints, worm, call, evidence>>
          /\ UNCHANGED <<backoff, probeDue, audit, crashes>>
        BY <1>1 DEF anchorVars
    <2>2. /\ crashes \in Nat /\ audit \in AuditRec
          /\ backoff \in [Procs -> BOOLEAN] /\ probeDue \in [Procs -> BOOLEAN]
        BY FlagTypes
    <2>3. (audit.high => audit.tip \in worm) /\ (audit.pc # "idle" => ~audit.high)
        BY DEF AnchorIInv, AnchorsAreEvidence, HighAssuranceIsEarned, NotYetReported
    <2>. QED
        BY <2>1, <2>2, <2>3, AuditMoves
<1>2. CASE AppendEvent \/ VerifyRequested \/ WalkChain \/ ReportVerification
    BY <1>2, AppendEventKeeps, VerifyRequestedKeeps, WalkChainKeeps, ReportVerificationKeeps
<1>3. ASSUME NEW i \in 1..Len(trail), Damage(i) \/ \E p \in Procs : MaybeAnchor(p, i)
      PROVE  AnchorIInv'
    BY <1>3, DamageKeeps, MaybeAnchorKeeps
<1>4. ASSUME NEW p \in Procs,
             CreateAuditCheckpoint(p) \/ EnsureLatestAnchored(p) \/ VerifyPrevious(p) \/ ReadLatestEvent(p)
      PROVE  AnchorIInv'
    BY <1>4, CreateCheckpointKeeps, EnsureKeeps, VerifyPreviousKeeps, ReadLatestKeeps
<1>5. ASSUME NEW p \in Procs,
             FindExisting(p) \/ DeliverFails(p) \/ DeliverySucceeds(p) \/ InsertCheckpoint(p)
      PROVE  AnchorIInv'
    BY <1>5, FindExistingKeeps, DeliverFailsKeeps, DeliverySucceedsKeeps, InsertKeeps
<1>6. ASSUME NEW p \in Procs, ProcessCrash(p) \/ BackoffEnds(p) \/ ProbeFallsDue(p)
      PROVE  AnchorIInv'
    BY <1>6, ProcessCrashKeeps, FlagsKeep
<1>. QED
    BY <1>1, <1>2, <1>3, <1>4, <1>5, <1>6 DEF AnchorNext, AnchorStep

\* The inductive invariant holds in every behaviour of the workers.
THEOREM AnchorInvariance == AnchorSpec => []AnchorIInv
<1>1. AnchorInit => AnchorIInv
    BY AnchorInitHolds
<1>2. AnchorIInv /\ [AnchorNext]_anchorVars => AnchorIInv'
    BY AnchorNextKeeps
<1>. QED
    BY <1>1, <1>2, PTL DEF AnchorSpec

\* Anchors are evidence, for any number of workers, events and crashes: what a
\* checkpoint calls delivered is in the sink, the sink holds one document per
\* event, high assurance is reported only for a row that the sink has, and damage
\* to an anchored part of the log shows for ever.
THEOREM AnchorsHold == AnchorSpec => []AnchorsAreEvidence
<1>1. AnchorIInv => AnchorsAreEvidence
    BY DEF AnchorIInv
<1>. QED
    BY <1>1, AnchorInvariance, PTL

-----------------------------------------------------------------------------
(* Correlation: numbers, and the parts of a finite set.                     *)

\* A set of numbers has a least one.
LEMMA LeastOf ==
    ASSUME NEW S \in SUBSET Nat, S # {}
    PROVE  \E x \in S : \A y \in S : x <= y
<1>1. PICK x \in S : \A y \in S : ~(<<y, x>> \in OpToRel(<, Nat))
    BY NatLessThanWellFounded, WFMin, Zenon
<1>2. \A y \in S : ~(y < x)
    <2>. SUFFICES ASSUME NEW y \in S, y < x PROVE FALSE
        OBVIOUS
    <2>1. <<y, x>> \in Nat \X Nat /\ <<y, x>>[1] = y /\ <<y, x>>[2] = x
        OBVIOUS
    <2>2. <<y, x>> \in OpToRel(<, Nat)
        BY <2>1 DEF OpToRel
    <2>. QED
        BY <1>1, <2>2
<1>. QED
    BY <1>2

-----------------------------------------------------------------------------
(* Correlation: the rows in their order.                                   *)

\* A row is known by its id, and the ids are those of the rows there are.
RowsAreNumbered ==
    /\ IsFiniteSet(auditRows) /\ Cardinality(auditRows) <= MaxRecords
    /\ \A e \in auditRows : e.id <= Cardinality(auditRows)
    /\ \A e, f \in auditRows : e.id = f.id => e = f

\* The inductive invariant.
CorrelationIInv == CorrelationTypeOK /\ RowsAreNumbered

\* A part of a finite set is counted, and is smaller unless it is all of it.
LEMMA PartCounts ==
    ASSUME NEW S, IsFiniteSet(S), NEW T, T \subseteq S
    PROVE  /\ IsFiniteSet(T) /\ Cardinality(T) \in Nat /\ Cardinality(S) \in Nat
           /\ Cardinality(T) <= Cardinality(S)
           /\ Cardinality(T) = Cardinality(S) => T = S
<1>1. T \in SUBSET S
    OBVIOUS
<1>2. /\ IsFiniteSet(T) /\ Cardinality(T) <= Cardinality(S)
      /\ Cardinality(S) = Cardinality(T) => S = T
    BY <1>1, FS_Subset
<1>3. Cardinality(T) \in Nat /\ Cardinality(S) \in Nat
    BY <1>2, FS_CardinalityType
<1>. QED
    BY <1>2, <1>3

\* The rows are ordered by time and id.
LEMMA RowOrder ==
    ASSUME CorrelationIInv
    PROVE  /\ \A e, f \in auditRows : Earlier(e, f) => ~Earlier(f, e) /\ e # f
           /\ \A e, f, g \in auditRows : Earlier(e, f) /\ Earlier(f, g) => Earlier(e, g)
           /\ \A e, f \in auditRows : e = f \/ Earlier(e, f) \/ Earlier(f, e)
<1>1. \A e \in auditRows : e.id \in Nat /\ e.at \in Nat
    BY CorrelationAssumption DEF CorrelationIInv, CorrelationTypeOK
<1>2. \A e, f \in auditRows : e.id = f.id => e = f
    BY DEF CorrelationIInv, RowsAreNumbered
<1>. QED
    BY <1>1, <1>2 DEF Earlier

\* What the queries select are rows.
LEMMA SelectedAreRows ==
    /\ InWindow \subseteq auditRows /\ FailedLogins \subseteq InWindow /\ Signins \subseteq InWindow
    /\ RunsEnded \subseteq Signins
    /\ \A a : By(Signins, a) \subseteq Signins
    /\ \A a, n : InEpisode(a, n) \subseteq By(Signins, a)
    /\ \A a : \A e \in By(Signins, a) : e.kind.actor = a
<1>1. InWindow \subseteq auditRows /\ FailedLogins \subseteq InWindow /\ Signins \subseteq InWindow
    BY DEF InWindow, FailedLogins, Signins
<1>2. RunsEnded \subseteq Signins
    BY DEF RunsEnded
<1>3. \A a : By(Signins, a) \subseteq Signins /\ \A e \in By(Signins, a) : e.kind.actor = a
    BY DEF By
<1>4. \A a, n : InEpisode(a, n) \subseteq By(Signins, a)
    BY DEF InEpisode
<1>. QED
    BY <1>1, <1>2, <1>3, <1>4

-----------------------------------------------------------------------------
(* Episodes are the runs that a success ends.                              *)

\* The successes that Episode counts.
WinsBefore(e) == {f \in By(Signins, e.kind.actor) : ~Failed(f) /\ Earlier(f, e)}

\* The sum of successes grows exactly where a success lies between.
LEMMA EpisodeGrows ==
    ASSUME CorrelationIInv, NEW a, NEW e \in By(Signins, a), NEW f \in By(Signins, a), Earlier(e, f)
    PROVE  /\ Episode(e) \in Nat /\ Episode(f) \in Nat /\ Episode(e) <= Episode(f)
           /\ (\E t \in By(Signins, a) : ~Failed(t) /\ EarlierOrAt(e, t) /\ Earlier(t, f))
                 => Episode(e) # Episode(f)
           /\ Episode(e) # Episode(f) =>
                 \E t \in By(Signins, a) : ~Failed(t) /\ EarlierOrAt(e, t) /\ Earlier(t, f)
<1>1. e.kind.actor = a /\ f.kind.actor = a
    BY SelectedAreRows
<1>2. By(Signins, a) \subseteq auditRows
    BY SelectedAreRows
<1>3. Episode(e) = Cardinality(WinsBefore(e)) /\ Episode(f) = Cardinality(WinsBefore(f))
    BY DEF Episode, WinsBefore
<1>4. /\ WinsBefore(e) = {t \in By(Signins, a) : ~Failed(t) /\ Earlier(t, e)}
      /\ WinsBefore(f) = {t \in By(Signins, a) : ~Failed(t) /\ Earlier(t, f)}
    BY <1>1 DEF WinsBefore
<1>5. WinsBefore(e) \subseteq WinsBefore(f)
    BY <1>2, <1>4, RowOrder
<1>6. IsFiniteSet(WinsBefore(f))
    <2>1. WinsBefore(f) \subseteq auditRows /\ IsFiniteSet(auditRows)
        BY <1>2, <1>4 DEF CorrelationIInv, RowsAreNumbered
    <2>. QED
        BY <2>1, PartCounts
<1>7. /\ Cardinality(WinsBefore(e)) \in Nat /\ Cardinality(WinsBefore(f)) \in Nat
      /\ Cardinality(WinsBefore(e)) <= Cardinality(WinsBefore(f))
      /\ Cardinality(WinsBefore(e)) = Cardinality(WinsBefore(f)) => WinsBefore(e) = WinsBefore(f)
    BY <1>5, <1>6, PartCounts
<1>8. ASSUME NEW t \in By(Signins, a), ~Failed(t), EarlierOrAt(e, t), Earlier(t, f)
      PROVE  t \in WinsBefore(f) /\ t \notin WinsBefore(e)
    <2>1. ~Earlier(t, e)
        BY <1>2, <1>8, RowOrder DEF EarlierOrAt
    <2>. QED
        BY <1>4, <1>8, <2>1
<1>9. ASSUME NEW t \in WinsBefore(f), t \notin WinsBefore(e)
      PROVE  t \in By(Signins, a) /\ ~Failed(t) /\ EarlierOrAt(e, t) /\ Earlier(t, f)
    <2>1. t \in By(Signins, a) /\ ~Failed(t) /\ Earlier(t, f) /\ ~Earlier(t, e)
        BY <1>4, <1>9
    <2>2. e = t \/ Earlier(e, t)
        BY <1>2, <2>1, RowOrder
    <2>. QED
        BY <2>1, <2>2 DEF EarlierOrAt
<1>10. Episode(e) # Episode(f) => WinsBefore(e) # WinsBefore(f)
    BY <1>3
<1>. QED
    BY <1>3, <1>5, <1>7, <1>8, <1>9, <1>10

\* There are no more successes than rows.
LEMMA EpisodeRange ==
    ASSUME CorrelationIInv, NEW e \in Signins
    PROVE  Episode(e) \in 0..MaxRecords
<1>1. WinsBefore(e) \subseteq auditRows /\ IsFiniteSet(auditRows)
    BY SelectedAreRows DEF WinsBefore, CorrelationIInv, RowsAreNumbered
<1>2. /\ Cardinality(WinsBefore(e)) \in Nat /\ Cardinality(auditRows) \in Nat
      /\ Cardinality(WinsBefore(e)) <= Cardinality(auditRows)
    BY <1>1, PartCounts
<1>3. Cardinality(auditRows) <= MaxRecords /\ MaxRecords \in Nat
    BY CorrelationAssumption DEF CorrelationIInv, RowsAreNumbered
<1>4. Episode(e) = Cardinality(WinsBefore(e))
    BY DEF Episode, WinsBefore
<1>. QED
    BY <1>2, <1>3, <1>4

\* An episode has one success, and its failures are those that run up to it.
LEMMA RunIsEpisode ==
    ASSUME CorrelationIInv, NEW a, NEW s \in By(Signins, a), ~Failed(s)
    PROVE  /\ s \in InEpisode(a, Episode(s))
           /\ {e \in InEpisode(a, Episode(s)) : Failed(e)} = FailuresBefore(s)
           /\ SuccessOf(a, Episode(s)) = s
<1>1. By(Signins, a) \subseteq auditRows /\ s.kind.actor = a
    BY SelectedAreRows
<1>2. InEpisode(a, Episode(s)) = {e \in By(Signins, a) : Episode(e) = Episode(s)}
    BY DEF InEpisode
<1>3. s \in InEpisode(a, Episode(s))
    BY <1>2
<1>4. ASSUME NEW e \in By(Signins, a), Episode(e) = Episode(s) PROVE ~Earlier(s, e)
    <2>. SUFFICES ASSUME Earlier(s, e) PROVE FALSE
        OBVIOUS
    <2>1. EarlierOrAt(s, s)
        BY DEF EarlierOrAt
    <2>2. Episode(s) # Episode(e)
        BY <2>1, EpisodeGrows
    <2>. QED
        BY <1>4, <2>2
<1>5. ASSUME NEW e \in By(Signins, a), Episode(e) = Episode(s), ~Failed(e) PROVE e = s
    <2>. SUFFICES ASSUME Earlier(e, s) PROVE FALSE
        BY <1>1, <1>4, <1>5, RowOrder
    <2>1. EarlierOrAt(e, e)
        BY DEF EarlierOrAt
    <2>2. Episode(e) # Episode(s)
        BY <1>5, <2>1, EpisodeGrows
    <2>. QED
        BY <1>5, <2>2
<1>6. ASSUME NEW e \in By(Signins, a), Failed(e), Episode(e) = Episode(s)
      PROVE  e \in FailuresBefore(s)
    <2>1. e # s
        BY <1>6
    <2>2. Earlier(e, s)
        BY <1>1, <1>4, <1>6, <2>1, RowOrder
    <2>3. ~\E t \in By(Signins, a) : ~Failed(t) /\ EarlierOrAt(e, t) /\ Earlier(t, s)
        BY <1>6, <2>2, EpisodeGrows
    <2>. QED
        BY <1>1, <1>6, <2>2, <2>3 DEF FailuresBefore, EarlierOrAt
<1>7. ASSUME NEW e \in FailuresBefore(s)
      PROVE  e \in By(Signins, a) /\ Failed(e) /\ Episode(e) = Episode(s)
    <2>1. /\ e \in By(Signins, a) /\ Failed(e) /\ Earlier(e, s)
          /\ ~\E t \in By(Signins, a) : ~Failed(t) /\ Earlier(e, t) /\ Earlier(t, s)
        BY <1>1 DEF FailuresBefore
    <2>2. ~\E t \in By(Signins, a) : ~Failed(t) /\ EarlierOrAt(e, t) /\ Earlier(t, s)
        BY <2>1 DEF EarlierOrAt
    <2>3. Episode(e) = Episode(s)
        BY <2>1, <2>2, EpisodeGrows
    <2>. QED
        BY <2>1, <2>3
<1>8. {e \in InEpisode(a, Episode(s)) : Failed(e)} = FailuresBefore(s)
    BY <1>2, <1>6, <1>7
<1>9. SuccessOf(a, Episode(s)) = s
    BY <1>2, <1>3, <1>5 DEF SuccessOf
<1>. QED
    BY <1>3, <1>8, <1>9

\* The episodes that the query keeps are the runs that ended.
LEMMA EpisodesEnd ==
    ASSUME CorrelationIInv, NEW a
    PROVE  /\ \A n \in Episodes(a) : SuccessOf(a, n) \in By(RunsEnded, a) /\ Episode(SuccessOf(a, n)) = n
           /\ \A s \in By(RunsEnded, a) : Episode(s) \in Episodes(a) /\ SuccessOf(a, Episode(s)) = s
<1>1. ASSUME NEW n \in Episodes(a)
      PROVE  SuccessOf(a, n) \in By(RunsEnded, a) /\ Episode(SuccessOf(a, n)) = n
    <2>1. PICK s \in InEpisode(a, n) : ~Failed(s)
        BY DEF Episodes, Qualifies
    <2>2. s \in By(Signins, a) /\ Episode(s) = n
        BY <2>1 DEF InEpisode
    <2>3. /\ {e \in InEpisode(a, n) : Failed(e)} = FailuresBefore(s)
          /\ SuccessOf(a, n) = s
        BY <2>1, <2>2, RunIsEpisode
    <2>4. Cardinality(FailuresBefore(s)) >= Failures
        BY <2>3 DEF Episodes, Qualifies
    <2>5. s \in Signins /\ s.kind.actor = a
        BY <2>2, SelectedAreRows
    <2>6. s \in By(RunsEnded, a)
        BY <2>1, <2>4, <2>5 DEF RunsEnded, By
    <2>. QED
        BY <2>2, <2>3, <2>6
<1>2. ASSUME NEW s \in By(RunsEnded, a)
      PROVE  Episode(s) \in Episodes(a) /\ SuccessOf(a, Episode(s)) = s
    <2>1. s \in Signins /\ s.kind.actor = a /\ ~Failed(s) /\ Cardinality(FailuresBefore(s)) >= Failures
        BY DEF RunsEnded, By
    <2>2. s \in By(Signins, a)
        BY <2>1 DEF By
    <2>3. /\ s \in InEpisode(a, Episode(s))
          /\ {e \in InEpisode(a, Episode(s)) : Failed(e)} = FailuresBefore(s)
          /\ SuccessOf(a, Episode(s)) = s
        BY <2>1, <2>2, RunIsEpisode
    <2>4. Qualifies(InEpisode(a, Episode(s)))
        BY <2>1, <2>3 DEF Qualifies
    <2>5. Episode(s) \in 0..MaxRecords
        BY <2>1, EpisodeRange
    <2>. QED
        BY <2>3, <2>4, <2>5 DEF Episodes
<1>. QED
    BY <1>1, <1>2

-----------------------------------------------------------------------------
(* The latest episode of each account, and the latest Limit accounts.      *)

\* Episodes are in the order of the successes that end them.
LEMMA SuccessesInOrder ==
    ASSUME CorrelationIInv, NEW a, NEW m \in Episodes(a), NEW n \in Episodes(a), m <= n
    PROVE  EarlierOrAt(SuccessOf(a, m), SuccessOf(a, n))
<1>. DEFINE s == SuccessOf(a, m)
            t == SuccessOf(a, n)
<1>1. /\ s \in By(RunsEnded, a) /\ Episode(s) = m
      /\ t \in By(RunsEnded, a) /\ Episode(t) = n
    BY EpisodesEnd
<1>2. s \in By(Signins, a) /\ t \in By(Signins, a) /\ s \in auditRows /\ t \in auditRows /\ ~Failed(t)
    BY <1>1, SelectedAreRows DEF By, RunsEnded
<1>3. m \in Nat /\ n \in Nat
    BY CorrelationAssumption DEF Episodes
<1>. HIDE DEF s, t
<1>4. CASE s = t
    BY <1>4 DEF EarlierOrAt, s, t
<1>5. CASE s # t
    <2>. SUFFICES ASSUME Earlier(t, s) PROVE FALSE
        BY <1>2, <1>5, RowOrder DEF EarlierOrAt, s, t
    <2>1. EarlierOrAt(t, t)
        BY DEF EarlierOrAt
    <2>2. Episode(t) <= Episode(s) /\ Episode(t) # Episode(s)
        BY <1>2, <2>1, EpisodeGrows
    <2>. QED
        BY <1>1, <1>3, <2>2
<1>. QED
    BY <1>4, <1>5

\* What is reported of an account is its latest episode.
LEMMA LatestIsLast ==
    ASSUME CorrelationIInv, NEW a, Episodes(a) # {}
    PROVE  /\ Latest(a) \in Episodes(a)
           /\ \A m \in Episodes(a) : EarlierOrAt(SuccessOf(a, m), SuccessOf(a, Latest(a)))
<1>. DEFINE rest == {k \in Nat : \E n \in Episodes(a) : k + n = MaxRecords}
<1>1. MaxRecords \in Nat /\ Episodes(a) \subseteq 0..MaxRecords
    BY CorrelationAssumption DEF Episodes
<1>2. PICK n \in Episodes(a) : TRUE
    OBVIOUS
<1>3. MaxRecords - n \in rest
    BY <1>1, <1>2
<1>4. PICK k \in rest : \A l \in rest : k <= l
    <2>1. rest \in SUBSET Nat /\ rest # {}
        BY <1>3
    <2>. HIDE DEF rest
    <2>. QED
        BY <2>1, LeastOf
<1>5. PICK top \in Episodes(a) : k + top = MaxRecords
    BY <1>4
<1>6. ASSUME NEW m \in Episodes(a) PROVE m <= top
    <2>1. m \in Nat /\ m <= MaxRecords /\ top \in Nat /\ k \in Nat
        BY <1>1, <1>4
    <2>2. MaxRecords - m \in rest
        BY <1>1, <2>1
    <2>3. k <= MaxRecords - m
        BY <1>4, <2>2
    <2>. QED
        BY <1>1, <1>5, <2>1, <2>3
<1>7. \A m \in Episodes(a) : EarlierOrAt(SuccessOf(a, m), SuccessOf(a, top))
    BY <1>6, SuccessesInOrder
<1>. QED
    BY <1>7 DEF Latest

\* The accounts with an ended run, and the success each is reported with.
Key(a)   == SuccessOf(a, Latest(a))
Later(b) == {c \in Suspects : Earlier(Key(b), Key(c))}
Reported == {b \in Suspects : Cardinality(Later(b)) < Limit}

\* A suspect is reported with the last of its ended runs.
LEMMA KeyIsLast ==
    ASSUME CorrelationIInv, NEW a \in Suspects
    PROVE  /\ Key(a) \in By(RunsEnded, a) /\ Key(a) \in auditRows /\ Key(a).kind.actor = a
           /\ Cardinality({e \in InEpisode(a, Latest(a)) : Failed(e)}) = Cardinality(FailuresBefore(Key(a)))
           /\ \A s \in By(RunsEnded, a) : EarlierOrAt(s, Key(a))
<1>1. Latest(a) \in Episodes(a) /\ \A m \in Episodes(a) : EarlierOrAt(SuccessOf(a, m), Key(a))
    BY LatestIsLast DEF Suspects, Key
<1>2. Key(a) \in By(RunsEnded, a) /\ Episode(Key(a)) = Latest(a)
    BY <1>1, EpisodesEnd DEF Key
<1>3. /\ Key(a) \in auditRows /\ Key(a).kind.actor = a
      /\ Key(a) \in By(Signins, a) /\ ~Failed(Key(a))
    BY <1>2, SelectedAreRows DEF By, RunsEnded
<1>4. {e \in InEpisode(a, Latest(a)) : Failed(e)} = FailuresBefore(Key(a))
    BY <1>2, <1>3, RunIsEpisode
<1>5. \A s \in By(RunsEnded, a) : EarlierOrAt(s, Key(a))
    BY <1>1, EpisodesEnd
<1>. QED
    BY <1>2, <1>3, <1>4, <1>5

\* An account is a suspect if a run of its failures ended.
LEMMA SuspectsHaveRuns ==
    ASSUME CorrelationIInv
    PROVE  Suspects = Actors(RunsEnded)
<1>1. ASSUME NEW a \in Suspects PROVE a \in Actors(RunsEnded)
    <2>1. a # NoActor
        BY DEF Suspects, Actors
    <2>2. Key(a) \in RunsEnded /\ Key(a).kind.actor = a
        BY KeyIsLast DEF By
    <2>. QED
        BY <2>1, <2>2 DEF Actors
<1>2. ASSUME NEW a \in Actors(RunsEnded) PROVE a \in Suspects
    <2>1. PICK s \in RunsEnded : s.kind.actor = a /\ a # NoActor
        BY DEF Actors
    <2>2. s \in By(RunsEnded, a)
        BY <2>1 DEF By
    <2>3. Episodes(a) # {}
        BY <2>2, EpisodesEnd
    <2>4. a \in Actors(Signins)
        BY <2>1, SelectedAreRows DEF Actors
    <2>. QED
        BY <2>3, <2>4 DEF Suspects
<1>. QED
    BY <1>1, <1>2

\* The accounts of finitely many rows are finitely many.
LEMMA ActorsCount ==
    ASSUME NEW S, IsFiniteSet(S)
    PROVE  IsFiniteSet(Actors(S))
<1>. DEFINE f == [e \in S |-> e.kind.actor]
            T == {e.kind.actor : e \in S}
<1>1. f \in Surjection(S, T)
    BY DEF Surjection
<1>2. IsFiniteSet(T)
    <2>. HIDE DEF f, T
    <2>. QED
        BY <1>1, FS_Surjection
<1>3. Actors(S) \subseteq T
    BY DEF Actors
<1>. HIDE DEF T
<1>. QED
    BY <1>2, <1>3, PartCounts

\* The suspects are finitely many.
LEMMA SuspectsCount ==
    ASSUME CorrelationIInv
    PROVE  IsFiniteSet(Suspects)
<1>1. IsFiniteSet(Signins)
    <2>1. Signins \subseteq auditRows /\ IsFiniteSet(auditRows)
        BY SelectedAreRows DEF CorrelationIInv, RowsAreNumbered
    <2>. QED
        BY <2>1, PartCounts
<1>2. IsFiniteSet(Actors(Signins)) /\ Suspects \subseteq Actors(Signins)
    BY <1>1, ActorsCount DEF Suspects
<1>. QED
    BY <1>2, PartCounts

\* Of two suspects one is later, and the later has fewer after it.
LEMMA LaterCounts ==
    ASSUME CorrelationIInv, NEW b \in Suspects
    PROVE  /\ IsFiniteSet(Later(b)) /\ Cardinality(Later(b)) \in Nat
           /\ Cardinality(Later(b)) < Cardinality(Suspects)
           /\ \A c \in Suspects : c # b => Cardinality(Later(b)) # Cardinality(Later(c))
<1>1. \A c \in Suspects : Key(c) \in auditRows /\ Key(c).kind.actor = c
    BY KeyIsLast
<1>2. \A c, d \in Suspects : c # d => Earlier(Key(c), Key(d)) \/ Earlier(Key(d), Key(c))
    BY <1>1, RowOrder
<1>3. \A c \in Suspects : Later(c) \subseteq Suspects /\ c \notin Later(c)
    BY <1>1, RowOrder DEF Later
<1>4. \A c \in Suspects : /\ IsFiniteSet(Later(c)) /\ Cardinality(Later(c)) \in Nat
                          /\ Cardinality(Suspects) \in Nat
                          /\ Cardinality(Later(c)) < Cardinality(Suspects)
    <2>. TAKE c \in Suspects
    <2>1. /\ IsFiniteSet(Later(c)) /\ Cardinality(Later(c)) \in Nat /\ Cardinality(Suspects) \in Nat
          /\ Cardinality(Later(c)) <= Cardinality(Suspects)
          /\ Cardinality(Later(c)) = Cardinality(Suspects) => Later(c) = Suspects
        BY <1>3, SuspectsCount, PartCounts
    <2>. QED
        BY <1>3, <2>1
<1>5. ASSUME NEW c \in Suspects, NEW d \in Suspects, Earlier(Key(c), Key(d))
      PROVE  Cardinality(Later(d)) < Cardinality(Later(c))
    <2>1. Later(d) \subseteq Later(c)
        <3>. SUFFICES ASSUME NEW x \in Suspects, Earlier(Key(d), Key(x)) PROVE Earlier(Key(c), Key(x))
            BY DEF Later
        <3>. QED
            BY <1>1, <1>5, RowOrder
    <2>2. d \in Later(c) /\ d \notin Later(d)
        BY <1>3, <1>5 DEF Later
    <2>3. /\ Cardinality(Later(d)) <= Cardinality(Later(c))
          /\ Cardinality(Later(d)) = Cardinality(Later(c)) => Later(d) = Later(c)
        BY <1>4, <2>1, PartCounts
    <2>. QED
        BY <1>4, <2>2, <2>3
<1>6. ASSUME NEW c \in Suspects, c # b PROVE Cardinality(Later(b)) # Cardinality(Later(c))
    BY <1>2, <1>4, <1>5, <1>6
<1>. QED
    BY <1>4, <1>6

\* The findings of the query: one for each reported suspect, at most Limit.
LEMMA FindingsAreReported ==
    ASSUME CorrelationIInv
    PROVE  /\ \A x \in SuccessAfterFailures :
                 /\ x.actor \in Reported /\ x.success = Key(x.actor)
                 /\ x.failures = Cardinality(FailuresBefore(x.success))
           /\ \A a \in Reported : \E x \in SuccessAfterFailures : x.actor = a /\ x.success = Key(a)
           /\ \A x, y \in SuccessAfterFailures : x.actor = y.actor => x = y
           /\ Cardinality(SuccessAfterFailures) <= Limit
<1>. DEFINE Length(a)  == Cardinality({e \in InEpisode(a, Latest(a)) : Failed(e)})
            Finding(a) == [actor |-> a, failures |-> Length(a), success |-> Key(a)]
<1>1. SuccessAfterFailures = {Finding(a) : a \in Reported}
    BY DEF SuccessAfterFailures, Reported, Later, Key
<1>2. \A a \in Suspects : Length(a) = Cardinality(FailuresBefore(Key(a)))
    BY KeyIsLast
<1>. HIDE DEF Length
<1>3. \A a : Finding(a).actor = a /\ Finding(a).success = Key(a) /\ Finding(a).failures = Length(a)
    OBVIOUS
<1>. HIDE DEF Finding
<1>4. \A x \in SuccessAfterFailures : x.actor \in Reported /\ x = Finding(x.actor)
    BY <1>1, <1>3
<1>5. \A a \in Reported : Finding(a) \in SuccessAfterFailures /\ Finding(a).actor = a /\ Finding(a).success = Key(a)
    BY <1>1, <1>3
<1>6. ASSUME NEW x \in SuccessAfterFailures
      PROVE  x.success = Key(x.actor) /\ x.failures = Cardinality(FailuresBefore(x.success))
    <2>1. x.actor \in Suspects
        BY <1>4 DEF Reported
    <2>2. x.success = Key(x.actor) /\ x.failures = Length(x.actor)
        BY <1>4, <1>3
    <2>. QED
        BY <1>2, <2>1, <2>2
<1>7. \A x, y \in SuccessAfterFailures : x.actor = y.actor => x = y
    BY <1>4
<1>8. Cardinality(SuccessAfterFailures) <= Limit
    <2>. DEFINE T == 0..(Limit - 1)
                f == [x \in SuccessAfterFailures |-> Cardinality(Later(x.actor))]
    <2>1. Limit \in Nat /\ Limit >= 1
        BY CorrelationAssumption
    <2>2. \A x \in SuccessAfterFailures :
              x.actor \in Suspects /\ Cardinality(Later(x.actor)) \in T
        <3>1. \A b \in Reported : b \in Suspects /\ Cardinality(Later(b)) < Limit
            BY DEF Reported
        <3>2. \A b \in Suspects : Cardinality(Later(b)) \in Nat
            BY LaterCounts
        <3>3. \A b \in Reported : b \in Suspects /\ Cardinality(Later(b)) \in T
            BY <2>1, <3>1, <3>2
        <3>. QED
            BY <1>4, <3>3
    <2>3. \A x, y \in SuccessAfterFailures :
              Cardinality(Later(x.actor)) = Cardinality(Later(y.actor)) => x = y
        <3>1. \A b, c \in Suspects : c # b => Cardinality(Later(b)) # Cardinality(Later(c))
            BY LaterCounts
        <3>. QED
            BY <1>7, <2>2, <3>1
    <2>4. f \in Injection(SuccessAfterFailures, T)
        BY <2>2, <2>3 DEF Injection, IsInjective
    <2>5. IsFiniteSet(T) /\ Cardinality(T) = Limit
        BY <2>1, FS_Interval
    <2>. HIDE DEF f, T
    <2>. QED
        BY <2>4, <2>5, FS_Injection
<1>. QED
    BY <1>4, <1>5, <1>6, <1>7, <1>8

\* The findings are the runs of failures that a success ended.
LEMMA EpisodesMatchRuns ==
    ASSUME CorrelationIInv
    PROVE  EpisodesMatch
<1>1. ASSUME NEW x \in SuccessAfterFailures
      PROVE  /\ x.success \in RunsEnded /\ x.success.kind.actor = x.actor
             /\ x.failures = Cardinality(FailuresBefore(x.success))
             /\ \A s \in By(RunsEnded, x.actor) : EarlierOrAt(s, x.success)
    <2>1. x.actor \in Suspects /\ x.success = Key(x.actor)
        BY FindingsAreReported DEF Reported
    <2>2. x.failures = Cardinality(FailuresBefore(x.success))
        BY FindingsAreReported
    <2>. QED
        BY <2>1, <2>2, KeyIsLast DEF By
<1>2. ASSUME Cardinality(Actors(RunsEnded)) <= Limit
      PROVE  Actors(RunsEnded) = {x.actor : x \in SuccessAfterFailures}
    <2>1. ASSUME NEW a \in Suspects PROVE a \in Reported
        <3>1. /\ Cardinality(Later(a)) \in Nat /\ Cardinality(Later(a)) < Cardinality(Suspects)
            BY LaterCounts
        <3>2. Cardinality(Suspects) \in Nat /\ Cardinality(Suspects) <= Limit /\ Limit \in Nat
            BY <1>2, SuspectsHaveRuns, SuspectsCount, FS_CardinalityType, CorrelationAssumption
        <3>. QED
            BY <3>1, <3>2 DEF Reported
    <2>2. \A a \in Suspects : \E x \in SuccessAfterFailures : x.actor = a
        BY <2>1, FindingsAreReported
    <2>3. \A x \in SuccessAfterFailures : x.actor \in Suspects
        BY FindingsAreReported DEF Reported
    <2>. QED
        BY <2>2, <2>3, SuspectsHaveRuns
<1>3. Cardinality(SuccessAfterFailures) <= Limit
    BY FindingsAreReported
<1>. QED
    BY <1>1, <1>2, <1>3 DEF EpisodesMatch

-----------------------------------------------------------------------------
(* Guessing at one account.                                                *)

\* The rows selected are finitely many.
LEMMA SelectedCount ==
    ASSUME CorrelationIInv
    PROVE  IsFiniteSet(InWindow) /\ IsFiniteSet(FailedLogins) /\ IsFiniteSet(Signins)
<1>1. InWindow \subseteq auditRows /\ FailedLogins \subseteq auditRows /\ Signins \subseteq auditRows
    BY SelectedAreRows
<1>2. IsFiniteSet(auditRows)
    BY DEF CorrelationIInv, RowsAreNumbered
<1>. QED
    BY <1>1, <1>2, PartCounts

\* The failed logins of an address up to a row: its rank among them.
UpTo(e) == {f \in From(FailedLogins, e.kind.ip) : EarlierOrAt(f, e)}

\* The failed logins of one address have different ranks.
LEMMA RanksDiffer ==
    ASSUME CorrelationIInv, NEW e \in FailedLogins
    PROVE  /\ IsFiniteSet(From(FailedLogins, e.kind.ip))
           /\ Cardinality(UpTo(e)) \in 1..Cardinality(From(FailedLogins, e.kind.ip))
           /\ \A f \in FailedLogins : f # e /\ f.kind.ip = e.kind.ip => Cardinality(UpTo(f)) # Cardinality(UpTo(e))
<1>1. FailedLogins \subseteq auditRows
    BY SelectedAreRows
<1>2. \A f \in FailedLogins : f \in UpTo(f) /\ UpTo(f) \subseteq From(FailedLogins, f.kind.ip)
    BY DEF UpTo, From, EarlierOrAt
<1>3. \A f \in FailedLogins : IsFiniteSet(From(FailedLogins, f.kind.ip))
    <2>. TAKE f \in FailedLogins
    <2>1. From(FailedLogins, f.kind.ip) \subseteq FailedLogins
        BY DEF From
    <2>. QED
        BY <2>1, SelectedCount, PartCounts
<1>4. \A f \in FailedLogins : IsFiniteSet(UpTo(f)) /\ Cardinality(UpTo(f)) \in Nat
                              /\ Cardinality(UpTo(f)) <= Cardinality(From(FailedLogins, f.kind.ip))
                              /\ Cardinality(From(FailedLogins, f.kind.ip)) \in Nat
    BY <1>2, <1>3, PartCounts
<1>5. Cardinality(UpTo(e)) # 0
    BY <1>2, <1>4, FS_EmptySet
<1>6. ASSUME NEW f \in FailedLogins, NEW g \in FailedLogins, f.kind.ip = g.kind.ip, Earlier(f, g)
      PROVE  Cardinality(UpTo(f)) < Cardinality(UpTo(g))
    <2>1. UpTo(f) \subseteq UpTo(g)
        <3>. SUFFICES ASSUME NEW h \in From(FailedLogins, f.kind.ip), EarlierOrAt(h, f)
                      PROVE  h \in From(FailedLogins, g.kind.ip) /\ EarlierOrAt(h, g)
            BY DEF UpTo
        <3>1. h \in auditRows /\ f \in auditRows /\ g \in auditRows
            BY <1>1 DEF From
        <3>. QED
            BY <1>6, <3>1, RowOrder DEF EarlierOrAt
    <2>2. g \in UpTo(g) /\ g \notin UpTo(f)
        <3>1. g # f /\ ~Earlier(g, f)
            BY <1>1, <1>6, RowOrder
        <3>. QED
            BY <1>2, <3>1 DEF UpTo, EarlierOrAt
    <2>3. /\ Cardinality(UpTo(f)) <= Cardinality(UpTo(g))
          /\ Cardinality(UpTo(f)) = Cardinality(UpTo(g)) => UpTo(f) = UpTo(g)
        BY <1>4, <2>1, PartCounts
    <2>. QED
        BY <1>4, <2>2, <2>3
<1>7. ASSUME NEW f \in FailedLogins, f # e, f.kind.ip = e.kind.ip
      PROVE  Cardinality(UpTo(f)) # Cardinality(UpTo(e))
    <2>1. Earlier(f, e) \/ Earlier(e, f)
        BY <1>1, <1>7, RowOrder
    <2>. QED
        BY <1>4, <1>6, <1>7, <2>1
<1>8. IsFiniteSet(From(FailedLogins, e.kind.ip))
    BY <1>3
<1>9. Cardinality(UpTo(e)) \in 1..Cardinality(From(FailedLogins, e.kind.ip))
    BY <1>4, <1>5
<1>. QED
    BY <1>7, <1>8, <1>9

\* k rows over at most m boxes of fewer than q each, with m below p, are fewer than q * p.
LEMMA Crowded ==
    ASSUME NEW k \in Nat, NEW m \in Nat, NEW p \in Nat, NEW q \in Nat,
           p >= 1, q >= 1, m <= p, k <= m * (q - 1)
    PROVE  k < q * p
<1>1. m * (q - 1) <= p * (q - 1)
    <2>1. (p - m) * (q - 1) >= 0
        <3>1. p - m \in Nat /\ q - 1 \in Nat
            OBVIOUS
        <3>. QED
            BY <3>1
    <2>. QED
        BY <2>1
<1>2. p * (q - 1) = q * p - p
    OBVIOUS
<1>. QED
    BY <1>1, <1>2

\* Without an address that fails often there are at most Failures - 1 rows of each.
LEMMA FewOfEach ==
    ASSUME CorrelationIInv, NEW a, \A e \in Attempts(a) : e.kind.ip \notin BruteForce
    PROVE  /\ IsFiniteSet(Ips(Attempts(a))) /\ Cardinality(Ips(Attempts(a))) \in Nat
           /\ Cardinality(Attempts(a)) \in Nat
           /\ Cardinality(Attempts(a)) <= Cardinality(Ips(Attempts(a))) * (Failures - 1)
<1>. DEFINE A == Attempts(a)
            I == Ips(A)
            R == 1..(Failures - 1)
            f == [e \in A |-> <<e.kind.ip, Cardinality(UpTo(e))>>]
            g == [e \in A |-> e.kind.ip]
<1>1. A \subseteq FailedLogins /\ IsFiniteSet(A)
    <2>1. A \subseteq FailedLogins
        BY DEF Attempts, By
    <2>. QED
        BY <2>1, SelectedCount, PartCounts
<1>2. Failures \in Nat /\ Failures >= 1
    BY CorrelationAssumption
<1>3. ASSUME NEW e \in A PROVE e.kind.ip \in I /\ Cardinality(UpTo(e)) \in R
    <2>1. e.kind.ip \in I /\ e \in FailedLogins
        BY <1>1 DEF Ips
    <2>2. e.kind.ip \in Ips(FailedLogins)
        BY <2>1 DEF Ips
    <2>3. ~(Cardinality(From(FailedLogins, e.kind.ip)) >= Failures)
        BY <2>2 DEF BruteForce
    <2>4. IsFiniteSet(From(FailedLogins, e.kind.ip)) /\ Cardinality(UpTo(e)) \in 1..Cardinality(From(FailedLogins, e.kind.ip))
        BY <2>1, RanksDiffer
    <2>5. Cardinality(From(FailedLogins, e.kind.ip)) \in Nat
        BY <2>4, FS_CardinalityType
    <2>. QED
        BY <1>2, <2>1, <2>3, <2>4, <2>5
<1>4. g \in Surjection(A, I)
    BY DEF Surjection, Ips
<1>5. IsFiniteSet(I) /\ Cardinality(I) \in Nat /\ Cardinality(A) \in Nat
    <2>. HIDE DEF g, I, A
    <2>. QED
        BY <1>1, <1>4, FS_Surjection, FS_CardinalityType
<1>6. \A e, h \in A : e.kind.ip = h.kind.ip /\ Cardinality(UpTo(e)) = Cardinality(UpTo(h)) => e = h
    BY <1>1, RanksDiffer
<1>7. f \in Injection(A, I \X R)
    <2>. HIDE DEF A, I, R
    <2>. QED
        BY <1>3, <1>6 DEF Injection, IsInjective
<1>8. IsFiniteSet(R) /\ Cardinality(R) = Failures - 1
    BY <1>2, FS_Interval
<1>9. IsFiniteSet(I \X R) /\ Cardinality(I \X R) = Cardinality(I) * Cardinality(R)
    <2>. HIDE DEF A, I, R
    <2>. QED
        BY <1>5, <1>8, FS_Product
<1>10. Cardinality(A) <= Cardinality(I \X R)
    <2>. HIDE DEF A, I, R, f
    <2>. QED
        BY <1>7, <1>9, FS_Injection
<1>. HIDE DEF A, I, R
<1>11. Cardinality(A) <= Cardinality(I) * (Failures - 1)
    BY <1>8, <1>9, <1>10
<1>. QED
    BY <1>5, <1>11 DEF A, I

\* Guessing at one account is seen, in any rows that are numbered by id.
LEMMA GuessingShows ==
    ASSUME CorrelationIInv
    PROVE  GuessingIsSeen
<1>. SUFFICES ASSUME NEW a \in Actors(FailedLogins),
                     Cardinality(Attempts(a)) >= Failures * (Sources - 1),
                     \A e \in Attempts(a) : e.kind.ip \notin BruteForce,
                     ~(Cardinality({b \in Spread : Ahead(b, a)}) >= Limit)
              PROVE  a \in Distributed
    BY DEF GuessingIsSeen
<1>1. /\ Failures \in Nat /\ Failures >= 1 /\ Sources \in Nat /\ Sources >= 2 /\ Limit \in Nat
    BY CorrelationAssumption
<1>2. /\ Cardinality(Ips(Attempts(a))) \in Nat /\ Cardinality(Attempts(a)) \in Nat
      /\ Cardinality(Attempts(a)) <= Cardinality(Ips(Attempts(a))) * (Failures - 1)
    BY FewOfEach
<1>3. Cardinality(Ips(Attempts(a))) >= Sources
    <2>. SUFFICES ASSUME Cardinality(Ips(Attempts(a))) <= Sources - 1 PROVE FALSE
        BY <1>1, <1>2
    <2>1. Sources - 1 \in Nat /\ Sources - 1 >= 1
        BY <1>1
    <2>2. Cardinality(Attempts(a)) < Failures * (Sources - 1)
        BY <1>1, <1>2, <2>1, Crowded
    <2>3. Failures * (Sources - 1) \in Nat
        BY <1>1, <2>1
    <2>. QED
        BY <1>2, <2>2, <2>3
<1>4. Cardinality(Attempts(a)) >= Failures
    <2>1. Failures * (Sources - 1) >= Failures
        <3>1. Sources - 2 \in Nat
            BY <1>1
        <3>2. Failures * (Sources - 2) >= 0
            BY <1>1, <3>1
        <3>3. Failures * (Sources - 1) = Failures * (Sources - 2) + Failures
            BY <1>1
        <3>. QED
            BY <1>1, <3>1, <3>2, <3>3
    <2>. QED
        BY <1>1, <1>2, <2>1
<1>5. a \in Spread
    BY <1>3, <1>4 DEF Spread
<1>6. Cardinality({b \in Spread : Ahead(b, a)}) \in Nat
    <2>1. IsFiniteSet(Actors(FailedLogins))
        BY SelectedCount, ActorsCount
    <2>2. {b \in Spread : Ahead(b, a)} \subseteq Actors(FailedLogins)
        BY DEF Spread
    <2>. QED
        BY <2>1, <2>2, PartCounts
<1>. QED
    BY <1>1, <1>5, <1>6 DEF Distributed

-----------------------------------------------------------------------------
(* Steps.                                                                  *)

\* An empty table satisfies the invariant.
LEMMA CorrelationInitSound == ASSUME CorrelationInit PROVE CorrelationIInv
<1>1. IsFiniteSet({}) /\ Cardinality({}) = 0
    BY FS_EmptySet
<1>2. MaxRecords \in Nat /\ MaxMinute \in Nat
    BY CorrelationAssumption
<1>. QED
    BY <1>1, <1>2 DEF CorrelationInit, CorrelationIInv, CorrelationTypeOK, RowsAreNumbered

\* A new row has the next id.
LEMMA RecordKeeps ==
    ASSUME CorrelationIInv, NEW kind \in Kinds, NEW at \in 0..MaxMinute, RecordRow(kind, at)
    PROVE  CorrelationIInv'
<1>. DEFINE size == Cardinality(auditRows)
            row  == [id |-> size + 1, at |-> at, kind |-> kind]
<1>1. /\ auditRows' = auditRows \cup {row} /\ auditNow' = auditNow /\ size < MaxRecords
    BY DEF RecordRow
<1>2. /\ IsFiniteSet(auditRows) /\ \A e \in auditRows : e.id <= size
      /\ \A e, f \in auditRows : e.id = f.id => e = f
    BY DEF CorrelationIInv, RowsAreNumbered
<1>3. /\ auditNow \in 0..MaxMinute
      /\ \A e \in auditRows : e.id \in 1..MaxRecords /\ e.at \in 0..MaxMinute /\ e.kind \in Kinds
    BY DEF CorrelationIInv, CorrelationTypeOK
<1>4. size \in Nat /\ MaxRecords \in Nat
    BY <1>2, FS_CardinalityType, CorrelationAssumption
<1>. HIDE DEF size
<1>5. row.id = size + 1 /\ row.at = at /\ row.kind = kind
    OBVIOUS
<1>. HIDE DEF row
<1>6. row \notin auditRows
    BY <1>2, <1>4, <1>5
<1>7. IsFiniteSet(auditRows') /\ Cardinality(auditRows') = size + 1
    BY <1>1, <1>2, <1>6, FS_AddElement DEF size
<1>8. CorrelationTypeOK'
    BY <1>1, <1>3, <1>4, <1>5 DEF CorrelationTypeOK
<1>9. \A e \in auditRows' : e.id <= size + 1
    BY <1>1, <1>2, <1>3, <1>4, <1>5
<1>10. \A e, f \in auditRows' : e.id = f.id => e = f
    <2>1. \A e \in auditRows : e.id # row.id
        BY <1>2, <1>3, <1>4, <1>5
    <2>. QED
        BY <1>1, <1>2, <2>1
<1>11. RowsAreNumbered'
    BY <1>1, <1>4, <1>7, <1>9, <1>10 DEF RowsAreNumbered
<1>. QED
    BY <1>8, <1>11 DEF CorrelationIInv

\* A minute that passes keeps the rows.
LEMMA WindowKeeps ==
    ASSUME CorrelationIInv, WindowMoves
    PROVE  CorrelationIInv'
<1>1. auditRows' = auditRows /\ auditNow' = auditNow + 1 /\ auditNow < MaxMinute
    BY DEF WindowMoves
<1>2. auditNow' \in 0..MaxMinute
    BY <1>1, CorrelationAssumption DEF CorrelationIInv, CorrelationTypeOK
<1>3. CorrelationTypeOK'
    BY <1>1, <1>2 DEF CorrelationIInv, CorrelationTypeOK
<1>4. RowsAreNumbered'
    BY <1>1 DEF CorrelationIInv, RowsAreNumbered
<1>. QED
    BY <1>3, <1>4 DEF CorrelationIInv

\* What is selected stays selected while rows are added.
LEMMA SelectionsGrow ==
    ASSUME auditNow' = auditNow, auditRows \subseteq auditRows'
    PROVE  /\ InWindow \subseteq InWindow' /\ FailedLogins \subseteq FailedLogins' /\ Signins \subseteq Signins'
           /\ Denied \subseteq Denied'
           /\ \A a : By(Signins, a) \subseteq By(Signins', a)
           /\ \A a : Attempts(a) \subseteq Attempts(a)'
<1>1. InWindow \subseteq InWindow'
    BY DEF InWindow
<1>2. FailedLogins \subseteq FailedLogins' /\ Signins \subseteq Signins' /\ Denied \subseteq Denied'
    BY <1>1 DEF FailedLogins, Signins, Denied
<1>3. \A a : By(Signins, a) \subseteq By(Signins', a)
    BY <1>2 DEF By
<1>4. \A a : Attempts(a) \subseteq Attempts(a)'
    BY <1>2 DEF Attempts, By
<1>. QED
    BY <1>1, <1>2, <1>3, <1>4

\* Findings of counts stay while rows are added.
LEMMA CountsStay ==
    ASSUME CorrelationIInv', auditNow' = auditNow, auditRows \subseteq auditRows'
    PROVE  /\ BruteForce \subseteq BruteForce' /\ Spray \subseteq Spray'
           /\ IdorProbe \subseteq IdorProbe' /\ (MfaBruteForce => MfaBruteForce')
           /\ AttackPattern \subseteq AttackPattern' /\ Spread \subseteq Spread'
<1>1. /\ IsFiniteSet(InWindow') /\ FailedLogins' \subseteq InWindow' /\ Denied' \subseteq InWindow'
      /\ IsFiniteSet(FailedLogins')
    <2>1. InWindow' \subseteq auditRows' /\ IsFiniteSet(auditRows')
        BY DEF CorrelationIInv, RowsAreNumbered, InWindow
    <2>2. FailedLogins' \subseteq InWindow' /\ Denied' \subseteq InWindow'
        BY DEF FailedLogins, Denied
    <2>3. IsFiniteSet(InWindow')
        BY <2>1, PartCounts
    <2>. QED
        BY <2>2, <2>3, PartCounts
<1>2. /\ FailedLogins \subseteq FailedLogins' /\ InWindow \subseteq InWindow' /\ Denied \subseteq Denied'
      /\ \A a : Attempts(a) \subseteq Attempts(a)'
    BY SelectionsGrow
<1>3. ASSUME NEW S, NEW T, S \subseteq T, T \subseteq InWindow'
      PROVE  /\ Cardinality(S) \in Nat /\ Cardinality(T) \in Nat /\ Cardinality(S) <= Cardinality(T)
             /\ IsFiniteSet(T)
    <2>1. IsFiniteSet(T)
        BY <1>1, <1>3, PartCounts
    <2>. QED
        BY <1>3, <2>1, PartCounts
<1>4. {Failures, Accounts, Denials, Sources} \subseteq Nat
    BY CorrelationAssumption
<1>5. BruteForce \subseteq BruteForce'
    <2>. SUFFICES ASSUME NEW ip \in BruteForce PROVE ip \in BruteForce'
        OBVIOUS
    <2>1. ip \in Ips(FailedLogins) /\ Cardinality(From(FailedLogins, ip)) >= Failures
        BY DEF BruteForce
    <2>2. ip \in Ips(FailedLogins')
        BY <1>2, <2>1 DEF Ips
    <2>3. From(FailedLogins, ip) \subseteq From(FailedLogins', ip) /\ From(FailedLogins', ip) \subseteq InWindow'
        BY <1>1, <1>2 DEF From
    <2>4. Cardinality(From(FailedLogins', ip)) >= Failures
        BY <1>3, <1>4, <2>1, <2>3
    <2>. QED
        BY <2>2, <2>4 DEF BruteForce
<1>6. Spray \subseteq Spray'
    <2>. SUFFICES ASSUME NEW ip \in Spray PROVE ip \in Spray'
        OBVIOUS
    <2>1. ip \in Ips(FailedLogins) /\ Cardinality(Actors(From(FailedLogins, ip))) >= Accounts
        BY DEF Spray
    <2>2. ip \in Ips(FailedLogins')
        BY <1>2, <2>1 DEF Ips
    <2>3. IsFiniteSet(From(FailedLogins', ip))
        <3>1. From(FailedLogins', ip) \subseteq InWindow'
            BY <1>1 DEF From
        <3>. QED
            BY <1>3, <3>1
    <2>4. IsFiniteSet(Actors(From(FailedLogins', ip)))
        BY <2>3, ActorsCount
    <2>5. Actors(From(FailedLogins, ip)) \subseteq Actors(From(FailedLogins', ip))
        BY <1>2 DEF From, Actors
    <2>6. /\ Cardinality(Actors(From(FailedLogins, ip))) \in Nat /\ Cardinality(Actors(From(FailedLogins', ip))) \in Nat
          /\ Cardinality(Actors(From(FailedLogins, ip))) <= Cardinality(Actors(From(FailedLogins', ip)))
        BY <2>4, <2>5, PartCounts
    <2>7. Cardinality(Actors(From(FailedLogins', ip))) >= Accounts
        BY <1>4, <2>1, <2>6
    <2>. QED
        BY <2>2, <2>7 DEF Spray
<1>7. IdorProbe \subseteq IdorProbe'
    <2>. SUFFICES ASSUME NEW a \in IdorProbe PROVE a \in IdorProbe'
        OBVIOUS
    <2>1. a \in {e.kind.actor : e \in Denied} /\ Cardinality(By(Denied, a)) >= Denials
        BY DEF IdorProbe
    <2>2. a \in {e.kind.actor : e \in Denied'}
        BY <1>2, <2>1
    <2>3. By(Denied, a) \subseteq By(Denied', a) /\ By(Denied', a) \subseteq InWindow'
        BY <1>1, <1>2 DEF By
    <2>4. Cardinality(By(Denied', a)) >= Denials
        BY <1>3, <1>4, <2>1, <2>3
    <2>. QED
        BY <2>2, <2>4 DEF IdorProbe
<1>8. MfaBruteForce => MfaBruteForce'
    <2>. DEFINE M(W) == {e \in W : e.kind.type = "mfa" /\ Failed(e)}
    <2>1. M(InWindow) \subseteq M(InWindow') /\ M(InWindow') \subseteq InWindow'
        BY <1>2
    <2>. HIDE DEF M
    <2>2. Cardinality(M(InWindow)) >= Failures => Cardinality(M(InWindow')) >= Failures
        BY <1>3, <1>4, <2>1
    <2>3. /\ MfaBruteForce = (Cardinality(M(InWindow)) >= Failures)
          /\ MfaBruteForce' = (Cardinality(M(InWindow')) >= Failures)
        BY DEF MfaBruteForce, M
    <2>. QED
        BY <2>2, <2>3
<1>9. AttackPattern \subseteq AttackPattern'
    BY <1>2 DEF AttackPattern, Ips
<1>10. Spread \subseteq Spread'
    <2>. SUFFICES ASSUME NEW a \in Spread PROVE a \in Spread'
        OBVIOUS
    <2>1. /\ a \in Actors(FailedLogins) /\ Cardinality(Attempts(a)) >= Failures
          /\ Cardinality(Ips(Attempts(a))) >= Sources
        BY DEF Spread
    <2>2. a \in Actors(FailedLogins')
        BY <1>2, <2>1 DEF Actors
    <2>. DEFINE A == Attempts(a)
                B == Attempts(a)'
                g == [e \in B |-> e.kind.ip]
    <2>3. A \subseteq B /\ B \subseteq InWindow'
        BY <1>1, <1>2 DEF Attempts, By
    <2>4. Cardinality(B) >= Failures /\ IsFiniteSet(B)
        <3>. HIDE DEF A, B
        <3>1. Cardinality(A) >= Failures
            BY <2>1 DEF A
        <3>. QED
            BY <1>3, <1>4, <2>3, <3>1
    <2>5. Cardinality(Ips(B)) >= Sources
        <3>1. g \in Surjection(B, Ips(B))
            BY DEF Surjection, Ips
        <3>2. Ips(A) \subseteq Ips(B)
            BY <2>3 DEF Ips
        <3>3. Cardinality(Ips(A)) >= Sources
            BY <2>1
        <3>. HIDE DEF A, B, g
        <3>4. IsFiniteSet(Ips(B))
            BY <2>4, <3>1, FS_Surjection
        <3>5. /\ Cardinality(Ips(A)) \in Nat /\ Cardinality(Ips(B)) \in Nat
              /\ Cardinality(Ips(A)) <= Cardinality(Ips(B))
            BY <3>2, <3>4, PartCounts
        <3>. QED
            BY <1>4, <3>3, <3>5
    <2>. QED
        BY <2>2, <2>4, <2>5 DEF Spread
<1>. QED
    BY <1>5, <1>6, <1>7, <1>8, <1>9, <1>10

\* What is reported of an account that is guessed at stays while there is room.
LEMMA GuessingStays ==
    ASSUME CorrelationIInv', auditNow' = auditNow, auditRows \subseteq auditRows',
           Cardinality(Spread') <= Limit
    PROVE  Distributed \subseteq Distributed'
<1>. SUFFICES ASSUME NEW a \in Distributed PROVE a \in Distributed'
    OBVIOUS
<1>. DEFINE ahead == {b \in Spread' : Ahead(b, a)'}
<1>1. a \in Spread'
    BY CountsStay DEF Distributed
<1>2. IsFiniteSet(Spread')
    <2>1. FailedLogins' \subseteq auditRows' /\ IsFiniteSet(auditRows')
        BY DEF CorrelationIInv, RowsAreNumbered, InWindow, FailedLogins
    <2>2. IsFiniteSet(Actors(FailedLogins'))
        BY <2>1, PartCounts, ActorsCount
    <2>3. Spread' \subseteq Actors(FailedLogins')
        BY DEF Spread
    <2>. QED
        BY <2>2, <2>3, PartCounts
<1>3. Cardinality(Attempts(a)') \in Nat
    <2>1. Attempts(a)' \subseteq auditRows' /\ IsFiniteSet(auditRows')
        BY DEF CorrelationIInv, RowsAreNumbered, InWindow, FailedLogins, Attempts, By
    <2>. QED
        BY <2>1, PartCounts
<1>4. a \in Nat
    <2>1. PICK e \in FailedLogins' : a = e.kind.actor
        BY <1>1 DEF Spread, Actors
    <2>2. e \in auditRows'
        BY <2>1 DEF FailedLogins, InWindow
    <2>. QED
        BY <2>1, <2>2, CorrelationAssumption DEF CorrelationIInv, CorrelationTypeOK
<1>5. ahead \subseteq Spread' /\ a \notin ahead
    <2>1. ~Ahead(a, a)'
        BY <1>3, <1>4 DEF Ahead
    <2>. QED
        BY <2>1
<1>. HIDE DEF ahead
<1>6. /\ Cardinality(ahead) \in Nat /\ Cardinality(Spread') \in Nat /\ Cardinality(ahead) <= Cardinality(Spread')
      /\ Cardinality(ahead) = Cardinality(Spread') => ahead = Spread'
    BY <1>2, <1>5, PartCounts
<1>7. Cardinality(ahead) < Limit
    BY <1>1, <1>5, <1>6, CorrelationAssumption
<1>8. Distributed' = {c \in Spread' : Cardinality({b \in Spread' : Ahead(b, c)'}) < Limit}
    BY DEF Distributed
<1>. QED
    BY <1>1, <1>7, <1>8 DEF ahead

\* A run that ended is one still, if what is recorded lies after its success.
LEMMA RunStays ==
    ASSUME CorrelationIInv', auditNow' = auditNow, auditRows \subseteq auditRows',
           NEW s \in RunsEnded, \A e \in auditRows' \ auditRows : Earlier(s, e)
    PROVE  s \in RunsEnded'
<1>1. s \in Signins /\ ~Failed(s) /\ Cardinality(FailuresBefore(s)) >= Failures
    BY DEF RunsEnded
<1>2. s \in Signins' /\ s \in auditRows'
    BY <1>1, SelectionsGrow DEF Signins, InWindow
<1>3. \A e \in auditRows' : e.id \in Nat /\ e.at \in Nat
    BY CorrelationAssumption DEF CorrelationIInv, CorrelationTypeOK
<1>4. \A e \in auditRows' \ auditRows : ~Earlier(e, s)
    BY <1>2, <1>3 DEF Earlier
<1>5. ASSUME NEW t \in Signins', Earlier(t, s) PROVE t \in Signins
    <2>1. t \in auditRows
        BY <1>4, <1>5 DEF Signins, InWindow
    <2>. QED
        BY <2>1 DEF Signins, InWindow
<1>6. FailuresBefore(s) \subseteq FailuresBefore(s)'
    <2>. DEFINE a == s.kind.actor
    <2>. SUFFICES ASSUME NEW f \in FailuresBefore(s) PROVE f \in FailuresBefore(s)'
        OBVIOUS
    <2>1. /\ f \in By(Signins, a) /\ Failed(f) /\ Earlier(f, s)
          /\ ~\E t \in By(Signins, a) : ~Failed(t) /\ Earlier(f, t) /\ Earlier(t, s)
        BY DEF FailuresBefore
    <2>2. f \in By(Signins', a)
        BY <2>1, SelectionsGrow
    <2>3. ~\E t \in By(Signins', a) : ~Failed(t) /\ Earlier(f, t) /\ Earlier(t, s)
        BY <1>5, <2>1 DEF By
    <2>. QED
        BY <2>1, <2>2, <2>3 DEF FailuresBefore
<1>7. IsFiniteSet(FailuresBefore(s)')
    <2>1. FailuresBefore(s)' \subseteq auditRows' /\ IsFiniteSet(auditRows')
        BY DEF CorrelationIInv, RowsAreNumbered, FailuresBefore, By, Signins, InWindow
    <2>. QED
        BY <2>1, PartCounts
<1>8. Cardinality(FailuresBefore(s)') >= Failures
    <2>1. /\ Cardinality(FailuresBefore(s)) \in Nat /\ Cardinality(FailuresBefore(s)') \in Nat
          /\ Cardinality(FailuresBefore(s)) <= Cardinality(FailuresBefore(s)')
        BY <1>6, <1>7, PartCounts
    <2>. QED
        BY <1>1, <2>1, CorrelationAssumption
<1>. QED
    BY <1>1, <1>2, <1>8 DEF RunsEnded

\* An account with an ended run had a row before the last one was recorded.
LEMMA RunsAreOfTwoRows ==
    ASSUME CorrelationIInv', auditNow' = auditNow, NEW row, auditRows' = auditRows \cup {row}
    PROVE  Actors(RunsEnded') \subseteq Actors(Signins)
<1>. SUFFICES ASSUME NEW a \in Actors(RunsEnded') PROVE a \in Actors(Signins)
    OBVIOUS
<1>1. PICK s \in RunsEnded' : s.kind.actor = a /\ a # NoActor
    BY DEF Actors
<1>2. s \in Signins' /\ ~Failed(s) /\ Cardinality(FailuresBefore(s)') >= Failures
    BY <1>1 DEF RunsEnded
<1>3. PICK f \in FailuresBefore(s)' : TRUE
    <2>1. FailuresBefore(s)' # {}
        <3>. SUFFICES ASSUME FailuresBefore(s)' = {} PROVE FALSE
            OBVIOUS
        <3>1. Cardinality(FailuresBefore(s)') = 0
            BY FS_EmptySet
        <3>. QED
            BY <1>2, <3>1, CorrelationAssumption
    <2>. QED
        BY <2>1
<1>4. f \in Signins' /\ f.kind.actor = a /\ f # s
    BY <1>1, <1>2, <1>3 DEF FailuresBefore, By
<1>5. PICK e \in Signins' : e.kind.actor = a /\ e # row
    BY <1>1, <1>2, <1>4
<1>6. e \in auditRows /\ e \in Signins
    BY <1>5 DEF Signins, InWindow
<1>. QED
    BY <1>1, <1>5, <1>6 DEF Actors

\* The findings after a step are the runs there are then.
LEMMA EpisodesMatchAfter ==
    ASSUME CorrelationIInv' PROVE EpisodesMatch'
BY EpisodesMatchRuns, PTL

\* Nothing that is recorded buries a finding.
LEMMA RecordBuriesNothing ==
    ASSUME CorrelationIInv, NEW kind \in Kinds, NEW at \in 0..MaxMinute, RecordRow(kind, at)
    PROVE  Buried
<1>. DEFINE row == [id |-> Cardinality(auditRows) + 1, at |-> at, kind |-> kind]
<1>1. auditRows' = auditRows \cup {row} /\ auditNow' = auditNow
    BY DEF RecordRow
<1>. HIDE DEF row
<1>2. CorrelationIInv' /\ auditRows \subseteq auditRows'
    BY <1>1, RecordKeeps
<1>3. ASSUME NEW x \in SuccessAfterFailures, Cardinality(Actors(Signins)) <= Limit,
             \A e \in auditRows' \ auditRows : Earlier(x.success, e)
      PROVE  \E y \in SuccessAfterFailures' : y.actor = x.actor /\ EarlierOrAt(x.success, y.success)
    <2>1. x.success \in RunsEnded /\ x.success.kind.actor = x.actor
        BY EpisodesMatchRuns DEF EpisodesMatch
    <2>2. x.success \in RunsEnded'
        BY <1>1, <1>2, <1>3, <2>1, RunStays
    <2>3. Actors(RunsEnded') \subseteq Actors(Signins)
        BY <1>1, <1>2, RunsAreOfTwoRows
    <2>4. Cardinality(Actors(RunsEnded')) <= Limit
        <3>1. IsFiniteSet(Actors(Signins))
            BY SelectedCount, ActorsCount
        <3>2. /\ Cardinality(Actors(RunsEnded')) \in Nat /\ Cardinality(Actors(Signins)) \in Nat
              /\ Cardinality(Actors(RunsEnded')) <= Cardinality(Actors(Signins))
            BY <2>3, <3>1, PartCounts
        <3>. QED
            BY <1>3, <3>2, CorrelationAssumption
    <2>5. EpisodesMatch'
        BY <1>2, EpisodesMatchAfter
    <2>6. x.actor # NoActor
        BY <2>1 DEF RunsEnded, Signins
    <2>7. x.actor \in Actors(RunsEnded')
        BY <2>1, <2>2, <2>6 DEF Actors
    <2>8. PICK y \in SuccessAfterFailures' : y.actor = x.actor
        BY <2>4, <2>5, <2>7 DEF EpisodesMatch
    <2>9. x.success \in By(RunsEnded', y.actor)
        BY <2>1, <2>2, <2>8 DEF By
    <2>10. EarlierOrAt(x.success, y.success)
        BY <2>5, <2>9 DEF EpisodesMatch
    <2>. QED
        BY <2>8, <2>10
<1>4. /\ BruteForce \subseteq BruteForce' /\ Spray \subseteq Spray'
      /\ IdorProbe \subseteq IdorProbe' /\ (MfaBruteForce => MfaBruteForce')
      /\ AttackPattern \subseteq AttackPattern'
    BY <1>1, <1>2, CountsStay
<1>5. Cardinality(Spread') <= Limit => Distributed \subseteq Distributed'
    BY <1>1, <1>2, GuessingStays
<1>. QED
    BY <1>3, <1>4, <1>5 DEF Buried

\* Every step keeps the invariant, and buries nothing.
LEMMA CorrelationNextKeeps ==
    ASSUME CorrelationIInv, [CorrelationNext]_correlationVars
    PROVE  CorrelationIInv' /\ [Buried]_correlationVars
<1>1. CASE UNCHANGED correlationVars
    BY <1>1 DEF correlationVars, CorrelationIInv, CorrelationTypeOK, RowsAreNumbered
<1>2. CASE WindowMoves
    BY <1>2, WindowKeeps DEF Buried, WindowMoves
<1>3. CASE \E kind \in Kinds, at \in 0..MaxMinute : RecordRow(kind, at)
    BY <1>3, RecordKeeps, RecordBuriesNothing
<1>. QED
    BY <1>1, <1>2, <1>3 DEF CorrelationNext

\* The invariant of Correlation: the rows are finitely many and known by their ids,
\* whatever the clocks of the workers that wrote them.
THEOREM CorrelationInvariance == CorrelationSpec => []CorrelationIInv
<1>1. CorrelationInit => CorrelationIInv
    BY CorrelationInitSound
<1>2. CorrelationIInv /\ [CorrelationNext]_correlationVars => CorrelationIInv'
    BY CorrelationNextKeeps
<1>. QED
    BY <1>1, <1>2, PTL DEF CorrelationSpec

\* detect_anomalies and _authentication_correlations: the findings are the runs of
\* failures that a success ended, guessing at one account is seen however it is spread,
\* and what is recorded later buries no finding: for any events, thresholds, windows
\* and clocks.
THEOREM FindingsAreRuns == CorrelationSpec => EpisodesAreRuns
<1>1. CorrelationIInv => CorrelationTypeOK /\ EpisodesMatch /\ GuessingIsSeen
    BY EpisodesMatchRuns, GuessingShows DEF CorrelationIInv
<1>2. CorrelationIInv /\ [CorrelationNext]_correlationVars => [Buried]_correlationVars
    BY CorrelationNextKeeps
<1>. QED
    BY <1>1, <1>2, CorrelationInvariance, PTL DEF CorrelationSpec, EpisodesAreRuns
=============================================================================
