---------------------------- MODULE Services_proofs ---------------------------
(***************************************************************************)
(* Proofs about the services of a worker, for any number of everything.    *)
(*                                                                         *)
(* Admission: every slot of a worker is held by exactly one request that   *)
(* is in progress, and no budget is overdrawn.  The counters are compared  *)
(* with the cardinality of the sets of their holders; a step moves one     *)
(* request, so each set gains or loses at most that one.                   *)
(*                                                                         *)
(* RateLimits: in no window does a budget admit more than its limit and    *)
(* the slots given back.  In a window that is still open, what was         *)
(* admitted is in the bucket or was given back; a window that has closed   *)
(* does not change any more.                                               *)
(*                                                                         *)
(* Maintenance: no two workers are inside a cycle at a time, though the    *)
(* lock's connection may be lost and the key may expire.                   *)
(*                                                                         *)
(* UiCallbacks: no queued callback acts for, or writes into, a login other *)
(* than the one it was admitted under.                                     *)
(*                                                                         *)
(* ChatFiles: a file is staged and sent only by the login that uploaded    *)
(* it, and the store keeps to its counts and bytes.  A table only loses    *)
(* rows, or gains one of the login of its file; what is left of a table    *)
(* (Thinned) has no more rows, files or keys than the table had.           *)
(*                                                                         *)
(* Dlp: text leaves only when everything it decodes to was inspected, and  *)
(* no character of a finding that must be removed, or is confidential,     *)
(* leaves with it.  A limit finding stands for whatever was not looked     *)
(* into; the merged spans lie apart from one another, so the chunks        *)
(* between them are exactly the characters outside every span.             *)
(*                                                                         *)
(* Bans: a ban that was announced stands until it is served or lifted, and *)
(* no request with hits gets past it.  What a transaction is about to      *)
(* commit says the same of every ban in force as the table does, but for   *)
(* the ban it announces or lifts.                                          *)
(***************************************************************************)
EXTENDS Admission, RateLimits, Maintenance, UiCallbacks, ChatFiles, Dlp, Bans,
        WellFoundedInduction, FiniteSetTheorems, SequenceTheorems, TLAPS

-----------------------------------------------------------------------------
(* Admission.                                                              *)

Pcs == Waiting \cup {"idle", "over"}

-----------------------------------------------------------------------------
(* Sets and their sizes.                                                   *)

\* A holder more.
LEMMA OneMore ==
    ASSUME NEW S, IsFiniteSet(S), NEW r, r \notin S, NEW T, T = S \cup {r}
    PROVE  Cardinality(T) = Cardinality(S) + 1 /\ IsFiniteSet(T)
BY FS_AddElement

\* A holder less.
LEMMA OneLess ==
    ASSUME NEW S, IsFiniteSet(S), NEW r \in S, NEW T, T = S \ {r}
    PROVE  Cardinality(T) = Cardinality(S) - 1 /\ IsFiniteSet(T)
BY FS_RemoveElement

\* The holders of any slot are among the requests in progress.
LEMMA HoldersAreFinite ==
    ASSUME IInv
    PROVE  /\ IsFiniteSet(Busy)
           /\ \A b : IsFiniteSet(HoldersOf(b))
           /\ \A x : IsFiniteSet(HoldersFrom(x))
           /\ \A step : IsFiniteSet(At(step))
<1>1. \A S : S \subseteq Busy => IsFiniteSet(S)
    BY FS_Subset DEF IInv
<1>2. /\ \A b : HoldersOf(b) \subseteq Busy
      /\ \A x : HoldersFrom(x) \subseteq Busy
      /\ \A step : At(step) \subseteq Busy
    BY DEF HoldersOf, HoldersFrom, At
<1>. QED
    BY <1>1, <1>2 DEF IInv

\* A request moves, and no other.
LEMMA MoveIsLocal ==
    ASSUME TypeOK, NEW r \in Requests, NEW step \in Pcs, req' = [req EXCEPT ![r].pc = step]
    PROVE  /\ req' \in [Requests -> [pc : Pcs, src : Sources, kind : Kinds]]
           /\ \A o \in Requests : o # r => req'[o] = req[o]
           /\ req'[r].pc = step /\ req'[r].src = req[r].src /\ req'[r].kind = req[r].kind
<1>1. /\ req[r] \in [pc : Pcs, src : Sources, kind : Kinds]
      /\ [req[r] EXCEPT !.pc = step] \in [pc : Pcs, src : Sources, kind : Kinds]
    BY DEF TypeOK, Pcs
<1>2. req' = [req EXCEPT ![r] = [req[r] EXCEPT !.pc = step]]
    BY DEF TypeOK
<1>3. /\ req' \in [Requests -> [pc : Pcs, src : Sources, kind : Kinds]]
      /\ \A o \in Requests : o # r => req'[o] = req[o]
    BY <1>1, <1>2 DEF TypeOK, Pcs
<1>4. req'[r] = [req[r] EXCEPT !.pc = step]
    BY <1>1, <1>2 DEF TypeOK
<1>. QED
    BY <1>1, <1>3, <1>4

\* A request that goes on holds what it held.
LEMMA GoingOn ==
    ASSUME TypeOK, NEW r \in Requests, req[r].pc \in Waiting, NEW step \in Waiting,
           req' = [req EXCEPT ![r].pc = step]
    PROVE  /\ req' \in [Requests -> [pc : Pcs, src : Sources, kind : Kinds]]
           /\ Busy' = Busy /\ r \in Busy
           /\ \A b : HoldersOf(b)' = HoldersOf(b)
           /\ \A x : HoldersFrom(x)' = HoldersFrom(x)
           /\ \A p : At(p)' = IF p = step THEN At(p) \cup {r} ELSE At(p) \ {r}
<1>1. /\ req' \in [Requests -> [pc : Pcs, src : Sources, kind : Kinds]]
      /\ \A o \in Requests : o # r => req'[o] = req[o]
      /\ req'[r].pc = step /\ req'[r].src = req[r].src /\ req'[r].kind = req[r].kind
    BY MoveIsLocal DEF Pcs
<1>2. Busy' = Busy /\ r \in Busy
    BY <1>1 DEF Busy
<1>3. \A b : HoldersOf(b)' = HoldersOf(b)
    BY <1>1, <1>2 DEF HoldersOf, Busy
<1>4. \A o \in Requests : /\ req'[o].src = req[o].src /\ req'[o].kind = req[o].kind
    BY <1>1
<1>5. \A o \in Requests : HasSource(o)' = HasSource(o) /\ SourceKey(o)' = SourceKey(o)
    BY <1>4 DEF HasSource, SourceKey
<1>6. \A x : HoldersFrom(x)' = HoldersFrom(x)
    BY <1>2, <1>5 DEF HoldersFrom, Busy
<1>7. \A p : At(p)' = IF p = step THEN At(p) \cup {r} ELSE At(p) \ {r}
    BY <1>1, <1>2 DEF At, Busy
<1>. QED
    BY <1>1, <1>2, <1>3, <1>6, <1>7

-----------------------------------------------------------------------------
(* The steps.                                                              *)

\* No request, no slot.
LEMMA InitHeld == Init => IInv
<1>. SUFFICES ASSUME Init PROVE IInv
    OBVIOUS
<1>1. Idle \in [pc : Pcs, src : Sources, kind : Kinds] /\ Idle.pc = "idle"
    <2>1. (CHOOSE s \in Sources : TRUE) \in Sources
        BY AdmissionAssumption
    <2>. QED
        BY <2>1 DEF Idle, Pcs, Kinds
<1>2. TypeOK
    BY <1>1 DEF Init, TypeOK, Pcs
<1>3. Busy = {}
    BY <1>1 DEF Init, Busy, Waiting
<1>4. /\ \A b : HoldersOf(b) = {}
      /\ \A x : HoldersFrom(x) = {}
      /\ \A step : At(step) = {}
    BY <1>3 DEF HoldersOf, HoldersFrom, At
<1>5. IsFiniteSet({}) /\ Cardinality({}) = 0
    BY FS_EmptySet
<1>6. /\ \A b \in {"request", "stream"} : active[b] = 0 /\ 0 <= MaxActive[b]
      /\ \A x \in Sources \X {"request", "stream"} : sources[x] = 0 /\ 0 <= MaxPerSource[x[2]]
      /\ hashing = 0 /\ 0 <= MaxHashing /\ probing = 0
    BY AdmissionAssumption DEF Init
<1>7. /\ \A b : Cardinality(HoldersOf(b)) = 0
      /\ \A x : Cardinality(HoldersFrom(x)) = 0
      /\ \A step : Cardinality(At(step)) = 0
    BY <1>4, <1>5, Zenon
<1>. QED
    BY <1>2, <1>3, <1>5, <1>6, <1>7 DEF IInv, SlotsAreHeld

\* A request that moves between awaits keeps its slots.
LEMMA MovingKeeps ==
    ASSUME IInv, NEW r \in Requests, req[r].pc \in Waiting \ {"hashing", "probing"},
           NEW step \in Waiting \ {"hashing", "probing"}, req' = [req EXCEPT ![r].pc = step],
           UNCHANGED <<active, sources, hashing, probing>>
    PROVE  IInv'
<1>0. TypeOK
    BY DEF IInv, SlotsAreHeld
<1>1. /\ req' \in [Requests -> [pc : Pcs, src : Sources, kind : Kinds]]
      /\ Busy' = Busy /\ r \in Busy
      /\ \A b : HoldersOf(b)' = HoldersOf(b)
      /\ \A x : HoldersFrom(x)' = HoldersFrom(x)
      /\ \A p : At(p)' = IF p = step THEN At(p) \cup {r} ELSE At(p) \ {r}
    BY <1>0, GoingOn
<1>2. At("hashing")' = At("hashing") /\ At("probing")' = At("probing")
    BY <1>1 DEF At
<1>3. TypeOK'
    BY <1>0, <1>1 DEF TypeOK, Pcs
<1>. QED
    BY <1>1, <1>2, <1>3 DEF IInv, SlotsAreHeld

\* StartHash takes a slot for hashing, or none.
LEMMA StartHashKeeps ==
    ASSUME IInv, NEW r \in Requests, StartHash(r)
    PROVE  IInv'
<1>0. TypeOK /\ req[r].pc = "app" /\ req[r].pc \in Waiting
    BY DEF IInv, SlotsAreHeld, StartHash, Waiting
<1>1. CASE hashing < MaxHashing
    <2>1. hashing' = hashing + 1 /\ req' = [req EXCEPT ![r].pc = "hashing"]
        BY <1>1 DEF StartHash
    <2>2. "hashing" \in Waiting /\ "probing" # "hashing"
        BY DEF Waiting
    <2>3. /\ req' \in [Requests -> [pc : Pcs, src : Sources, kind : Kinds]]
          /\ Busy' = Busy /\ r \in Busy
          /\ \A b : HoldersOf(b)' = HoldersOf(b)
          /\ \A x : HoldersFrom(x)' = HoldersFrom(x)
          /\ \A p : At(p)' = IF p = "hashing" THEN At(p) \cup {r} ELSE At(p) \ {r}
        BY <1>0, <2>1, <2>2, GoingOn
    <2>4. At("hashing")' = At("hashing") \cup {r} /\ r \notin At("hashing")
        BY <1>0, <2>3 DEF At
    <2>5. At("probing")' = At("probing")
        BY <1>0, <2>3 DEF At
    <2>6. Cardinality(At("hashing")') = Cardinality(At("hashing")) + 1
        BY <2>4, HoldersAreFinite, OneMore
    <2>7. hashing \in Nat
        BY <1>0 DEF TypeOK
    <2>8. TypeOK'
        BY <1>0, <2>1, <2>3, <2>7 DEF TypeOK, Pcs, StartHash
    <2>9. hashing' = Cardinality(At("hashing")') /\ hashing' <= MaxHashing
        BY <1>1, <2>1, <2>6, <2>7, AdmissionAssumption DEF IInv, SlotsAreHeld
    <2>. QED
        BY <2>3, <2>5, <2>8, <2>9 DEF IInv, SlotsAreHeld, StartHash
<1>2. CASE ~(hashing < MaxHashing)
    BY <1>0, <1>2, MovingKeeps DEF StartHash, Waiting
<1>. QED
    BY <1>1, <1>2

\* EndHash gives it back.
LEMMA EndHashKeeps ==
    ASSUME IInv, NEW r \in Requests, EndHash(r)
    PROVE  IInv'
<1>0. TypeOK /\ req[r].pc = "hashing" /\ req[r].pc \in Waiting /\ "app" \in Waiting
    BY DEF IInv, SlotsAreHeld, EndHash, Waiting
<1>1. /\ req' \in [Requests -> [pc : Pcs, src : Sources, kind : Kinds]]
      /\ Busy' = Busy /\ r \in Busy
      /\ \A b : HoldersOf(b)' = HoldersOf(b)
      /\ \A x : HoldersFrom(x)' = HoldersFrom(x)
      /\ \A p : At(p)' = IF p = "app" THEN At(p) \cup {r} ELSE At(p) \ {r}
    BY <1>0, GoingOn DEF EndHash
<1>2. At("hashing")' = At("hashing") \ {r} /\ r \in At("hashing")
    BY <1>0, <1>1 DEF At
<1>3. At("probing")' = At("probing")
    BY <1>0, <1>1 DEF At
<1>4. Cardinality(At("hashing")') = Cardinality(At("hashing")) - 1 /\ IsFiniteSet(At("hashing")')
    BY <1>2, HoldersAreFinite, OneLess
<1>5. Cardinality(At("hashing")') \in Nat
    BY <1>4, FS_CardinalityType
<1>6. hashing' = Cardinality(At("hashing")') /\ hashing' <= MaxHashing /\ hashing' \in Nat
    BY <1>0, <1>4, <1>5, AdmissionAssumption DEF IInv, SlotsAreHeld, EndHash, TypeOK
<1>7. TypeOK'
    BY <1>0, <1>1, <1>6 DEF TypeOK, Pcs, EndHash
<1>. QED
    BY <1>1, <1>3, <1>6, <1>7 DEF IInv, SlotsAreHeld, EndHash

\* StartProbe begins the one probe, or none.
LEMMA StartProbeKeeps ==
    ASSUME IInv, NEW r \in Requests, StartProbe(r)
    PROVE  IInv'
<1>0. TypeOK /\ req[r].pc = "app" /\ req[r].pc \in Waiting /\ "probing" \in Waiting
    BY DEF IInv, SlotsAreHeld, StartProbe, Waiting
<1>1. CASE probing = 0
    <2>1. probing' = 1 /\ req' = [req EXCEPT ![r].pc = "probing"]
        BY <1>1 DEF StartProbe
    <2>2. /\ req' \in [Requests -> [pc : Pcs, src : Sources, kind : Kinds]]
          /\ Busy' = Busy /\ r \in Busy
          /\ \A b : HoldersOf(b)' = HoldersOf(b)
          /\ \A x : HoldersFrom(x)' = HoldersFrom(x)
          /\ \A p : At(p)' = IF p = "probing" THEN At(p) \cup {r} ELSE At(p) \ {r}
        BY <1>0, <2>1, GoingOn
    <2>3. At("probing")' = At("probing") \cup {r} /\ r \notin At("probing")
        BY <1>0, <2>2 DEF At
    <2>4. At("hashing")' = At("hashing")
        BY <1>0, <2>2 DEF At
    <2>5. Cardinality(At("probing")') = Cardinality(At("probing")) + 1
        BY <2>3, HoldersAreFinite, OneMore
    <2>6. probing' = Cardinality(At("probing")') /\ probing' \in 0..1
        BY <1>1, <2>1, <2>5 DEF IInv, SlotsAreHeld
    <2>7. TypeOK'
        BY <1>0, <2>2, <2>6 DEF TypeOK, Pcs, StartProbe
    <2>. QED
        BY <2>2, <2>4, <2>6, <2>7 DEF IInv, SlotsAreHeld, StartProbe
<1>2. CASE probing # 0
    BY <1>0, <1>2, MovingKeeps DEF StartProbe, Waiting
<1>. QED
    BY <1>1, <1>2

\* EndProbe ends it.
LEMMA EndProbeKeeps ==
    ASSUME IInv, NEW r \in Requests, EndProbe(r)
    PROVE  IInv'
<1>0. TypeOK /\ req[r].pc = "probing" /\ req[r].pc \in Waiting /\ "app" \in Waiting
    BY DEF IInv, SlotsAreHeld, EndProbe, Waiting
<1>1. /\ req' \in [Requests -> [pc : Pcs, src : Sources, kind : Kinds]]
      /\ Busy' = Busy /\ r \in Busy
      /\ \A b : HoldersOf(b)' = HoldersOf(b)
      /\ \A x : HoldersFrom(x)' = HoldersFrom(x)
      /\ \A p : At(p)' = IF p = "app" THEN At(p) \cup {r} ELSE At(p) \ {r}
    BY <1>0, GoingOn DEF EndProbe
<1>2. At("probing")' = At("probing") \ {r} /\ r \in At("probing")
    BY <1>0, <1>1 DEF At
<1>3. At("hashing")' = At("hashing")
    BY <1>0, <1>1, SMTT(60) DEF At
<1>4. Cardinality(At("probing")') = Cardinality(At("probing")) - 1 /\ IsFiniteSet(At("probing")')
    BY <1>2, HoldersAreFinite, OneLess
<1>5. Cardinality(At("probing")') \in Nat
    BY <1>4, FS_CardinalityType
<1>6. probing' = Cardinality(At("probing")') /\ probing' \in 0..1
    BY <1>0, <1>4, <1>5 DEF IInv, SlotsAreHeld, EndProbe, TypeOK
<1>7. TypeOK'
    BY <1>0, <1>1, <1>6 DEF TypeOK, Pcs, EndProbe
<1>. QED
    BY <1>1, <1>3, <1>6, <1>7 DEF IInv, SlotsAreHeld, EndProbe

\* Leave gives the slots back: both sets of holders lose the request.
LEMMA LeaveKeeps ==
    ASSUME IInv, NEW r \in Requests, Leave(r)
    PROVE  IInv'
<1>0. /\ TypeOK /\ req[r].pc \in {"shared", "refusing", "body", "app"}
      /\ req' = [req EXCEPT ![r].pc = "over"]
      /\ hashing' = hashing /\ probing' = probing
    BY DEF IInv, SlotsAreHeld, Leave
<1>1. /\ req' \in [Requests -> [pc : Pcs, src : Sources, kind : Kinds]]
      /\ \A o \in Requests : o # r => req'[o] = req[o]
      /\ req'[r].pc = "over"
    BY <1>0, MoveIsLocal DEF Pcs
<1>2. Busy' = Busy \ {r} /\ r \in Busy
    BY <1>0, <1>1 DEF Busy, Waiting
<1>3. \A o \in Busy' : req'[o] = req[o]
    BY <1>1, <1>2 DEF Busy
<1>. DEFINE b0 == BudgetOf(req[r].kind)
            x0 == SourceKey(r)
<1>4. req[r].kind \in Kinds /\ req[r].src \in Sources
    BY <1>0 DEF TypeOK
<1>5. b0 \in {"request", "stream"} /\ x0 \in Sources \X {"request", "stream"} /\ x0[2] = b0
    BY <1>4 DEF BudgetOf, SourceKey
<1>6. \A b : HoldersOf(b)' = HoldersOf(b) \ {r}
    BY <1>2, <1>3 DEF HoldersOf
<1>7. r \in HoldersOf(b0) /\ \A b : b # b0 => r \notin HoldersOf(b)
    BY <1>2 DEF HoldersOf
<1>8. \A o \in Busy' : HasSource(o)' = HasSource(o) /\ SourceKey(o)' = SourceKey(o)
    BY <1>3 DEF HasSource, SourceKey
<1>9. \A x : HoldersFrom(x)' = HoldersFrom(x) \ {r}
    BY <1>2, <1>8 DEF HoldersFrom
<1>10. /\ HasSource(r) => r \in HoldersFrom(x0)
       /\ \A x : x # x0 \/ ~HasSource(r) => r \notin HoldersFrom(x)
    BY <1>2 DEF HoldersFrom
<1>11. At("hashing")' = At("hashing") /\ At("probing")' = At("probing")
    BY <1>0, <1>2, <1>3 DEF At
<1>12. IsFiniteSet(Busy')
    BY <1>2, HoldersAreFinite, FS_RemoveElement
<1>. HIDE DEF b0, x0
<1>13. active' = [active EXCEPT ![b0] = active[b0] - 1]
    BY DEF Leave, Release, b0
<1>14. sources' = IF HasSource(r) THEN [sources EXCEPT ![x0] = sources[x0] - 1] ELSE sources
    BY DEF Leave, Release, x0
<1>15. ASSUME NEW b \in {"request", "stream"}
       PROVE  /\ active'[b] \in Nat /\ active'[b] <= MaxActive[b]
              /\ active'[b] = Cardinality(HoldersOf(b)')
    <2>1. /\ active[b] \in Nat /\ active[b] <= MaxActive[b] /\ MaxActive[b] \in Nat
          /\ active[b] = Cardinality(HoldersOf(b))
        BY AdmissionAssumption DEF IInv, SlotsAreHeld, TypeOK
    <2>2. CASE b = b0
        <3>1. /\ Cardinality(HoldersOf(b)') = Cardinality(HoldersOf(b)) - 1
              /\ IsFiniteSet(HoldersOf(b)')
            BY <1>6, <1>7, <2>2, HoldersAreFinite, OneLess
        <3>2. Cardinality(HoldersOf(b)') \in Nat
            BY <3>1, FS_CardinalityType
        <3>3. active'[b] = active[b] - 1
            BY <1>0, <1>5, <1>13, <2>2 DEF TypeOK
        <3>. QED
            BY <2>1, <3>1, <3>2, <3>3
    <2>3. CASE b # b0
        <3>1. active'[b] = active[b]
            BY <1>0, <1>13, <2>3 DEF TypeOK
        <3>2. HoldersOf(b)' = HoldersOf(b)
            BY <1>6, <1>7, <2>3
        <3>. QED
            BY <2>1, <3>1, <3>2
    <2>. QED
        BY <2>2, <2>3
<1>16. ASSUME NEW x \in Sources \X {"request", "stream"}
       PROVE  /\ sources'[x] \in Nat /\ sources'[x] <= MaxPerSource[x[2]]
              /\ sources'[x] = Cardinality(HoldersFrom(x)')
    <2>1. /\ sources[x] \in Nat /\ sources[x] <= MaxPerSource[x[2]] /\ MaxPerSource[x[2]] \in Nat
          /\ sources[x] = Cardinality(HoldersFrom(x))
        BY AdmissionAssumption DEF IInv, SlotsAreHeld, TypeOK
    <2>2. CASE x = x0 /\ HasSource(r)
        <3>1. /\ Cardinality(HoldersFrom(x)') = Cardinality(HoldersFrom(x)) - 1
              /\ IsFiniteSet(HoldersFrom(x)')
            BY <1>9, <1>10, <2>2, HoldersAreFinite, OneLess
        <3>2. Cardinality(HoldersFrom(x)') \in Nat
            BY <3>1, FS_CardinalityType
        <3>3. sources'[x] = sources[x] - 1
            BY <1>0, <1>5, <1>14, <2>2 DEF TypeOK
        <3>. QED
            BY <2>1, <3>1, <3>2, <3>3
    <2>3. CASE x # x0 \/ ~HasSource(r)
        <3>1. sources'[x] = sources[x]
            BY <1>0, <1>14, <2>3 DEF TypeOK
        <3>2. HoldersFrom(x)' = HoldersFrom(x)
            BY <1>9, <1>10, <2>3
        <3>. QED
            BY <2>1, <3>1, <3>2
    <2>. QED
        BY <2>2, <2>3
<1>17. /\ active' \in [{"request", "stream"} -> Nat]
       /\ sources' \in [Sources \X {"request", "stream"} -> Nat]
    <2>1. DOMAIN active' = {"request", "stream"} /\ active' = [b \in {"request", "stream"} |-> active'[b]]
        BY <1>0, <1>13 DEF TypeOK
    <2>2. sources' = [x \in Sources \X {"request", "stream"} |-> sources'[x]]
        BY <1>0, <1>14 DEF TypeOK
    <2>. QED
        BY <1>15, <1>16, <2>1, <2>2
<1>18. TypeOK'
    BY <1>0, <1>1, <1>17 DEF TypeOK, Pcs
<1>. QED
    BY <1>0, <1>11, <1>12, <1>15, <1>16, <1>18 DEF IInv, SlotsAreHeld

\* Admit takes the slots it checked, or none.
LEMMA AdmitKeeps ==
    ASSUME IInv, NEW r \in Requests, NEW s \in Sources, NEW kind \in Kinds, Admit(r, s, kind)
    PROVE  IInv'
<1>. DEFINE b0 == BudgetOf(kind)
            x0 == <<s, b0>>
<1>0. TypeOK /\ req[r].pc = "idle" /\ hashing' = hashing /\ probing' = probing
    BY DEF IInv, SlotsAreHeld, Admit
<1>1. b0 \in {"request", "stream"} /\ x0 \in Sources \X {"request", "stream"} /\ x0[2] = b0
    BY DEF BudgetOf
<1>2. r \notin Busy
    BY <1>0 DEF Busy, Waiting
<1>3. \E step \in Pcs : req' = [req EXCEPT ![r] = [pc |-> step, src |-> s, kind |-> kind]]
    BY DEF Admit, Pcs, Waiting
<1>4. /\ req' \in [Requests -> [pc : Pcs, src : Sources, kind : Kinds]]
      /\ \A o \in Requests : o # r => req'[o] = req[o]
      /\ req'[r].src = s /\ req'[r].kind = kind
    BY <1>0, <1>3 DEF TypeOK, Pcs
<1>5. CASE /\ req' = [req EXCEPT ![r] = [pc |-> "over", src |-> s, kind |-> kind]]
           /\ UNCHANGED <<active, sources>>
    <2>1. req'[r].pc = "over"
        BY <1>0, <1>5 DEF TypeOK
    <2>2. Busy' = Busy
        BY <1>2, <1>4, <2>1 DEF Busy, Waiting
    <2>3. \A o \in Busy : req'[o] = req[o]
        BY <1>2, <1>4 DEF Busy
    <2>4. \A o \in Busy : HasSource(o)' = HasSource(o) /\ SourceKey(o)' = SourceKey(o)
        BY <2>3 DEF HasSource, SourceKey
    <2>5. /\ \A b : HoldersOf(b)' = HoldersOf(b)
          /\ \A x : HoldersFrom(x)' = HoldersFrom(x)
          /\ \A step : At(step)' = At(step)
        BY <2>2, <2>3, <2>4 DEF HoldersOf, HoldersFrom, At
    <2>6. TypeOK'
        BY <1>0, <1>4, <1>5 DEF TypeOK, Pcs
    <2>. QED
        BY <1>0, <1>5, <2>2, <2>5, <2>6 DEF IInv, SlotsAreHeld
<1>6. CASE /\ active[b0] < MaxActive[b0]
           /\ kind # "asset" => sources[x0] < MaxPerSource[b0]
           /\ active' = [active EXCEPT ![b0] = active[b0] + 1]
           /\ sources' = IF kind = "asset" THEN sources
                         ELSE [sources EXCEPT ![x0] = sources[x0] + 1]
           /\ req' = [req EXCEPT ![r] = [pc |-> IF SharedLimiter THEN "shared" ELSE "body",
                                         src |-> s, kind |-> kind]]
    <2>1. req'[r].pc \in {"shared", "body"}
        BY <1>0, <1>6 DEF TypeOK
    <2>2. Busy' = Busy \cup {r}
        BY <1>4, <2>1 DEF Busy, Waiting
    <2>3. \A o \in Busy : req'[o] = req[o]
        BY <1>2, <1>4 DEF Busy
    <2>4. \A o \in Busy : HasSource(o)' = HasSource(o) /\ SourceKey(o)' = SourceKey(o)
        BY <2>3 DEF HasSource, SourceKey
    <2>5. SourceKey(r)' = x0 /\ HasSource(r)' = (kind # "asset")
        BY <1>4 DEF HasSource, SourceKey
    <2>6. /\ HoldersOf(b0)' = HoldersOf(b0) \cup {r} /\ r \notin HoldersOf(b0)
          /\ \A b : b # b0 => HoldersOf(b)' = HoldersOf(b)
        BY <1>2, <1>4, <2>2, <2>3 DEF HoldersOf
    <2>7. /\ kind # "asset" => HoldersFrom(x0)' = HoldersFrom(x0) \cup {r}
          /\ r \notin HoldersFrom(x0)
          /\ \A x : x # x0 \/ kind = "asset" => HoldersFrom(x)' = HoldersFrom(x)
        BY <1>2, <2>2, <2>4, <2>5 DEF HoldersFrom
    <2>8. At("hashing")' = At("hashing") /\ At("probing")' = At("probing")
        BY <2>1, <2>2, <2>3 DEF At
    <2>9. IsFiniteSet(Busy')
        BY <1>2, <2>2, HoldersAreFinite, OneMore
    <2>. HIDE DEF b0, x0
    <2>10. ASSUME NEW b \in {"request", "stream"}
           PROVE  /\ active'[b] \in Nat /\ active'[b] <= MaxActive[b]
                  /\ active'[b] = Cardinality(HoldersOf(b)')
        <3>1. /\ active[b] \in Nat /\ active[b] <= MaxActive[b] /\ MaxActive[b] \in Nat
              /\ active[b] = Cardinality(HoldersOf(b))
            BY AdmissionAssumption DEF IInv, SlotsAreHeld, TypeOK
        <3>2. CASE b = b0
            <4>1. Cardinality(HoldersOf(b)') = Cardinality(HoldersOf(b)) + 1
                BY <2>6, <3>2, HoldersAreFinite, OneMore
            <4>2. active'[b] = active[b] + 1 /\ active[b] < MaxActive[b]
                BY <1>0, <1>1, <1>6, <3>2 DEF TypeOK
            <4>. QED
                BY <3>1, <4>1, <4>2
        <3>3. CASE b # b0
            <4>1. active'[b] = active[b]
                BY <1>0, <1>6, <3>3 DEF TypeOK
            <4>. QED
                BY <2>6, <3>1, <3>3, <4>1
        <3>. QED
            BY <3>2, <3>3
    <2>11. ASSUME NEW x \in Sources \X {"request", "stream"}
           PROVE  /\ sources'[x] \in Nat /\ sources'[x] <= MaxPerSource[x[2]]
                  /\ sources'[x] = Cardinality(HoldersFrom(x)')
        <3>1. /\ sources[x] \in Nat /\ sources[x] <= MaxPerSource[x[2]]
              /\ MaxPerSource[x[2]] \in Nat /\ sources[x] = Cardinality(HoldersFrom(x))
            BY AdmissionAssumption DEF IInv, SlotsAreHeld, TypeOK
        <3>2. CASE x = x0 /\ kind # "asset"
            <4>1. Cardinality(HoldersFrom(x)') = Cardinality(HoldersFrom(x)) + 1
                BY <2>7, <3>2, HoldersAreFinite, OneMore
            <4>2. sources'[x] = sources[x] + 1 /\ sources[x] < MaxPerSource[x[2]]
                BY <1>0, <1>1, <1>6, <3>2 DEF TypeOK
            <4>. QED
                BY <3>1, <4>1, <4>2
        <3>3. CASE x # x0 \/ kind = "asset"
            <4>1. sources'[x] = sources[x]
                BY <1>0, <1>6, <3>3 DEF TypeOK
            <4>. QED
                BY <2>7, <3>1, <3>3, <4>1
        <3>. QED
            BY <3>2, <3>3
    <2>12. /\ active' \in [{"request", "stream"} -> Nat]
           /\ sources' \in [Sources \X {"request", "stream"} -> Nat]
        <3>1. active' = [b \in {"request", "stream"} |-> active'[b]]
            BY <1>0, <1>6 DEF TypeOK
        <3>2. sources' = [x \in Sources \X {"request", "stream"} |-> sources'[x]]
            BY <1>0, <1>6 DEF TypeOK
        <3>. QED
            BY <2>10, <2>11, <3>1, <3>2
    <2>13. TypeOK'
        BY <1>0, <1>4, <2>12 DEF TypeOK, Pcs
    <2>. QED
        BY <1>0, <2>8, <2>9, <2>10, <2>11, <2>13 DEF IInv, SlotsAreHeld
<1>. QED
    BY <1>5, <1>6 DEF Admit

\* Every step of Next, and a stuttering one.
LEMMA NextKeeps == IInv /\ [Next]_vars => IInv'
<1>. SUFFICES ASSUME IInv, [Next]_vars PROVE IInv'
    OBVIOUS
<1>1. ASSUME NEW r \in Requests, NEW allowed \in BOOLEAN,
             SharedCheck(r, allowed) \/ ReadBody(r, allowed)
      PROVE  IInv'
    BY <1>1, MovingKeeps DEF SharedCheck, ReadBody, Waiting
<1>2. CASE UNCHANGED vars
    BY <1>2 DEF vars, IInv, SlotsAreHeld, TypeOK, Busy, HoldersOf, HoldersFrom, At, HasSource, SourceKey
<1>. QED
    BY <1>1, <1>2, LeaveKeeps, AdmitKeeps, StartHashKeeps, EndHashKeeps, StartProbeKeeps, EndProbeKeeps
       DEF Next, RequestStep

-----------------------------------------------------------------------------
(* The theorems.                                                           *)

\* The inductive invariant holds in every behaviour of the admission middleware.
THEOREM Invariance == Spec => []IInv
BY InitHeld, NextKeeps, PTL DEF Spec

\* Whatever the number of requests and addresses and whatever the limits: every
\* slot of CapacityBudget, of a source, of the password service and of the probe
\* is held by one request in progress and comes back with it, and no budget is
\* overdrawn.
THEOREM SlotsStayHeld == Spec => []SlotsAreHeld
<1>1. IInv => SlotsAreHeld
    BY DEF IInv
<1>. QED
    BY <1>1, Invariance, PTL

-----------------------------------------------------------------------------
(* The budgets of the rate limiter.                                        *)

\* The slots since t are finitely many.
LEMMA SinceFinite ==
  ASSUME NEW s \in Seq(Nat), NEW t \in Nat
  PROVE  IsFiniteSet(Since(s, t)) /\ Cardinality(Since(s, t)) \in Nat
<1>1. IsFiniteSet(1..Len(s))
  BY FS_Interval
<1>2. Since(s, t) \subseteq 1..Len(s)
  BY DEF Since
<1> QED  BY <1>1, <1>2, FS_Subset, FS_CardinalityType

LEMMA WithinFinite ==
  ASSUME NEW s \in Seq(Nat), NEW t \in Nat, NEW k
  PROVE  IsFiniteSet(Within(s, t, k)) /\ Cardinality(Within(s, t, k)) \in Nat
<1>1. IsFiniteSet(1..Len(s))
  BY FS_Interval
<1>2. Within(s, t, k) \subseteq 1..Len(s)
  BY DEF Within
<1> QED  BY <1>1, <1>2, FS_Subset, FS_CardinalityType

LEMMA IntervalSize == \A n \in Nat : IsFiniteSet(1..n) /\ Cardinality(1..n) = n
<1> SUFFICES ASSUME NEW n \in Nat PROVE IsFiniteSet(1..n) /\ Cardinality(1..n) = n
  OBVIOUS
<1>1. IsFiniteSet(1..n) /\ Cardinality(1..n) = IF 1 > n THEN 0 ELSE n - 1 + 1
  BY FS_Interval
<1> QED  BY <1>1

\* What Append does to the places.
LEMMA AppendPlaces ==
  ASSUME NEW s \in Seq(Nat), NEW x \in Nat
  PROVE  /\ Append(s, x) \in Seq(Nat) /\ Len(Append(s, x)) = Len(s) + 1
         /\ \A i \in 1..Len(s) : Append(s, x)[i] = s[i]
         /\ Append(s, x)[Len(s) + 1] = x
OBVIOUS

\* A slot more, not before t.
LEMMA SinceAppend ==
  ASSUME NEW s \in Seq(Nat), NEW x \in Nat, NEW t \in 0..x
  PROVE  Cardinality(Since(Append(s, x), t)) = Cardinality(Since(s, t)) + 1
<1>1. PICK u \in Seq(Nat) : /\ u = Append(s, x) /\ Len(u) = Len(s) + 1
                            /\ \A i \in 1..Len(s) : u[i] = s[i]
                            /\ u[Len(s) + 1] = x
  BY AppendPlaces
<1>2. Since(u, t) = Since(s, t) \cup {Len(s) + 1}
  BY <1>1 DEF Since
<1>3. Len(s) + 1 \notin Since(s, t)
  BY DEF Since
<1>4. IsFiniteSet(Since(s, t))
  BY SinceFinite
<1> QED  BY <1>1, <1>2, <1>3, <1>4, FS_AddElement, ZenonT(60)

\* Slots that are popped from the left, all before t, do not count.
LEMMA DropPlaces ==
  ASSUME NEW s \in Seq(Nat), NEW n \in 0..Len(s)
  PROVE  LET u == SubSeq(s, n + 1, Len(s))
         IN  u \in Seq(Nat) /\ Len(u) = Len(s) - n /\ \A i \in 1..Len(u) : u[i] = s[i + n]
<1>1. n + 1 \in Int /\ Len(s) \in Int /\ \A i \in (n + 1)..Len(s) : s[i] \in Nat
  OBVIOUS
<1>2. /\ SubSeq(s, n + 1, Len(s)) \in Seq(Nat)
      /\ Len(SubSeq(s, n + 1, Len(s))) = IF n + 1 <= Len(s) THEN Len(s) - (n + 1) + 1 ELSE 0
      /\ \A i \in 1..(Len(s) - (n + 1) + 1) : SubSeq(s, n + 1, Len(s))[i] = s[(n + 1) + i - 1]
  BY <1>1, SubSeqProperties
<1> QED  BY <1>2

LEMMA SinceDrop ==
  ASSUME NEW s \in Seq(Nat), NEW t \in Nat, NEW n \in 0..Len(s), \A i \in 1..n : s[i] < t
  PROVE  Cardinality(Since(SubSeq(s, n + 1, Len(s)), t)) = Cardinality(Since(s, t))
<1>1. PICK u \in Seq(Nat) : /\ u = SubSeq(s, n + 1, Len(s)) /\ Len(u) = Len(s) - n
                            /\ \A i \in 1..Len(u) : u[i] = s[i + n]
  BY DropPlaces
<1> DEFINE f == [i \in Since(u, t) |-> i + n]
<1>2. f \in Bijection(Since(u, t), Since(s, t))
  <2>1. \A i \in Since(u, t) : i + n \in Since(s, t)
    BY <1>1 DEF Since
  <2>2. \A j \in Since(s, t) : \E i \in Since(u, t) : j = i + n
    <3> SUFFICES ASSUME NEW j \in Since(s, t) PROVE \E i \in Since(u, t) : j = i + n
      OBVIOUS
    <3>1. j \in 1..Len(s) /\ t <= s[j] /\ ~(j \in 1..n)
      BY DEF Since
    <3>2. j - n \in Since(u, t) /\ j = (j - n) + n
      BY <3>1, <1>1 DEF Since
    <3> QED  BY <3>2
  <2>3. \A i, j \in Since(u, t) : i + n = j + n => i = j
    BY DEF Since
  <2>4. f \in [Since(u, t) -> Since(s, t)]
    BY <2>1
  <2>5. \A i \in Since(u, t) : f[i] = i + n
    OBVIOUS
  <2>6. f \in Injection(Since(u, t), Since(s, t))
    BY <2>3, <2>4, <2>5 DEF Injection, IsInjective
  <2>7. f \in Surjection(Since(u, t), Since(s, t))
    BY <2>2, <2>4, <2>5 DEF Surjection
  <2> QED  BY <2>6, <2>7 DEF Bijection
<1>3. ExistsBijection(Since(u, t), Since(s, t))
  BY <1>2 DEF ExistsBijection
<1>4. IsFiniteSet(Since(u, t)) /\ IsFiniteSet(Since(s, t))
  BY SinceFinite
<1> HIDE DEF f
<1> QED  BY <1>1, <1>3, <1>4, FS_Bijection

LEMMA ButLastPlaces ==
  ASSUME NEW s \in Seq(Nat), s # <<>>
  PROVE  LET u == SubSeq(s, 1, Len(s) - 1)
         IN  u \in Seq(Nat) /\ Len(u) = Len(s) - 1 /\ \A i \in 1..Len(u) : u[i] = s[i]
<1>1. 1 \in Int /\ Len(s) - 1 \in Nat /\ \A i \in 1..Len(s) - 1 : s[i] \in Nat
  OBVIOUS
<1>2. PICK n \in Nat : n = Len(s) - 1
  BY <1>1
<1>3. /\ SubSeq(s, 1, n) \in Seq(Nat)
      /\ Len(SubSeq(s, 1, n)) = IF 1 <= n THEN n - 1 + 1 ELSE 0
      /\ \A i \in 1..(n - 1 + 1) : SubSeq(s, 1, n)[i] = s[1 + i - 1]
  BY <1>1, <1>2, SubSeqProperties
<1> QED  BY <1>2, <1>3

\* The newest slot is one at most.
LEMMA SinceButLast ==
  ASSUME NEW s \in Seq(Nat), NEW t \in Nat, s # <<>>
  PROVE  Cardinality(Since(s, t)) <= Cardinality(Since(SubSeq(s, 1, Len(s) - 1), t)) + 1
<1>1. PICK u \in Seq(Nat) : /\ u = SubSeq(s, 1, Len(s) - 1) /\ Len(u) = Len(s) - 1
                            /\ \A i \in 1..Len(u) : u[i] = s[i]
  BY ButLastPlaces
<1>2. Since(s, t) \subseteq Since(u, t) \cup {Len(s)} /\ Len(s) \notin Since(u, t)
  BY <1>1 DEF Since
<1>3. IsFiniteSet(Since(u, t)) /\ Cardinality(Since(u, t)) \in Nat
  BY SinceFinite
<1>4. /\ IsFiniteSet(Since(u, t) \cup {Len(s)})
      /\ Cardinality(Since(u, t) \cup {Len(s)}) = Cardinality(Since(u, t)) + 1
  BY <1>2, <1>3, FS_AddElement
<1>5. Cardinality(Since(s, t)) <= Cardinality(Since(u, t) \cup {Len(s)})
  BY <1>2, <1>4, FS_Subset
<1> QED  BY <1>1, <1>4, <1>5

\* Nothing since t.
LEMMA SinceNone ==
  ASSUME NEW s \in Seq(Nat), NEW t \in Nat, \A i \in 1..Len(s) : s[i] < t
  PROVE  Cardinality(Since(s, t)) = 0
<1>1. Since(s, t) = {}
  BY DEF Since
<1> QED  BY <1>1, FS_EmptySet

\* The state of one budget: k, its bucket b, its expiry e, and the history of
\* what it admitted (a) and got back (r).
Account(k, now, b, e, a, r) ==
    /\ \A i \in 1..Len(a) : a[i] <= now
    /\ \A i \in 1..Len(r) : r[i] <= now
    /\ \A i \in 1..Len(b) : b[i] + WindowOf(k) <= e
    /\ Len(b) <= MaxAttempts
    /\ \A t \in 0..now : t + WindowOf(k) > now =>
          Cardinality(Since(a, t)) <= Cardinality(Since(b, t)) + Cardinality(Since(r, t))
    /\ \A t \in 0..now :
          Cardinality(Within(a, t, k)) <= MaxAttempts + Cardinality(Within(r, t, k))

LEMMA WindowIsPositive == \A k \in Keys : WindowOf(k) \in Nat \ {0}
BY LimitsAssumption DEF WindowOf

\* In a window that is open, the slots within it are those since it began, and a
\* bucket holds MaxAttempts at most.
LEMMA OpenWindow ==
  ASSUME NEW k \in Keys, NEW now \in Nat, NEW b \in Seq(Nat), NEW a \in Seq(Nat), NEW r \in Seq(Nat),
         \A i \in 1..Len(a) : a[i] <= now, \A i \in 1..Len(r) : r[i] <= now, Len(b) <= MaxAttempts,
         NEW t \in 0..now, t + WindowOf(k) > now,
         Cardinality(Since(a, t)) <= Cardinality(Since(b, t)) + Cardinality(Since(r, t))
  PROVE  Cardinality(Within(a, t, k)) <= MaxAttempts + Cardinality(Within(r, t, k))
<1>1. WindowOf(k) \in Nat
  BY WindowIsPositive
<1>2. Within(a, t, k) = Since(a, t) /\ Within(r, t, k) = Since(r, t)
  <2>1. \A i \in 1..Len(a) : a[i] \in Nat /\ a[i] < t + WindowOf(k)
    BY <1>1
  <2>2. \A i \in 1..Len(r) : r[i] \in Nat /\ r[i] < t + WindowOf(k)
    BY <1>1
  <2> QED  BY <2>1, <2>2 DEF Within, Since
<1>3. Cardinality(Since(b, t)) <= MaxAttempts
  <2>1. IsFiniteSet(1..Len(b)) /\ Cardinality(1..Len(b)) = Len(b)
    BY IntervalSize
  <2>2. Since(b, t) \subseteq 1..Len(b)
    BY DEF Since
  <2>3. Cardinality(Since(b, t)) <= Len(b)
    BY <2>1, <2>2, FS_Subset
  <2>4. Cardinality(Since(b, t)) \in Nat /\ MaxAttempts \in Nat
    BY SinceFinite, LimitsAssumption
  <2> QED  BY <2>3, <2>4
<1>4. /\ Cardinality(Since(a, t)) \in Nat /\ Cardinality(Since(b, t)) \in Nat
      /\ Cardinality(Since(r, t)) \in Nat
  BY SinceFinite
<1> QED  BY <1>2, <1>3, <1>4, LimitsAssumption

\* A bucket that is empty, as after reset or when it was reclaimed.
LEMMA AccountEmpty ==
  ASSUME NEW k \in Keys, NEW now \in Nat, NEW b \in Seq(Nat), NEW e \in Nat, NEW a \in Seq(Nat),
         NEW r \in Seq(Nat), Account(k, now, b, e, a, r), e <= now \/ b = <<>>, NEW e2 \in Nat
  PROVE  Account(k, now, <<>>, e2, a, r)
<1>1. WindowOf(k) \in Nat /\ MaxAttempts \in Nat /\ <<>> \in Seq(Nat) /\ Len(<<>>) = 0
  BY WindowIsPositive, LimitsAssumption
<1>2. ASSUME NEW t \in 0..now, t + WindowOf(k) > now
      PROVE  Cardinality(Since(a, t)) <= Cardinality(Since(<<>>, t)) + Cardinality(Since(r, t))
  <2>0. t \in Nat
    OBVIOUS
  <2>1. \A i \in 1..Len(b) : b[i] < t
    BY <1>1, <1>2, SMTT(60) DEF Account
  <2>2. Cardinality(Since(b, t)) = 0
    BY <2>0, <2>1, SinceNone
  <2>3. Since(<<>>, t) = {}
    BY <1>1 DEF Since
  <2>4. Cardinality(Since(<<>>, t)) = 0
    BY <2>3, FS_EmptySet
  <2> QED  BY <1>2, <2>2, <2>4 DEF Account
<1> QED  BY <1>1, <1>2 DEF Account

\* reset forgets what was charged.
LEMMA AccountReset ==
  ASSUME NEW k \in Keys, NEW now \in Nat, NEW b \in Seq(Nat), NEW e \in Nat, NEW a \in Seq(Nat),
         NEW r \in Seq(Nat), Account(k, now, b, e, a, r), NEW e2 \in Nat
  PROVE  Account(k, now, <<>>, e2, <<>>, r)
<1>1. WindowOf(k) \in Nat /\ MaxAttempts \in Nat /\ <<>> \in Seq(Nat) /\ Len(<<>>) = 0
  BY WindowIsPositive, LimitsAssumption
<1>2. ASSUME NEW t \in 0..now
      PROVE  /\ Cardinality(Since(<<>>, t)) <= Cardinality(Since(<<>>, t)) + Cardinality(Since(r, t))
             /\ Cardinality(Within(<<>>, t, k)) <= MaxAttempts + Cardinality(Within(r, t, k))
  <2>0. t \in Nat
    OBVIOUS
  <2>1. Within(<<>>, t, k) = {}
    BY <1>1 DEF Within
  <2>2. Cardinality(Within(<<>>, t, k)) = 0
    BY <2>1, FS_EmptySet
  <2>3. Cardinality(Within(r, t, k)) \in Nat
    BY <2>0, WithinFinite
  <2>4. Cardinality(Since(<<>>, t)) \in Nat /\ Cardinality(Since(r, t)) \in Nat
    BY <1>1, <2>0, SinceFinite
  <2> QED  BY <1>1, <2>2, <2>3, <2>4
<1> QED  BY <1>1, <1>2 DEF Account

\* popleft of slots that have left the window.
LEMMA AccountDrop ==
  ASSUME NEW k \in Keys, NEW now \in Nat, NEW b \in Seq(Nat), NEW e \in Nat, NEW a \in Seq(Nat),
         NEW r \in Seq(Nat), Account(k, now, b, e, a, r), NEW n \in 0..Len(b),
         \A i \in 1..n : b[i] + WindowOf(k) <= now, NEW e2 \in Nat, e <= e2
  PROVE  Account(k, now, SubSeq(b, n + 1, Len(b)), e2, a, r)
<1>1. WindowOf(k) \in Nat /\ MaxAttempts \in Nat
  BY WindowIsPositive, LimitsAssumption
<1>2. PICK u \in Seq(Nat) : /\ u = SubSeq(b, n + 1, Len(b)) /\ Len(u) = Len(b) - n
                            /\ \A i \in 1..Len(u) : u[i] = b[i + n]
  BY DropPlaces
<1>3. ASSUME NEW t \in 0..now, t + WindowOf(k) > now
      PROVE  Cardinality(Since(a, t)) <= Cardinality(Since(u, t)) + Cardinality(Since(r, t))
  <2>0. t \in Nat
    OBVIOUS
  <2>1. \A i \in 1..n : b[i] < t
    BY <1>1, <1>3, SMTT(60)
  <2>2. Cardinality(Since(u, t)) = Cardinality(Since(b, t))
    BY <1>2, <2>0, <2>1, SinceDrop
  <2> QED  BY <1>3, <2>2 DEF Account
<1>4. \A i \in 1..Len(u) : u[i] + WindowOf(k) <= e2
  <2> SUFFICES ASSUME NEW i \in 1..Len(u) PROVE u[i] + WindowOf(k) <= e2
    OBVIOUS
  <2>1. i + n \in 1..Len(b) /\ u[i] = b[i + n]
    BY <1>2
  <2>2. b[i + n] + WindowOf(k) <= e
    BY <2>1 DEF Account
  <2>3. PICK x \in Nat : x = b[i + n]
    BY <2>1, SMTT(60)
  <2>4. x + WindowOf(k) <= e
    BY <2>2, <2>3
  <2>5. x + WindowOf(k) <= e2
    BY ONLY <1>1, <2>4, x \in Nat, e \in Nat, e2 \in Nat, e <= e2
  <2> QED  BY <2>1, <2>3, <2>5
<1>5. Len(u) <= MaxAttempts
  BY <1>1, <1>2 DEF Account
<1>6. Account(k, now, u, e2, a, r)
  BY <1>3, <1>4, <1>5 DEF Account
<1> QED  BY <1>2, <1>6

\* A charge that is admitted.
LEMMA AccountCharge ==
  ASSUME NEW k \in Keys, NEW now \in Nat, NEW b \in Seq(Nat), NEW e \in Nat, NEW a \in Seq(Nat),
         NEW r \in Seq(Nat), Account(k, now, b, e, a, r), Len(b) < MaxAttempts,
         NEW e2 \in Nat, e <= e2, now + WindowOf(k) <= e2
  PROVE  Account(k, now, Append(b, now), e2, Append(a, now), r)
<1>1. WindowOf(k) \in Nat \ {0} /\ MaxAttempts \in Nat
  BY WindowIsPositive, LimitsAssumption
<1>2. PICK u \in Seq(Nat) : /\ u = Append(b, now) /\ Len(u) = Len(b) + 1
                            /\ \A i \in 1..Len(b) : u[i] = b[i]
                            /\ u[Len(b) + 1] = now
  BY AppendPlaces
<1>3. PICK v \in Seq(Nat) : /\ v = Append(a, now) /\ Len(v) = Len(a) + 1
                            /\ \A i \in 1..Len(a) : v[i] = a[i]
                            /\ v[Len(a) + 1] = now
  BY AppendPlaces
<1>4. \A i \in 1..Len(v) : v[i] <= now
  <2> SUFFICES ASSUME NEW i \in 1..Len(v) PROVE v[i] <= now
    OBVIOUS
  <2>1. i \in 1..Len(a) \/ i = Len(a) + 1
    BY <1>3
  <2> QED  BY <1>3, <2>1 DEF Account
<1>5. \A i \in 1..Len(u) : u[i] + WindowOf(k) <= e2
  <2> SUFFICES ASSUME NEW i \in 1..Len(u) PROVE u[i] + WindowOf(k) <= e2
    OBVIOUS
  <2>1. i \in 1..Len(b) \/ i = Len(b) + 1
    BY <1>2
  <2>2. i \in 1..Len(b) => b[i] + WindowOf(k) <= e /\ b[i] \in Nat
    BY SMTT(60) DEF Account
  <2> QED  BY <1>1, <1>2, <2>1, <2>2, SMTT(60)
<1>6. Len(u) <= MaxAttempts
  BY <1>1, <1>2
<1>7. ASSUME NEW t \in 0..now, t + WindowOf(k) > now
      PROVE  Cardinality(Since(v, t)) <= Cardinality(Since(u, t)) + Cardinality(Since(r, t))
  <2>0. t \in Nat
    OBVIOUS
  <2>1. /\ Cardinality(Since(v, t)) = Cardinality(Since(a, t)) + 1
        /\ Cardinality(Since(u, t)) = Cardinality(Since(b, t)) + 1
    BY <1>2, <1>3, SinceAppend
  <2>2. Cardinality(Since(a, t)) <= Cardinality(Since(b, t)) + Cardinality(Since(r, t))
    BY <1>7 DEF Account
  <2>3. /\ Cardinality(Since(a, t)) \in Nat /\ Cardinality(Since(b, t)) \in Nat
        /\ Cardinality(Since(r, t)) \in Nat
    BY <2>0, SinceFinite
  <2> QED  BY <2>1, <2>2, <2>3
<1>8. ASSUME NEW t \in 0..now
      PROVE  Cardinality(Within(v, t, k)) <= MaxAttempts + Cardinality(Within(r, t, k))
  <2>0. t \in Nat
    OBVIOUS
  <2>1. CASE t + WindowOf(k) > now
    <3>1. \A i \in 1..Len(r) : r[i] <= now
      BY DEF Account
    <3> QED  BY <1>4, <1>6, <1>7, <2>1, <3>1, OpenWindow
  <2>2. CASE ~(t + WindowOf(k) > now)
    <3>1. Within(v, t, k) = Within(a, t, k)
      BY <1>1, <1>3, <2>2 DEF Within
    <3> QED  BY <3>1 DEF Account
  <2> QED  BY <2>1, <2>2
<1>9. Account(k, now, u, e2, v, r)
  BY <1>4, <1>5, <1>6, <1>7, <1>8 DEF Account
<1> QED  BY <1>2, <1>3, <1>9

\* A slot that is given back.
LEMMA AccountGiveBack ==
  ASSUME NEW k \in Keys, NEW now \in Nat, NEW b \in Seq(Nat), NEW e \in Nat, NEW a \in Seq(Nat),
         NEW r \in Seq(Nat), Account(k, now, b, e, a, r), b # <<>>
  PROVE  Account(k, now, SubSeq(b, 1, Len(b) - 1), e, a, Append(r, now))
<1>1. WindowOf(k) \in Nat \ {0} /\ MaxAttempts \in Nat
  BY WindowIsPositive, LimitsAssumption
<1>2. PICK u \in Seq(Nat) : /\ u = SubSeq(b, 1, Len(b) - 1) /\ Len(u) = Len(b) - 1
                            /\ \A i \in 1..Len(u) : u[i] = b[i]
  BY ButLastPlaces
<1>3. PICK v \in Seq(Nat) : /\ v = Append(r, now) /\ Len(v) = Len(r) + 1
                            /\ \A i \in 1..Len(r) : v[i] = r[i]
                            /\ v[Len(r) + 1] = now
  BY AppendPlaces
<1>4. \A i \in 1..Len(v) : v[i] <= now
  <2> SUFFICES ASSUME NEW i \in 1..Len(v) PROVE v[i] <= now
    OBVIOUS
  <2>0. Len(r) \in Nat
    OBVIOUS
  <2>1. i # Len(r) + 1 => i \in 1..Len(r)
    <3>1. PICK m \in Nat : m = Len(r)
      BY <2>0
    <3>2. i \in 1..(m + 1)
      BY <1>3, <3>1
    <3>3. i # m + 1 => i \in 1..m
      BY ONLY <3>2, m \in Nat
    <3> QED  BY <3>1, <3>3
  <2> QED  BY <1>3, <2>1 DEF Account
<1>5. \A i \in 1..Len(u) : u[i] + WindowOf(k) <= e
  BY <1>2 DEF Account
<1>6. Len(u) <= MaxAttempts
  BY <1>1, <1>2 DEF Account
<1>7. ASSUME NEW t \in 0..now, t + WindowOf(k) > now
      PROVE  Cardinality(Since(a, t)) <= Cardinality(Since(u, t)) + Cardinality(Since(v, t))
  <2>0. t \in Nat
    OBVIOUS
  <2>1. /\ Cardinality(Since(v, t)) = Cardinality(Since(r, t)) + 1
        /\ Cardinality(Since(b, t)) <= Cardinality(Since(u, t)) + 1
    BY <1>2, <1>3, <2>0, SinceAppend, SinceButLast
  <2>2. Cardinality(Since(a, t)) <= Cardinality(Since(b, t)) + Cardinality(Since(r, t))
    BY <1>7 DEF Account
  <2>3. /\ Cardinality(Since(a, t)) \in Nat /\ Cardinality(Since(b, t)) \in Nat
        /\ Cardinality(Since(r, t)) \in Nat /\ Cardinality(Since(u, t)) \in Nat
    BY <2>0, SinceFinite
  <2> QED  BY <2>1, <2>2, <2>3, SMTT(60)
<1>8. ASSUME NEW t \in 0..now
      PROVE  Cardinality(Within(a, t, k)) <= MaxAttempts + Cardinality(Within(v, t, k))
  <2>0. t \in Nat
    OBVIOUS
  <2>1. CASE t + WindowOf(k) > now
    <3>1. \A i \in 1..Len(a) : a[i] <= now
      BY DEF Account
    <3> QED  BY <1>4, <1>6, <1>7, <2>1, <3>1, OpenWindow
  <2>2. CASE ~(t + WindowOf(k) > now)
    <3>1. Within(v, t, k) = Within(r, t, k)
      BY <1>1, <1>3, <2>2 DEF Within
    <3> QED  BY <3>1 DEF Account
  <2> QED  BY <2>1, <2>2
<1>9. \A i \in 1..Len(a) : a[i] <= now
  BY DEF Account
<1>10. Account(k, now, u, e, a, v)
  BY <1>4, <1>5, <1>6, <1>7, <1>8, <1>9 DEF Account
<1> QED  BY <1>2, <1>3, <1>10

\* A second passes.
LEMMA AccountTick ==
  ASSUME NEW k \in Keys, NEW now \in Nat, NEW b \in Seq(Nat), NEW e \in Nat, NEW a \in Seq(Nat),
         NEW r \in Seq(Nat), Account(k, now, b, e, a, r)
  PROVE  Account(k, now + 1, b, e, a, r)
<1>1. WindowOf(k) \in Nat \ {0} /\ MaxAttempts \in Nat
  BY WindowIsPositive, LimitsAssumption
<1>2. /\ \A i \in 1..Len(a) : a[i] <= now /\ a[i] \in Nat
      /\ \A i \in 1..Len(r) : r[i] <= now /\ r[i] \in Nat
  BY DEF Account
<1>3. /\ \A i \in 1..Len(a) : a[i] <= now + 1
      /\ \A i \in 1..Len(r) : r[i] <= now + 1
  <2>1. \A x \in Nat : x <= now => x <= now + 1
    OBVIOUS
  <2> QED  BY <1>2, <2>1
<1>4. ASSUME NEW t \in 0..(now + 1), t + WindowOf(k) > now + 1
      PROVE  Cardinality(Since(a, t)) <= Cardinality(Since(b, t)) + Cardinality(Since(r, t))
  <2>0. t \in Nat
    OBVIOUS
  <2>1. CASE t \in 0..now
    BY <1>1, <1>4, <2>1 DEF Account
  <2>2. CASE t = now + 1
    <3>1. Cardinality(Since(a, t)) = 0
      <4>1. \A i \in 1..Len(a) : a[i] < t
        BY <1>2, <2>2
      <4> QED  BY <2>0, <4>1, SinceNone
    <3>2. Cardinality(Since(b, t)) \in Nat /\ Cardinality(Since(r, t)) \in Nat
      BY <2>0, SinceFinite
    <3>3. \A p, q \in Nat : 0 <= p + q
      OBVIOUS
    <3> QED  BY <3>1, <3>2, <3>3
  <2> QED  BY <2>1, <2>2
<1>5. ASSUME NEW t \in 0..(now + 1)
      PROVE  Cardinality(Within(a, t, k)) <= MaxAttempts + Cardinality(Within(r, t, k))
  <2>0. t \in Nat
    OBVIOUS
  <2>1. CASE t \in 0..now
    BY <2>1 DEF Account
  <2>2. CASE t = now + 1
    <3>1. Within(a, t, k) = {}
      BY <1>2, <2>2 DEF Within
    <3>2. Cardinality(Within(a, t, k)) = 0
      BY <3>1, FS_EmptySet
    <3>3. Cardinality(Within(r, t, k)) \in Nat
      BY <2>0, WithinFinite
    <3> QED  BY <1>1, <3>2, <3>3
  <2> QED  BY <2>1, <2>2
<1>6. (\A i \in 1..Len(b) : b[i] + WindowOf(k) <= e) /\ Len(b) <= MaxAttempts
  BY DEF Account
<1> QED  BY <1>3, <1>4, <1>5, <1>6 DEF Account

-----------------------------------------------------------------------------

Times == 0..Horizon

LEMMA TimesAreNumbers == \A s \in Seq(Times) : s \in Seq(Nat)
<1>1. Times \subseteq Nat
  BY LimitsAssumption DEF Times
<1> SUFFICES ASSUME NEW s \in Seq(Times) PROVE s \in Seq(Nat)
  OBVIOUS
<1>2. PICK n \in Nat : s \in [1..n -> Times]
  BY SeqDef
<1>3. s \in [1..n -> Nat]
  BY <1>1, <1>2
<1> QED  BY <1>3, SeqDef

LEMMA TimesCut ==
  ASSUME NEW s \in Seq(Times), NEW m \in Nat, m >= 1, NEW n \in Nat, n <= Len(s)
  PROVE  SubSeq(s, m, n) \in Seq(Times)
<1>1. m \in Int /\ n \in Int /\ \A i \in m..n : s[i] \in Times
  OBVIOUS
<1> QED  BY <1>1, SubSeqProperties

AllAccounts ==
    \A k \in Keys : Account(k, time, Bucket(k), expires[k], admitted[k], returned[k])

\* The invariant says the same of every key.
LEMMA AccountsAreParts ==
  LimitIInv <=> LimitTypeOK /\ AllAccounts
<1>1. ASSUME LimitTypeOK PROVE ExpiresLast <=> \A k \in Keys : \A i \in 1..Len(Bucket(k)) :
                                                  Bucket(k)[i] + WindowOf(k) <= expires[k]
  <2>1. stored \subseteq Keys /\ Len(<<>>) = 0
    BY <1>1 DEF LimitTypeOK
  <2> QED  BY <2>1 DEF ExpiresLast, Bucket
<1>2. ASSUME LimitTypeOK
      PROVE  (DatedByNow /\ ExpiresLast /\ BucketsFit /\ SlotsAreAccounted /\ BudgetIsKept) <=> AllAccounts
  <2> HIDE DEF ExpiresLast
  <2> QED  BY <1>1, <1>2, Zenon DEF DatedByNow, BucketsFit, SlotsAreAccounted, BudgetIsKept, AllAccounts, Account
<1> QED  BY <1>2 DEF LimitIInv

\* What the accounts of a typed state are made of.
LEMMA AccountTypes ==
  ASSUME LimitTypeOK, NEW k \in Keys
  PROVE  /\ time \in Nat /\ expires[k] \in Nat /\ events[k] \in Seq(Nat) /\ Bucket(k) \in Seq(Nat)
         /\ admitted[k] \in Seq(Nat) /\ returned[k] \in Seq(Nat)
         /\ events[k] \in Seq(Times) /\ time \in Times
<1>1. /\ events[k] \in Seq(Times) /\ admitted[k] \in Seq(Times) /\ returned[k] \in Seq(Times)
      /\ time \in Times /\ expires[k] \in Nat
  BY DEF LimitTypeOK, Times
<1>2. time \in Nat /\ <<>> \in Seq(Nat)
  BY <1>1, LimitsAssumption DEF Times
<1> QED  BY <1>1, <1>2, TimesAreNumbers DEF Bucket

\* Keys that are reclaimed, or stay, while k is charged.
LEMMA ReclaimedAccount ==
  ASSUME LimitTypeOK, AllAccounts, NEW room \in SUBSET stored,
         \A j \in stored \ room : expires[j] <= time, NEW j \in Keys, NEW b,
         b = IF j \in room THEN events[j] ELSE <<>>
  PROVE  Account(j, time, b, expires[j], admitted[j], returned[j])
<1>1. Account(j, time, Bucket(j), expires[j], admitted[j], returned[j])
  BY DEF AllAccounts
<1>2. CASE j \in room \/ j \notin stored
  BY <1>1, <1>2 DEF Bucket
<1>3. CASE j \in stored \ room
  <2>1. b = <<>> /\ expires[j] <= time
    BY <1>3
  <2> QED  BY <1>1, <2>1, AccountTypes, AccountEmpty
<1> QED  BY <1>2, <1>3

\* allow keeps every account.
LEMMA AllowKeeps ==
  ASSUME LimitTypeOK, AllAccounts, NEW k \in Keys, NEW ok \in BOOLEAN, Allow(k, ok),
         time' = time, returned' = returned
  PROVE  /\ events' \in [Keys -> Seq(Times)] /\ stored' \subseteq Keys /\ expires' \in [Keys -> Nat]
         /\ admitted' \in [Keys -> Seq(Times)]
         /\ AllAccounts'
<1>1. PICK clean \in BOOLEAN, n \in {m \in 0..Len(events[k]) : Outdated(k, m)} :
        LET kept == IF clean THEN Reclaim(stored) ELSE stored
            room == IF k \notin kept /\ Cardinality(kept) >= MaxKeys THEN Reclaim(kept) ELSE kept
            old  == IF k \in room THEN SubSeq(events[k], n + 1, Len(events[k])) ELSE <<>>
            last == IF old = <<>> THEN time ELSE old[Len(old)]
            till == Latest(IF k \in room THEN expires[k] ELSE 0, last + WindowOf(k))
        IN  IF k \notin room /\ Cardinality(room) >= MaxKeys
            THEN /\ ok = FALSE
                 /\ stored' = room
                 /\ UNCHANGED <<events, expires, admitted>>
            ELSE /\ stored' = room \cup {k}
                 /\ ok = (Len(old) < MaxAttempts)
                 /\ events' = [events EXCEPT ![k] = IF ok THEN Append(old, time) ELSE old]
                 /\ expires' = [expires EXCEPT ![k] = IF ok THEN Latest(till, time + WindowOf(k))
                                                            ELSE till]
                 /\ admitted' = IF ok THEN [admitted EXCEPT ![k] = Append(@, time)] ELSE admitted
  BY Zenon DEF Allow
<1>2. PICK room \in SUBSET stored :
        /\ \A j \in stored \ room : expires[j] <= time
        /\ LET old  == IF k \in room THEN SubSeq(events[k], n + 1, Len(events[k])) ELSE <<>>
               last == IF old = <<>> THEN time ELSE old[Len(old)]
               till == Latest(IF k \in room THEN expires[k] ELSE 0, last + WindowOf(k))
           IN  \/ /\ k \notin room /\ stored' = room /\ UNCHANGED <<events, expires, admitted>>
               \/ /\ stored' = room \cup {k}
                  /\ ok = (Len(old) < MaxAttempts)
                  /\ events' = [events EXCEPT ![k] = IF ok THEN Append(old, time) ELSE old]
                  /\ expires' = [expires EXCEPT ![k] = IF ok THEN Latest(till, time + WindowOf(k))
                                                             ELSE till]
                  /\ admitted' = IF ok THEN [admitted EXCEPT ![k] = Append(@, time)] ELSE admitted
  <2> DEFINE kept == IF clean THEN Reclaim(stored) ELSE stored
             room == IF k \notin kept /\ Cardinality(kept) >= MaxKeys THEN Reclaim(kept) ELSE kept
  <2>1. \A S \in SUBSET stored : Reclaim(S) \subseteq S /\ \A j \in S \ Reclaim(S) : expires[j] <= time
    <3>1. \A j \in stored : expires[j] \in Nat /\ time \in Nat
      BY AccountTypes DEF LimitTypeOK
    <3> QED  BY <3>1 DEF Reclaim
  <2>2. kept \subseteq stored /\ \A j \in stored \ kept : expires[j] <= time
    BY <2>1
  <2>3. room \subseteq kept /\ \A j \in kept \ room : expires[j] <= time
    <3> HIDE DEF kept
    <3> QED  BY <2>1, <2>2
  <2>4. room \in SUBSET stored /\ \A j \in stored \ room : expires[j] <= time
    <3> HIDE DEF room, kept
    <3> QED  BY <2>2, <2>3
  <2> room \in SUBSET stored
    BY <2>4, SMTT(60)
  <2> WITNESS room \in SUBSET stored
  <2> QED  BY <1>1, <2>4, Zenon
<1>3. PICK old, last : /\ old = IF k \in room THEN SubSeq(events[k], n + 1, Len(events[k])) ELSE <<>>
                       /\ last = IF old = <<>> THEN time ELSE old[Len(old)]
  OBVIOUS
<1>4. PICK till : till = Latest(IF k \in room THEN expires[k] ELSE 0, last + WindowOf(k))
  OBVIOUS
<1>5. WindowOf(k) \in Nat /\ time \in Nat /\ expires[k] \in Nat /\ n \in 0..Len(events[k])
      /\ stored \subseteq Keys
  BY WindowIsPositive, AccountTypes DEF LimitTypeOK
<1>6. old \in Seq(Times) /\ old \in Seq(Nat)
  <2>1. <<>> \in Seq(Times) /\ events[k] \in Seq(Times)
    BY AccountTypes
  <2>2. n + 1 \in Nat /\ n + 1 >= 1 /\ Len(events[k]) \in Nat /\ Len(events[k]) <= Len(events[k])
    BY <1>5, <2>1
  <2>3. SubSeq(events[k], n + 1, Len(events[k])) \in Seq(Times)
    BY <2>1, <2>2, TimesCut
  <2> QED  BY <1>3, <2>1, <2>3, TimesAreNumbers
<1>7. last \in Nat
  <2>1. old # <<>> => old[Len(old)] \in Nat
    BY <1>6
  <2> QED  BY <1>3, <1>5, <2>1
<1>8. till \in Nat /\ (k \in room => expires[k] <= till)
  BY <1>4, <1>5, <1>7 DEF Latest
<1>9. \A j \in Keys : Account(j, time, IF j \in room THEN events[j] ELSE <<>>, expires[j],
                              admitted[j], returned[j])
  BY <1>2, ReclaimedAccount
<1>10. CASE k \notin room /\ stored' = room /\ UNCHANGED <<events, expires, admitted>>
  <2>1. /\ events' \in [Keys -> Seq(Times)] /\ stored' \subseteq Keys /\ expires' \in [Keys -> Nat]
        /\ admitted' \in [Keys -> Seq(Times)]
    BY <1>10, <1>5 DEF LimitTypeOK, Times
  <2>2. \A j \in Keys : /\ Bucket(j)' = (IF j \in room THEN events[j] ELSE <<>>)
                        /\ expires'[j] = expires[j] /\ admitted'[j] = admitted[j]
                        /\ returned'[j] = returned[j]
    BY <1>10 DEF Bucket
  <2>3. AllAccounts'
    BY <1>9, <2>2 DEF AllAccounts
  <2> QED  BY <2>1, <2>3
<1>11. CASE /\ stored' = room \cup {k}
            /\ ok = (Len(old) < MaxAttempts)
            /\ events' = [events EXCEPT ![k] = IF ok THEN Append(old, time) ELSE old]
            /\ expires' = [expires EXCEPT ![k] = IF ok THEN Latest(till, time + WindowOf(k)) ELSE till]
            /\ admitted' = IF ok THEN [admitted EXCEPT ![k] = Append(@, time)] ELSE admitted
  <2>1. /\ events \in [Keys -> Seq(Times)] /\ expires \in [Keys -> Nat]
        /\ admitted \in [Keys -> Seq(Times)] /\ time \in Times
    BY DEF LimitTypeOK, Times
  <2>2. PICK now, e2, a2 : /\ now = IF ok THEN Append(old, time) ELSE old
                           /\ e2 = IF ok THEN Latest(till, time + WindowOf(k)) ELSE till
                           /\ a2 = IF ok THEN Append(admitted[k], time) ELSE admitted[k]
    OBVIOUS
  <2>3. now \in Seq(Times) /\ e2 \in Nat /\ till <= e2 /\ (ok => time + WindowOf(k) <= e2)
    <3>1. now \in Seq(Times)
      BY <1>6, <2>1, <2>2
    <3>2. e2 \in Nat /\ till <= e2 /\ (ok => time + WindowOf(k) <= e2)
      BY <1>5, <1>8, <2>2 DEF Latest
    <3> QED  BY <3>1, <3>2
  <2>4. a2 \in Seq(Times)
    BY <2>1, <2>2
  <2>5. admitted' = [admitted EXCEPT ![k] = a2]
    BY <1>11, <2>1, <2>2
  <2>6. events' = [events EXCEPT ![k] = now] /\ expires' = [expires EXCEPT ![k] = e2]
    BY <1>11, <2>2
  <2>7. /\ events' \in [Keys -> Seq(Times)] /\ expires' \in [Keys -> Nat]
        /\ admitted' \in [Keys -> Seq(Times)] /\ stored' \subseteq Keys
    <3>1. stored' \subseteq Keys
      BY <1>5, <1>11
    <3>2. events' \in [Keys -> Seq(Times)] /\ admitted' \in [Keys -> Seq(Times)]
      BY ONLY <2>1, <2>3, <2>4, <2>5, <2>6, k \in Keys, Zenon
    <3>3. expires' \in [Keys -> Nat]
      BY ONLY <2>1, <2>3, <2>6, k \in Keys, Zenon
    <3> QED  BY <3>1, <3>2, <3>3
  <2>8. /\ Bucket(k)' = now /\ expires'[k] = e2 /\ admitted'[k] = a2
        /\ \A j \in Keys \ {k} : /\ Bucket(j)' = (IF j \in room THEN events[j] ELSE <<>>)
                                 /\ expires'[j] = expires[j] /\ admitted'[j] = admitted[j]
    <3>1. /\ events'[k] = now /\ expires'[k] = e2 /\ admitted'[k] = a2
          /\ \A j \in Keys \ {k} : /\ events'[j] = events[j] /\ expires'[j] = expires[j]
                                   /\ admitted'[j] = admitted[j]
      BY <2>1, <2>5, <2>6
    <3> QED  BY <1>11, <3>1, Zenon DEF Bucket
  <2>9. Account(k, time, old, till, admitted[k], returned[k])
    <3>1. CASE k \in room
      <4>1. Account(k, time, events[k], expires[k], admitted[k], returned[k])
        BY <1>9, <3>1
      <4>2. \A i \in 1..n : events[k][i] + WindowOf(k) <= time
        BY DEF Outdated
      <4>3. Account(k, time, SubSeq(events[k], n + 1, Len(events[k])), till, admitted[k], returned[k])
        BY <1>5, <1>8, <3>1, <4>1, <4>2, AccountDrop, AccountTypes
      <4> QED  BY <1>3, <3>1, <4>3
    <3>2. CASE k \notin room
      <4>1. Account(k, time, <<>>, expires[k], admitted[k], returned[k])
        BY <1>9, <3>2
      <4>2. <<>> \in Seq(Nat)
        OBVIOUS
      <4>3. Account(k, time, <<>>, till, admitted[k], returned[k])
        BY <1>8, <4>1, <4>2, AccountEmpty, AccountTypes
      <4> QED  BY <1>3, <3>2, <4>3
    <3> QED  BY <3>1, <3>2
  <2>10. Account(k, time, now, e2, a2, returned[k])
    <3>1. CASE ok
      BY <1>6, <1>8, <1>11, <2>2, <2>3, <2>9, <3>1, AccountCharge, AccountTypes
    <3>2. CASE ~ok
      BY <2>2, <2>9, <3>2
    <3> QED  BY <3>1, <3>2
  <2>11. \A j \in Keys : Account(j, time, Bucket(j)', expires'[j], admitted'[j], returned[j])
    <3> SUFFICES ASSUME NEW j \in Keys
                 PROVE  Account(j, time, Bucket(j)', expires'[j], admitted'[j], returned[j])
      OBVIOUS
    <3>1. CASE j = k
      BY <2>8, <2>10, <3>1
    <3>2. CASE j # k
      BY <1>9, <2>8, <3>2
    <3> QED  BY <3>1, <3>2
  <2> QED  BY <2>7, <2>11 DEF AllAccounts
<1> QED  BY <1>2, <1>3, <1>4, <1>10, <1>11

\* Where the sign-ins are.
SignIns == [pc : {"idle", "address", "verify", "right", "refund", "over"},
            account : AccountKeys, address : AddressKeys, ok : BOOLEAN]

LEMMA LimitStep ==
  ASSUME LimitTypeOK, AllAccounts, [LimitNext]_limitVars
  PROVE  LimitTypeOK' /\ AllAccounts'
<1>1. /\ time \in Times /\ events \in [Keys -> Seq(Times)] /\ stored \subseteq Keys
      /\ expires \in [Keys -> Nat] /\ attempt \in [Attempts -> SignIns]
      /\ admitted \in [Keys -> Seq(Times)] /\ returned \in [Keys -> Seq(Times)]
  BY DEF LimitTypeOK, Times, SignIns
<1>2. ASSUME time' \in Times, events' \in [Keys -> Seq(Times)], stored' \subseteq Keys,
             expires' \in [Keys -> Nat], attempt' \in [Attempts -> SignIns],
             admitted' \in [Keys -> Seq(Times)], returned' \in [Keys -> Seq(Times)]
      PROVE  LimitTypeOK'
  BY <1>2 DEF LimitTypeOK, Times, SignIns
<1>3. \A i \in Attempts : /\ attempt[i].account \in Keys /\ attempt[i].address \in Keys
                          /\ attempt[i].account \in AccountKeys /\ attempt[i].address \in AddressKeys
                          /\ attempt[i].ok \in BOOLEAN
  BY <1>1 DEF SignIns, Keys
<1>4. \A k \in Keys : Account(k, time, Bucket(k), expires[k], admitted[k], returned[k])
  BY DEF AllAccounts
<1>5. CASE LimitTick
  <2>1. /\ time < Horizon /\ time' = time + 1
        /\ UNCHANGED <<events, stored, expires, attempt, admitted, returned>>
    BY <1>5 DEF LimitTick
  <2>2. time' \in Times
    BY <1>1, <2>1, LimitsAssumption DEF Times
  <2>3. \A k \in Keys : Account(k, time + 1, Bucket(k), expires[k], admitted[k], returned[k])
    BY <1>4, AccountTick, AccountTypes
  <2>4. \A k \in Keys : Bucket(k)' = Bucket(k)
    BY <2>1 DEF Bucket
  <2>5. AllAccounts'
    BY <2>1, <2>3, <2>4 DEF AllAccounts
  <2> QED  BY <1>1, <1>2, <2>1, <2>2, <2>5
<1>6. CASE \E i \in Attempts, k \in AccountKeys, d \in AddressKeys : ChargeAccount(i, k, d)
  <2>1. PICK i \in Attempts, k \in AccountKeys, d \in AddressKeys : ChargeAccount(i, k, d)
    BY <1>6
  <2>2. PICK ok \in BOOLEAN :
          /\ Allow(k, ok) /\ UNCHANGED <<time, returned>>
          /\ attempt' = [attempt EXCEPT ![i] = [pc |-> "address", account |-> k, address |-> d, ok |-> ok]]
    BY <2>1 DEF ChargeAccount
  <2>3. attempt' \in [Attempts -> SignIns]
    <3>1. PICK new \in SignIns : new = [pc |-> "address", account |-> k, address |-> d, ok |-> ok]
      BY DEF SignIns
    <3> QED  BY <1>1, <2>2, <3>1
  <2>4. k \in Keys
    BY DEF Keys
  <2>5. /\ events' \in [Keys -> Seq(Times)] /\ stored' \subseteq Keys /\ expires' \in [Keys -> Nat]
        /\ admitted' \in [Keys -> Seq(Times)] /\ AllAccounts'
    BY <2>2, <2>4, AllowKeeps
  <2> QED  BY <1>1, <1>2, <2>2, <2>3, <2>5
<1>7. ASSUME NEW i \in Attempts, ChargeAddress(i) PROVE LimitTypeOK' /\ AllAccounts'
  <2>1. PICK ok \in BOOLEAN :
          /\ Allow(attempt[i].address, ok) /\ UNCHANGED <<time, returned>>
          /\ attempt' = [attempt EXCEPT ![i].pc = IF attempt[i].ok /\ ok THEN "verify" ELSE "over",
                                        ![i].ok = attempt[i].ok /\ ok]
    BY <1>7 DEF ChargeAddress
  <2>2. attempt' \in [Attempts -> SignIns]
    <3>1. PICK p \in {"verify", "over"}, b \in BOOLEAN :
             attempt' = [attempt EXCEPT ![i].pc = p, ![i].ok = b]
      BY <1>3, <2>1
    <3> QED  BY <1>1, <3>1, ZenonT(60) DEF SignIns
  <2>3. /\ events' \in [Keys -> Seq(Times)] /\ stored' \subseteq Keys /\ expires' \in [Keys -> Nat]
        /\ admitted' \in [Keys -> Seq(Times)] /\ AllAccounts'
    BY <1>3, <2>1, AllowKeeps
  <2> QED  BY <1>1, <1>2, <2>1, <2>2, <2>3
<1>8. ASSUME NEW i \in Attempts, Wrong(i) PROVE LimitTypeOK' /\ AllAccounts'
  <2>1. /\ attempt' = [attempt EXCEPT ![i].pc = "over"]
        /\ UNCHANGED <<time, events, stored, expires, admitted, returned>>
    BY <1>8 DEF Wrong
  <2>2. attempt' \in [Attempts -> SignIns]
    BY <1>1, <2>1 DEF SignIns
  <2>3. AllAccounts'
    BY <1>4, <2>1 DEF AllAccounts, Bucket
  <2> QED  BY <1>1, <1>2, <2>1, <2>2, <2>3
<1>9. ASSUME NEW i \in Attempts, Right(i) PROVE LimitTypeOK' /\ AllAccounts'
  <2>1. PICK k \in Keys : k = attempt[i].account
    BY <1>3
  <2>2. /\ attempt' = [attempt EXCEPT ![i].pc = "refund"]
        /\ stored' = stored \ {k} /\ events' = [events EXCEPT ![k] = <<>>]
        /\ expires' = [expires EXCEPT ![k] = 0] /\ admitted' = [admitted EXCEPT ![k] = <<>>]
        /\ UNCHANGED <<time, returned>>
    BY <1>9, <2>1 DEF Right
  <2>3. attempt' \in [Attempts -> SignIns]
    BY <1>1, <2>2 DEF SignIns
  <2>4. /\ events' \in [Keys -> Seq(Times)] /\ expires' \in [Keys -> Nat]
        /\ admitted' \in [Keys -> Seq(Times)] /\ stored' \subseteq Keys
    <3>1. <<>> \in Seq(Times) /\ 0 \in Nat
      OBVIOUS
    <3>2. events' \in [Keys -> Seq(Times)] /\ admitted' \in [Keys -> Seq(Times)]
      BY ONLY <1>1, <2>2, <3>1, Zenon
    <3>3. expires' \in [Keys -> Nat] /\ stored' \subseteq Keys
      BY <1>1, <2>2, <3>1
    <3> QED  BY <3>2, <3>3
  <2>5. /\ Bucket(k)' = <<>> /\ expires'[k] = 0 /\ admitted'[k] = <<>>
        /\ \A j \in Keys \ {k} : /\ Bucket(j)' = Bucket(j) /\ expires'[j] = expires[j]
                                 /\ admitted'[j] = admitted[j]
    <3>1. /\ expires'[k] = 0 /\ admitted'[k] = <<>>
          /\ \A j \in Keys \ {k} : /\ events'[j] = events[j] /\ expires'[j] = expires[j]
                                   /\ admitted'[j] = admitted[j]
      BY <1>1, <2>2
    <3> QED  BY <2>2, <3>1, Zenon DEF Bucket
  <2>6. \A j \in Keys : Account(j, time, Bucket(j)', expires'[j], admitted'[j], returned[j])
    <3> SUFFICES ASSUME NEW j \in Keys
                 PROVE  Account(j, time, Bucket(j)', expires'[j], admitted'[j], returned[j])
      OBVIOUS
    <3>1. CASE j = k
      <4>1. Account(k, time, <<>>, 0, <<>>, returned[k])
        BY <1>4, AccountReset, AccountTypes
      <4> QED  BY <2>5, <3>1, <4>1
    <3>2. CASE j # k
      BY <1>4, <2>5, <3>2
    <3> QED  BY <3>1, <3>2
  <2>7. AllAccounts'
    BY <2>2, <2>6 DEF AllAccounts
  <2> QED  BY <1>1, <1>2, <2>2, <2>3, <2>4, <2>7
<1>10. ASSUME NEW i \in Attempts, GiveBack(i) PROVE LimitTypeOK' /\ AllAccounts'
  <2>1. PICK d \in Keys : d = attempt[i].address
    BY <1>3
  <2>2. PICK left : left = SubSeq(events[d], 1, Len(events[d]) - 1)
    OBVIOUS
  <2>3. /\ attempt' = [attempt EXCEPT ![i].pc = "over"] /\ UNCHANGED <<time, admitted>>
        /\ \/ /\ d \in stored /\ events[d] # <<>>
              /\ events' = [events EXCEPT ![d] = left]
              /\ stored' = IF left = <<>> THEN stored \ {d} ELSE stored
              /\ expires' = IF left = <<>> THEN [expires EXCEPT ![d] = 0] ELSE expires
              /\ returned' = [returned EXCEPT ![d] = Append(@, time)]
           \/ UNCHANGED <<events, stored, expires, returned>>
    BY <1>10, <2>1, <2>2 DEF GiveBack, Refund
  <2>4. attempt' \in [Attempts -> SignIns]
    BY <1>1, <2>3 DEF SignIns
  <2>5. CASE UNCHANGED <<events, stored, expires, returned>>
    <3>1. AllAccounts'
      BY <1>4, <2>3, <2>5 DEF AllAccounts, Bucket
    <3> QED  BY <1>1, <1>2, <2>3, <2>4, <2>5, <3>1
  <2>6. CASE /\ d \in stored /\ events[d] # <<>>
             /\ events' = [events EXCEPT ![d] = left]
             /\ stored' = IF left = <<>> THEN stored \ {d} ELSE stored
             /\ expires' = IF left = <<>> THEN [expires EXCEPT ![d] = 0] ELSE expires
             /\ returned' = [returned EXCEPT ![d] = Append(@, time)]
    <3>1. left \in Seq(Times) /\ left \in Seq(Nat)
      <4>1. events[d] \in Seq(Times) /\ 1 \in Nat /\ 1 >= 1 /\ Len(events[d]) - 1 \in Nat
            /\ Len(events[d]) - 1 <= Len(events[d])
        BY <2>6, AccountTypes
      <4> QED  BY <2>2, <4>1, TimesCut, TimesAreNumbers
    <3>2. PICK r2 \in Seq(Times) : r2 = Append(returned[d], time)
      <4>1. returned[d] \in Seq(Times) /\ time \in Times
        BY <1>1
      <4>2. Append(returned[d], time) \in Seq(Times)
        BY <4>1, AppendProperties
      <4> QED  BY <4>2, Zenon
    <3>3. PICK e2 \in Nat : e2 = IF left = <<>> THEN 0 ELSE expires[d]
      BY <1>1
    <3>4. expires' = [expires EXCEPT ![d] = e2] /\ returned' = [returned EXCEPT ![d] = r2]
      BY <1>1, <2>6, <3>2, <3>3
    <3>5. /\ events' \in [Keys -> Seq(Times)] /\ expires' \in [Keys -> Nat]
          /\ returned' \in [Keys -> Seq(Times)] /\ stored' \subseteq Keys
      <4>1. events' \in [Keys -> Seq(Times)] /\ returned' \in [Keys -> Seq(Times)]
        BY ONLY <1>1, <2>6, <3>1, <3>2, <3>4, Zenon
      <4>2. expires' \in [Keys -> Nat]
        BY ONLY <1>1, <3>3, <3>4, Zenon
      <4>3. stored' \subseteq Keys
        BY <1>1, <2>6
      <4> QED  BY <4>1, <4>2, <4>3
    <3>6. /\ Bucket(d)' = left /\ expires'[d] = e2 /\ returned'[d] = r2
          /\ \A j \in Keys \ {d} : /\ Bucket(j)' = Bucket(j) /\ expires'[j] = expires[j]
                                   /\ returned'[j] = returned[j]
      <4>1. /\ events'[d] = left /\ expires'[d] = e2 /\ returned'[d] = r2
            /\ \A j \in Keys \ {d} : /\ events'[j] = events[j] /\ expires'[j] = expires[j]
                                     /\ returned'[j] = returned[j]
        BY <1>1, <2>6, <3>4
      <4>2. (d \in stored' => left # <<>>) /\ (d \notin stored' => left = <<>>)
            /\ \A j \in Keys \ {d} : j \in stored' <=> j \in stored
        BY <2>6
      <4> QED  BY <4>1, <4>2, Zenon DEF Bucket
    <3>7. Account(d, time, left, e2, admitted[d], r2)
      <4>1. Bucket(d) = events[d] /\ Bucket(d) # <<>>
        BY <2>6 DEF Bucket
      <4>2. Account(d, time, left, expires[d], admitted[d], r2)
        BY <1>4, <2>2, <3>2, <4>1, AccountGiveBack, AccountTypes
      <4>3. CASE left = <<>>
        <5>1. r2 \in Seq(Nat)
          BY <3>2, TimesAreNumbers
        <5> QED  BY <3>1, <4>2, <4>3, <5>1, AccountEmpty, AccountTypes
      <4>4. CASE left # <<>>
        BY <3>3, <4>2, <4>4
      <4> QED  BY <4>3, <4>4
    <3>8. \A j \in Keys : Account(j, time, Bucket(j)', expires'[j], admitted[j], returned'[j])
      <4> SUFFICES ASSUME NEW j \in Keys
                   PROVE  Account(j, time, Bucket(j)', expires'[j], admitted[j], returned'[j])
        OBVIOUS
      <4>1. CASE j = d
        BY <3>6, <3>7, <4>1
      <4>2. CASE j # d
        BY <1>4, <3>6, <4>2
      <4> QED  BY <4>1, <4>2
    <3>9. AllAccounts'
      BY <2>3, <3>8 DEF AllAccounts
    <3> QED  BY <1>1, <1>2, <2>3, <2>4, <3>5, <3>9
  <2> QED  BY <2>3, <2>5, <2>6
<1>11. CASE UNCHANGED limitVars
  <2>1. UNCHANGED <<time, events, stored, expires, attempt, admitted, returned>>
    BY <1>11 DEF limitVars
  <2>2. AllAccounts'
    BY <1>4, <2>1 DEF AllAccounts, Bucket
  <2> QED  BY <1>1, <1>2, <2>1, <2>2
<1> QED
  BY <1>5, <1>6, <1>7, <1>8, <1>9, <1>10, <1>11 DEF LimitNext

\* In every window that is still open, what the limiter admitted is in the bucket or
\* was given back, a budget outlives its slots, and closed windows stay closed: for
\* any keys, limits, windows, attempts and size of the store.
THEOREM LimitInvariance == LimitSpec => []LimitIInv
<1>1. LimitInit => LimitTypeOK /\ AllAccounts
  <2> SUFFICES ASSUME LimitInit PROVE LimitTypeOK /\ AllAccounts
    OBVIOUS
  <2>1. NoAttempt \in SignIns /\ <<>> \in Seq(Times) /\ 0 \in Times /\ <<>> \in Seq(Nat)
    <3>1. (CHOOSE k \in AccountKeys : TRUE) \in AccountKeys /\ (CHOOSE k \in AddressKeys : TRUE) \in AddressKeys
      BY LimitsAssumption, Zenon
    <3>2. NoAttempt \in SignIns
      BY <3>1 DEF NoAttempt, SignIns
    <3> QED  BY <3>2, LimitsAssumption DEF Times
  <2>2. LimitTypeOK
    BY <2>1 DEF LimitInit, LimitTypeOK, Times, SignIns
  <2>3. ASSUME NEW k \in Keys PROVE Account(k, time, Bucket(k), expires[k], admitted[k], returned[k])
    <3>1. /\ time = 0 /\ Bucket(k) = <<>> /\ expires[k] = 0 /\ admitted[k] = <<>> /\ returned[k] = <<>>
      BY DEF LimitInit, Bucket
    <3>2. Len(<<>>) = 0 /\ MaxAttempts \in Nat
      BY LimitsAssumption
    <3>3. \A t \in Nat : Since(<<>>, t) = {} /\ Within(<<>>, t, k) = {}
      BY <3>2 DEF Since, Within
    <3>4. Cardinality({}) = 0
      BY FS_EmptySet
    <3>5. Account(k, 0, <<>>, 0, <<>>, <<>>)
      BY <3>2, <3>3, <3>4, SMTT(60) DEF Account
    <3> QED  BY <3>1, <3>5
  <2> QED  BY <2>2, <2>3 DEF AllAccounts
<1>2. LimitTypeOK /\ AllAccounts /\ [LimitNext]_limitVars => (LimitTypeOK /\ AllAccounts)'
  BY LimitStep
<1> QED
  BY <1>1, <1>2, AccountsAreParts, PTL DEF LimitSpec

\* Within any window no budget admits more than its limit and what was given back:
\* active budgets are never evicted (SlidingWindowRateLimiter).
THEOREM BudgetsAreKept == LimitSpec => []BudgetIsKept
<1>1. LimitIInv => BudgetIsKept
  BY DEF LimitIInv
<1> QED
  BY <1>1, LimitInvariance, PTL

-----------------------------------------------------------------------------
(* The maintenance loop.                                                   *)

\* A clock that is reset, whichever it is, leaves the others as they were.
LEMMA ClockReset ==
  ASSUME NEW S, NEW n \in Nat, NEW c \in [S -> 0..n], NEW b
  PROVE  [c EXCEPT ![b] = 0] \in [S -> 0..n]
<1>1. 0 \in 0..n
  OBVIOUS
<1>2. ASSUME NEW N, 0 \in N, c \in [S -> N] PROVE [c EXCEPT ![b] = 0] \in [S -> N]
  BY ONLY <1>2, Zenon
<1> QED  BY <1>1, <1>2, Zenon

\* Every step of the loop keeps its variables in their types.
LEMMA MaintenanceTypeStep ==
  ASSUME MaintenanceTypeOK, [MaintenanceNext]_maintenanceVars
  PROVE  MaintenanceTypeOK'
<1> USE MaintenanceAssumption DEF MaintenanceTypeOK, Phases, Goto, Fault
<1>1. CASE UNCHANGED maintenanceVars
  BY <1>1 DEF maintenanceVars
<1>2. CASE MaintenanceTick
  BY <1>2 DEF MaintenanceTick, Less
<1>3. ASSUME NEW w \in Workers, Begin(w) \/ TryLock(w) PROVE MaintenanceTypeOK'
  BY <1>3 DEF Begin, TryLock
<1>4. ASSUME NEW w \in Workers, ClaimCycle(w) PROVE MaintenanceTypeOK'
  BY <1>4 DEF ClaimCycle
<1>5. ASSUME NEW w \in Workers, NEW A \in SUBSET Alerts, DetectAnomalies(w, A)
      PROVE  MaintenanceTypeOK'
  BY <1>5 DEF DetectAnomalies
<1>6. ASSUME NEW w \in Workers, NEW a \in Alerts, Report(w, a) PROVE MaintenanceTypeOK'
  <2> DEFINE s == AlertStore(w)
             kept == IF Full(s) THEN [claimed[s] EXCEPT ![Oldest(s)] = 0] ELSE claimed[s]
  <2>1. s \in {AlertStore(v) : v \in Workers} /\ claimed[s] \in [Alerts -> 0..AlertLife]
    OBVIOUS
  <2>2. kept \in [Alerts -> 0..AlertLife]
    <3>1. [claimed[s] EXCEPT ![Oldest(s)] = 0] \in [Alerts -> 0..AlertLife]
      BY <2>1, ClockReset
    <3> QED  BY <2>1, <3>1, Zenon
  <2>3. [kept EXCEPT ![a] = AlertLife] \in [Alerts -> 0..AlertLife]
    BY <2>2
  <2>4. claimed' = claimed \/ claimed' = [claimed EXCEPT ![s] = [kept EXCEPT ![a] = AlertLife]]
    BY <1>6 DEF Report, ClaimAlert
  <2>5. claimed' \in [{AlertStore(v) : v \in Workers} -> [Alerts -> 0..AlertLife]]
    BY <2>1, <2>3, <2>4
  <2> QED  BY <1>6, <2>5 DEF Report
<1>7. ASSUME NEW w \in Workers, NEW failed \in BOOLEAN, EndAnomalies(w, failed)
      PROVE  MaintenanceTypeOK'
  BY <1>7 DEF EndAnomalies, AfterAnomalies
<1>8. ASSUME NEW w \in Workers, Checkpoint(w) \/ RetentionPhase(w) PROVE MaintenanceTypeOK'
  BY <1>8 DEF Checkpoint, RetentionPhase
<1>9. ASSUME NEW w \in Workers, Unlock(w) \/ Drained(w) PROVE MaintenanceTypeOK'
  BY <1>9 DEF Unlock, Drained
<1>10. ASSUME NEW w \in Workers, Start(w) PROVE MaintenanceTypeOK'
  BY <1>10 DEF Start, AlertStore
<1>11. ASSUME NEW w \in Workers, Stop(w) \/ WorkerCrash(w) \/ LoseLock(w) PROVE MaintenanceTypeOK'
  BY <1>11 DEF Stop, WorkerCrash, LoseLock
<1>12. ASSUME NEW w \in Workers, CoordinationFails(w) PROVE MaintenanceTypeOK'
  BY <1>12 DEF CoordinationFails
<1> QED
  BY <1>1, <1>2, <1>3, <1>4, <1>5, <1>6, <1>7, <1>8, <1>9, <1>10, <1>11, <1>12, ZenonT(60)
  DEF MaintenanceNext, WorkerStep

\* A step that leaves every cycle where it was, or ends one, keeps the exclusion.
LEMMA CycleGoesOn ==
  ASSUME MaintenanceIInv, MaintenanceTypeOK', NEW w \in Workers,
         UNCHANGED <<cycleKey>>,
         \A v \in Workers \ {w} : at'[v] = at[v] /\ age'[v] = age[v],
         at'[w] \in Phases => at[w] \in Phases /\ age'[w] = age[w]
  PROVE  KeyCoversCycle' /\ OneIsOverdue'
<1>1. \A v \in Workers : at'[v] \in Phases => at[v] \in Phases /\ age'[v] = age[v]
  OBVIOUS
<1>2. KeyCoversCycle'
  BY <1>1, SMT DEF MaintenanceIInv, KeyCoversCycle, Working, Phases
<1>3. OneIsOverdue'
  BY <1>1, SMT DEF MaintenanceIInv, OneIsOverdue, Working, Phases
<1> QED  BY <1>2, <1>3

\* Two maintenance cycles overlap only after a lost connection and a whole
\* interval: one step per step of run_once in src/app/maintenance.py.
THEOREM MaintenanceInvariance == MaintenanceSpec => []MaintenanceIInv
<1>1. MaintenanceInit => MaintenanceIInv
  BY MaintenanceAssumption DEF MaintenanceInit, MaintenanceIInv, MaintenanceTypeOK, CycleHoldsLock,
     KeyCoversCycle, OneIsOverdue, Working, Phases
<1>2. ASSUME MaintenanceIInv, [MaintenanceNext]_maintenanceVars PROVE MaintenanceIInv'
  <2>1. MaintenanceTypeOK'
    BY <1>2, MaintenanceTypeStep DEF MaintenanceIInv
  <2> USE <1>2, <2>1, MaintenanceAssumption DEF MaintenanceIInv
  <2> SUFFICES CycleHoldsLock' /\ KeyCoversCycle' /\ OneIsOverdue'
    OBVIOUS
  <2>2. CASE UNCHANGED maintenanceVars
    BY <2>2 DEF maintenanceVars, CycleHoldsLock, KeyCoversCycle, OneIsOverdue, Working
  <2>3. CASE MaintenanceTick
    <3>1. CycleHoldsLock'
      BY <2>3 DEF MaintenanceTick, CycleHoldsLock
    <3>2. \A w \in Workers : /\ at'[w] = at[w]
                             /\ age'[w] = IF Working(w) /\ age[w] < Interval THEN age[w] + 1 ELSE age[w]
      BY <2>3 DEF MaintenanceTick, MaintenanceTypeOK
    <3>3. KeyCoversCycle'
      BY <2>3, <3>2 DEF MaintenanceTick, KeyCoversCycle, Working, MaintenanceTypeOK, Less
    <3>4. OneIsOverdue'
      BY <3>2 DEF OneIsOverdue, Working, MaintenanceTypeOK
    <3> QED  BY <3>1, <3>3, <3>4
  <2>4. ASSUME NEW w \in Workers, Begin(w) \/ Start(w) \/ Drained(w) \/ Stop(w)
        PROVE  CycleHoldsLock' /\ KeyCoversCycle' /\ OneIsOverdue'
    <3>1. CycleHoldsLock'
      BY <2>4 DEF Begin, Start, Drained, Stop, Goto, CycleHoldsLock, Phases, MaintenanceTypeOK
    <3> QED  BY <2>4, <3>1, CycleGoesOn DEF Begin, Start, Drained, Stop, Goto, Phases, MaintenanceTypeOK
  <2>5. ASSUME NEW w \in Workers, TryLock(w)
        PROVE  CycleHoldsLock' /\ KeyCoversCycle' /\ OneIsOverdue'
    <3>1. CycleHoldsLock'
      BY <2>5 DEF TryLock, Goto, CycleHoldsLock, Phases, MaintenanceTypeOK
    <3> QED  BY <2>5, <3>1, CycleGoesOn DEF TryLock, Goto, Phases, MaintenanceTypeOK
  <2>6. ASSUME NEW w \in Workers, ClaimCycle(w)
        PROVE  CycleHoldsLock' /\ KeyCoversCycle' /\ OneIsOverdue'
    <3>1. CycleHoldsLock'
      BY <2>6 DEF ClaimCycle, Goto, CycleHoldsLock, Phases, MaintenanceTypeOK
    <3>2. CASE ~KeyIsFree
      BY <2>6, <3>1, <3>2, CycleGoesOn DEF ClaimCycle, Goto, Phases, MaintenanceTypeOK
    <3>3. CASE KeyIsFree
      <4>1. HasRedis => cycleKey = 0 /\ cycleKey' = Interval
        BY <2>6, <3>3 DEF ClaimCycle, KeyIsFree
      <4>2. \A v \in Workers \ {w} : at'[v] = at[v] /\ age'[v] = age[v]
        BY <2>6, <3>3 DEF ClaimCycle, Goto, MaintenanceTypeOK
      <4>3. KeyCoversCycle'
        BY <4>1 DEF KeyCoversCycle, MaintenanceTypeOK
      <4>4. HasRedis => \A v \in Workers \ {w} : Working(v) => age[v] = Interval
        BY <4>1 DEF KeyCoversCycle, MaintenanceTypeOK
      <4>5. OneIsOverdue'
        BY <4>2, <4>4 DEF OneIsOverdue, Working
      <4> QED  BY <3>1, <4>3, <4>5
    <3> QED  BY <3>2, <3>3
  <2>7. ASSUME NEW w \in Workers, CoordinationFails(w)
        PROVE  CycleHoldsLock' /\ KeyCoversCycle' /\ OneIsOverdue'
    <3>1. CycleHoldsLock'
      BY <2>7 DEF CoordinationFails, Goto, CycleHoldsLock, Phases, MaintenanceTypeOK
    <3> QED  BY <2>7, <3>1, CycleGoesOn DEF CoordinationFails, Goto, Phases, MaintenanceTypeOK
  <2>8. ASSUME NEW w \in Workers, NEW A \in SUBSET Alerts, DetectAnomalies(w, A)
        PROVE  CycleHoldsLock' /\ KeyCoversCycle' /\ OneIsOverdue'
    <3>1. CycleHoldsLock'
      BY <2>8 DEF DetectAnomalies, Goto, CycleHoldsLock, Phases, MaintenanceTypeOK
    <3> QED  BY <2>8, <3>1, CycleGoesOn DEF DetectAnomalies, Goto, Phases, MaintenanceTypeOK
  <2>9. ASSUME NEW w \in Workers, NEW a \in Alerts, Report(w, a)
        PROVE  CycleHoldsLock' /\ KeyCoversCycle' /\ OneIsOverdue'
    BY <2>9 DEF Report, CycleHoldsLock, KeyCoversCycle, OneIsOverdue, Working
  <2>10. ASSUME NEW w \in Workers, NEW failed \in BOOLEAN, EndAnomalies(w, failed)
        PROVE  CycleHoldsLock' /\ KeyCoversCycle' /\ OneIsOverdue'
    <3>1. CycleHoldsLock'
      BY <2>10 DEF EndAnomalies, AfterAnomalies, Goto, CycleHoldsLock, Phases, MaintenanceTypeOK
    <3> QED  BY <2>10, <3>1, CycleGoesOn DEF EndAnomalies, AfterAnomalies, Goto, Phases, MaintenanceTypeOK
  <2>11. ASSUME NEW w \in Workers, Checkpoint(w) \/ RetentionPhase(w)
        PROVE  CycleHoldsLock' /\ KeyCoversCycle' /\ OneIsOverdue'
    <3>1. CycleHoldsLock'
      BY <2>11 DEF Checkpoint, RetentionPhase, Goto, CycleHoldsLock, Phases, MaintenanceTypeOK
    <3> QED  BY <2>11, <3>1, CycleGoesOn DEF Checkpoint, RetentionPhase, Goto, Phases, MaintenanceTypeOK
  <2>12. ASSUME NEW w \in Workers, Unlock(w) \/ WorkerCrash(w)
        PROVE  CycleHoldsLock' /\ KeyCoversCycle' /\ OneIsOverdue'
    <3>1. CycleHoldsLock'
      BY <2>12 DEF Unlock, WorkerCrash, Goto, CycleHoldsLock, Phases, MaintenanceTypeOK
    <3> QED  BY <2>12, <3>1, CycleGoesOn DEF Unlock, WorkerCrash, Goto, Phases, MaintenanceTypeOK
  <2>13. ASSUME NEW w \in Workers, LoseLock(w)
        PROVE  CycleHoldsLock' /\ KeyCoversCycle' /\ OneIsOverdue'
    BY <2>13 DEF LoseLock, CycleHoldsLock, KeyCoversCycle, OneIsOverdue, Working, MaintenanceTypeOK
  <2> QED
    BY <2>2, <2>3, <2>4, <2>5, <2>6, <2>7, <2>8, <2>9, <2>10, <2>11, <2>12, <2>13
    DEF MaintenanceNext, WorkerStep
<1> QED  BY <1>1, <1>2, PTL DEF MaintenanceSpec

\* The variables of the maintenance loop of every worker keep their types.
THEOREM MaintenanceTypes == MaintenanceSpec => []MaintenanceTypeOK
BY MaintenanceInvariance, PTL DEF MaintenanceIInv

\* Two cycles run side by side only when one of them lost the connection of its
\* advisory lock and one has been running for a whole interval: for any number of
\* workers, intervals and faults.
THEOREM CyclesExclude == MaintenanceSpec => []LeadersDoNotOverlap
<1>1. MaintenanceIInv => LeadersDoNotOverlap
  BY DEF MaintenanceIInv, CycleHoldsLock, OneIsOverdue, LeadersDoNotOverlap, Working, Phases
<1> QED  BY <1>1, MaintenanceInvariance, PTL

-----------------------------------------------------------------------------
(* The guard of the browser's callbacks.                                   *)

\* What a record of an event looks like.
EventRow == [pc : Live \cup {"none", "over"}, job : Jobs, bound : Binding,
             obs : Binding, input : Idents, before : Idents, since : Nat]

\* The record of an event that is being admitted.
LEMMA PushedRow ==
  ASSUME NEW j \in Jobs
  PROVE  \E r \in EventRow : r = [NoEvent EXCEPT !.pc = "admitting", !.job = j] /\ r.pc = "admitting"
<1>1. NoEvent \in EventRow /\ "admitting" \in Live \cup {"none", "over"}
  BY DEF NoEvent, EventRow, Live, Jobs, Binding, Idents
<1>2. PICK r : r = [NoEvent EXCEPT !.pc = "admitting", !.job = j]
  OBVIOUS
<1>3. r \in EventRow /\ r.pc = "admitting"
  BY <1>1, <1>2 DEF EventRow
<1> QED  BY <1>2, <1>3

\* The state object after a change is a state object.
LEMMA StateSet ==
  ASSUME NEW s \in Binding, NEW k \in Idents
  PROVE  /\ [s EXCEPT !.token = k] \in Binding
         /\ [s EXCEPT !.token = k].id = s.id /\ [s EXCEPT !.token = k].gen = s.gen
         /\ [s EXCEPT !.token = k].token = k
         /\ [s EXCEPT !.gen = s.gen + 1] \in Binding
         /\ [s EXCEPT !.gen = s.gen + 1].id = s.id /\ [s EXCEPT !.gen = s.gen + 1].gen = s.gen + 1
         /\ [s EXCEPT !.gen = s.gen + 1].token = s.token
BY DEF Binding

\* The parts of the invariant about one event.
BindingOf(e) ==
    Admitted(e) => /\ e \in retained
                   /\ ev[e].bound.id = state.id /\ ev[e].bound.gen <= state.gen
                   /\ ev[e].since + state.gen = epoch + ev[e].bound.gen
                   /\ ev[e].bound.gen = state.gen => ev[e].bound.token = TokenOfGeneration

GuardOf(e) ==
    /\ ev[e].pc \in {"pre", "call", "run", "return", "writing"} => ev[e].obs = ev[e].bound
    /\ ev[e].pc = "call" /\ ev[e].obs.gen = state.gen => ev[e].input \in {ev[e].obs.token, state.token}
    /\ ev[e].pc \in {"none", "admitting"} => acted[e] = "none"
    /\ acted[e] \in {"none", ev[e].bound.token}
    /\ ev[e].pc = "writing" => ev[e].since = epoch

\* The events, the state and what is left of the types.
LEMMA CallbackParts ==
  CallbackTypeOK <=> /\ ev \in [Events -> EventRow] /\ state \in Binding /\ epoch \in Nat
                     /\ outputLock \in Events \cup {Out} /\ admitting \in Events \cup {Out}
                     /\ retained \subseteq Events /\ acted \in [Events -> Idents \cup {"none"}]
BY DEF CallbackTypeOK, EventRow

LEMMA CallbackPartsNext ==
  CallbackTypeOK' <=> /\ ev' \in [Events -> EventRow] /\ state' \in Binding /\ epoch' \in Nat
                      /\ outputLock' \in Events \cup {Out} /\ admitting' \in Events \cup {Out}
                      /\ retained' \subseteq Events /\ acted' \in [Events -> Idents \cup {"none"}]
BY DEF CallbackTypeOK, EventRow

\* A step about one event that changes neither the state nor the lock nor which
\* records are kept: nothing changes for the other events.
LEMMA OtherEventsStay ==
  ASSUME CallbackIInv, NEW e \in Events, ev[e].pc # "writing", ev'[e].pc # "writing",
         \A d \in Events \ {e} : ev'[d] = ev[d] /\ acted'[d] = acted[d],
         retained \subseteq retained', UNCHANGED <<state, outputLock, epoch>>
  PROVE  /\ WriterHoldsLock'
         /\ TokenOfGeneration' = TokenOfGeneration
         /\ \A d \in Events \ {e} : BindingOf(d)' /\ GuardOf(d)'
<1> USE CallbacksAssumption DEF CallbackIInv
<1>1. WriterHoldsLock'
  BY DEF WriterHoldsLock
<1>2. TokenOfGeneration' = TokenOfGeneration
  BY CallbackParts DEF TokenOfGeneration, WriterHoldsLock
<1>3. \A d \in Events \ {e} : BindingOf(d)'
  BY <1>2 DEF BindingOf, BindingIsDated, Admitted
<1>4. \A d \in Events \ {e} : GuardOf(d)'
  BY DEF GuardOf, GuardSawBinding, ActsAsSubmitted, PublishesForItsLogin
<1> QED  BY <1>1, <1>2, <1>3, <1>4

\* The invariant is made of its parts about each event.
LEMMA PartsMakeInvariant ==
  ASSUME CallbackTypeOK', RecordsFit', WriterHoldsLock',
         \A d \in Events : BindingOf(d)' /\ GuardOf(d)'
  PROVE  CallbackIInv'
BY DEF CallbackIInv, BindingOf, GuardOf, BindingIsDated, GuardSawBinding, ActsAsSubmitted,
       PublishesForItsLogin

\* One step per step of a callback in src/app/gradio_capacity.py and of the guard
\* in src/app/gradio_ui.py.
THEOREM CallbackInvariance == CallbackSpec => []CallbackIInv
<1>1. CallbackInit => CallbackIInv
  <2> SUFFICES ASSUME CallbackInit PROVE CallbackIInv
    OBVIOUS
  <2>1. CallbackTypeOK
    BY CallbacksAssumption DEF CallbackInit, CallbackTypeOK, NoEvent, Live, Jobs, Binding, Idents
  <2>2. RecordsFit
    BY FS_EmptySet, CallbacksAssumption DEF CallbackInit, RecordsFit, NoEvent
  <2>3. WriterHoldsLock /\ BindingIsDated /\ GuardSawBinding /\ ActsAsSubmitted /\ PublishesForItsLogin
    BY CallbacksAssumption DEF CallbackInit, NoEvent, Live, Admitted, WriterHoldsLock, BindingIsDated, GuardSawBinding,
       ActsAsSubmitted, PublishesForItsLogin
  <2> QED  BY <2>1, <2>2, <2>3 DEF CallbackIInv
<1>2. ASSUME CallbackIInv, [CallbackNext]_callbackVars PROVE CallbackIInv'
  <2> USE <1>2, CallbacksAssumption
  <2>0. /\ ev \in [Events -> EventRow] /\ state \in Binding /\ epoch \in Nat
        /\ outputLock \in Events \cup {Out} /\ admitting \in Events \cup {Out}
        /\ retained \subseteq Events /\ acted \in [Events -> Idents \cup {"none"}]
    BY CallbackParts DEF CallbackIInv
  <2>t. state.token \in Idents /\ state.gen \in Nat /\ state.id \in Nat
    BY <2>0 DEF Binding
  <2>p. /\ "over" \in Live \cup {"none", "over"} /\ "run" \in Live \cup {"none", "over"}
        /\ "return" \in Live \cup {"none", "over"} /\ "pre" \in Live \cup {"none", "over"}
        /\ "call" \in Live \cup {"none", "over"} /\ "writing" \in Live \cup {"none", "over"}
        /\ "queued" \in Live \cup {"none", "over"} /\ "admitting" \in Live \cup {"none", "over"}
    BY DEF Live
  <2>1. CASE UNCHANGED callbackVars
    BY <2>1 DEF callbackVars, CallbackIInv, CallbackTypeOK, RecordsFit, WriterHoldsLock, BindingIsDated,
       TokenOfGeneration, Admitted, GuardSawBinding, ActsAsSubmitted, PublishesForItsLogin
  <2>2. CASE Evict
    <3>1. \A e \in Events : ~Admitted(e)
      BY <2>2 DEF Evict, Terminal, CallbackIInv, BindingIsDated, Admitted, Live
    <3>2. CallbackTypeOK'
      BY <2>2, <2>0, <2>t, CallbackPartsNext DEF Evict, Binding, Idents
    <3>3. RecordsFit' /\ WriterHoldsLock'
      BY <2>2 DEF Evict, CallbackIInv, RecordsFit, WriterHoldsLock
    <3>4. \A d \in Events : BindingOf(d)' /\ GuardOf(d)'
      BY <2>2, <3>1 DEF Evict, Admitted, Live, BindingOf, GuardOf, CallbackIInv, GuardSawBinding, ActsAsSubmitted
    <3> QED  BY <3>2, <3>3, <3>4, PartsMakeInvariant
  <2>3. ASSUME NEW e \in Events, NEW job \in Jobs, Push(e, job) PROVE CallbackIInv'
    <3>1. /\ ev' \in [Events -> EventRow] /\ \A d \in Events \ {e} : ev'[d] = ev[d]
          /\ ev'[e].pc = IF Cardinality(retained) < MaxRetained THEN "admitting" ELSE "over"
          /\ ~(Cardinality(retained) < MaxRetained) => ev'[e].bound = ev[e].bound
      <4>1. CASE Cardinality(retained) < MaxRetained
        <5>1. PICK r \in EventRow : r = [NoEvent EXCEPT !.pc = "admitting", !.job = job] /\ r.pc = "admitting"
          BY PushedRow, Zenon
        <5>2. ev' = [ev EXCEPT ![e] = r]
          BY <2>3, <4>1, <5>1, Zenon DEF Push
        <5> QED  BY <2>0, <4>1, <5>1, <5>2
      <4>2. CASE ~(Cardinality(retained) < MaxRetained)
        <5>1. ev' = [ev EXCEPT ![e].pc = "over"]
          BY <2>3, <4>2, Zenon DEF Push
        <5>2. /\ ev' \in [Events -> EventRow] /\ \A d \in Events \ {e} : ev'[d] = ev[d]
              /\ ev'[e].pc = "over" /\ ev'[e].bound = ev[e].bound
          BY <2>0, <2>p, <5>1 DEF EventRow
        <5> QED  BY <4>2, <5>2
      <4> QED  BY <4>1, <4>2
    <3>2. CallbackTypeOK'
      BY <2>3, <2>0, <3>1, CallbackPartsNext DEF Push
    <3>3. RecordsFit'
      BY <2>3, <3>1 DEF Push, CallbackIInv, RecordsFit
    <3>4. WriterHoldsLock' /\ \A d \in Events \ {e} : BindingOf(d)' /\ GuardOf(d)'
      BY <2>3, <3>1, OtherEventsStay DEF Push
    <3>5. BindingOf(e)' /\ GuardOf(e)'
      BY <2>3, <3>1 DEF Push, BindingOf, GuardOf, Admitted, Live, CallbackIInv, GuardSawBinding
    <3> QED  BY <3>2, <3>3, <3>4, <3>5, PartsMakeInvariant
  <2>4. ASSUME NEW e \in Events, Capture(e) PROVE CallbackIInv'
    <3>1. /\ ev' \in [Events -> EventRow] /\ \A d \in Events \ {e} : ev'[d] = ev[d]
          /\ ev'[e].pc = "queued" /\ ev'[e].bound = state /\ ev'[e].since = epoch
      <4>1. ev' = [ev EXCEPT ![e].pc = "queued", ![e].bound = state, ![e].since = epoch]
        BY <2>4, Zenon DEF Capture
      <4>2. PICK row : row = [ev[e] EXCEPT !.pc = "queued", !.bound = state, !.since = epoch]
        OBVIOUS
      <4>3. ev' = [ev EXCEPT ![e] = row]
        BY <2>0, <4>1, <4>2
      <4>4. row \in EventRow /\ row.pc = "queued" /\ row.bound = state /\ row.since = epoch
        <5>1. ev[e] \in EventRow
          BY <2>0
        <5> QED  BY <2>0, <2>p, <4>2, <5>1 DEF EventRow
      <4> QED  BY <2>0, <4>3, <4>4
    <3>2. CallbackTypeOK'
      BY <2>4, <2>0, <3>1, CallbackPartsNext DEF Capture
    <3>3. RecordsFit'
      <4>1. IsFiniteSet(retained) /\ Cardinality(retained) < MaxRetained /\ admitting = e
        BY <2>4 DEF Capture, CallbackIInv, RecordsFit
      <4>2. IsFiniteSet(retained') /\ Cardinality(retained') <= Cardinality(retained) + 1
        <5>1. IsFiniteSet(retained \cup {e}) /\ Cardinality(retained \cup {e}) \in {Cardinality(retained), Cardinality(retained) + 1}
          BY <4>1, FS_AddElement
        <5>2. Cardinality(retained) \in Nat
          BY <4>1, FS_CardinalityType
        <5> QED  BY <2>4, <5>1, <5>2 DEF Capture
      <4>3. Cardinality(retained) \in Nat /\ Cardinality(retained') \in Nat
        BY <4>1, <4>2, FS_CardinalityType
      <4>4. Cardinality(retained') <= MaxRetained
        BY <4>1, <4>2, <4>3
      <4>5. \A d \in Events : ev'[d].pc # "admitting"
        BY <2>4, <3>1, <4>1 DEF CallbackIInv, RecordsFit
      <4> QED  BY <2>4, <4>2, <4>4, <4>5 DEF Capture, RecordsFit
    <3>4. /\ WriterHoldsLock' /\ TokenOfGeneration' = TokenOfGeneration
          /\ \A d \in Events \ {e} : BindingOf(d)' /\ GuardOf(d)'
      BY <2>4, <3>1, OtherEventsStay DEF Capture
    <3>5. BindingOf(e)'
      <4>1. TokenOfGeneration = state.token
        BY <2>4 DEF Capture, TokenOfGeneration
      <4> QED  BY <2>4, <2>t, <3>1, <3>4, <4>1 DEF Capture, BindingOf
    <3>6. GuardOf(e)'
      BY <2>4, <3>1 DEF Capture, GuardOf, CallbackIInv, GuardSawBinding
    <3> QED  BY <3>2, <3>3, <3>4, <3>5, <3>6, PartsMakeInvariant
  <2>5. ASSUME NEW e \in Events, Prune(e) PROVE CallbackIInv'
    <3>1. CallbackTypeOK'
      BY <2>5, <2>0, CallbackPartsNext DEF Prune
    <3>2. RecordsFit'
      <4>1. IsFiniteSet(retained') /\ Cardinality(retained') <= Cardinality(retained)
        BY <2>5, FS_Subset DEF Prune, CallbackIInv, RecordsFit
      <4>2. Cardinality(retained) \in Nat /\ Cardinality(retained') \in Nat
        BY <4>1, FS_CardinalityType DEF CallbackIInv, RecordsFit
      <4> QED  BY <2>5, <4>1, <4>2 DEF Prune, CallbackIInv, RecordsFit
    <3>3. WriterHoldsLock' /\ \A d \in Events : BindingOf(d)' /\ GuardOf(d)'
      BY <2>5 DEF Prune, Terminal, CallbackIInv, WriterHoldsLock, BindingOf, GuardOf, BindingIsDated,
         GuardSawBinding, ActsAsSubmitted, PublishesForItsLogin, Admitted, Live, TokenOfGeneration
    <3> QED  BY <3>1, <3>2, <3>3, PartsMakeInvariant
  <2>6. ASSUME NEW e \in Events, NEW p \in {"over", "run", "return"}, ev' = [ev EXCEPT ![e].pc = p],
               ev[e].pc \notin {"none", "admitting", "writing"},
               p # "over" => ev[e].obs = ev[e].bound /\ Admitted(e),
               UNCHANGED <<state, outputLock, admitting, retained, epoch>>,
               acted' \in [Events -> Idents \cup {"none"}], acted'[e] \in {"none", ev[e].bound.token},
               \A d \in Events \ {e} : acted'[d] = acted[d]
        PROVE  CallbackIInv'
    <3>1. /\ ev' \in [Events -> EventRow] /\ \A d \in Events \ {e} : ev'[d] = ev[d]
          /\ ev'[e].pc = p /\ ev'[e].bound = ev[e].bound /\ ev'[e].obs = ev[e].obs
          /\ ev'[e].since = ev[e].since /\ ev'[e].before = ev[e].before
      <4>1. p \in Live \cup {"none", "over"}
        BY <2>p
      <4> QED  BY <2>6, <2>0, <4>1 DEF EventRow
    <3>2. CallbackTypeOK'
      BY <2>6, <2>0, <3>1, CallbackPartsNext
    <3>3. RecordsFit'
      BY <2>6, <3>1 DEF CallbackIInv, RecordsFit
    <3>4. /\ WriterHoldsLock' /\ TokenOfGeneration' = TokenOfGeneration
          /\ \A d \in Events \ {e} : BindingOf(d)' /\ GuardOf(d)'
      BY <2>6, <3>1, OtherEventsStay
    <3>5. BindingOf(e)'
      BY <2>6, <3>1, <3>4 DEF BindingOf, CallbackIInv, BindingIsDated, Admitted, Live
    <3>6. GuardOf(e)'
      BY <2>6, <3>1 DEF GuardOf
    <3> QED  BY <3>2, <3>3, <3>4, <3>5, <3>6, PartsMakeInvariant
  <2>7. ASSUME NEW e \in Events, Remove(e) PROVE CallbackIInv'
    BY <2>6, <2>7, <2>0 DEF Remove, CallbackIInv, ActsAsSubmitted
  <2>8. ASSUME NEW e \in Events, Process(e) PROVE CallbackIInv'
    <3>1. CASE ~SameBinding(e)
      BY <2>6, <2>8, <3>1, <2>0 DEF Process, CallbackIInv, ActsAsSubmitted
    <3>2. CASE SameBinding(e)
      <4>1. /\ ev' \in [Events -> EventRow] /\ \A d \in Events \ {e} : ev'[d] = ev[d]
            /\ ev'[e].pc = "pre" /\ ev'[e].bound = ev[e].bound /\ ev'[e].obs = state
            /\ ev'[e].since = ev[e].since
        <5>1. ev' = [ev EXCEPT ![e].pc = "pre", ![e].obs = state]
          BY <2>8, <3>2, Zenon DEF Process
        <5> QED  BY <2>0, <2>p, <5>1, ZenonT(60) DEF EventRow
      <4>2. CallbackTypeOK'
        BY <2>8, <2>0, <4>1, CallbackPartsNext DEF Process
      <4>3. RecordsFit'
        BY <2>8, <4>1 DEF Process, CallbackIInv, RecordsFit
      <4>4. /\ WriterHoldsLock' /\ TokenOfGeneration' = TokenOfGeneration
            /\ \A d \in Events \ {e} : BindingOf(d)' /\ GuardOf(d)'
        BY <2>8, <4>1, OtherEventsStay DEF Process
      <4>5. BindingOf(e)'
        BY <2>8, <4>1, <4>4 DEF Process, BindingOf, CallbackIInv, BindingIsDated, Admitted, Live
      <4>6. GuardOf(e)'
        BY <2>8, <3>2, <4>1 DEF Process, SameBinding, GuardOf, CallbackIInv, ActsAsSubmitted
      <4> QED  BY <4>2, <4>3, <4>4, <4>5, <4>6, PartsMakeInvariant
    <3> QED  BY <3>1, <3>2
  <2>9. ASSUME NEW e \in Events, Preprocess(e) PROVE CallbackIInv'
    <3>1. /\ ev' \in [Events -> EventRow] /\ \A d \in Events \ {e} : ev'[d] = ev[d]
          /\ ev'[e].pc = "call" /\ ev'[e].bound = ev[e].bound /\ ev'[e].obs = ev[e].obs
          /\ ev'[e].since = ev[e].since /\ ev'[e].input = state.token
      <4>1. ev' = [ev EXCEPT ![e].pc = "call", ![e].input = state.token]
        BY <2>9, Zenon DEF Preprocess
      <4> QED  BY <2>0, <2>t, <2>p, <4>1, ZenonT(60) DEF EventRow
    <3>2. CallbackTypeOK'
      BY <2>9, <2>0, <3>1, CallbackPartsNext DEF Preprocess
    <3>3. RecordsFit'
      BY <2>9, <3>1 DEF Preprocess, CallbackIInv, RecordsFit
    <3>4. /\ WriterHoldsLock' /\ TokenOfGeneration' = TokenOfGeneration
          /\ \A d \in Events \ {e} : BindingOf(d)' /\ GuardOf(d)'
      BY <2>9, <3>1, OtherEventsStay DEF Preprocess
    <3>5. BindingOf(e)'
      BY <2>9, <3>1, <3>4 DEF Preprocess, BindingOf, CallbackIInv, BindingIsDated, Admitted, Live
    <3>6. GuardOf(e)'
      BY <2>9, <3>1 DEF Preprocess, GuardOf, CallbackIInv, GuardSawBinding, ActsAsSubmitted
    <3> QED  BY <3>2, <3>3, <3>4, <3>5, <3>6, PartsMakeInvariant
  <2>10. ASSUME NEW e \in Events, Invoke(e) PROVE CallbackIInv'
    <3>1. CASE Stale(e)
      BY <2>6, <2>10, <3>1, <2>0 DEF Invoke, CallbackIInv, ActsAsSubmitted
    <3>2. CASE ~Stale(e)
      <4>1. ev[e].obs = state /\ ev[e].obs = ev[e].bound /\ Admitted(e)
        BY <2>10, <3>2 DEF Invoke, Stale, CallbackIInv, GuardSawBinding, Admitted, Live
      <4>2. ev[e].input = ev[e].bound.token
        BY <2>10, <4>1 DEF Invoke, CallbackIInv, GuardSawBinding
      <4>3. ev[e].input \in Idents
        BY <2>0 DEF EventRow
      <4>4. acted' = [acted EXCEPT ![e] = ev[e].input]
        BY <2>10, <3>2 DEF Invoke
      <4>5. /\ acted' \in [Events -> Idents \cup {"none"}] /\ acted'[e] = ev[e].bound.token
            /\ \A d \in Events \ {e} : acted'[d] = acted[d]
        BY <2>0, <4>2, <4>3, <4>4
      <4> QED  BY <2>6, <2>10, <3>2, <4>1, <4>5 DEF Invoke
    <3> QED  BY <3>1, <3>2
  <2>11. ASSUME NEW e \in Events, NEW ok \in BOOLEAN, Return(e, ok) PROVE CallbackIInv'
    <3>1. ev[e].obs = ev[e].bound /\ Admitted(e)
      BY <2>11 DEF Return, CallbackIInv, GuardSawBinding, Admitted, Live
    <3>2. PICK p \in {"over", "return"} : ev' = [ev EXCEPT ![e].pc = p]
      BY <2>11 DEF Return
    <3> QED  BY <2>6, <2>11, <3>1, <3>2, <2>0 DEF Return, CallbackIInv, ActsAsSubmitted
  <2>12. ASSUME NEW e \in Events, PublishOutputs(e) PROVE CallbackIInv'
    <3>1. CASE Stale(e)
      BY <2>6, <2>12, <3>1, <2>0 DEF PublishOutputs, CallbackIInv, ActsAsSubmitted
    <3>2. CASE ~Stale(e)
      <4>1. /\ ev' \in [Events -> EventRow] /\ \A d \in Events \ {e} : ev'[d] = ev[d]
            /\ ev'[e].pc = "writing" /\ ev'[e].bound = ev[e].bound /\ ev'[e].obs = ev[e].obs
            /\ ev'[e].since = ev[e].since /\ ev'[e].before = state.token
        <5>1. ev' = [ev EXCEPT ![e].pc = "writing", ![e].before = state.token]
          BY <2>12, <3>2, Zenon DEF PublishOutputs
        <5> QED  BY <2>0, <2>t, <2>p, <5>1, ZenonT(60) DEF EventRow
      <4>2. After(e) \in Idents
        <5>1. ev[e].job \in Jobs
          BY <2>0 DEF EventRow
        <5>2. PICK j \in Jobs : j = ev[e].job
          BY <5>1
        <5> QED  BY <2>t, <5>2 DEF After, Jobs, Idents
      <4>3. /\ state' \in Binding /\ state'.id = state.id /\ state'.gen = state.gen
        <5>1. state' = [state EXCEPT !.token = After(e)]
          BY <2>12, <3>2, Zenon DEF PublishOutputs
        <5> QED  BY <2>0, <4>2, <5>1, StateSet, Zenon
      <4>4. outputLock' = e /\ outputLock = Out /\ ev[e].pc = "return"
        BY <2>12, <3>2 DEF PublishOutputs
      <4>5. CallbackTypeOK'
        BY <2>12, <2>0, <4>1, <4>3, <4>4, CallbackPartsNext DEF PublishOutputs
      <4>6. RecordsFit'
        BY <2>12, <4>1 DEF PublishOutputs, CallbackIInv, RecordsFit
      <4>7. WriterHoldsLock'
        BY <4>1, <4>4 DEF CallbackIInv, WriterHoldsLock
      <4>8. TokenOfGeneration = state.token /\ TokenOfGeneration' = state.token
        BY <4>1, <4>4 DEF TokenOfGeneration
      <4>9. UNCHANGED <<admitting, retained, epoch, acted>>
        BY <2>12 DEF PublishOutputs
      <4>10. \A d \in Events : ev'[d].bound = ev[d].bound /\ ev'[d].since = ev[d].since /\ ev'[d].obs = ev[d].obs
        BY <4>1
      <4>11. \A d \in Events : BindingOf(d)'
        <5> SUFFICES ASSUME NEW d \in Events PROVE BindingOf(d)'
          OBVIOUS
        <5>1. Admitted(d)' => Admitted(d)
          BY <4>1, <4>4 DEF Admitted, Live
        <5> QED  BY <4>3, <4>8, <4>9, <4>10, <5>1 DEF BindingOf, CallbackIInv, BindingIsDated
      <4>12. ASSUME NEW d \in Events \ {e} PROVE GuardOf(d)'
        <5>1. ev[d].pc # "writing"
          BY <4>4 DEF CallbackIInv, WriterHoldsLock
        <5>2. ASSUME ev[d].pc = "call", ev[d].obs.gen = state.gen PROVE ev[d].input = ev[d].obs.token
          BY <4>8, <5>2 DEF CallbackIInv, GuardSawBinding, BindingIsDated, Admitted, Live
        <5> QED
          BY <4>1, <4>3, <4>9, <5>1, <5>2 DEF GuardOf, CallbackIInv, GuardSawBinding, ActsAsSubmitted
      <4>13. GuardOf(e)'
        <5>1. ev[e].obs = ev[e].bound /\ ev[e].obs = state /\ Admitted(e)
          BY <3>2, <4>4 DEF Stale, CallbackIInv, GuardSawBinding, Admitted, Live
        <5>2. ev[e].since + state.gen = epoch + state.gen
          BY <5>1 DEF CallbackIInv, BindingIsDated
        <5>3. ev[e].since \in Nat
          BY <2>0 DEF EventRow
        <5>4. ev[e].since = epoch
          BY <5>2, <5>3, <2>0, <2>t
        <5> QED  BY <4>1, <4>9, <5>1, <5>4 DEF GuardOf, CallbackIInv, ActsAsSubmitted
      <4> QED  BY <4>5, <4>6, <4>7, <4>11, <4>12, <4>13, PartsMakeInvariant
    <3> QED  BY <3>1, <3>2
  <2>13. ASSUME NEW e \in Events, PublishGeneration(e) PROVE CallbackIInv'
    <3>1. /\ ev' \in [Events -> EventRow] /\ \A d \in Events \ {e} : ev'[d] = ev[d]
          /\ ev'[e].pc = "over" /\ ev'[e].bound = ev[e].bound /\ ev'[e].obs = ev[e].obs
          /\ ev'[e].since = ev[e].since /\ ev'[e].before = ev[e].before
      <4>1. ev' = [ev EXCEPT ![e].pc = "over"]
        BY <2>13, Zenon DEF PublishGeneration
      <4> QED  BY <2>0, <2>p, <4>1 DEF EventRow
    <3>2. /\ ev[e].pc = "writing" /\ outputLock = e /\ outputLock' = Out
          /\ UNCHANGED <<admitting, retained, acted>>
      BY <2>13 DEF PublishGeneration, CallbackIInv, WriterHoldsLock
    <3>3. /\ state' \in Binding /\ state'.id = state.id /\ epoch' \in Nat
          /\ \/ /\ state' = state /\ epoch' = epoch /\ state.token = ev[e].before
             \/ /\ state'.gen = state.gen + 1 /\ epoch' = epoch + 1
      <4>1. CASE Changes(e)
        <5>1. state' = [state EXCEPT !.gen = state.gen + 1] /\ epoch' = epoch + 1
          BY <2>13, <4>1, Zenon DEF PublishGeneration
        <5>2. state' \in Binding /\ state'.id = state.id /\ state'.gen = state.gen + 1
          BY <2>0, <2>t, <5>1, StateSet, Zenon
        <5> QED  BY <2>0, <5>1, <5>2
      <4>2. CASE ~Changes(e)
        BY <2>13, <2>0, <4>2 DEF PublishGeneration, Changes
      <4> QED  BY <4>1, <4>2
    <3>4. CallbackTypeOK'
      BY <2>0, <3>1, <3>2, <3>3, CallbackPartsNext
    <3>5. RecordsFit'
      BY <3>1, <3>2 DEF CallbackIInv, RecordsFit
    <3>6. WriterHoldsLock'
      BY <3>1, <3>2 DEF CallbackIInv, WriterHoldsLock
    <3>7. TokenOfGeneration = ev[e].before /\ TokenOfGeneration' = state'.token
      BY <3>2 DEF TokenOfGeneration
    <3>8. ASSUME NEW d \in Events PROVE BindingOf(d)' /\ GuardOf(d)'
      <4>1. CASE d = e
        BY <3>1, <3>2, <4>1 DEF BindingOf, GuardOf, Admitted, Live, CallbackIInv, ActsAsSubmitted
      <4>2. CASE d # e
        <5>1. ev'[d] = ev[d] /\ ev[d].pc # "writing"
          BY <3>1, <3>2, <4>2 DEF CallbackIInv, WriterHoldsLock
        <5>2. ev[d].bound.gen \in Nat /\ ev[d].since \in Nat
          BY <2>0 DEF EventRow, Binding
        <5>3. BindingOf(d)
          BY DEF CallbackIInv, BindingIsDated, BindingOf
        <5>4. BindingOf(d)'
          BY <2>0, <2>t, <3>2, <3>3, <3>7, <5>1, <5>2, <5>3 DEF BindingOf, Admitted
        <5>5. ev[d].pc = "call" => ev[d].obs.gen <= state.gen
          BY <5>3 DEF BindingOf, CallbackIInv, GuardSawBinding, Admitted, Live
        <5>6. ev[d].obs.gen \in Nat
          BY <2>0 DEF EventRow, Binding
        <5>7. GuardOf(d)'
          BY <2>t, <3>2, <3>3, <5>1, <5>5, <5>6 DEF GuardOf, CallbackIInv, GuardSawBinding, ActsAsSubmitted
        <5> QED  BY <5>4, <5>7
      <4> QED  BY <4>1, <4>2
    <3> QED  BY <3>4, <3>5, <3>6, <3>8, PartsMakeInvariant
  <2> QED
    BY <2>1, <2>2, <2>3, <2>4, <2>5, <2>7, <2>8, <2>9, <2>10, <2>11, <2>12, <2>13 DEF CallbackNext
<1> QED  BY <1>1, <1>2, PTL DEF CallbackSpec

\* The variables of a tab and its callbacks keep their types.
THEOREM CallbackTypes == CallbackSpec => []CallbackTypeOK
BY CallbackInvariance, PTL DEF CallbackIInv

\* A queued callback runs with the token its tab had when it was submitted,
\* publishes only into that login and keeps its record while it is queued or runs:
\* for any number of callbacks, people, records and sign-ins.
THEOREM CallbacksAreGuarded == CallbackSpec => []CallbacksKeepTheirLogin
<1>1. CallbackIInv => CallbacksKeepTheirLogin
  BY DEF CallbackIInv, RecordsFit, BindingIsDated, Admitted, CallbacksKeepTheirLogin, WorkKeepsItsRecord
<1> QED  BY <1>1, CallbackInvariance, PTL

-----------------------------------------------------------------------------
(* ChatFiles: rows in a table.                                             *)

\* Of the rows of s some are left, in a table no longer.
Thinned(t, s) ==
    /\ t \in Seq(Rows) /\ Len(t) <= Len(s)
    /\ \A j \in 1..Len(t) : \E n \in 1..Len(s) : t[j] = s[n]
    /\ OneRowPerToken(s) => OneRowPerToken(t)

\* A table is left as it is.
LEMMA ThinnedSame == \A s \in Seq(Rows) : Thinned(s, s)
BY DEF Thinned

LEMMA ThinnedTwice ==
    ASSUME NEW s, NEW t, NEW q, Thinned(t, s), Thinned(q, t), s \in Seq(Rows)
    PROVE  Thinned(q, s)
<1>1. Len(q) \in Nat /\ Len(t) \in Nat /\ Len(s) \in Nat
    BY DEF Thinned
<1>2. ASSUME NEW j \in 1..Len(q) PROVE \E n \in 1..Len(s) : q[j] = s[n]
    <2>1. PICK n \in 1..Len(t) : q[j] = t[n]
        BY DEF Thinned
    <2>. QED
        BY <2>1 DEF Thinned
<1>. QED
    BY <1>1, <1>2 DEF Thinned

\* A row is deleted: every other one is left.
LEMMA WithoutThins ==
    ASSUME NEW s \in Seq(Rows), NEW i \in 1..Len(s)
    PROVE  /\ Thinned(Without(s, i), s)
           /\ OneRowPerToken(s) => ~Holds(Without(s, i), s[i].key)
<1>. DEFINE t == Without(s, i)
<1>1. Len(s) \in Nat /\ Len(s) - 1 \in Nat
    OBVIOUS
<1>2. \A j \in 1..(Len(s) - 1) : s[IF j < i THEN j ELSE j + 1] \in Rows
    BY <1>1
<1>3. t \in Seq(Rows) /\ Len(t) = Len(s) - 1
    <2>1. t \in [1..(Len(s) - 1) -> Rows]
        BY <1>1, <1>2 DEF Without
    <2>. QED
        BY <1>1, <2>1, SeqDef
<1>4. \A j \in 1..Len(t) : t[j] = s[IF j < i THEN j ELSE j + 1]
    BY <1>3 DEF Without
<1>5. \A j \in 1..Len(t) : (IF j < i THEN j ELSE j + 1) \in (1..Len(s)) \ {i}
    BY <1>1, <1>3
<1>6. \A j \in 1..Len(t) : \E n \in 1..Len(s) : t[j] = s[n]
    BY <1>4, <1>5
<1>. HIDE DEF t
<1>7. ASSUME OneRowPerToken(s) PROVE OneRowPerToken(t)
    <2>1. SUFFICES ASSUME NEW a \in 1..Len(t), NEW b \in 1..Len(t), t[a].key = t[b].key PROVE a = b
        BY DEF OneRowPerToken
    <2>2. (IF a < i THEN a ELSE a + 1) = (IF b < i THEN b ELSE b + 1)
        BY <1>4, <1>5, <1>7, <2>1 DEF OneRowPerToken
    <2>. QED
        BY <1>1, <1>3, <2>2
<1>8. OneRowPerToken(s) => ~Holds(t, s[i].key)
    BY <1>4, <1>5 DEF OneRowPerToken, Holds
<1>. QED
    BY <1>1, <1>3, <1>6, <1>7, <1>8 DEF Thinned, t

\* What a thinner table holds, the table held.
LEMMA ThinnedHolds ==
    ASSUME NEW s \in Seq(Rows), NEW t, Thinned(t, s), NEW k, ~Holds(s, k)
    PROVE  ~Holds(t, k)
BY DEF Thinned, Holds

\* The row of a token is popped.
LEMMA PopThins ==
    ASSUME NEW s \in Seq(Rows), NEW k
    PROVE  Thinned(Pop(s, k), s) /\ (OneRowPerToken(s) => ~Holds(Pop(s, k), k))
<1>1. CASE Holds(s, k)
    <2>. DEFINE i == CHOOSE i \in 1..Len(s) : s[i].key = k
    <2>1. i \in 1..Len(s) /\ s[i].key = k
        BY <1>1 DEF Holds
    <2>2. Pop(s, k) = Without(s, i)
        BY <1>1 DEF Pop
    <2>. QED
        BY <2>1, <2>2, WithoutThins
<1>2. CASE ~Holds(s, k)
    BY <1>2, ThinnedSame DEF Pop
<1>. QED
    BY <1>1, <1>2

\* The rows of a tab are popped.
LEMMA PoppedThins ==
    ASSUME NEW s \in Seq(Rows), NEW k
    PROVE  /\ Thinned(Popped(s, k), s)
           /\ OneRowPerToken(s) => ~Holds(Popped(s, k), k)
           /\ OneRowPerToken(s) /\ k = Old /\ renewed => ~Holds(Popped(s, k), New)
<1>1. CASE k = Old /\ renewed
    <2>1. Thinned(Pop(s, New), s) /\ (OneRowPerToken(s) => ~Holds(Pop(s, New), New))
        BY PopThins
    <2>2. Pop(s, New) \in Seq(Rows)
        BY <2>1 DEF Thinned
    <2>3. /\ Thinned(Pop(Pop(s, New), Old), Pop(s, New))
          /\ OneRowPerToken(Pop(s, New)) => ~Holds(Pop(Pop(s, New), Old), Old)
        BY <2>2, PopThins
    <2>4. Thinned(Pop(Pop(s, New), Old), s)
        BY <2>1, <2>3, ThinnedTwice
    <2>5. OneRowPerToken(s) => ~Holds(Pop(Pop(s, New), Old), New)
        BY <2>1, <2>2, <2>3, ThinnedHolds
    <2>6. OneRowPerToken(s) => OneRowPerToken(Pop(s, New))
        BY <2>1 DEF Thinned
    <2>. QED
        BY <1>1, <2>3, <2>4, <2>5, <2>6 DEF Popped
<1>2. CASE ~(k = Old /\ renewed)
    BY <1>2, PopThins DEF Popped
<1>. QED
    BY <1>1, <1>2

\* The newest rows stay.
LEMMA NewestThins ==
    ASSUME NEW s \in Seq(Rows), NEW n \in 0..Len(s)
    PROVE  Thinned(Newest(s, n), s) /\ Len(Newest(s, n)) = n
<1>. DEFINE t == Newest(s, n)
<1>1. Len(s) \in Nat /\ n \in Nat /\ n <= Len(s)
    OBVIOUS
<1>2. \A j \in 1..n : Len(s) - n + j \in 1..Len(s)
    BY <1>1
<1>3. t \in Seq(Rows) /\ Len(t) = n
    <2>1. t \in [1..n -> Rows]
        BY <1>1, <1>2 DEF Newest
    <2>. QED
        BY <1>1, <2>1, SeqDef
<1>4. \A j \in 1..Len(t) : t[j] = s[Len(s) - n + j]
    BY <1>3 DEF Newest
<1>. HIDE DEF t
<1>5. ASSUME OneRowPerToken(s) PROVE OneRowPerToken(t)
    <2>1. SUFFICES ASSUME NEW a \in 1..Len(t), NEW b \in 1..Len(t), t[a].key = t[b].key PROVE a = b
        BY DEF OneRowPerToken
    <2>2. PICK x \in 1..Len(s) : x = Len(s) - n + a /\ t[a] = s[x]
        BY <1>2, <1>3, <1>4
    <2>3. PICK y \in 1..Len(s) : y = Len(s) - n + b /\ t[b] = s[y]
        BY <1>2, <1>3, <1>4
    <2>4. x = y
        BY <1>5, <2>1, <2>2, <2>3 DEF OneRowPerToken
    <2>. QED
        BY <1>1, <1>3, <2>2, <2>3, <2>4
<1>6. \A j \in 1..Len(t) : \E m \in 1..Len(s) : t[j] = s[m]
    BY <1>2, <1>3, <1>4
<1>. QED
    BY <1>1, <1>3, <1>5, <1>6 DEF Thinned, t

\* A row under a token that has none.
LEMMA AppendRow ==
    ASSUME NEW s \in Seq(Rows), NEW r \in Rows
    PROVE  /\ Append(s, r) \in Seq(Rows)
           /\ OneRowPerToken(s) /\ ~Holds(s, r.key) => OneRowPerToken(Append(s, r))
           /\ \A k : ~Holds(s, k) /\ k # r.key => ~Holds(Append(s, r), k)
<1>1. /\ Append(s, r) \in Seq(Rows) /\ Len(Append(s, r)) = Len(s) + 1
      /\ \A j \in 1..Len(s) : Append(s, r)[j] = s[j]
      /\ Append(s, r)[Len(s) + 1] = r
    BY AppendProperties
<1>2. Len(s) \in Nat
    OBVIOUS
<1>. DEFINE t == Append(s, r)
<1>3. Len(t) = Len(s) + 1 /\ (\A j \in 1..Len(s) : t[j] = s[j]) /\ t[Len(s) + 1] = r
    BY <1>1
<1>. HIDE DEF t
<1>4. \A j \in 1..Len(t) : j \in 1..Len(s) \/ j = Len(s) + 1
    BY <1>2, <1>3
<1>5. ASSUME OneRowPerToken(s), ~Holds(s, r.key) PROVE OneRowPerToken(t)
    BY <1>3, <1>4, <1>5 DEF OneRowPerToken, Holds
<1>6. \A k : ~Holds(s, k) /\ k # r.key => ~Holds(t, k)
    BY <1>3, <1>4 DEF Holds
<1>. QED
    BY <1>1, <1>5, <1>6 DEF t

-----------------------------------------------------------------------------
(* ChatFiles: the rows keep their login, the store its budget.             *)

\* Rows that are left are still of their login.
LEMMA ThinnedKept ==
    ASSUME NEW s \in Seq(Rows), NEW t, Thinned(t, s), NEW calls, KeptFor(s, calls)
    PROVE  KeptFor(t, calls)
<1>1. SUFFICES ASSUME NEW j \in 1..Len(t)
               PROVE  /\ calls[t[j].file].pc = "over"
                      /\ LoginOf(calls[t[j].file].owner) = LoginOf(t[j].key)
    BY DEF KeptFor
<1>2. PICK n \in 1..Len(s) : t[j] = s[n]
    BY DEF Thinned
<1>. QED
    BY <1>2 DEF KeptFor

\* A row of the login of its file is added.
LEMMA AppendKept ==
    ASSUME NEW s \in Seq(Rows), NEW r \in Rows, NEW calls, KeptFor(s, calls),
           calls[r.file].pc = "over", LoginOf(calls[r.file].owner) = LoginOf(r.key)
    PROVE  KeptFor(Append(s, r), calls)
<1>1. /\ Len(Append(s, r)) = Len(s) + 1 /\ Len(s) \in Nat
      /\ \A j \in 1..Len(s) : Append(s, r)[j] = s[j]
      /\ Append(s, r)[Len(s) + 1] = r
    BY AppendProperties
<1>. DEFINE t == Append(s, r)
<1>2. /\ Len(t) = Len(s) + 1 /\ Len(s) \in Nat
      /\ \A j \in 1..Len(s) : t[j] = s[j]
      /\ t[Len(s) + 1] = r
    BY <1>1
<1>. HIDE DEF t
<1>3. \A j \in 1..Len(t) : j \in 1..Len(s) \/ j = Len(s) + 1
    BY <1>2
<1>4. KeptFor(t, calls)
    BY <1>2, <1>3 DEF KeptFor
<1>. QED
    BY <1>4 DEF t

\* An upload that is over stays as it is, so its rows keep their login.
LEMMA KeptOn ==
    ASSUME NEW s \in Seq(Rows), NEW calls, NEW later, KeptFor(s, calls),
           \A u \in Uploads : calls[u].pc = "over" => later[u] = calls[u]
    PROVE  KeptFor(s, later)
<1>1. \A i \in 1..Len(s) : s[i].file \in Uploads
    <2>1. \A i \in 1..Len(s) : s[i] \in Rows
        OBVIOUS
    <2>. QED
        BY <2>1 DEF Rows
<1>. QED
    BY <1>1 DEF KeptFor

\* The files of a table are finitely many.
LEMMA FilesAreFinite ==
    ASSUME NEW s \in Seq(Rows)
    PROVE  IsFiniteSet(FilesIn(s))
<1>1. IsFiniteSet(1..Len(s))
    <2>1. Len(s) \in Nat
        OBVIOUS
    <2>. QED
        BY <2>1, FS_Interval
<1>. DEFINE F == [i \in 1..Len(s) |-> s[i].file]
<1>2. {F[i] : i \in 1..Len(s)} = FilesIn(s)
    BY DEF FilesIn
<1>3. F \in Surjection(1..Len(s), FilesIn(s))
    BY <1>2, Zenon DEF Surjection
<1>. QED
    BY <1>1, <1>3, FS_Surjection

\* A store that loses rows stays within its bytes.
LEMMA ThinnedBudget ==
    ASSUME ChatFilesAssumption, NEW p \in Seq(Rows), NEW s \in Seq(Rows),
           NEW q, Thinned(q, p), NEW t, Thinned(t, s), ~OverBudget(p, s)
    PROVE  ~OverBudget(q, t)
<1>. DEFINE all == FilesIn(p) \cup FilesIn(s)
            left == FilesIn(q) \cup FilesIn(t)
<1>1. IsFiniteSet(all)
    BY FilesAreFinite, FS_Union
<1>2. left \subseteq all
    <2>1. \A j \in 1..Len(q) : \E n \in 1..Len(p) : q[j] = p[n]
        BY DEF Thinned
    <2>2. \A j \in 1..Len(t) : \E n \in 1..Len(s) : t[j] = s[n]
        BY DEF Thinned
    <2>. QED
        BY <2>1, <2>2, SMTT(60) DEF FilesIn
<1>3. Cardinality(left) <= Cardinality(all) /\ IsFiniteSet(left)
    BY <1>1, <1>2, FS_Subset
<1>4. Cardinality(left) \in Nat /\ Cardinality(all) \in Nat
    BY <1>1, <1>3, FS_CardinalityType
<1>. HIDE DEF left, all
<1>5. Size * Cardinality(left) <= Size * Cardinality(all)
    <2>1. \A a, b \in Nat : a <= b => Size * a <= Size * b
        BY DEF ChatFilesAssumption
    <2>. QED
        BY <1>3, <1>4, <2>1
<1>6. Size * Cardinality(left) \in Nat /\ Size * Cardinality(all) \in Nat /\ MaxBytes \in Nat
    BY <1>4 DEF ChatFilesAssumption
<1>7. ~(Size * Cardinality(all) > MaxBytes)
    BY DEF OverBudget, all
<1>8. ~(Size * Cardinality(left) > MaxBytes)
    BY <1>5, <1>6, <1>7
<1>. QED
    BY <1>8 DEF OverBudget, left

\* The file is put under every key of the tab, and under no other.
LEMMA PutRows ==
    ASSUME ChatFilesAssumption, NEW s \in Seq(Rows), NEW k \in BearerTokens, NEW u \in Uploads,
           OneRowPerToken(s)
    PROVE  /\ Put(s, k, u) \in Seq(Rows) /\ OneRowPerToken(Put(s, k, u))
           /\ \A calls : /\ KeptFor(s, calls) /\ calls[u].pc = "over"
                         /\ LoginOf(calls[u].owner) = LoginOf(k)
                         => KeptFor(Put(s, k, u), calls)
<1>. DEFINE p == Popped(s, k)
            row(x) == [key |-> x, file |-> u]
<1>1. /\ p \in Seq(Rows) /\ OneRowPerToken(p) /\ ~Holds(p, k)
      /\ k = Old /\ renewed => ~Holds(p, New)
    BY PoppedThins DEF Thinned
<1>2. \A calls : KeptFor(s, calls) => KeptFor(p, calls)
    BY PoppedThins, ThinnedKept
<1>3. \A x \in BearerTokens : row(x) \in Rows /\ row(x).key = x /\ row(x).file = u
    BY DEF Rows
<1>. HIDE DEF p, row
<1>4. CASE k = Old /\ renewed
    <2>. DEFINE q == Append(p, row(New))
    <2>1. Put(s, k, u) = Append(q, row(k))
        BY <1>4 DEF Put, p, row
    <2>2. New \in BearerTokens /\ LoginOf(New) = LoginOf(k)
        BY <1>4 DEF ChatFilesAssumption, LoginOf
    <2>3. q \in Seq(Rows) /\ OneRowPerToken(q) /\ (k # New => ~Holds(q, k))
        BY <1>1, <1>3, <1>4, <2>2, AppendRow
    <2>4. \A calls : KeptFor(p, calls) /\ calls[u].pc = "over" /\ LoginOf(calls[u].owner) = LoginOf(New)
              => KeptFor(q, calls)
        BY <1>1, <1>3, <2>2, AppendKept
    <2>. HIDE DEF q
    <2>5. k # New
        BY <1>4 DEF ChatFilesAssumption
    <2>6. Append(q, row(k)) \in Seq(Rows) /\ OneRowPerToken(Append(q, row(k)))
        BY <1>3, <2>3, <2>5, AppendRow
    <2>7. \A calls : KeptFor(q, calls) /\ calls[u].pc = "over" /\ LoginOf(calls[u].owner) = LoginOf(k)
              => KeptFor(Append(q, row(k)), calls)
        BY <1>3, <2>3, AppendKept
    <2>. QED
        BY <1>2, <2>1, <2>2, <2>4, <2>6, <2>7
<1>5. CASE ~(k = Old /\ renewed)
    <2>1. Put(s, k, u) = Append(p, row(k))
        BY <1>5 DEF Put, p, row
    <2>2. Append(p, row(k)) \in Seq(Rows) /\ OneRowPerToken(Append(p, row(k)))
        BY <1>1, <1>3, AppendRow
    <2>3. \A calls : KeptFor(p, calls) /\ calls[u].pc = "over" /\ LoginOf(calls[u].owner) = LoginOf(k)
              => KeptFor(Append(p, row(k)), calls)
        BY <1>1, <1>3, AppendKept
    <2>. QED
        BY <1>2, <2>1, <2>2, <2>3
<1>. QED
    BY <1>4, <1>5

\* What can be said of the store and the calls of upload_chat_file.
StoreHolds(p, s, calls) ==
    /\ p \in Seq(Rows) /\ s \in Seq(Rows)
    /\ Len(p) <= MaxPending /\ Len(s) <= MaxStaged /\ ~OverBudget(p, s)
    /\ OneRowPerToken(p) /\ OneRowPerToken(s)
    /\ KeptFor(p, calls) /\ KeptFor(s, calls)

\* A store that loses rows still holds, while uploads end.
LEMMA StoreThinned ==
    ASSUME ChatFilesAssumption, NEW p, NEW s, NEW calls, StoreHolds(p, s, calls),
           NEW q, Thinned(q, p), NEW t, Thinned(t, s), NEW later,
           \A u \in Uploads : calls[u].pc = "over" => later[u] = calls[u]
    PROVE  StoreHolds(q, t, later)
<1>1. p \in Seq(Rows) /\ s \in Seq(Rows) /\ q \in Seq(Rows) /\ t \in Seq(Rows)
    BY DEF StoreHolds, Thinned
<1>2. ~OverBudget(q, t)
    BY <1>1, ThinnedBudget DEF StoreHolds
<1>3. KeptFor(q, calls) /\ KeptFor(t, calls)
    BY <1>1, ThinnedKept DEF StoreHolds
<1>4. KeptFor(q, later) /\ KeptFor(t, later)
    BY <1>1, <1>3, KeptOn
<1>5. /\ Len(p) \in Nat /\ Len(s) \in Nat /\ Len(q) \in Nat /\ Len(t) \in Nat
      /\ MaxPending \in Nat /\ MaxStaged \in Nat
    BY <1>1 DEF ChatFilesAssumption
<1>6. Len(q) <= MaxPending /\ Len(t) <= MaxStaged
    BY <1>5 DEF StoreHolds, Thinned
<1>7. OneRowPerToken(q) /\ OneRowPerToken(t)
    BY DEF StoreHolds, Thinned
<1>. QED
    BY <1>1, <1>2, <1>4, <1>6, <1>7 DEF StoreHolds

\* _enforce_budget brings any two tables within the store's bounds.
LEMMA EnforcedHolds ==
    ASSUME ChatFilesAssumption, NEW p \in Seq(Rows), NEW s \in Seq(Rows), NEW calls,
           OneRowPerToken(p), OneRowPerToken(s), KeptFor(p, calls), KeptFor(s, calls),
           Enforced(p, s)
    PROVE  StoreHolds(pending', staged', calls)
<1>1. PICK m \in 0..AtMost(p, MaxPending), n \in 0..AtMost(s, MaxStaged) :
          Fits(p, s, m, n) /\ pending' = Newest(p, m) /\ staged' = Newest(s, n)
    BY DEF Enforced
<1>2. Len(p) \in Nat /\ Len(s) \in Nat /\ MaxPending \in Nat /\ MaxStaged \in Nat
    BY DEF ChatFilesAssumption
<1>3. /\ m \in 0..Len(p) /\ m <= MaxPending
      /\ n \in 0..Len(s) /\ n <= MaxStaged
    BY <1>2 DEF AtMost
<1>4. /\ Thinned(Newest(p, m), p) /\ Len(Newest(p, m)) = m
      /\ Thinned(Newest(s, n), s) /\ Len(Newest(s, n)) = n
    BY <1>3, NewestThins
<1>5. KeptFor(Newest(p, m), calls) /\ KeptFor(Newest(s, n), calls)
    BY <1>4, ThinnedKept
<1>6. ~OverBudget(Newest(p, m), Newest(s, n))
    BY <1>1 DEF Fits
<1>7. StoreHolds(Newest(p, m), Newest(s, n), calls)
    BY <1>3, <1>4, <1>5, <1>6 DEF StoreHolds, Thinned
<1>. QED
    BY <1>1, <1>7

\* The parts of the invariant that a step may disturb.
Reading(calls) == {u \in Uploads : calls[u].pc = "reading"}
SlotsCounted(n, calls) == n \in Nat /\ n = Cardinality(Reading(calls))
CallRows == [pc : {"new", "reading", "over"}, owner : BearerTokens]
ReadsItsOwn(reads, calls) ==
    \A k \in BearerTokens : reads[k] # NoFile =>
        calls[reads[k]].pc = "over" /\ LoginOf(calls[reads[k]].owner) = LoginOf(k)
SentItsOwn(done, calls) ==
    \A x \in done : calls[x[1]].pc = "over" /\ LoginOf(calls[x[1]].owner) = LoginOf(x[2])

FileParts ==
    /\ renewed \in BOOLEAN
    /\ upload \in [Uploads -> CallRows]
    /\ SlotsCounted(parsing, upload)
    /\ StoreHolds(pending, staged, upload)
    /\ sending \in [BearerTokens -> Uploads \cup {NoFile}] /\ ReadsItsOwn(sending, upload)
    /\ sent \subseteq (Uploads \X BearerTokens) /\ SentItsOwn(sent, upload)

LEMMA FilePartsAre == ASSUME ChatFilesAssumption PROVE FileIInv <=> FileParts
<1>1. FileIInv => FileParts
    BY DEF FileIInv, FileParts, FileTypeOK, FileStaysWithItsLogin, SlotsCounted, Reading,
           StoreHolds, SendsItsOwn, ReadsItsOwn, SentItsOwn, CallRows
<1>2. ASSUME FileParts PROVE FileIInv
    <2>1. FileTypeOK
        BY <1>2 DEF FileParts, FileTypeOK, StoreHolds, SlotsCounted, CallRows
    <2>2. FileStaysWithItsLogin
        BY <1>2 DEF FileParts, FileStaysWithItsLogin, StoreHolds, SlotsCounted, Reading, KeptFor,
                    SentItsOwn
    <2>. QED
        BY <1>2, <2>1, <2>2 DEF FileParts, FileIInv, StoreHolds, SendsItsOwn, ReadsItsOwn, SentItsOwn
<1>. QED
    BY <1>1, <1>2

\* While uploads end, what tabs have read and sent stays their login's.
LEMMA ReadsAndSentStay ==
    ASSUME ChatFilesAssumption, FileParts, NEW later,
           \A u \in Uploads : upload[u].pc = "over" => later[u] = upload[u]
    PROVE  ReadsItsOwn(sending, later) /\ SentItsOwn(sent, later)
<1>1. \A k \in BearerTokens : sending[k] # NoFile => sending[k] \in Uploads
    BY DEF FileParts
<1>2. \A x \in sent : x[1] \in Uploads
    BY DEF FileParts
<1>. QED
    BY <1>1, <1>2 DEF FileParts, ReadsItsOwn, SentItsOwn

\* An upload ends and its slot comes back.
LEMMA UploadEnds ==
    ASSUME ChatFilesAssumption, FileParts, NEW u \in Uploads, upload[u].pc = "reading",
           upload' = [upload EXCEPT ![u].pc = "over"], parsing' = parsing - 1
    PROVE  /\ upload' \in [Uploads -> CallRows]
           /\ upload'[u].pc = "over" /\ upload'[u].owner = upload[u].owner
           /\ \A w \in Uploads : upload[w].pc = "over" => upload'[w] = upload[w]
           /\ SlotsCounted(parsing', upload')
<1>1. upload \in [Uploads -> CallRows] /\ SlotsCounted(parsing, upload)
    BY DEF FileParts
<1>2. upload' \in [Uploads -> CallRows] /\ upload'[u].pc = "over" /\ upload'[u].owner = upload[u].owner
    BY <1>1 DEF CallRows
<1>3. \A w \in Uploads : w # u => upload'[w] = upload[w]
    BY <1>1
<1>4. Reading(upload') = Reading(upload) \ {u}
    BY <1>2, <1>3 DEF Reading
<1>5. u \in Reading(upload) /\ IsFiniteSet(Reading(upload))
    <2>1. Reading(upload) \subseteq Uploads
        BY DEF Reading
    <2>. QED
        BY <2>1, FS_Subset DEF Reading, ChatFilesAssumption
<1>6. Cardinality(Reading(upload')) = Cardinality(Reading(upload)) - 1 /\ IsFiniteSet(Reading(upload'))
    BY <1>4, <1>5, FS_RemoveElement, ZenonT(60)
<1>7. Cardinality(Reading(upload')) \in Nat
    BY <1>6, FS_CardinalityType
<1>8. SlotsCounted(parsing', upload')
    BY <1>1, <1>6, <1>7 DEF SlotsCounted
<1>. QED
    BY <1>2, <1>3, <1>8

\* A call begins: it takes a slot, or is refused.
LEMMA BeginUploadKeeps ==
    ASSUME ChatFilesAssumption, FileParts, NEW u \in Uploads, NEW k \in BearerTokens, BeginUpload(u, k)
    PROVE  FileParts'
<1>1. /\ upload \in [Uploads -> CallRows] /\ SlotsCounted(parsing, upload) /\ upload[u].pc = "new"
      /\ StoreHolds(pending, staged, upload)
    BY DEF FileParts, BeginUpload
<1>2. /\ upload' \in [Uploads -> CallRows]
      /\ \A w \in Uploads : w # u => upload'[w] = upload[w]
    <2>1. CASE parsing < Parallel
        <3>1. upload' = [upload EXCEPT ![u] = [pc |-> "reading", owner |-> k]]
            BY <2>1 DEF BeginUpload
        <3>. QED
            BY <1>1, <3>1 DEF CallRows
    <2>2. CASE ~(parsing < Parallel)
        <3>1. upload' = [upload EXCEPT ![u].pc = "over"]
            BY <2>2 DEF BeginUpload
        <3>. QED
            BY <1>1, <3>1 DEF CallRows
    <2>. QED
        BY <2>1, <2>2
<1>3. \A w \in Uploads : upload[w].pc = "over" => upload'[w] = upload[w]
    BY <1>1, <1>2
<1>4. SlotsCounted(parsing', upload')
    <2>1. IsFiniteSet(Reading(upload)) /\ u \notin Reading(upload)
        <3>1. Reading(upload) \subseteq Uploads
            BY DEF Reading
        <3>. QED
            BY <1>1, <3>1, FS_Subset DEF Reading, ChatFilesAssumption
    <2>2. CASE parsing < Parallel
        <3>1. parsing' = parsing + 1 /\ upload' = [upload EXCEPT ![u] = [pc |-> "reading", owner |-> k]]
            BY <2>2 DEF BeginUpload
        <3>2. upload'[u].pc = "reading"
            BY <1>1, <3>1
        <3>3. Reading(upload') = Reading(upload) \cup {u}
            BY <1>2, <3>2 DEF Reading
        <3>4. Cardinality(Reading(upload')) = Cardinality(Reading(upload)) + 1
            BY <2>1, <3>3, FS_AddElement
        <3>. QED
            BY <1>1, <3>1, <3>4 DEF SlotsCounted
    <2>3. CASE ~(parsing < Parallel)
        <3>1. parsing' = parsing /\ upload' = [upload EXCEPT ![u].pc = "over"]
            BY <2>3 DEF BeginUpload
        <3>2. upload'[u].pc = "over"
            BY <1>1, <3>1 DEF CallRows
        <3>3. Reading(upload') = Reading(upload)
            BY <1>1, <1>2, <3>2 DEF Reading
        <3>. QED
            BY <1>1, <3>1, <3>3 DEF SlotsCounted
    <2>. QED
        BY <2>2, <2>3
<1>5. ReadsItsOwn(sending, upload') /\ SentItsOwn(sent, upload')
    BY <1>3, ReadsAndSentStay
<1>6. StoreHolds(pending, staged, upload')
    <2>1. Thinned(pending, pending) /\ Thinned(staged, staged)
        BY <1>1, ThinnedSame DEF StoreHolds
    <2>. QED
        BY <1>1, <1>3, <2>1, StoreThinned
<1>7. /\ renewed' = renewed /\ pending' = pending /\ staged' = staged
      /\ sending' = sending /\ sent' = sent
    BY DEF BeginUpload
<1>8. /\ renewed' \in BOOLEAN /\ sending' \in [BearerTokens -> Uploads \cup {NoFile}]
      /\ sent' \subseteq (Uploads \X BearerTokens)
    BY <1>7 DEF FileParts
<1>. QED
    BY <1>2, <1>4, <1>5, <1>6, <1>7, <1>8 DEF FileParts

\* A call fails.
LEMMA FailUploadKeeps ==
    ASSUME ChatFilesAssumption, FileParts, NEW u \in Uploads, FailUpload(u)
    PROVE  FileParts'
<1>1. /\ upload[u].pc = "reading" /\ upload' = [upload EXCEPT ![u].pc = "over"]
      /\ parsing' = parsing - 1
    BY DEF FailUpload, SlotBack
<1>2. /\ upload' \in [Uploads -> CallRows] /\ SlotsCounted(parsing', upload')
      /\ \A w \in Uploads : upload[w].pc = "over" => upload'[w] = upload[w]
    BY <1>1, UploadEnds
<1>3. ReadsItsOwn(sending, upload') /\ SentItsOwn(sent, upload')
    BY <1>2, ReadsAndSentStay
<1>4. StoreHolds(pending, staged, upload')
    <2>1. StoreHolds(pending, staged, upload)
        BY DEF FileParts
    <2>2. Thinned(pending, pending) /\ Thinned(staged, staged)
        BY <2>1, ThinnedSame DEF StoreHolds
    <2>. QED
        BY <1>2, <2>1, <2>2, StoreThinned
<1>5. /\ renewed' = renewed /\ pending' = pending /\ staged' = staged
      /\ sending' = sending /\ sent' = sent
    BY DEF FailUpload
<1>6. /\ renewed' \in BOOLEAN /\ sending' \in [BearerTokens -> Uploads \cup {NoFile}]
      /\ sent' \subseteq (Uploads \X BearerTokens)
    BY <1>5 DEF FileParts
<1>. QED
    BY <1>2, <1>3, <1>4, <1>5, <1>6 DEF FileParts

\* A file waits for a tab of its owner.
LEMMA EndUploadKeeps ==
    ASSUME ChatFilesAssumption, FileParts, NEW u \in Uploads, EndUpload(u)
    PROVE  FileParts'
<1>. DEFINE k == upload[u].owner
            row == [key |-> k, file |-> u]
            left == Pop(pending, k)
<1>1. /\ upload[u].pc = "reading" /\ upload' = [upload EXCEPT ![u].pc = "over"]
      /\ parsing' = parsing - 1
      /\ Enforced(Append(left, row), staged)
    BY DEF EndUpload
<1>2. /\ upload' \in [Uploads -> CallRows] /\ SlotsCounted(parsing', upload')
      /\ upload'[u].pc = "over" /\ upload'[u].owner = k
      /\ \A w \in Uploads : upload[w].pc = "over" => upload'[w] = upload[w]
    BY <1>1, UploadEnds
<1>3. ReadsItsOwn(sending, upload') /\ SentItsOwn(sent, upload')
    BY <1>2, ReadsAndSentStay
<1>4. k \in BearerTokens /\ row \in Rows /\ row.key = k /\ row.file = u
    BY DEF FileParts, CallRows, Rows
<1>5. /\ pending \in Seq(Rows) /\ staged \in Seq(Rows)
      /\ OneRowPerToken(pending) /\ OneRowPerToken(staged)
      /\ KeptFor(pending, upload) /\ KeptFor(staged, upload)
    BY DEF FileParts, StoreHolds
<1>6. /\ left \in Seq(Rows) /\ OneRowPerToken(left) /\ ~Holds(left, k) /\ KeptFor(left, upload)
    BY <1>5, PopThins, ThinnedKept, ZenonT(60) DEF Thinned
<1>7. KeptFor(left, upload') /\ KeptFor(staged, upload')
    BY <1>2, <1>5, <1>6, KeptOn
<1>. HIDE DEF left, row, k
<1>8. /\ Append(left, row) \in Seq(Rows) /\ OneRowPerToken(Append(left, row))
    BY <1>4, <1>6, AppendRow
<1>9. KeptFor(Append(left, row), upload')
    BY <1>2, <1>4, <1>6, <1>7, AppendKept
<1>10. StoreHolds(pending', staged', upload')
    BY <1>1, <1>5, <1>7, <1>8, <1>9, EnforcedHolds
<1>11. renewed' = renewed /\ sending' = sending /\ sent' = sent
    BY DEF EndUpload
<1>12. /\ renewed' \in BOOLEAN /\ sending' \in [BearerTokens -> Uploads \cup {NoFile}]
       /\ sent' \subseteq (Uploads \X BearerTokens)
    BY <1>11 DEF FileParts
<1>. QED
    BY <1>2, <1>3, <1>10, <1>11, <1>12 DEF FileParts

\* A step that moves rows of the store only.
LEMMA StoreStepKeeps ==
    ASSUME ChatFilesAssumption, FileParts, StoreHolds(pending', staged', upload),
           UNCHANGED <<upload, parsing, sending, sent>>, renewed' \in BOOLEAN
    PROVE  FileParts'
BY DEF FileParts

\* Rows are dropped.
LEMMA DropKeeps ==
    ASSUME ChatFilesAssumption, FileParts, Thinned(pending', pending), Thinned(staged', staged)
    PROVE  StoreHolds(pending', staged', upload)
<1>1. StoreHolds(pending, staged, upload)
    BY DEF FileParts
<1>. QED
    BY <1>1, StoreThinned

LEMMA ClearedThins ==
    ASSUME FileParts, NEW k, Cleared(k)
    PROVE  Thinned(pending', pending) /\ Thinned(staged', staged)
BY PoppedThins DEF FileParts, StoreHolds, Cleared

\* A tab presents the id of an upload.
LEMMA StageChatFileKeeps ==
    ASSUME ChatFilesAssumption, FileParts, NEW k \in BearerTokens, NEW i \in 1..Len(pending),
           StageChatFile(k, i)
    PROVE  FileParts'
<1>. DEFINE x == pending[i]
            left == Without(pending, i)
<1>1. /\ pending \in Seq(Rows) /\ staged \in Seq(Rows)
      /\ OneRowPerToken(pending) /\ OneRowPerToken(staged)
      /\ KeptFor(pending, upload) /\ KeptFor(staged, upload)
    BY DEF FileParts, StoreHolds
<1>2. Thinned(left, pending) /\ left \in Seq(Rows) /\ OneRowPerToken(left) /\ KeptFor(left, upload)
    BY <1>1, WithoutThins, ThinnedKept DEF Thinned
<1>3. /\ x \in Rows /\ x.file \in Uploads /\ upload[x.file].pc = "over"
      /\ LoginOf(upload[x.file].owner) = LoginOf(x.key)
    <2>1. x \in Rows
        BY <1>1
    <2>. QED
        BY <1>1, <2>1 DEF KeptFor, Rows
<1>4. StoreHolds(pending', staged', upload)
    <2>1. CASE MayClaim(x, k)
        <3>1. Enforced(left, Put(staged, k, x.file))
            BY <2>1 DEF StageChatFile
        <3>2. LoginOf(x.key) = LoginOf(k)
            BY <2>1 DEF MayClaim, KeysOf, LoginOf
        <3>3. /\ Put(staged, k, x.file) \in Seq(Rows) /\ OneRowPerToken(Put(staged, k, x.file))
              /\ KeptFor(Put(staged, k, x.file), upload)
            BY <1>1, <1>3, <3>2, PutRows
        <3>. QED
            BY <1>2, <3>1, <3>3, EnforcedHolds
    <2>2. CASE ~MayClaim(x, k)
        <3>1. pending' = Popped(left, k) /\ staged' = Popped(staged, k)
            BY <2>2 DEF StageChatFile
        <3>2. Thinned(pending', pending) /\ Thinned(staged', staged)
            BY <1>1, <1>2, <3>1, PoppedThins, ThinnedTwice
        <3>. QED
            BY <3>2, DropKeeps
    <2>. QED
        BY <2>1, <2>2
<1>5. UNCHANGED <<upload, parsing, sending, sent>> /\ renewed' \in BOOLEAN
    BY DEF StageChatFile, FileParts
<1>. QED
    BY <1>4, <1>5, StoreStepKeeps

\* A tab reads what is staged for it.
LEMMA BeginSendKeeps ==
    ASSUME ChatFilesAssumption, FileParts, NEW k \in BearerTokens, BeginSend(k)
    PROVE  FileParts'
<1>1. PICK u \in StagedFor(k) : sending' = [sending EXCEPT ![k] = u]
    BY DEF BeginSend
<1>2. PICK j \in 1..Len(staged) : staged[j].key \in KeysOf(k) /\ staged[j].file = u
    BY DEF StagedFor
<1>3. /\ staged \in Seq(Rows) /\ KeptFor(staged, upload)
      /\ sending \in [BearerTokens -> Uploads \cup {NoFile}] /\ ReadsItsOwn(sending, upload)
    BY DEF FileParts, StoreHolds
<1>4. u \in Uploads
    <2>1. staged[j] \in Rows
        BY <1>3
    <2>. QED
        BY <1>2, <2>1 DEF Rows
<1>5. upload[u].pc = "over" /\ LoginOf(upload[u].owner) = LoginOf(k)
    <2>1. LoginOf(staged[j].key) = LoginOf(k)
        BY <1>2 DEF KeysOf, LoginOf
    <2>. QED
        BY <1>2, <1>3, <2>1 DEF KeptFor
<1>6. sending' \in [BearerTokens -> Uploads \cup {NoFile}] /\ ReadsItsOwn(sending', upload)
    <2>1. sending' \in [BearerTokens -> Uploads \cup {NoFile}]
        BY <1>1, <1>3, <1>4
    <2>2. \A w \in BearerTokens : sending'[w] = IF w = k THEN u ELSE sending[w]
        BY <1>1, <1>3
    <2>. QED
        BY <1>3, <1>5, <2>1, <2>2 DEF ReadsItsOwn
<1>7. UNCHANGED <<renewed, upload, parsing, pending, staged, sent>>
    BY DEF BeginSend
<1>. QED
    BY <1>6, <1>7 DEF FileParts

\* The API has answered.
LEMMA EndSendKeeps ==
    ASSUME ChatFilesAssumption, FileParts, NEW k \in BearerTokens, NEW ok \in BOOLEAN, EndSend(k, ok)
    PROVE  FileParts'
<1>1. /\ sending \in [BearerTokens -> Uploads \cup {NoFile}] /\ ReadsItsOwn(sending, upload)
      /\ sent \subseteq (Uploads \X BearerTokens) /\ SentItsOwn(sent, upload)
      /\ StoreHolds(pending, staged, upload)
    BY DEF FileParts
<1>2. /\ sending[k] # NoFile /\ sending' = [sending EXCEPT ![k] = NoFile]
      /\ UNCHANGED <<renewed, upload, parsing>>
    BY DEF EndSend
<1>3. sending' \in [BearerTokens -> Uploads \cup {NoFile}] /\ ReadsItsOwn(sending', upload)
    <2>1. sending' \in [BearerTokens -> Uploads \cup {NoFile}]
        BY <1>1, <1>2
    <2>2. \A w \in BearerTokens : sending'[w] = IF w = k THEN NoFile ELSE sending[w]
        BY <1>1, <1>2
    <2>. QED
        BY <1>1, <2>1, <2>2 DEF ReadsItsOwn
<1>4. /\ StoreHolds(pending', staged', upload)
      /\ sent' \subseteq (Uploads \X BearerTokens) /\ SentItsOwn(sent', upload)
    <2>1. CASE ok
        <3>1. Cleared(k) /\ sent' = sent \cup {<<sending[k], k>>}
            BY <2>1 DEF EndSend
        <3>2. Thinned(pending', pending) /\ Thinned(staged', staged)
            BY <3>1, ClearedThins
        <3>3. sending[k] \in Uploads /\ upload[sending[k]].pc = "over"
              /\ LoginOf(upload[sending[k]].owner) = LoginOf(k)
            BY <1>1, <1>2 DEF ReadsItsOwn
        <3>4. sent' \subseteq (Uploads \X BearerTokens) /\ SentItsOwn(sent', upload)
            BY <1>1, <3>1, <3>3 DEF SentItsOwn
        <3>. QED
            BY <3>2, <3>4, DropKeeps
    <2>2. CASE ~ok
        <3>1. UNCHANGED <<pending, staged, sent>>
            BY <2>2 DEF EndSend
        <3>. QED
            BY <1>1, <3>1
    <2>. QED
        BY <2>1, <2>2
<1>. QED
    BY <1>2, <1>3, <1>4 DEF FileParts

\* The oldest row passes its time.
LEMMA ExpireKeeps ==
    ASSUME ChatFilesAssumption, FileParts, Expire
    PROVE  FileParts'
<1>1. pending \in Seq(Rows) /\ staged \in Seq(Rows)
    BY DEF FileParts, StoreHolds
<1>2. \A s \in Seq(Rows) : s # <<>> => 1 \in 1..Len(s)
    OBVIOUS
<1>3. Thinned(pending', pending) /\ Thinned(staged', staged)
    <2>1. CASE pending # <<>> /\ pending' = Without(pending, 1) /\ UNCHANGED staged
        BY <1>1, <1>2, <2>1, WithoutThins, ThinnedSame
    <2>2. CASE staged # <<>> /\ staged' = Without(staged, 1) /\ UNCHANGED pending
        BY <1>1, <1>2, <2>2, WithoutThins, ThinnedSame
    <2>. QED
        BY <2>1, <2>2 DEF Expire
<1>4. UNCHANGED <<upload, parsing, sending, sent>> /\ renewed' \in BOOLEAN
    BY DEF Expire, FileParts
<1>. QED
    BY <1>3, <1>4, DropKeeps, StoreStepKeeps

\* The inductive invariant of the files on their way into a message.
THEOREM FileInvariance == FileSpec => []FileIInv
<1>. USE ChatFilesAssumption
<1>1. FileInit => FileIInv
    <2>1. SUFFICES ASSUME FileInit PROVE FileParts
        BY FilePartsAre
    <2>2. /\ renewed \in BOOLEAN /\ upload \in [Uploads -> CallRows]
          /\ sending \in [BearerTokens -> Uploads \cup {NoFile}] /\ ReadsItsOwn(sending, upload)
          /\ sent \subseteq (Uploads \X BearerTokens) /\ SentItsOwn(sent, upload)
        BY <2>1 DEF FileInit, CallRows, ReadsItsOwn, SentItsOwn, ChatFilesAssumption
    <2>3. SlotsCounted(parsing, upload)
        <3>1. Reading(upload) = {}
            BY <2>1 DEF FileInit, Reading
        <3>. QED
            BY <2>1, <3>1, FS_EmptySet DEF FileInit, SlotsCounted
    <2>4. StoreHolds(pending, staged, upload)
        <3>1. pending = <<>> /\ staged = <<>>
            BY <2>1 DEF FileInit
        <3>2. Len(<<>>) = 0 /\ <<>> \in Seq(Rows) /\ 1..0 = {}
            OBVIOUS
        <3>3. FilesIn(<<>>) = {}
            BY <3>2 DEF FilesIn
        <3>4. ~OverBudget(<<>>, <<>>)
            <4>1. Cardinality(FilesIn(<<>>) \cup FilesIn(<<>>)) = 0
                BY <3>3, FS_EmptySet
            <4>. QED
                BY <4>1 DEF OverBudget, ChatFilesAssumption
        <3>. QED
            BY <3>1, <3>2, <3>4 DEF StoreHolds, OneRowPerToken, KeptFor, ChatFilesAssumption
    <2>. QED
        BY <2>2, <2>3, <2>4 DEF FileParts
<1>2. FileIInv /\ [FileNext]_fileVars => FileIInv'
    <2>1. SUFFICES ASSUME FileParts, [FileNext]_fileVars PROVE FileParts'
        <3>1. FileIInv' <=> FileParts'
            BY FilePartsAre, PTL
        <3>. QED
            BY <3>1, FilePartsAre
    <2>2. CASE Expire
        BY <2>1, <2>2, ExpireKeeps
    <2>3. CASE Renew
        <3>1. StoreHolds(pending', staged', upload)
            BY <2>1, <2>3 DEF Renew, FileParts
        <3>. QED
            BY <2>1, <2>3, <3>1, StoreStepKeeps DEF Renew
    <2>4. ASSUME NEW u \in Uploads, FailUpload(u) PROVE FileParts'
        BY <2>1, <2>4, FailUploadKeeps
    <2>5. ASSUME NEW u \in Uploads, EndUpload(u) PROVE FileParts'
        BY <2>1, <2>5, EndUploadKeeps
    <2>6. ASSUME NEW u \in Uploads, NEW k \in BearerTokens, BeginUpload(u, k) PROVE FileParts'
        BY <2>1, <2>6, BeginUploadKeeps
    <2>7. ASSUME NEW k \in BearerTokens, ClearChatFile(k) PROVE FileParts'
        <3>1. StoreHolds(pending', staged', upload)
            BY <2>1, <2>7, ClearedThins, DropKeeps DEF ClearChatFile
        <3>. QED
            BY <2>1, <2>7, <3>1, StoreStepKeeps DEF ClearChatFile, FileParts
    <2>8. ASSUME NEW k \in BearerTokens, BeginSend(k) PROVE FileParts'
        BY <2>1, <2>8, BeginSendKeeps
    <2>9. ASSUME NEW k \in BearerTokens, NEW i \in 1..Len(pending), StageChatFile(k, i) PROVE FileParts'
        BY <2>1, <2>9, StageChatFileKeeps
    <2>10. ASSUME NEW k \in BearerTokens, NEW ok \in BOOLEAN, EndSend(k, ok) PROVE FileParts'
        BY <2>1, <2>10, EndSendKeeps
    <2>11. CASE UNCHANGED fileVars
        BY <2>1, <2>11 DEF fileVars, FileParts
    <2>. QED
        BY <2>1, <2>2, <2>3, <2>4, <2>5, <2>6, <2>7, <2>8, <2>9, <2>10, <2>11 DEF FileNext
<1>. QED
    BY <1>1, <1>2, PTL DEF FileSpec

\* A file is staged and sent only by the login that uploaded it, the store keeps to
\* its counts and bytes, and the slots for parsing are those of uploads in progress:
\* for any number of uploads, tokens and tabs, and any limits.
THEOREM FilesStayWithTheirLogin == FileSpec => []FileStaysWithItsLogin
<1>1. FileIInv => FileStaysWithItsLogin
    BY DEF FileIInv
<1>. QED
    BY <1>1, FileInvariance, PTL

-----------------------------------------------------------------------------
(* Numbers and sequences.                                                *)

\* A set of numbers has a least one.
LEMMA LeastOf ==
    ASSUME NEW S \in SUBSET Nat, S # {}
    PROVE  \E x \in S : \A y \in S : x <= y
<1>1. PICK x \in S : \A y \in S : ~(<<y, x>> \in OpToRel(<, Nat))
    BY NatLessThanWellFounded, WFMin, Zenon
<1>2. \A y \in S : ~(y < x)
    <2>. SUFFICES ASSUME NEW y \in S, y < x PROVE FALSE
        OBVIOUS
    <2>1. <<y, x>> \in Nat \X Nat /\ <<y, x>>[1] = y /\ <<y, x>>[2] = x
        OBVIOUS
    <2>2. <<y, x>> \in OpToRel(<, Nat)
        BY <2>1 DEF OpToRel
    <2>. QED
        BY <1>1, <2>2
<1>. QED
    BY <1>2

\* A function over 1..n is a sequence.
LEMMA FunctionIsSeq ==
    ASSUME NEW S, NEW n \in Nat, NEW f \in [1..n -> S]
    PROVE  f \in Seq(S) /\ Len(f) = n
<1>1. f \in Seq(S)
    BY SeqDef
<1>. QED
    BY <1>1

-----------------------------------------------------------------------------
(* Dlp: spans that are merged, and the chunks between them.                *)

LEMMA StretchTypes ==
    ASSUME DlpAssumption, NEW m \in Seq(Stretches)
    PROVE  /\ Len(m) \in Nat /\ MaxScan \in Nat
           /\ \A i \in 1..Len(m) : m[i] \in Stretches /\ m[i].start \in Nat /\ m[i].end \in Nat
<1>1. MaxScan \in Nat
    BY DEF DlpAssumption
<1>2. \A i \in 1..Len(m) : m[i] \in Stretches
    OBVIOUS
<1>. QED
    BY <1>1, <1>2, SMTT(60) DEF Stretches

\* A span that begins after the last one ends.
LEMMA ApartAppend ==
    ASSUME DlpAssumption, NEW m \in Seq(Stretches), Apart(m),
           NEW x \in Stretches, x.start < x.end,
           Len(m) = 0 \/ x.start > m[Len(m)].end
    PROVE  /\ Append(m, x) \in Seq(Stretches) /\ Apart(Append(m, x))
           /\ \A c \in Nat : InMerged(Append(m, x), c) <=> InMerged(m, c) \/ Covers(x, c)
<1>. DEFINE t == Append(m, x)
            n == Len(m)
<1>1. /\ t \in Seq(Stretches) /\ Len(t) = n + 1 /\ (\A i \in 1..n : t[i] = m[i]) /\ t[n + 1] = x
    BY AppendProperties
<1>2. /\ n \in Nat /\ MaxScan \in Nat
      /\ \A i \in 1..n : m[i].start \in Nat /\ m[i].end \in Nat
    BY StretchTypes
<1>3. x.start \in Nat /\ x.end \in Nat
    BY <1>2 DEF Stretches
<1>. HIDE DEF t
<1>4. \A i \in 1..Len(t) : i \in 1..n \/ i = n + 1
    BY <1>1, <1>2
<1>5. \A i \in 1..n : m[i].end < x.start
    <2>1. SUFFICES ASSUME NEW i \in 1..n PROVE m[i].end < x.start
        OBVIOUS
    <2>2. n \in 1..n /\ m[n].end < x.start
        BY <1>2, <1>3
    <2>3. CASE i = n
        BY <2>2, <2>3
    <2>4. CASE i # n
        <3>1. m[i].end < m[n].start /\ m[n].start < m[n].end
            BY <1>2, <2>2, <2>4 DEF Apart
        <3>2. m[i].end \in Nat /\ m[n].start \in Nat /\ m[n].end \in Nat
            BY <1>2, <2>2
        <3>. QED
            BY <1>3, <2>2, <3>1, <3>2, SMTT(60)
    <2>. QED
        BY <2>3, <2>4
<1>6. Apart(t)
    <2>1. \A i \in 1..Len(t) : t[i].start < t[i].end
        BY <1>1, <1>4 DEF Apart
    <2>2. ASSUME NEW i \in 1..Len(t), NEW j \in 1..Len(t), i < j PROVE t[i].end < t[j].start
        <3>1. i \in 1..n
            BY <1>1, <1>2, <2>2
        <3>2. CASE j \in 1..n
            BY <1>1, <2>2, <3>1, <3>2 DEF Apart
        <3>3. CASE j = n + 1
            BY <1>1, <1>5, <3>1, <3>3
        <3>. QED
            BY <1>4, <3>2, <3>3
    <2>. QED
        BY <2>1, <2>2 DEF Apart
<1>7. ASSUME NEW c \in Nat PROVE InMerged(t, c) <=> InMerged(m, c) \/ Covers(x, c)
    <2>1. n + 1 \in 1..Len(t) /\ \A i \in 1..n : i \in 1..Len(t)
        BY <1>1, <1>2
    <2>. QED
        BY <1>1, <1>4, <2>1 DEF InMerged
<1>. QED
    BY <1>1, <1>6, <1>7 DEF t

\* A span that begins no later than the last one ends extends it.
LEMMA ApartExtend ==
    ASSUME DlpAssumption, NEW m \in Seq(Stretches), Apart(m), NEW x \in Stretches, x.start < x.end,
           Len(m) # 0, ~(x.start > m[Len(m)].end), m[Len(m)].start <= x.start
    PROVE  /\ Extended(m, x) \in Seq(Stretches) /\ Apart(Extended(m, x)) /\ Len(Extended(m, x)) = Len(m)
           /\ \A i \in 1..Len(m) : Extended(m, x)[i].start = m[i].start
           /\ \A c \in Nat : InMerged(Extended(m, x), c) <=> InMerged(m, c) \/ Covers(x, c)
<1>. DEFINE t == Extended(m, x)
            n == Len(m)
            e == IF x.end > m[n].end THEN x.end ELSE m[n].end
<1>1. /\ n \in Nat /\ n \in 1..n /\ MaxScan \in Nat
      /\ \A i \in 1..n : m[i] \in Stretches /\ m[i].start \in Nat /\ m[i].end \in Nat
    BY StretchTypes
<1>2. x.start \in Nat /\ x.end \in Nat
    BY <1>1, SMTT(60) DEF Stretches
<1>3. /\ t \in Seq(Stretches) /\ Len(t) = n
      /\ \A i \in 1..n : i # n => t[i] = m[i]
      /\ t[n].start = m[n].start /\ t[n].end = e
    <2>1. m \in [1..n -> Stretches]
        BY <1>1
    <2>2. e \in 2..MaxScan + 2
        BY <1>1 DEF Stretches
    <2>3. t = [m EXCEPT ![n] = [m[n] EXCEPT !.end = e]]
        BY DEF Extended
    <2>4. [m[n] EXCEPT !.end = e] \in Stretches /\ [m[n] EXCEPT !.end = e].start = m[n].start
          /\ [m[n] EXCEPT !.end = e].end = e
        BY <1>1, <2>2 DEF Stretches
    <2>. HIDE DEF e, t
    <2>5. t \in [1..n -> Stretches]
        BY <2>1, <2>3, <2>4
    <2>6. t \in Seq(Stretches) /\ Len(t) = n
        BY <1>1, <2>5, FunctionIsSeq
    <2>7. t[n] = [m[n] EXCEPT !.end = e] /\ \A i \in 1..n : i # n => t[i] = m[i]
        BY <1>1, <2>1, <2>3
    <2>. QED
        BY <2>4, <2>6, <2>7
<1>. HIDE DEF t
<1>4. m[n].start \in Nat /\ m[n].end \in Nat
    BY <1>1
<1>5. e \in Nat /\ m[n].end <= e /\ x.end <= e /\ (e = x.end \/ e = m[n].end)
    BY <1>2, <1>4, SMTT(60)
<1>. HIDE DEF e
<1>6. \A i \in 1..n : t[i].start = m[i].start
    BY <1>3
<1>7. Apart(t)
    <2>1. \A i \in 1..n : m[i].start < m[i].end
        BY DEF Apart
    <2>2. m[n].start < e
        <3>1. m[n].start < m[n].end
            BY <1>1, <2>1
        <3>. QED
            BY <1>4, <1>5, <3>1
    <2>3. \A i \in 1..Len(t) : t[i].start < t[i].end
        BY <1>3, <2>1, <2>2
    <2>4. ASSUME NEW i \in 1..Len(t), NEW j \in 1..Len(t), i < j PROVE t[i].end < t[j].start
        <3>1. i \in 1..n /\ j \in 1..n /\ i # n
            BY <1>1, <1>3, <2>4
        <3>2. m[i].end < m[j].start
            BY <2>4, <3>1 DEF Apart
        <3>. QED
            BY <1>3, <1>6, <3>1, <3>2
    <2>. QED
        BY <2>3, <2>4 DEF Apart
<1>8. ASSUME NEW c \in Nat PROVE InMerged(t, c) <=> InMerged(m, c) \/ Covers(x, c)
    <2>1. Covers(t[n], c) <=> Covers(m[n], c) \/ Covers(x, c)
        <3>1. m[n].start <= x.start /\ x.start <= m[n].end /\ m[n].start \in Nat /\ m[n].end \in Nat
            BY <1>2, <1>4
        <3>2. t[n].start = m[n].start /\ t[n].end = e
            BY <1>3
        <3>. DEFINE a == m[n].start
                    b == m[n].end
        <3>3. /\ a \in Nat /\ b \in Nat /\ e \in Nat /\ a <= x.start /\ x.start <= b /\ b <= e /\ x.end <= e
              /\ e = x.end \/ e = b
            BY <1>5, <3>1
        <3>4. /\ Covers(t[n], c) <=> a <= c /\ c < e
              /\ Covers(m[n], c) <=> a <= c /\ c < b
            BY <3>2 DEF Covers
        <3>. HIDE DEF a, b
        <3>. QED
            BY <1>2, <3>3, <3>4, SMTT(60) DEF Covers
    <2>. QED
        BY <1>1, <1>3, <2>1 DEF InMerged
<1>. QED
    BY <1>3, <1>6, <1>7, <1>8 DEF t

\* The chunks are the characters outside the merged spans.
LEMMA ChunksAreTheRest ==
    ASSUME DlpAssumption, merged \in Seq(Stretches), Apart(merged), len \in Nat,
           merged # <<>> => MaxScan <= len
    PROVE  Redacted = {c \in 1..len : ~InMerged(merged, c)}
<1>. DEFINE n == Len(merged)
<1>1. /\ n \in Nat
      /\ \A i \in 1..n : merged[i].start \in Nat /\ merged[i].end \in Nat /\ merged[i].start >= 1
    <2>1. ASSUME NEW i \in 1..n PROVE merged[i].start \in 1..MaxScan
        <3>1. merged[i] \in Stretches
            OBVIOUS
        <3>. QED
            BY <3>1 DEF Stretches
    <2>. QED
        BY <2>1, StretchTypes
<1>2. \A i \in 1..n : merged[i].start < merged[i].end
    BY DEF Apart
<1>3. \A i, j \in 1..n : i < j => merged[i].end < merged[j].start
    BY DEF Apart
<1>4. \A i \in 1..(n + 1) : ChunkFrom(i) \in Nat /\ ChunkUpTo(i) \in Nat
    <2>1. \A i \in 1..(n + 1) : (i # 1 => i - 1 \in 1..n) /\ (i # n + 1 => i \in 1..n)
        BY <1>1
    <2>. QED
        BY <1>1, <2>1 DEF ChunkFrom, ChunkUpTo
<1>5. ASSUME NEW c \in Redacted PROVE c \in 1..len /\ ~InMerged(merged, c)
    <2>1. PICK i \in 1..(n + 1) : c \in ChunkFrom(i)..(ChunkUpTo(i) - 1)
        BY <1>5 DEF Redacted
    <2>2. c \in Int /\ ChunkFrom(i) <= c /\ c < ChunkUpTo(i)
        BY <1>4, <2>1
    <2>3. i # 1 => i - 1 \in 1..n /\ ChunkFrom(i) = merged[i - 1].end
        BY <1>1 DEF ChunkFrom
    <2>4. i # n + 1 => i \in 1..n /\ ChunkUpTo(i) = merged[i].start
        BY <1>1 DEF ChunkUpTo
    <2>5. 1 <= c
        <3>1. CASE i = 1
            BY <2>2, <3>1 DEF ChunkFrom
        <3>2. CASE i # 1
            <4>1. merged[i - 1].start < merged[i - 1].end /\ merged[i - 1].start \in Nat
                  /\ merged[i - 1].end \in Nat
                BY <1>1, <1>2, <2>3, <3>2
            <4>2. merged[i - 1].start >= 1 /\ merged[i - 1].end <= c
                BY <1>1, <2>2, <2>3, <3>2
            <4>. QED
                BY <2>2, <4>1, <4>2, SMTT(60)
        <3>. QED
            BY <3>1, <3>2
    <2>6. ASSUME NEW j \in 1..n PROVE ~Covers(merged[j], c)
        <3>1. merged[j].start \in Nat /\ merged[j].end \in Nat
            BY <1>1
        <3>2. CASE j < i
            <4>1. i # 1 /\ i - 1 \in 1..n /\ (j < i - 1 \/ j = i - 1)
                BY <1>1, <2>3, <3>2
            <4>2. merged[j].end <= merged[i - 1].end
                <5>1. merged[i - 1].start \in Nat /\ merged[i - 1].end \in Nat
                      /\ merged[i - 1].start < merged[i - 1].end
                    BY <1>1, <1>2, <4>1
                <5>2. CASE j < i - 1
                    <6>1. merged[j].end < merged[i - 1].start
                        BY <1>3, <4>1, <5>2
                    <6>2. \A p, q, r \in Nat : p < q /\ q < r => p <= r
                        OBVIOUS
                    <6>. QED
                        BY <3>1, <5>1, <6>1, <6>2
                <5>3. CASE j = i - 1
                    BY <5>1, <5>3
                <5>. QED
                    BY <4>1, <5>2, <5>3
            <4>3. merged[j].end <= c
                <5>1. merged[i - 1].end \in Nat /\ merged[i - 1].end <= c
                    BY <1>1, <2>2, <2>3, <4>1
                <5>. QED
                    BY <2>2, <3>1, <4>2, <5>1, SMTT(60)
            <4>. QED
                BY <2>2, <3>1, <4>3 DEF Covers
        <3>3. CASE ~(j < i)
            <4>1. i # n + 1 /\ i \in 1..n /\ (i < j \/ i = j)
                BY <1>1, <2>4, <3>3
            <4>2. merged[i].start <= merged[j].start
                <5>1. merged[i].start \in Nat /\ merged[i].end \in Nat /\ merged[i].start < merged[i].end
                    BY <1>1, <1>2, <4>1
                <5>2. CASE i < j
                    <6>1. merged[i].end < merged[j].start
                        BY <1>3, <4>1, <5>2
                    <6>2. \A p, q, r \in Nat : p < q /\ q < r => p <= r
                        OBVIOUS
                    <6>. QED
                        BY <3>1, <5>1, <6>1, <6>2
                <5>3. CASE i = j
                    <6>1. merged[j].start = merged[i].start
                        BY <5>3
                    <6>2. \A p \in Nat : p <= p
                        OBVIOUS
                    <6>. QED
                        BY <5>1, <6>1, <6>2
                <5>. QED
                    BY <4>1, <5>2, <5>3
            <4>3. c < merged[j].start
                <5>1. merged[i].start \in Nat /\ c < merged[i].start
                    BY <1>1, <2>2, <2>4, <4>1
                <5>. QED
                    BY <2>2, <3>1, <4>2, <5>1, SMTT(60)
            <4>. QED
                BY <2>2, <3>1, <4>3, SMTT(60) DEF Covers
        <3>. QED
            BY <3>2, <3>3
    <2>7. c <= len
        <3>1. CASE i = n + 1
            <4>1. c < len + 1
                BY <2>2, <3>1 DEF ChunkUpTo
            <4>. QED
                BY <2>2, <4>1
        <3>2. CASE i # n + 1
            <4>1. merged[i] \in Stretches /\ merged # <<>> /\ MaxScan \in Nat
                BY <1>1, <2>4, <3>2, StretchTypes
            <4>2. merged[i].start \in 1..MaxScan
                BY <4>1 DEF Stretches
            <4>. QED
                BY <2>2, <2>4, <3>2, <4>1, <4>2
        <3>. QED
            BY <3>1, <3>2
    <2>. QED
        BY <2>2, <2>5, <2>6, <2>7 DEF InMerged
<1>6. ASSUME NEW c \in 1..len, ~InMerged(merged, c) PROVE c \in Redacted
    <2>. DEFINE I == {i \in 1..(n + 1) : ChunkUpTo(i) > c}
    <2>1. n + 1 \in I
        <3>1. ChunkUpTo(n + 1) = len + 1
            BY DEF ChunkUpTo
        <3>. QED
            BY <1>1, <3>1
    <2>2. I \in SUBSET Nat
        BY <1>1
    <2>3. PICK i \in I : \A j \in I : i <= j
        BY <2>1, <2>2, LeastOf
    <2>4. i \in 1..(n + 1) /\ c < ChunkUpTo(i) /\ c \in Nat
        BY <1>4, <2>3
    <2>5. ChunkFrom(i) <= c
        <3>1. CASE i = 1
            BY <2>4, <3>1 DEF ChunkFrom
        <3>2. CASE i # 1
            <4>1. i - 1 \in 1..n /\ i - 1 # n + 1 /\ ~(i <= i - 1)
                BY <1>1, <2>4, <3>2
            <4>2. i - 1 \notin I
                BY <2>3, <4>1
            <4>3. ~(ChunkUpTo(i - 1) > c)
                BY <4>1, <4>2
            <4>4. ChunkUpTo(i - 1) = merged[i - 1].start
                BY <4>1 DEF ChunkUpTo
            <4>5. ~Covers(merged[i - 1], c)
                BY <1>6, <4>1 DEF InMerged
            <4>6. merged[i - 1].end <= c
                <5>1. merged[i - 1].start \in Nat /\ merged[i - 1].end \in Nat
                    BY <1>1, <4>1
                <5>. QED
                    BY <2>4, <4>3, <4>4, <4>5, <5>1, SMTT(60) DEF Covers
            <4>. QED
                BY <3>2, <4>6 DEF ChunkFrom
        <3>. QED
            BY <3>1, <3>2
    <2>6. c \in ChunkFrom(i)..(ChunkUpTo(i) - 1)
        BY <1>4, <2>4, <2>5
    <2>. QED
        BY <2>4, <2>6 DEF Redacted
<1>. QED
    BY <1>5, <1>6

-----------------------------------------------------------------------------
(* Dlp: the scan.                                                          *)

\* One finding that stands for what was not looked into is kept to the end.
LEMMA DlpStart ==
    ASSUME DlpAssumption, DlpInit
    PROVE  DlpIInv
<1>1. MaxScan \in Nat \ {0} /\ MaxDepth \in Nat /\ Whole \in Views
    BY DEF DlpAssumption
<1>2. /\ len \in {0, MaxScan, MaxScan + 1} /\ len \in Nat
      /\ toInspect \in Seq(Views \X (0..MaxDepth)) /\ cut \subseteq Views
      /\ pc \in {"scan", "decide"}
    <2>1. <<Whole, 0>> \in Views \X (0..MaxDepth)
        BY <1>1
    <2>2. <<>> \in Seq(Views \X (0..MaxDepth)) /\ <<<<Whole, 0>>>> \in Seq(Views \X (0..MaxDepth))
        BY <2>1
    <2>3. toInspect = <<>> \/ toInspect = <<<<Whole, 0>>>>
        BY DEF DlpInit
    <2>4. len \in {0, MaxScan, MaxScan + 1} /\ cut \subseteq Views /\ pc \in {"scan", "decide"}
        BY <1>1 DEF DlpInit
    <2>5. len \in Nat
        BY <1>1, <2>4
    <2>. QED
        BY <2>2, <2>3, <2>4, <2>5
<1>3. spans = {} \/ (len = MaxScan + 1 /\ spans = LimitSpan(1, len + 1))
    BY <1>1 DEF DlpInit
<1>4. spans \subseteq Spans /\ \A f \in spans : f.start < f.end /\ f.type = "limit" /\ f.class = HighlyConfidential
    <2>1. CASE spans = {}
        BY <2>1
    <2>2. CASE len = MaxScan + 1 /\ spans = LimitSpan(1, len + 1)
        <3>. DEFINE x == [start |-> 1, end |-> MaxScan + 2, type |-> "limit", class |-> HighlyConfidential]
        <3>1. spans = {x} /\ x.start = 1 /\ x.end = MaxScan + 2 /\ x.type = "limit"
              /\ x.class = HighlyConfidential
            BY <1>1, <2>2 DEF LimitSpan
        <3>2. x \in Spans
            BY <1>1 DEF Spans, HighlyConfidential, Public, E2eePrivate
        <3>. HIDE DEF x
        <3>. QED
            BY <1>1, <3>1, <3>2
    <2>. QED
        BY <1>3, <2>1, <2>2
<1>5. DlpTypeOK
    <2>1. declared \in Public..E2eePrivate
        BY DEF DlpInit, Public, Internal, E2eePrivate
    <2>2. decision \in [action : {"none", "allow", "confirm", "redact", "block", "local_only"},
                        class : Public..E2eePrivate, output : SUBSET (1..len)]
        BY DEF DlpInit, Undecided, Public, E2eePrivate
    <2>3. finds \in [Views -> SUBSET Candidates] /\ decodes \in [Views -> Seq(Views)]
        BY DEF DlpInit
    <2>4. total \in Nat /\ seen \subseteq Views /\ confirmed \in BOOLEAN /\ unmerged \subseteq spans
          /\ merged \in Seq(Stretches) /\ decoding \in Seq(Views \X (1..MaxDepth + 1))
        BY <1>1, <1>2 DEF DlpInit
    <2>. QED
        BY <1>2, <1>4, <2>1, <2>2, <2>3, <2>4 DEF DlpTypeOK
<1>6. NothingIsForgotten
    <2>1. \/ spans = LimitSpan(1, len + 1)
          \/ len = 0 /\ cut = {}
          \/ len \in 1..MaxScan /\ cut = {}
        BY DEF DlpInit
    <2>2. LimitSpan(1, len + 1) # {}
        BY DEF LimitSpan
    <2>3. cut # {} \/ len > MaxScan => spans # {}
        BY <1>1, <2>1, <2>2
    <2>. QED
        BY <1>4, <2>3 DEF DlpInit, NothingIsForgotten
<1>7. FindingsAreKept
    BY DEF DlpInit, FindingsAreKept, Disambiguated
<1>8. SpansAreSound
    BY <1>1, <1>4 DEF DlpInit, SpansAreSound
<1>9. DecisionIsStrict /\ MergedSoFar
    BY <1>2 DEF DlpInit, DecisionIsStrict, MergedSoFar, Apart
<1>. QED
    BY <1>5, <1>6, <1>7, <1>8, <1>9 DEF DlpIInv

LEMMA ScanViewKeeps ==
    ASSUME DlpAssumption, DlpIInv, ScanView
    PROVE  DlpIInv'
<1>. DEFINE v == toInspect[1][1]
            depth == toInspect[1][2]
<1>1. DlpTypeOK /\ NothingIsForgotten /\ FindingsAreKept /\ SpansAreSound /\ DecisionIsStrict /\ MergedSoFar
    BY DEF DlpIInv
<1>2. /\ pc = "scan" /\ decoding = <<>> /\ toInspect # <<>>
      /\ toInspect' = Tail(toInspect)
      /\ UNCHANGED <<len, declared, confirmed, pc, seen, total, cut, unmerged, merged, decision>>
    BY DEF ScanView
<1>3. PICK found \in SUBSET Detected(v), ds \in DecodedViews(v) :
            /\ finds' = [finds EXCEPT ![v] = found] /\ decodes' = [decodes EXCEPT ![v] = ds]
            /\ spans' = spans \cup Disambiguated(found)
            /\ decoding' = [i \in 1..Len(ds) |-> <<ds[i], depth + 1>>]
    BY DEF ScanView
<1>4. v \in Views /\ depth \in 0..MaxDepth
    <2>1. toInspect[1] \in Views \X (0..MaxDepth)
        BY <1>1, <1>2 DEF DlpTypeOK
    <2>. QED
        BY <2>1
<1>. HIDE DEF v, depth
<1>5. found \subseteq Candidates /\ Disambiguated(found) \subseteq found /\ ds \in Seq(Views)
    <2>1. found \subseteq Candidates /\ Disambiguated(found) \subseteq found
        BY DEF Detected, Disambiguated
    <2>2. Decoded[v] \in Seq(Views) /\ <<>> \in Seq(Views)
        BY <1>4 DEF DlpAssumption
    <2>. QED
        BY <2>1, <2>2 DEF DecodedViews
<1>6. /\ \A w \in Views : finds'[w] = IF w = v THEN found ELSE finds[w]
      /\ \A w \in Views : decodes'[w] = IF w = v THEN ds ELSE decodes[w]
    BY <1>1, <1>3 DEF DlpTypeOK
<1>7. /\ decoding' \in Seq(Views \X (1..MaxDepth + 1)) /\ Len(decoding') = Len(ds)
      /\ \A i \in 1..Len(ds) : decoding'[i][1] = ds[i]
    <2>1. Len(ds) \in Nat /\ (\A i \in 1..Len(ds) : ds[i] \in Views) /\ depth + 1 \in 1..MaxDepth + 1
        BY <1>4, <1>5 DEF DlpAssumption
    <2>2. decoding' \in [1..Len(ds) -> Views \X (1..MaxDepth + 1)]
        BY <1>3, <2>1
    <2>3. decoding' \in Seq(Views \X (1..MaxDepth + 1))
        BY <2>1, <2>2, FunctionIsSeq
    <2>4. Len(decoding') = Len(ds)
        BY <2>1, <2>2, FunctionIsSeq
    <2>. QED
        BY <1>3, <2>3, <2>4
<1>8. DlpTypeOK'
    <2>1. finds' \in [Views -> SUBSET Candidates] /\ decodes' \in [Views -> Seq(Views)]
        BY <1>1, <1>3, <1>4, <1>5 DEF DlpTypeOK
    <2>2. toInspect' \in Seq(Views \X (0..MaxDepth))
        BY <1>1, <1>2 DEF DlpTypeOK
    <2>3. spans' \subseteq Spans /\ unmerged' \subseteq spans'
        BY <1>1, <1>2, <1>3, <1>5 DEF DlpTypeOK, DlpAssumption
    <2>. QED
        BY <1>1, <1>2, <1>7, <2>1, <2>2, <2>3 DEF DlpTypeOK
<1>9. NothingIsForgotten'
    <2>1. ASSUME NEW w \in Views, NEW i \in 1..Len(decodes'[w])
          PROVE  \/ decodes'[w][i] \in seen \cup cut
                 \/ \E j \in 1..Len(decoding') : decoding'[j][1] = decodes'[w][i]
        <3>1. CASE w = v
            BY <1>6, <1>7, <3>1
        <3>2. CASE w # v
            <4>1. decodes'[w] = decodes[w]
                BY <1>6, <3>2
            <4>2. ~\E j \in 1..Len(decoding) : decoding[j][1] = decodes[w][i]
                BY <1>2
            <4>. QED
                BY <1>1, <4>1, <4>2 DEF NothingIsForgotten
        <3>. QED
            BY <3>1, <3>2
    <2>2. cut # {} \/ len > MaxScan => \E f \in spans' : f.type = "limit" /\ f.class = HighlyConfidential
        BY <1>1, <1>3 DEF NothingIsForgotten
    <2>. QED
        BY <1>2, <2>1, <2>2 DEF NothingIsForgotten
<1>10. FindingsAreKept'
    <2>1. ASSUME NEW w \in Views, NEW f \in Disambiguated(finds'[w])
          PROVE  f \in spans' \/ (f.type = "phone" /\ \E g \in spans' : g.type = "tax")
        <3>1. CASE w = v
            BY <1>3, <1>6, <2>1, <3>1
        <3>2. CASE w # v
            <4>1. f \in Disambiguated(finds[w])
                BY <1>6, <2>1, <3>2
            <4>. QED
                BY <1>1, <1>3, <4>1 DEF FindingsAreKept
        <3>. QED
            BY <3>1, <3>2
    <2>2. \A w \in Views : \A f \in Disambiguated(finds'[w]) :
              f \in spans' \/ (f.type = "phone" /\ \E g \in spans' : g.type = "tax")
        BY <2>1
    <2>. QED
        BY <2>2 DEF FindingsAreKept, Disambiguated
<1>11. SpansAreSound'
    <2>1. \A f \in spans' : f.start < f.end /\ (f.type = "tax" => f.class = HighlyConfidential)
        BY <1>1, <1>3, <1>5 DEF SpansAreSound, DlpAssumption
    <2>2. len # 0
        BY <1>1, <1>2 DEF SpansAreSound
    <2>. QED
        BY <1>2, <2>1, <2>2 DEF SpansAreSound
<1>12. DecisionIsStrict'
    BY <1>2 DEF DecisionIsStrict
<1>13. MergedSoFar'
    <2>1. merged' = <<>> /\ unmerged' = {}
        BY <1>1, <1>2 DEF MergedSoFar
    <2>. QED
        BY <1>2, <2>1 DEF MergedSoFar, Apart
<1>. QED
    BY <1>8, <1>9, <1>10, <1>11, <1>12, <1>13 DEF DlpIInv

LEMMA QueueViewKeeps ==
    ASSUME DlpAssumption, DlpIInv, QueueView
    PROVE  DlpIInv'
<1>. DEFINE v == decoding[1][1]
            depth == decoding[1][2]
            limit == [start |-> Origin[v].start, end |-> Origin[v].end, type |-> "limit",
                      class |-> HighlyConfidential]
<1>1. DlpTypeOK /\ NothingIsForgotten /\ FindingsAreKept /\ SpansAreSound /\ DecisionIsStrict /\ MergedSoFar
    BY DEF DlpIInv
<1>2. /\ pc = "scan" /\ decoding # <<>> /\ decoding' = Tail(decoding)
      /\ UNCHANGED <<len, finds, decodes, declared, confirmed, pc, unmerged, merged, decision>>
    BY DEF QueueView
<1>3. \/ v \in seen /\ UNCHANGED <<toInspect, seen, total, spans, cut>>
      \/ spans' = spans \cup {limit} /\ cut' = cut \cup {v} /\ UNCHANGED <<toInspect, seen, total>>
      \/ /\ depth <= MaxDepth /\ seen' = seen \cup {v} /\ total' = total + ViewSize[v]
         /\ toInspect' = Append(toInspect, <<v, depth>>)
         /\ UNCHANGED <<spans, cut>>
    BY DEF QueueView, WithinBudget, LimitSpan
<1>4. v \in Views /\ depth \in 1..MaxDepth + 1
    <2>1. decoding[1] \in Views \X (1..MaxDepth + 1)
        BY <1>1, <1>2 DEF DlpTypeOK
    <2>. QED
        BY <2>1
<1>5. \A i \in 1..Len(decoding) : decoding[i][1] = v \/ \E j \in 1..Len(decoding') : decoding'[j] = decoding[i]
    <2>1. SUFFICES ASSUME NEW i \in 1..Len(decoding), i # 1
                   PROVE  \E j \in 1..Len(decoding') : decoding'[j] = decoding[i]
        OBVIOUS
    <2>2. Len(decoding) \in Nat /\ decoding \in Seq(Views \X (1..MaxDepth + 1))
        BY <1>1 DEF DlpTypeOK
    <2>3. i - 1 \in 1..Len(decoding')
        BY <1>2, <2>1, <2>2
    <2>4. decoding'[i - 1] = decoding[i]
        BY <1>2, <2>1, <2>2, <2>3
    <2>. QED
        BY <2>3, <2>4
<1>6. /\ limit \in Spans /\ limit.start < limit.end /\ limit.type = "limit"
      /\ limit.class = HighlyConfidential
    <2>1. Origin[v].start \in 1..MaxScan /\ Origin[v].end \in 2..MaxScan + 1 /\ Origin[v].start < Origin[v].end
        BY <1>4 DEF DlpAssumption
    <2>2. MaxScan \in Nat
        BY DEF DlpAssumption
    <2>3. Origin[v].end \in 2..MaxScan + 2
        BY <2>1, <2>2, SMTT(60)
    <2>. QED
        BY <2>1, <2>3 DEF Spans, HighlyConfidential, Public, E2eePrivate
<1>. HIDE DEF v, depth, limit
<1>7. spans \subseteq spans' /\ seen \subseteq seen' /\ cut \subseteq cut' /\ v \in seen' \cup cut'
      /\ \A f \in spans' : f \in spans \/ f = limit
    BY <1>3
<1>8. DlpTypeOK'
    <2>1. decoding' \in Seq(Views \X (1..MaxDepth + 1))
        BY <1>1, <1>2 DEF DlpTypeOK
    <2>2. spans' \subseteq Spans /\ unmerged' \subseteq spans'
        BY <1>1, <1>2, <1>6, <1>7 DEF DlpTypeOK
    <2>3. cut' \subseteq Views /\ seen' \subseteq Views
        BY <1>1, <1>3, <1>4 DEF DlpTypeOK
    <2>4. total' \in Nat
        <3>1. ViewSize[v] \in Nat /\ total \in Nat
            BY <1>1, <1>4 DEF DlpTypeOK, DlpAssumption
        <3>. QED
            BY <1>3, <3>1, SMTT(60)
    <2>5. toInspect' \in Seq(Views \X (0..MaxDepth))
        <3>1. toInspect \in Seq(Views \X (0..MaxDepth))
            BY <1>1 DEF DlpTypeOK
        <3>2. CASE toInspect' = toInspect
            BY <3>1, <3>2
        <3>3. CASE depth <= MaxDepth /\ toInspect' = Append(toInspect, <<v, depth>>)
            <4>1. depth \in 0..MaxDepth
                BY <1>4, <3>3 DEF DlpAssumption
            <4>. QED
                BY <1>4, <3>1, <3>3, <4>1, SMTT(60)
        <3>. QED
            BY <1>3, <3>2, <3>3
    <2>. QED
        BY <1>1, <1>2, <2>1, <2>2, <2>3, <2>4, <2>5 DEF DlpTypeOK
<1>9. NothingIsForgotten'
    <2>1. ASSUME NEW w \in Views, NEW i \in 1..Len(decodes[w])
          PROVE  \/ decodes[w][i] \in seen' \cup cut'
                 \/ \E j \in 1..Len(decoding') : decoding'[j][1] = decodes[w][i]
        <3>1. CASE decodes[w][i] \in seen \cup cut
            BY <1>7, <3>1
        <3>2. CASE \E j \in 1..Len(decoding) : decoding[j][1] = decodes[w][i]
            BY <1>5, <1>7, <3>2
        <3>. QED
            BY <1>1, <3>1, <3>2 DEF NothingIsForgotten
    <2>2. cut' # {} \/ len > MaxScan => \E f \in spans' : f.type = "limit" /\ f.class = HighlyConfidential
        <3>1. CASE cut' = cut
            BY <1>1, <1>7, <3>1 DEF NothingIsForgotten
        <3>2. CASE cut' # cut
            <4>1. limit \in spans'
                BY <1>3, <3>2
            <4>. QED
                BY <1>6, <4>1
        <3>. QED
            BY <3>1, <3>2
    <2>. QED
        BY <1>2, <2>1, <2>2 DEF NothingIsForgotten
<1>10. FindingsAreKept'
    BY <1>1, <1>2, <1>7 DEF FindingsAreKept, Disambiguated
<1>11. SpansAreSound'
    <2>1. \A f \in spans' : f.start < f.end /\ (f.type = "tax" => f.class = HighlyConfidential)
        BY <1>1, <1>6, <1>7 DEF SpansAreSound
    <2>2. len # 0
        BY <1>1, <1>2 DEF SpansAreSound
    <2>. QED
        BY <1>2, <2>1, <2>2 DEF SpansAreSound
<1>12. DecisionIsStrict'
    BY <1>2 DEF DecisionIsStrict
<1>13. MergedSoFar'
    <2>1. merged' = <<>> /\ unmerged' = {}
        BY <1>1, <1>2 DEF MergedSoFar
    <2>. QED
        BY <1>2, <2>1 DEF MergedSoFar, Apart
<1>. QED
    BY <1>8, <1>9, <1>10, <1>11, <1>12, <1>13 DEF DlpIInv

LEMMA ScanEndsKeeps ==
    ASSUME DlpAssumption, DlpIInv, ScanEnds
    PROVE  DlpIInv'
<1>1. DlpTypeOK /\ NothingIsForgotten /\ FindingsAreKept /\ SpansAreSound /\ DecisionIsStrict /\ MergedSoFar
    BY DEF DlpIInv
<1>2. /\ pc = "scan" /\ pc' = "decide" /\ decoding = <<>> /\ spans' = Disambiguated(spans)
      /\ UNCHANGED <<len, finds, decodes, declared, confirmed, toInspect, decoding, seen, total, cut,
                     unmerged, merged, decision>>
    BY DEF ScanEnds
<1>3. /\ spans' \subseteq spans
      /\ \A f \in spans : f.type # "phone" => f \in spans'
      /\ \A f \in spans : f \in spans' \/ (f.type = "phone" /\ \E g \in spans : g.type = "tax")
    BY <1>2 DEF Disambiguated
<1>4. \A g \in spans : g.type = "tax" \/ g.type = "limit" => g \in spans'
    BY <1>3
<1>5. len # 0
    BY <1>1, <1>2 DEF SpansAreSound
<1>6. merged' = <<>> /\ unmerged' = {}
    BY <1>1, <1>2 DEF MergedSoFar
<1>7. DlpTypeOK'
    BY <1>1, <1>2, <1>3, <1>6 DEF DlpTypeOK
<1>8. NothingIsForgotten'
    <2>1. \A w \in Views : \A i \in 1..Len(decodes[w]) : decodes[w][i] \in seen \cup cut
        BY <1>1, <1>2, SMTT(60) DEF NothingIsForgotten
    <2>2. cut # {} \/ len > MaxScan => \E f \in spans' : f.type = "limit" /\ f.class = HighlyConfidential
        BY <1>1, <1>4 DEF NothingIsForgotten
    <2>. QED
        BY <1>2, <2>1, <2>2 DEF NothingIsForgotten
<1>9. FindingsAreKept'
    <2>1. ASSUME NEW w \in Views, NEW f \in Disambiguated(finds[w])
          PROVE  f \in spans' \/ (f.type = "phone" /\ \E g \in spans' : g.type = "tax")
        BY <1>1, <1>3, <1>4 DEF FindingsAreKept
    <2>. QED
        BY <1>2, <2>1 DEF FindingsAreKept, Disambiguated
<1>10. SpansAreSound'
    BY <1>1, <1>2, <1>3, <1>5 DEF SpansAreSound
<1>11. DecisionIsStrict'
    BY <1>2 DEF DecisionIsStrict
<1>12. MergedSoFar'
    BY <1>2, <1>6 DEF MergedSoFar, Apart
<1>. QED
    BY <1>7, <1>8, <1>9, <1>10, <1>11, <1>12 DEF DlpIInv

-----------------------------------------------------------------------------
(* Dlp: the decision.                                                      *)

\* The strictest of some classes is one of them, and none is stricter.
LEMMA StricterOfIsOne ==
    ASSUME NEW S \in SUBSET (Public..E2eePrivate), S # {}
    PROVE  StricterOf(S) \in S /\ \A d \in S : d <= StricterOf(S)
<1>1. \A d \in S : d \in {0, 1, 2, 3, 4}
    BY DEF Public, E2eePrivate
<1>2. \E c \in S : \A d \in S : d <= c
    <2>1. CASE 4 \in S
        BY <1>1, <2>1
    <2>2. CASE 4 \notin S /\ 3 \in S
        BY <1>1, <2>2
    <2>3. CASE 4 \notin S /\ 3 \notin S /\ 2 \in S
        BY <1>1, <2>3
    <2>4. CASE 4 \notin S /\ 3 \notin S /\ 2 \notin S /\ 1 \in S
        BY <1>1, <2>4
    <2>5. CASE 4 \notin S /\ 3 \notin S /\ 2 \notin S /\ 1 \notin S
        <3>1. \A d \in S : d = 0
            BY <1>1, <2>5
        <3>2. PICK c \in S : c = 0
            BY <3>1
        <3>. QED
            BY <3>1, <3>2
    <2>. QED
        BY <2>1, <2>2, <2>3, <2>4, <2>5
<1>. QED
    BY <1>2 DEF StricterOf

LEMMA ActionsForClasses ==
    ASSUME NEW c \in Public..E2eePrivate
    PROVE  /\ ActionFor(c) \in {"allow", "confirm", "redact", "block", "local_only"}
           /\ ActionFor(c) = "allow" => c = Public
           /\ ActionFor(c) = "confirm" => c = Internal
           /\ ActionFor(c) = "redact" => c = Confidential
<1>1. c \in {0, 1, 2, 3, 4}
    BY DEF Public, E2eePrivate
<1>2. /\ ActionFor(0) = "allow" /\ ActionFor(1) = "confirm" /\ ActionFor(2) = "redact"
      /\ ActionFor(3) = "block" /\ ActionFor(4) = "local_only"
    BY DEF ActionFor
<1>. QED
    BY <1>1, <1>2 DEF Public, Internal, Confidential

LEMMA DecideKeeps ==
    ASSUME DlpAssumption, DlpIInv, Decide
    PROVE  DlpIInv'
<1>. DEFINE class  == EffectiveClass
            action == IF ActionFor(class) = "confirm" /\ confirmed THEN "allow" ELSE ActionFor(class)
<1>1. DlpTypeOK /\ NothingIsForgotten /\ FindingsAreKept /\ SpansAreSound /\ DecisionIsStrict /\ MergedSoFar
    BY DEF DlpIInv
<1>2. /\ pc = "decide" /\ decision' = [action |-> action, class |-> class, output |-> {}]
      /\ unmerged' = CASE action = "allow"  -> {f \in spans : f.type \in Removable}
                       [] action = "redact" -> spans
                       [] OTHER             -> {}
      /\ pc' = IF action \in {"allow", "redact"} THEN "redact" ELSE "done"
      /\ UNCHANGED <<len, finds, decodes, declared, confirmed, toInspect, decoding, seen, total, spans,
                     cut, merged>>
    BY DEF Decide
<1>3. /\ class \in Public..E2eePrivate /\ class >= declared
      /\ \A f \in spans : f.type \notin Removable => f.class <= class
    <2>. DEFINE S == {declared} \cup {f.class : f \in {g \in spans : g.type \notin Removable}}
    <2>1. S \in SUBSET (Public..E2eePrivate) /\ S # {}
        BY <1>1, SMTT(60) DEF DlpTypeOK, Spans
    <2>2. class = StricterOf(S)
        BY DEF EffectiveClass
    <2>3. class \in S /\ \A d \in S : d <= class
        BY <2>1, <2>2, StricterOfIsOne
    <2>4. declared \in S /\ \A f \in spans : f.type \notin Removable => f.class \in S
        OBVIOUS
    <2>. HIDE DEF S, class
    <2>5. declared <= class /\ class \in Public..E2eePrivate /\ declared \in Public..E2eePrivate
        BY <1>1, <2>1, <2>3, <2>4 DEF DlpTypeOK
    <2>6. class >= declared
        BY <2>5 DEF Public, E2eePrivate
    <2>. QED
        BY <2>3, <2>4, <2>5, <2>6
<1>. HIDE DEF class
<1>4. /\ action \in {"allow", "confirm", "redact", "block", "local_only"}
      /\ action = "allow" => class <= Internal
      /\ action = "redact" => class = Confidential
    BY <1>3, ActionsForClasses DEF Public, Internal
<1>. HIDE DEF action
<1>5. /\ decision'.action = action /\ decision'.class = class /\ decision'.output = {}
      /\ decision' \in [action : {"none", "allow", "confirm", "redact", "block", "local_only"},
                        class : Public..E2eePrivate, output : SUBSET (1..len)]
    BY <1>2, <1>3, <1>4
<1>6. merged = <<>> /\ merged' = <<>>
    BY <1>1, <1>2 DEF MergedSoFar
<1>7. unmerged' \subseteq spans /\ (action \in {"allow", "redact"} => unmerged' = ToRemove')
    BY <1>2, <1>5 DEF ToRemove
<1>8. DlpTypeOK'
    BY <1>1, <1>2, <1>5, <1>7 DEF DlpTypeOK
<1>9. NothingIsForgotten' /\ FindingsAreKept' /\ SpansAreSound'
    BY <1>1, <1>2 DEF NothingIsForgotten, FindingsAreKept, SpansAreSound, Disambiguated
<1>10. DecisionIsStrict'
    BY <1>2, <1>3, <1>4, <1>5 DEF DecisionIsStrict
<1>11. MergedSoFar'
    <2>1. Apart(merged') /\ \A c : ~InMerged(merged', c)
        BY <1>6 DEF Apart, InMerged
    <2>2. pc' = "redact" => unmerged' = ToRemove'
        BY <1>2, <1>7
    <2>3. ~(pc' = "done" /\ decision'.action \in {"allow", "redact"}) /\ pc' \notin {"scan", "decide"}
        BY <1>2, <1>5
    <2>. QED
        BY <1>6, <2>1, <2>2, <2>3 DEF MergedSoFar
<1>. QED
    BY <1>8, <1>9, <1>10, <1>11 DEF DlpIInv

LEMMA MergeKeeps ==
    ASSUME DlpAssumption, DlpIInv, NEW f \in unmerged, Merge(f)
    PROVE  DlpIInv'
<1>. DEFINE n == Len(merged)
            x == [start |-> f.start, end |-> f.end]
<1>1. DlpTypeOK /\ NothingIsForgotten /\ FindingsAreKept /\ SpansAreSound /\ DecisionIsStrict /\ MergedSoFar
    BY DEF DlpIInv
<1>2. /\ pc = "redact" /\ \A g \in unmerged : Before(f, g)
      /\ unmerged' = unmerged \ {f}
      /\ UNCHANGED <<len, finds, decodes, declared, confirmed, pc, toInspect, decoding, seen, total,
                     spans, cut, decision>>
    BY DEF Merge
<1>3. /\ f \in spans /\ f \in Spans /\ f.start \in 1..MaxScan /\ f.end \in 2..MaxScan + 2 /\ f.start < f.end
      /\ x \in Stretches /\ x.start = f.start /\ x.end = f.end
    BY <1>1, SMTT(60) DEF DlpTypeOK, SpansAreSound, Spans, Stretches
<1>4. n \in Nat /\ MaxScan \in Nat /\ merged \in Seq(Stretches) /\ Apart(merged)
    BY <1>1 DEF DlpTypeOK, DlpAssumption, MergedSoFar
<1>5. ToRemove' = ToRemove
    BY <1>2 DEF ToRemove
<1>6. \A g \in unmerged : f.start <= g.start
    <2>1. SUFFICES ASSUME NEW g \in unmerged PROVE f.start <= g.start
        OBVIOUS
    <2>2. g.start \in 1..MaxScan /\ Before(f, g)
        BY <1>1, <1>2 DEF DlpTypeOK, Spans
    <2>3. f.start < g.start \/ f.start = g.start
        BY <2>2 DEF Before
    <2>4. f.start \in Nat /\ g.start \in Nat
        BY <1>3, <1>4, <2>2
    <2>. QED
        BY <2>3, <2>4
<1>7. /\ merged' \in Seq(Stretches) /\ Apart(merged')
      /\ \A c \in Nat : InMerged(merged', c) <=> InMerged(merged, c) \/ Covers(x, c)
      /\ \A i \in 1..Len(merged') : (i \in 1..n /\ merged'[i].start = merged[i].start) \/ merged'[i].start = f.start
    <2>1. CASE n = 0 \/ f.start > merged[n].end
        <3>1. merged' = Append(merged, x)
            BY <2>1 DEF Merge
        <3>2. /\ merged' \in Seq(Stretches) /\ Apart(merged')
              /\ \A c \in Nat : InMerged(merged', c) <=> InMerged(merged, c) \/ Covers(x, c)
            BY <1>3, <1>4, <2>1, <3>1, ApartAppend
        <3>3. /\ Len(merged') = n + 1 /\ merged'[n + 1] = x
              /\ \A i \in 1..n : merged'[i] = merged[i]
            BY <1>3, <1>4, <3>1, AppendProperties
        <3>4. \A i \in 1..(n + 1) : i \in 1..n \/ i = n + 1
            BY <1>4
        <3>. QED
            BY <1>3, <3>2, <3>3, <3>4
    <2>2. CASE ~(n = 0 \/ f.start > merged[n].end)
        <3>1. merged' = Extended(merged, f)
            BY <2>2 DEF Merge
        <3>2. Extended(merged, f) = Extended(merged, x)
            BY <1>3 DEF Extended
        <3>3. merged' = Extended(merged, x)
            BY <3>1, <3>2
        <3>4. n # 0 /\ n \in 1..n /\ ~(x.start > merged[n].end) /\ x.start < x.end
            BY <1>3, <1>4, <2>2
        <3>0. merged[n].start <= x.start
            <4>1. merged[n].start <= f.start
                BY <1>1, <3>4 DEF MergedSoFar
            <4>. QED
                BY <1>3, <4>1
        <3>. HIDE DEF x
        <3>5. /\ merged' \in Seq(Stretches) /\ Apart(merged') /\ Len(merged') = n
              /\ \A i \in 1..n : merged'[i].start = merged[i].start
              /\ \A c \in Nat : InMerged(merged', c) <=> InMerged(merged, c) \/ Covers(x, c)
            BY <1>3, <1>4, <3>0, <3>3, <3>4, ApartExtend
        <3>. QED
            BY <3>5
    <2>. QED
        BY <2>1, <2>2
<1>8. DlpTypeOK'
    BY <1>1, <1>2, <1>7 DEF DlpTypeOK
<1>9. NothingIsForgotten' /\ FindingsAreKept' /\ SpansAreSound' /\ DecisionIsStrict'
    <2>1. NothingIsForgotten' /\ SpansAreSound' /\ DecisionIsStrict'
        BY <1>1, <1>2 DEF NothingIsForgotten, SpansAreSound, DecisionIsStrict
    <2>2. FindingsAreKept'
        BY <1>1, <1>2 DEF FindingsAreKept, Disambiguated
    <2>. QED
        BY <2>1, <2>2
<1>10. MergedSoFar'
    <2>1. \A i \in 1..Len(merged'), g \in unmerged' : merged'[i].start <= g.start
        BY <1>1, <1>2, <1>6, <1>7 DEF MergedSoFar
    <2>2. unmerged \subseteq ToRemove /\ unmerged' \subseteq ToRemove
        BY <1>1, <1>2 DEF MergedSoFar
    <2>3. ASSUME NEW c \in 1..MaxScan + 1
          PROVE  InMerged(merged', c) <=> \E g \in ToRemove \ unmerged' : Covers(g, c)
        <3>1. InMerged(merged, c) <=> \E g \in ToRemove \ unmerged : Covers(g, c)
            BY <1>1, <1>2 DEF MergedSoFar
        <3>2. ToRemove \ unmerged' = (ToRemove \ unmerged) \cup {f}
            BY <1>2, <2>2
        <3>3. Covers(x, c) <=> Covers(f, c)
            BY <1>3 DEF Covers
        <3>4. c \in Nat
            BY <1>4
        <3>. QED
            BY <1>7, <3>1, <3>2, <3>3, <3>4
    <2>. QED
        BY <1>2, <1>5, <1>7, <2>1, <2>2, <2>3 DEF MergedSoFar
<1>. QED
    BY <1>8, <1>9, <1>10 DEF DlpIInv

LEMMA JoinKeeps ==
    ASSUME DlpAssumption, DlpIInv, Join
    PROVE  DlpIInv'
<1>1. DlpTypeOK /\ NothingIsForgotten /\ FindingsAreKept /\ SpansAreSound /\ DecisionIsStrict /\ MergedSoFar
    BY DEF DlpIInv
<1>2. /\ pc = "redact" /\ pc' = "done" /\ unmerged = {}
      /\ decision' = [decision EXCEPT !.output = Redacted]
      /\ UNCHANGED <<len, finds, decodes, declared, confirmed, toInspect, decoding, seen, total, spans,
                     cut, unmerged, merged>>
    BY DEF Join
<1>3. MaxScan \in Nat \ {0} /\ len \in {0, MaxScan, MaxScan + 1} /\ len \in Nat
    BY <1>1 DEF DlpTypeOK, DlpAssumption
<1>4. \A c \in 1..len : c \in 1..MaxScan + 1
    BY <1>3
<1>5. \A c \in 1..MaxScan + 1 : InMerged(merged, c) <=> \E f \in ToRemove : Covers(f, c)
    BY <1>1, <1>2 DEF MergedSoFar
<1>6. merged # <<>> => MaxScan <= len
    <2>1. SUFFICES ASSUME merged # <<>> PROVE len # 0
        BY <1>3
    <2>2. merged \in Seq(Stretches) /\ 1 \in 1..Len(merged) /\ merged[1] \in Stretches
        BY <1>1, <2>1 DEF DlpTypeOK
    <2>3. merged[1].start \in 1..MaxScan /\ merged[1].end \in 2..MaxScan + 2
          /\ merged[1].start < merged[1].end
        BY <1>1, <2>2 DEF Stretches, MergedSoFar, Apart
    <2>4. InMerged(merged, merged[1].start) /\ merged[1].start \in 1..MaxScan + 1
        <3>1. Covers(merged[1], merged[1].start)
            BY <1>3, <2>3 DEF Covers
        <3>. QED
            BY <1>3, <2>2, <2>3, <3>1 DEF InMerged
    <2>5. ToRemove # {}
        BY <1>5, <2>4
    <2>. QED
        BY <1>1, <2>5 DEF SpansAreSound, ToRemove
<1>7. Redacted = {c \in 1..len : ~InMerged(merged, c)}
    BY <1>1, <1>3, <1>6, ChunksAreTheRest DEF DlpTypeOK, MergedSoFar
<1>8. Redacted = {c \in 1..len : \A f \in ToRemove : ~Covers(f, c)}
    BY <1>4, <1>5, <1>7
<1>9. /\ decision'.action = decision.action /\ decision'.class = decision.class
      /\ decision'.output = Redacted
      /\ decision' \in [action : {"none", "allow", "confirm", "redact", "block", "local_only"},
                        class : Public..E2eePrivate, output : SUBSET (1..len)]
    <2>1. Redacted \in SUBSET (1..len)
        BY <1>8
    <2>. QED
        BY <1>1, <1>2, <2>1 DEF DlpTypeOK
<1>10. ToRemove' = ToRemove
    BY <1>2, <1>9 DEF ToRemove
<1>11. DlpTypeOK'
    BY <1>1, <1>2, <1>9 DEF DlpTypeOK
<1>12. NothingIsForgotten' /\ FindingsAreKept' /\ SpansAreSound'
    BY <1>1, <1>2 DEF NothingIsForgotten, FindingsAreKept, SpansAreSound, Disambiguated
<1>13. DecisionIsStrict'
    BY <1>1, <1>2, <1>9 DEF DecisionIsStrict
<1>14. MergedSoFar'
    BY <1>1, <1>2, <1>8, <1>9, <1>10 DEF MergedSoFar, Apart
<1>. QED
    BY <1>11, <1>12, <1>13, <1>14 DEF DlpIInv

-----------------------------------------------------------------------------
(* Dlp: what leaves was inspected.                                         *)

\* From the parts of the invariant: a confidential finding would have made the
\* decision one that sends nothing.
LEMMA InspectedFollows ==
    ASSUME DlpAssumption, DlpIInv
    PROVE  EgressIsInspected
<1>1. DlpTypeOK /\ NothingIsForgotten /\ FindingsAreKept /\ SpansAreSound /\ DecisionIsStrict /\ MergedSoFar
    BY DEF DlpIInv
<1>. SUFFICES ASSUME pc = "done"
              PROVE  /\ decision.class >= declared
                     /\ decision.output # {} => Overlooked = {} /\ len <= MaxScan
                     /\ \A c \in decision.output, v \in seen : \A f \in Disambiguated(finds[v]) :
                           Covers(f, c) => f.type \notin Removable /\ f.class < Confidential
                     /\ decision.action = "redact" =>
                           decision.output = {c \in 1..len : \A f \in spans : ~Covers(f, c)}
    BY DEF EgressIsInspected
<1>2. decision.class >= declared
    BY <1>1 DEF DecisionIsStrict
<1>3. decision.action = "redact" =>
          decision.output = {c \in 1..len : \A f \in spans : ~Covers(f, c)}
    BY <1>1 DEF MergedSoFar, ToRemove
<1>4. ASSUME decision.output # {}
      PROVE  /\ decision.action \in {"allow", "redact"}
             /\ decision.class \in Nat /\ decision.class < HighlyConfidential
             /\ \A f \in spans : f.type \notin Removable => f.class < HighlyConfidential
    <2>1. /\ decision.action \in {"allow", "redact"} /\ decision.class \in Public..E2eePrivate
          /\ decision.action = "allow" => decision.class <= Internal
          /\ decision.action = "redact" => decision.class = Confidential
          /\ \A f \in spans : f.type \notin Removable => f.class <= decision.class
        BY <1>1, <1>4 DEF DecisionIsStrict, DlpTypeOK
    <2>2. decision.class \in Nat /\ decision.class < HighlyConfidential
        <3>1. decision.class \in 0..4 /\ (decision.class <= 1 \/ decision.class = 2)
            BY <2>1 DEF Public, Internal, Confidential, E2eePrivate
        <3>. QED
            BY <3>1 DEF HighlyConfidential
    <2>3. ASSUME NEW f \in spans, f.type \notin Removable PROVE f.class < HighlyConfidential
        <3>1. f.class <= decision.class
            BY <2>1, <2>3
        <3>2. f.class \in Public..E2eePrivate
            BY <1>1, <2>3 DEF DlpTypeOK, Spans
        <3>3. f.class \in Nat
            BY <3>2 DEF Public, E2eePrivate
        <3>. QED
            BY <2>2, <3>1, <3>3 DEF HighlyConfidential
    <2>. QED
        BY <2>1, <2>2, <2>3
<1>5. ASSUME decision.output # {} PROVE Overlooked = {} /\ len <= MaxScan
    <2>1. cut = {} /\ ~(len > MaxScan)
        BY <1>1, <1>4, <1>5 DEF NothingIsForgotten, DlpAssumption, HighlyConfidential
    <2>2. decoding = <<>>
        BY <1>1 DEF NothingIsForgotten
    <2>3. \A w \in Views : \A i \in 1..Len(decodes[w]) : decodes[w][i] \in seen
        BY <1>1, <2>1, <2>2 DEF NothingIsForgotten
    <2>4. Overlooked = {}
        <3>1. seen \subseteq Views
            BY <1>1 DEF DlpTypeOK
        <3>. QED
            BY <2>3, <3>1, SMTT(60) DEF Overlooked
    <2>5. len <= MaxScan
        BY <1>1, <2>1 DEF DlpTypeOK, DlpAssumption
    <2>. QED
        BY <2>4, <2>5
<1>6. ASSUME NEW c \in decision.output, NEW v \in seen, NEW f \in Disambiguated(finds[v]), Covers(f, c)
      PROVE  f.type \notin Removable /\ f.class < Confidential
    <2>1. decision.action \in {"allow", "redact"}
        BY <1>4, <1>6
    <2>2. ASSUME NEW g \in spans, g.type = "tax" PROVE FALSE
        <3>1. g.class = HighlyConfidential /\ g.type \notin Removable
            BY <1>1, <2>2 DEF SpansAreSound, DlpAssumption
        <3>2. g.class < HighlyConfidential
            BY <1>4, <1>6, <3>1
        <3>. QED
            BY <3>1, <3>2 DEF HighlyConfidential
    <2>3. f \in spans
        BY <1>1, <2>2 DEF FindingsAreKept, DlpTypeOK
    <2>4. f \notin ToRemove
        BY <1>1, <1>6, <2>1 DEF MergedSoFar
    <2>5. decision.action = "allow" /\ f.type \notin Removable
        BY <2>1, <2>3, <2>4 DEF ToRemove
    <2>6. f.class <= decision.class /\ decision.class <= Internal
        BY <1>1, <2>3, <2>5 DEF DecisionIsStrict
    <2>7. f.class \in Nat /\ decision.class \in Nat
        <3>1. f \in Spans
            BY <1>1, <2>3 DEF DlpTypeOK
        <3>2. f.class \in 0..4
            BY <3>1 DEF Spans, Public, E2eePrivate
        <3>3. decision.class \in Nat
            BY <1>4, <1>6
        <3>. QED
            BY <3>2, <3>3
    <2>. QED
        BY <2>5, <2>6, <2>7 DEF Internal, Confidential
<1>. QED
    BY <1>2, <1>3, <1>5, <1>6

\* The scan never loses a finding or a view that was cut off, the decision is as
\* strict as what was found, and the spans that are removed are merged without
\* losing a character (DLPScanner.evaluate).
THEOREM DlpInvariance == DlpSpec => []DlpIInv
<1>1. DlpInit => DlpIInv
    BY DlpAssumption, DlpStart
<1>2. DlpIInv /\ [DlpNext]_dlpVars => DlpIInv'
    <2>. SUFFICES ASSUME DlpIInv, [DlpNext]_dlpVars PROVE DlpIInv'
        OBVIOUS
    <2>1. CASE ScanView
        BY <2>1, DlpAssumption, ScanViewKeeps
    <2>2. CASE QueueView
        BY <2>2, DlpAssumption, QueueViewKeeps
    <2>3. CASE ScanEnds
        BY <2>3, DlpAssumption, ScanEndsKeeps
    <2>4. CASE Decide
        BY <2>4, DlpAssumption, DecideKeeps
    <2>5. CASE \E f \in unmerged : Merge(f)
        BY <2>5, DlpAssumption, MergeKeeps
    <2>6. CASE Join
        BY <2>6, DlpAssumption, JoinKeeps
    <2>7. CASE UNCHANGED dlpVars
        BY <2>7, SMTT(60) DEF dlpVars, DlpIInv, DlpTypeOK, NothingIsForgotten, FindingsAreKept, Disambiguated,
                    SpansAreSound, DecisionIsStrict, MergedSoFar, ToRemove, Apart, InMerged
    <2>. QED
        BY <2>1, <2>2, <2>3, <2>4, <2>5, <2>6, <2>7 DEF DlpNext
<1>. QED
    BY <1>1, <1>2, PTL DEF DlpSpec

\* When text leaves, everything it decodes to was inspected, and no character that
\* leaves lies in a finding that must be removed or is confidential.
THEOREM EgressIsAlwaysInspected == DlpSpec => []EgressIsInspected
<1>1. DlpIInv => EgressIsInspected
    BY DlpAssumption, InspectedFollows
<1>. QED
    BY <1>1, DlpInvariance, PTL

-----------------------------------------------------------------------------
(* Bans: what a transaction makes of the table.                            *)

\* Pruning forgets bans that have been served, and no others.
LEMMA PruneForgetsServed ==
    ASSUME BansAssumption, BanTypeOK
    PROVE  /\ PruneSources(table) \in [Addresses -> SourceRows]
           /\ \A s \in Addresses :
                 /\ Len(PruneSources(table)[s].scores) <= Threshold
                 /\ \/ PruneSources(table)[s].until = table[s].until
                    \/ PruneSources(table)[s].until = NoBan /\ table[s].until <= clock
<1>1. NoRow \in SourceRows /\ Len(NoRow.scores) = 0 /\ NoRow.until = NoBan
    BY DEF NoRow, NoBan, SourceRows, BansAssumption
<1>2. \A s \in Addresses : table[s] \in SourceRows /\ Len(table[s].scores) <= Threshold
    BY DEF BanTypeOK
<1>3. \A s \in Addresses : PruneSources(table)[s] = NoRow \/ PruneSources(table)[s] = table[s]
    BY DEF PruneSources
<1>4. ASSUME NEW s \in Addresses
      PROVE  \/ PruneSources(table)[s].until = table[s].until
             \/ PruneSources(table)[s].until = NoBan /\ table[s].until <= clock
    BY <1>1 DEF PruneSources
<1>5. PruneSources(table) \in [Addresses -> SourceRows]
    <2>1. \A s \in Addresses : PruneSources(table)[s] \in SourceRows
        BY <1>1, <1>2, <1>3
    <2>. QED
        BY <2>1 DEF PruneSources
<1>6. \A s \in Addresses : Len(PruneSources(table)[s].scores) <= Threshold
    BY <1>1, <1>2, <1>3 DEF BansAssumption
<1>. QED
    BY <1>4, <1>5, <1>6

\* Somebody gives way whenever somebody can, and was not banned.
LEMMA OldestIsEvictable ==
    ASSUME NEW t \in [Addresses -> SourceRows], Evictable(t) # {}
    PROVE  OldestSource(t) \in Evictable(t)
<1>. DEFINE stamps == {t[s].seen : s \in Evictable(t)}
<1>1. Evictable(t) \subseteq Addresses
    BY DEF Evictable, Known
<1>2. \A s \in Evictable(t) : t[s].seen \in Nat
    BY <1>1 DEF SourceRows
<1>3. stamps \in SUBSET Nat /\ stamps # {}
    BY <1>2
<1>4. PICK x \in stamps : \A y \in stamps : x <= y
    <2>. HIDE DEF stamps
    <2>. QED
        BY <1>3, LeastOf
<1>5. PICK s \in Evictable(t) : x = t[s].seen
    BY <1>4
<1>6. \A u \in Evictable(t) : t[s].seen <= t[u].seen
    BY <1>4, <1>5
<1>. QED
    BY <1>5, <1>6 DEF OldestSource

\* Stamps still within the time of a ban are stamps.
LEMMA RecentIsStamps ==
    ASSUME BansAssumption, clock \in 1..MaxTime, NEW scores \in Seq(Nat)
    PROVE  Recent(scores) \in Seq(Nat)
<1>. DEFINE past == {i \in 1..Len(scores) : scores[i] + BlockTime <= clock}
<1>1. IsFiniteSet(1..Len(scores)) /\ past \subseteq 1..Len(scores)
    BY FS_Interval, LenProperties
<1>2. Cardinality(past) \in Nat
    <2>. HIDE DEF past
    <2>. QED
        BY <1>1, FS_Subset, FS_CardinalityType
<1>3. SubSeq(scores, Cardinality(past) + 1, Len(scores)) \in Seq(Nat)
    <2>. HIDE DEF past
    <2>1. \A k \in Nat : SubSeq(scores, k + 1, Len(scores)) \in Seq(Nat)
        OBVIOUS
    <2>. QED
        BY <1>2, <2>1
<1>. QED
    BY <1>3 DEF Recent

\* A row with more hits: a ban in it stays as it is.
LEMMA ScoredRow ==
    ASSUME BansAssumption, clock \in 1..MaxTime, NEW row \in SourceRows, NEW w \in Nat
    PROVE  /\ Scored(row, w) \in SourceRows
           /\ Len(Scored(row, w).scores) <= Threshold
           /\ Scored(row, w).until = row.until \/ row.until = NoBan
<1>. DEFINE hits == [i \in 1..w |-> clock]
            all  == Recent(row.scores) \o hits
            kept == IF Len(all) > Threshold THEN SubSeq(all, Len(all) - Threshold + 1, Len(all)) ELSE all
            till == IF Len(kept) >= Threshold /\ row.until = NoBan THEN clock + BlockTime ELSE row.until
<1>1. clock \in Nat /\ Threshold \in Nat /\ BlockTime \in Nat /\ MaxTime \in Nat
    BY DEF BansAssumption
<1>2. Recent(row.scores) \in Seq(Nat)
    BY RecentIsStamps DEF SourceRows
<1>3. hits \in Seq(Nat)
    <2>1. hits \in [1..w -> Nat]
        BY <1>1
    <2>. HIDE DEF hits
    <2>. QED
        BY <2>1, FunctionIsSeq
<1>4. all \in Seq(Nat) /\ Len(all) \in Nat
    <2>. HIDE DEF hits
    <2>. QED
        BY <1>2, <1>3
<1>5. kept \in Seq(Nat) /\ Len(kept) <= Threshold
    <2>. HIDE DEF all
    <2>1. CASE Len(all) > Threshold
        <3>1. Len(all) - Threshold + 1 \in 1..Len(all)
            BY <1>1, <1>4, <2>1 DEF BansAssumption
        <3>2. SubSeq(all, Len(all) - Threshold + 1, Len(all)) \in Seq(Nat)
            BY <1>4, <3>1
        <3>3. Len(SubSeq(all, Len(all) - Threshold + 1, Len(all))) = Threshold
            BY <1>1, <1>4, <2>1, <3>1
        <3>. QED
            BY <2>1, <3>2, <3>3, <1>1
    <2>2. CASE ~(Len(all) > Threshold)
        BY <2>2, <1>1, <1>4
    <2>. QED
        BY <2>1, <2>2
<1>6. till \in 0..(MaxTime + BlockTime)
    <2>. HIDE DEF kept
    <2>1. row.until \in 0..(MaxTime + BlockTime)
        BY DEF SourceRows
    <2>2. clock + BlockTime \in 0..(MaxTime + BlockTime)
        BY <1>1
    <2>. QED
        BY <2>1, <2>2
<1>7. Scored(row, w) = [scores |-> kept, seen |-> clock, until |-> till]
    BY DEF Scored
<1>8. till = row.until \/ row.until = NoBan
    OBVIOUS
<1>9. clock \in 0..MaxTime
    BY <1>1
<1>. HIDE DEF kept, till
<1>. QED
    BY <1>5, <1>6, <1>7, <1>8, <1>9 DEF SourceRows

\* What is recorded for a source changes no ban but one that the source gets.
LEMMA RecordedTable ==
    ASSUME BansAssumption, clock \in 1..MaxTime, NEW t \in [Addresses -> SourceRows],
           \A a \in Addresses : Len(t[a].scores) <= Threshold,
           NEW s \in Addresses, NEW w \in Nat
    PROVE  /\ RecordMany(t, s, w) \in [Addresses -> SourceRows]
           /\ \A a \in Addresses :
                 /\ Len(RecordMany(t, s, w)[a].scores) <= Threshold
                 /\ \/ RecordMany(t, s, w)[a].until = t[a].until
                    \/ a = s /\ t[a].until = NoBan
<1>1. NoRow \in SourceRows /\ Len(NoRow.scores) = 0 /\ NoRow.until = NoBan
    BY DEF NoRow, NoBan, SourceRows, BansAssumption
<1>. DEFINE roomy == MakeRoom(t, s)
<1>2. CASE ~HasRoom(t, s)
    BY <1>2 DEF RecordMany
<1>3. CASE HasRoom(t, s)
    <2>1. /\ roomy \in [Addresses -> SourceRows]
          /\ \A a \in Addresses : Len(roomy[a].scores) <= Threshold /\ roomy[a].until = t[a].until
        <3>1. CASE t[s] # NoRow \/ Cardinality(Known(t)) < MaxSources
            BY <3>1 DEF MakeRoom
        <3>2. CASE ~(t[s] # NoRow \/ Cardinality(Known(t)) < MaxSources)
            <4>1. OldestSource(t) \in Evictable(t)
                BY <1>3, <3>2, OldestIsEvictable DEF HasRoom
            <4>2. OldestSource(t) \in Addresses /\ t[OldestSource(t)].until = NoBan
                BY <4>1 DEF Evictable, Known
            <4>3. roomy = [t EXCEPT ![OldestSource(t)] = NoRow]
                BY <3>2 DEF MakeRoom
            <4>. HIDE DEF roomy
            <4>. QED
                BY <4>2, <4>3, <1>1 DEF BansAssumption
        <3>. QED
            BY <3>1, <3>2
    <2>2. RecordMany(t, s, w) = [roomy EXCEPT ![s] = Scored(roomy[s], w)]
        BY <1>3 DEF RecordMany
    <2>. HIDE DEF roomy
    <2>3. /\ Scored(roomy[s], w) \in SourceRows
          /\ Len(Scored(roomy[s], w).scores) <= Threshold
          /\ Scored(roomy[s], w).until = roomy[s].until \/ roomy[s].until = NoBan
        BY <2>1, ScoredRow
    <2>. QED
        BY <2>1, <2>2, <2>3
<1>. QED
    BY <1>2, <1>3

-----------------------------------------------------------------------------
(* Bans: every step keeps the invariant.                                   *)

\* A visit that moves without the table, the draft or the lock.
LEMMA VisitMoves ==
    ASSUME BansAssumption, BanIInv, NEW r \in Visits,
           visit[r].at \notin {"decide", "lifted"},
           NEW v \in [at : {"idle", "check", "lock", "unblock", "passed"},
                      from : Addresses, hits : Weights \cup {0}, new : BOOLEAN],
           visit' = [visit EXCEPT ![r] = v], UNCHANGED <<clock, table, writer, draft, ban>>
    PROVE  BanIInv'
<1>1. BanTypeOK'
    BY DEF BanIInv, BanTypeOK
<1>2. \A q \in Visits :
         /\ visit'[q].at \in {"decide", "lifted"} => q # r
         /\ q # r => visit'[q] = visit[q]
    BY DEF BanIInv, BanTypeOK
<1>3. WriterHoldsTheLock'
    BY <1>2 DEF BanIInv, WriterHoldsTheLock
<1>4. DraftIsSound'
    <2>. SUFFICES ASSUME NEW q \in Visits, visit'[q].at \in {"decide", "lifted"}
                  PROVE  visit'[q] = visit[q]
        BY DEF BanIInv, DraftIsSound, SameBan
    <2>. QED
        BY <1>2
<1>5. AnnouncedBansStand'
    BY DEF BanIInv, AnnouncedBansStand
<1>. QED
    BY <1>1, <1>3, <1>4, <1>5 DEF BanIInv

\* A visit that takes the lock, and what it drafts.
LEMMA VisitDrafts ==
    ASSUME BansAssumption, BanIInv, NEW r \in Visits, writer = NoVisit,
           NEW step \in {"decide", "lifted"}, NEW fresh \in BOOLEAN,
           NEW t \in [Addresses -> SourceRows], \A a \in Addresses : Len(t[a].scores) <= Threshold,
           step = "decide" =>
              \A s \in Addresses :
                  SameBan(t[s].until, table[s].until)
                  \/ (s = visit[r].from /\ fresh /\ table[s].until <= clock),
           step = "lifted" =>
              /\ t[visit[r].from].until = NoBan
              /\ \A s \in Addresses : s # visit[r].from => t[s].until = table[s].until,
           visit' = [visit EXCEPT ![r].at = step, ![r].new = fresh],
           draft' = t, writer' = r, UNCHANGED <<clock, table, ban>>
    PROVE  BanIInv'
<1>1. BanTypeOK'
    <2>1. visit[r] \in [at : {"idle", "check", "lock", "decide", "unblock", "lifted", "passed"},
                        from : Addresses, hits : Weights \cup {0}, new : BOOLEAN]
        BY DEF BanIInv, BanTypeOK
    <2>2. [visit[r] EXCEPT !.at = step, !.new = fresh]
             \in [at : {"idle", "check", "lock", "decide", "unblock", "lifted", "passed"},
                  from : Addresses, hits : Weights \cup {0}, new : BOOLEAN]
        BY <2>1
    <2>3. visit' = [visit EXCEPT ![r] = [visit[r] EXCEPT !.at = step, !.new = fresh]]
        BY DEF BanIInv, BanTypeOK
    <2>. QED
        BY <2>2, <2>3 DEF BanIInv, BanTypeOK
<1>2. \A q \in Visits : visit[q].at \notin {"decide", "lifted"}
    BY DEF BanIInv, WriterHoldsTheLock, BansAssumption
<1>3. /\ visit'[r].at = step /\ visit'[r].new = fresh /\ visit'[r].from = visit[r].from
      /\ \A q \in Visits : q # r => visit'[q] = visit[q]
    BY DEF BanIInv, BanTypeOK
<1>4. WriterHoldsTheLock'
    BY <1>2, <1>3 DEF WriterHoldsTheLock
<1>5. DraftIsSound'
    <2>. SUFFICES ASSUME NEW q \in Visits, visit'[q].at \in {"decide", "lifted"}
                  PROVE  /\ q = r
                         /\ (step = "decide" =>
                               \A s \in Addresses :
                                   (draft'[s].until > clock' \/ table'[s].until > clock'
                                       => draft'[s].until = table'[s].until)
                                   \/ (s = visit'[r].from /\ visit'[r].new /\ table'[s].until <= clock'))
                         /\ (step = "lifted" =>
                               /\ draft'[visit'[r].from].until = NoBan
                               /\ \A s \in Addresses : s # visit'[r].from => draft'[s].until = table'[s].until)
        BY <1>3 DEF DraftIsSound, SameBan
    <2>. QED
        BY <1>2, <1>3 DEF SameBan
<1>6. AnnouncedBansStand'
    BY DEF BanIInv, AnnouncedBansStand
<1>. QED
    BY <1>1, <1>4, <1>5, <1>6 DEF BanIInv

\* Whatever frees the lock: nobody has a draft any more.
LEMMA LockFrees ==
    ASSUME BansAssumption, BanIInv, NEW r \in Visits, writer = r, writer' = NoVisit,
           BanTypeOK', \A q \in Visits : q # r => visit'[q].at = visit[q].at,
           visit'[r].at \notin {"decide", "lifted"}
    PROVE  WriterHoldsTheLock' /\ DraftIsSound'
<1>1. \A q \in Visits : visit'[q].at \notin {"decide", "lifted"}
    BY DEF BanIInv, WriterHoldsTheLock
<1>2. WriterHoldsTheLock'
    BY <1>1 DEF WriterHoldsTheLock
<1>3. DraftIsSound'
    BY <1>1 DEF DraftIsSound
<1>. QED
    BY <1>2, <1>3

LEMMA RecordKeeps ==
    ASSUME BansAssumption, BanIInv, NEW r \in Visits, Record(r)
    PROVE  BanIInv'
<1>. DEFINE s == visit[r].from
            p == PruneSources(table)
            t == RecordMany(p, s, visit[r].hits)
            fresh == t[s].until # NoBan /\ p[s].until = NoBan
<1>1. BanTypeOK /\ s \in Addresses /\ visit[r].hits \in Nat /\ clock \in 1..MaxTime
    <2>1. BanTypeOK /\ s \in Addresses /\ visit[r].hits \in Weights \cup {0} /\ clock \in 1..MaxTime
        BY DEF BanIInv, BanTypeOK
    <2>2. \A w \in Weights \cup {0} : w \in Nat
        BY DEF BansAssumption
    <2>. QED
        BY <2>1, <2>2
<1>2. /\ p \in [Addresses -> SourceRows]
      /\ \A a \in Addresses :
            /\ Len(p[a].scores) <= Threshold
            /\ p[a].until = table[a].until \/ (p[a].until = NoBan /\ table[a].until <= clock)
    BY <1>1, PruneForgetsServed
<1>3. /\ t \in [Addresses -> SourceRows]
      /\ \A a \in Addresses :
            /\ Len(t[a].scores) <= Threshold
            /\ t[a].until = p[a].until \/ (a = s /\ p[a].until = NoBan)
    <2>. HIDE DEF s, p
    <2>. QED
        BY <1>1, <1>2, RecordedTable
<1>4. \A a \in Addresses : /\ t[a].until \in Nat /\ table[a].until \in Nat /\ p[a].until \in Nat
    <2>. HIDE DEF t, p
    <2>1. \A row \in SourceRows : row.until \in Nat
        BY DEF SourceRows, BansAssumption
    <2>. QED
        BY <1>1, <1>2, <1>3, <2>1 DEF BanTypeOK
<1>5. ASSUME NEW a \in Addresses
      PROVE  SameBan(t[a].until, table[a].until) \/ (a = s /\ fresh /\ table[a].until <= clock)
    <2>. HIDE DEF s, p, t
    <2>1. CASE t[a].until = p[a].until
        BY <2>1, <1>1, <1>2, <1>4 DEF SameBan, NoBan, BansAssumption
    <2>2. CASE t[a].until # p[a].until
        <3>1. a = s /\ p[a].until = NoBan
            BY <2>2, <1>3
        <3>2. fresh
            BY <2>2, <3>1
        <3>3. CASE table[a].until = NoBan
            BY <3>1, <3>2, <3>3, <1>1 DEF NoBan, BansAssumption
        <3>4. CASE table[a].until # NoBan
            BY <3>1, <3>2, <3>4, <1>2
        <3>. QED
            BY <3>3, <3>4
    <2>. QED
        BY <2>1, <2>2
<1>6. /\ writer = NoVisit /\ writer' = r /\ draft' = t /\ UNCHANGED <<clock, table, ban>>
      /\ visit' = [visit EXCEPT ![r].at = "decide", ![r].new = fresh]
    BY DEF Record
<1>7. fresh \in BOOLEAN
    OBVIOUS
<1>8. \A a \in Addresses : Len(t[a].scores) <= Threshold
    BY <1>3
<1>9. \A a \in Addresses : SameBan(t[a].until, table[a].until)
                           \/ (a = visit[r].from /\ fresh /\ table[a].until <= clock)
    BY <1>5
<1>. HIDE DEF t, p, fresh, s
<1>. QED
    BY <1>3, <1>6, <1>7, <1>8, <1>9, VisitDrafts, ZenonT(60)

LEMMA RefusalKeeps ==
    ASSUME BansAssumption, BanIInv, NEW r \in Visits, Conclude(r)
    PROVE  BanIInv'
<1>. DEFINE s == visit[r].from
<1>1. BanTypeOK /\ s \in Addresses /\ visit[r].at = "decide" /\ visit[r].new \in BOOLEAN
    BY DEF BanIInv, BanTypeOK, Conclude
<1>2. writer = r
    BY <1>1 DEF BanIInv, WriterHoldsTheLock
<1>3. table' = draft /\ draft' = draft /\ clock' = clock /\ writer' = NoVisit
    BY DEF Conclude
<1>4. /\ visit' \in [Visits -> [at : {"idle", "check", "lock", "decide", "unblock", "lifted", "passed"},
                              from : Addresses, hits : Weights \cup {0}, new : BOOLEAN]]
      /\ visit'[r].at \notin {"decide", "lifted"}
      /\ \A q \in Visits : q # r => visit'[q].at = visit[q].at
    <2>1. NoHits \in [at : {"idle", "check", "lock", "decide", "unblock", "lifted", "passed"},
                     from : Addresses, hits : Weights \cup {0}, new : BOOLEAN] /\ NoHits.at = "idle"
        BY DEF NoHits, BansAssumption
    <2>2. CASE Refused(r)
        BY <2>1, <2>2, <1>1 DEF Conclude, BanTypeOK
    <2>3. CASE ~Refused(r)
        BY <2>3, <1>1, ZenonT(60) DEF Conclude, BanTypeOK
    <2>. QED
        BY <2>2, <2>3
<1>5. /\ ban' \in [Addresses -> 0..(MaxTime + BlockTime)]
      /\ \A a \in Addresses : ban'[a] = IF visit[r].new /\ a = s THEN draft[a].until ELSE ban[a]
    <2>1. draft[s].until \in 0..(MaxTime + BlockTime)
        BY <1>1 DEF BanTypeOK, SourceRows
    <2>. QED
        BY <2>1, <1>1 DEF Conclude, BanTypeOK
<1>6. BanTypeOK'
    BY <1>1, <1>3, <1>4, <1>5 DEF BanTypeOK
<1>7. WriterHoldsTheLock' /\ DraftIsSound'
    BY <1>2, <1>3, <1>4, <1>6, LockFrees
<1>8. AnnouncedBansStand'
    <2>. SUFFICES ASSUME NEW a \in Addresses
                  PROVE  /\ ban'[a] > clock => draft[a].until = ban'[a]
                         /\ draft[a].until > clock => draft[a].until = ban'[a]
        BY <1>3 DEF AnnouncedBansStand
    <2>1. /\ SameBan(draft[a].until, table[a].until) \/ (a = s /\ visit[r].new)
          /\ ban[a] > clock => table[a].until = ban[a]
          /\ table[a].until > clock => table[a].until = ban[a]
        BY <1>1 DEF BanIInv, DraftIsSound, AnnouncedBansStand
    <2>2. CASE visit[r].new /\ a = s
        BY <2>2, <1>5
    <2>3. CASE ~(visit[r].new /\ a = s)
        <3>1. ban'[a] = ban[a] /\ SameBan(draft[a].until, table[a].until)
            BY <2>3, <2>1, <1>5
        <3>. QED
            BY <3>1, <2>1 DEF SameBan
    <2>. QED
        BY <2>2, <2>3
<1>. QED
    BY <1>6, <1>7, <1>8 DEF BanIInv

LEMMA CommitUnblockKeeps ==
    ASSUME BansAssumption, BanIInv, NEW r \in Visits, CommitUnblock(r)
    PROVE  BanIInv'
<1>. DEFINE s == visit[r].from
<1>1. BanTypeOK /\ s \in Addresses /\ visit[r].at = "lifted" /\ clock \in Nat
    BY DEF BanIInv, BanTypeOK, CommitUnblock
<1>2. writer = r
    BY <1>1 DEF BanIInv, WriterHoldsTheLock
<1>3. /\ table' = draft /\ draft' = draft /\ clock' = clock /\ writer' = NoVisit
      /\ ban' = [ban EXCEPT ![s] = NoBan] /\ visit' = [visit EXCEPT ![r] = NoHits]
    BY DEF CommitUnblock
<1>4. NoHits \in [at : {"idle", "check", "lock", "decide", "unblock", "lifted", "passed"},
                from : Addresses, hits : Weights \cup {0}, new : BOOLEAN] /\ NoHits.at = "idle"
    BY DEF NoHits, BansAssumption
<1>5. BanTypeOK'
    <2>1. NoBan \in 0..(MaxTime + BlockTime)
        BY DEF NoBan, BansAssumption
    <2>. QED
        BY <2>1, <1>1, <1>3, <1>4 DEF BanTypeOK
<1>6. WriterHoldsTheLock' /\ DraftIsSound'
    <2>1. visit'[r].at = "idle" /\ \A q \in Visits : q # r => visit'[q].at = visit[q].at
        BY <1>1, <1>3, <1>4 DEF BanTypeOK
    <2>. QED
        BY <2>1, <1>2, <1>3, <1>5, LockFrees
<1>7. AnnouncedBansStand'
    <2>. SUFFICES ASSUME NEW a \in Addresses
                  PROVE  /\ ban'[a] > clock => draft[a].until = ban'[a]
                         /\ draft[a].until > clock => draft[a].until = ban'[a]
        BY <1>3 DEF AnnouncedBansStand
    <2>1. /\ draft[s].until = NoBan
          /\ a # s => draft[a].until = table[a].until
          /\ ban[a] > clock => table[a].until = ban[a]
          /\ table[a].until > clock => table[a].until = ban[a]
        BY <1>1 DEF BanIInv, DraftIsSound, AnnouncedBansStand
    <2>2. ban'[a] = IF a = s THEN NoBan ELSE ban[a]
        BY <1>1, <1>3 DEF BanTypeOK
    <2>. HIDE DEF s
    <2>. QED
        BY <1>1, <2>1, <2>2 DEF NoBan
<1>. QED
    BY <1>5, <1>6, <1>7 DEF BanIInv

LEMMA FailKeeps ==
    ASSUME BansAssumption, BanIInv, NEW r \in Visits, Fail(r)
    PROVE  BanIInv'
<1>1. NoHits \in [at : {"idle", "check", "lock", "unblock", "passed"},
                from : Addresses, hits : Weights \cup {0}, new : BOOLEAN] /\ NoHits.at = "idle"
    BY DEF NoHits, BansAssumption
<1>2. CASE writer = r
    <2>1. /\ table' = table /\ draft' = table /\ clock' = clock /\ ban' = ban /\ writer' = NoVisit
          /\ visit' = [visit EXCEPT ![r] = NoHits]
        BY <1>2 DEF Fail
    <2>2. BanTypeOK'
        BY <1>1, <2>1 DEF BanIInv, BanTypeOK
    <2>3. visit'[r].at = "idle" /\ \A q \in Visits : q # r => visit'[q].at = visit[q].at
        BY <1>1, <2>1 DEF BanIInv, BanTypeOK
    <2>4. WriterHoldsTheLock' /\ DraftIsSound'
        BY <1>2, <2>1, <2>2, <2>3, LockFrees
    <2>5. AnnouncedBansStand'
        BY <2>1 DEF BanIInv, AnnouncedBansStand
    <2>. QED
        BY <2>2, <2>4, <2>5 DEF BanIInv
<1>3. CASE writer # r
    <2>1. visit[r].at \notin {"decide", "lifted"}
        BY <1>3 DEF BanIInv, WriterHoldsTheLock
    <2>2. visit' = [visit EXCEPT ![r] = NoHits] /\ UNCHANGED <<clock, table, writer, draft, ban>>
        BY <1>3 DEF Fail
    <2>. QED
        BY <1>1, <2>1, <2>2, VisitMoves
<1>. QED
    BY <1>2, <1>3

LEMMA BanTickKeeps ==
    ASSUME BansAssumption, BanIInv, BanTick
    PROVE  BanIInv'
<1>1. clock \in Nat /\ clock' = clock + 1 /\ clock' \in 1..MaxTime /\ UNCHANGED <<table, writer, draft, visit, ban>>
    BY DEF BanIInv, BanTypeOK, BanTick, BansAssumption
<1>2. BanTypeOK'
    BY <1>1 DEF BanIInv, BanTypeOK
<1>3. WriterHoldsTheLock'
    BY <1>1 DEF BanIInv, WriterHoldsTheLock
<1>4. \A a \in Addresses : draft[a].until \in Nat /\ table[a].until \in Nat /\ ban[a] \in Nat
    <2>1. \A a \in Addresses :
             /\ draft[a].until \in 0..(MaxTime + BlockTime) /\ table[a].until \in 0..(MaxTime + BlockTime)
             /\ ban[a] \in 0..(MaxTime + BlockTime)
        BY DEF BanIInv, BanTypeOK, SourceRows
    <2>2. \A n \in 0..(MaxTime + BlockTime) : n \in Nat
        BY DEF BansAssumption
    <2>. QED
        BY <2>1, <2>2
<1>5. DraftIsSound'
    <2>1. ASSUME NEW a \in Addresses, SameBan(draft[a].until, table[a].until)
          PROVE  draft[a].until > clock' \/ table[a].until > clock' => draft[a].until = table[a].until
        BY <1>1, <1>4, <2>1 DEF SameBan
    <2>2. \A a \in Addresses : table[a].until <= clock => table[a].until <= clock'
        BY <1>1, <1>4
    <2>3. DraftIsSound
        BY DEF BanIInv
    <2>. QED
        BY <1>1, <2>1, <2>2, <2>3 DEF DraftIsSound, SameBan
<1>6. AnnouncedBansStand'
    BY <1>1, <1>4 DEF BanIInv, AnnouncedBansStand
<1>. QED
    BY <1>2, <1>3, <1>5, <1>6 DEF BanIInv

\* The bans, the writer lock and what is about to be committed, in every state.
THEOREM BanInvariance == BanSpec => []BanIInv
<1>1. BanInit => BanIInv
    <2>. SUFFICES ASSUME BanInit PROVE BanIInv
        OBVIOUS
    <2>1. NoRow \in SourceRows /\ Len(NoRow.scores) = 0 /\ NoRow.until = NoBan
        BY BansAssumption DEF NoRow, NoBan, SourceRows, BansAssumption
    <2>2. NoHits \in [at : {"idle"}, from : Addresses, hits : {0}, new : BOOLEAN]
        BY BansAssumption DEF NoHits, BansAssumption
    <2>3. BanTypeOK
        BY <2>1, <2>2, BansAssumption DEF BanInit, BanTypeOK, NoBan, BansAssumption
    <2>4. \A r \in Visits : visit[r].at = "idle"
        BY <2>2 DEF BanInit
    <2>5. WriterHoldsTheLock /\ DraftIsSound
        BY <2>4 DEF WriterHoldsTheLock, DraftIsSound
    <2>6. AnnouncedBansStand
        BY <2>1 DEF BanInit, AnnouncedBansStand, NoBan
    <2>. QED
        BY <2>3, <2>5, <2>6 DEF BanIInv
<1>2. BanIInv /\ [BanNext]_banVars => BanIInv'
    <2>. SUFFICES ASSUME BanIInv, [BanNext]_banVars PROVE BanIInv'
        OBVIOUS
    <2>. USE BansAssumption
    <2>1. CASE UNCHANGED banVars
        BY <2>1 DEF banVars, BanIInv, BanTypeOK, WriterHoldsTheLock, DraftIsSound, SameBan, AnnouncedBansStand
    <2>2. CASE BanTick
        BY <2>2, BanTickKeeps
    <2>3. ASSUME NEW r \in Visits, NEW s \in Addresses, NEW w \in Weights \cup {0}, Arrive(r, s, w)
          PROVE  BanIInv'
        <3>. DEFINE v == [visit[r] EXCEPT !.at = "check", !.from = s, !.hits = w]
        <3>1. v \in [at : {"idle", "check", "lock", "unblock", "passed"},
                     from : Addresses, hits : Weights \cup {0}, new : BOOLEAN]
            BY DEF BanIInv, BanTypeOK
        <3>2. /\ visit[r].at \notin {"decide", "lifted"} /\ visit' = [visit EXCEPT ![r] = v]
              /\ UNCHANGED <<clock, table, writer, draft, ban>>
            BY <2>3 DEF Arrive
        <3>. HIDE DEF v
        <3>. QED
            BY <3>1, <3>2, VisitMoves
    <2>4. ASSUME NEW r \in Visits, NEW s \in Addresses, AskUnblock(r, s)
          PROVE  BanIInv'
        <3>. DEFINE v == [visit[r] EXCEPT !.at = "unblock", !.from = s]
        <3>1. v \in [at : {"idle", "check", "lock", "unblock", "passed"},
                     from : Addresses, hits : Weights \cup {0}, new : BOOLEAN]
            BY DEF BanIInv, BanTypeOK
        <3>2. /\ visit[r].at \notin {"decide", "lifted"} /\ visit' = [visit EXCEPT ![r] = v]
              /\ UNCHANGED <<clock, table, writer, draft, ban>>
            BY <2>4 DEF AskUnblock
        <3>. HIDE DEF v
        <3>. QED
            BY <3>1, <3>2, VisitMoves
    <2>5. ASSUME NEW r \in Visits, Check(r) PROVE BanIInv'
        <3>. DEFINE v == IF IsBlocked(table, visit[r].from) THEN NoHits
                         ELSE [visit[r] EXCEPT !.at = IF visit[r].hits = 0 THEN "passed" ELSE "lock"]
        <3>1. v \in [at : {"idle", "check", "lock", "unblock", "passed"},
                     from : Addresses, hits : Weights \cup {0}, new : BOOLEAN]
            <4>1. CASE IsBlocked(table, visit[r].from)
                BY <4>1 DEF NoHits, BansAssumption
            <4>2. CASE ~IsBlocked(table, visit[r].from)
                BY <4>2 DEF BanIInv, BanTypeOK
            <4>. QED
                BY <4>1, <4>2
        <3>2. /\ visit[r].at \notin {"decide", "lifted"} /\ visit' = [visit EXCEPT ![r] = v]
              /\ UNCHANGED <<clock, table, writer, draft, ban>>
            BY <2>5 DEF Check
        <3>. HIDE DEF v
        <3>. QED
            BY <3>1, <3>2, VisitMoves
    <2>6. ASSUME NEW r \in Visits, Unblock(r) PROVE BanIInv'
        <3>. DEFINE t == [table EXCEPT ![visit[r].from] = NoRow]
        <3>1. NoRow \in SourceRows /\ Len(NoRow.scores) = 0 /\ NoRow.until = NoBan
            BY DEF NoRow, NoBan, SourceRows, BansAssumption
        <3>2. BanTypeOK /\ visit[r].from \in Addresses /\ visit[r].new \in BOOLEAN
            BY DEF BanIInv, BanTypeOK
        <3>3. /\ t \in [Addresses -> SourceRows] /\ \A a \in Addresses : Len(t[a].scores) <= Threshold
              /\ t[visit[r].from].until = NoBan
              /\ \A s \in Addresses : s # visit[r].from => t[s].until = table[s].until
            BY <3>1, <3>2 DEF BanTypeOK, BansAssumption
        <3>4. /\ writer = NoVisit /\ writer' = r /\ draft' = t /\ UNCHANGED <<clock, table, ban>>
              /\ visit' = [visit EXCEPT ![r].at = "lifted", ![r].new = visit[r].new]
            <4>1. [visit EXCEPT ![r].at = "lifted"] = [visit EXCEPT ![r].at = "lifted", ![r].new = visit[r].new]
                BY <3>2 DEF BanTypeOK
            <4>. QED
                BY <2>6, <4>1 DEF Unblock
        <3>. HIDE DEF t
        <3>. QED
            BY <3>2, <3>3, <3>4, VisitDrafts
    <2>7. ASSUME NEW r \in Visits, Answered(r) PROVE BanIInv'
        <3>1. NoHits \in [at : {"idle", "check", "lock", "unblock", "passed"},
                        from : Addresses, hits : Weights \cup {0}, new : BOOLEAN]
            BY DEF NoHits, BansAssumption
        <3>2. /\ visit[r].at \notin {"decide", "lifted"} /\ visit' = [visit EXCEPT ![r] = NoHits]
              /\ UNCHANGED <<clock, table, writer, draft, ban>>
            BY <2>7 DEF Answered
        <3>. QED
            BY <3>1, <3>2, VisitMoves
    <2>8. ASSUME NEW r \in Visits, Record(r) \/ Conclude(r) \/ Fail(r) \/ CommitUnblock(r)
          PROVE  BanIInv'
        BY <2>8, RecordKeeps, RefusalKeeps, FailKeeps, CommitUnblockKeeps
    <2>. QED
        BY <2>1, <2>2, <2>3, <2>4, <2>5, <2>6, <2>7, <2>8 DEF BanNext
<1>. QED
    BY <1>1, <1>2, PTL DEF BanSpec

\* Only a decision lets a request with hits pass, and it looks at the table that it
\* commits.
LEMMA HitsAreRefused == BanIInv /\ [BanNext]_banVars => HitsRefused
<1>. SUFFICES ASSUME BanIInv, [BanNext]_banVars,
                     NEW q \in Visits, visit[q].at # "passed", visit'[q].at = "passed", visit[q].hits # 0
              PROVE  ~IsBlocked(table', visit[q].from)
    BY DEF HitsRefused
<1>1. BanTypeOK
    BY DEF BanIInv
<1>2. PICK r \in Visits :
         \/ \E s \in Addresses, w \in Weights \cup {0} : Arrive(r, s, w)
         \/ \E s \in Addresses : AskUnblock(r, s)
         \/ Check(r) \/ Record(r) \/ Conclude(r) \/ Fail(r)
         \/ Unblock(r) \/ CommitUnblock(r) \/ Answered(r)
    BY DEF BanNext, banVars, BanTick
<1>3. NoHits.at = "idle"
    BY DEF NoHits
<1>4. ~(\E s \in Addresses, w \in Weights \cup {0} : Arrive(r, s, w))
    BY <1>1 DEF Arrive, BanTypeOK
<1>5. ~(\E s \in Addresses : AskUnblock(r, s))
    BY <1>1 DEF AskUnblock, BanTypeOK
<1>6. ~Check(r)
    BY <1>1, <1>3 DEF Check, BanTypeOK
<1>7. ~Record(r) /\ ~Unblock(r)
    <2>1. ASSUME NEW x, visit' = [visit EXCEPT ![r].at = "decide", ![r].new = x] PROVE FALSE
        BY <1>1, <2>1 DEF BanTypeOK
    <2>2. ~Record(r)
        BY <2>1 DEF Record
    <2>3. ~Unblock(r)
        BY <1>1, ZenonT(60) DEF Unblock, BanTypeOK
    <2>. QED
        BY <2>2, <2>3
<1>8. ~Fail(r) /\ ~CommitUnblock(r) /\ ~Answered(r)
    BY <1>1, <1>3 DEF Fail, CommitUnblock, Answered, BanTypeOK
<1>9. Conclude(r)
    BY <1>2, <1>4, <1>5, <1>6, <1>7, <1>8
<1>10. q = r /\ ~Refused(r)
    BY <1>1, <1>3, <1>9 DEF Conclude, BanTypeOK
<1>. QED
    BY <1>9, <1>10 DEF Conclude, Refused, IsBlocked

\* An announced ban stands until it is served or lifted, and no request with hits
\* passes it.
THEOREM BansAreKept == BanSpec => BansStand
<1>1. BanIInv => BanTypeOK /\ AnnouncedBansStand
    BY DEF BanIInv
<1>2. BanIInv /\ [BanNext]_banVars => [HitsRefused]_banVars
    BY HitsAreRefused
<1>. QED
    BY <1>1, <1>2, BanInvariance, PTL DEF BanSpec, BansStand
=============================================================================
