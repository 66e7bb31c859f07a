------------------------------ MODULE Admission ------------------------------
(***************************************************************************)
(* The finite budgets of one worker (src/app/availability.py,              *)
(* src/app/request_limits.py): slots for requests and for event streams,   *)
(* slots per source address, slots for password hashing, and the single    *)
(* flight of the readiness probe.                                          *)
(*                                                                         *)
(* The middleware runs on the event loop: what it does between two awaits  *)
(* is one step.  At every await the request may fail, time out or be       *)
(* cancelled, because its client has gone.  Handlers and the probe run in  *)
(* threads.  The sliding windows of the rate limits are in RateLimits;     *)
(* here a limit may refuse any request.                                    *)
(***************************************************************************)
EXTENDS Naturals, FiniteSets

CONSTANTS
    Requests,
    Sources,             \* client addresses
    MaxActive,           \* the budgets of requests and of streams: a function of the kind
    MaxPerSource,        \* request_ip_max_concurrent and request_ip_max_streams, likewise
    MaxHashing,          \* slots of BoundedPasswordService
    SharedLimiter        \* Redis is configured

ASSUME AdmissionAssumption ==
    /\ Sources # {}
    /\ MaxActive \in [{"request", "stream"} -> Nat] /\ MaxPerSource \in [{"request", "stream"} -> Nat]
    /\ MaxHashing \in Nat /\ SharedLimiter \in BOOLEAN

VARIABLES
    req,            \* requests
    active,         \* CapacityBudget._active of each kind
    sources,        \* _sources
    hashing,        \* CapacityBudget._active of the password service
    probing         \* CapacityBudget._active of the probe

vars == <<req, active, sources, hashing, probing>>

Kinds == {"request", "asset", "stream"}

\* Frontend assets share the budget of requests and have no slot per source.
BudgetOf(kind) == IF kind = "stream" THEN "stream" ELSE "request"
HasSource(r) == req[r].kind # "asset"
SourceKey(r) == <<req[r].src, BudgetOf(req[r].kind)>>

Waiting == {"shared", "refusing", "body", "app", "hashing", "probing"}

Idle == [pc |-> "idle", src |-> CHOOSE s \in Sources : TRUE, kind |-> "request"]

TypeOK ==
    /\ req \in [Requests -> [pc : Waiting \cup {"idle", "over"}, src : Sources, kind : Kinds]]
    /\ active \in [{"request", "stream"} -> Nat]
    /\ sources \in [Sources \X {"request", "stream"} -> Nat]
    /\ hashing \in Nat /\ probing \in 0..1

Init ==
    /\ req = [r \in Requests |-> Idle]
    /\ active = [b \in {"request", "stream"} |-> 0]
    /\ sources = [x \in Sources \X {"request", "stream"} |-> 0]
    /\ hashing = 0 /\ probing = 0

-----------------------------------------------------------------------------
(* AdmissionMiddleware.                                                    *)

\* _admit up to its first await: the local limits, a slot of the budget, a slot
\* of the source.  A request that gets the first and not the second gives the
\* first back.
Admit(r, s, kind) ==
    LET b == BudgetOf(kind)
        x == <<s, b>>
    IN  /\ req[r].pc = "idle"
        /\ \/ /\ active[b] < MaxActive[b]
              /\ kind # "asset" => sources[x] < MaxPerSource[b]
              /\ active' = [active EXCEPT ![b] = active[b] + 1]
              /\ sources' = IF kind = "asset" THEN sources
                            ELSE [sources EXCEPT ![x] = sources[x] + 1]
              /\ req' = [req EXCEPT ![r] = [pc |-> IF SharedLimiter THEN "shared" ELSE "body",
                                            src |-> s, kind |-> kind]]
           \/ /\ req' = [req EXCEPT ![r] = [pc |-> "over", src |-> s, kind |-> kind]]
              /\ UNCHANGED <<active, sources>>
        /\ UNCHANGED <<hashing, probing>>

\* shared_check in a thread.  A denial, and a backend that does not answer,
\* refuse the request.
SharedCheck(r, allowed) ==
    /\ req[r].pc = "shared"
    /\ req' = [req EXCEPT ![r].pc = IF allowed THEN "body" ELSE "refusing"]
    /\ UNCHANGED <<active, sources, hashing, probing>>

\* RequestLimitsMiddleware: framing and size, the body within its deadline and
\* its JSON; or a refusal.
ReadBody(r, good) ==
    /\ req[r].pc = "body"
    /\ req' = [req EXCEPT ![r].pc = IF good THEN "app" ELSE "refusing"]
    /\ UNCHANGED <<active, sources, hashing, probing>>

\* Mutation of Release: the source's slot is not given back.
ReleaseBudgetOnly(r) ==
    /\ active' = [active EXCEPT ![BudgetOf(req[r].kind)] = @ - 1]
    /\ UNCHANGED sources

\* The finally of _admit.
Release(r) ==
    /\ active' = [active EXCEPT ![BudgetOf(req[r].kind)] = @ - 1]
    /\ sources' = IF HasSource(r) THEN [sources EXCEPT ![SourceKey(r)] = @ - 1] ELSE sources

\* The response is complete, or the handler raised, or the client has gone while
\* the request waited.  A thread that still works for it goes on.
Leave(r) ==
    /\ req[r].pc \in {"shared", "refusing", "body", "app"}
    /\ req' = [req EXCEPT ![r].pc = "over"]
    /\ Release(r)
    /\ UNCHANGED <<hashing, probing>>

-----------------------------------------------------------------------------
(* Work in a handler.                                                      *)

\* BoundedPasswordService: a slot for the hash, or CapacityExceeded.
StartHash(r) ==
    /\ req[r].pc = "app" /\ req[r].kind = "request"
    /\ IF hashing < MaxHashing
       THEN hashing' = hashing + 1 /\ req' = [req EXCEPT ![r].pc = "hashing"]
       ELSE UNCHANGED hashing /\ req' = [req EXCEPT ![r].pc = "refusing"]
    /\ UNCHANGED <<active, sources, probing>>

EndHash(r) ==
    /\ req[r].pc = "hashing"
    /\ hashing' = hashing - 1
    /\ req' = [req EXCEPT ![r].pc = "app"]
    /\ UNCHANGED <<active, sources, probing>>

\* ReadinessProbe.check when its cache has nothing: one probe at a time, the
\* others answer that the service is not ready.
StartProbe(r) ==
    /\ req[r].pc = "app" /\ req[r].kind = "request"
    /\ IF probing = 0
       THEN probing' = 1 /\ req' = [req EXCEPT ![r].pc = "probing"]
       ELSE UNCHANGED probing /\ req' = [req EXCEPT ![r].pc = "refusing"]
    /\ UNCHANGED <<active, sources, hashing>>

\* The callback returned or raised.
EndProbe(r) ==
    /\ req[r].pc = "probing"
    /\ probing' = 0
    /\ req' = [req EXCEPT ![r].pc = "app"]
    /\ UNCHANGED <<active, sources, hashing>>

RequestStep(r) ==
    \/ \E b \in BOOLEAN : SharedCheck(r, b) \/ ReadBody(r, b)
    \/ Leave(r) \/ EndHash(r) \/ EndProbe(r)

Next ==
    \/ \E r \in Requests, s \in Sources, kind \in Kinds : Admit(r, s, kind)
    \/ \E r \in Requests : RequestStep(r) \/ StartHash(r) \/ StartProbe(r)

Spec == Init /\ [][Next]_vars

-----------------------------------------------------------------------------
(* Properties.                                                             *)

Busy == {r \in Requests : req[r].pc \in Waiting}
HoldersOf(b) == {r \in Busy : BudgetOf(req[r].kind) = b}
HoldersFrom(x) == {r \in Busy : HasSource(r) /\ SourceKey(r) = x}
At(pc) == {r \in Busy : req[r].pc = pc}

\* Every slot is held by exactly one request that is in progress, on every path:
\* refused by its source, denied by Redis, too large, too slow, cancelled; and no
\* budget is overdrawn.
SlotsAreHeld ==
    /\ TypeOK
    /\ \A b \in {"request", "stream"} :
          active[b] <= MaxActive[b] /\ active[b] = Cardinality(HoldersOf(b))
    /\ \A x \in Sources \X {"request", "stream"} :
          sources[x] <= MaxPerSource[x[2]] /\ sources[x] = Cardinality(HoldersFrom(x))
    /\ hashing = Cardinality(At("hashing")) /\ hashing <= MaxHashing
    /\ probing = Cardinality(At("probing"))

\* Inductive, with the requests in progress being finitely many.
IInv == SlotsAreHeld /\ IsFiniteSet(Busy)
=============================================================================
