------------------------------ MODULE RateLimits -----------------------------
(***************************************************************************)
(* The sliding-window limiter (src/app/security.py) under the sign-in      *)
(* route that charges two of its budgets, one per account and one per      *)
(* address, resets the first and gives back a slot of the second when the  *)
(* password was right.  Each call holds the limiter's lock; a sign-in      *)
(* makes several, and others come between them.                            *)
(*                                                                         *)
(* The interval of the clean-up is left open: it may run in any call.      *)
(* _next_expiry is never later than the first expiry, so a full store      *)
(* always tries to clean up before it denies a new key.                    *)
(***************************************************************************)
EXTENDS Naturals, Sequences, FiniteSets

CONSTANTS
    AccountKeys, AddressKeys,    \* keys of the budgets
    Attempts,                    \* sign-ins
    MaxAttempts,                 \* login_max_attempts
    Window,                      \* login_window_seconds
    LongWindow,                  \* the lockout, for a familiar source
    FamiliarKeys,                \* the account keys of familiar sources
    MaxKeys,                     \* max_keys
    Horizon                      \* bound: time

\* What the proofs assume: budgets and windows are positive, as allow demands.
ASSUME LimitsAssumption ==
    /\ AccountKeys # {} /\ AddressKeys # {}
    /\ MaxAttempts \in Nat \ {0}
    /\ Window \in Nat \ {0} /\ LongWindow \in Nat \ {0}
    /\ MaxKeys \in Nat \ {0} /\ Horizon \in Nat

VARIABLES
    time,
    events,      \* _events; a key that is not stored has no bucket
    stored,      \* the keys of _events
    expires,     \* _expires_at
    attempt,     \* sign-ins in progress
    admitted,    \* history: times at which a key was charged
    returned     \* history: times at which an address got a slot back

limitVars == <<time, events, stored, expires, attempt, admitted, returned>>

Keys == AccountKeys \cup AddressKeys
WindowOf(k) == IF k \in FamiliarKeys THEN LongWindow ELSE Window

NoAttempt == [pc |-> "idle", account |-> CHOOSE k \in AccountKeys : TRUE,
          address |-> CHOOSE k \in AddressKeys : TRUE, ok |-> TRUE]

LimitTypeOK ==
    /\ time \in 0..Horizon
    /\ events \in [Keys -> Seq(0..Horizon)]
    /\ stored \subseteq Keys
    /\ expires \in [Keys -> Nat]
    /\ attempt \in [Attempts -> [pc : {"idle", "address", "verify", "right", "refund", "over"},
                                 account : AccountKeys, address : AddressKeys, ok : BOOLEAN]]
    /\ admitted \in [Keys -> Seq(0..Horizon)]
    /\ returned \in [Keys -> Seq(0..Horizon)]

LimitInit ==
    /\ time = 0
    /\ events = [k \in Keys |-> <<>>]
    /\ stored = {}
    /\ expires = [k \in Keys |-> 0]
    /\ attempt = [i \in Attempts |-> NoAttempt]
    /\ admitted = [k \in Keys |-> <<>>]
    /\ returned = [k \in Keys |-> <<>>]

Latest(i, j) == IF i > j THEN i ELSE j

\* Mutation of Reclaim: a budget in use makes room for a new key.
EvictOldest(S) == IF Cardinality(S) < MaxKeys THEN S ELSE S \ {CHOOSE k \in S : TRUE}

\* _cleanup: only budgets that have run out are reclaimed.
Reclaim(S) == {k \in S : expires[k] > time}

\* The loop of popleft in allow: the first n slots of the bucket of k, no longer in
\* the window, go.
Outdated(k, n) ==
    /\ \A i \in 1..n : events[k][i] + WindowOf(k) <= time
    /\ n < Len(events[k]) => events[k][n + 1] + WindowOf(k) > time

\* allow: the outcome ok and the new store.
Allow(k, ok) ==
    \E clean \in BOOLEAN, n \in {m \in 0..Len(events[k]) : Outdated(k, m)} :
        LET kept == IF clean THEN Reclaim(stored) ELSE stored
            room == IF k \notin kept /\ Cardinality(kept) >= MaxKeys THEN Reclaim(kept) ELSE kept
            old  == IF k \in room THEN SubSeq(events[k], n + 1, Len(events[k])) ELSE <<>>
            last == IF old = <<>> THEN time ELSE old[Len(old)]
            till == Latest(IF k \in room THEN expires[k] ELSE 0, last + WindowOf(k))
        IN  IF k \notin room /\ Cardinality(room) >= MaxKeys
            THEN /\ ok = FALSE
                 /\ stored' = room
                 /\ UNCHANGED <<events, expires, admitted>>
            ELSE /\ stored' = room \cup {k}
                 /\ ok = (Len(old) < MaxAttempts)
                 /\ events' = [events EXCEPT ![k] = IF ok THEN Append(old, time) ELSE old]
                 /\ expires' = [expires EXCEPT ![k] = IF ok THEN Latest(till, time + WindowOf(k))
                                                            ELSE till]
                 /\ admitted' = IF ok THEN [admitted EXCEPT ![k] = Append(@, time)] ELSE admitted

\* refund: the newest slot, whoever took it.
Refund(k) == SubSeq(events[k], 1, Len(events[k]) - 1)

-----------------------------------------------------------------------------
(* login.                                                                  *)

\* Both budgets are charged, whatever the first says ...
ChargeAccount(i, k, d) ==
    /\ attempt[i].pc = "idle"
    /\ \E ok \in BOOLEAN :
          /\ Allow(k, ok)
          /\ attempt' = [attempt EXCEPT ![i] = [pc |-> "address", account |-> k, address |-> d,
                                                ok |-> ok]]
    /\ UNCHANGED <<time, returned>>

ChargeAddress(i) ==
    /\ attempt[i].pc = "address"
    /\ \E ok \in BOOLEAN :
          /\ Allow(attempt[i].address, ok)
          /\ attempt' = [attempt EXCEPT ![i].pc = IF attempt[i].ok /\ ok THEN "verify" ELSE "over",
                                        ![i].ok = attempt[i].ok /\ ok]
    /\ UNCHANGED <<time, returned>>

\* ... then the password is verified under the account lock.
Wrong(i) ==
    /\ attempt[i].pc = "verify"
    /\ attempt' = [attempt EXCEPT ![i].pc = "over"]
    /\ UNCHANGED <<time, events, stored, expires, admitted, returned>>

\* reset(account_key).
Right(i) ==
    LET k == attempt[i].account
    IN  /\ attempt[i].pc = "verify"
        /\ attempt' = [attempt EXCEPT ![i].pc = "refund"]
        /\ stored' = stored \ {k}
        /\ events' = [events EXCEPT ![k] = <<>>]
        /\ expires' = [expires EXCEPT ![k] = 0]
        /\ admitted' = [admitted EXCEPT ![k] = <<>>]
        /\ UNCHANGED <<time, returned>>

\* refund(ip_key); an empty bucket is forgotten.
GiveBack(i) ==
    LET d    == attempt[i].address
        left == Refund(d)
    IN  /\ attempt[i].pc = "refund"
        /\ attempt' = [attempt EXCEPT ![i].pc = "over"]
        /\ IF d \in stored /\ events[d] # <<>>
           THEN /\ events' = [events EXCEPT ![d] = left]
                /\ stored' = IF left = <<>> THEN stored \ {d} ELSE stored
                /\ expires' = IF left = <<>> THEN [expires EXCEPT ![d] = 0] ELSE expires
                /\ returned' = [returned EXCEPT ![d] = Append(@, time)]
           ELSE UNCHANGED <<events, stored, expires, returned>>
        /\ UNCHANGED <<time, admitted>>

LimitTick ==
    /\ time < Horizon
    /\ time' = time + 1
    /\ UNCHANGED <<events, stored, expires, attempt, admitted, returned>>

LimitNext ==
    \/ LimitTick
    \/ \E i \in Attempts, k \in AccountKeys, d \in AddressKeys : ChargeAccount(i, k, d)
    \/ \E i \in Attempts : ChargeAddress(i) \/ Wrong(i) \/ Right(i) \/ GiveBack(i)

LimitSpec == LimitInit /\ [][LimitNext]_limitVars

-----------------------------------------------------------------------------
(* Properties.                                                             *)

\* The places in s that fall into the window of k from t on.
Within(s, t, k) == {i \in 1..Len(s) : t <= s[i] /\ s[i] < t + WindowOf(k)}

\* "Active budgets are never evicted to make room", and a correct password gives
\* back one slot of its address: within any window no budget admits more than
\* its limit and the slots that were given back in that window, however many
\* keys compete for the store and whenever the clean-up runs.
BudgetIsKept ==
    \A k \in Keys, t \in 0..time :
        Cardinality(Within(admitted[k], t, k)) <= MaxAttempts + Cardinality(Within(returned[k], t, k))

-----------------------------------------------------------------------------
(* The inductive invariant of the budgets.                                 *)

\* What the limiter knows of a key.
Bucket(k) == IF k \in stored THEN events[k] ELSE <<>>

\* The places of a sequence of times that are not before t.
Since(s, t) == {i \in 1..Len(s) : t <= s[i]}

\* Nothing is dated later than now.
DatedByNow ==
    \A k \in Keys :
        /\ \A i \in 1..Len(admitted[k]) : admitted[k][i] <= time
        /\ \A i \in 1..Len(returned[k]) : returned[k][i] <= time

\* A budget does not expire before the slots in it.
ExpiresLast ==
    \A k \in stored : \A i \in 1..Len(events[k]) : events[k][i] + WindowOf(k) <= expires[k]

BucketsFit == \A k \in Keys : Len(Bucket(k)) <= MaxAttempts

\* In a window that is still open, what was admitted is in the bucket or was given
\* back.
SlotsAreAccounted ==
    \A k \in Keys, t \in 0..time : t + WindowOf(k) > time =>
        Cardinality(Since(admitted[k], t))
            <= Cardinality(Since(Bucket(k), t)) + Cardinality(Since(returned[k], t))

LimitIInv == LimitTypeOK /\ DatedByNow /\ ExpiresLast /\ BucketsFit /\ SlotsAreAccounted /\ BudgetIsKept
=============================================================================
