----------------------------- MODULE LoginGuard ------------------------------
(***************************************************************************)
(* The password step of one account without a second factor (login and     *)
(* finish_sign_in of src/app/main.py): smart lockout, recognition of       *)
(* browsers by device token (account_security.py) and the comparison of    *)
(* places (sign_in_risk.py).                                               *)
(*                                                                         *)
(* A request is assessed against the audit trail before it takes the       *)
(* account lock, and decided after.  The budgets of the limiter are those  *)
(* of RateLimits; a request they refuse never reaches the decision.        *)
(***************************************************************************)
EXTENDS Naturals, Sequences, FiniteSets

CONSTANTS
    LoginRequests, Nets, Families,
    Place,           \* Place[n]: where the GeoIP database puts a network
    NoPlace,
    FailedLimit,     \* login_max_attempts
    Lockout,         \* login_lockout_seconds
    HistoryLife,     \* sign_in_history_days
    TokenLife,       \* of a device token
    TravelTime,      \* how long two places are too far apart
    MaxSignIns,      \* bound: completed sign-ins
    FailedBound,     \* bound: failures counted
    LastTime         \* bound: time

ASSUME LoginGuardAssumption ==
    /\ Lockout \in Nat /\ HistoryLife \in Nat /\ TokenLife \in Nat /\ FailedLimit \in Nat
    /\ MaxSignIns \in Nat /\ LastTime \in Nat

VARIABLES
    loginClock,
    failed,          \* failed_login_attempts
    lockedUntil,     \* 0: no lock
    history,         \* audit events of completed sign-ins
    tokens,          \* device tokens in browsers: their id and time
    assessed         \* requests between the assessment and the account lock

guardVars == <<loginClock, failed, lockedUntil, history, tokens, assessed>>

NoDevice == 0
NoLogin == [step |-> "free"]

\* A row: its network, browser family and time, the device_ref if the client is
\* one that has them, what it was announced as, and (history) how many rows there
\* were when the request was assessed.
SignInEvent ==
    [net : Nets, family : Families, at : 0..LastTime, ref : 0..MaxSignIns + 1, token : BOOLEAN,
     alerts : SUBSET {"new_device", "travel"}, after : 0..MaxSignIns]

\* A request that was assessed: what it brought, and how its source was judged.
AssessedLogin ==
    [step : {"assessed"}, net : Nets, family : Families, device : 0..MaxSignIns + 1,
     right : BOOLEAN, rows : Nat,
     source : [hasHistory : BOOLEAN, knownIp : BOOLEAN, knownDevice : BOOLEAN, trusted : BOOLEAN]]

GuardTypeOK ==
    /\ loginClock \in 0..LastTime /\ failed \in Nat /\ lockedUntil \in Nat
    /\ history \in Seq(SignInEvent)
    /\ tokens \subseteq [device : 1..MaxSignIns + 1, issued : 0..LastTime]
    /\ assessed \in [LoginRequests -> AssessedLogin \cup {NoLogin}]

\* An account without sign-ins, or with one from before there were device tokens.
GuardInit ==
    /\ loginClock = 0 /\ failed = 0 /\ lockedUntil = 0 /\ tokens = {}
    /\ \/ history = <<>>
       \/ \E n \in Nets, f \in Families :
             history = <<[net |-> n, family |-> f, at |-> 0, ref |-> NoDevice, token |-> FALSE,
                          alerts |-> {}, after |-> 0]>>
    /\ assessed = [r \in LoginRequests |-> NoLogin]

Completed == {history[i] : i \in 1..Len(history)}
RecentSignIns == {h \in Completed : h.at + HistoryLife >= loginClock}

\* DeviceTokenService.verify: the id in a token of this account that is not too old.
Verified(t) == IF t.issued + TokenLife >= loginClock THEN t.device ELSE NoDevice

\* assess_sign_in_source.
KnownDevice(device, family) ==
    \/ device # NoDevice
    \/ /\ \A h \in RecentSignIns : h.ref = NoDevice
       /\ \E h \in RecentSignIns : h.family = family

Source(net, device, family) ==
    [hasHistory |-> RecentSignIns # {}, knownIp |-> \E h \in RecentSignIns : h.net = net,
     knownDevice |-> KnownDevice(device, family), trusted |-> device # NoDevice]

Familiar(s) == s.knownIp \/ s.trusted

IsNewDevice(s) == s.hasHistory /\ ~s.knownDevice

\* login before the account lock.
Assess(r, net, family, device, right) ==
    /\ assessed[r] = NoLogin
    /\ device = NoDevice \/ \E t \in tokens : device = Verified(t)
    /\ assessed' = [assessed EXCEPT ![r] = [step |-> "assessed", net |-> net, family |-> family,
                                          device |-> device, right |-> right, rows |-> Len(history),
                                          source |-> Source(net, device, family)]]
    /\ UNCHANGED <<loginClock, failed, lockedUntil, history, tokens>>

LockActive == lockedUntil > loginClock

\* Mutation of IsLocked: the lock refuses familiar sources too.
LockedForAll(s) == LockActive

IsLocked(s) == LockActive /\ ~Familiar(s)

\* A lock that has run out is cleared with its count by the next request.
Count == IF lockedUntil # 0 /\ ~LockActive THEN 0 ELSE failed
Lock == IF LockActive THEN lockedUntil ELSE 0

\* login after it: a wrong password, or a source that is locked out.
RefuseLogin(r) ==
    LET q == assessed[r]
    IN  /\ q.step = "assessed"
        /\ ~q.right \/ IsLocked(q.source)
        /\ IF IsLocked(q.source) THEN UNCHANGED <<failed, lockedUntil>>
           ELSE /\ Count < FailedBound
                /\ failed' = Count + 1
                /\ lockedUntil' = IF Count + 1 >= FailedLimit THEN loginClock + Lockout ELSE Lock
        /\ assessed' = [assessed EXCEPT ![r] = NoLogin]
        /\ UNCHANGED <<loginClock, history, tokens>>

\* SignInRiskService.assess: the last row with a place is the one compared; a row
\* from the same network ends the search.
Travel(net) ==
    LET Telling == {i \in 1..Len(history) : /\ history[i].at + HistoryLife >= loginClock
                                            /\ history[i].net = net \/ Place[history[i].net] # NoPlace}
        Last == CHOOSE i \in Telling : \A j \in Telling : j <= i
    IN  /\ Place[net] # NoPlace /\ Telling # {}
        /\ history[Last].net # net
        /\ Place[history[Last].net] # Place[net]
        /\ loginClock < history[Last].at + TravelTime

\* An active lock is not lifted.
AfterSuccess == IF LockActive THEN <<failed, lockedUntil>> ELSE <<0, 0>>

\* A random id, which no device had before.
NewDeviceId == Len(history) + 1

\* finish_sign_in: the bearer, the row, and the alerts, in one commit; a device
\* token for the browser.
FinishSignIn(r) ==
    LET q == assessed[r]
        d == IF q.device # NoDevice THEN q.device ELSE NewDeviceId
    IN  /\ q.step = "assessed" /\ Len(history) < MaxSignIns
        /\ q.right /\ ~IsLocked(q.source)
        /\ failed' = AfterSuccess[1] /\ lockedUntil' = AfterSuccess[2]
        /\ history' = Append(history,
              [net |-> q.net, family |-> q.family, at |-> loginClock, ref |-> d,
               token |-> q.device # NoDevice,
               alerts |-> (IF IsNewDevice(q.source) THEN {"new_device"} ELSE {})
                          \cup (IF Travel(q.net) THEN {"travel"} ELSE {}),
               after |-> q.rows])
        /\ tokens' = tokens \cup {[device |-> d, issued |-> loginClock]}
        /\ assessed' = [assessed EXCEPT ![r] = NoLogin]
        /\ UNCHANGED loginClock

\* password_reset: a proven mailbox lifts the lock.
PasswordReset ==
    /\ failed' = 0 /\ lockedUntil' = 0 /\ failed # 0
    /\ UNCHANGED <<loginClock, history, tokens, assessed>>

GuardTick ==
    /\ loginClock < LastTime
    /\ loginClock' = loginClock + 1
    /\ UNCHANGED <<failed, lockedUntil, history, tokens, assessed>>

GuardNext ==
    \/ GuardTick \/ PasswordReset
    \/ \E r \in LoginRequests :
          \/ RefuseLogin(r) \/ FinishSignIn(r)
          \/ \E n \in Nets, f \in Families, d \in 0..MaxSignIns + 1, right \in BOOLEAN : Assess(r, n, f, d, right)

GuardSpec == GuardInit /\ [][GuardNext]_guardVars

-----------------------------------------------------------------------------
(* Properties.                                                             *)

\* "Failures from unfamiliar addresses still lock the account, but they cannot
\* lock the owner out of the networks they routinely use": a right password is
\* refused only to a source that was not familiar; and "an active lock is never
\* lifted by a familiar sign-in": until it runs out or the mailbox is proved, no
\* request shortens it and no stranger is let in.
SmartStep ==
    /\ \A r \in LoginRequests :
          assessed[r].step = "assessed" /\ assessed'[r] = NoLogin /\ history' = history =>
              ~(assessed[r].right /\ Familiar(assessed[r].source))
    /\ LockActive /\ (\E r \in LoginRequests : assessed'[r] # assessed[r]) =>
          /\ lockedUntil' >= lockedUntil
          /\ Len(history') > Len(history) =>
                LET h == history'[Len(history')]
                IN  h.token \/ \E i \in 1..h.after : history[i].net = h.net

\* The announcement of a row, by those before it.
IsAnnounced(rows, i) ==
    LET h == rows[i]
        known(j) == rows[j].at + HistoryLife >= h.at /\ rows[j].ref # NoDevice
    IN  /\ h.token => \E j \in 1..i - 1 : rows[j].ref = h.ref
        /\ ~h.token /\ h.ref # NoDevice /\ (\E j \in 1..h.after : known(j)) => "new_device" \in h.alerts

\* A browser without a token that signs in is announced to the owner, unless
\* nothing had been completed when its request began: no order of requests, and
\* no copy of the owner's browser family, hides it.  A token is evidence of a
\* sign-in that was completed.
NewBrowsersAreAnnounced == \A i \in 1..Len(history) : IsAnnounced(history, i)

\* Both, with the types.
LockoutIsSmart == [](GuardTypeOK /\ NewBrowsersAreAnnounced) /\ [][SmartStep]_guardVars

-----------------------------------------------------------------------------
(* The inductive invariant.                                                *)

\* A device token names the device of a completed sign-in.
TokensAreEarned == \A t \in tokens : \E j \in 1..Len(history) : history[j].ref = t.device

\* A sign-in was assessed against rows before it.
AssessedBefore == \A i \in 1..Len(history) : history[i].after < i

\* What was assessed is still so when the account is locked: sign-ins are only
\* added, and time only passes.
StillSo(q, rows, time) ==
    /\ q.rows <= Len(rows)
    /\ q.source.trusted <=> q.device # NoDevice
    /\ q.device # NoDevice => \E j \in 1..Len(rows) : rows[j].ref = q.device
    /\ q.source.knownIp => \E j \in 1..q.rows : rows[j].net = q.net
    /\ q.device = NoDevice
         /\ (\E j \in 1..q.rows : rows[j].at + HistoryLife >= time /\ rows[j].ref # NoDevice)
       => IsNewDevice(q.source)

AssessmentsHold ==
    \A r \in LoginRequests : assessed[r] # NoLogin => StillSo(assessed[r], history, loginClock)

\* No lock outlasts one that would begin now.
LocksAreBounded == lockedUntil <= loginClock + Lockout

GuardIInv ==
    /\ GuardTypeOK /\ NewBrowsersAreAnnounced
    /\ TokensAreEarned /\ AssessedBefore /\ AssessmentsHold /\ LocksAreBounded
=============================================================================
