----------------------------- MODULE Correlation -----------------------------
(***************************************************************************)
(* detect_anomalies of src/app/ids.py: the attack-shaped findings that the *)
(* administrator's page and the maintenance loop compute from the audit    *)
(* table, in SQL, over a window that ends now.                             *)
(*                                                                         *)
(* Workers write the table with their own clocks, so that a row may carry  *)
(* a time before that of rows with a smaller id.  A finding is the account *)
(* or address it is about, with its counts.                                *)
(***************************************************************************)
EXTENDS Naturals, FiniteSets

CONSTANTS
    Kinds,         \* the events there are: [type, outcome, actor, ip], the accounts
                   \* numbered in the order of their ids
    NoActor,       \* an event without an account
    Unknown,       \* an address that is not known
    Window,        \* window_minutes
    Failures,      \* brute_force_threshold
    Accounts,      \* spray_account_threshold
    Denials,       \* idor_threshold
    Sources,       \* distributed_source_threshold
    Limit,         \* MAX_CORRELATION_FINDINGS
    MaxRecords,    \* bound: rows
    MaxMinute      \* bound: time

\* detect_anomalies refuses thresholds below one and fewer than two sources.
ASSUME CorrelationAssumption ==
    /\ IsFiniteSet(Kinds)
    /\ \A k \in Kinds : k = [type |-> k.type, outcome |-> k.outcome, actor |-> k.actor, ip |-> k.ip]
    /\ \A k \in Kinds : k.actor \in Nat
    /\ {Window, MaxRecords, MaxMinute} \subseteq Nat
    /\ {Failures, Accounts, Denials, Limit} \subseteq Nat \ {0}
    /\ Sources \in Nat /\ Sources >= 2

VARIABLES
    auditNow,
    auditRows      \* audit_events: [id, at] and a kind

correlationVars == <<auditNow, auditRows>>

CorrelationTypeOK ==
    /\ auditNow \in 0..MaxMinute
    /\ \A e \in auditRows : e.id \in 1..MaxRecords /\ e.at \in 0..MaxMinute /\ e.kind \in Kinds

CorrelationInit == auditNow = 0 /\ auditRows = {}

\* record_event, by a worker whose clock may be behind.
RecordRow(kind, at) ==
    /\ Cardinality(auditRows) < MaxRecords /\ at <= auditNow
    /\ auditRows' = auditRows \cup {[id |-> Cardinality(auditRows) + 1, at |-> at, kind |-> kind]}
    /\ UNCHANGED auditNow

WindowMoves ==
    /\ auditNow < MaxMinute
    /\ auditNow' = auditNow + 1
    /\ UNCHANGED auditRows

CorrelationNext == WindowMoves \/ \E kind \in Kinds, at \in 0..MaxMinute : RecordRow(kind, at)

CorrelationSpec == CorrelationInit /\ [][CorrelationNext]_correlationVars

-----------------------------------------------------------------------------
(* The rules over one address or one account.                              *)

InWindow == {e \in auditRows : e.at + Window >= auditNow}
Failed(e) == e.kind.outcome # "success"
FailedLogins == {e \in InWindow : e.kind.type = "login" /\ Failed(e)}
From(S, ip) == {e \in S : e.kind.ip = ip}
By(S, actor) == {e \in S : e.kind.actor = actor}
Ips(S) == {e.kind.ip : e \in S}
Actors(S) == {e.kind.actor : e \in S} \ {NoActor}

\* Rules 1 to 5 of detect_anomalies.
BruteForce == {ip \in Ips(FailedLogins) : Cardinality(From(FailedLogins, ip)) >= Failures}
Spray == {ip \in Ips(FailedLogins) : Cardinality(Actors(From(FailedLogins, ip))) >= Accounts}
Denied == {e \in InWindow : e.kind.type = "denied"}
IdorProbe == {a \in {e.kind.actor : e \in Denied} : Cardinality(By(Denied, a)) >= Denials}
MfaBruteForce == Cardinality({e \in InWindow : e.kind.type = "mfa" /\ Failed(e)}) >= Failures
AttackPattern == Ips({e \in InWindow : e.kind.type = "signature"})

-----------------------------------------------------------------------------
(* _authentication_correlations.                                           *)

\* Failed logins of an account, from addresses that are known.
Attempts(a) == {e \in By(FailedLogins, a) : e.kind.ip # Unknown}

Spread ==
    {a \in Actors(FailedLogins) : /\ Cardinality(Attempts(a)) >= Failures
                                  /\ Cardinality(Ips(Attempts(a))) >= Sources}

\* Most failures first, then by the account's id.
Ahead(a, b) ==
    \/ Cardinality(Attempts(a)) > Cardinality(Attempts(b))
    \/ Cardinality(Attempts(a)) = Cardinality(Attempts(b)) /\ a < b

Distributed == {a \in Spread : Cardinality({b \in Spread : Ahead(b, a)}) < Limit}

\* Completed sign-ins and failures of either step.
Signins == {e \in InWindow : e.kind.type \in {"login", "mfa"} /\ e.kind.actor # NoActor}

Earlier(e, f) == e.at < f.at \/ (e.at = f.at /\ e.id < f.id)
EarlierOrAt(e, f) == e = f \/ Earlier(e, f)

\* Mutation of Episode: a success counts for its own episode.
EpisodeThrough(e) == Cardinality({f \in By(Signins, e.kind.actor) : ~Failed(f) /\ EarlierOrAt(f, e)})

\* The sum of successes over the rows before this one (rows=(None, -1)).
Episode(e) == Cardinality({f \in By(Signins, e.kind.actor) : ~Failed(f) /\ Earlier(f, e)})

InEpisode(a, n) == {e \in By(Signins, a) : Episode(e) = n}

\* The episodes with enough failures and a success, by that success.
Qualifies(S) == Cardinality({e \in S : Failed(e)}) >= Failures /\ \E e \in S : ~Failed(e)

Episodes(a) == {n \in 0..MaxRecords : Qualifies(InEpisode(a, n))}

\* The latest of them for each account, and the latest Limit accounts.
SuccessOf(a, n) == CHOOSE e \in InEpisode(a, n) : ~Failed(e)
Latest(a) == CHOOSE n \in Episodes(a) : \A m \in Episodes(a) : EarlierOrAt(SuccessOf(a, m), SuccessOf(a, n))
Suspects == {a \in Actors(Signins) : Episodes(a) # {}}

SuccessAfterFailures ==
    {[actor |-> a, failures |-> Cardinality({e \in InEpisode(a, Latest(a)) : Failed(e)}),
      success |-> SuccessOf(a, Latest(a))] :
        a \in {b \in Suspects : Cardinality({c \in Suspects : Earlier(SuccessOf(b, Latest(b)),
                                                             SuccessOf(c, Latest(c)))}) < Limit}}

-----------------------------------------------------------------------------
(* Properties.                                                             *)

\* What an investigator would say of one account: a success that follows, with no
\* success in between, at least Failures failures inside the window.
FailuresBefore(s) ==
    {f \in By(Signins, s.kind.actor) :
        /\ Failed(f) /\ Earlier(f, s)
        /\ ~\E t \in By(Signins, s.kind.actor) : ~Failed(t) /\ Earlier(f, t) /\ Earlier(t, s)}

RunsEnded == {s \in Signins : ~Failed(s) /\ Cardinality(FailuresBefore(s)) >= Failures}

\* "A successful authentication ends its preceding failure sequence": whatever
\* the order in which the rows arrive, the episodes of the query are the runs of
\* failures that a success ended, each account is reported with its latest one
\* and with the length of that run, and as long as there is room none is missing.
EpisodesMatch ==
    /\ \A x \in SuccessAfterFailures :
          /\ x.success \in RunsEnded /\ x.success.kind.actor = x.actor
          /\ x.failures = Cardinality(FailuresBefore(x.success))
          /\ \A s \in By(RunsEnded, x.actor) : EarlierOrAt(s, x.success)
    /\ Cardinality(Actors(RunsEnded)) <= Limit =>
          Actors(RunsEnded) = {x.actor : x \in SuccessAfterFailures}
    /\ Cardinality(SuccessAfterFailures) <= Limit

\* Guessing at one account is seen however it is spread: with enough failures for
\* Sources - 1 addresses, either the account or one of the addresses is reported,
\* unless as many accounts as the report has room for are guessed at from enough
\* addresses and no less often.
GuessingIsSeen ==
    \A a \in Actors(FailedLogins) : Cardinality(Attempts(a)) >= Failures * (Sources - 1) =>
        \/ a \in Distributed
        \/ \E e \in Attempts(a) : e.kind.ip \in BruteForce
        \/ Cardinality({b \in Spread : Ahead(b, a)}) >= Limit

\* A finding cannot be buried: what is reported of an address or an account stays
\* reported whatever is recorded afterwards, until it leaves the window, as long
\* as there is room for it; an account whose sign-in followed failures stays with
\* that success or a later one, if what is recorded lies after it in time.
Buried ==
    auditNow' = auditNow /\ auditRows' # auditRows =>
        /\ BruteForce \subseteq BruteForce' /\ Spray \subseteq Spray'
        /\ IdorProbe \subseteq IdorProbe' /\ (MfaBruteForce => MfaBruteForce')
        /\ AttackPattern \subseteq AttackPattern'
        /\ Cardinality(Spread') <= Limit => Distributed \subseteq Distributed'
        /\ \A x \in SuccessAfterFailures :
              (Cardinality(Actors(Signins)) <= Limit /\ \A e \in auditRows' \ auditRows : Earlier(x.success, e)) =>
                  \E y \in SuccessAfterFailures' : y.actor = x.actor /\ EarlierOrAt(x.success, y.success)

\* "A successful authentication ends its preceding failure sequence": the episodes
\* of the correlation are those runs, guessing is seen, and nothing is buried.
EpisodesAreRuns ==
    /\ [](CorrelationTypeOK /\ EpisodesMatch /\ GuessingIsSeen)
    /\ [][Buried]_correlationVars
=============================================================================
