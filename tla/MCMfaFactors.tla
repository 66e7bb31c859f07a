---------------------------- MODULE MCMfaFactors ----------------------------
(***************************************************************************)
(* Model-checking instances of MfaFactors, with loads as in MCAuthSessions.*)
(***************************************************************************)
EXTENDS MfaFactors, TLC

CONSTANTS Loads, r1, r2, c1, c2, k1, k2

VARIABLE load

Bounds == [
    \* Two requests guess on one challenge until the account is locked, and on.
    guessing |-> [failed |-> 4, secrets |-> 1, version |-> 2, challenges |-> {c1},
                  inflight |-> 2, time |-> 4, codes |-> {k1}],
    \* Two challenges, right and wrong codes, and recovery codes, at once.
    racing |-> [failed |-> 2, secrets |-> 1, version |-> 2, challenges |-> {c1, c2},
                inflight |-> 2, time |-> 2, codes |-> {k1}],
    \* The password and the account change under a request.
    changing |-> [failed |-> 1, secrets |-> 1, version |-> 4, challenges |-> {c1},
                  inflight |-> 2, time |-> 2, codes |-> {k1}],
    \* The second factor is turned off and set up again under a request.
    enrolling |-> [failed |-> 0, secrets |-> 2, version |-> 4, challenges |-> {c1},
                   inflight |-> 1, time |-> 3, codes |-> {k1, k2}]]

Bound == Bounds[load]

\* The step stays inside the load.
Within ==
    /\ now' <= Bound.time
    /\ acct'.ver <= Bound.version
    /\ acct'.failed <= Bound.failed
    /\ secrets' <= Bound.secrets
    /\ Cardinality({r \in Requests : req'[r].pc # "idle"}) <= Bound.inflight
    /\ \A c \in Challenges : challenge'[c].state # "new" => c \in Bound.challenges
    /\ \A k \in Codes : code'[k] = "unused" => k \in Bound.codes
    /\ UNCHANGED load

MCInit == Init /\ load \in Loads

MCNext ==
    \/ Tick /\ Within
    \/ MfaEnroll /\ Within
    \/ ChangePassword /\ Within
    \/ ConfirmPasswordReset /\ Within
    \/ \E active \in BOOLEAN : UpdateUserStatus(active) /\ Within
    \/ \E f \in Totps, K \in SUBSET Codes : MfaActivate(f, K) /\ Within
    \/ \E f \in Factors : MfaDisable(f) /\ Within
    \/ \E f \in Factors : StepUp(f) /\ Within
    \/ \E c \in Challenges : Login(c) /\ Within
    \/ \E c \in Challenges : Sweep(c) /\ Within
    \/ \E r \in Requests, c \in Challenges : PresentChallenge(r, c) /\ Within
    \/ \E r \in Requests, f \in Factors \cup {NoFactor}, familiar \in BOOLEAN :
          (f = NoFactor => Bound.failed > 0) /\ ReadAccount(r, f, familiar) /\ Within
    \/ \E r \in Requests : SignIn(r) /\ Within
    \/ \E r \in Requests : RecordMfaFailure(r) /\ Within
    \/ \E r \in Requests : Abandon(r) /\ Within

MCSpec == MCInit /\ [][MCNext]_<<vars, load>>

\* No definition tells two requests apart.
Symmetry == Permutations(Requests)
=============================================================================
