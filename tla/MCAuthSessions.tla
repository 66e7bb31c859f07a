--------------------------- MODULE MCAuthSessions ---------------------------
(***************************************************************************)
(* Model-checking instances of AuthSessions.  One run explores several     *)
(* loads: a load is a mix of requests with its own bounds, chosen at the   *)
(* start, so that every mix is explored further than their union could be. *)
(***************************************************************************)
EXTENDS AuthSessions, TLC

CONSTANT Loads      \* the loads of a run, by name

VARIABLE load

Bounds == [
    \* A device rotated, used and signed out from two requests at once.
    rotation |-> [kinds |-> {"refresh", "logout", "mutate"}, accounts |-> Admins,
                  inflight |-> 2, devices |-> 1, version |-> 1, time |-> 1, sweep |-> FALSE],
    \* Two devices of an account whose other sessions are being ended.
    closing |-> [kinds |-> {"refresh", "revoke_session", "logout_all", "change_password"},
                 accounts |-> Admins, inflight |-> 2, devices |-> 2, version |-> 2,
                 time |-> 0, sweep |-> FALSE],
    \* Two accounts, each of which may be an administrator, acting on each other.
    administration |-> [kinds |-> AdminKinds, accounts |-> Users, inflight |-> 2,
                        devices |-> 2, version |-> 2, time |-> 0, sweep |-> FALSE],
    \* The retention sweep deleting rows under requests that have read them.
    sweeping |-> [kinds |-> MetadataKinds, accounts |-> Admins, inflight |-> 1,
                  devices |-> 1, version |-> 2, time |-> 2, sweep |-> TRUE],
    \* A device rotated, used and stepped up until every deadline has passed.
    timed |-> [kinds |-> {"refresh", "mutate", "step_up"}, accounts |-> Admins,
               inflight |-> 1, devices |-> 1, version |-> 1, time |-> 3, sweep |-> FALSE]]

Bound == Bounds[load]

InFlight == {r \in Requests : req[r].pc \notin Done}
Devices  == {j \in Jtis : Minted(j) /\ session[j].fam = j}

\* The step stays inside the Bound.
Within ==
    /\ now' <= Bound.time
    /\ Cardinality(InFlight') <= Bound.inflight
    /\ Cardinality(Devices') <= Bound.devices
    /\ \A u \in Users : /\ user'[u].ver <= Bound.version
                        /\ user'[u].status # "new" => u \in Bound.accounts
    /\ UNCHANGED load

MCInit == Init /\ load \in Loads

MCNext ==
    \/ Tick /\ Within
    \/ \E u \in Users, n \in Jtis : SignIn(u, n) /\ Within
    \/ \E u \in Users : Register(u) /\ Within
    \/ \E u \in Users : ConfirmPasswordReset(u) /\ Within
    \/ Bound.sweep /\ \E S, D \in SUBSET Jtis : Purge(S, D) /\ Within
    \/ \E r \in Requests, k \in Bound.kinds, j \in Jtis : Arrive(r, k, j) /\ Within
    \/ \E r \in Requests : Abandon(r) /\ Within
    \/ \E r \in Requests : ReadSession(r) /\ Within
    \/ \E r \in Requests : Admit(r) /\ Within
    \/ \E r \in Requests : DetectReuse(r) /\ Within
    \/ \E r \in Requests : Touch(r) /\ Within
    \/ \E r \in Requests : ExpireOnUse(r) /\ Within
    \/ \E r \in Requests : Decode(r) /\ Within
    \/ \E r \in Requests, n \in Jtis : RefreshSession(r, n) /\ Within
    \/ \E r \in Requests : Logout(r) /\ Within
    \/ \E r \in Requests : LogoutWithoutRow(r) /\ Within
    \/ \E r \in Requests, v \in Jtis : RevokeAuthSession(r, v) /\ Within
    \/ \E r \in Requests : EndAllSessions(r) /\ Within
    \/ \E r \in Requests : StepUp(r) /\ Within
    \/ \E r \in Requests : Mutate(r) /\ Within
    \/ \E r \in Requests, u \in Users, role \in Roles : AdminCreateUser(r, u, role) /\ Within
    \/ \E r \in Requests, u \in Users, role \in Roles : AdminChangeRole(r, u, role) /\ Within
    \/ \E r \in Requests, u \in Users : AdminDeleteUser(r, u) /\ Within
    \/ \E r \in Requests, u \in Users, status \in {"active", "suspended"} :
          UpdateUserStatus(r, u, status) /\ Within

MCSpec == MCInit /\ [][MCNext]_<<vars, load>>

\* No definition tells two requests, or two token ids, apart.
Symmetry == Permutations(Requests) \cup Permutations(Jtis)
=============================================================================
