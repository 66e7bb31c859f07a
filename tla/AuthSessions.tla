---------------------------- MODULE AuthSessions ----------------------------
(***************************************************************************)
(* The life of bearer sessions: sign-in, rotation, revocation, expiry and  *)
(* the administration of accounts (src/app/main.py, create_app).           *)
(*                                                                         *)
(* A request runs in two transactions.  The dependency current_user reads  *)
(* the account, the session row and the denylist WITHOUT locks, may lock   *)
(* them to record activity, and commits.  The handler then starts a new    *)
(* transaction which takes the account row lock first; every writer of     *)
(* these rows takes that lock first, so the locked part of a handler is    *)
(* one action, while anything may happen between the reads, the commit of  *)
(* the dependency and the moment the handler gets the lock.                *)
(***************************************************************************)
EXTENDS Naturals, FiniteSets

CONSTANTS
    Users,          \* account ids
    Admins,         \* the accounts seeded as administrators
    Roles,          \* roles an account may have, "admin" among them
    Jtis,           \* token ids that sign-in and rotation may mint
    NoJti,          \* the bearer of a request slot that is free
    Requests,       \* requests in flight at once
    Kinds,          \* the kinds of request that clients send
    AccessLife,     \* access_token_minutes
    AbsoluteLife,   \* session_absolute_hours
    IdleLife,       \* session_idle_minutes
    StepUpLife,     \* step_up_minutes
    ReuseGrace,     \* token_reuse_grace_seconds
    MaxTime,        \* bound: the clock stops here
    LastSignIn,     \* bound: nobody signs in after this time
    MaxDevices,     \* bound on the number of sign-ins
    MaxVersion,     \* bound on token_version
    SweepBatch      \* batch_size of the retention sweep (0: no sweep runs)

MetadataKinds == {"refresh", "logout"}
AccountKinds  == {"mutate", "step_up", "revoke_session", "logout_all", "change_password"}
AdminKinds    == {"create_user", "delete_user", "change_role", "update_status"}
AllKinds      == MetadataKinds \cup AccountKinds \cup AdminKinds

ASSUME AccountAssumption ==
    /\ Admins \subseteq Users
    /\ Admins # {}
    /\ {"admin", "user"} \subseteq Roles
    /\ Kinds \subseteq AllKinds
    /\ NoJti \notin Jtis

ASSUME PolicyAssumption ==
    /\ AccessLife \in Nat \ {0}
    /\ AbsoluteLife \in Nat \ {0}
    /\ IdleLife \in Nat \ {0}
    /\ StepUpLife \in Nat
    /\ ReuseGrace \in Nat \ {0}

ASSUME BoundAssumption ==
    /\ MaxTime \in Nat
    /\ LastSignIn \in Nat
    /\ MaxDevices \in Nat
    /\ MaxVersion \in Nat \ {0}
    /\ SweepBatch \in Nat

VARIABLES
    now,        \* utcnow(), shared by the workers
    user,       \* users: status, token_version, role
    jwt,        \* the claims of every minted access token
    session,    \* auth_sessions, by jti
    denylist,   \* revoked_tokens, by jti
    req,        \* requests in flight
    closed,     \* history: families that an answered request ended
    device      \* history, by family: last use and last proof of identity

vars == <<now, user, jwt, session, denylist, req, closed, device>>

Pcs == {"idle", "session", "denylist", "touch", "reuse", "decode", "lock", "ok"}
Done == {"idle", "ok"}
Reasons == {"none", "refresh", "logout", "session_revoke", "token_reuse", "expired"}

Account == [status : {"new", "active", "suspended", "deleted"}, ver : Nat, role : Roles]
Claims  == [sub : Users, ver : Nat, role : Roles, iat : Nat]
Session == [state : {"none", "live", "revoked", "gone"}, fam : Jtis \cup {NoJti},
            root : Nat, act : Nat, step : Nat]
Denial  == [reason : Reasons, at : Nat]
Request == [pc : Pcs, kind : AllKinds, tok : Jtis \cup {NoJti},
            account : {"ok", "stale", "missing"}, seen : Session]

Minted(j) == session[j].state # "none"

TypeOK ==
    /\ now \in Nat
    /\ user \in [Users -> Account]
    /\ jwt \in [Jtis -> Claims]
    /\ session \in [Jtis -> Session]
    /\ denylist \in [Jtis -> Denial]
    /\ req \in [Requests -> Request]
    /\ \A r \in Requests : req[r].pc \notin Done => req[r].tok \in Jtis
    /\ \A j \in Jtis : Minted(j) => session[j].fam \in Jtis
    /\ closed \in SUBSET Jtis
    /\ device \in [Jtis -> [used : Nat, proved : Nat]]

\* A row that does not exist yet; its other fields mean nothing.
NoSession == [state |-> "none", fam |-> NoJti, root |-> 0, act |-> 0, step |-> 0]
\* A deleted row; its family is kept for the history only.
Gone(s) == [NoSession EXCEPT !.state = "gone", !.fam = s.fam]
NotDenied == [reason |-> "none", at |-> 0]
NoRequest == [pc |-> "idle", kind |-> "logout", tok |-> NoJti,
              account |-> "missing", seen |-> NoSession]

\* The administrators exist from the start (bootstrap, seed); nobody else does.
Init ==
    /\ now = 0
    /\ user = [u \in Users |-> [status |-> IF u \in Admins THEN "active" ELSE "new",
                                ver |-> 1,
                                role |-> IF u \in Admins THEN "admin" ELSE "user"]]
    /\ jwt = [j \in Jtis |-> [sub |-> CHOOSE u \in Users : TRUE, ver |-> 0,
                              role |-> "user", iat |-> 0]]
    /\ session = [j \in Jtis |-> NoSession]
    /\ denylist = [j \in Jtis |-> NotDenied]
    /\ req = [r \in Requests |-> NoRequest]
    /\ closed = {}
    /\ device = [j \in Jtis |-> [used |-> 0, proved |-> 0]]

-----------------------------------------------------------------------------
(* Helpers the handlers share.                                             *)

Exists(s) == s.state \in {"live", "revoked"}
Live(j) == session[j].state = "live"
Expiry(j) == jwt[j].iat + AccessLife

\* token_service.decode: the signature always holds here, the deadline may not.
Decodes(j) == Minted(j) /\ now < Expiry(j)

\* auth_session_expiry_reason, for the row s of token j.
Expired(j, s) ==
    \/ now >= Expiry(j)
    \/ now >= s.root + AbsoluteLife
    \/ now >= s.act + IdleLife

\* lock_user_row: the row lock is taken only on an active account.
LockUser(u) == user[u].status = "active"

\* lock_auth_session_row: the conditional update claims an unrevoked row.
LockAuthSession(j) == Live(j)

VersionCurrent(j) == jwt[j].ver = user[jwt[j].sub].ver
Denied(j) == denylist[j].reason # "none"

\* require_recent_step_up.
RecentStepUp(j) == now <= session[j].step + StepUpLife

\* Mutation of BearerLocked: under the lock only the account is rechecked, the
\* session row and the denylist are taken from current_user's unlocked reads.
BearerAsAdmitted(j) == LockUser(jwt[j].sub) /\ VersionCurrent(j)

\* The part of lock_account_mutation that refresh and current_user repeat.
BearerLocked(j) ==
    /\ LockUser(jwt[j].sub)
    /\ VersionCurrent(j)
    /\ LockAuthSession(j)
    /\ ~Denied(j)

\* lock_account_mutation without step-up.
LockAccountMutation(j) == BearerLocked(j) /\ ~Expired(j, session[j])

\* Mutation of LockAdminMutation: the authority seen by admin_user is trusted.
AdminAsAdmitted(j) == LockUser(jwt[j].sub)

\* lock_admin_mutation: the actor's authority, rechecked under the locks.
LockAdminMutation(j) ==
    /\ LockAccountMutation(j)
    /\ user[jwt[j].sub].role = "admin"
    /\ RecentStepUp(j)

LiveOfAccount(u) == {j \in Jtis : Live(j) /\ jwt[j].sub = u}
LiveOfFamily(u, f) == {j \in LiveOfAccount(u) : session[j].fam = f}

\* Set revoked_at on the rows of S.
Revoke(S) == [j \in Jtis |-> IF j \in S THEN [session[j] EXCEPT !.state = "revoked"]
                                        ELSE session[j]]

\* Add a denylist row for the tokens of S that have none.
Deny(S, reason) == [j \in Jtis |-> IF j \in S /\ ~Denied(j)
                                     THEN [reason |-> reason, at |-> now]
                                     ELSE denylist[j]]

\* revoke_all_auth_sessions: rows revoked, token_version bumped, no denylist row.
RevokeAllAuthSessions(u) == Revoke(LiveOfAccount(u))
BumpVersion(u) == [user EXCEPT ![u].ver = @ + 1]

\* History: the families of an account's tokens, whatever became of them.
FamiliesOf(u) == {session[j].fam : j \in {i \in Jtis : Minted(i) /\ jwt[i].sub = u}}

\* Mutation of ExpireAuthSession: the token is denylisted, its row is not revoked.
ExpireTokenOnly(j) ==
    /\ session' = session
    /\ denylist' = Deny({j}, "expired")

\* expire_auth_session.
ExpireAuthSession(j) ==
    /\ session' = Revoke({j})
    /\ denylist' = Deny({j}, "expired")

\* issue_access_session: mint token n for account u; rows holds the other rows.
IssueAccessSession(n, u, row, rows) ==
    /\ session[n].state = "none"
    /\ jwt' = [jwt EXCEPT ![n] = [sub |-> u, ver |-> user[u].ver,
                                  role |-> user[u].role, iat |-> now]]
    /\ session' = [rows EXCEPT ![n] = row]

\* The request ends: "ok" is a 2xx answer, "idle" a refusal or an error.
Answer(r, pc) == req' = [req EXCEPT ![r] = [NoRequest EXCEPT !.pc = pc]]
Goto(r, pc) == req' = [req EXCEPT ![r].pc = pc, ![r].seen = NoSession]

-----------------------------------------------------------------------------
(* Sign-in, registration and the operations that need no bearer.            *)

\* The row a sign-in creates: its own family, every clock started now.
SignInRow(n) == [state |-> "live", fam |-> n, root |-> now, act |-> now, step |-> now]

\* login without a second factor, up to finish_sign_in: the account lock is
\* held from the password check to the commit of the new session.
SignIn(u, n) ==
    /\ now <= LastSignIn
    /\ Cardinality({j \in Jtis : Minted(j) /\ session[j].fam = j}) < MaxDevices
    /\ user[u].status = "active"
    /\ IssueAccessSession(n, u, SignInRow(n), session)
    /\ device' = [device EXCEPT ![n] = [used |-> now, proved |-> now]]
    /\ UNCHANGED <<now, user, denylist, req, closed>>

Register(u) ==
    /\ user[u].status = "new"
    /\ user' = [user EXCEPT ![u].status = "active"]
    /\ UNCHANGED <<now, jwt, session, denylist, req, closed, device>>

\* confirm_password_reset, once the mailed code is accepted.
ConfirmPasswordReset(u) ==
    /\ LockUser(u)
    /\ user[u].ver < MaxVersion
    /\ user' = BumpVersion(u)
    /\ session' = RevokeAllAuthSessions(u)
    /\ closed' = closed \cup FamiliesOf(u)
    /\ UNCHANGED <<now, jwt, denylist, req, device>>

\* purge_expired_sessions: a bounded batch of dead session and denylist rows.
Purge(S, D) ==
    /\ S \cup D # {}
    /\ Cardinality(S) <= SweepBatch /\ Cardinality(D) <= SweepBatch
    /\ \A j \in S : Exists(session[j]) /\ now >= Expiry(j)
    /\ \A j \in D : Denied(j) /\ now >= Expiry(j)
    /\ session' = [j \in Jtis |-> IF j \in S THEN Gone(session[j]) ELSE session[j]]
    /\ denylist' = [j \in Jtis |-> IF j \in D THEN NotDenied ELSE denylist[j]]
    /\ UNCHANGED <<now, user, jwt, req, closed, device>>

Tick ==
    /\ now < MaxTime
    /\ now' = now + 1
    /\ UNCHANGED <<user, jwt, session, denylist, req, closed, device>>

-----------------------------------------------------------------------------
(* current_user: three unlocked reads, a decision, and a locked touch.     *)

\* Decode the bearer and read the account row.
Arrive(r, k, j) ==
    /\ req[r].pc \in Done
    /\ Decodes(j)
    /\ req' = [req EXCEPT ![r] =
                 [pc |-> "session", kind |-> k, tok |-> j, seen |-> NoSession,
                  account |-> IF user[jwt[j].sub].status = "deleted" THEN "missing"
                              ELSE IF user[jwt[j].sub].status = "active" /\ VersionCurrent(j)
                              THEN "ok" ELSE "stale"]]
    /\ UNCHANGED <<now, user, jwt, session, denylist, closed, device>>

ReadSession(r) ==
    /\ req[r].pc = "session"
    /\ req' = [req EXCEPT ![r].pc = "denylist", ![r].seen = session[req[r].tok]]
    /\ UNCHANGED <<now, user, jwt, session, denylist, closed, device>>

\* What the reads said: admitted, rejected, or a rotated token coming back
\* after the grace period.
Admit(r) ==
    LET j == req[r].tok
        s == req[r].seen
        admitted == req[r].account = "ok" /\ s.state = "live" /\ ~Denied(j)
        reused == /\ denylist[j].reason = "refresh"
                  /\ req[r].account # "missing" /\ Exists(s)
                  /\ now >= denylist[j].at + ReuseGrace
    IN  /\ req[r].pc = "denylist"
        /\ \/ admitted /\ req[r].kind \in MetadataKinds /\ ~Expired(j, s) /\ Goto(r, "decode")
           \/ admitted /\ (req[r].kind \notin MetadataKinds \/ Expired(j, s)) /\ Goto(r, "touch")
           \/ ~admitted /\ reused /\ req' = [req EXCEPT ![r].pc = "reuse"]
           \/ ~admitted /\ ~reused /\ Answer(r, "idle")
        /\ UNCHANGED <<now, user, jwt, session, denylist, closed, device>>

\* detect_rotated_token_reuse: close the family the token was rotated out of.
DetectReuse(r) ==
    LET u == jwt[req[r].tok].sub
        f == req[r].seen.fam
    IN  /\ req[r].pc = "reuse"
        /\ LockUser(u)
        /\ session' = Revoke(LiveOfFamily(u, f))
        /\ denylist' = Deny(LiveOfFamily(u, f), "token_reuse")
        /\ closed' = closed \cup {f}
        /\ Answer(r, "idle")
        /\ UNCHANGED <<now, user, jwt, device>>

\* The locked tail of current_user when the session is still good: record the
\* activity (not for metadata paths) and commit.  admin_user then reads the
\* role that was refreshed under the lock.
Touch(r) ==
    LET j == req[r].tok
        f == session[j].fam
    IN  /\ req[r].pc = "touch"
        /\ LockAccountMutation(j)
        /\ IF req[r].kind \in MetadataKinds
             THEN UNCHANGED <<session, device>>
             ELSE /\ session' = [session EXCEPT ![j].act = now]
                  /\ device' = [device EXCEPT ![f].used = now]
        /\ IF req[r].kind \in AdminKinds /\ user[jwt[j].sub].role # "admin"
             THEN Answer(r, "idle")
             ELSE Goto(r, "decode")
        /\ UNCHANGED <<now, user, jwt, denylist, closed>>

\* The same tail, and refresh_session, when a deadline passed while waiting.
ExpireOnUse(r) ==
    LET j == req[r].tok
    IN  /\ req[r].pc = "touch" \/ (req[r].pc = "lock" /\ req[r].kind = "refresh")
        /\ BearerLocked(j)
        /\ Expired(j, session[j])
        /\ ExpireAuthSession(j)
        /\ Answer(r, "idle")
        /\ UNCHANGED <<now, user, jwt, closed, device>>

-----------------------------------------------------------------------------
(* Handlers: decode the bearer again, wait for the account lock, recheck.  *)

Decode(r) ==
    /\ req[r].pc = "decode"
    /\ IF Decodes(req[r].tok) THEN Goto(r, "lock") ELSE Answer(r, "idle")
    /\ UNCHANGED <<now, user, jwt, session, denylist, closed, device>>

Handles(r, k) == req[r].pc = "lock" /\ req[r].kind = k

\* Mutation of RotatedRow: rotation counts as a new sign-in.
RotatedRowRestarted(s) == [s EXCEPT !.state = "live", !.root = now, !.act = now]

\* The successor's row: the clocks of the device are carried over.
RotatedRow(s) == [s EXCEPT !.state = "live"]

\* refresh_session: mint the successor, then revoke and denylist the bearer.
RefreshSession(r, n) ==
    LET j == req[r].tok
    IN  /\ Handles(r, "refresh")
        /\ LockAccountMutation(j)
        /\ IssueAccessSession(n, jwt[j].sub, RotatedRow(session[j]), Revoke({j}))
        /\ denylist' = Deny({j}, "refresh")
        /\ Answer(r, "ok")
        /\ UNCHANGED <<now, user, closed, device>>

\* logout: the bearer's row may already be revoked by a refresh that won the
\* lock; the family, its successor included, is revoked all the same.
Logout(r) ==
    LET j == req[r].tok
        u == jwt[j].sub
        f == session[j].fam
    IN  /\ Handles(r, "logout")
        /\ LockUser(u)
        /\ VersionCurrent(j)
        /\ Exists(session[j])
        /\ session' = Revoke(LiveOfFamily(u, f))
        /\ denylist' = Deny(LiveOfFamily(u, f) \cup {j}, "logout")
        /\ closed' = closed \cup {f}
        /\ Answer(r, "ok")
        /\ UNCHANGED <<now, user, jwt, device>>

\* logout when the retention sweep deleted the row since the dependency ran.
LogoutWithoutRow(r) ==
    LET j == req[r].tok
        u == jwt[j].sub
    IN  /\ Handles(r, "logout")
        /\ LockUser(u)
        /\ VersionCurrent(j)
        /\ ~Exists(session[j])
        /\ user[u].ver < MaxVersion
        /\ user' = BumpVersion(u)
        /\ session' = RevokeAllAuthSessions(u)
        /\ denylist' = Deny({j}, "logout")
        /\ closed' = closed \cup FamiliesOf(u)
        /\ Answer(r, "ok")
        /\ UNCHANGED <<now, jwt, device>>

\* revoke_auth_session: end the device session that token v belongs to.
RevokeAuthSession(r, v) ==
    LET u == jwt[req[r].tok].sub
        f == session[v].fam
    IN  /\ Handles(r, "revoke_session")
        /\ LockAccountMutation(req[r].tok) /\ RecentStepUp(req[r].tok)
        /\ Exists(session[v]) /\ jwt[v].sub = u
        /\ LiveOfFamily(u, f) # {}
        /\ session' = Revoke(LiveOfFamily(u, f))
        /\ denylist' = Deny(LiveOfFamily(u, f), "session_revoke")
        /\ closed' = closed \cup {f}
        /\ Answer(r, "ok")
        /\ UNCHANGED <<now, user, jwt, device>>

\* logout_all and change_password end every session of the account; the first
\* asks for a recent step-up, the second for the current password.
EndAllSessions(r) ==
    LET u == jwt[req[r].tok].sub
    IN  /\ Handles(r, "change_password")
           \/ (Handles(r, "logout_all") /\ RecentStepUp(req[r].tok))
        /\ LockAccountMutation(req[r].tok)
        /\ user[u].ver < MaxVersion
        /\ user' = BumpVersion(u)
        /\ session' = RevokeAllAuthSessions(u)
        /\ closed' = closed \cup FamiliesOf(u)
        /\ Answer(r, "ok")
        /\ UNCHANGED <<now, jwt, denylist, device>>

\* step_up_authentication with the right password (and second factor).
StepUp(r) ==
    LET j == req[r].tok
    IN  /\ Handles(r, "step_up")
        /\ LockAccountMutation(j)
        /\ session' = [session EXCEPT ![j].step = now]
        /\ device' = [device EXCEPT ![session[j].fam].proved = now]
        /\ Answer(r, "ok")
        /\ UNCHANGED <<now, user, jwt, denylist, closed>>

\* Any data route guarded by lock_request_mutation.
Mutate(r) ==
    /\ Handles(r, "mutate")
    /\ LockAccountMutation(req[r].tok)
    /\ Answer(r, "ok")
    /\ UNCHANGED <<now, user, jwt, session, denylist, closed, device>>

-----------------------------------------------------------------------------
(* Administration of accounts, under lock_admin_mutation.                  *)

Administers(r, k) == Handles(r, k) /\ LockAdminMutation(req[r].tok)
Actor(r) == jwt[req[r].tok].sub
Present(u) == user[u].status \in {"active", "suspended"}

AdminCreateUser(r, u, role) ==
    /\ Administers(r, "create_user")
    /\ user[u].status = "new"
    /\ user' = [user EXCEPT ![u] = [status |-> "active", ver |-> 1, role |-> role]]
    /\ Answer(r, "ok")
    /\ UNCHANGED <<now, jwt, session, denylist, closed, device>>

\* The database deletes the account's session rows with it; denylist rows stay.
AdminDeleteUser(r, u) ==
    /\ Administers(r, "delete_user")
    /\ Present(u)
    /\ u # Actor(r)
    /\ user[u].role # "admin"
    /\ user' = [user EXCEPT ![u].status = "deleted"]
    /\ session' = [j \in Jtis |-> IF jwt[j].sub = u /\ Exists(session[j])
                                    THEN Gone(session[j]) ELSE session[j]]
    /\ closed' = closed \cup FamiliesOf(u)
    /\ Answer(r, "ok")
    /\ UNCHANGED <<now, jwt, denylist, device>>

AdminChangeRole(r, u, role) ==
    /\ Administers(r, "change_role")
    /\ Present(u)
    /\ u # Actor(r)
    /\ user[u].ver < MaxVersion
    /\ user' = [BumpVersion(u) EXCEPT ![u].role = role]
    /\ session' = RevokeAllAuthSessions(u)
    /\ closed' = closed \cup FamiliesOf(u)
    /\ Answer(r, "ok")
    /\ UNCHANGED <<now, jwt, denylist, device>>

\* update_user_status: suspend or reactivate; the status the account already
\* has changes nothing here (the E2EE memberships are not part of this module).
UpdateUserStatus(r, u, status) ==
    /\ Administers(r, "update_status")
    /\ Present(u)
    /\ ~(u = Actor(r) /\ status = "suspended")
    /\ IF user[u].status = status
         THEN UNCHANGED <<user, session, closed>>
         ELSE /\ user[u].ver < MaxVersion
              /\ user' = [BumpVersion(u) EXCEPT ![u].status = status]
              /\ session' = RevokeAllAuthSessions(u)
              /\ closed' = closed \cup FamiliesOf(u)
    /\ Answer(r, "ok")
    /\ UNCHANGED <<now, jwt, denylist, device>>

\* Every other way a request ends, none of which changes this state: a failed
\* recheck, a rate limit, a wrong password, a lost connection, a dead worker.
Abandon(r) ==
    /\ req[r].pc \notin Done
    /\ Answer(r, "idle")
    /\ UNCHANGED <<now, user, jwt, session, denylist, closed, device>>

-----------------------------------------------------------------------------

AdminHandler(r) ==
    \/ \E u \in Users, role \in Roles : AdminCreateUser(r, u, role) \/ AdminChangeRole(r, u, role)
    \/ \E u \in Users : AdminDeleteUser(r, u)
    \/ \E u \in Users, status \in {"active", "suspended"} : UpdateUserStatus(r, u, status)

Handler(r) ==
    \/ \E n \in Jtis : RefreshSession(r, n)
    \/ Logout(r) \/ LogoutWithoutRow(r)
    \/ \E v \in Jtis : RevokeAuthSession(r, v)
    \/ EndAllSessions(r) \/ StepUp(r) \/ Mutate(r)
    \/ AdminHandler(r)

RequestStep(r) ==
    \/ ReadSession(r) \/ Admit(r) \/ DetectReuse(r) \/ Touch(r) \/ ExpireOnUse(r)
    \/ Decode(r) \/ Handler(r)

Environment ==
    \/ \E u \in Users, n \in Jtis : SignIn(u, n)
    \/ \E u \in Users : Register(u) \/ ConfirmPasswordReset(u)
    \/ \E S, D \in SUBSET Jtis : Purge(S, D)
    \/ \E r \in Requests, k \in Kinds, j \in Jtis : Arrive(r, k, j)
    \/ \E r \in Requests : Abandon(r)

Next == Environment \/ Tick \/ \E r \in Requests : RequestStep(r)

Spec == Init /\ [][Next]_vars

-----------------------------------------------------------------------------
(* Properties.                                                             *)

\* refresh_session promises "at every moment a device has exactly one live
\* token": no interleaving of rotations, logouts and expiries leaves two
\* unrevoked rows in one family.
OneLiveTokenPerDevice ==
    \A i, j \in Jtis : Live(i) /\ Live(j) /\ session[i].fam = session[j].fam => i = j

\* An unrevoked row was minted under the account's present token_version and
\* role, and the account is active: suspension, deletion, role and password
\* changes leave nothing behind, even a session that was being minted.
LiveIsCurrent ==
    \A j \in Jtis : Live(j) => /\ user[jwt[j].sub].status = "active"
                               /\ jwt[j].ver = user[jwt[j].sub].ver
                               /\ jwt[j].role = user[jwt[j].sub].role

\* The denylist and the session rows agree: a denylisted token is never live.
DenylistedIsDead == \A j \in Jtis : Denied(j) => ~Live(j)

\* A device session that a logout, a revocation, a reset, an administrator or
\* the reuse detector has ended has no live token, even when a refresh of the
\* same token was in flight and won the account lock.
ClosedFamilyIsDead == \A j \in Jtis : Minted(j) /\ session[j].fam \in closed => ~Live(j)

\* The clocks of a live token are those of its device: the absolute cap counts
\* from the sign-in, the idle limit from the last real use, the step-up window
\* from the last proof; rotation restarts none of them.
ClocksFollowDevice ==
    \A j \in Jtis : Live(j) => LET f == session[j].fam
                               IN  /\ session[j].root = jwt[f].iat
                                   /\ session[j].act = device[f].used
                                   /\ session[j].step = device[f].proved

\* Administrators cannot lock everybody out: two of them demoting, suspending
\* or deleting each other at the same time still leaves an active one.
AnAdminRemains == \E u \in Users : user[u].status = "active" /\ user[u].role = "admin"

\* Request r has an effect in this step (a logout only ever removes authority).
Acts(r) == req[r].pc = "lock" /\ req'[r].pc = "ok" /\ req[r].kind # "logout"

\* A request admitted before its device session was ended has no effect after:
\* the handler's recheck closes the gap left by current_user's early commit.
NoEffectAfterClose ==
    [][\A r \in Requests : Acts(r) => session[req[r].tok].fam \notin closed]_vars

\* No request has an effect once its device signed in AbsoluteLife ago or was
\* unused for IdleLife, however often the token was rotated in between.
NoEffectPastDeadline ==
    [][\A r \in Requests : Acts(r) =>
          LET f == session[req[r].tok].fam
          IN  now < jwt[f].iat + AbsoluteLife /\ now < device[f].used + IdleLife]_vars

\* A revoked or deleted row never comes back to life, and a family without a
\* live token never gets one again.
DeadStaysDead ==
    [][\A j \in Jtis :
          /\ session[j].state \in {"revoked", "gone"} => session'[j].state # "live"
          /\ (Minted(j) /\ LiveOfFamily(jwt[j].sub, session[j].fam) = {})
               => LiveOfFamily(jwt[j].sub, session[j].fam)' = {}]_vars

\* What has ended stays ended: no live token in a closed device session, in the
\* denylist or behind the account's present token_version, and none comes back
\* (logout, revoke_all_auth_sessions and enforce_retention).
EndedIsFinal == [](ClosedFamilyIsDead /\ DenylistedIsDead /\ LiveIsCurrent) /\ DeadStaysDead

\* A request that waited has no effect once its device session was ended or its
\* deadlines have passed (lock_account_mutation against current_user).
NoLateEffect == NoEffectAfterClose /\ NoEffectPastDeadline

-----------------------------------------------------------------------------
(* The inductive invariant behind the invariants above.                    *)

\* A token's family is named after the minted token of the same account that
\* founded it.
FamiliesRooted ==
    \A j \in Jtis : Minted(j) => /\ Minted(session[j].fam)
                                 /\ session[session[j].fam].fam = session[j].fam
                                 /\ jwt[session[j].fam].sub = jwt[j].sub

\* An id that was never minted has no trace anywhere.
UnmintedIsClean == \A j \in Jtis : ~Minted(j) => ~Denied(j) /\ j \notin closed

\* A request in progress carries a minted bearer, and the family it read from
\* the bearer's row is still the bearer's family.
BearersMinted ==
    \A r \in Requests : req[r].pc \notin Done =>
        /\ Minted(req[r].tok)
        /\ req[r].pc \in {"denylist", "reuse"} => req[r].seen.fam = session[req[r].tok].fam

SafeRows ==
    /\ OneLiveTokenPerDevice
    /\ LiveIsCurrent
    /\ DenylistedIsDead
    /\ ClosedFamilyIsDead
    /\ ClocksFollowDevice
    /\ FamiliesRooted
    /\ UnmintedIsClean

IInv == TypeOK /\ SafeRows /\ BearersMinted

-----------------------------------------------------------------------------
(* What a device sees of all this: DeviceSessions.                         *)

Holder(f) == IF \E j \in Jtis : Live(j) /\ session[j].fam = f
               THEN CHOOSE j \in Jtis : Live(j) /\ session[j].fam = f
               ELSE NoJti

Device == INSTANCE DeviceSessions WITH
    Tokens <- Jtis, NoToken <- NoJti,
    spent  <- {j \in Jtis : Minted(j)},
    opened <- {j \in Jtis : Minted(j) /\ session[j].fam = j},
    holder <- [f \in Jtis |-> Holder(f)]

\* Every behaviour of the session store, seen through its live rows only, is a
\* behaviour of DeviceSessions: sign-in opens, refresh hands over in one step,
\* everything else only ends device sessions.
ImplementsDeviceSessions == Device!Spec

=============================================================================
