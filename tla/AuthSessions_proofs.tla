------------------------ MODULE AuthSessions_proofs -------------------------
(***************************************************************************)
(* Proofs about AuthSessions for every set of accounts, tokens and         *)
(* requests and every policy.                                              *)
(***************************************************************************)
EXTENDS AuthSessions, TLAPS

USE AccountAssumption, PolicyAssumption, BoundAssumption

\* Revoking and denylisting keep rows typed and every token in its family.
LEMMA RevokeType ==
    ASSUME TypeOK, NEW S \in SUBSET Jtis, \A j \in S : Minted(j), session' = Revoke(S)
    PROVE  /\ session' \in [Jtis -> Session]
           /\ \A j \in Jtis : session'[j].fam = session[j].fam
           /\ \A j \in Jtis : Minted(j)' <=> Minted(j)
           /\ \A j \in Jtis : Minted(j)' => session'[j].fam \in Jtis
           /\ \A j \in Jtis : Live(j)' <=> Live(j) /\ j \notin S
           /\ \A j \in Jtis : j \notin S => session'[j] = session[j]
<1>1. ASSUME NEW j \in Jtis
      PROVE  /\ session'[j] \in Session
             /\ session'[j].fam = session[j].fam
             /\ Minted(j)' <=> Minted(j)
             /\ Live(j)' <=> Live(j) /\ j \notin S
             /\ j \notin S => session'[j] = session[j]
  <2>1. session[j] \in Session
    BY DEF TypeOK
  <2>2. session'[j] = IF j \in S THEN [session[j] EXCEPT !.state = "revoked"] ELSE session[j]
    BY DEF Revoke
  <2> QED BY <2>1, <2>2 DEF Session, Minted, Live
<1>2. session' = [j \in Jtis |-> session'[j]]
  BY DEF Revoke
<1> QED BY <1>1, <1>2 DEF TypeOK

LEMMA DenyType ==
    ASSUME TypeOK, NEW S \in SUBSET Jtis, NEW reason \in Reasons, denylist' = Deny(S, reason)
    PROVE  /\ denylist' \in [Jtis -> Denial]
           /\ \A j \in Jtis : Denied(j)' => Denied(j) \/ j \in S
           /\ \A j \in Jtis : Denied(j) => Denied(j)'
<1>1. ASSUME NEW j \in Jtis
      PROVE  /\ denylist'[j] \in Denial
             /\ Denied(j)' => Denied(j) \/ j \in S
             /\ Denied(j) => Denied(j)'
  BY DEF TypeOK, Deny, Denial, Denied
<1>2. denylist' = [j \in Jtis |-> denylist'[j]]
  BY DEF Deny
<1> QED BY <1>1, <1>2

LEMMA LiveIsMinted == ASSUME NEW j \in Jtis, Live(j) PROVE Minted(j)
BY DEF Live, Minted

LEMMA LiveSets ==
    ASSUME TypeOK, NEW u, NEW f
    PROVE  /\ LiveOfAccount(u) \in SUBSET Jtis /\ \A j \in LiveOfAccount(u) : Minted(j)
           /\ LiveOfFamily(u, f) \in SUBSET Jtis /\ \A j \in LiveOfFamily(u, f) : Minted(j)
           /\ FamiliesOf(u) \in SUBSET Jtis
BY DEF TypeOK, LiveOfAccount, LiveOfFamily, FamiliesOf, Live, Minted

LEMMA BumpType ==
    ASSUME TypeOK, NEW u \in Users
    PROVE  /\ BumpVersion(u) \in [Users -> Account]
           /\ BumpVersion(u)[u] = [user[u] EXCEPT !.ver = @ + 1]
           /\ \A v \in Users : v # u => BumpVersion(u)[v] = user[v]
           /\ \A v \in Users : BumpVersion(u)[v].status = user[v].status
           /\ \A v \in Users : BumpVersion(u)[v].role = user[v].role
<1>1. user[u] \in Account
  BY DEF TypeOK
<1>2. BumpVersion(u) = [user EXCEPT ![u] = [user[u] EXCEPT !.ver = @ + 1]]
  BY DEF BumpVersion
<1>3. [user[u] EXCEPT !.ver = @ + 1] \in Account
  BY <1>1 DEF Account
<1>4. /\ [user[u] EXCEPT !.ver = @ + 1].status = user[u].status
      /\ [user[u] EXCEPT !.ver = @ + 1].role = user[u].role
  BY <1>1 DEF Account
<1> QED BY <1>2, <1>3, <1>4 DEF TypeOK

LEMMA AnswerType ==
    ASSUME TypeOK, NEW r \in Requests, NEW pc \in Done, Answer(r, pc)
    PROVE  /\ req' \in [Requests -> Request]
           /\ \A q \in Requests : req'[q].pc \notin Done => req'[q].tok \in Jtis
<1>1. [NoRequest EXCEPT !.pc = pc] \in Request
  BY DEF NoRequest, Request, NoSession, Session, Pcs, Done, AllKinds, MetadataKinds
<1>2. [NoRequest EXCEPT !.pc = pc].pc = pc
  BY DEF NoRequest
<1> QED
  BY <1>1, <1>2 DEF Answer, TypeOK

LEMMA GotoType ==
    ASSUME TypeOK, NEW r \in Requests, NEW pc \in Pcs, req[r].tok \in Jtis, Goto(r, pc)
    PROVE  /\ req' \in [Requests -> Request]
           /\ \A q \in Requests : req'[q].pc \notin Done => req'[q].tok \in Jtis
<1>1. NoSession \in Session
  BY DEF NoSession, Session
<1>2. req[r] \in Request
  BY DEF TypeOK
<1>3. req' = [req EXCEPT ![r] = [req[r] EXCEPT !.pc = pc, !.seen = NoSession]]
  BY DEF Goto
<1>4. [req[r] EXCEPT !.pc = pc, !.seen = NoSession] \in Request
  BY <1>1, <1>2 DEF Request
<1>5. [req[r] EXCEPT !.pc = pc, !.seen = NoSession].tok = req[r].tok
  BY <1>2 DEF Request
<1> QED
  BY <1>3, <1>4, <1>5 DEF TypeOK

LEMMA TypeInit == Init => TypeOK
<1> SUFFICES ASSUME Init PROVE TypeOK
  OBVIOUS
<1>1. NoSession \in Session /\ NoRequest \in Request /\ NotDenied \in Denial
  BY DEF NoSession, Session, NoRequest, Request, Pcs, AllKinds, MetadataKinds,
         NotDenied, Denial, Reasons
<1>2. user \in [Users -> Account]
  BY DEF Init, Account
<1>3. jwt \in [Jtis -> Claims]
  <2>1. (CHOOSE u \in Users : TRUE) \in Users
    OBVIOUS
  <2> QED BY <2>1 DEF Init, Claims
<1> QED
  BY <1>1, <1>2, <1>3 DEF Init, TypeOK, NoRequest, NoSession, Minted, Done

\* The bearer of a request in progress is a token.
LEMMA BearerType ==
    ASSUME TypeOK, NEW r \in Requests, req[r].pc \notin Done
    PROVE  /\ req[r].tok \in Jtis /\ jwt[req[r].tok] \in Claims
           /\ jwt[req[r].tok].sub \in Users /\ req[r].seen \in Session
BY DEF TypeOK, Claims, Request

-----------------------------------------------------------------------------
(* Every step but SignIn, RefreshSession, Touch and StepUp only kills rows. *)

Kill ==
    /\ jwt' = jwt
    /\ device' = device
    /\ \A j \in Jtis : \/ session'[j] = session[j]
                       \/ /\ Minted(j) /\ Minted(j)' /\ ~Live(j)'
                          /\ session'[j].fam = session[j].fam
    /\ \A j \in Jtis : Live(j)' => /\ user'[jwt[j].sub] = user[jwt[j].sub]
                                   /\ Denied(j)' => Denied(j)
                                   /\ session[j].fam \in closed' => session[j].fam \in closed
    /\ \A j \in Jtis : ~Minted(j) => /\ Denied(j)' => Denied(j)
                                     /\ j \in closed' => j \in closed

\* A step that only kills rows keeps the rows safe.
LEMMA KillKeepsRowsSafe ==
    ASSUME TypeOK, SafeRows, Kill
    PROVE  SafeRows'
<1>1. ASSUME NEW j \in Jtis
      PROVE  /\ Live(j)' => Live(j) /\ session'[j] = session[j]
             /\ Minted(j)' <=> Minted(j)
             /\ session'[j].fam = session[j].fam
  BY <1>1 DEF Kill, Live, Minted
<1>2. OneLiveTokenPerDevice'
  BY <1>1 DEF SafeRows, OneLiveTokenPerDevice
<1>3. LiveIsCurrent'
  BY <1>1 DEF SafeRows, LiveIsCurrent, Kill
<1>4. DenylistedIsDead'
  BY <1>1 DEF SafeRows, DenylistedIsDead, Kill
<1>5. ClosedFamilyIsDead'
  BY <1>1, LiveIsMinted DEF SafeRows, ClosedFamilyIsDead, Kill
<1>6. ClocksFollowDevice'
  BY <1>1 DEF SafeRows, ClocksFollowDevice, Kill
<1>7. FamiliesRooted'
  BY <1>1 DEF SafeRows, FamiliesRooted, Kill, TypeOK
<1>8. UnmintedIsClean'
  BY <1>1 DEF SafeRows, UnmintedIsClean, Kill
<1> QED
  BY <1>2, <1>3, <1>4, <1>5, <1>6, <1>7, <1>8 DEF SafeRows

\* Ending one family: what detect_rotated_token_reuse, logout and
\* revoke_auth_session share.
LEMMA FamilyKill ==
    ASSUME TypeOK, SafeRows, NEW j \in Jtis, Minted(j), NEW reason \in Reasons,
           NEW D \in SUBSET Jtis, \A i \in D : Minted(i) /\ (Live(i) => i \in LiveOfFamily(jwt[j].sub, session[j].fam)),
           session' = Revoke(LiveOfFamily(jwt[j].sub, session[j].fam)),
           denylist' = Deny(D, reason),
           closed' = closed \cup {session[j].fam},
           UNCHANGED <<user, jwt, device>>
    PROVE  /\ session' \in [Jtis -> Session]
           /\ denylist' \in [Jtis -> Denial]
           /\ closed' \in SUBSET Jtis
           /\ \A i \in Jtis : Minted(i)' => session'[i].fam \in Jtis
           /\ Kill
<1> DEFINE f == session[j].fam
           L == LiveOfFamily(jwt[j].sub, f)
<1>1. L \in SUBSET Jtis /\ \A i \in L : Minted(i)
  BY LiveSets
<1>2. /\ session' \in [Jtis -> Session]
      /\ \A i \in Jtis : session'[i].fam = session[i].fam
      /\ \A i \in Jtis : Minted(i)' <=> Minted(i)
      /\ \A i \in Jtis : Minted(i)' => session'[i].fam \in Jtis
      /\ \A i \in Jtis : Live(i)' <=> Live(i) /\ i \notin L
      /\ \A i \in Jtis : i \notin L => session'[i] = session[i]
  BY <1>1, RevokeType
<1>3. denylist' \in [Jtis -> Denial] /\ \A i \in Jtis : Denied(i)' => Denied(i) \/ i \in D
  BY DenyType
<1>4. f \in Jtis /\ Minted(f)
  BY DEF TypeOK, SafeRows, FamiliesRooted
<1>5. \A i \in Jtis : Live(i) /\ session[i].fam = f => i \in L
  BY LiveIsMinted DEF SafeRows, FamiliesRooted, LiveOfFamily, LiveOfAccount
<1>6. Kill
  BY <1>1, <1>2, <1>3, <1>4, <1>5 DEF Kill
<1> QED
  BY <1>2, <1>3, <1>4, <1>6 DEF TypeOK

\* Ending every session of an account: what password change and reset,
\* logout_all, suspension and role change share.
LEMMA AccountKill ==
    ASSUME TypeOK, SafeRows, NEW u \in Users, NEW D \in SUBSET Jtis, NEW reason \in Reasons,
           \A j \in D : Minted(j) /\ ~Live(j),
           session' = RevokeAllAuthSessions(u),
           closed' = closed \cup FamiliesOf(u),
           denylist' = Deny(D, reason) \/ denylist' = denylist,
           \A v \in Users : v # u => user'[v] = user[v],
           UNCHANGED <<jwt, device>>
    PROVE  /\ session' \in [Jtis -> Session]
           /\ denylist' \in [Jtis -> Denial]
           /\ closed' \in SUBSET Jtis
           /\ \A i \in Jtis : Minted(i)' => session'[i].fam \in Jtis
           /\ Kill
<1> DEFINE L == LiveOfAccount(u)
<1>1. L \in SUBSET Jtis /\ \A i \in L : Minted(i)
  BY LiveSets
<1>2. /\ session' \in [Jtis -> Session]
      /\ \A i \in Jtis : session'[i].fam = session[i].fam
      /\ \A i \in Jtis : Minted(i)' <=> Minted(i)
      /\ \A i \in Jtis : Minted(i)' => session'[i].fam \in Jtis
      /\ \A i \in Jtis : Live(i)' <=> Live(i) /\ i \notin L
      /\ \A i \in Jtis : i \notin L => session'[i] = session[i]
  BY <1>1, RevokeType DEF RevokeAllAuthSessions
<1>3. denylist' \in [Jtis -> Denial] /\ \A i \in Jtis : Denied(i)' => Denied(i) \/ i \in D
  BY DenyType DEF TypeOK, Denied
<1>4. FamiliesOf(u) \in SUBSET Jtis
  BY LiveSets
<1>5. \A i \in Jtis : Live(i)' => jwt[i].sub # u /\ jwt[i].sub \in Users
  BY <1>2 DEF LiveOfAccount, TypeOK, Claims
<1>6. ASSUME NEW i \in Jtis, Minted(i), session[i].fam \in FamiliesOf(u)
      PROVE  jwt[i].sub = u
  BY <1>6 DEF FamiliesOf, SafeRows, FamiliesRooted
<1>7. \A i \in Jtis : i \in FamiliesOf(u) => Minted(i)
  BY DEF FamiliesOf, SafeRows, FamiliesRooted
<1>8. Kill
  <2>1. \A i \in Jtis : Live(i)' => session[i].fam \notin FamiliesOf(u)
    BY <1>2, <1>5, <1>6, LiveIsMinted
  <2> QED BY <1>1, <1>2, <1>3, <1>5, <1>7, <2>1 DEF Kill
<1> QED
  BY <1>2, <1>3, <1>4, <1>8 DEF TypeOK

\* Requests other than r keep their bearer, and r ends or keeps its own.
LEMMA AnswerKeepsBearers ==
    ASSUME TypeOK, BearersMinted, NEW r \in Requests, NEW pc \in Done, Answer(r, pc),
           \A j \in Jtis : Minted(j) => Minted(j)' /\ session'[j].fam = session[j].fam
    PROVE  BearersMinted'
<1>1. req'[r].pc = pc
  BY DEF Answer, TypeOK, NoRequest
<1>2. \A q \in Requests : q # r => req'[q] = req[q]
  BY DEF Answer, TypeOK
<1> QED
  BY <1>1, <1>2 DEF BearersMinted, TypeOK

LEMMA GotoKeepsBearers ==
    ASSUME TypeOK, BearersMinted, NEW r \in Requests, req[r].pc \notin Done,
           NEW pc \in {"touch", "decode", "lock"}, Goto(r, pc),
           \A j \in Jtis : Minted(j) => Minted(j)' /\ session'[j].fam = session[j].fam
    PROVE  BearersMinted'
<1>1. /\ req[r] \in Request
      /\ req' = [req EXCEPT ![r] = [req[r] EXCEPT !.pc = pc, !.seen = NoSession]]
  BY DEF TypeOK, Goto
<1>2. req'[r].pc = pc /\ req'[r].tok = req[r].tok
  BY <1>1 DEF Request, TypeOK
<1>3. \A q \in Requests : q # r => req'[q] = req[q]
  BY <1>1 DEF TypeOK
<1> QED
  BY <1>2, <1>3 DEF BearersMinted, TypeOK

LEMMA SameRequestsKeepBearers ==
    ASSUME TypeOK, BearersMinted, req' = req,
           \A j \in Jtis : Minted(j) => Minted(j)' /\ session'[j].fam = session[j].fam
    PROVE  BearersMinted'
BY DEF BearersMinted, TypeOK

LEMMA KillKeepsFamilies ==
    ASSUME TypeOK, Kill
    PROVE  \A j \in Jtis : Minted(j) => Minted(j)' /\ session'[j].fam = session[j].fam
BY DEF Kill, Minted

LEMMA SameRowsKill ==
    ASSUME TypeOK, UNCHANGED <<user, jwt, session, denylist, closed, device>>
    PROVE  Kill /\ (\A j \in Jtis : Minted(j)' => session'[j].fam \in Jtis)
BY DEF Kill, Live, Minted, Denied, TypeOK

Good == TypeOK' /\ BearersMinted' /\ Kill

LEMMA TickIsGood == ASSUME IInv, Tick PROVE Good
<1>1. Kill
  BY SameRowsKill DEF IInv, Tick
<1>2. TypeOK'
  BY SameRowsKill DEF IInv, Tick, TypeOK
<1> QED
  BY <1>1, <1>2, KillKeepsFamilies, SameRequestsKeepBearers DEF IInv, Tick, Good

LEMMA RegisterIsGood == ASSUME IInv, NEW u \in Users, Register(u) PROVE Good
<1>1. user'[u] \in Account /\ \A v \in Users : v # u => user'[v] = user[v]
  BY DEF IInv, Register, TypeOK, Account
<1>2. \A j \in Jtis : Live(j) => jwt[j].sub # u /\ jwt[j].sub \in Users
  BY DEF IInv, SafeRows, LiveIsCurrent, Register, TypeOK, Claims
<1>3. Kill
  BY <1>1, <1>2 DEF Register, Kill, Live, Minted, Denied
<1>4. TypeOK'
  <2>1. user' \in [Users -> Account]
    BY <1>1 DEF Register, IInv, TypeOK
  <2> QED BY <2>1 DEF IInv, Register, TypeOK, Minted
<1> QED
  BY <1>3, <1>4, KillKeepsFamilies, SameRequestsKeepBearers DEF IInv, Register, Good

LEMMA ResetIsGood == ASSUME IInv, NEW u \in Users, ConfirmPasswordReset(u) PROVE Good
<1>1. user' \in [Users -> Account] /\ \A v \in Users : v # u => user'[v] = user[v]
  BY BumpType DEF IInv, ConfirmPasswordReset
<1>2. /\ session' \in [Jtis -> Session]
      /\ closed' \in SUBSET Jtis
      /\ \A i \in Jtis : Minted(i)' => session'[i].fam \in Jtis
      /\ Kill
  <2>1. "logout" \in Reasons /\ {} \in SUBSET Jtis
    BY DEF Reasons
  <2> QED BY <1>1, <2>1, AccountKill DEF IInv, ConfirmPasswordReset
<1>3. TypeOK'
  BY <1>1, <1>2 DEF IInv, ConfirmPasswordReset, TypeOK
<1> QED
  BY <1>2, <1>3, KillKeepsFamilies, SameRequestsKeepBearers DEF IInv, ConfirmPasswordReset, Good

LEMMA PurgeIsGood == ASSUME IInv, NEW S \in SUBSET Jtis, NEW D \in SUBSET Jtis, Purge(S, D) PROVE Good
<1>1. ASSUME NEW j \in Jtis
      PROVE  /\ session'[j] \in Session
             /\ session'[j].fam = session[j].fam
             /\ j \in S => Minted(j) /\ Minted(j)' /\ ~Live(j)'
             /\ j \notin S => session'[j] = session[j]
             /\ Minted(j)' => session'[j].fam \in Jtis
  <2>1. session[j] \in Session /\ NoSession \in Session
    BY DEF IInv, TypeOK, NoSession, Session
  <2>2. session'[j] = IF j \in S THEN Gone(session[j]) ELSE session[j]
    BY DEF Purge
  <2>3. /\ Gone(session[j]) \in Session
        /\ Gone(session[j]).fam = session[j].fam
        /\ Gone(session[j]).state = "gone"
    BY <2>1 DEF Gone, NoSession, Session
  <2>4. j \in S => session[j].state \in {"live", "revoked"}
    BY DEF Purge, Exists
  <2> QED BY <2>1, <2>2, <2>3, <2>4 DEF Minted, Live, IInv, TypeOK
<1>2. session' \in [Jtis -> Session]
  <2>1. session' = [j \in Jtis |-> session'[j]]
    BY DEF Purge
  <2> QED BY <1>1, <2>1
<1>3. denylist' \in [Jtis -> Denial] /\ \A j \in Jtis : Denied(j)' => Denied(j)
  BY DEF Purge, IInv, TypeOK, Denied, NotDenied, Denial, Reasons
<1>4. Kill
  BY <1>1, <1>3 DEF Kill, Purge
<1>5. TypeOK'
  BY <1>1, <1>2, <1>3 DEF IInv, Purge, TypeOK
<1> QED
  BY <1>4, <1>5, KillKeepsFamilies, SameRequestsKeepBearers DEF IInv, Purge, Good

LEMMA ArriveIsGood ==
    ASSUME IInv, NEW r \in Requests, NEW k \in Kinds, NEW j \in Jtis, Arrive(r, k, j)
    PROVE  Good
<1> DEFINE q == req'[r]
<1>1. /\ q \in Request /\ q.tok = j /\ q.pc = "session"
      /\ \A p \in Requests : p # r => req'[p] = req[p]
      /\ req' \in [Requests -> Request]
  <2>1. NoSession \in Session
    BY DEF NoSession, Session
  <2> QED BY <2>1 DEF Arrive, IInv, TypeOK, Request, Pcs
<1>2. Kill /\ (\A i \in Jtis : Minted(i)' => session'[i].fam \in Jtis)
  BY SameRowsKill DEF IInv, Arrive
<1>3. TypeOK'
  BY <1>1, <1>2 DEF IInv, Arrive, TypeOK
<1>4. Minted(j) /\ Minted(j)'
  BY DEF Arrive, Decodes, Minted
<1>5. BearersMinted'
  BY <1>1, <1>2, <1>4, KillKeepsFamilies DEF IInv, BearersMinted, TypeOK
<1> QED
  BY <1>2, <1>3, <1>5 DEF Good

LEMMA ReadSessionIsGood == ASSUME IInv, NEW r \in Requests, ReadSession(r) PROVE Good
<1> DEFINE row == session[req[r].tok]
<1>1. req[r] \in Request /\ req[r].tok \in Jtis /\ Minted(req[r].tok)
  BY DEF IInv, BearersMinted, TypeOK, ReadSession, Done
<1>2. row \in Session
  BY <1>1 DEF IInv, TypeOK
<1>3. req' = [req EXCEPT ![r] = [req[r] EXCEPT !.pc = "denylist", !.seen = row]]
  BY DEF ReadSession
<1>4. /\ [req[r] EXCEPT !.pc = "denylist", !.seen = row] \in Request
      /\ [req[r] EXCEPT !.pc = "denylist", !.seen = row].tok = req[r].tok
      /\ [req[r] EXCEPT !.pc = "denylist", !.seen = row].seen = row
  BY <1>1, <1>2 DEF Request, Pcs
<1>5. /\ req'[r].tok = req[r].tok /\ req'[r].seen = row /\ req' \in [Requests -> Request]
      /\ \A p \in Requests : p # r => req'[p] = req[p]
  BY <1>3, <1>4 DEF IInv, TypeOK
<1>6. Kill /\ (\A i \in Jtis : Minted(i)' => session'[i].fam \in Jtis)
  BY SameRowsKill DEF IInv, ReadSession
<1>7. TypeOK'
  BY <1>1, <1>5, <1>6 DEF IInv, ReadSession, TypeOK
<1>8. BearersMinted'
  BY <1>1, <1>5, <1>6, KillKeepsFamilies DEF IInv, BearersMinted, TypeOK, ReadSession
<1> QED
  BY <1>6, <1>7, <1>8 DEF Good

\* A step of request r that changes no row and answers or moves on.
LEMMA OnlyRequest ==
    ASSUME IInv, NEW r \in Requests, req[r].pc \notin Done,
           UNCHANGED <<user, jwt, session, denylist, closed, device>>, now' \in Nat,
           \/ \E pc \in Done : Answer(r, pc)
           \/ \E pc \in {"touch", "decode", "lock"} : Goto(r, pc)
           \/ req[r].pc = "denylist" /\ req' = [req EXCEPT ![r].pc = "reuse"]
    PROVE  Good
<1>1. Kill /\ (\A i \in Jtis : Minted(i)' => session'[i].fam \in Jtis)
  BY SameRowsKill DEF IInv
<1>2. \A j \in Jtis : Minted(j) => Minted(j)' /\ session'[j].fam = session[j].fam
  BY <1>1, KillKeepsFamilies DEF IInv
<1>3. req[r].tok \in Jtis /\ req[r] \in Request
  BY DEF IInv, TypeOK
<1>4. CASE \E pc \in Done : Answer(r, pc)
  <2> PICK pc \in Done : Answer(r, pc)
    BY <1>4
  <2>1. TypeOK'
    BY <1>1, AnswerType DEF IInv, TypeOK
  <2> QED BY <1>1, <1>2, <2>1, AnswerKeepsBearers DEF IInv, Good
<1>5. CASE \E pc \in {"touch", "decode", "lock"} : Goto(r, pc)
  <2> PICK pc \in {"touch", "decode", "lock"} : Goto(r, pc)
    BY <1>5
  <2>1. pc \in Pcs
    BY DEF Pcs
  <2>2. TypeOK'
    BY <1>1, <1>3, <2>1, GotoType DEF IInv, TypeOK
  <2> QED BY <1>1, <1>2, <2>2, GotoKeepsBearers DEF IInv, Good
<1>6. CASE req[r].pc = "denylist" /\ req' = [req EXCEPT ![r].pc = "reuse"]
  <2>1. req' = [req EXCEPT ![r] = [req[r] EXCEPT !.pc = "reuse"]]
    BY <1>6
  <2>2. /\ [req[r] EXCEPT !.pc = "reuse"] \in Request
        /\ [req[r] EXCEPT !.pc = "reuse"].tok = req[r].tok
        /\ [req[r] EXCEPT !.pc = "reuse"].seen = req[r].seen
        /\ [req[r] EXCEPT !.pc = "reuse"].pc = "reuse"
    BY <1>3 DEF Request, Pcs
  <2>3. /\ req'[r].tok = req[r].tok /\ req'[r].seen = req[r].seen /\ req' \in [Requests -> Request]
        /\ \A p \in Requests : p # r => req'[p] = req[p]
    BY <2>1, <2>2 DEF IInv, TypeOK
  <2>4. TypeOK'
    BY <1>1, <1>3, <2>3 DEF IInv, TypeOK
  <2>5. BearersMinted'
    BY <1>2, <1>3, <1>6, <2>3 DEF IInv, BearersMinted, TypeOK
  <2> QED BY <1>1, <2>4, <2>5 DEF Good
<1> QED
  BY <1>4, <1>5, <1>6

LEMMA QuietSteps ==
    ASSUME IInv, NEW r \in Requests, Admit(r) \/ Decode(r) \/ Mutate(r) \/ Abandon(r)
    PROVE  Good
<1>1. now \in Nat
  BY DEF IInv, TypeOK
<1>2. CASE Admit(r)
  BY <1>1, <1>2, OnlyRequest DEF Admit, Done
<1>3. CASE Decode(r)
  BY <1>1, <1>3, OnlyRequest DEF Decode, Done
<1>4. CASE Mutate(r)
  BY <1>1, <1>4, OnlyRequest DEF Mutate, Handles, Done
<1>5. CASE Abandon(r)
  BY <1>1, <1>5, OnlyRequest DEF Abandon, Done
<1> QED
  BY <1>2, <1>3, <1>4, <1>5

\* A step of request r that ends one family and answers.
LEMMA FamilyEnd ==
    ASSUME IInv, NEW r \in Requests, NEW j \in Jtis, Minted(j), NEW reason \in Reasons,
           NEW D \in SUBSET Jtis,
           \A i \in D : Minted(i) /\ (Live(i) => i \in LiveOfFamily(jwt[j].sub, session[j].fam)),
           session' = Revoke(LiveOfFamily(jwt[j].sub, session[j].fam)),
           denylist' = Deny(D, reason),
           closed' = closed \cup {session[j].fam},
           UNCHANGED <<now, user, jwt, device>>,
           NEW pc \in Done, Answer(r, pc)
    PROVE  Good
<1>1. /\ session' \in [Jtis -> Session]
      /\ denylist' \in [Jtis -> Denial]
      /\ closed' \in SUBSET Jtis
      /\ \A i \in Jtis : Minted(i)' => session'[i].fam \in Jtis
      /\ Kill
  BY FamilyKill DEF IInv
<1>2. TypeOK'
  BY <1>1, AnswerType DEF IInv, TypeOK
<1> QED
  BY <1>1, <1>2, KillKeepsFamilies, AnswerKeepsBearers DEF IInv, Good

\* A step of request r that ends every session of account u and answers.
LEMMA AccountEnd ==
    ASSUME IInv, NEW r \in Requests, NEW u \in Users, NEW D \in SUBSET Jtis, NEW reason \in Reasons,
           \A j \in D : Minted(j) /\ ~Live(j),
           session' = RevokeAllAuthSessions(u),
           closed' = closed \cup FamiliesOf(u),
           denylist' = Deny(D, reason) \/ denylist' = denylist,
           user' \in [Users -> Account],
           \A v \in Users : v # u => user'[v] = user[v],
           UNCHANGED <<now, jwt, device>>,
           NEW pc \in Done, Answer(r, pc)
    PROVE  Good
<1>1. /\ session' \in [Jtis -> Session]
      /\ denylist' \in [Jtis -> Denial]
      /\ closed' \in SUBSET Jtis
      /\ \A i \in Jtis : Minted(i)' => session'[i].fam \in Jtis
      /\ Kill
  BY AccountKill, SMTT(60) DEF IInv
<1>2. TypeOK'
  BY <1>1, AnswerType DEF IInv, TypeOK
<1> QED
  BY <1>1, <1>2, KillKeepsFamilies, AnswerKeepsBearers DEF IInv, Good

LEMMA DetectReuseIsGood == ASSUME IInv, NEW r \in Requests, DetectReuse(r) PROVE Good
<1> DEFINE j == req[r].tok
           L == LiveOfFamily(jwt[j].sub, session[j].fam)
<1>1. j \in Jtis /\ Minted(j) /\ req[r].seen.fam = session[j].fam
  BY DEF IInv, BearersMinted, TypeOK, DetectReuse, Done
<1>2. L \in SUBSET Jtis /\ \A i \in L : Minted(i)
  BY LiveSets DEF IInv
<1>3. "token_reuse" \in Reasons /\ "idle" \in Done
  BY SMTT(60) DEF Reasons, Done
<1> QED
  BY <1>1, <1>2, <1>3, FamilyEnd DEF DetectReuse

LEMMA LogoutIsGood == ASSUME IInv, NEW r \in Requests, Logout(r) PROVE Good
<1> DEFINE j == req[r].tok
           L == LiveOfFamily(jwt[j].sub, session[j].fam)
<1>1. j \in Jtis /\ Minted(j)
  BY DEF IInv, BearersMinted, TypeOK, Logout, Handles, Done
<1>2. L \in SUBSET Jtis /\ \A i \in L : Minted(i)
  BY LiveSets DEF IInv
<1>3. Live(j) => j \in L
  BY <1>1 DEF LiveOfFamily, LiveOfAccount
<1>4. L \cup {j} \in SUBSET Jtis /\ \A i \in L \cup {j} : Minted(i) /\ (Live(i) => i \in L)
  BY <1>1, <1>2, <1>3
<1>5. "logout" \in Reasons /\ "ok" \in Done
  BY DEF Reasons, Done
<1> QED
  BY <1>1, <1>4, <1>5, FamilyEnd DEF Logout

LEMMA RevokeAuthSessionIsGood ==
    ASSUME IInv, NEW r \in Requests, NEW v \in Jtis, RevokeAuthSession(r, v) PROVE Good
<1> DEFINE L == LiveOfFamily(jwt[v].sub, session[v].fam)
<1>1. jwt[v].sub = jwt[req[r].tok].sub /\ Minted(v)
  BY DEF RevokeAuthSession, Exists, Minted
<1>2. L \in SUBSET Jtis /\ \A i \in L : Minted(i)
  BY LiveSets DEF IInv
<1>3. "session_revoke" \in Reasons /\ "ok" \in Done
  BY SMTT(60) DEF Reasons, Done
<1> QED
  BY <1>1, <1>2, <1>3, FamilyEnd DEF RevokeAuthSession

LEMMA LogoutWithoutRowIsGood == ASSUME IInv, NEW r \in Requests, LogoutWithoutRow(r) PROVE Good
<1> DEFINE j == req[r].tok
           u == jwt[j].sub
<1>1. j \in Jtis /\ Minted(j) /\ u \in Users
  BY BearerType DEF IInv, BearersMinted, TypeOK, LogoutWithoutRow, Handles, Done
<1>2. ~Live(j)
  BY DEF LogoutWithoutRow, Exists, Live
<1>3. user' \in [Users -> Account] /\ \A v \in Users : v # u => user'[v] = user[v]
  BY <1>1, BumpType DEF IInv, LogoutWithoutRow
<1>4. "logout" \in Reasons /\ "ok" \in Done /\ {j} \in SUBSET Jtis
  BY <1>1 DEF Reasons, Done
<1> QED
  BY <1>1, <1>2, <1>3, <1>4, AccountEnd DEF LogoutWithoutRow

LEMMA EndAllSessionsIsGood == ASSUME IInv, NEW r \in Requests, EndAllSessions(r) PROVE Good
<1> DEFINE u == jwt[req[r].tok].sub
<1>1. u \in Users
  BY BearerType DEF IInv, EndAllSessions, Handles, Done
<1>2. user' \in [Users -> Account] /\ \A v \in Users : v # u => user'[v] = user[v]
  BY <1>1, BumpType DEF IInv, EndAllSessions
<1>3. "logout" \in Reasons /\ "ok" \in Done /\ {} \in SUBSET Jtis
  BY DEF Reasons, Done
<1> QED
  BY <1>1, <1>2, <1>3, AccountEnd DEF EndAllSessions

LEMMA ExpireOnUseIsGood == ASSUME IInv, NEW r \in Requests, ExpireOnUse(r) PROVE Good
<1> DEFINE j == req[r].tok
           S == {j}
<1>1. j \in Jtis /\ Minted(j)
  BY DEF IInv, BearersMinted, TypeOK, ExpireOnUse, Done
<1>2. /\ session' = Revoke(S) /\ denylist' = Deny(S, "expired")
      /\ S \in SUBSET Jtis /\ (\A i \in S : Minted(i)) /\ (\A i \in Jtis : i \in S <=> i = j)
  BY <1>1 DEF ExpireOnUse, ExpireAuthSession
<1> HIDE DEF S
<1>3. /\ session' \in [Jtis -> Session]
      /\ \A i \in Jtis : session'[i].fam = session[i].fam
      /\ \A i \in Jtis : Minted(i)' <=> Minted(i)
      /\ \A i \in Jtis : Minted(i)' => session'[i].fam \in Jtis
      /\ \A i \in Jtis : Live(i)' <=> Live(i) /\ i \notin S
      /\ \A i \in Jtis : i \notin S => session'[i] = session[i]
  BY <1>1, <1>2, RevokeType DEF IInv
<1>4. denylist' \in [Jtis -> Denial] /\ \A i \in Jtis : Denied(i)' => Denied(i) \/ i \in S
  BY <1>2, DenyType DEF IInv, Reasons
<1>5. Kill
  BY <1>1, <1>2, <1>3, <1>4 DEF Kill, ExpireOnUse
<1>6. Answer(r, "idle") /\ "idle" \in Done
  BY DEF ExpireOnUse, Done
<1>7. TypeOK'
  BY <1>3, <1>4, <1>6, AnswerType DEF IInv, TypeOK, ExpireOnUse
<1> QED
  BY <1>5, <1>6, <1>7, KillKeepsFamilies, AnswerKeepsBearers DEF IInv, Good

LEMMA CreateUserIsGood ==
    ASSUME IInv, NEW r \in Requests, NEW u \in Users, NEW role \in Roles,
           AdminCreateUser(r, u, role)
    PROVE  Good
<1>1. user' \in [Users -> Account] /\ \A v \in Users : v # u => user'[v] = user[v]
  BY DEF IInv, AdminCreateUser, TypeOK, Account
<1>2. \A j \in Jtis : Live(j) => jwt[j].sub # u /\ jwt[j].sub \in Users
  BY DEF IInv, SafeRows, LiveIsCurrent, AdminCreateUser, TypeOK, Claims
<1>3. Kill
  BY <1>1, <1>2 DEF AdminCreateUser, Kill, Live, Minted, Denied
<1>4. Answer(r, "ok") /\ "ok" \in Done
  BY DEF AdminCreateUser, Done
<1>5. TypeOK'
  BY <1>1, <1>4, AnswerType DEF IInv, AdminCreateUser, TypeOK, Minted
<1> QED
  BY <1>3, <1>4, <1>5, KillKeepsFamilies, AnswerKeepsBearers DEF IInv, Good

LEMMA DeleteUserIsGood ==
    ASSUME IInv, NEW r \in Requests, NEW u \in Users, AdminDeleteUser(r, u)
    PROVE  Good
<1>1. user' \in [Users -> Account] /\ \A v \in Users : v # u => user'[v] = user[v]
  <2>1. user[u] \in Account
    BY DEF IInv, TypeOK
  <2>2. user' = [user EXCEPT ![u] = [user[u] EXCEPT !.status = "deleted"]]
    BY DEF AdminDeleteUser
  <2>3. [user[u] EXCEPT !.status = "deleted"] \in Account
    BY <2>1 DEF Account
  <2> QED BY <2>2, <2>3 DEF IInv, TypeOK
<1>2. ASSUME NEW j \in Jtis
      PROVE  /\ session'[j] \in Session
             /\ session'[j].fam = session[j].fam
             /\ \/ session'[j] = session[j] /\ (Live(j) => jwt[j].sub # u)
                \/ Minted(j) /\ Minted(j)' /\ ~Live(j)'
             /\ Minted(j)' => session'[j].fam \in Jtis
  <2>1. session[j] \in Session /\ NoSession \in Session
    BY DEF IInv, TypeOK, NoSession, Session
  <2>2. session'[j] = IF jwt[j].sub = u /\ Exists(session[j])
                        THEN Gone(session[j]) ELSE session[j]
    BY DEF AdminDeleteUser
  <2>3. /\ Gone(session[j]) \in Session
        /\ Gone(session[j]).fam = session[j].fam
        /\ Gone(session[j]).state = "gone"
    BY <2>1 DEF Gone, NoSession, Session
  <2> QED BY <2>1, <2>2, <2>3 DEF Minted, Live, Exists, IInv, TypeOK
<1>3. session' \in [Jtis -> Session]
  <2>1. session' = [j \in Jtis |-> session'[j]]
    BY DEF AdminDeleteUser
  <2> QED BY <1>2, <2>1
<1>4. FamiliesOf(u) \in SUBSET Jtis
  BY LiveSets DEF IInv
<1>5. ASSUME NEW i \in Jtis, Minted(i), session[i].fam \in FamiliesOf(u)
      PROVE  jwt[i].sub = u
  BY <1>5 DEF FamiliesOf, IInv, SafeRows, FamiliesRooted
<1>6. \A i \in Jtis : i \in FamiliesOf(u) => Minted(i)
  BY DEF FamiliesOf, IInv, SafeRows, FamiliesRooted
<1>7. \A i \in Jtis : Live(i)' => Live(i) /\ jwt[i].sub # u /\ jwt[i].sub \in Users
  BY <1>2 DEF Live, IInv, TypeOK, Claims
<1>8. Kill
  <2>1. \A i \in Jtis : Live(i)' => session[i].fam \notin FamiliesOf(u)
    BY <1>5, <1>7, LiveIsMinted
  <2> QED BY <1>1, <1>2, <1>6, <1>7, <2>1 DEF Kill, AdminDeleteUser, Denied
<1>9. Answer(r, "ok") /\ "ok" \in Done
  BY DEF AdminDeleteUser, Done
<1>10. TypeOK'
  BY <1>1, <1>2, <1>3, <1>4, <1>9, AnswerType DEF IInv, AdminDeleteUser, TypeOK
<1> QED
  BY <1>8, <1>9, <1>10, KillKeepsFamilies, AnswerKeepsBearers DEF IInv, Good

LEMMA ChangeRoleIsGood ==
    ASSUME IInv, NEW r \in Requests, NEW u \in Users, NEW role \in Roles,
           AdminChangeRole(r, u, role)
    PROVE  Good
<1>1. user' \in [Users -> Account] /\ \A v \in Users : v # u => user'[v] = user[v]
  <2>1. BumpVersion(u) \in [Users -> Account] /\ \A v \in Users : v # u => BumpVersion(u)[v] = user[v]
    BY BumpType DEF IInv
  <2>2. user' = [BumpVersion(u) EXCEPT ![u] = [BumpVersion(u)[u] EXCEPT !.role = role]]
    BY DEF AdminChangeRole
  <2>3. [BumpVersion(u)[u] EXCEPT !.role = role] \in Account
    BY <2>1 DEF Account
  <2> QED BY <2>1, <2>2, <2>3
<1>2. "logout" \in Reasons /\ "ok" \in Done /\ {} \in SUBSET Jtis
  BY DEF Reasons, Done
<1> QED
  BY <1>1, <1>2, AccountEnd DEF AdminChangeRole

LEMMA UpdateStatusIsGood ==
    ASSUME IInv, NEW r \in Requests, NEW u \in Users, NEW status \in {"active", "suspended"},
           UpdateUserStatus(r, u, status)
    PROVE  Good
<1>1. CASE user[u].status = status
  <2>1. req[r].pc \notin Done /\ now \in Nat /\ "ok" \in Done
    BY DEF UpdateUserStatus, Administers, Handles, Done, IInv, TypeOK
  <2> QED BY <1>1, <2>1, OnlyRequest DEF UpdateUserStatus
<1>2. CASE user[u].status # status
  <2>1. user' \in [Users -> Account] /\ \A v \in Users : v # u => user'[v] = user[v]
    <3>1. BumpVersion(u) \in [Users -> Account] /\ \A v \in Users : v # u => BumpVersion(u)[v] = user[v]
      BY BumpType DEF IInv
    <3>2. user' = [BumpVersion(u) EXCEPT ![u] = [BumpVersion(u)[u] EXCEPT !.status = status]]
      BY <1>2 DEF UpdateUserStatus
    <3>3. [BumpVersion(u)[u] EXCEPT !.status = status] \in Account
      BY <3>1 DEF Account
    <3> QED BY <3>1, <3>2, <3>3
  <2>2. "logout" \in Reasons /\ "ok" \in Done /\ {} \in SUBSET Jtis
    BY DEF Reasons, Done
  <2> QED
    BY <1>2, <2>1, <2>2, AccountEnd DEF UpdateUserStatus
<1> QED
  BY <1>1, <1>2

-----------------------------------------------------------------------------
(* The four steps that write a live row.                                   *)

LEMMA SignInKeepsIInv ==
    ASSUME IInv, NEW u \in Users, NEW n \in Jtis, SignIn(u, n)
    PROVE  IInv'
<1>1. /\ ~Minted(n) /\ user[u] \in Account
      /\ jwt' = [jwt EXCEPT ![n] = [sub |-> u, ver |-> user[u].ver, role |-> user[u].role, iat |-> now]]
      /\ session' = [session EXCEPT ![n] = SignInRow(n)]
      /\ device' = [device EXCEPT ![n] = [used |-> now, proved |-> now]]
  BY DEF SignIn, IssueAccessSession, Minted, IInv, TypeOK
<1>2. /\ SignInRow(n) \in Session /\ SignInRow(n).fam = n /\ SignInRow(n).state = "live"
      /\ SignInRow(n).root = now /\ SignInRow(n).act = now /\ SignInRow(n).step = now
  BY DEF SignInRow, Session, IInv, TypeOK
<1>3. /\ session' \in [Jtis -> Session] /\ jwt' \in [Jtis -> Claims]
      /\ device' \in [Jtis -> [used : Nat, proved : Nat]]
  BY <1>1, <1>2 DEF IInv, TypeOK, Claims, Account
<1>4. /\ session'[n] = SignInRow(n) /\ Minted(n)' /\ Live(n)'
      /\ jwt'[n].sub = u /\ jwt'[n].ver = user[u].ver /\ jwt'[n].role = user[u].role
      /\ jwt'[n].iat = now /\ device'[n].used = now /\ device'[n].proved = now
  BY <1>1, <1>2 DEF IInv, TypeOK, Minted, Live
<1>5. \A j \in Jtis : j # n => /\ session'[j] = session[j] /\ jwt'[j] = jwt[j]
                               /\ device'[j] = device[j]
                               /\ (Minted(j)' <=> Minted(j)) /\ (Live(j)' <=> Live(j))
  BY <1>1 DEF IInv, TypeOK, Minted, Live
<1>6. \A j \in Jtis : Minted(j) => j # n /\ session[j].fam # n /\ session[j].fam \in Jtis
  BY <1>1 DEF IInv, TypeOK, SafeRows, FamiliesRooted
<1>7. UNCHANGED <<now, user, denylist, req, closed>> /\ user[u].status = "active"
  BY DEF SignIn
<1>8. TypeOK'
  BY <1>2, <1>3, <1>4, <1>5, <1>6, <1>7 DEF IInv, TypeOK
<1>9. OneLiveTokenPerDevice'
  BY <1>2, <1>4, <1>5, <1>6, LiveIsMinted DEF IInv, SafeRows, OneLiveTokenPerDevice
<1>10. LiveIsCurrent'
  BY <1>4, <1>5, <1>7 DEF IInv, SafeRows, LiveIsCurrent
<1>11. DenylistedIsDead'
  BY <1>1, <1>5, <1>7 DEF IInv, SafeRows, DenylistedIsDead, UnmintedIsClean, Denied
<1>12. ClosedFamilyIsDead'
  BY <1>1, <1>2, <1>4, <1>5, <1>7 DEF IInv, SafeRows, ClosedFamilyIsDead, UnmintedIsClean
<1>13. ClocksFollowDevice'
  BY <1>2, <1>4, <1>5, <1>6, LiveIsMinted DEF IInv, SafeRows, ClocksFollowDevice
<1>14. FamiliesRooted'
  BY <1>2, <1>4, <1>5, <1>6 DEF IInv, SafeRows, FamiliesRooted
<1>15. UnmintedIsClean'
  BY <1>4, <1>5, <1>7 DEF IInv, SafeRows, UnmintedIsClean, Denied
<1>16. BearersMinted'
  BY <1>5, <1>6, <1>7 DEF IInv, BearersMinted, TypeOK
<1> QED
  BY <1>8, <1>9, <1>10, <1>11, <1>12, <1>13, <1>14, <1>15, <1>16 DEF IInv, SafeRows

LEMMA RefreshKeepsIInv ==
    ASSUME IInv, NEW r \in Requests, NEW n \in Jtis, RefreshSession(r, n)
    PROVE  IInv'
<1>0. PICK j \in Jtis : j = req[r].tok
  <2>1. req[r].pc \notin Done
    BY DEF RefreshSession, Handles, Done
  <2> QED BY <2>1 DEF IInv, TypeOK
<1> DEFINE u == jwt[j].sub
           S == {j}
<1>1. /\ j \in Jtis /\ Minted(j) /\ Live(j) /\ u \in Users /\ j # n /\ ~Minted(n) /\ user[u] \in Account
      /\ ~Denied(j) /\ user[u].status = "active"
  <2>1. req[r].pc \notin Done
    BY DEF RefreshSession, Handles, Done
  <2> QED
    BY <1>0, <2>1, BearerType DEF IInv, TypeOK, BearersMinted, RefreshSession, IssueAccessSession, Minted,
       LockAccountMutation, BearerLocked, LockAuthSession, Live, LockUser
<1>2. /\ jwt' = [jwt EXCEPT ![n] = [sub |-> u, ver |-> user[u].ver, role |-> user[u].role, iat |-> now]]
      /\ session' = [Revoke(S) EXCEPT ![n] = RotatedRow(session[j])]
      /\ denylist' = Deny(S, "refresh")
      /\ UNCHANGED <<now, user, closed, device>>
      /\ Answer(r, "ok")
  BY <1>0 DEF RefreshSession, IssueAccessSession
<1>3. S \in SUBSET Jtis /\ (\A i \in S : Minted(i)) /\ (\A i \in Jtis : i \in S <=> i = j)
  BY <1>1
<1> HIDE DEF S
<1>4. RotatedRow(session[j]) = session[j] /\ session[j] \in Session /\ session[j].fam \in Jtis
  BY <1>1 DEF RotatedRow, Live, IInv, TypeOK, Session
<1>5. ASSUME NEW i \in Jtis
      PROVE  /\ Revoke(S)[i] \in Session
             /\ i # j => Revoke(S)[i] = session[i]
             /\ Revoke(S)[j].state = "revoked" /\ Revoke(S)[j].fam = session[j].fam
  BY <1>1, <1>3, <1>4 DEF Revoke, Session, IInv, TypeOK
<1>6. Revoke(S) \in [Jtis -> Session]
  <2>1. Revoke(S) = [i \in Jtis |-> Revoke(S)[i]]
    BY DEF Revoke
  <2> QED BY <1>5, <2>1
<1>7. /\ session' \in [Jtis -> Session] /\ jwt' \in [Jtis -> Claims]
  BY <1>1, <1>2, <1>4, <1>6 DEF IInv, TypeOK, Claims, Account
<1>8. /\ session'[n] = session[j] /\ Minted(n)' /\ Live(n)'
      /\ jwt'[n].sub = u /\ jwt'[n].ver = user[u].ver /\ jwt'[n].role = user[u].role
  BY <1>1, <1>2, <1>4, <1>6 DEF IInv, TypeOK, Minted, Live
<1>9. /\ Minted(j)' /\ ~Live(j)' /\ session'[j].fam = session[j].fam
  BY <1>1, <1>2, <1>5, <1>6 DEF Minted, Live
<1>10. \A i \in Jtis : i # n => /\ jwt'[i] = jwt[i] /\ (Minted(i)' <=> Minted(i))
                                /\ session'[i].fam = session[i].fam
                                /\ i # j => session'[i] = session[i]
                                /\ Live(i)' => Live(i) /\ i # j
  BY <1>1, <1>2, <1>5, <1>6, <1>9 DEF IInv, TypeOK, Minted, Live
<1>11. \A i \in Jtis : Minted(i) => i # n /\ session[i].fam # n /\ session[i].fam \in Jtis
  BY <1>1 DEF IInv, TypeOK, SafeRows, FamiliesRooted
<1>12. /\ denylist' \in [Jtis -> Denial]
       /\ \A i \in Jtis : Denied(i)' => Denied(i) \/ i = j
  BY <1>2, <1>3, DenyType DEF IInv, Reasons
<1>13. TypeOK'
  BY <1>2, <1>7, <1>8, <1>10, <1>11, <1>12, AnswerType, <1>4 DEF IInv, TypeOK, Done
<1>14. OneLiveTokenPerDevice'
  BY <1>1, <1>8, <1>9, <1>10 DEF IInv, SafeRows, OneLiveTokenPerDevice
<1>15. LiveIsCurrent'
  BY <1>1, <1>2, <1>8, <1>10 DEF IInv, SafeRows, LiveIsCurrent
<1>16. DenylistedIsDead'
  BY <1>1, <1>9, <1>10, <1>12 DEF IInv, SafeRows, DenylistedIsDead, UnmintedIsClean
<1>17. ClosedFamilyIsDead'
  BY <1>1, <1>2, <1>8, <1>9, <1>10 DEF IInv, SafeRows, ClosedFamilyIsDead, UnmintedIsClean
<1>18. ClocksFollowDevice'
  BY <1>1, <1>2, <1>8, <1>10, <1>11, LiveIsMinted DEF IInv, SafeRows, ClocksFollowDevice
<1>19. FamiliesRooted'
  BY <1>1, <1>4, <1>8, <1>10, <1>11 DEF IInv, SafeRows, FamiliesRooted
<1>20. UnmintedIsClean'
  BY <1>1, <1>2, <1>8, <1>10, <1>12 DEF IInv, SafeRows, UnmintedIsClean
<1>21. BearersMinted'
  <2>1. \A i \in Jtis : Minted(i) => Minted(i)' /\ session'[i].fam = session[i].fam
    BY <1>10, <1>11
  <2> QED BY <1>2, <2>1, AnswerKeepsBearers DEF IInv, Done
<1> QED
  BY <1>13, <1>14, <1>15, <1>16, <1>17, <1>18, <1>19, <1>20, <1>21 DEF IInv, SafeRows

\* Touch and StepUp rewrite a clock of one live row j and of its device.
LEMMA ClockStep ==
    ASSUME IInv, NEW j \in Jtis, Live(j), NEW row \in Session,
           row.state = "live", row.fam = session[j].fam, row.root = session[j].root,
           session' = [session EXCEPT ![j] = row],
           device' \in [Jtis -> [used : Nat, proved : Nat]],
           \A f \in Jtis : f # session[j].fam => device'[f] = device[f],
           row.act = device'[session[j].fam].used,
           row.step = device'[session[j].fam].proved,
           UNCHANGED <<now, user, jwt, denylist, closed>>
    PROVE  /\ SafeRows'
           /\ session' \in [Jtis -> Session]
           /\ \A i \in Jtis : Minted(i)' => session'[i].fam \in Jtis
           /\ \A i \in Jtis : Minted(i) => Minted(i)' /\ session'[i].fam = session[i].fam
<1>1. /\ session' \in [Jtis -> Session]
      /\ \A i \in Jtis : /\ session'[i].fam = session[i].fam
                         /\ (Minted(i)' <=> Minted(i)) /\ (Live(i)' <=> Live(i))
                         /\ i # j => session'[i] = session[i]
      /\ session'[j] = row
  BY DEF IInv, TypeOK, Minted, Live
<1>2. OneLiveTokenPerDevice'
  BY <1>1 DEF IInv, SafeRows, OneLiveTokenPerDevice
<1>3. LiveIsCurrent'
  BY <1>1 DEF IInv, SafeRows, LiveIsCurrent
<1>4. DenylistedIsDead' /\ UnmintedIsClean'
  BY <1>1 DEF IInv, SafeRows, DenylistedIsDead, UnmintedIsClean, Denied
<1>5. ClosedFamilyIsDead'
  BY <1>1 DEF IInv, SafeRows, ClosedFamilyIsDead
<1>6. ClocksFollowDevice'
  <2>1. \A i \in Jtis : Live(i) /\ i # j => session[i].fam # session[j].fam /\ session[i].fam \in Jtis
    BY LiveIsMinted DEF IInv, SafeRows, OneLiveTokenPerDevice, TypeOK
  <2>2. \A i \in Jtis : Live(i)' /\ i # j => device'[session[i].fam] = device[session[i].fam]
    BY <1>1, <2>1
  <2>3. \A i \in Jtis : Live(i) => /\ session[i].root = jwt[session[i].fam].iat
                                   /\ session[i].act = device[session[i].fam].used
                                   /\ session[i].step = device[session[i].fam].proved
    BY DEF IInv, SafeRows, ClocksFollowDevice
  <2>4. \A i \in Jtis : Live(i)' => /\ session'[i].root = jwt'[session'[i].fam].iat
                                    /\ session'[i].act = device'[session'[i].fam].used
                                    /\ session'[i].step = device'[session'[i].fam].proved
    BY <1>1, <2>2, <2>3
  <2> QED BY <2>4 DEF ClocksFollowDevice
<1>7. FamiliesRooted'
  BY <1>1 DEF IInv, SafeRows, FamiliesRooted, TypeOK
<1> QED
  BY <1>1, <1>2, <1>3, <1>4, <1>5, <1>6, <1>7 DEF IInv, TypeOK, SafeRows

LEMMA TouchKeepsIInv == ASSUME IInv, NEW r \in Requests, Touch(r) PROVE IInv'
<1>0. PICK j \in Jtis : j = req[r].tok
  BY DEF IInv, TypeOK, Touch, Done
<1>1. Live(j) /\ session[j] \in Session /\ session[j].fam \in Jtis /\ req[r].pc \notin Done
  BY <1>0, LiveIsMinted DEF Touch, LockAccountMutation, BearerLocked, LockAuthSession, IInv, TypeOK, Done
<1>2. /\ session[j].act = device[session[j].fam].used
      /\ session[j].step = device[session[j].fam].proved
      /\ device[session[j].fam] \in [used : Nat, proved : Nat] /\ now \in Nat
  BY <1>1 DEF IInv, SafeRows, ClocksFollowDevice, TypeOK
<1>3. /\ SafeRows'
      /\ session' \in [Jtis -> Session]
      /\ device' \in [Jtis -> [used : Nat, proved : Nat]]
      /\ \A i \in Jtis : Minted(i)' => session'[i].fam \in Jtis
      /\ \A i \in Jtis : Minted(i) => Minted(i)' /\ session'[i].fam = session[i].fam
  <2>1. CASE req[r].kind \in MetadataKinds
    <3>1. UNCHANGED <<now, user, jwt, session, denylist, closed, device>>
      BY <2>1 DEF Touch
    <3>2. Kill /\ \A i \in Jtis : Minted(i)' => session'[i].fam \in Jtis
      BY <3>1, SameRowsKill DEF IInv
    <3> QED BY <3>1, <3>2, KillKeepsRowsSafe, KillKeepsFamilies DEF IInv, TypeOK
  <2>2. CASE req[r].kind \notin MetadataKinds
    <3> DEFINE f == session[j].fam
               row == [session[j] EXCEPT !.act = now]
               dev == [device[f] EXCEPT !.used = now]
    <3>1. session' = [session EXCEPT ![j] = row] /\ device' = [device EXCEPT ![f] = dev]
      BY <1>0, <2>2 DEF Touch
    <3>2. /\ row \in Session /\ row.state = "live" /\ row.fam = f /\ row.root = session[j].root
          /\ row.act = now /\ row.step = session[j].step
      BY <1>1, <1>2 DEF Session, Live
    <3>3. dev \in [used : Nat, proved : Nat] /\ dev.used = now /\ dev.proved = device[f].proved
      BY <1>2
    <3>4. /\ device' \in [Jtis -> [used : Nat, proved : Nat]] /\ device'[f] = dev
          /\ \A g \in Jtis : g # f => device'[g] = device[g]
      BY <1>1, <3>1, <3>3 DEF IInv, TypeOK
    <3> HIDE DEF row, dev
    <3>5. UNCHANGED <<now, user, jwt, denylist, closed>>
      BY DEF Touch
    <3> QED BY <1>1, <1>2, <3>1, <3>2, <3>3, <3>4, <3>5, ClockStep, ZenonT(60)
  <2> QED BY <2>1, <2>2
<1>4. UNCHANGED <<now, user, jwt, denylist, closed>> /\ (Answer(r, "idle") \/ Goto(r, "decode"))
  BY DEF Touch
<1>5. "idle" \in Done /\ "decode" \in Pcs
  BY DEF Done, Pcs
<1>6. TypeOK'
  BY <1>0, <1>3, <1>4, <1>5, AnswerType, GotoType DEF IInv, TypeOK
<1>7. BearersMinted'
  BY <1>1, <1>3, <1>4, <1>5, AnswerKeepsBearers, GotoKeepsBearers DEF IInv
<1> QED
  BY <1>3, <1>6, <1>7 DEF IInv

LEMMA StepUpKeepsIInv == ASSUME IInv, NEW r \in Requests, StepUp(r) PROVE IInv'
<1>0. PICK j \in Jtis : j = req[r].tok
  BY DEF IInv, TypeOK, StepUp, Handles, Done
<1>1. Live(j) /\ session[j] \in Session /\ session[j].fam \in Jtis
  BY <1>0, LiveIsMinted DEF StepUp, LockAccountMutation, BearerLocked, LockAuthSession, IInv, TypeOK
<1>2. /\ session[j].act = device[session[j].fam].used
      /\ device[session[j].fam] \in [used : Nat, proved : Nat] /\ now \in Nat
  BY <1>1 DEF IInv, SafeRows, ClocksFollowDevice, TypeOK
<1> DEFINE f == session[j].fam
           row == [session[j] EXCEPT !.step = now]
           dev == [device[f] EXCEPT !.proved = now]
<1>3. /\ session' = [session EXCEPT ![j] = row] /\ device' = [device EXCEPT ![f] = dev]
      /\ UNCHANGED <<now, user, jwt, denylist, closed>> /\ Answer(r, "ok") /\ "ok" \in Done
  BY <1>0 DEF StepUp, Done
<1>4. /\ row \in Session /\ row.state = "live" /\ row.fam = f /\ row.root = session[j].root
      /\ row.act = session[j].act /\ row.step = now
  BY <1>1, <1>2 DEF Session, Live
<1>5. dev \in [used : Nat, proved : Nat] /\ dev.proved = now /\ dev.used = device[f].used
  BY <1>2
<1>6. /\ device' \in [Jtis -> [used : Nat, proved : Nat]] /\ device'[f] = dev
      /\ \A g \in Jtis : g # f => device'[g] = device[g]
  BY <1>1, <1>3, <1>5 DEF IInv, TypeOK
<1> HIDE DEF row, dev
<1>7. /\ SafeRows'
      /\ session' \in [Jtis -> Session]
      /\ \A i \in Jtis : Minted(i)' => session'[i].fam \in Jtis
      /\ \A i \in Jtis : Minted(i) => Minted(i)' /\ session'[i].fam = session[i].fam
  BY <1>1, <1>2, <1>3, <1>4, <1>5, <1>6, ClockStep, ZenonT(60)
<1>8. TypeOK'
  BY <1>3, <1>6, <1>7, AnswerType DEF IInv, TypeOK
<1>9. BearersMinted'
  BY <1>3, <1>7, AnswerKeepsBearers DEF IInv
<1> QED
  BY <1>7, <1>8, <1>9 DEF IInv

-----------------------------------------------------------------------------
(* The inductive invariant.                                                *)

LEMMA IInvInit == Init => IInv
<1> SUFFICES ASSUME Init PROVE IInv
  OBVIOUS
<1>1. TypeOK
  BY TypeInit
<1>2. \A j \in Jtis : ~Minted(j) /\ ~Live(j) /\ ~Denied(j)
  BY DEF Init, NoSession, NotDenied, Minted, Live, Denied
<1>3. \A r \in Requests : req[r].pc \in Done
  BY DEF Init, NoRequest, Done
<1> QED
  BY <1>1, <1>2, <1>3 DEF Init, IInv, SafeRows, OneLiveTokenPerDevice, LiveIsCurrent,
     DenylistedIsDead, ClosedFamilyIsDead, ClocksFollowDevice, FamiliesRooted,
     UnmintedIsClean, BearersMinted

\* A step kills rows, or writes one live row.
Writes ==
    \/ \E u \in Users, n \in Jtis : SignIn(u, n)
    \/ \E r \in Requests : Touch(r) \/ StepUp(r) \/ \E n \in Jtis : RefreshSession(r, n)

LEMMA StepShape == ASSUME IInv, [Next]_vars PROVE Good \/ Writes
<1>1. CASE UNCHANGED vars
  <2>1. Kill /\ TypeOK'
    BY <1>1, SameRowsKill DEF vars, IInv, TypeOK, Minted
  <2> QED BY <1>1, <2>1, KillKeepsFamilies, SameRequestsKeepBearers DEF vars, IInv, Good
<1>2. CASE Tick
  BY <1>2, TickIsGood
<1>3. CASE Environment
  <2>1. CASE \E u \in Users, n \in Jtis : SignIn(u, n)
    BY <2>1 DEF Writes
  <2>2. CASE \E u \in Users : Register(u) \/ ConfirmPasswordReset(u)
    BY <2>2, RegisterIsGood, ResetIsGood
  <2>3. CASE \E S, D \in SUBSET Jtis : Purge(S, D)
    BY <2>3, PurgeIsGood
  <2>4. CASE \E r \in Requests, k \in Kinds, j \in Jtis : Arrive(r, k, j)
    BY <2>4, ArriveIsGood
  <2>5. CASE \E r \in Requests : Abandon(r)
    BY <2>5, QuietSteps
  <2> QED BY <1>3, <2>1, <2>2, <2>3, <2>4, <2>5 DEF Environment
<1>4. ASSUME NEW r \in Requests, RequestStep(r) PROVE Good \/ Writes
  <2>1. CASE Admit(r) \/ Decode(r) \/ Mutate(r)
    BY <2>1, QuietSteps
  <2>2. CASE ReadSession(r)
    BY <2>2, ReadSessionIsGood
  <2>3. CASE DetectReuse(r)
    BY <2>3, DetectReuseIsGood
  <2>4. CASE ExpireOnUse(r)
    BY <2>4, ExpireOnUseIsGood
  <2>5. CASE Touch(r) \/ StepUp(r) \/ \E n \in Jtis : RefreshSession(r, n)
    BY <2>5 DEF Writes
  <2>6. CASE Logout(r) \/ LogoutWithoutRow(r) \/ EndAllSessions(r)
    BY <2>6, LogoutIsGood, LogoutWithoutRowIsGood, EndAllSessionsIsGood
  <2>7. CASE \E v \in Jtis : RevokeAuthSession(r, v)
    BY <2>7, RevokeAuthSessionIsGood
  <2>8. CASE AdminHandler(r)
    BY <2>8, CreateUserIsGood, ChangeRoleIsGood, DeleteUserIsGood, UpdateStatusIsGood
       DEF AdminHandler
  <2> QED
    BY <1>4, <2>1, <2>2, <2>3, <2>4, <2>5, <2>6, <2>7, <2>8 DEF RequestStep, Handler
<1> QED
  BY <1>1, <1>2, <1>3, <1>4 DEF Next

LEMMA IInvStep == IInv /\ [Next]_vars => IInv'
<1> SUFFICES ASSUME IInv, [Next]_vars PROVE IInv'
  OBVIOUS
<1>1. CASE Good
  BY <1>1, KillKeepsRowsSafe DEF IInv, Good
<1>2. CASE Writes
  BY <1>2, SignInKeepsIInv, RefreshKeepsIInv, TouchKeepsIInv, StepUpKeepsIInv DEF Writes
<1> QED
  BY <1>1, <1>2, StepShape

\* The invariant that carries all the others holds in every reachable state.
THEOREM Invariance == Spec => []IInv
  BY IInvInit, IInvStep, PTL DEF Spec

\* Every variable keeps its type, and a request in progress its bearer.
THEOREM TypeCorrect == Spec => []TypeOK
<1>1. IInv => TypeOK
  BY DEF IInv
<1> QED BY <1>1, Invariance, PTL

\* "At every moment a device has exactly one live token" (refresh_session),
\* for any number of requests racing on it.
THEOREM RotationNeverForks == Spec => []OneLiveTokenPerDevice
<1>1. IInv => OneLiveTokenPerDevice
  BY DEF IInv, SafeRows
<1> QED BY <1>1, Invariance, PTL

\* No live row survives a change of the account's status, role or version.
THEOREM LiveSessionsAreCurrent == Spec => []LiveIsCurrent
<1>1. IInv => LiveIsCurrent
  BY DEF IInv, SafeRows
<1> QED BY <1>1, Invariance, PTL

\* A denylisted token has no live row.
THEOREM DenylistAgrees == Spec => []DenylistedIsDead
<1>1. IInv => DenylistedIsDead
  BY DEF IInv, SafeRows
<1> QED BY <1>1, Invariance, PTL

\* A device session once ended has no live token, whatever was in flight.
THEOREM ClosingIsFinal == Spec => []ClosedFamilyIsDead
<1>1. IInv => ClosedFamilyIsDead
  BY DEF IInv, SafeRows
<1> QED BY <1>1, Invariance, PTL

\* Rotation restarts no clock of the device.
THEOREM RotationKeepsClocks == Spec => []ClocksFollowDevice
<1>1. IInv => ClocksFollowDevice
  BY DEF IInv, SafeRows
<1> QED BY <1>1, Invariance, PTL

-----------------------------------------------------------------------------
(* An administrator remains.                                               *)

LEMMA ActorIsAdmin ==
    ASSUME IInv, NEW r \in Requests, NEW k, Administers(r, k)
    PROVE  Actor(r) \in Users /\ user[Actor(r)].status = "active" /\ user[Actor(r)].role = "admin"
<1>1. req[r].pc \notin Done
  BY DEF Administers, Handles, Done
<1> QED
  BY <1>1, BearerType DEF IInv, Administers, Actor, LockAdminMutation, LockAccountMutation,
     BearerLocked, LockUser

LEMMA AdminStep == ASSUME IInv, AnAdminRemains, [Next]_vars PROVE AnAdminRemains'
<1> DEFINE Adm(v) == user[v].status = "active" /\ user[v].role = "admin"
<1>0. PICK a \in Users : Adm(a)
  BY DEF AnAdminRemains
<1>1. CASE UNCHANGED user
  BY <1>1 DEF AnAdminRemains
<1>2. ASSUME NEW u \in Users, user' = BumpVersion(u) PROVE AnAdminRemains'
  BY <1>0, <1>2, BumpType, ZenonT(60) DEF IInv, AnAdminRemains
<1>3. ASSUME NEW u \in Users, Register(u) PROVE AnAdminRemains'
  <2>1. a # u
    BY <1>0, <1>3 DEF Register
  <2> QED BY <1>0, <1>3, <2>1 DEF Register, AnAdminRemains, IInv, TypeOK
<1>4. ASSUME NEW r \in Requests, AdminHandler(r) PROVE AnAdminRemains'
  <2>1. ASSUME NEW u \in Users, NEW role \in Roles, AdminCreateUser(r, u, role)
        PROVE AnAdminRemains'
    <3>1. a # u
      BY <1>0, <2>1 DEF AdminCreateUser
    <3> QED BY <1>0, <2>1, <3>1 DEF AdminCreateUser, AnAdminRemains, IInv, TypeOK
  <2>2. ASSUME NEW u \in Users, AdminDeleteUser(r, u) PROVE AnAdminRemains'
    <3>1. a # u
      BY <1>0, <2>2 DEF AdminDeleteUser
    <3> QED BY <1>0, <2>2, <3>1 DEF AdminDeleteUser, AnAdminRemains, IInv, TypeOK
  <2>3. ASSUME NEW u \in Users, NEW role \in Roles, AdminChangeRole(r, u, role)
        PROVE AnAdminRemains'
    <3>1. Actor(r) \in Users /\ Adm(Actor(r)) /\ Actor(r) # u
      BY <2>3, ActorIsAdmin DEF AdminChangeRole
    <3>2. user'[Actor(r)] = user[Actor(r)]
      BY <2>3, <3>1, BumpType DEF AdminChangeRole, IInv
    <3> QED BY <3>1, <3>2 DEF AnAdminRemains
  <2>4. ASSUME NEW u \in Users, NEW status \in {"active", "suspended"}, UpdateUserStatus(r, u, status)
        PROVE AnAdminRemains'
    <3>1. Actor(r) \in Users /\ Adm(Actor(r))
      BY <2>4, ActorIsAdmin DEF UpdateUserStatus
    <3>2. CASE user[u].status = status
      BY <2>4, <3>2, <1>1 DEF UpdateUserStatus
    <3>3. CASE user[u].status # status
      <4>1. Actor(r) # u
        BY <2>4, <3>1, <3>3 DEF UpdateUserStatus
      <4>2. user'[Actor(r)] = user[Actor(r)]
        <5>1. /\ BumpVersion(u) \in [Users -> Account]
              /\ BumpVersion(u)[Actor(r)] = user[Actor(r)]
          BY <3>1, <4>1, BumpType DEF IInv
        <5>2. user' = [BumpVersion(u) EXCEPT ![u] = [BumpVersion(u)[u] EXCEPT !.status = status]]
          BY <2>4, <3>3 DEF UpdateUserStatus
        <5> QED BY <3>1, <4>1, <5>1, <5>2
      <4> QED BY <3>1, <4>2 DEF AnAdminRemains
    <3> QED BY <3>2, <3>3
  <2> QED BY <1>4, <2>1, <2>2, <2>3, <2>4 DEF AdminHandler
<1>5. ASSUME NEW r \in Requests, RequestStep(r) PROVE AnAdminRemains'
  <2>1. CASE ReadSession(r) \/ Admit(r) \/ DetectReuse(r) \/ Touch(r) \/ ExpireOnUse(r) \/ Decode(r)
    BY <1>1, <2>1 DEF ReadSession, Admit, DetectReuse, Touch, ExpireOnUse, Decode
  <2>2. CASE (\E n \in Jtis : RefreshSession(r, n)) \/ Logout(r)
    BY <1>1, <2>2, SMTT(60) DEF RefreshSession, Logout
  <2>3. CASE (\E v \in Jtis : RevokeAuthSession(r, v)) \/ StepUp(r) \/ Mutate(r)
    BY <1>1, <2>3 DEF RevokeAuthSession, StepUp, Mutate
  <2>4. CASE LogoutWithoutRow(r)
    <3>1. jwt[req[r].tok].sub \in Users
      BY <2>4, BearerType DEF LogoutWithoutRow, Handles, Done, IInv
    <3> QED BY <1>2, <2>4, <3>1 DEF LogoutWithoutRow
  <2>5. CASE EndAllSessions(r)
    <3>1. jwt[req[r].tok].sub \in Users
      BY <2>5, BearerType DEF EndAllSessions, Handles, Done, IInv
    <3> QED BY <1>2, <2>5, <3>1 DEF EndAllSessions
  <2>6. CASE AdminHandler(r)
    BY <1>4, <2>6
  <2> QED
    BY <1>5, <2>1, <2>2, <2>3, <2>4, <2>5, <2>6 DEF RequestStep, Handler
<1>6. CASE Environment
  <2>1. CASE \E u \in Users : ConfirmPasswordReset(u)
    BY <1>2, <2>1 DEF ConfirmPasswordReset
  <2>2. CASE \E u \in Users : Register(u)
    BY <1>3, <2>2
  <2>3. CASE UNCHANGED user
    BY <1>1, <2>3
  <2> QED
    BY <1>6, <2>1, <2>2, <2>3 DEF Environment, SignIn, Purge, Arrive, Abandon
<1> QED
  BY <1>1, <1>5, <1>6 DEF Next, vars, Tick

\* However administrators race, one active administrator remains.
THEOREM AdministratorsCannotLockThemselvesOut == Spec => []AnAdminRemains
<1>1. Init => AnAdminRemains
  BY DEF Init, AnAdminRemains
<1> QED BY <1>1, Invariance, AdminStep, PTL DEF Spec

-----------------------------------------------------------------------------
(* What a step may never do.                                               *)

\* A request that acts holds a live, unexpired bearer when it does.
LEMMA ActsUnderLock ==
    ASSUME IInv, [Next]_vars, NEW r \in Requests, Acts(r)
    PROVE  req[r].tok \in Jtis /\ LockAccountMutation(req[r].tok)
<1>1. req[r].pc = "lock" /\ req'[r].pc = "ok" /\ req[r].kind # "logout" /\ req[r].tok \in Jtis
  BY DEF Acts, IInv, TypeOK, Done
<1>2. req' # req
  BY <1>1
<1>3. ASSUME NEW q \in Requests, NEW pc, Answer(q, pc) PROVE q = r /\ pc = "ok"
  BY <1>1, <1>3 DEF Answer, IInv, TypeOK, NoRequest
<1>4. ASSUME NEW q \in Requests, NEW pc, pc # "ok", Goto(q, pc) PROVE FALSE
  <2>1. req[q] \in Request
    BY DEF IInv, TypeOK
  <2>2. req' = [req EXCEPT ![q] = [req[q] EXCEPT !.pc = pc, !.seen = NoSession]]
    BY <1>4 DEF Goto
  <2> QED BY <1>1, <1>4, <2>1, <2>2 DEF IInv, TypeOK, Request
<1>5. CASE Environment
  <2>1. ASSUME NEW q \in Requests, Abandon(q) PROVE FALSE
    BY <1>3, <2>1 DEF Abandon
  <2>2. ASSUME NEW q \in Requests, NEW k \in Kinds, NEW j \in Jtis, Arrive(q, k, j) PROVE FALSE
    BY <1>1, <2>2 DEF Arrive, IInv, TypeOK
  <2> QED
    BY <1>2, <1>5, <2>1, <2>2 DEF Environment, SignIn, Register, ConfirmPasswordReset, Purge
<1>6. ASSUME NEW q \in Requests, RequestStep(q) PROVE LockAccountMutation(req[r].tok)
  <2>1. CASE ReadSession(q)
    <3>1. req[q] \in Request
      BY DEF IInv, TypeOK
    <3>2. req' = [req EXCEPT ![q] = [req[q] EXCEPT !.pc = "denylist", !.seen = session[req[q].tok]]]
      BY <2>1 DEF ReadSession
    <3> QED BY <1>1, <3>1, <3>2 DEF IInv, TypeOK, Request
  <2>2. CASE Admit(q)
    <3>1. CASE req' = [req EXCEPT ![q].pc = "reuse"]
      BY <1>1, <3>1 DEF IInv, TypeOK, Request
    <3> QED BY <1>3, <1>4, <2>2, <3>1 DEF Admit
  <2>3. CASE DetectReuse(q) \/ Touch(q) \/ ExpireOnUse(q) \/ Decode(q)
    <3>1. CASE DetectReuse(q)
      BY <1>3, <1>4, <3>1 DEF DetectReuse
    <3>2. CASE Touch(q)
      BY <1>3, <1>4, <3>2 DEF Touch
    <3>3. CASE ExpireOnUse(q)
      BY <1>3, <1>4, <3>3 DEF ExpireOnUse
    <3>4. CASE Decode(q)
      BY <1>3, <1>4, <3>4 DEF Decode
    <3> QED BY <2>3, <3>1, <3>2, <3>3, <3>4
  <2>4. CASE Logout(q) \/ LogoutWithoutRow(q)
    BY <1>1, <1>3, <2>4 DEF Logout, LogoutWithoutRow, Handles
  <2>5. CASE (\E n \in Jtis : RefreshSession(q, n)) \/ (\E v \in Jtis : RevokeAuthSession(q, v))
    BY <1>3, <2>5, SMTT(60) DEF RefreshSession, RevokeAuthSession
  <2>6. CASE EndAllSessions(q) \/ StepUp(q) \/ Mutate(q)
    BY <1>3, <2>6, SMTT(60) DEF EndAllSessions, StepUp, Mutate
  <2>7. CASE AdminHandler(q)
    BY <1>3, <2>7 DEF AdminHandler, AdminCreateUser, AdminChangeRole, AdminDeleteUser,
       UpdateUserStatus, Administers, LockAdminMutation
  <2> QED
    BY <1>6, <2>1, <2>2, <2>3, <2>4, <2>5, <2>6, <2>7 DEF RequestStep, Handler
<1> QED
  BY <1>1, <1>2, <1>5, <1>6 DEF Next, vars, Tick

\* No request has an effect after its device session was ended.
THEOREM NoLateEffects == Spec => NoEffectAfterClose
<1>1. IInv /\ [Next]_vars =>
        [\A r \in Requests : Acts(r) => session[req[r].tok].fam \notin closed]_vars
  BY ActsUnderLock, LiveIsMinted DEF IInv, SafeRows, ClosedFamilyIsDead, LockAccountMutation,
     BearerLocked, LockAuthSession
<1> QED BY <1>1, Invariance, PTL DEF Spec, NoEffectAfterClose

\* No request has an effect past the device's absolute or idle deadline,
\* however many rotations lie between the sign-in and the request.
THEOREM DeadlinesHold == Spec => NoEffectPastDeadline
<1> DEFINE Timely(r) == LET f == session[req[r].tok].fam
                        IN  now < jwt[f].iat + AbsoluteLife /\ now < device[f].used + IdleLife
<1>1. ASSUME IInv, [Next]_vars, NEW r \in Requests, Acts(r) PROVE Timely(r)
  <2>1. req[r].tok \in Jtis /\ LockAccountMutation(req[r].tok)
    BY <1>1, ActsUnderLock
  <2>2. Live(req[r].tok) /\ ~Expired(req[r].tok, session[req[r].tok])
    BY <2>1 DEF LockAccountMutation, BearerLocked, LockAuthSession
  <2>3. /\ session[req[r].tok].root = jwt[session[req[r].tok].fam].iat
        /\ session[req[r].tok].act = device[session[req[r].tok].fam].used
    BY <1>1, <2>1, <2>2 DEF IInv, SafeRows, ClocksFollowDevice
  <2>4. session[req[r].tok] \in Session /\ now \in Nat
    BY <1>1, <2>1 DEF IInv, TypeOK
  <2> QED BY <2>2, <2>3, <2>4 DEF Expired, Session
<1>2. IInv /\ [Next]_vars => [\A r \in Requests : Acts(r) => Timely(r)]_vars
  BY <1>1, SMTT(60)
<1> QED BY <1>2, Invariance, PTL DEF Spec, NoEffectPastDeadline

\* What refresh does to the rows: the bearer k hands its row over to n.
LEMMA RotatedRows ==
    ASSUME IInv, NEW r \in Requests, NEW n \in Jtis, RefreshSession(r, n)
    PROVE  \E k \in Jtis : /\ Live(k) /\ ~Minted(n) /\ k # n
                           /\ session'[n] = session[k] /\ jwt'[n].sub = jwt[k].sub
                           /\ session'[k].state = "revoked" /\ session'[k].fam = session[k].fam
                           /\ \A i \in Jtis : i # n => jwt'[i] = jwt[i]
                           /\ \A i \in Jtis : i # n /\ i # k => session'[i] = session[i]
<1>1. PICK k \in Jtis : k = req[r].tok /\ Live(k)
  <2>1. req[r].pc \notin Done
    BY DEF RefreshSession, Handles, Done
  <2> QED
    BY <2>1 DEF IInv, TypeOK, RefreshSession, LockAccountMutation, BearerLocked, LockAuthSession
<1>2. /\ jwt' = [jwt EXCEPT ![n] = [sub |-> jwt[k].sub, ver |-> user[jwt[k].sub].ver,
                                    role |-> user[jwt[k].sub].role, iat |-> now]]
      /\ session' = [Revoke({k}) EXCEPT ![n] = RotatedRow(session[k])]
      /\ ~Minted(n) /\ k # n
  BY <1>1 DEF RefreshSession, IssueAccessSession, Minted, Live
<1>3. session[k] \in Session /\ RotatedRow(session[k]) = session[k]
  BY <1>1 DEF RotatedRow, Live, IInv, TypeOK, Session
<1>4. /\ Revoke({k})[k] = [session[k] EXCEPT !.state = "revoked"]
      /\ \A i \in Jtis : i # k => Revoke({k})[i] = session[i]
  BY DEF Revoke
<1>5. Revoke({k})[k].state = "revoked" /\ Revoke({k})[k].fam = session[k].fam
  BY <1>3, <1>4 DEF Session
<1>6. \A i \in Jtis : i # n => session'[i] = Revoke({k})[i]
  BY <1>2 DEF Revoke
<1>7. session'[n] = session[k]
  BY <1>2, <1>3 DEF Revoke
<1>8. jwt'[n].sub = jwt[k].sub /\ \A i \in Jtis : i # n => jwt'[i] = jwt[i]
  BY <1>2 DEF IInv, TypeOK
<1>9. session'[k] = Revoke({k})[k] /\ \A i \in Jtis : i # n /\ i # k => session'[i] = session[i]
  BY <1>2, <1>4, <1>6
<1> HIDE DEF Revoke
<1> QED
  BY <1>1, <1>2, <1>5, <1>7, <1>8, <1>9

\* Touch and StepUp change clocks only.
LEMMA ClockRows ==
    ASSUME IInv, NEW r \in Requests, Touch(r) \/ StepUp(r)
    PROVE  \A i \in Jtis : /\ jwt'[i] = jwt[i] /\ session'[i].fam = session[i].fam
                           /\ session'[i].state = session[i].state
<1>1. PICK j \in Jtis : j = req[r].tok
  BY DEF IInv, TypeOK, Touch, StepUp, Handles, Done
<1>2. session[j] \in Session
  BY SMTT(60) DEF IInv, TypeOK
<1>3. jwt' = jwt
  BY ZenonT(60) DEF Touch, StepUp
<1>4. \/ session' = session
      \/ session' = [session EXCEPT ![j] = [session[j] EXCEPT !.act = now]]
      \/ session' = [session EXCEPT ![j] = [session[j] EXCEPT !.step = now]]
  BY <1>1 DEF Touch, StepUp
<1>5. /\ [session[j] EXCEPT !.act = now].fam = session[j].fam
      /\ [session[j] EXCEPT !.act = now].state = session[j].state
      /\ [session[j] EXCEPT !.step = now].fam = session[j].fam
      /\ [session[j] EXCEPT !.step = now].state = session[j].state
  BY <1>2 DEF Session
<1> QED
  BY <1>3, <1>4, <1>5 DEF IInv, TypeOK

\* A dead row, and a family without a live token, stay dead.
THEOREM NothingRevives == Spec => DeadStaysDead
<1> DEFINE Stays(j) ==
      /\ session[j].state \in {"revoked", "gone"} => session'[j].state # "live"
      /\ (Minted(j) /\ LiveOfFamily(jwt[j].sub, session[j].fam) = {})
           => LiveOfFamily(jwt[j].sub, session[j].fam)' = {}
<1>1. ASSUME IInv, [Next]_vars, NEW j \in Jtis PROVE Stays(j)
  <2>1. SUFFICES /\ \A i \in Jtis : Minted(i) => /\ Live(i)' => Live(i)
                                                 /\ jwt'[i] = jwt[i]
                                                 /\ session'[i].fam = session[i].fam
                 /\ \A i \in Jtis : ~Minted(i) /\ Live(i)' =>
                       \/ session'[i].fam = i
                       \/ \E k \in Jtis : /\ Live(k) /\ session'[i].fam = session[k].fam
                                          /\ jwt'[i].sub = jwt[k].sub
    <3>1. Stays(j)!1
      BY <2>1 DEF Minted, Live
    <3>2. ASSUME Minted(j), LiveOfFamily(jwt[j].sub, session[j].fam) = {}
          PROVE  LiveOfFamily(jwt[j].sub, session[j].fam)' = {}
      <4>1. SUFFICES ASSUME NEW i \in Jtis, Live(i)', jwt'[i].sub = jwt[j].sub,
                            session'[i].fam = session[j].fam
                     PROVE  FALSE
        BY <2>1, <3>2 DEF LiveOfFamily, LiveOfAccount
      <4>2. \A k \in Jtis : ~(Live(k) /\ session[k].fam = session[j].fam /\ jwt[k].sub = jwt[j].sub)
        BY <3>2 DEF LiveOfFamily, LiveOfAccount
      <4>3. Minted(session[j].fam) /\ session[j].fam \in Jtis
        BY <1>1, <3>2 DEF IInv, SafeRows, FamiliesRooted, TypeOK
      <4>4. CASE Minted(i)
        BY <2>1, <4>1, <4>2, <4>4
      <4>5. CASE ~Minted(i)
        BY <2>1, <4>1, <4>2, <4>3, <4>5
      <4> QED BY <4>4, <4>5
    <3> QED BY <3>1, <3>2
  <2>2. CASE Good
    BY <2>2 DEF Good, Kill, Live, Minted
  <2>3. ASSUME NEW u \in Users, NEW n \in Jtis, SignIn(u, n)
        PROVE  /\ \A i \in Jtis : i # n => session'[i] = session[i] /\ jwt'[i] = jwt[i]
               /\ ~Minted(n) /\ session'[n].fam = n
    BY <1>1, <2>3 DEF SignIn, IssueAccessSession, SignInRow, IInv, TypeOK, Minted
  <2>6. CASE \E u \in Users, n \in Jtis : SignIn(u, n)
    BY <2>3, <2>6 DEF Live, Minted
  <2>7. CASE \E r \in Requests, n \in Jtis : RefreshSession(r, n)
    BY <1>1, <2>7, RotatedRows DEF Live, Minted
  <2>8. CASE \E r \in Requests : Touch(r) \/ StepUp(r)
    BY <1>1, <2>8, ClockRows DEF Live, Minted
  <2> QED
    BY <1>1, <2>2, <2>6, <2>7, <2>8, StepShape DEF Writes
<1>2. IInv /\ [Next]_vars => [\A j \in Jtis : Stays(j)]_vars
  BY <1>1
<1> QED BY <1>2, Invariance, PTL DEF Spec, DeadStaysDead

-----------------------------------------------------------------------------
(* AuthSessions implements DeviceSessions.                                 *)

LEMMA HolderIs ==
    ASSUME OneLiveTokenPerDevice, NEW j \in Jtis, Live(j)
    PROVE  Holder(session[j].fam) = j
BY DEF Holder, OneLiveTokenPerDevice

LEMMA HolderNone ==
    ASSUME NEW f, \A j \in Jtis : ~(Live(j) /\ session[j].fam = f)
    PROVE  Holder(f) = NoJti
BY DEF Holder

\* The holder depends only on which rows are live and in which family.
LEMMA HolderSame ==
    ASSUME IInv, IInv', NEW f \in Jtis,
           \A j \in Jtis : (Live(j) /\ session[j].fam = f) <=> (Live(j)' /\ session'[j].fam = f)
    PROVE  Holder(f)' = Holder(f)
<1>1. CASE \E j \in Jtis : Live(j) /\ session[j].fam = f
  <2> PICK j \in Jtis : Live(j) /\ session[j].fam = f
    BY <1>1
  <2>1. Holder(f) = j
    BY HolderIs DEF IInv, SafeRows
  <2>2. Holder(f)' = j
    BY DEF Holder, IInv, SafeRows, OneLiveTokenPerDevice
  <2> QED BY <2>1, <2>2
<1>2. CASE ~\E j \in Jtis : Live(j) /\ session[j].fam = f
  BY <1>2 DEF Holder
<1> QED BY <1>1, <1>2

LEMMA KillEndsDevices ==
    ASSUME IInv, IInv', Kill
    PROVE  \E F \in SUBSET {j \in Jtis : Minted(j) /\ session[j].fam = j} : Device!End(F)
<1> DEFINE opened == {j \in Jtis : Minted(j) /\ session[j].fam = j}
           F == {f \in opened : \A j \in Jtis : ~(Live(j)' /\ session'[j].fam = f)}
<1>1. \A j \in Jtis : /\ (Minted(j)' <=> Minted(j)) /\ session'[j].fam = session[j].fam
                      /\ Live(j)' => Live(j)
  BY DEF Kill, Minted, Live
<1>2. ASSUME NEW f \in Jtis
      PROVE  Holder(f)' = IF f \in F THEN NoJti ELSE Holder(f)
  <2>1. CASE \E j \in Jtis : Live(j)' /\ session'[j].fam = f
    <3> PICK j \in Jtis : Live(j)' /\ session'[j].fam = f
      BY <2>1
    <3>1. f \notin F
      OBVIOUS
    <3>2. Holder(f) = j
      BY <1>1, HolderIs DEF IInv, SafeRows
    <3>3. Holder(f)' = j
      BY DEF Holder, IInv, SafeRows, OneLiveTokenPerDevice
    <3> QED BY <3>1, <3>2, <3>3
  <2>2. CASE ~\E j \in Jtis : Live(j)' /\ session'[j].fam = f
    <3>1. Holder(f)' = NoJti
      BY <2>2 DEF Holder
    <3>2. CASE f \in opened
      BY <2>2, <3>1, <3>2
    <3>3. CASE f \notin opened
      <4>1. \A j \in Jtis : ~(Live(j) /\ session[j].fam = f)
        BY <3>3, LiveIsMinted DEF IInv, SafeRows, FamiliesRooted
      <4>2. Holder(f) = NoJti
        BY <4>1, HolderNone
      <4> QED BY <3>1, <4>2
    <3> QED BY <3>2, <3>3
  <2> QED BY <2>1, <2>2
<1>3. [f \in Jtis |-> Holder(f)]' = [f \in Jtis |-> IF f \in F THEN NoJti ELSE Holder(f)]
  BY <1>2
<1>4. /\ {j \in Jtis : Minted(j)}' = {j \in Jtis : Minted(j)}
      /\ opened' = opened
  BY <1>1
<1>5. Device!End(F)
  <2>1. [f \in Jtis |-> IF f \in F THEN NoJti ELSE Holder(f)]
        = [f \in Jtis |-> IF f \in F THEN NoJti ELSE [g \in Jtis |-> Holder(g)][f]]
    OBVIOUS
  <2> HIDE DEF F
  <2> QED BY <1>3, <1>4, <2>1 DEF Device!End
<1>6. F \in SUBSET opened
  OBVIOUS
<1> QED BY <1>5, <1>6

\* Everything a device can observe is allowed by DeviceSessions.
THEOREM Refinement == Spec => ImplementsDeviceSessions
<1>1. Init => Device!Init
  <2> SUFFICES ASSUME Init PROVE Device!Init
    OBVIOUS
  <2>1. \A j \in Jtis : ~Minted(j) /\ ~Live(j)
    BY DEF Init, NoSession, Minted, Live
  <2>2. \A f \in Jtis : Holder(f) = NoJti
    BY <2>1 DEF Holder
  <2> QED BY <2>1, <2>2 DEF Device!Init
<1>2. ASSUME IInv, IInv', [Next]_vars PROVE [Device!Next]_(Device!dvars)
  <2>1. CASE Good
    BY <1>2, <2>1, KillEndsDevices DEF Good, Device!Next
  <2>2. ASSUME NEW u \in Users, NEW n \in Jtis, SignIn(u, n) PROVE Device!Open(n)
    <3>1. /\ ~Minted(n) /\ session'[n] = SignInRow(n)
          /\ \A j \in Jtis : j # n => session'[j] = session[j]
      BY <1>2, <2>2 DEF SignIn, IssueAccessSession, Minted, IInv, TypeOK
    <3>2. Live(n)' /\ Minted(n)' /\ session'[n].fam = n
      BY <3>1 DEF SignInRow, Live, Minted
    <3>3. \A j \in Jtis : j # n => (Minted(j)' <=> Minted(j)) /\ (Live(j)' <=> Live(j))
                                   /\ session'[j].fam = session[j].fam
      BY <3>1 DEF Live, Minted
    <3>4. \A j \in Jtis : Minted(j) => session[j].fam # n
      BY <1>2, <3>1 DEF IInv, SafeRows, FamiliesRooted
    <3>5. Holder(n)' = n
      BY <1>2, <3>2 DEF Holder, IInv, SafeRows, OneLiveTokenPerDevice
    <3>6. ASSUME NEW f \in Jtis, f # n PROVE Holder(f)' = Holder(f)
      <4>1. \A j \in Jtis : (Live(j) /\ session[j].fam = f) <=> (Live(j)' /\ session'[j].fam = f)
        BY <3>1, <3>2, <3>3, <3>6, LiveIsMinted
      <4> QED BY <1>2, <3>6, <4>1, HolderSame
    <3>7. [f \in Jtis |-> Holder(f)]' = [[f \in Jtis |-> Holder(f)] EXCEPT ![n] = n]
      BY <3>5, <3>6
    <3>8. {j \in Jtis : Minted(j)}' = {j \in Jtis : Minted(j)} \cup {n}
      BY <3>2, <3>3
    <3>9. {j \in Jtis : Minted(j) /\ session[j].fam = j}'
          = {j \in Jtis : Minted(j) /\ session[j].fam = j} \cup {n}
      BY <3>2, <3>3
    <3> QED BY <3>1, <3>7, <3>8, <3>9 DEF Device!Open
  <2>3. ASSUME NEW r \in Requests, NEW n \in Jtis, RefreshSession(r, n)
        PROVE  \E f \in Jtis : Device!Rotate(f, n)
    <3>1. PICK k \in Jtis : /\ Live(k) /\ ~Minted(n) /\ k # n
                            /\ session'[n] = session[k]
                            /\ session'[k].state = "revoked" /\ session'[k].fam = session[k].fam
                            /\ \A i \in Jtis : i # n /\ i # k => session'[i] = session[i]
      BY <1>2, <2>3, RotatedRows
    <3>2. PICK f \in Jtis : f = session[k].fam
      BY <1>2, <3>1, LiveIsMinted DEF IInv, TypeOK
    <3>8. /\ Live(n)' /\ Minted(n)' /\ session'[n].fam = f /\ ~Live(k)' /\ Minted(k)'
          /\ \A i \in Jtis : i # n => (Minted(i)' <=> Minted(i)) /\ session'[i].fam = session[i].fam
          /\ \A i \in Jtis : i # n /\ i # k => (Live(i)' <=> Live(i))
      BY <3>1, <3>2 DEF Live, Minted
    <3>9. Holder(f) = k /\ k # NoJti
      BY <1>2, <3>1, <3>2, HolderIs DEF IInv, SafeRows
    <3>10. Holder(f)' = n
      BY <1>2, <3>8 DEF Holder, IInv, SafeRows, OneLiveTokenPerDevice
    <3>11. ASSUME NEW g \in Jtis, g # f PROVE Holder(g)' = Holder(g)
      <4>1. \A j \in Jtis : (Live(j) /\ session[j].fam = g) <=> (Live(j)' /\ session'[j].fam = g)
        BY <3>1, <3>2, <3>8, <3>11, LiveIsMinted
      <4> QED BY <1>2, <3>11, <4>1, HolderSame
    <3>12. [g \in Jtis |-> Holder(g)]' = [[g \in Jtis |-> Holder(g)] EXCEPT ![f] = n]
      BY <3>10, <3>11
    <3>13. {j \in Jtis : Minted(j)}' = {j \in Jtis : Minted(j)} \cup {n}
      BY <3>8
    <3>14. {j \in Jtis : Minted(j) /\ session[j].fam = j}'
           = {j \in Jtis : Minted(j) /\ session[j].fam = j}
      <4>1. f # n
        BY <1>2, <3>1, <3>2, LiveIsMinted DEF IInv, SafeRows, FamiliesRooted
      <4> QED BY <3>1, <3>8, <4>1
    <3> QED BY <3>1, <3>9, <3>12, <3>13, <3>14 DEF Device!Rotate
  <2>4. ASSUME NEW r \in Requests, Touch(r) \/ StepUp(r) PROVE UNCHANGED Device!dvars
    <3>1. \A i \in Jtis : session'[i].fam = session[i].fam /\ session'[i].state = session[i].state
      BY <1>2, <2>4, ClockRows
    <3>2. \A i \in Jtis : (Minted(i)' <=> Minted(i)) /\ (Live(i)' <=> Live(i))
      BY <3>1 DEF Minted, Live
    <3>3. \A f \in Jtis : Holder(f)' = Holder(f)
      BY <1>2, <3>1, <3>2, HolderSame
    <3>4. {j \in Jtis : Minted(j)}' = {j \in Jtis : Minted(j)}
      BY <3>2
    <3>5. {j \in Jtis : Minted(j) /\ session[j].fam = j}' = {j \in Jtis : Minted(j) /\ session[j].fam = j}
      BY <3>1, <3>2
    <3> QED BY <3>3, <3>4, <3>5 DEF Device!dvars
  <2> QED
    BY <1>2, <2>1, <2>2, <2>3, <2>4, StepShape DEF Writes, Device!Next
<1> QED
  BY <1>1, <1>2, Invariance, PTL DEF Spec, ImplementsDeviceSessions, Device!Spec

\* logout, revocation and the sweep: what has ended stays ended.
THEOREM EndingIsFinal == Spec => EndedIsFinal
<1>1. Spec => []ClosedFamilyIsDead /\ []DenylistedIsDead /\ []LiveIsCurrent /\ DeadStaysDead
  BY ClosingIsFinal, DenylistAgrees, LiveSessionsAreCurrent, NothingRevives
<1> QED BY <1>1, PTL DEF EndedIsFinal

\* lock_account_mutation: a request that waited has no late effect.
THEOREM WaitingGrantsNothing == Spec => NoLateEffect
BY NoLateEffects, DeadlinesHold, PTL DEF NoLateEffect
=============================================================================
