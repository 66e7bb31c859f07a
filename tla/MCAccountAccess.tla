--------------------------- MODULE MCAccountAccess ---------------------------
(***************************************************************************)
(* Model-checking instances of what a request meets on its way into an     *)
(* account: admission, bans, rate limits, the password step, passkeys,     *)
(* recovery by mail, phones and push notices, the tabs of a browser and    *)
(* the files they attach.                                                  *)
(*                                                                         *)
(* A behaviour is one of a single component, named by `load': the state    *)
(* space is the disjoint sum of the components'.  Each has variables of    *)
(* its own, which rest in the behaviours of the others.                    *)
(***************************************************************************)
EXTENDS Admission, RateLimits, ChatFiles, Bans, Passkeys, LoginGuard, UiTokens,
        AccountRecovery, Notices, TLC

CONSTANTS Loads, u1, u2, m1, s1, s2, k1, p1, p2, e1, t1, t2, n1, n2, r1, r2, d1, f, None

VARIABLE load

front == <<vars, limitVars, fileVars, banVars>>
access == <<passkeyVars, guardVars, tabVars>>
contact == <<accountVars, noticeVars>>
state == <<load, front, access, contact>>

Unused == 0

-----------------------------------------------------------------------------
(* Parts of the components' bounds.                                        *)

\* Two networks in two places.
PlaceOfNet == [n \in {n1, n2} |-> IF n = n1 THEN 1 ELSE 2]

\* Three requests and two addresses; one request of an address at a time.
TwoRequests == [b \in {"request", "stream"} |-> IF b = "request" THEN 2 ELSE 1]
OnePerSource == [b \in {"request", "stream"} |-> 1]

-----------------------------------------------------------------------------

Contact(l) == load = l /\ UNCHANGED <<load, front, access>>
Access(l)  == load = l /\ UNCHANGED <<load, front, contact>>
Front(l)   == load = l /\ UNCHANGED <<load, access, contact>>

OnRecovery == Contact("recovery") /\ UNCHANGED noticeVars
OnMailbox  == Contact("mailbox")  /\ UNCHANGED noticeVars
OnBudget   == Contact("budget")   /\ UNCHANGED accountVars
OnPhones   == Contact("phones")   /\ UNCHANGED accountVars
OnPushes   == Contact("pushes")   /\ UNCHANGED accountVars
OnPasskeys == Access("passkeys")  /\ UNCHANGED <<guardVars, tabVars>>
OnStepUp   == Access("step_up")   /\ UNCHANGED <<guardVars, tabVars>>
OnTabs     == Access("tabs")      /\ UNCHANGED <<passkeyVars, guardVars>>
OnLogin    == Access("login")     /\ UNCHANGED <<passkeyVars, tabVars>>
OnAdmission == Front("admission") /\ UNCHANGED <<limitVars, fileVars, banVars>>
OnBans     == Front("bans")       /\ UNCHANGED <<vars, limitVars, fileVars>>
OnLimits   == Front("limits")     /\ UNCHANGED <<vars, fileVars, banVars>>
OnFiles    == Front("files")      /\ UNCHANGED <<vars, limitVars, banVars>>

\* The limiter when it is not run: what its invariant looks at is empty.
LimitsRest ==
    /\ time = 0 /\ admitted = [k \in Keys |-> <<>>] /\ returned = [k \in Keys |-> <<>>]
    /\ events = Unused /\ stored = Unused /\ expires = Unused /\ attempt = Unused

MCInit ==
    /\ load \in Loads /\ Init /\ FileInit /\ BanInit /\ PasskeyInit /\ TabInit /\ RecoveryInit
    /\ IF load = "limits" THEN LimitInit ELSE LimitsRest
    /\ GuardInit /\ (load # "login" => history = <<>>)
    /\ NoticeInit
    /\ alertBearer = [s \in {s1, s2} |-> IF load = "pushes" /\ s = s2 THEN u2 ELSE u1]

\* One account that still has its three codes: a mail is refused while a later code
\* is on its way.
MailsNext ==
    \/ OnRecovery /\ MailerStep
    \/ OnRecovery /\ \E k \in 1..3 : SendCode(k)
    \/ OnRecovery /\ \E k \in 1..3 : MailRefused(k)
    \/ OnRecovery /\ RequestEmailVerification(u1, m1)
    \/ OnRecovery /\ \E k \in 1..3 : VerifyAccountEmail(u1, k)
    \/ OnRecovery /\ \E k \in 1..3 : ConfirmReset(u1, k)
    \/ OnRecovery /\ RemoveAccountEmail(u1)
    \/ OnRecovery /\ RequestPasswordReset(u1)
    \/ OnRecovery /\ ChangeHolderPassword(u1)

\* Two accounts that want the same mailbox, two codes, over time; every mail is
\* delivered or fails.
TwoCodes == mailedCode[2].state = "new"

MailboxNext ==
    \/ OnMailbox /\ RecoveryTick
    \/ OnMailbox /\ SweepCodes
    \/ OnMailbox /\ (\E k \in 1..2 : MailStep(k)) /\ UNCHANGED recoveryVars
    \/ OnMailbox /\ \E k \in 1..2 : SendCode(k)
    \/ OnMailbox /\ TwoCodes /\ \E o \in {u1, u2} : RequestEmailVerification(o, m1)
    \/ OnMailbox /\ \E o \in {u1, u2}, k \in 1..2 : VerifyAccountEmail(o, k)
    \/ OnMailbox /\ \E o \in {u1, u2} : VerifyEmailWrongly(o)
    \/ OnMailbox /\ \E o \in {u1, u2} : RemoveAccountEmail(o)
    \/ OnMailbox /\ TwoCodes /\ \E o \in {u1, u2} : RequestPasswordReset(o)
    \/ OnMailbox /\ \E o \in {u1, u2}, k \in 1..2 : holder[o].pw < 1 /\ ConfirmReset(o, k)
    \/ OnMailbox /\ \E o \in {u1, u2} : ConfirmWrongly(o)
    \/ OnMailbox /\ \E o \in {u1, u2} : UpdateHolderStatus(o)

\* The next challenge: ids are random, so their order tells nothing.
Fresh == {c \in 1..3 : \A d \in 1..3 : d >= c <=> ceremony[d].state = "none"}

PasskeysNext ==
    \/ OnPasskeys /\ SuspendOwner(u1)
    \/ OnPasskeys /\ \E c \in Fresh : AuthenticationOptions(c)
    \/ OnPasskeys /\ \E c \in Fresh : RegistrationOptions(s1, u1, c)
    \/ OnPasskeys /\ \E c \in 1..3 : RegistrationVerify(s1, u1, c, k1)
    \/ OnPasskeys /\ DeletePasskey(s1, u1, k1)
    \/ OnPasskeys /\ \E c \in 1..3, n \in 0..1 : Sign(k1, c, n)
    \/ OnPasskeys /\ \E i \in {r1, r2}, x \in signed : FindOwner(i, x)
    \/ OnPasskeys /\ \E i \in {r1, r2} : AuthenticationVerify(i)

StepUpNext ==
    \/ OnStepUp /\ PasskeyTick
    \/ OnStepUp /\ \E s \in {s1, s2} : EndBearer(s)
    \/ OnStepUp /\ \E c \in 1..3 : SweepCeremony(c)
    \/ OnStepUp /\ \E s \in {s1, s2}, c \in Fresh : RegistrationOptions(s, u1, c)
    \/ OnStepUp /\ \E s \in {s1, s2}, c \in 1..3 : RegistrationVerify(s, u1, c, k1)
    \/ OnStepUp /\ \E s \in {s1, s2}, c \in Fresh : StepUpOptions(s, u1, c)
    \/ OnStepUp /\ \E s \in {s1, s2}, x \in signed : StepUpVerify(s, u1, x)
    \/ OnStepUp /\ \E s \in {s1, s2} : DeletePasskey(s, u1, k1)
    \/ OnStepUp /\ \E c \in 1..3, n \in 0..1 : Sign(k1, c, n)

\* Days of requests against the budget.
BudgetNext ==
    \/ OnBudget /\ NoticeTick
    \/ OnBudget /\ SweepProofs
    \/ OnBudget /\ \E p \in {p1, p2} : RequestPhone(s1, u1, p)
    \/ OnBudget /\ RemovePhone(s2, u1)
    \/ OnBudget /\ Logout(s1)

\* Two hours of codes that arrive and are entered.
PhonesNext ==
    \/ OnPhones /\ hour < 1 /\ NoticeTick
    \/ OnPhones /\ \E i \in 1..2 : TextArrives(i)
    \/ OnPhones /\ \E s \in {s1, s2} : Logout(s)
    \/ OnPhones /\ Len(proof) < 2 /\ \E s \in {s1, s2}, p \in {p1, p2} : RequestPhone(s, u1, p)
    \/ OnPhones /\ \E s \in {s1, s2} : RemovePhone(s, u1)
    \/ OnPhones /\ \E s \in {s1, s2}, i \in 1..2 : VerifyPhone(s, u1, i)
    \/ OnPhones /\ \E s \in {s1, s2}, i \in 1..2 : VerifyPhoneWrongly(s, u1, i)

\* Two accounts that use one browser.
PushesNext ==
    \/ OnPushes /\ CloseNotices
    \/ OnPushes /\ StartNotices
    \/ OnPushes /\ \E i \in 1..Len(row) : Drop(i)
    \/ OnPushes /\ \E s \in {s1, s2}, a \in {u1, u2} : SubscribePush(s, a, e1)
    \/ OnPushes /\ \E s \in {s1, s2}, a \in {u1, u2} : \E I \in SUBSET RowsOf(a) : Unsubscribe(s, a, I)
    \/ OnPushes /\ \E a \in {u1, u2} : Notify(d1, a)
    \/ OnPushes /\ Lookup(d1)
    \/ OnPushes /\ Finish(d1)
    \/ OnPushes /\ \E x \in task[d1].rows : Push(d1, x)
    \/ OnPushes /\ DeleteExpired(d1)

TabsNext ==
    \/ OnTabs /\ \E t \in {t1, t2} : DoLogin(t)
    \/ OnTabs /\ \E t \in {t1, t2} : RememberSession(t)
    \/ OnTabs /\ \E t \in {t1, t2} : CallApi(t)
    \/ OnTabs /\ \E t \in {t1, t2} : ExtendSession(t)
    \/ OnTabs /\ \E t \in {t1, t2} : RotateToken(t)
    \/ OnTabs /\ \E t \in {t1, t2} : Publish(t)
    \/ OnTabs /\ \E t \in {t1, t2} : RestoreSession(t)
    \/ OnTabs /\ \E t \in {t1, t2} : DoLogout(t)
    \/ OnTabs /\ \E t \in {t1, t2} : ExpireTab(t)
    \/ OnTabs /\ \E n \in 1..3 : TicketExpires(n)
    \/ OnTabs /\ \E n \in 1..3, arrives \in BOOLEAN : Attach(n, arrives)

LoginNext ==
    \/ OnLogin /\ GuardTick
    \/ OnLogin /\ PasswordReset
    \/ OnLogin /\ \E r \in {r1, r2} : RefuseLogin(r)
    \/ OnLogin /\ \E r \in {r1, r2} : FinishSignIn(r)
    \/ OnLogin /\ \E r \in {r1, r2}, n \in {n1, n2}, d \in 0..3, right \in BOOLEAN :
          Assess(r, n, f, d, right)

AdmissionNext ==
    \/ OnAdmission /\ \E r \in Requests, s \in Sources, kind \in Kinds : Admit(r, s, kind)
    \/ OnAdmission /\ \E r \in Requests, allowed \in BOOLEAN : SharedCheck(r, allowed)
    \/ OnAdmission /\ \E r \in Requests, good \in BOOLEAN : ReadBody(r, good)
    \/ OnAdmission /\ \E r \in Requests : Leave(r)
    \/ OnAdmission /\ \E r \in Requests : StartHash(r)
    \/ OnAdmission /\ \E r \in Requests : EndHash(r)
    \/ OnAdmission /\ \E r \in Requests : StartProbe(r)
    \/ OnAdmission /\ \E r \in Requests : EndProbe(r)

BansNext ==
    \/ OnBans /\ BanTick
    \/ OnBans /\ \E r \in Visits, s \in Addresses, w \in 0..2 : Arrive(r, s, w)
    \/ OnBans /\ \E r \in Visits : Check(r)
    \/ OnBans /\ \E r \in Visits : Record(r)
    \/ OnBans /\ \E r \in Visits : Conclude(r)
    \/ OnBans /\ \E r \in Visits : Fail(r)
    \/ OnBans /\ \E r \in Visits : AskUnblock(r, 1)
    \/ OnBans /\ \E r \in Visits : Unblock(r)
    \/ OnBans /\ \E r \in Visits : CommitUnblock(r)
    \/ OnBans /\ \E r \in Visits : Answered(r)

LimitsNext ==
    \/ OnLimits /\ LimitTick
    \/ OnLimits /\ \E i \in Attempts, k \in AccountKeys : ChargeAccount(i, k, n1)
    \/ OnLimits /\ \E i \in Attempts : ChargeAddress(i)
    \/ OnLimits /\ \E i \in Attempts : Wrong(i)
    \/ OnLimits /\ \E i \in Attempts : Right(i)
    \/ OnLimits /\ \E i \in Attempts : GiveBack(i)

FilesNext ==
    \/ OnFiles /\ Expire
    \/ OnFiles /\ Renew
    \/ OnFiles /\ \E u \in Uploads : FailUpload(u)
    \/ OnFiles /\ \E u \in Uploads : EndUpload(u)
    \/ OnFiles /\ \E u \in Uploads, k \in BearerTokens : (k = New => renewed) /\ BeginUpload(u, k)
    \/ OnFiles /\ \E k \in BearerTokens : ClearChatFile(k)
    \/ OnFiles /\ \E k \in BearerTokens : BeginSend(k)
    \/ OnFiles /\ \E k \in BearerTokens, i \in 1..Len(pending) : (k = New => renewed) /\ StageChatFile(k, i)
    \/ OnFiles /\ \E k \in BearerTokens, ok \in BOOLEAN : EndSend(k, ok)

MCNext ==
    \/ MailsNext \/ MailboxNext \/ PasskeysNext \/ StepUpNext
    \/ BudgetNext \/ PhonesNext \/ PushesNext \/ TabsNext \/ LoginNext
    \/ AdmissionNext \/ BansNext \/ LimitsNext \/ FilesNext

MCSpec == MCInit /\ [][MCNext]_state

\* No definition tells two tabs or two requests apart.
Symmetry == Permutations({t1, t2}) \cup Permutations({r1, r2})
=============================================================================
