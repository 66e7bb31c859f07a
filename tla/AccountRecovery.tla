--------------------------- MODULE AccountRecovery --------------------------
(***************************************************************************)
(* Recovery mailboxes and password resets by mailed code                   *)
(* (src/app/account_recovery.py, src/app/account_routes.py), delivered     *)
(* through Mailer.                                                         *)
(*                                                                         *)
(* Every handler holds the account lock from its checks to its commit and  *)
(* is one step; the mail leaves after the commit, and a reset whose mail   *)
(* is refused burns its code in a second transaction without the lock.     *)
(* confirm_password_reset resolves its identifier before it locks; any     *)
(* account may be named, so that read constrains nothing.                  *)
(***************************************************************************)
EXTENDS Mailer

CONSTANTS
    Accounts, Mailboxes,
    NoMailbox,       \* an account without a recovery mailbox
    CodeAttempts,    \* MAX_CODE_ATTEMPTS
    CodeLife,        \* password_reset_minutes
    MaxPassword,     \* bound: password changes
    RecoveryEnd      \* bound: time

ASSUME RecoveryAssumption ==
    /\ Mails \subseteq Nat
    /\ Accounts # {} /\ Mailboxes # {} /\ NoMailbox \notin Mailboxes
    /\ CodeAttempts \in Nat \ {0} /\ CodeLife \in Nat /\ RecoveryEnd \in Nat

VARIABLES
    recoveryClock,
    holder,          \* users and account_emails
    mailedCode,      \* account_recovery_codes, in the order of creation
    misses           \* history: wrong guesses while a code was the candidate

recoveryVars == <<recoveryClock, holder, mailedCode, misses>>
accountVars == <<recoveryVars, mailVars>>

Purposes == {"password_reset", "email_verify"}

\* A code is one mail; both are numbered in the order of issue.
MailedCodes == Mails

HolderRow == [active : BOOLEAN, pw : Nat, mailbox : Mailboxes \cup {NoMailbox}]
Row == [state : {"new", "active", "used", "superseded", "exhausted", "burned", "void",
                 "swept"},
        owner : Accounts, purpose : Purposes, to : Mailboxes, pw : Nat, expires : Nat]

RecoveryTypeOK ==
    /\ MailTypeOK
    /\ recoveryClock \in 0..RecoveryEnd
    /\ holder \in [Accounts -> HolderRow]
    /\ mailedCode \in [MailedCodes -> Row]
    /\ misses \in [MailedCodes -> Nat]

RecoveryInit ==
    /\ MailInit
    /\ recoveryClock = 0
    /\ holder = [a \in Accounts |-> [active |-> TRUE, pw |-> 0, mailbox |-> NoMailbox]]
    /\ mailedCode = [k \in MailedCodes |->
                        [state |-> "new", owner |-> CHOOSE a \in Accounts : TRUE,
                         purpose |-> "email_verify", to |-> CHOOSE m \in Mailboxes : TRUE,
                         pw |-> 0, expires |-> 0]]
    /\ misses = [k \in MailedCodes |-> 0]

Active(a, p) == {k \in MailedCodes : /\ mailedCode[k].state = "active"
                                     /\ mailedCode[k].owner = a /\ mailedCode[k].purpose = p}

\* The rows an UPDATE ... WHERE consumed_at IS NULL touches, with the reason.
Retire(rows, K, s) ==
    [k \in MailedCodes |-> IF k \in K THEN [rows[k] EXCEPT !.state = s] ELSE rows[k]]

-----------------------------------------------------------------------------
(* Codes.                                                                  *)

\* issue_code: older codes for the purpose are retired, a new one is stored.
IssueCode(a, p, to) ==
    \E k \in MailedCodes :
        /\ mailedCode[k].state = "new"
        /\ \A j \in MailedCodes : j < k => mailedCode[j].state # "new"
        /\ mailedCode' = [Retire(mailedCode, Active(a, p), "superseded") EXCEPT
                             ![k] = [state |-> "active", owner |-> a, purpose |-> p, to |-> to,
                                     pw |-> holder[a].pw, expires |-> recoveryClock + CodeLife]]
        /\ UNCHANGED <<recoveryClock, holder, misses, mailVars>>

\* Mutation of BoundTo: the key of a reset code leaves the password out.
BoundToMailbox(a, k) == mailedCode[k].owner = a /\ mailedCode[k].to = holder[a].mailbox

\* derive_password_reset_key: what the stored hash of a reset code is keyed with.
BoundTo(a, k) == /\ mailedCode[k].owner = a
                 /\ mailedCode[k].pw = holder[a].pw
                 /\ mailedCode[k].to = holder[a].mailbox

\* consume_code reads the newest unconsumed row, if it has not expired.
Candidate(a, p, k) ==
    /\ k \in Active(a, p) /\ \A j \in Active(a, p) : j <= k
    /\ mailedCode[k].expires > recoveryClock

\* A wrong guess is counted on the candidate; the last one retires it.
MissesNow(k) == misses[k] + 1

CountMiss(a, p) ==
    \E k \in MailedCodes :
        /\ Candidate(a, p, k)
        /\ misses' = [misses EXCEPT ![k] = MissesNow(k)]
        /\ mailedCode' = IF MissesNow(k) >= CodeAttempts
                         THEN Retire(mailedCode, {k}, "exhausted") ELSE mailedCode
        /\ UNCHANGED <<recoveryClock, holder, mailVars>>

-----------------------------------------------------------------------------
(* The recovery mailbox.                                                   *)

RequestEmailVerification(a, m) ==
    /\ holder[a].active
    /\ IssueCode(a, "email_verify", m)

\* verify_account_email with the candidate's code.  A mailbox of another
\* account violates the unique key and rolls everything back.
VerifyAccountEmail(a, k) ==
    LET m        == mailedCode[k].to
        replaced == IF holder[a].mailbox = m THEN {} ELSE Active(a, "password_reset")
    IN  /\ holder[a].active
        /\ Candidate(a, "email_verify", k)
        /\ k \in sentMails
        /\ \A b \in Accounts \ {a} : holder[b].mailbox # m
        /\ holder' = [holder EXCEPT ![a].mailbox = m]
        /\ mailedCode' = Retire(Retire(mailedCode, replaced, "void"), {k}, "used")
        /\ UNCHANGED <<recoveryClock, misses, mailVars>>

VerifyEmailWrongly(a) == holder[a].active /\ CountMiss(a, "email_verify")

RemoveAccountEmail(a) ==
    /\ holder[a].active /\ holder[a].mailbox # NoMailbox
    /\ holder' = [holder EXCEPT ![a].mailbox = NoMailbox]
    /\ mailedCode' = Retire(mailedCode, UNION {Active(a, p) : p \in Purposes}, "void")
    /\ UNCHANGED <<recoveryClock, misses, mailVars>>

-----------------------------------------------------------------------------
(* Password reset.                                                         *)

RequestPasswordReset(a) ==
    /\ holder[a].active /\ holder[a].mailbox # NoMailbox
    /\ IssueCode(a, "password_reset", holder[a].mailbox)

\* After the commit the code is handed to the mailer.
SendCode(k) ==
    /\ mailedCode[k].state # "new"
    /\ Reserve(k)
    /\ UNCHANGED recoveryVars

BurnUndelivered(k) ==
    Retire(mailedCode, {k} \cap Active(mailedCode[k].owner, "password_reset"), "burned")

\* MailUnavailable: the request burns the code it issued, by its row id.
MailRefused(k) ==
    /\ mail[k] = "busy" /\ mailedCode[k].purpose = "password_reset"
    /\ mail' = [mail EXCEPT ![k] = "refused"]
    /\ mailedCode' = BurnUndelivered(k)
    /\ UNCHANGED <<recoveryClock, holder, misses, mailsActive, stage, sentMails>>

\* confirm_password_reset with a code that was mailed to somebody.
ConfirmReset(a, k) ==
    /\ holder[a].active /\ holder[a].mailbox # NoMailbox
    /\ holder[a].pw < MaxPassword
    /\ k \in sentMails
    /\ Candidate(a, "password_reset", k)
    /\ BoundTo(a, k)
    /\ holder' = [holder EXCEPT ![a].pw = holder[a].pw + 1]
    /\ mailedCode' = Retire(Retire(mailedCode, Active(a, "password_reset"), "void"), {k}, "used")
    /\ UNCHANGED <<recoveryClock, misses, mailVars>>

ConfirmWrongly(a) ==
    /\ holder[a].active /\ holder[a].mailbox # NoMailbox
    /\ CountMiss(a, "password_reset")

-----------------------------------------------------------------------------
(* The rest of the account, time and the sweep.                            *)

\* change_password keeps the codes; the key they are bound with changes.
ChangeHolderPassword(a) ==
    /\ holder[a].active /\ holder[a].pw < MaxPassword
    /\ holder' = [holder EXCEPT ![a].pw = holder[a].pw + 1]
    /\ UNCHANGED <<recoveryClock, mailedCode, misses, mailVars>>

UpdateHolderStatus(a) ==
    /\ holder' = [holder EXCEPT ![a].active = ~holder[a].active]
    /\ UNCHANGED <<recoveryClock, mailedCode, misses, mailVars>>

\* enforce_retention deletes expired rows.
Expired == {k \in MailedCodes : /\ mailedCode[k].state = "active"
                                /\ mailedCode[k].expires <= recoveryClock}

SweepCodes ==
    /\ Expired # {}
    /\ mailedCode' = Retire(mailedCode, Expired, "swept")
    /\ UNCHANGED <<recoveryClock, holder, misses, mailVars>>

RecoveryTick ==
    /\ recoveryClock < RecoveryEnd
    /\ recoveryClock' = recoveryClock + 1
    /\ UNCHANGED <<holder, mailedCode, misses, mailVars>>

MailerStep ==
    /\ (\E k \in MailedCodes : MailStep(k)) \/ CloseMailer \/ Shutdown \/ Restart \/ MailLost
    /\ UNCHANGED recoveryVars

RecoveryNext ==
    \/ RecoveryTick \/ SweepCodes \/ MailerStep
    \/ \E k \in MailedCodes : SendCode(k) \/ MailRefused(k)
    \/ \E a \in Accounts, m \in Mailboxes : RequestEmailVerification(a, m)
    \/ \E a \in Accounts, k \in MailedCodes : VerifyAccountEmail(a, k) \/ ConfirmReset(a, k)
    \/ \E a \in Accounts : \/ VerifyEmailWrongly(a) \/ ConfirmWrongly(a) \/ RemoveAccountEmail(a)
                           \/ RequestPasswordReset(a) \/ ChangeHolderPassword(a)
                           \/ UpdateHolderStatus(a)

RecoverySpec == RecoveryInit /\ [][RecoveryNext]_accountVars

-----------------------------------------------------------------------------
(* Properties.                                                             *)

\* derive_password_reset_key: "A password or mailbox change immediately
\* invalidates a previously emailed code".  Whoever resets a password has a code
\* that reached the mailbox the account has now, requested under the password it
\* has now, and not guessed at MAX_CODE_ATTEMPTS times.
CurrentReset ==
    \A a \in Accounts, k \in MailedCodes :
        mailedCode[k].state = "active" /\ mailedCode'[k].state = "used"
            /\ mailedCode[k].purpose = "password_reset" /\ mailedCode[k].owner = a =>
        /\ k \in sentMails
        /\ mailedCode[k].to = holder[a].mailbox /\ holder[a].mailbox # NoMailbox
        /\ mailedCode[k].pw = holder[a].pw
        /\ misses[k] < CodeAttempts

\* request_password_reset: "A delivery failure must not consume a newer
\* request's code": a code that the mailer took is never burned.
OnlyRefusedCodesBurn ==
    \A k \in MailedCodes : mailedCode[k].state = "burned" => mail[k] = "refused"

\* A recovery mailbox is one account's, and somebody who reads it entered a code
\* for that account.
MailboxIsProved ==
    \A a \in Accounts : holder[a].mailbox # NoMailbox =>
        /\ \A b \in Accounts \ {a} : holder[b].mailbox # holder[a].mailbox
        /\ \E k \in sentMails :
              /\ mailedCode[k].owner = a /\ mailedCode[k].to = holder[a].mailbox
              /\ mailedCode[k].purpose = "email_verify" /\ mailedCode[k].state = "used"

\* derive_password_reset_key: "A password or mailbox change immediately
\* invalidates a previously emailed code"; a recovery mailbox is one account's, and
\* somebody who reads it entered a code for that account; a code the mailer took is
\* never burned by another request.
RecoveryIsProved ==
    [](RecoveryTypeOK /\ MailboxIsProved /\ OnlyRefusedCodesBurn) /\ [][CurrentReset]_accountVars
=============================================================================
