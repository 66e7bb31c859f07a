------------------------------- MODULE Mailer -------------------------------
(***************************************************************************)
(* The pool that delivers security mail off the request path               *)
(* (src/app/mailer.py): a finite number of slots, taken in one critical    *)
(* section and handed to the executor in another, given back when the      *)
(* future is done, and a close that may come between any two of these.     *)
(***************************************************************************)
EXTENDS Naturals, FiniteSets

CONSTANTS
    Mails,          \* messages, one send call each
    MailSlots,      \* max_pending
    Workers         \* max_workers of the executor

ASSUME MailerAssumption == IsFiniteSet(Mails) /\ MailSlots \in Nat

VARIABLES
    mail,           \* where each message is
    mailsActive,    \* _active
    stage,          \* _closed and the close() call: "open", "closing", "closed"
    sentMails       \* messages the transport handed to their mailbox

mailVars == <<mail, mailsActive, stage, sentMails>>

\* A message holds a slot from its reservation until its callback has run.
Holding == {"reserved", "queued", "sending", "done", "cancelled"}

MailTypeOK ==
    /\ mail \in [Mails -> Holding \cup {"none", "busy", "refused", "over"}]
    /\ mailsActive \in Nat
    /\ stage \in {"open", "closing", "closed"}
    /\ sentMails \subseteq Mails

MailInit ==
    /\ mail = [m \in Mails |-> "none"]
    /\ mailsActive = 0
    /\ stage = "open"
    /\ sentMails = {}

In(s) == {m \in Mails : mail[m] = s}

HasMailSlot == mailsActive < MailSlots

\* send, first critical section: a slot, or MailBusy.
Reserve(m) ==
    /\ mail[m] = "none"
    /\ IF stage = "open" /\ HasMailSlot
       THEN mail' = [mail EXCEPT ![m] = "reserved"] /\ mailsActive' = mailsActive + 1
       ELSE mail' = [mail EXCEPT ![m] = "busy"] /\ UNCHANGED mailsActive
    /\ UNCHANGED <<stage, sentMails>>

\* send, second critical section: closing may have begun in between.
Submit(m) ==
    /\ mail[m] = "reserved"
    /\ IF stage = "open"
       THEN mail' = [mail EXCEPT ![m] = "queued"] /\ UNCHANGED mailsActive
       ELSE mail' = [mail EXCEPT ![m] = "busy"] /\ mailsActive' = mailsActive - 1
    /\ UNCHANGED <<stage, sentMails>>

\* A worker of the executor takes the message.
Take(m) ==
    /\ mail[m] = "queued"
    /\ Cardinality(In("sending")) < Workers
    /\ mail' = [mail EXCEPT ![m] = "sending"]
    /\ UNCHANGED <<mailsActive, stage, sentMails>>

\* _deliver: the transport fails, or answers too late, or delivers.
Deliver(m, arrives) ==
    /\ mail[m] = "sending"
    /\ mail' = [mail EXCEPT ![m] = "done"]
    /\ sentMails' = IF arrives THEN sentMails \cup {m} ELSE sentMails
    /\ UNCHANGED <<mailsActive, stage>>

\* Mutation of Forgotten: only a delivery that ran gives its slot back.
ForgottenIfRun == {"done"}

\* add_done_callback: a future that was cancelled is done too.
Forgotten == {"done", "cancelled"}

\* _forget, the callback of the future.
Forget(m) ==
    /\ mail[m] \in Forgotten
    /\ mail' = [mail EXCEPT ![m] = "over"]
    /\ mailsActive' = mailsActive - 1
    /\ UNCHANGED <<stage, sentMails>>

\* close: refuse new work ...
CloseMailer ==
    /\ stage = "open"
    /\ stage' = "closing"
    /\ UNCHANGED <<mail, mailsActive, sentMails>>

\* ... wait for a while, then cancel what no worker has taken.
Shutdown ==
    /\ stage = "closing"
    /\ stage' = "closed"
    /\ mail' = [m \in Mails |-> IF mail[m] = "queued" THEN "cancelled" ELSE mail[m]]
    /\ UNCHANGED <<mailsActive, sentMails>>

\* start of the next lifespan; it raises while an old delivery is still active.
Restart ==
    /\ stage = "closed"
    /\ mailsActive = 0
    /\ stage' = "open"
    /\ UNCHANGED <<mail, mailsActive, sentMails>>

\* The process dies; the next one starts with an empty mailer.
MailLost ==
    /\ mail' = [m \in Mails |-> IF mail[m] \in Holding \cup {"busy"} THEN "over"
                                                               ELSE mail[m]]
    /\ mailsActive' = 0
    /\ stage' = "open"
    /\ UNCHANGED sentMails

MailStep(m) ==
    \/ Submit(m) \/ Take(m) \/ Forget(m)
    \/ \E arrives \in BOOLEAN : Deliver(m, arrives)

\* Threads and the pool keep running.
MailFairness == \A m \in Mails : WF_mailVars(MailStep(m))

-----------------------------------------------------------------------------
(* Properties.                                                             *)

\* Every slot of the budget is held by exactly one message, through refusals,
\* failures and cancellations; the budget is kept; and once the mailer is
\* closed nothing is left for a worker to take, so nothing reaches a mailbox
\* from a lifespan that ended.
MailSlotsAreAccounted ==
    /\ mailsActive = Cardinality({m \in Mails : mail[m] \in Holding})
    /\ mailsActive <= MailSlots
    /\ stage = "closed" => In("queued") = {}

\* A message that took a slot gives it back.
EverySlotReturns == \A m \in Mails : mail[m] \in Holding ~> mail[m] \notin Holding
=============================================================================
