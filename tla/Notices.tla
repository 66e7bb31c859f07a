------------------------------- MODULE Notices ------------------------------
(***************************************************************************)
(* Optional security notices: verified phones, browser subscriptions and   *)
(* the worker pool that delivers to both (src/app/notification_routes.py,  *)
(* src/app/security_notifications.py).                                     *)
(*                                                                         *)
(* Routes hold the account lock and are one step; the SMS leaves after the *)
(* commit.  A delivery reads its destinations in one transaction and calls *)
(* the providers afterwards, without any lock.  Destinations are encrypted *)
(* with the account's key, which changes nothing here.                     *)
(***************************************************************************)
EXTENDS Naturals, Sequences, FiniteSets

CONSTANTS
    Recipients, AlertBearers, Phones, Endpoints, Tasks,
    NoRecipient,
    HourLimit, DayLimit,   \* phone challenges of one account in an hour, in a day
    TargetLimit,           \* phone challenges to one number in an hour
    Day,                   \* a day, in hours
    MaxGuesses,            \* attempts on one challenge
    MaxEndpoints,          \* subscriptions of one account
    MaxNotices,            \* deliveries pending at once
    MaxIssued,             \* bound: phone challenges ever
    MaxRows,               \* bound: subscription rows ever
    MaxRowVersion,         \* bound: subscriptions kept in one row, one after another
    MaxHour                \* bound: time

ASSUME NoticesAssumption ==
    /\ NoRecipient \notin AlertBearers \cup Recipients \cup Phones
    /\ HourLimit \in Nat /\ DayLimit \in Nat /\ TargetLimit \in Nat
    /\ Day \in Nat \ {0} /\ MaxGuesses \in Nat \ {0} /\ MaxHour \in Nat
    /\ MaxRowVersion \in Nat \ {0}

VARIABLES
    hour,
    alertBearer,    \* owner of each live session
    phone,          \* security_phones
    proof,          \* security_phone_challenges, in the order of issue
    texts,          \* external: challenges whose SMS arrived
    row,            \* security_push_subscriptions, by row id
    task,           \* _deliver calls
    stopped,        \* _closed and _stop
    gone            \* external: what push services dropped, by row and version

noticeVars == <<hour, alertBearer, phone, proof, texts, row, task, stopped, gone>>

PhoneProof == [state : {"open", "used", "exhausted", "superseded", "removed", "swept"},
               owner : Recipients, bearer : AlertBearers \cup {NoRecipient},
               phone : Phones, born : Nat, guesses : Nat]

\* A row of one browser; its version tells the subscriptions encrypted in it apart.
Subscription == [owner : Recipients \cup {NoRecipient}, endpoint : Endpoints,
                 version : 1..MaxRowVersion]

\* What was read of a row, or dropped: its id and version.
Reading == (1..Len(row)) \X (1..MaxRowVersion)

NoDelivery == [pc |-> "idle", owner |-> NoRecipient, rows |-> {}, expired |-> 0,
               phone |-> NoRecipient]

\* A delivery with the subscriptions it has read and not pushed to, and the row
\* of the one that was answered with SubscriptionExpired.
Delivery == [pc : {"queued", "sending"}, owner : Recipients, rows : SUBSET Reading,
             expired : 0..Len(row), phone : Phones \cup {NoRecipient}]

NoticeTypeOK ==
    /\ hour \in 0..MaxHour
    /\ alertBearer \in [AlertBearers -> Recipients \cup {NoRecipient}]
    /\ phone \in [Recipients -> Phones \cup {NoRecipient}]
    /\ proof \in Seq(PhoneProof)
    /\ texts \subseteq 1..Len(proof)
    /\ row \in Seq(Subscription)
    /\ task \in [Tasks -> {NoDelivery} \cup Delivery]
    /\ stopped \in BOOLEAN
    /\ gone \subseteq Reading

NoticeInit ==
    /\ hour = 0
    /\ alertBearer \in [AlertBearers -> Recipients]
    /\ phone = [a \in Recipients |-> NoRecipient]
    /\ proof = <<>>
    /\ texts = {}
    /\ row = <<>>
    /\ task = [t \in Tasks |-> NoDelivery]
    /\ stopped = FALSE
    /\ gone = {}

-----------------------------------------------------------------------------
(* Phones.                                                                 *)

\* Rows of security_phone_challenges that are still there.
Stored == {i \in 1..Len(proof) : proof[i].state # "swept"}

\* Challenges the budget sees: those created in the last n hours.
ProofsIssued(a, n) == {i \in Stored : proof[i].owner = a /\ proof[i].born + n > hour}

\* Challenges to one number, whoever asked for them.  Two accounts are counted under
\* locks of their own; the limiter they share has a key for the number, with the
\* same limit, so that they do not pass together.
SentTo(p) == {i \in Stored : proof[i].phone = p /\ proof[i].born + 1 > hour}

Update(I, s) ==
    [i \in 1..Len(proof) |-> IF i \in I THEN [proof[i] EXCEPT !.state = s] ELSE proof[i]]

Open(a) == {i \in Stored : proof[i].owner = a /\ proof[i].state = "open"}

\* request_phone: the durable budget, then a new challenge instead of the old.
RequestPhone(s, a, p) ==
    /\ alertBearer[s] = a
    /\ Len(proof) < MaxIssued
    /\ Cardinality(ProofsIssued(a, 1)) < HourLimit
    /\ Cardinality(ProofsIssued(a, Day)) < DayLimit
    /\ Cardinality(SentTo(p)) < TargetLimit
    /\ proof' = Append(Update(Open(a), "superseded"),
                       [state |-> "open", owner |-> a, bearer |-> s, phone |-> p,
                        born |-> hour, guesses |-> 0])
    /\ UNCHANGED <<hour, alertBearer, phone, texts, row, task, stopped, gone>>

\* send_verification after the commit; if it fails the budget is spent anyway.
TextArrives(i) ==
    /\ i \in Stored \ texts
    /\ texts' = texts \cup {i}
    /\ UNCHANGED <<hour, alertBearer, phone, proof, row, task, stopped, gone>>

\* A challenge answers only to the session that asked, while it lasts.
Valid(s, a, i) == /\ i \in Open(a) /\ alertBearer[s] = a
                  /\ proof[i].bearer = s /\ proof[i].born = hour

VerifyPhone(s, a, i) ==
    /\ Valid(s, a, i) /\ i \in texts
    /\ phone' = [phone EXCEPT ![a] = proof[i].phone]
    /\ proof' = Update({i}, "used")
    /\ UNCHANGED <<hour, alertBearer, texts, row, task, stopped, gone>>

VerifyPhoneWrongly(s, a, i) ==
    /\ Valid(s, a, i)
    /\ proof' = [proof EXCEPT
          ![i].guesses = @ + 1,
          ![i].state = IF proof[i].guesses + 1 >= MaxGuesses THEN "exhausted" ELSE "open"]
    /\ UNCHANGED <<hour, alertBearer, phone, texts, row, task, stopped, gone>>

\* Mutation of RemovedKept: removing the phone deletes its challenges.
RemovedForgotten(a) == Update({i \in Stored : proof[i].owner = a}, "swept")

RemovedKept(a) == Update(Open(a), "removed")

\* remove_phone: proofs are invalidated, the issuance budget is kept.
RemovePhone(s, a) ==
    /\ alertBearer[s] = a
    /\ phone' = [phone EXCEPT ![a] = NoRecipient]
    /\ proof' = RemovedKept(a)
    /\ UNCHANGED <<hour, alertBearer, texts, row, task, stopped, gone>>

\* A session ends; ON DELETE SET NULL keeps its challenges as evidence.
Logout(s) ==
    /\ alertBearer[s] # NoRecipient
    /\ alertBearer' = [alertBearer EXCEPT ![s] = NoRecipient]
    /\ proof' = [i \in 1..Len(proof) |->
                    IF proof[i].bearer = s THEN [proof[i] EXCEPT !.bearer = NoRecipient]
                                           ELSE proof[i]]
    /\ UNCHANGED <<hour, phone, texts, row, task, stopped, gone>>

\* enforce_retention, and the clean-up in request_phone.
SweepProofs ==
    /\ \E i \in Stored : proof[i].born + 2 * Day <= hour
    /\ proof' = Update({i \in Stored : proof[i].born + 2 * Day <= hour}, "swept")
    /\ UNCHANGED <<hour, alertBearer, phone, texts, row, task, stopped, gone>>

-----------------------------------------------------------------------------
(* Browser subscriptions.                                                  *)

RowsOf(a) == {i \in 1..Len(row) : row[i].owner = a}

Registered(e) == {i \in 1..Len(row) : row[i].owner # NoRecipient /\ row[i].endpoint = e}

\* subscribe_push: one row per endpoint (a unique key).  The owner's row of that
\* endpoint keeps its id and takes the new subscription; another owner's refuses it.
SubscribePush(s, a, e) ==
    /\ alertBearer[s] = a
    /\ \/ /\ Registered(e) = {}
          /\ Cardinality(RowsOf(a)) < MaxEndpoints /\ Len(row) < MaxRows
          /\ row' = Append(row, [owner |-> a, endpoint |-> e, version |-> 1])
       \/ \E i \in Registered(e) \cap RowsOf(a) :
             row[i].version < MaxRowVersion /\ row' = [row EXCEPT ![i].version = @ + 1]
    /\ UNCHANGED <<hour, alertBearer, phone, proof, texts, task, stopped, gone>>

\* unsubscribe_push and unsubscribe_all_push.
Unsubscribe(s, a, I) ==
    /\ alertBearer[s] = a
    /\ I # {} /\ I \subseteq RowsOf(a)
    /\ row' = [i \in 1..Len(row) |->
                  IF i \in I THEN [row[i] EXCEPT !.owner = NoRecipient] ELSE row[i]]
    /\ UNCHANGED <<hour, alertBearer, phone, proof, texts, task, stopped, gone>>

\* The push service drops the subscription that a row holds.
Drop(i) ==
    /\ <<i, row[i].version>> \notin gone
    /\ gone' = gone \cup {<<i, row[i].version>>}
    /\ UNCHANGED <<hour, alertBearer, phone, proof, texts, row, task, stopped>>

-----------------------------------------------------------------------------
(* Delivery.                                                               *)

Pending == {t \in Tasks : task[t].pc # "idle"}

\* notify: dropped when stopped or when the pool is full.
Notify(t, a) ==
    /\ ~stopped /\ Cardinality(Pending) < MaxNotices
    /\ task[t].pc = "idle"
    /\ task' = [task EXCEPT ![t] = [NoDelivery EXCEPT !.pc = "queued", !.owner = a]]
    /\ UNCHANGED <<hour, alertBearer, phone, proof, texts, row, stopped, gone>>

\* _deliver reads where the notice goes.
Lookup(t) ==
    /\ task[t].pc = "queued" /\ ~stopped
    /\ task' = [task EXCEPT ![t].pc = "sending",
                            ![t].rows = {<<i, row[i].version>> : i \in RowsOf(task[t].owner)},
                            ![t].phone = phone[task[t].owner]]
    /\ UNCHANGED <<hour, alertBearer, phone, proof, texts, row, stopped, gone>>

\* Mutation of DeleteByRow: a gone subscription is deleted by its endpoint.
DeleteByEndpoint(t, i) ==
    [j \in 1..Len(row) |-> IF row[j].endpoint = row[i].endpoint
                           THEN [row[j] EXCEPT !.owner = NoRecipient] ELSE row[j]]

DeleteByRow(t, i) ==
    [j \in 1..Len(row) |-> IF j = i /\ row[j].owner = task[t].owner
                           THEN [row[j] EXCEPT !.owner = NoRecipient] ELSE row[j]]

\* The push service refuses an endpoint that it dropped after it was read, or before.
AnswersGone(x) == \E v \in x[2]..row[x[1]].version : <<x[1], v>> \in gone

\* One push to a subscription that was read, and its answer.
Push(t, x) ==
    /\ task[t].pc = "sending" /\ ~stopped /\ task[t].expired = 0
    /\ x \in task[t].rows
    /\ task' = [task EXCEPT ![t].rows = @ \ {x},
                            ![t].expired = IF AnswersGone(x) THEN x[1] ELSE 0]
    /\ UNCHANGED <<hour, alertBearer, phone, proof, texts, row, stopped, gone>>

\* SubscriptionExpired: in a transaction of its own, unless the pool has stopped,
\* the row that was read is deleted.
DeleteExpired(t) ==
    /\ task[t].expired # 0 /\ ~stopped
    /\ row' = DeleteByRow(t, task[t].expired)
    /\ task' = [task EXCEPT ![t].expired = 0]
    /\ UNCHANGED <<hour, alertBearer, phone, proof, texts, stopped, gone>>

\* The SMS after the pushes; or the account is not active, the deletion failed or
\* the pool has stopped: the future is done.
Finish(t) ==
    /\ \/ task[t].pc = "sending" /\ task[t].rows = {} /\ task[t].expired = 0
       \/ task[t].pc = "queued" \/ task[t].expired # 0
       \/ task[t].pc # "idle" /\ stopped
    /\ task' = [task EXCEPT ![t] = NoDelivery]
    /\ UNCHANGED <<hour, alertBearer, phone, proof, texts, row, stopped, gone>>

CloseNotices ==
    /\ ~stopped
    /\ stopped' = TRUE
    /\ UNCHANGED <<hour, alertBearer, phone, proof, texts, row, task, gone>>

\* start refuses while futures of the last lifespan are not done.
StartNotices ==
    /\ stopped /\ Pending = {}
    /\ stopped' = FALSE
    /\ UNCHANGED <<hour, alertBearer, phone, proof, texts, row, task, gone>>

NoticeTick ==
    /\ hour < MaxHour
    /\ hour' = hour + 1
    /\ UNCHANGED <<alertBearer, phone, proof, texts, row, task, stopped, gone>>

PhoneStep ==
    \/ NoticeTick \/ SweepProofs
    \/ \E i \in 1..Len(proof) : TextArrives(i)
    \/ \E s \in AlertBearers : Logout(s)
    \/ \E s \in AlertBearers, a \in Recipients, p \in Phones : RequestPhone(s, a, p)
    \/ \E s \in AlertBearers, a \in Recipients : RemovePhone(s, a)
    \/ \E s \in AlertBearers, a \in Recipients, i \in 1..Len(proof) :
          VerifyPhone(s, a, i) \/ VerifyPhoneWrongly(s, a, i)

PushStep ==
    \/ CloseNotices \/ StartNotices
    \/ \E i \in 1..Len(row) : Drop(i)
    \/ \E s \in AlertBearers, a \in Recipients, e \in Endpoints : SubscribePush(s, a, e)
    \/ \E s \in AlertBearers, a \in Recipients : \E I \in SUBSET RowsOf(a) : Unsubscribe(s, a, I)
    \/ \E t \in Tasks, a \in Recipients : Notify(t, a)
    \/ \E t \in Tasks : Lookup(t) \/ DeleteExpired(t) \/ Finish(t)
    \/ \E t \in Tasks : \E x \in task[t].rows : Push(t, x)

NoticeNext == PhoneStep \/ PushStep

NoticeSpec == NoticeInit /\ [][NoticeNext]_noticeVars

-----------------------------------------------------------------------------
(* Properties.                                                             *)

\* The challenges of an account in the n hours from h, swept or not.
BornIn(a, h, n) == {i \in 1..Len(proof) : /\ proof[i].owner = a
                                          /\ h <= proof[i].born /\ proof[i].born < h + n}

\* remove_phone "must not reset the durable hourly/day SMS issuance budget", and
\* neither may the end of a session or the sweep: whatever the owner does, no
\* hour and no day sees more challenges of an account, or to a number, than
\* their limits.
SmsBudgetIsDurable ==
    /\ \A p \in Phones, h \in 0..hour :
          Cardinality({i \in 1..Len(proof) : proof[i].phone = p /\ proof[i].born = h})
             <= TargetLimit
    /\ \A a \in Recipients, h \in 0..hour :
          Cardinality(BornIn(a, h, 1)) <= HourLimit /\ Cardinality(BornIn(a, h, Day)) <= DayLimit

\* A phone is alerted only after the session that named it entered the code that
\* reached it, within MaxGuesses attempts.
ProvedPhone ==
    \A a \in Recipients : phone'[a] \notin {phone[a], NoRecipient} =>
        \E i \in texts : /\ proof[i].owner = a /\ proof[i].phone = phone'[a]
                         /\ proof[i].guesses < MaxGuesses
                         /\ proof[i].bearer # NoRecipient /\ alertBearer[proof[i].bearer] = a

\* A phone is alerted only after the session that named it entered the code that
\* reached it, and no order of requests, removals, ended sessions and sweeps lets an
\* account or a number exceed the budget of verification texts.
PhoneIsProved ==
    [](NoticeTypeOK /\ SmsBudgetIsDurable) /\ [][ProvedPhone]_noticeVars

\* The subscription in row j, or one that it replaced there, was dropped.
WasDropped(j) == \E v \in 1..row[j].version : <<j, v>> \in gone

\* A delivery deletes its recipient's rows only, and of them none that holds nothing
\* but subscriptions which their push service never dropped.
FreshRowsKept ==
    \A t \in Tasks, j \in 1..Len(row) :
        DeleteExpired(t) /\ row'[j] # row[j] => row[j].owner = task[t].owner /\ WasDropped(j)

\* A delivery that learns too late that a subscription is gone deletes no row that
\* was made since: an endpoint unsubscribed and subscribed again, by the same account
\* or by another, stays.  One exception is the code's: a subscription renewed in the
\* row that was read keeps the row's id, and is deleted with it.
FreshSubscriptionStays == [][FreshRowsKept]_noticeVars
=============================================================================
