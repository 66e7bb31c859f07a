---------------------------- MODULE ExportTickets ----------------------------
(***************************************************************************)
(* One-use download tickets for a conversation (src/app/main.py): issued   *)
(* after a step-up under the account lock, redeemed without a bearer       *)
(* token, remembered in the denylist, and forgotten by the sweep; and the  *)
(* export itself, which is read page by page while the owner goes on.      *)
(*                                                                         *)
(* Redeeming reads the denylist before it takes the account lock and       *)
(* checks everything after.  All workers read one clock.  The messages of  *)
(* a standard conversation are numbered as they are stored; an envelope of *)
(* a private one has its place by the clock of the worker that stored it.  *)
(***************************************************************************)
EXTENDS Naturals, Sequences, FiniteSets

CONSTANTS
    Tickets, Logins, Calls,
    Life,            \* 60 seconds
    StepUpLife,      \* how long a step-up is recent
    Retention,       \* the conversation's deadline
    Private,         \* whether the conversation is private_e2ee
    Page,            \* rows of a page: 100 in the code
    MaxRow,          \* bound: places of rows
    MaxVersion,      \* bound: password changes and the like
    MaxTicketTime    \* bound: time

\* Sixty seconds, a hundred rows and a deadline of days: only that a page has
\* room for a row matters.
ASSUME TicketsAssumption ==
    /\ {Life, StepUpLife, Retention, MaxRow, MaxVersion, MaxTicketTime} \subseteq Nat
    /\ Page \in Nat \ {0}
    /\ Private \in BOOLEAN /\ Logins # {}
    /\ "idle" \notin Tickets

VARIABLES
    now,
    version,         \* users.token_version
    signin,          \* auth_sessions: state and time of the last step-up
    conversation,            \* the conversation: "kept" or "gone"
    rows,            \* its messages or envelopes, by place
    stream,          \* stream_session_export: what was there when it began, and
                     \* what it has yielded
    ticket,          \* what the signed ticket says
    ledger,          \* revoked_tokens with reason export_consumed
    redeeming,            \* consume_export_ticket calls
    downloads        \* history: exports streamed for each ticket

ticketVars == <<now, version, signin, conversation, rows, stream, ticket, ledger, redeeming, downloads>>

NoStream == [state |-> "none", had |-> {}, out |-> <<>>]

NoTicket == [made |-> FALSE, login |-> CHOOSE s \in Logins : TRUE, version |-> 0, expires |-> 0]

TicketTypeOK ==
    /\ now \in 0..MaxTicketTime /\ version \in 0..MaxVersion
    /\ signin \in [Logins -> [state : {"live", "rotated", "ended"}, stepUp : Nat]]
    /\ conversation \in {"kept", "gone"} /\ rows \subseteq 1..MaxRow
    /\ stream \in [Calls -> [state : {"none", "on", "done"}, had : SUBSET (1..MaxRow),
                             out : Seq(1..MaxRow)]]
    /\ ticket \in [Tickets -> [made : BOOLEAN, login : Logins, version : Nat, expires : Nat]]
    /\ ledger \subseteq Tickets
    /\ redeeming \in [Calls -> Tickets \cup {"idle"}]
    /\ downloads \in [Tickets -> Nat]

TicketInit ==
    /\ now = 0 /\ version = 0 /\ conversation = "kept"
    /\ rows = {} /\ stream = [i \in Calls |-> NoStream]
    /\ signin = [s \in Logins |-> [state |-> "live", stepUp |-> 0]]
    /\ ticket = [k \in Tickets |-> NoTicket]
    /\ ledger = {}
    /\ redeeming = [i \in Calls |-> "idle"]
    /\ downloads = [k \in Tickets |-> 0]

PastRetention == now >= Retention

\* The conversation with its messages, by the cascade of the delete.
Purged == conversation' = "gone" /\ rows' = {}

Begun == [state |-> "on", had |-> rows, out |-> <<>>]

\* create_export_ticket: lock_account_mutation with a recent step-up, the owner's
\* conversation, and a ticket bound to all of them.
CreateExportTicket(s, k) ==
    /\ ~ticket[k].made
    /\ signin[s].state = "live" /\ now < signin[s].stepUp + StepUpLife
    /\ conversation = "kept"
    /\ IF PastRetention THEN Purged /\ UNCHANGED ticket
       ELSE /\ ticket' = [ticket EXCEPT ![k] = [made |-> TRUE, login |-> s, version |-> version,
                                                expires |-> now + Life]]
            /\ UNCHANGED <<conversation, rows>>
    /\ UNCHANGED <<now, version, signin, stream, ledger, redeeming, downloads>>

\* consume_export_ticket before the lock: the signature, the expiry, the ledger.
Present(i, k) ==
    /\ redeeming[i] = "idle" /\ stream[i].state = "none"
    /\ ticket[k].made /\ now < ticket[k].expires
    /\ k \notin ledger
    /\ redeeming' = [redeeming EXCEPT ![i] = k]
    /\ UNCHANGED <<now, version, signin, conversation, rows, stream, ticket, ledger, downloads>>

\* The second read of the denylist, and the primary key of the insert.
AlreadyUsed(k) == k \in ledger

\* ... and after it.
Consume(i) ==
    LET k == redeeming[i]
    IN  /\ k # "idle"
        /\ redeeming' = [redeeming EXCEPT ![i] = "idle"]
        /\ IF /\ ticket[k].version = version
              /\ signin[ticket[k].login].state = "live"
              /\ now < ticket[k].expires
              /\ ~AlreadyUsed(k)
              /\ conversation = "kept"
           THEN IF PastRetention THEN Purged /\ UNCHANGED <<stream, ledger, downloads>>
                ELSE /\ ledger' = ledger \cup {k}
                     /\ downloads' = [downloads EXCEPT ![k] = @ + 1]
                     /\ stream' = [stream EXCEPT ![i] = Begun]
                     /\ UNCHANGED <<conversation, rows>>
           ELSE UNCHANGED <<conversation, rows, stream, ledger, downloads>>
        /\ UNCHANGED <<now, version, signin, ticket>>

\* export_session_endpoint: the same export with a bearer token and a recent
\* step-up.
ExportSession(i, s) ==
    /\ redeeming[i] = "idle" /\ stream[i].state = "none"
    /\ signin[s].state = "live" /\ now < signin[s].stepUp + StepUpLife
    /\ conversation = "kept"
    /\ IF PastRetention THEN Purged /\ UNCHANGED stream
                  ELSE stream' = [stream EXCEPT ![i] = Begun] /\ UNCHANGED <<conversation, rows>>
    /\ UNCHANGED <<now, version, signin, ticket, ledger, redeeming, downloads>>

\* The rows past the last one of the page before.
LastRow(out) == IF out = <<>> THEN 0 ELSE out[Len(out)]
AfterRow(r, last) == r > last

Left(i) == {r \in rows : AfterRow(r, LastRow(stream[i].out))}

\* ORDER BY with a LIMIT, and its result as the loop reads it.
FirstPage(S) == {r \in S : Cardinality({q \in S : q < r}) < Page}
InOrder(S) == [n \in 1..Cardinality(S) |-> CHOOSE r \in S : Cardinality({q \in S : q < r}) = n - 1]

\* stream_session_export: the next page in order, read when the client has taken
\* the one before; an empty page ends the export.
StreamPage(i) ==
    /\ stream[i].state = "on"
    /\ stream' = IF FirstPage(Left(i)) = {} THEN [stream EXCEPT ![i].state = "done"]
                 ELSE [stream EXCEPT ![i].out = @ \o InOrder(FirstPage(Left(i)))]
    /\ UNCHANGED <<now, version, signin, conversation, rows, ticket, ledger, redeeming, downloads>>

\* save_exchange or send_e2ee_envelope, while nothing holds an export up.
StoreRow(r) ==
    /\ conversation = "kept" /\ ~PastRetention
    /\ r \notin rows /\ (~Private => \A q \in rows : q < r)
    /\ rows' = rows \cup {r}
    /\ UNCHANGED <<now, version, signin, conversation, stream, ticket, ledger, redeeming, downloads>>

\* refresh, logout and expiry of the sign-in.
EndSignIn(s, how) ==
    /\ signin[s].state = "live"
    /\ signin' = [signin EXCEPT ![s].state = how]
    /\ UNCHANGED <<now, version, conversation, rows, stream, ticket, ledger, redeeming, downloads>>

\* change_password, logout_all: every bearer of the account is out of date.
RaiseVersion ==
    /\ version < MaxVersion
    /\ version' = version + 1
    /\ signin' = [s \in Logins |-> [signin[s] EXCEPT !.state = "ended"]]
    /\ UNCHANGED <<now, conversation, rows, stream, ticket, ledger, redeeming, downloads>>

DeleteConversation ==
    /\ conversation = "kept" /\ Purged
    /\ UNCHANGED <<now, version, signin, stream, ticket, ledger, redeeming, downloads>>

\* Mutation of Forgettable: the sweep does not wait for the ticket to expire.
ConsumedLongEnough(k) == TRUE

\* enforce_retention: rows of the denylist whose token has expired.
Forgettable(k) == ticket[k].expires <= now

Sweep(k) ==
    /\ k \in ledger /\ Forgettable(k)
    /\ ledger' = ledger \ {k}
    /\ UNCHANGED <<now, version, signin, conversation, rows, stream, ticket, redeeming, downloads>>

TicketTick ==
    /\ now < MaxTicketTime
    /\ now' = now + 1
    /\ UNCHANGED <<version, signin, conversation, rows, stream, ticket, ledger, redeeming, downloads>>

TicketNext ==
    \/ TicketTick \/ RaiseVersion \/ DeleteConversation
    \/ \E s \in Logins, k \in Tickets : CreateExportTicket(s, k)
    \/ \E s \in Logins, how \in {"rotated", "ended"} : EndSignIn(s, how)
    \/ \E i \in Calls, k \in Tickets : Present(i, k)
    \/ \E i \in Calls : Consume(i) \/ StreamPage(i)
    \/ \E i \in Calls, s \in Logins : ExportSession(i, s)
    \/ \E r \in 1..MaxRow : StoreRow(r)
    \/ \E k \in Tickets : Sweep(k)

TicketSpec == TicketInit /\ [][TicketNext]_ticketVars

-----------------------------------------------------------------------------
(* Properties.                                                             *)

\* "Issue a 60-second one-use browser download capability": a ticket streams one
\* export, never after its sign-in was rotated or ended and never of a
\* conversation that is gone, whoever redeems it at the same time and whenever
\* the sweep forgets it.
OpensOnce ==
    \A k \in Tickets : downloads'[k] # downloads[k] =>
        /\ downloads[k] = 0 /\ downloads'[k] = 1
        /\ now < ticket[k].expires /\ ticket[k].version = version
        /\ signin[ticket[k].login].state = "live"
        /\ conversation = "kept" /\ ~PastRetention

\* An export yields each row once and in order although rows are stored between
\* its pages, and it ends with every row that was there when it began, unless the
\* conversation was deleted under it.
ExportIsWhole ==
    \A i \in Calls :
        /\ \A m, n \in 1..Len(stream[i].out) : m < n => stream[i].out[m] < stream[i].out[n]
        /\ stream[i].state = "done" /\ conversation = "kept" =>
              \A r \in stream[i].had : \E n \in 1..Len(stream[i].out) : stream[i].out[n] = r

\* An export ticket opens one export, of a live sign-in and a kept conversation,
\* and an export is whole.
TicketOpensOneExport == []ExportIsWhole /\ [][OpensOnce]_ticketVars
=============================================================================
